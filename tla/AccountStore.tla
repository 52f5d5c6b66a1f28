---------------------------- MODULE AccountStore ----------------------------
(***************************************************************************)
(* What the writing half of domain.UserRepository comes to, the interface  *)
(* of internal/domain/user.go as internal/repository/user_repository.go    *)
(* implements it: an account is created once, with the role of a customer, *)
(* gains and loses one role at a time, and is deleted once.  Each call     *)
(* takes effect at once, or not at all.                                    *)
(*                                                                         *)
(* A call to change the roles may take effect on an account that was       *)
(* deleted meanwhile; its status never changes again.                      *)
(***************************************************************************)
CONSTANTS
  User,
  Role,      \* the roles there are
  Customer   \* the role of a new account

VARIABLE account

Init == account = [u \in User |-> [status |-> "absent", roles |-> {}]]

Create(u) ==
  /\ account[u].status = "absent"
  /\ account' = [account EXCEPT ![u] = [status |-> "active", roles |-> {Customer}]]

AssignRole(u, r) ==
  /\ account[u].status # "absent"
  /\ r \notin account[u].roles
  /\ account' = [account EXCEPT ![u].roles = @ \cup {r}]

RevokeRole(u, r) ==
  /\ r \in account[u].roles
  /\ account' = [account EXCEPT ![u].roles = @ \ {r}]

Delete(u) ==
  /\ account[u].status = "active"
  /\ account' = [account EXCEPT ![u].status = "deleted"]

Next ==
  \E u \in User :
    \/ Create(u)
    \/ Delete(u)
    \/ \E r \in Role : AssignRole(u, r) \/ RevokeRole(u, r)

Spec == Init /\ [][Next]_account
=============================================================================
