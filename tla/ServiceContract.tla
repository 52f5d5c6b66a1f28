--------------------------- MODULE ServiceContract ---------------------------
(***************************************************************************)
(* What a caller may expect of domain.UserService, the interface of        *)
(* internal/domain/user.go, about sessions and accounts together: every    *)
(* method takes effect at once, or not at all, on the sessions of          *)
(* AuthSessionStore and the accounts of AccountStore.                      *)
(*                                                                         *)
(*   - Authenticate and RefreshToken store a session that says what the    *)
(*     account of an active user says at that moment.                      *)
(*   - Logout, LogoutAll, the methods that change an account, and time end *)
(*     sessions of one user.                                               *)
(*   - CreateUser, AssignRole, RevokeRole and DeleteUser change an account *)
(*     only while its user has no session.                                 *)
(***************************************************************************)
EXTENDS AuthSessionStore

CONSTANTS
  User, Role, Customer,  \* as in AccountStore
  Canonical              \* how a session names a user

VARIABLE account

Accounts == INSTANCE AccountStore

serviceVars == <<vars, account>>

ServiceInit == Init /\ Accounts!Init

\* The session of a user, with the roles the user has now.
SessionOf(u, p) == [user |-> Canonical[u], roles |-> account[u].roles, pair |-> p]

Authenticate(u, s, p) ==
  /\ account[u].status = "active"
  /\ Create(s, SessionOf(u, p))
  /\ UNCHANGED account

RefreshToken(u, s, p) ==
  /\ account[u].status = "active"
  /\ Rotate(s, SessionOf(u, p))
  /\ UNCHANGED account

EndSessions(k, S) == End(k, S) /\ UNCHANGED account

HasSession(u) == \E s \in SessionId : store[s] # Nil /\ store[s].user = Canonical[u]

ChangeAccount ==
  /\ Accounts!Next
  /\ \A u \in User : account'[u] # account[u] => ~HasSession(u)
  /\ UNCHANGED vars

ServiceNext ==
  \/ \E u \in User, s \in SessionId, p \in Pair : Authenticate(u, s, p) \/ RefreshToken(u, s, p)
  \/ \E k \in UserKey, S \in SUBSET SessionId : EndSessions(k, S)
  \/ ChangeAccount

ServiceSpec == ServiceInit /\ [][ServiceNext]_serviceVars

-----------------------------------------------------------------------------
\* At every moment, whoever a session speaks for is an active user with exactly
\* the roles the session says.
SessionsSpeakTruly ==
  \A s \in SessionId : store[s] # Nil =>
    \E u \in User : account[u].status = "active" /\ store[s] = SessionOf(u, store[s].pair)
=============================================================================
