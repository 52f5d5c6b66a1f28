-------------------------- MODULE AuthSessionStore --------------------------
(***************************************************************************)
(* What the service is promised by domain.AuthSessionStore, the interface  *)
(* of internal/domain/user.go: a map from session ids to sessions in which *)
(* every operation takes effect at once, or not at all.                    *)
(*                                                                         *)
(*   - Create starts a session under an id that never named one before.    *)
(*   - Rotate is a compare-and-swap on the refresh token: it exchanges the *)
(*     pair the session holds for a pair nobody held before, and neither   *)
(*     changes the user nor starts a session.                              *)
(*   - Delete, DeleteAllForUser and the passing of time end sessions of    *)
(*     one user.  A session that ended never comes back.                   *)
(***************************************************************************)
CONSTANTS SessionId, UserKey, RoleList, Pair, Nil

Session == [user : UserKey, roles : RoleList, pair : Pair]

VARIABLES
  store,    \* the session an id names now, or Nil
  ended,    \* ids whose session ended, or whose login was given up
  spent     \* pairs exchanged by a rotation

vars == <<store, ended, spent>>

Init ==
  /\ store = [s \in SessionId |-> Nil]
  /\ ended = {}
  /\ spent = {}

Holder(p) == {s \in SessionId : store[s] # Nil /\ store[s].pair = p}

Create(s, x) ==
  /\ store[s] = Nil
  /\ s \notin ended
  /\ x.pair \notin spent
  /\ Holder(x.pair) = {}
  /\ store' = [store EXCEPT ![s] = x]
  /\ UNCHANGED <<ended, spent>>

Rotate(s, x) ==
  /\ store[s] # Nil
  /\ x.user = store[s].user
  /\ x.pair \notin spent
  /\ Holder(x.pair) = {}
  /\ store' = [store EXCEPT ![s] = x]
  /\ spent' = spent \cup {store[s].pair}
  /\ UNCHANGED ended

End(u, S) ==
  /\ \A s \in S : store[s] # Nil => store[s].user = u
  /\ store' = [s \in SessionId |-> IF s \in S THEN Nil ELSE store[s]]
  /\ ended' = ended \cup S
  /\ UNCHANGED spent

Next ==
  \/ \E s \in SessionId, x \in Session : Create(s, x) \/ Rotate(s, x)
  \/ \E u \in UserKey, S \in SUBSET SessionId : End(u, S)

Spec == Init /\ [][Next]_vars

-----------------------------------------------------------------------------
\* A pair that was exchanged is never current again, and no two sessions
\* share one.
PairsAreOwn ==
  \A s \in SessionId : store[s] # Nil =>
    store[s].pair \notin spent /\ Holder(store[s].pair) = {s}

\* A session that ended stays ended.
EndIsFinal == \A s \in ended : store[s] = Nil
=============================================================================
