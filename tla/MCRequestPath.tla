---------------------------- MODULE MCRequestPath ----------------------------
(***************************************************************************)
(* AccessControl, TokenLifetime and UserListing on small instances.  They  *)
(* share no variable, so that a behaviour of one says nothing about the    *)
(* others: one run explores the three side by side, each behaviour moving  *)
(* the model the initial state chose.  (LoginId and SessionId are the same *)
(* model values, so that one symmetry serves both.)                        *)
(***************************************************************************)
EXTENDS AccessControl, TokenLifetime, UserListing, TLC

CONSTANTS c1, c2, s1, s2, p1, p2, boss, alice, idBoss, idAlice, idAlias, admin,
          fast, slow, u1, u2, u3

VARIABLE which

pathVars == <<which, accessVars, lifetimeVars, listingVars>>

MCRoleList == SUBSET {Admin}

MCCanonical == (boss :> idBoss) @@ (alice :> idAlice)

MCParse == (idBoss :> boss) @@ (idAlice :> alice) @@ (idAlias :> alice)

MCOffset == (slow :> 0) @@ (fast :> 1)

PathInit ==
  /\ which \in {"access", "lifetime", "listing"}
  /\ AccessInit
  /\ LifetimeInit
  /\ ListingInit
  /\ which # "lifetime" => ttl = CHOOSE t \in [Pod -> Lifetimes] : TRUE
  /\ which # "listing" => Rows = {}

PathNext ==
  \/ which = "access" /\ AccessNext /\ UNCHANGED <<which, lifetimeVars, listingVars>>
  \/ which = "lifetime" /\ LifetimeNext /\ UNCHANGED <<which, accessVars, listingVars>>
  \/ which = "listing" /\ ListingNext /\ UNCHANGED <<which, accessVars, lifetimeVars>>

PathSpec == PathInit /\ [][PathNext]_pathVars

\* Every variable holds a value of its type.
PathTypeOK == AccessTypeOK /\ LifetimeTypeOK /\ ListingTypeOK

MCSymmetry ==
  Permutations(Client) \cup Permutations(SessionId) \cup Permutations(Pair)
=============================================================================
