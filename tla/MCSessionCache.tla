--------------------------- MODULE MCSessionCache ---------------------------
(***************************************************************************)
(* SessionCache on small instances.                                        *)
(***************************************************************************)
EXTENDS SessionCache, TLC

CONSTANTS c1, c2, s1, s2, u1, u2, p1, p2, p3, plain

MCSymmetry ==
  Permutations(Client) \cup Permutations(SessionId) \cup Permutations(UserKey)
    \cup Permutations(Pair)
=============================================================================
