-------------------------- MODULE MCUserRepository --------------------------
(***************************************************************************)
(* UserRepository on small instances.                                      *)
(***************************************************************************)
EXTENDS UserRepository, TLC

CONSTANTS c1, c2, u1, u2, e1, e2, n1, n2, ph1, ph2, customer, unknown

MCSymmetry ==
  Permutations(Client) \cup Permutations(User) \cup Permutations(Email)
    \cup Permutations(Name) \cup Permutations(Phone)
=============================================================================
