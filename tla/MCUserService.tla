---------------------------- MODULE MCUserService ----------------------------
(***************************************************************************)
(* UserService on small instances: one account, whose id a caller writes   *)
(* in its canonical form, in another form uuid.Parse accepts (upper case,  *)
(* braces, urn:uuid:), or wrongly.                                         *)
(***************************************************************************)
EXTENDS UserService, TLC

CONSTANTS c1, c2, s1, s2, p1, p2, p3, alice, customer, canonical, uppercase, garbage

MCCanonical == [x \in User |-> canonical]

MCParse == [k \in UserKey |-> IF k \in {canonical, uppercase} THEN alice ELSE Nil]

MCRoleList == SUBSET Role

MCSymmetry == Permutations(Client) \cup Permutations(SessionId) \cup Permutations(Pair)
=============================================================================
