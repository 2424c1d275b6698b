--------------------------- MODULE MCUserService ---------------------------
(* UserService for TLC: the uses of a profile are interchangeable.         *)
EXTENDS UserService, TLC

Symmetry == Permutations(Uses)

=============================================================================
