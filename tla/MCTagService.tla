---------------------------- MODULE MCTagService ----------------------------
(* TagService for TLC: requests, gomees and names are interchangeable.     *)
EXTENDS TagService, TLC

Symmetry == Permutations(Requests) \cup Permutations(Gomees) \cup Permutations(Names)

=============================================================================
