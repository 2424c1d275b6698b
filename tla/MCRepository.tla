---------------------------- MODULE MCRepository ----------------------------
(* Repository for TLC: requests, identities and values are interchangeable.*)
EXTENDS Repository, TLC

Symmetry == Permutations(Requests) \cup Permutations(Ids) \cup Permutations(Vals)

=============================================================================
