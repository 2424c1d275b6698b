--------------------------- MODULE MCFlexDeferred ---------------------------
(* Instances of FlexDeferred for TLC: Deferreds are interchangeable.        *)
EXTENDS FlexDeferred, TLC

Symmetry == Permutations(Deferreds)

=============================================================================
