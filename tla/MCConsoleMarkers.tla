-------------------------- MODULE MCConsoleMarkers --------------------------
(* Instances of ConsoleMarkers for TLC: gomees, markers, requests and the   *)
(* users other than the guest are interchangeable, and what is left of a    *)
(* marker that is gone does not matter.                                     *)
EXTENDS ConsoleMarkers, TLC

Symmetry == Permutations(Gomees) \cup Permutations(Markers) \cup Permutations(Posts)
              \cup Permutations(Users \ {Guest})

View == <<server, session, user, layer, markers, post, delete, listing, history,
          [m \in Markers \ Free |-> <<kind[m], data[m], ownId[m]>>]>>

=============================================================================
