--------------------------- MODULE MCRestRequest ---------------------------
(* RestRequest for TLC.  Requests to one resource on one connection differ *)
(* in nothing but the order they come in, so one order stands for all.     *)
(* (A symmetry set would do the same, but not for a liveness property.)    *)
EXTENDS RestRequest

CONSTANTS r1, r2, r3

InOrder == /\ pc[r2] # "sent" => pc[r1] # "sent"
           /\ pc[r3] # "sent" => pc[r2] # "sent"

=============================================================================
