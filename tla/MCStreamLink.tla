---------------------------- MODULE MCStreamLink ----------------------------
(***************************************************************************)
(* One end sends enough packets to go round its buffer, the other enough   *)
(* to acknowledge twice.                                                   *)
(***************************************************************************)
EXTENDS StreamLink

CONSTANTS a, b, SendsA, SendsB

MCEnd == {a, b}
MCSends == [e \in MCEnd |-> IF e = a THEN SendsA ELSE SendsB]
=============================================================================
