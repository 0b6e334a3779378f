---------------------------- MODULE MCDwellLedger ----------------------------
(* Cameras for the run of DwellLedger: the first two share a connection. *)
EXTENDS DwellLedger

TwoAndOne == [c \in Cam |-> IF c = 3 THEN "b" ELSE "a"]

=============================================================================
