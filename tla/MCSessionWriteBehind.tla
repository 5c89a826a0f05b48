------------------------ MODULE MCSessionWriteBehind ------------------------
(* Instances of SessionWriteBehind for TLC. *)
EXTENDS SessionWriteBehind

CONSTANTS c1, c2

MCCallers == {c1, c2}
MCCaller == {c1}

=============================================================================
