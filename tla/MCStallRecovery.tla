--------------------------- MODULE MCStallRecovery ---------------------------
(* Two devices with an endpoint each. *)
EXTENDS StallRecovery
CONSTANTS e1, e2
MCDevice == 1..2
MCEp     == {e1, e2}
MCDevOf  == [e \in MCEp |-> IF e = e1 THEN 1 ELSE 2]
=============================================================================
