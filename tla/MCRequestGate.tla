--------------------------- MODULE MCRequestGate ---------------------------
(* One address, two inspections and one parser slot.                       *)
EXTENDS RequestGate

CONSTANTS r1, r2, k1
=============================================================================
