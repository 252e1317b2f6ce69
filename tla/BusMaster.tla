----------------------------- MODULE BusMaster ------------------------------
(***************************************************************************)
(* The processor of design.sv as a device on its bus sees it: a load or a  *)
(* store is one clock, and at least four clocks without one follow it, in  *)
(* which the processor commits, fetches, decodes and executes.  Any phase  *)
(* but the access itself may last: for immediates, a halt, an interrupt    *)
(* entry or a DMA freeze.                                                  *)
(***************************************************************************)
VARIABLE phase

Phases == {"ACCESS", "COMMIT", "FETCH", "DECODE", "EXECUTE"}

PaceInit == phase = "FETCH"

Pace ==
    \/ phase = "ACCESS" /\ phase' = "COMMIT"
    \/ phase = "COMMIT" /\ phase' \in {"COMMIT", "FETCH"}
    \/ phase = "FETCH" /\ phase' \in {"FETCH", "DECODE"}
    \/ phase = "DECODE" /\ phase' \in {"DECODE", "EXECUTE"}
    \/ phase = "EXECUTE" /\ phase' \in {"ACCESS", "COMMIT", "FETCH"}

PaceSpec == PaceInit /\ [][Pace]_phase
=============================================================================
