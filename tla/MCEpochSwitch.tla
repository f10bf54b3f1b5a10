--------------------------- MODULE MCEpochSwitch ---------------------------
(***************************************************************************)
(* Two durations, one of which allows an epoch to end at once and one that *)
(* needs both blocks and time; eight blocks, enough for two switches and   *)
(* for a change of the duration inside an epoch.                           *)
(***************************************************************************)
EXTENDS EpochSwitch

MCshort == [blocks |-> 0, time |-> 0]
MClong == [blocks |-> 2, time |-> 4]
MCDuration == {MCshort, MClong}
MCinitial == [blocks |-> 0, time |-> 0]
=============================================================================
