------------------------------ MODULE MCLightSensor ------------------------------
(***************************************************************************)
(* An instance of LightSensor for TLC: bytes of two values, and two samples *)
(* that differ in both bytes, so that a reading can be torn.               *)
(***************************************************************************)
EXTENDS LightSensor

DarkAndBright == {[low |-> 0, high |-> 1], [low |-> 1, high |-> 0]}
=============================================================================
