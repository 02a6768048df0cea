------------------------------- MODULE MCLights -------------------------------
(***************************************************************************)
(* Instances of Lights for TLC: two pixels of few levels, a table that is   *)
(* monotone and keeps small levels dark, as the one of NeoPixels.h.        *)
(***************************************************************************)
EXTENDS Lights

Gamma == [l \in Levels |-> (l * l) \div Max]
=============================================================================
