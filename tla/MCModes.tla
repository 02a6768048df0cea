-------------------------------- MODULE MCModes --------------------------------
(***************************************************************************)
(* Instances of Modes for TLC: bytes of two levels.  The colours that are  *)
(* sent differ from each other and from the first one in several bytes, so *)
(* that a colour can be torn, and one is the colour of the constructor.    *)
(***************************************************************************)
EXTENDS Modes

Colour(r, g, b) == [red |-> r, green |-> g, blue |-> b]

DefaultColour     == Colour(1, 1, 0)
ConstructedColour == Colour(0, 0, 0)
SentColours       == {Colour(0, 0, 0), Colour(1, 0, 1), Colour(0, 1, 1)}
=============================================================================
