------------------------------- MODULE MCBrowser --------------------------------
(***************************************************************************)
(* An instance of Browser for TLC: devices that spin, or do not, and one   *)
(* that plays music; a selection of a long period and one of a shorter     *)
(* one; answers with enough points and with too few, where the next        *)
(* shorter interval has too many or has not, out of order, with an item    *)
(* twice and with two of one time.                                         *)
(***************************************************************************)
EXTENDS Browser

SomeModes    == {<<0, 0>>, <<0, 2>>, <<1, 1>>}
LongAndShort == <<3, 1>>
ShortRatios  == <<3, 5, 3, 0>>
SomeAnswers  == {<<>>, <<<<1, 1>>>>, <<<<1, 1>>, <<3, 1>>, <<2, 1>>>>,
                 <<<<1, 1>>, <<1, 1>>, <<1, 2>>>>}
=============================================================================
