--------------------------------- MODULE Modes ---------------------------------
(***************************************************************************)
(* mbed/src/modes: what the modes of the device make of the values the     *)
(* server sets.  The thread of the connection executes the callbacks of    *)
(* the CoAP resources /led_color, /led_spinning and /mode, which write the *)
(* global variables serverRed ... serverSpinning and replace the object of *)
(* the mode.  The main thread executes Run of that object over and over:   *)
(* it compares and copies the variables one by one, without a lock, and    *)
(* commands the lights.                                                    *)
(*                                                                         *)
(* Abstractions: a call to the lights is one step, what goes on inside is  *)
(* the business of Lights; a mode is only changed between two calls of     *)
(* Run, what happens otherwise is the business of ModeControl; a colour is *)
(* its bytes red, green and blue, the intensity being a fourth of the same *)
(* kind; scaling by intensity and ambient light is left out, and so is the *)
(* brightness of FancySpin, which does not depend on the colour.           *)
(***************************************************************************)
EXTENDS Naturals, Sequences

CONSTANTS Levels,       \* values of a byte
          Default,      \* the colour the server's variables start with
          Constructed,  \* the colour the constructor of ManualMode writes
          Sent,         \* the colours clients send
          MaxPuts       \* bound: how many PUTs arrive

Bytes   == {"red", "green", "blue"}
Colours == [Bytes -> Levels]

ASSUME ModesAssumption == /\ 0 \in Levels
                          /\ Sent \subseteq Colours
                          /\ Default \in Colours
                          /\ Constructed \in Colours
                          /\ MaxPuts \in Nat

Classes   == {"Manual", "Music", "Weather"}
Spinnings == 0..2      \* none, Spinning, FancySpin
Garbage   == 3         \* any other byte

\* The orders in which the bytes of a colour are taken by color_resource_cb, by
\* ManualMode::Run and by WeatherLightMotionMode::Run.
Received == <<"blue", "green", "red">>
Copied   == <<"red", "blue", "green">>
Scaled   == <<"red", "green", "blue">>

VARIABLES
  server,      \* serverRed, serverGreen, serverBlue
  serverSpinning,
  todo,        \* the bytes color_resource_cb still has to write
  puts,        \* how many PUTs arrived
  class,       \* the class of the mode object
  mine,        \* its mred, mgreen, mblue
  spinning,    \* its member
  motion,      \* its member, in WeatherLightMotionMode
  applied,     \* the object has commanded the lights (history)
  mpc,         \* Run: "wait", "compare", "copy", "show"
  at,          \* the byte it is at
  already,     \* its local variable already_spinning
  color,       \* the global variable the generators read
  showing,     \* what the lights were last told: "loading", "color", "pixels",
               \* "Spinning", "FancySpin" or "WeatherSpinning"
  shown        \* the argument of the last setColor

puttings == <<server, serverSpinning, todo, puts>>
lights   == <<showing, shown>>
vars     == <<server, serverSpinning, todo, puts, class, mine, spinning, motion,
              applied, mpc, at, already, color, showing, shown>>

Init == /\ server = Default
        /\ serverSpinning = 0
        /\ todo = <<>>
        /\ puts = 0
        /\ class = "Manual"
        /\ mine = Constructed
        /\ spinning \in Spinnings \cup {Garbage}
        /\ motion = FALSE
        /\ applied = FALSE
        /\ mpc = "wait"
        /\ at = 1
        /\ already = 0
        /\ color = [b \in Bytes |-> 0]
        /\ showing = "loading"
        /\ shown = [b \in Bytes |-> 0]

-----------------------------------------------------------------------------
(* The connection thread. *)

ReadyToPut == todo = <<>> /\ puts < MaxPuts

\* color_resource_cb: the bytes are assigned one after the other.
PutColor(c) ==
  /\ ReadyToPut
  /\ puts' = puts + 1
  /\ todo' = [i \in 1..3 |-> <<Received[i], c[Received[i]]>>]
  /\ UNCHANGED <<server, serverSpinning, class, mine, spinning, motion, applied,
                 mpc, at, already, color, lights>>

Assign == /\ todo # <<>>
          /\ server' = [server EXCEPT ![Head(todo)[1]] = Head(todo)[2]]
          /\ todo' = Tail(todo)
          /\ UNCHANGED <<serverSpinning, puts, class, mine, spinning, motion, applied,
                         mpc, at, already, color, lights>>

\* spinning_resource_cb
PutSpinning(s) ==
  /\ ReadyToPut
  /\ puts' = puts + 1
  /\ serverSpinning' = IF s \in {1, 2} THEN s ELSE 0
  /\ UNCHANGED <<server, todo, class, mine, spinning, motion, applied, mpc, at,
                 already, color, lights>>

\* mode_resource_cb: a new object.  The constructor of ManualMode leaves
\* `spinning` as it finds it.
PutMode(c) ==
  /\ ReadyToPut
  /\ mpc = "wait"
  /\ puts' = puts + 1
  /\ class' = c
  /\ mine' = Constructed
  /\ spinning' \in Spinnings \cup {Garbage}
  /\ motion' = FALSE
  /\ applied' = FALSE
  /\ UNCHANGED <<server, serverSpinning, todo, mpc, at, already, color, lights>>

-----------------------------------------------------------------------------
(* The main thread. *)

Step(label, byte) == mpc' = label /\ at' = byte

\* The byte a comparison or an assignment of Run is at.
SameHere(c, d) == c[Copied[at]] = d[Copied[at]]

\* Mutant: the last byte is not compared.
CompareForgetsLast ==
  /\ class = "Manual"
  /\ \/ /\ mpc = "wait"
        /\ Step("compare", 1)
     \/ /\ mpc = "compare"
        /\ \/ at < 3 /\ ~ SameHere(mine, server) /\ Step("copy", 1)
           \/ at < 3 /\ SameHere(mine, server) /\ Step("compare", at + 1)
           \/ at = 3 /\ spinning # serverSpinning /\ Step("copy", 1)
           \/ at = 3 /\ spinning = serverSpinning /\ Step("wait", 1)
  /\ UNCHANGED <<puttings, class, mine, spinning, motion, applied, already, color, lights>>

\* ManualMode::Run: is there a difference?  The first one found is enough.
Compare ==
  /\ class = "Manual"
  /\ \/ /\ mpc = "wait"
        /\ Step("compare", 1)
     \/ /\ mpc = "compare"
        /\ \/ at <= 3 /\ ~ SameHere(mine, server) /\ Step("copy", 1)
           \/ at <= 3 /\ SameHere(mine, server) /\ Step("compare", at + 1)
           \/ at > 3 /\ spinning # serverSpinning /\ Step("copy", 1)
           \/ at > 3 /\ spinning = serverSpinning /\ Step("wait", 1)
  /\ UNCHANGED <<puttings, class, mine, spinning, motion, applied, already, color, lights>>

Copy ==
  /\ class = "Manual" /\ mpc = "copy"
  /\ \/ /\ at <= 3
        /\ mine' = [mine EXCEPT ![Copied[at]] = server[Copied[at]]]
        /\ Step("copy", at + 1)
        /\ UNCHANGED <<spinning, already>>
     \/ /\ at > 3
        /\ already' = spinning
        /\ spinning' = serverSpinning
        /\ Step("show", 1)
        /\ UNCHANGED mine
  /\ UNCHANGED <<puttings, class, motion, applied, color, lights>>

Command(kind) == /\ showing' = kind
                 /\ shown' = IF kind = "color" THEN color' ELSE shown
                 /\ applied' = TRUE

\* Mutant: spinning that has ended is taken for spinning that goes on.
ShowKeepsSpinning ==
  /\ class = "Manual" /\ mpc = "show"
  /\ color' = mine
  /\ IF spinning # already THEN Command(IF spinning = 2 THEN "FancySpin" ELSE "Spinning")
                           ELSE Command("color")
  /\ Step("wait", 1)
  /\ UNCHANGED <<puttings, class, mine, spinning, motion, already>>

Show ==
  /\ class = "Manual" /\ mpc = "show"
  /\ color' = mine
  /\ IF spinning > 0 /\ spinning # already
       THEN Command(IF spinning = 1 THEN "Spinning" ELSE "FancySpin")
       ELSE Command("color")
  /\ Step("wait", 1)
  /\ UNCHANGED <<puttings, class, mine, spinning, motion, already>>

\* MusicMode::Run
RunMusic == /\ class = "Music"
            /\ color' = color
            /\ Command("pixels")
            /\ UNCHANGED <<puttings, class, mine, spinning, motion, mpc, at, already>>

\* Mutant: what the lights do is remembered after the sensor is read.
SenseFirst == /\ class = "Weather" /\ mpc = "wait"
              /\ motion' \in BOOLEAN
              /\ already' = IF motion' THEN 1 ELSE 0
              /\ Step("copy", 1)
              /\ UNCHANGED <<puttings, class, mine, spinning, applied, color, lights>>

\* WeatherLightMotionMode::Run: the motion sensor is read ...
Sense == /\ class = "Weather" /\ mpc = "wait"
         /\ already' = IF motion THEN 1 ELSE 0
         /\ motion' \in BOOLEAN
         /\ Step("copy", 1)
         /\ UNCHANGED <<puttings, class, mine, spinning, applied, color, lights>>

\* ... the colour is computed ...
Scale == /\ class = "Weather" /\ mpc = "copy"
         /\ color' = [color EXCEPT ![Scaled[at]] = server[Scaled[at]]]
         /\ IF at < 3 THEN Step("copy", at + 1) ELSE Step("show", 1)
         /\ UNCHANGED <<puttings, class, mine, spinning, motion, applied, already, lights>>

\* Mutant: the lights are only commanded when motion begins or ends.
ShowWeatherOnEdges ==
  /\ class = "Weather" /\ mpc = "show"
  /\ color' = color
  /\ IF ~ motion /\ already = 1 THEN Command("color")
     ELSE IF motion /\ already = 0 THEN Command("WeatherSpinning")
     ELSE UNCHANGED <<applied, lights>>
  /\ Step("wait", 1)
  /\ UNCHANGED <<puttings, class, mine, spinning, motion, already>>

\* ... and shown; the generator is started when motion begins.
ShowWeather ==
  /\ class = "Weather" /\ mpc = "show"
  /\ color' = color
  /\ IF ~ motion THEN Command("color")
     ELSE IF already = 0 THEN Command("WeatherSpinning")
     ELSE UNCHANGED <<applied, lights>>
  /\ Step("wait", 1)
  /\ UNCHANGED <<puttings, class, mine, spinning, motion, already>>

Run == Compare \/ Copy \/ Show \/ RunMusic \/ Sense \/ Scale \/ ShowWeather

Next == \/ \E c \in Sent : PutColor(c)
        \/ \E s \in Spinnings \cup {Garbage} : PutSpinning(s)
        \/ \E c \in Classes : PutMode(c)
        \/ Assign
        \/ Run

Spec == Init /\ [][Next]_vars

\* Both threads get their time slices; no PUT need ever arrive.
FairSpec == Spec /\ WF_vars(Assign) /\ WF_vars(Run)

-----------------------------------------------------------------------------
(* Properties.  The PUTs are bounded, so "in the end" means: as far as they  *)
(* do not change it again.                                                   *)

TypeOK == /\ server \in Colours
          /\ serverSpinning \in Spinnings
          /\ todo \in Seq(Bytes \X Levels)
          /\ puts \in 0..MaxPuts
          /\ class \in Classes
          /\ mine \in Colours
          /\ spinning \in Spinnings \cup {Garbage}
          /\ motion \in BOOLEAN
          /\ applied \in BOOLEAN
          /\ mpc \in {"wait", "compare", "copy", "show"}
          /\ at \in 1..4
          /\ already \in Spinnings \cup {Garbage}
          /\ color \in Colours
          /\ showing \in {"loading", "color", "pixels", "Spinning", "FancySpin",
                          "WeatherSpinning"}
          /\ shown \in Colours

\* The colour the lights have: the generators read the global variable.
Displayed == IF showing = "color" THEN shown ELSE color

\* A new ManualMode takes the server's values for values it has shown.
Unnoticed == class = "Manual" /\ ~ applied /\ server = Constructed

\* Whatever bytes of a colour Run caught half-way through a PUT, in the end the
\* lights have the colour the server set, in the manual and the weather mode -
\* unless it is the very colour the constructor of ManualMode starts from, or
\* FancySpin, which makes its own colours, is shown.
ColourSettles ==
  <>[](class # "Music" /\ showing # "FancySpin" => Displayed = server \/ Unnoticed)

\* In the end the manual mode spins no generator but the one the server asks
\* for, even if another mode left its own behind.  (That it does spin is not
\* promised: ManualMode::Run calls setColor when the colour is changed later.)
SpinsAsServed ==
  <>[](class = "Manual" =>
         \/ showing = "color"
         \/ serverSpinning = 1 /\ showing = "Spinning"
         \/ serverSpinning = 2 /\ showing = "FancySpin"
         \/ Unnoticed)

\* In the weather mode the lights spin if and only if there is motion: no mode
\* change and no order of motions loses the edge setGenerator is called on.
WeatherFollowsMotion ==
  class = "Weather" /\ mpc = "wait" /\ applied => (showing = "WeatherSpinning" <=> motion)

\* Each mode takes the lights over from the one before, unless it is replaced.
ModeTakesOver ==
  \A c \in Classes : class = c ~> applied \/ class # c \/ Unnoticed
=============================================================================
