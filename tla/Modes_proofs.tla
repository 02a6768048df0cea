------------------------------ MODULE Modes_proofs ------------------------------
(***************************************************************************)
(* Theorems about Modes, for any set of levels, any colours that are sent  *)
(* and any number of PUTs.                                                 *)
(*                                                                         *)
(* That the lights follow the motion is not inductive: between the reading *)
(* of the sensor and the command to the lights it is the local variable    *)
(* already_spinning that tells what the lights do.                         *)
(***************************************************************************)
EXTENDS Modes, SequenceTheorems, TLAPS

\* What the weather mode knows about the lights, once it has commanded them; the
\* constructor begins as if there had been no motion.
Known == class = "Weather" =>
           /\ mpc \in {"wait", "copy", "show"}
           /\ mpc = "wait" => IF applied THEN showing = "WeatherSpinning" <=> motion
                                         ELSE motion = FALSE
           /\ mpc # "wait" => IF applied THEN showing = "WeatherSpinning" <=> already = 1
                                         ELSE already = 0
           /\ mpc # "wait" => already \in {0, 1}

\* The byte Run is at.
Here == /\ class = "Weather" => at \in 1..3
        /\ mpc = "wait" => at = 1


\* TypeOK, its truth values apart from the rest: no prover does both at once.
Flags == motion \in BOOLEAN /\ applied \in BOOLEAN
Data  == /\ server \in Colours /\ mine \in Colours
         /\ color \in Colours /\ shown \in Colours
         /\ serverSpinning \in Spinnings
         /\ spinning \in Spinnings \cup {Garbage} /\ already \in Spinnings \cup {Garbage}
         /\ todo \in Seq(Bytes \X Levels)
         /\ puts \in 0..MaxPuts
         /\ class \in Classes
         /\ mpc \in {"wait", "compare", "copy", "show"}
         /\ at \in 1..4
         /\ showing \in {"loading", "color", "pixels", "Spinning", "FancySpin",
                         "WeatherSpinning"}

LEMMA TypeParts == TypeOK <=> Flags /\ Data
  BY DEF TypeOK, Flags, Data

IInv == Flags /\ Data /\ Known /\ Here

\* A byte is taken from the head of what is still to be written.
LEMMA HeadTyped ==
  ASSUME Data, todo # <<>>
  PROVE  /\ Head(todo)[1] \in Bytes /\ Head(todo)[2] \in Levels
         /\ Tail(todo) \in Seq(Bytes \X Levels)
<1>1. Head(todo) \in Bytes \X Levels /\ Tail(todo) \in Seq(Bytes \X Levels)
  BY HeadTailProperties DEF Data
<1> QED BY <1>1

\* The orders in which bytes are taken are sequences of the three bytes.
LEMMA OrdersTyped == \A i \in 1..3 : /\ Received[i] \in Bytes
                                     /\ Copied[i] \in Bytes
                                     /\ Scaled[i] \in Bytes
<1> SUFFICES ASSUME NEW i \in 1..3
             PROVE  Received[i] \in Bytes /\ Copied[i] \in Bytes /\ Scaled[i] \in Bytes
  OBVIOUS
<1>1. i = 1 \/ i = 2 \/ i = 3
  OBVIOUS
<1> QED BY <1>1 DEF Received, Copied, Scaled, Bytes

\* At start nothing was commanded, and the mode is the manual one.
LEMMA InitInv == Init => IInv
<1> SUFFICES ASSUME Init PROVE IInv
  OBVIOUS
<1>1. [b \in Bytes |-> 0] \in Colours
  BY ModesAssumption DEF Colours
<1>2. todo \in Seq(Bytes \X Levels)
  BY DEF Init
<1>3. Flags
  BY DEF Init, Flags
<1>4. Data
  BY <1>1, <1>2, ModesAssumption DEF Init, Data, Classes, Spinnings, Garbage
<1>5. Known /\ Here
  BY DEF Init, Known, Here
<1> QED BY <1>3, <1>4, <1>5 DEF IInv

\* The invariant survives a step of the connection thread.
LEMMA ConnectionStep ==
  ASSUME IInv,
         \/ \E c \in Sent : PutColor(c)
         \/ \E s \in Spinnings \cup {Garbage} : PutSpinning(s)
         \/ \E c \in Classes : PutMode(c)
         \/ Assign
  PROVE  IInv'
<1> USE ModesAssumption DEF IInv
<1>1. ASSUME NEW c \in Sent, PutColor(c) PROVE IInv'
  <2>1. [i \in 1..3 |-> <<Received[i], c[Received[i]]>>] \in Seq(Bytes \X Levels)
    <3>1. \A i \in 1..3 : <<Received[i], c[Received[i]]>> \in Bytes \X Levels
      BY OrdersTyped DEF Colours
    <3> QED BY <3>1, IsASeq
  <2>2. Flags'
    BY <1>1 DEF PutColor, Flags
  <2>3. Data'
    BY <1>1, <2>1 DEF PutColor, ReadyToPut, Data, lights
  <2>4. Known' /\ Here'
    BY <1>1 DEF PutColor, Known, Here, lights
  <2> QED BY <2>2, <2>3, <2>4
<1>2. ASSUME NEW s \in Spinnings \cup {Garbage}, PutSpinning(s) PROVE IInv'
  <2>1. Flags'
    BY <1>2 DEF PutSpinning, Flags
  <2>2. Data'
    BY <1>2 DEF PutSpinning, ReadyToPut, Data, lights, Spinnings
  <2>3. Known' /\ Here'
    BY <1>2 DEF PutSpinning, Known, Here, lights
  <2> QED BY <2>1, <2>2, <2>3
<1>3. ASSUME NEW c \in Classes, PutMode(c) PROVE IInv'
  <2>1. Flags'
    BY <1>3 DEF PutMode, Flags
  <2>2. Data'
    BY <1>3 DEF PutMode, ReadyToPut, Data, lights
  <2>3. Known'
    BY <1>3 DEF PutMode, Known, lights
  <2>4. Here'
    BY <1>3 DEF PutMode, Here
  <2> QED BY <2>1, <2>2, <2>3, <2>4
<1>4. ASSUME Assign PROVE IInv'
  <2>1. Flags'
    BY <1>4 DEF Assign, Flags
  <2>2. Data'
    BY <1>4, HeadTyped DEF Assign, Data, Colours, lights
  <2>3. Known' /\ Here'
    BY <1>4 DEF Assign, Known, Here, lights
  <2> QED BY <2>1, <2>2, <2>3
<1> QED BY <1>1, <1>2, <1>3, <1>4

\* The invariant survives a step of Run, whichever mode's.
LEMMA RunStep ==
  ASSUME IInv, Run
  PROVE  IInv'
<1> USE ModesAssumption DEF IInv
<1>1. ASSUME Compare PROVE IInv'
  <2>1. Flags'
    BY <1>1 DEF Compare, Flags
  <2>2. /\ mpc' \in {"wait", "compare", "copy"} /\ at' \in 1..4
        /\ mpc' = "wait" => at' = 1
    BY <1>1 DEF Compare, Step, Data
  <2>3. Data'
    BY <1>1, <2>2 DEF Compare, Data, puttings, lights
  <2>4. Known' /\ Here'
    BY <1>1, <2>2 DEF Compare, Known, Here
  <2> QED BY <2>1, <2>3, <2>4
<1>2. ASSUME Copy PROVE IInv'
  <2>1. Flags'
    BY <1>2 DEF Copy, Flags
  <2>2. /\ mpc' \in {"copy", "show"} /\ at' \in 1..4 /\ class' = "Manual"
        /\ spinning' \in Spinnings \cup {Garbage} /\ already' \in Spinnings \cup {Garbage}
    BY <1>2 DEF Copy, Step, Data
  <2>3. mine' \in Colours
    BY <1>2, OrdersTyped DEF Copy, Data, Colours
  <2>4. Data'
    BY <1>2, <2>2, <2>3 DEF Copy, Data, puttings, lights
  <2>5. Known' /\ Here'
    BY <2>2 DEF Known, Here
  <2> QED BY <2>1, <2>4, <2>5
<1>3. ASSUME Show PROVE IInv'
  <2>1. Flags'
    BY <1>3 DEF Show, Command, Flags
  <2>2. Data' /\ Here'
    BY <1>3 DEF Show, Command, Step, Data, Here, puttings
  <2>3. Known'
    BY <1>3 DEF Show, Known
  <2> QED BY <2>1, <2>2, <2>3
<1>4. ASSUME RunMusic PROVE IInv'
  <2>1. Flags'
    BY <1>4 DEF RunMusic, Command, Flags
  <2>2. Data' /\ Here'
    BY <1>4 DEF RunMusic, Command, Data, Here, puttings
  <2>3. Known'
    BY <1>4 DEF RunMusic, Known
  <2> QED BY <2>1, <2>2, <2>3
<1>5. ASSUME Sense PROVE IInv'
  <2>1. Flags'
    BY <1>5 DEF Sense, Flags
  <2>2. Data' /\ Here'
    BY <1>5 DEF Sense, Step, Data, Here, puttings, lights, Spinnings
  \* The sensor is read after the value it had was kept.
  <2>3. Known'
    BY <1>5 DEF Sense, Step, Known, lights
  <2> QED BY <2>1, <2>2, <2>3
<1>6. ASSUME Scale PROVE IInv'
  <2>1. Flags'
    BY <1>6 DEF Scale, Flags
  <2>2. Data' /\ Here'
    BY <1>6, OrdersTyped DEF Scale, Step, Data, Here, Colours, puttings, lights
  <2>3. Known'
    BY <1>6 DEF Scale, Step, Known, lights
  <2> QED BY <2>1, <2>2, <2>3
<1>7. ASSUME ShowWeather PROVE IInv'
  <2>1. Flags'
    BY <1>7 DEF ShowWeather, Command, Flags
  <2>2. Data' /\ Here'
    BY <1>7 DEF ShowWeather, Command, Step, Data, Here, puttings, lights
  \* Motion that goes on leaves the generator alone that was started when it began.
  <2>3. mpc' = "wait" /\ class' = class /\ motion' = motion
    BY <1>7 DEF ShowWeather, Step
  <2>4. applied' /\ (showing' = "WeatherSpinning" <=> motion)
    <3>1. CASE ~ motion
      BY <1>7, <3>1 DEF ShowWeather, Command
    <3>2. CASE motion /\ already = 0
      BY <1>7, <3>2 DEF ShowWeather, Command
    <3>3. CASE motion /\ already # 0
      <4>1. applied /\ already = 1
        BY <1>7, <3>3 DEF ShowWeather, Known, Data
      <4>2. showing = "WeatherSpinning"
        BY <1>7, <4>1 DEF ShowWeather, Known
      <4> QED BY <1>7, <3>3, <4>1, <4>2 DEF ShowWeather, lights
    <3> QED BY <3>1, <3>2, <3>3
  <2>5. Known'
    BY <2>3, <2>4 DEF Known
  <2> QED BY <2>1, <2>2, <2>5
<1> QED BY <1>1, <1>2, <1>3, <1>4, <1>5, <1>6, <1>7 DEF Run

\* The invariant holds in every reachable state.
LEMMA InvHolds == Spec => []IInv
<1>1. IInv /\ [Next]_vars => IInv'
  <2>1. IInv /\ UNCHANGED vars => IInv'
    BY DEF vars, IInv, Flags, Data, Known, Here
  <2> QED BY <2>1, ConnectionStep, RunStep DEF Next
<1> QED BY <1>1, InitInv, PTL DEF Spec

-----------------------------------------------------------------------------

\* The modes never leave the bytes and the spinnings they know, whatever `spinning`
\* is found to be and whatever is sent; a PUT is written byte by byte.
THEOREM TypeCorrect == Spec => []TypeOK
<1>1. IInv => TypeOK
  BY TypeParts DEF IInv
<1> QED BY <1>1, InvHolds, PTL

\* In the weather mode the lights spin if and only if there is motion: the edge the
\* generator is started on is not lost, however modes are changed.
THEOREM WeatherSpinsWithMotion == Spec => []WeatherFollowsMotion
<1>1. IInv => WeatherFollowsMotion
  BY DEF IInv, Known, WeatherFollowsMotion
<1> QED BY <1>1, InvHolds, PTL
=============================================================================
