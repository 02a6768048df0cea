----------------------------- MODULE LightSensor -----------------------------
(***************************************************************************)
(* mbed/src/core/LightSensor.cpp and SI1143.cpp: the driver of the light   *)
(* sensor.  The main thread starts the chip; later it, the sender of       *)
(* notifications and the callbacks of CoAP call GetValue on their own      *)
(* threads.  They share the members LowB, HighB and VIS, the response      *)
(* register of the chip and the register its next read is from, without a  *)
(* lock, and every access waits a millisecond.                             *)
(*                                                                         *)
(* The chip is external.  It executes a command some time after it was     *)
(* written, RESET and NOP at once; each command makes the response         *)
(* register other than 0, NOP clears it.  A write, too, leaves the chip at *)
(* another register, with any byte in it.  A byte that was read is stored  *)
(* at once.  The proximity of an object is always the same: nobody asks    *)
(* for it once `bias` has.                                                 *)
(***************************************************************************)
EXTENDS Naturals, Sequences

CONSTANTS Threads,    \* the threads that call GetValue
          Main,       \* the one that also runs the constructor
          Samples,    \* what the chip may measure: records of a low and a high byte
          Base,       \* values of a byte
          Repeat      \* samples in a mean of `bias`

ASSUME LightAssumption ==
  /\ Main \in Threads
  /\ Base \in Nat \ {0}
  /\ Repeat \in Nat \ {0}
  /\ Samples # {} /\ Samples \subseteq [low : 0..(Base - 1), high : 0..(Base - 1)]

Proximity == {"ps1", "ps2", "ps3"}
Gets      == Proximity \cup {"vis"}
NONE      == "none"

\* A sample as the driver puts it together.
Word(s) == s.high * Base + s.low

\* What the constructors do: restart, then bias.
Write(register)  == [op |-> "write", of |-> register]
Command(cmd)     == [op |-> "command", of |-> cmd]
Measure(channel) == [op |-> "get", of |-> channel]
Restart == << Command("RESET"), Write("HW_KEY"), Write("PS_LED21"), Write("PS_LED3"),
              Write("MEAS_RATE"), Write("ALS_RATE"), Write("PS_RATE"),
              Write("PARAM_WR"), Command("PARAM_SET"), Write("INT_CFG"),
              Write("IRQ_ENABLE"), Write("IRQ_MODE1"), Write("IRQ_MODE2") >>
Start   == Restart \o << Measure("ps1"), Measure("ps2"), Measure("ps3") >>

VARIABLES
  response,  \* of the chip: is the register RESPONSE other than 0?
  written,   \* the registers written since RESET; "CHLIST" if the channels are set
  pending,   \* the command the chip has not executed yet, or NONE
  pointer,   \* the register the next byte is read from
  light,     \* its data registers: the last sample of the light
  LowB, HighB, VIS, bias,  \* members of the driver
  start,     \* how far the constructors are
  pc,        \* of each thread: "idle", "clear", "nop", "send", "check", "low",
             \* "high", "add", "store", "return"
  addressed,  \* has it written the address of the register it reads?
  job,       \* what it is in: a command, or a channel of Gets
  left,      \* samples still to be read
  stack,     \* the local variable of get_...
  measured,  \* the light, when this call had it measured (history)
  spoilt     \* during this call another thread was in the driver, or a command
             \* was written before the one before it had been executed (history)

chip    == <<response, written, pending, light>>
members == <<LowB, HighB, VIS, bias>>
local   == <<job, left, stack>>
sensor  == <<response, written, pending, pointer, light, LowB, HighB, VIS, bias, start,
             pc, addressed, job, left, stack, measured, spoilt>>

AnySample == CHOOSE s \in Samples : TRUE

LightInit ==
  /\ response \in BOOLEAN /\ written = {} /\ pending = NONE
  /\ pointer = <<"response", "low">>
  /\ light = AnySample
  /\ LowB = 0 /\ HighB = 0 /\ VIS = 0
  /\ bias = [c \in Proximity |-> 0]
  /\ start = 1
  /\ pc = [t \in Threads |-> "idle"]
  /\ addressed = [t \in Threads |-> FALSE]
  /\ job = [t \in Threads |-> NONE]
  /\ left = [t \in Threads |-> 0]
  /\ stack = [t \in Threads |-> 0]
  /\ measured = [t \in Threads |-> {}]
  /\ spoilt = [t \in Threads |-> FALSE]

Started  == start > Len(Start)
Busy(t)  == pc[t] # "idle"
Goto(t, label) == pc' = [pc EXCEPT ![t] = label]
Constructed == start' = IF Started THEN start ELSE start + 1

\* write_reg: the next read without an address would be from the register after it.
WriteReg == \E byte \in 0..(Base - 1) : pointer' = <<"next", byte>>

-----------------------------------------------------------------------------
(* The constructors, on the main thread. *)

\* Mutant: the response to an earlier command is not cleared.
AskUncleared(t, what) ==
  /\ Goto(t, "send")
  /\ job' = [job EXCEPT ![t] = what]
  /\ left' = [left EXCEPT ![t] = IF what \in Proximity THEN Repeat ELSE 1]
  /\ stack' = [stack EXCEPT ![t] = 0]

Ask(t, what) ==
  /\ Goto(t, "clear")
  /\ job' = [job EXCEPT ![t] = what]
  /\ left' = [left EXCEPT ![t] = IF what \in Proximity THEN Repeat ELSE 1]
  /\ stack' = [stack EXCEPT ![t] = 0]

\* SI1143::restart and SI1143::bias
Construct ==
  /\ ~ Started /\ ~ Busy(Main)
  /\ LET step == Start[start]
     IN  IF step.op = "write"
           THEN /\ written' = written \cup {step.of}
                /\ start' = start + 1
                /\ UNCHANGED <<pc, job, left, stack>>
                /\ WriteReg
           ELSE /\ Ask(Main, step.of)
                /\ UNCHANGED <<written, start, pointer>>
  /\ UNCHANGED <<response, pending, light, members, addressed, measured, spoilt>>

-----------------------------------------------------------------------------
(* A call of GetValue, that is of get_vis(1). *)

Begin(t) ==
  /\ Started /\ ~ Busy(t)
  /\ Ask(t, "vis")
  /\ spoilt' = [u \in Threads |->
                  IF u = t THEN pending # NONE \/ \E v \in Threads : Busy(v)
                           ELSE spoilt[u] \/ Busy(u)]
  /\ UNCHANGED <<chip, pointer, members, start, addressed, measured>>

\* read_reg: the address of the register is written, then a byte is read.
Register(t) == CASE pc[t] \in {"clear", "check"} -> <<"response", "low">>
                 [] pc[t] \in {"low", "high"}    -> <<job[t], pc[t]>>

Select(t) ==
  /\ pc[t] \in {"clear", "check", "low", "high"} /\ ~ addressed[t]
  /\ pointer' = Register(t)
  /\ addressed' = [addressed EXCEPT ![t] = TRUE]
  /\ UNCHANGED <<chip, members, start, pc, local, measured, spoilt>>

\* What is in the register the chip reads from.
Content == IF pointer[1] = "response" THEN (IF response THEN 1 ELSE 0)
           ELSE IF pointer[1] = "vis" THEN light[pointer[2]]
           ELSE IF pointer[1] = "next" THEN pointer[2]
           ELSE (IF pointer[2] = "low" THEN 1 ELSE 0)

\* command: NOP is written as long as there is a response, then the command
\* until there is one.  After RESET none is waited for.
Fetch(t) ==
  /\ addressed[t]
  /\ addressed' = [addressed EXCEPT ![t] = FALSE]
  /\ \/ /\ pc[t] = "clear"
        /\ Goto(t, IF Content = 0 THEN "send" ELSE "nop")
        /\ UNCHANGED <<LowB, HighB, start>>
     \/ /\ pc[t] = "check" /\ Content = 0
        /\ Goto(t, "send")
        /\ UNCHANGED <<LowB, HighB, start>>
     \/ /\ pc[t] = "check" /\ Content # 0 /\ job[t] \in Gets
        /\ Goto(t, "low")
        /\ UNCHANGED <<LowB, HighB, start>>
     \/ /\ pc[t] = "check" /\ Content # 0 /\ job[t] \notin Gets
        /\ Goto(t, "idle")
        /\ Constructed
        /\ UNCHANGED <<LowB, HighB>>
     \/ /\ pc[t] = "low"
        /\ LowB' = Content
        /\ Goto(t, "high")
        /\ UNCHANGED <<HighB, start>>
     \/ /\ pc[t] = "high"
        /\ HighB' = Content
        /\ Goto(t, "add")
        /\ UNCHANGED <<LowB, start>>
  /\ UNCHANGED <<chip, pointer, VIS, bias, local, measured, spoilt>>

Nop(t) ==
  /\ pc[t] = "nop"
  /\ response' = FALSE
  /\ WriteReg
  /\ Goto(t, "clear")
  /\ UNCHANGED <<written, pending, light, members, start, addressed, local,
                 measured, spoilt>>

\* Mutant: RESET is written until there is a response, too.
SendAwaitsReset(t) ==
  /\ pc[t] = "send"
  /\ IF job[t] = "RESET"
       THEN response' = FALSE /\ written' = {} /\ pending' = NONE
       ELSE pending' = job[t] /\ UNCHANGED <<response, written>>
  /\ WriteReg
  /\ Goto(t, "check")
  /\ spoilt' = [spoilt EXCEPT ![t] = @ \/ measured[t] # {}]
  /\ UNCHANGED <<light, members, start, addressed, local, measured>>

SendCommand(t) ==
  /\ pc[t] = "send"
  /\ IF job[t] = "RESET"
       THEN /\ response' = FALSE /\ written' = {} /\ pending' = NONE
            /\ Goto(t, "idle")
            /\ Constructed
            /\ UNCHANGED spoilt
       ELSE /\ pending' = job[t]
            /\ Goto(t, "check")
            /\ spoilt' = [spoilt EXCEPT ![t] = @ \/ measured[t] # {}]
            /\ UNCHANGED <<response, written, start>>
  /\ WriteReg
  /\ UNCHANGED <<light, members, addressed, local, measured>>

\* The chip executes the command.  It measures only channels that were listed,
\* and only after the key was written.
Execute ==
  /\ pending # NONE
  /\ pending' = NONE /\ response' = TRUE
  /\ written' = IF pending = "PARAM_SET" /\ "PARAM_WR" \in written
                  THEN written \cup {"CHLIST"} ELSE written
  /\ IF pending = "vis"
       THEN \E s \in Samples :
              /\ light' = IF {"HW_KEY", "CHLIST"} \subseteq written THEN s ELSE light
              /\ measured' = [t \in Threads |->
                   IF pc[t] \in {"send", "check"} /\ job[t] = "vis" /\ ~ spoilt[t]
                     THEN {s} ELSE measured[t]]
       ELSE UNCHANGED <<light, measured>>
  /\ UNCHANGED <<pointer, members, start, pc, addressed, local, spoilt>>

\* stack = stack + (HighB * 256) + LowB, and the next round of the loop.
Add(t) ==
  /\ pc[t] = "add"
  /\ stack' = [stack EXCEPT ![t] = @ + HighB * Base + LowB]
  /\ left' = [left EXCEPT ![t] = @ - 1]
  /\ Goto(t, IF left[t] > 1 THEN "low" ELSE "store")
  /\ UNCHANGED <<chip, pointer, members, start, addressed, job, measured, spoilt>>

\* get_vis: VIS = stack / repeat.  get_ps1 to get_ps3 subtract what `bias` found
\* before - zero, until it has - and `bias` keeps the result.
Store(t) ==
  /\ pc[t] = "store"
  /\ LET repeat == IF job[t] = "vis" THEN 1 ELSE Repeat
         mean   == stack[t] \div repeat
     IN  IF job[t] = "vis"
           THEN VIS' = mean /\ UNCHANGED bias
           ELSE /\ bias' = [bias EXCEPT ![job[t]] = IF mean > @ THEN mean - @ ELSE 0]
                /\ UNCHANGED VIS
  /\ Goto(t, "return")
  /\ stack' = [stack EXCEPT ![t] = 0]
  /\ UNCHANGED <<chip, pointer, LowB, HighB, start, addressed, job, left, measured, spoilt>>

\* return VIS
GiveBack(t) ==
  /\ pc[t] = "return"
  /\ Goto(t, "idle")
  /\ Constructed
  /\ job' = [job EXCEPT ![t] = NONE]
  /\ measured' = [measured EXCEPT ![t] = {}]
  /\ spoilt' = [spoilt EXCEPT ![t] = FALSE]
  /\ UNCHANGED <<chip, pointer, members, addressed, left, stack>>

Work(t) == Select(t) \/ Fetch(t) \/ Nop(t) \/ SendCommand(t) \/ Add(t) \/ Store(t) \/ GiveBack(t)

LightNext == \/ Construct
             \/ Execute
             \/ \E t \in Threads : Begin(t) \/ Work(t)

LightSafe == LightInit /\ [][LightNext]_sensor

\* Threads get their time slices, the chip executes commands; nobody need ask.
LightSpec == /\ LightSafe
             /\ WF_sensor(Construct) /\ WF_sensor(Execute)
             /\ \A t \in Threads : WF_sensor(Work(t))

-----------------------------------------------------------------------------
(* Properties. *)

\* The value a call of GetValue returns is one sample, the light measured during
\* this very call - whatever the calls before left in the chip and in the
\* members - unless another thread was in the driver meanwhile or the command
\* was written once more after it had been executed.
ReadingIsMeasured ==
  \A t \in Threads : pc[t] = "return" /\ job[t] = "vis" /\ ~ spoilt[t] =>
    \E s \in measured[t] : VIS = Word(s)

\* The driver implements what SensorCalls promises, for the commands of the
\* constructor as well: in whatever state other calls or the last run of the
\* program left the chip and the members, the loops of `command` end for a thread
\* that is left alone in them.
Calls == INSTANCE SensorCalls WITH Threads <- Threads, inside <- {t \in Threads : Busy(t)}
KeepsPromise == Calls!CallsSpec
=============================================================================
