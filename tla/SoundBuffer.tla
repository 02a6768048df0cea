----------------------------- MODULE SoundBuffer -----------------------------
(***************************************************************************)
(* mbed/src/core/SoundSensor.cpp: sampling the microphone into the two     *)
(* halves of one buffer.  ReadCycle fills a half, sample by sample, while  *)
(* Processor transforms the other one; three flags without a lock tell     *)
(* them whose turn it is.  The threads are scheduled round robin, and      *)
(* ReadCycle never sleeps, so it is preempted between any two statements.  *)
(*                                                                         *)
(* The samples and the transform itself are left out: a slot is touched or *)
(* not.  The flux and beat statistics work on the results only.            *)
(***************************************************************************)
EXTENDS Naturals

CONSTANT fft         \* length of a half (128)

ASSUME SoundAssumption == fft \in Nat \ {0, 1}

VARIABLES ready, partition, processed, pointer,   \* the fields of SoundSensor
          rpc,    \* ReadData: "check", "flip", "raise", "claim", "wrap", "store"
          ppc,    \* Processor: "poll", "clear", "transform", "done"
          half,   \* the half `Transform` works on: 1 or 2
          turns,  \* which half was transformed last, 2 before the first time
  overtaken   \* the processor was once done with a half before ReadData had
              \* declared it unprocessed (history)

reader    == <<pointer, rpc>>
processor == <<ppc, half, turns, overtaken>>
vars      == <<ready, partition, processed, pointer, rpc, ppc, half, turns,
               overtaken>>

HalfOf(slot) == IF slot < fft THEN 1 ELSE 2

Init == /\ ready = FALSE
        /\ partition = FALSE
        /\ processed = TRUE
        /\ pointer = 1
        /\ rpc = "check"
        /\ ppc = "poll"
        /\ half = 2
        /\ turns = 2
        /\ overtaken = FALSE

-----------------------------------------------------------------------------
(* ReadData, called over and over by ReadCycle. *)

\* Mutant: the full half is not held back while the other is being processed.
CheckNotProcessed ==
  /\ rpc = "check"
  /\ rpc' = IF pointer % fft = 0 THEN "flip" ELSE "store"
  /\ UNCHANGED <<ready, partition, processed, pointer, processor>>

\* At the end of a half: "skip data if not processed".
Check == /\ rpc = "check"
         /\ rpc' = IF pointer % fft # 0 THEN "store"
                   ELSE IF processed THEN "flip" ELSE "check"
         /\ UNCHANGED <<ready, partition, processed, pointer, processor>>

\* _partition = !_partition
Flip == /\ rpc = "flip"
        /\ partition' = ~ partition
        /\ rpc' = "raise"
        /\ UNCHANGED <<ready, processed, pointer, processor>>

\* Mutant: the flag that wakes the processor is not set.
RaiseForgotten == /\ rpc = "raise"
                  /\ rpc' = "claim"
                  /\ UNCHANGED <<ready, partition, processed, pointer, processor>>

\* _ready = true
Raise == /\ rpc = "raise"
         /\ ready' = TRUE
         /\ rpc' = "claim"
         /\ UNCHANGED <<partition, processed, pointer, processor>>

\* _processed = false
Claim == /\ rpc = "claim"
         /\ processed' = FALSE
         /\ rpc' = "wrap"
         /\ UNCHANGED <<ready, partition, pointer, processor>>

\* Mutant: the end of the buffer is looked for one slot too late.
WrapTooLate == /\ rpc = "wrap"
               /\ pointer' = IF pointer = fft * 2 + 1 THEN 0 ELSE pointer
               /\ rpc' = "store"
               /\ UNCHANGED <<ready, partition, processed, processor>>

\* "round buffer"
Wrap == /\ rpc = "wrap"
        /\ pointer' = IF pointer = fft * 2 THEN 0 ELSE pointer
        /\ rpc' = "store"
        /\ UNCHANGED <<ready, partition, processed, processor>>

\* _buffer[_pointer++] = ...
Store == /\ rpc = "store"
         /\ pointer' = pointer + 1
         /\ rpc' = "check"
         /\ UNCHANGED <<ready, partition, processed, processor>>

ReadData == Check \/ Flip \/ Raise \/ Claim \/ Wrap \/ Store

-----------------------------------------------------------------------------
(* Processor. *)

\* It sleeps a millisecond when there is nothing to do.
Poll == /\ ppc = "poll"
        /\ ready
        /\ ppc' = "clear"
        /\ UNCHANGED <<ready, partition, processed, reader, half, turns, overtaken>>

\* _ready = false
Clear == /\ ppc = "clear"
         /\ ready' = FALSE
         /\ ppc' = "transform"
         /\ UNCHANGED <<partition, processed, reader, half, turns, overtaken>>

\* The offset is computed, and Transform starts to read that half ...
Transform == /\ ppc = "transform"
             /\ half' = IF partition THEN 1 ELSE 2
             /\ ppc' = "done"
             /\ UNCHANGED <<ready, partition, processed, reader, turns, overtaken>>

\* ... and has returned: _processed = true.
Done == /\ ppc = "done"
        /\ processed' = TRUE
        /\ turns' = half
        /\ overtaken' = (overtaken \/ rpc = "claim")
        /\ ppc' = "poll"
        /\ UNCHANGED <<ready, partition, reader, half>>

Process == Poll \/ Clear \/ Transform \/ Done

Next == ReadData \/ Process

Spec == Init /\ [][Next]_vars

-----------------------------------------------------------------------------
(* Properties. *)

\* The pointer runs to the end of the buffer, and no further.
TypeOK == /\ ready \in BOOLEAN
          /\ partition \in BOOLEAN
          /\ processed \in BOOLEAN
          /\ pointer \in 0..(2 * fft)
          /\ rpc \in {"check", "flip", "raise", "claim", "wrap", "store"}
          /\ ppc \in {"poll", "clear", "transform", "done"}
          /\ half \in {1, 2}
          /\ turns \in {1, 2}
          /\ overtaken \in BOOLEAN

\* A sample is only ever stored inside the buffer, and never into the half
\* that is being transformed (lines 49 and 67 work on the same memory).
NoOverlap ==
  rpc = "store" => /\ pointer < 2 * fft
                   /\ ppc = "done" => HalfOf(pointer) # half

\* No half is transformed twice in a row, so none is missed either: what the
\* reader fills is processed in the order it was recorded.
HalvesAlternate == [][ppc = "done" /\ ppc' = "poll" => half # turns]_vars

\* "skip data if not processed" (line 30): samples are dropped only while the
\* processor has a half to process - unless it once was so fast that it finished
\* between _ready = true and _processed = false.
NothingToProcess == ~ ready /\ ppc = "poll"
SkipsOnlyUnprocessed ==
  rpc = "check" /\ pointer % fft = 0 /\ ~ processed => ~ NothingToProcess \/ overtaken
=============================================================================
