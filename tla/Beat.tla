-------------------------------- MODULE Beat --------------------------------
(***************************************************************************)
(* The rest of mbed/src/core/SoundSensor.cpp: after each transform         *)
(* Processor records one line of flux in a ring of FLUXLINES, and GetBPM   *)
(* looks for the beat in the whole ring once that many lines are new.      *)
(* GetBPM runs on the threads of its callers - the notification sender,    *)
(* the callback of GET /sen/bpm and the music mode - at the same time as   *)
(* Processor; two flags and a counter without a lock keep them apart.      *)
(*                                                                         *)
(* The values of the lines and the sums over them are left out.            *)
(***************************************************************************)
EXTENDS SoundBuffer, FiniteSets

CONSTANTS Callers,      \* the threads that call GetBPM
          FLUXLINES,    \* lines of the ring (1024)
          BPMSMOOTH     \* results that are averaged (5)

ASSUME BeatAssumption == /\ IsFiniteSet(Callers)
                         /\ FLUXLINES \in Nat \ {0}
                         /\ BPMSMOOTH \in Nat \ {0}

VARIABLES
  reading_flux, bpm_cycle, flux_point, bmp_pointer,   \* fields of SoundSensor
  lpc,        \* Processor after a transform: "test", "lines", "count",
              \* "store", "advance"; "none" in the rest of its loop
  cycle,      \* what _bpm_cycle++ has loaded
  gpc,        \* each caller: "out", or inside GetBPM "claim", "reset", "sum",
              \* "smooth", "wrap"
  fresh,      \* lines recorded since _bpm_cycle was last reset (history)
  disturbed,  \* lines recorded since GetBPM last claimed the ring (history)
  calls       \* "crossed" when two callers were inside GetBPM at once, "alone"
              \* in the next call that has it to itself, and "apart" again once
              \* that call has reset the cycle (history)

record   == <<flux_point, lpc, cycle>>
beat     == <<reading_flux, bpm_cycle, bmp_pointer, record, gpc, fresh,
              disturbed, calls>>
beatVars == <<vars, beat>>

Inside == {c \in Callers : gpc[c] # "out"}
AtMost(n, bound) == IF n < bound THEN n ELSE bound

BeatInit == /\ Init
            /\ reading_flux = FALSE
            /\ bpm_cycle = 0
            /\ flux_point = 0
            /\ bmp_pointer = 0
            /\ lpc = "none"
            /\ cycle = 0
            /\ gpc = [c \in Callers |-> "out"]
            /\ fresh = 0
            /\ disturbed = 0
            /\ calls = "apart"

-----------------------------------------------------------------------------
(* Processor, after _processed = true. *)

\* Mutant: the line is recorded whether the ring is being read or not.
TestIgnored == /\ lpc = "test"
               /\ lpc' = "lines"
               /\ UNCHANGED <<reading_flux, bpm_cycle, bmp_pointer, flux_point,
                              cycle, gpc, fresh, disturbed, calls>>

\* if (!_reading_flux)
Test == /\ lpc = "test"
        /\ lpc' = IF reading_flux THEN "none" ELSE "lines"
        /\ UNCHANGED <<reading_flux, bpm_cycle, bmp_pointer, flux_point, cycle,
                       gpc, fresh, disturbed, calls>>

\* _flux[_flux_point] is computed, bin by bin.
Lines == /\ lpc = "lines"
         /\ fresh' = AtMost(fresh + 1, FLUXLINES)
         /\ disturbed' = AtMost(disturbed + 1, 2)
         /\ lpc' = "count"
         /\ UNCHANGED <<reading_flux, bpm_cycle, bmp_pointer, flux_point, cycle,
                        gpc, calls>>

\* if (_bpm_cycle < FLUXLINES) _bpm_cycle++: a load ...
Count == /\ lpc = "count"
         /\ cycle' = bpm_cycle
         /\ lpc' = IF bpm_cycle < FLUXLINES THEN "store" ELSE "advance"
         /\ UNCHANGED <<reading_flux, bpm_cycle, bmp_pointer, flux_point, gpc,
                        fresh, disturbed, calls>>

\* ... and a store.
StoreCount == /\ lpc = "store"
              /\ bpm_cycle' = cycle + 1
              /\ lpc' = "advance"
              /\ UNCHANGED <<reading_flux, bmp_pointer, flux_point, cycle, gpc,
                             fresh, disturbed, calls>>

\* Mutant: the end of the ring is looked for one line too late.
AdvanceTooFar ==
  /\ lpc = "advance"
  /\ flux_point' = IF flux_point + 1 > FLUXLINES THEN 0 ELSE flux_point + 1
  /\ lpc' = "none"
  /\ UNCHANGED <<reading_flux, bpm_cycle, bmp_pointer, cycle, gpc, fresh,
                 disturbed, calls>>

\* _flux_point++, and back to the start of the ring.
Advance ==
  /\ lpc = "advance"
  /\ flux_point' = IF flux_point + 1 >= FLUXLINES THEN 0 ELSE flux_point + 1
  /\ lpc' = "none"
  /\ UNCHANGED <<reading_flux, bpm_cycle, bmp_pointer, cycle, gpc, fresh,
                 disturbed, calls>>

Record == (Test \/ Lines \/ Count \/ StoreCount \/ Advance) /\ UNCHANGED vars

\* Processor is one thread: a half is processed when the last line is done.
ProcessHalf == /\ lpc = "none"
               /\ Process
               /\ lpc' = IF ppc = "done" THEN "test" ELSE "none"
               /\ UNCHANGED <<reading_flux, bpm_cycle, bmp_pointer, flux_point,
                              cycle, gpc, fresh, disturbed, calls>>

-----------------------------------------------------------------------------
(* GetBPM, on the thread of caller c. *)

\* if (_bpm_cycle < FLUXLINES) return _bpm;
Enough(c) == /\ gpc[c] = "out"
             /\ bpm_cycle >= FLUXLINES
             /\ gpc' = [gpc EXCEPT ![c] = "claim"]
             /\ calls' = IF Inside # {} THEN "crossed"
                         ELSE IF calls = "crossed" THEN "alone" ELSE calls
             /\ UNCHANGED <<reading_flux, bpm_cycle, bmp_pointer, record, fresh,
                            disturbed>>

\* _reading_flux = true
ClaimFlux(c) == /\ gpc[c] = "claim"
                /\ reading_flux' = TRUE
                /\ disturbed' = 0
                /\ gpc' = [gpc EXCEPT ![c] = "reset"]
                /\ UNCHANGED <<bpm_cycle, bmp_pointer, record, fresh, calls>>

\* Mutant: the cycle goes on counting.
ResetForgotten(c) == /\ gpc[c] = "reset"
                     /\ fresh' = 0
                     /\ gpc' = [gpc EXCEPT ![c] = "sum"]
                     /\ UNCHANGED <<reading_flux, bpm_cycle, bmp_pointer, record,
                                    disturbed>>
                     /\ calls' = IF calls = "alone" THEN "apart" ELSE calls

\* _bpm_cycle = 0
ResetCycle(c) == /\ gpc[c] = "reset"
                 /\ bpm_cycle' = 0
                 /\ fresh' = 0
                 /\ gpc' = [gpc EXCEPT ![c] = "sum"]
                 /\ UNCHANGED <<reading_flux, bmp_pointer, record, disturbed>>
                 /\ calls' = IF calls = "alone" THEN "apart" ELSE calls

\* Mutant: the ring stays claimed.
SumKeepsFlag(c) == /\ gpc[c] = "sum"
                   /\ gpc' = [gpc EXCEPT ![c] = "smooth"]
                   /\ UNCHANGED <<reading_flux, bpm_cycle, bmp_pointer, record,
                                  fresh, disturbed, calls>>

\* The sums over the ring are done: _reading_flux = false.
Sum(c) == /\ gpc[c] = "sum"
          /\ reading_flux' = FALSE
          /\ gpc' = [gpc EXCEPT ![c] = "smooth"]
          /\ UNCHANGED <<bpm_cycle, bmp_pointer, record, fresh, disturbed, calls>>

\* _smothbpm[_bmp_pointer++] = bpm
Smooth(c) == /\ gpc[c] = "smooth"
             /\ bmp_pointer' = bmp_pointer + 1
             /\ gpc' = [gpc EXCEPT ![c] = "wrap"]
             /\ UNCHANGED <<reading_flux, bpm_cycle, record, fresh, disturbed, calls>>

\* if (_bmp_pointer > BPMSMOOTH) _bmp_pointer = 0, and the average is returned.
WrapSmooth(c) ==
  /\ gpc[c] = "wrap"
  /\ bmp_pointer' = IF bmp_pointer > BPMSMOOTH THEN 0 ELSE bmp_pointer
  /\ gpc' = [gpc EXCEPT ![c] = "out"]
  /\ UNCHANGED <<reading_flux, bpm_cycle, record, fresh, disturbed, calls>>

Compute(c) == /\ \/ ClaimFlux(c) \/ ResetCycle(c) \/ Sum(c)
                 \/ Smooth(c) \/ WrapSmooth(c)
              /\ UNCHANGED vars

GetBPM(c) == (Enough(c) /\ UNCHANGED vars) \/ Compute(c)

BeatNext == \/ ReadData /\ UNCHANGED beat
            \/ ProcessHalf
            \/ Record
            \/ \E c \in Callers : GetBPM(c)

BeatSpec == BeatInit /\ [][BeatNext]_beatVars

\* All threads get their time slices; nobody has to ask for the beat.
BeatFairSpec == /\ BeatSpec
                /\ WF_beatVars(ReadData /\ UNCHANGED beat)
                /\ WF_beatVars(ProcessHalf \/ Record)
                /\ \A c \in Callers : WF_beatVars(Compute(c))

-----------------------------------------------------------------------------
(* Properties. *)

\* _flux_point stays inside the ring; _bmp_pointer does not stay inside its own
\* of BPMSMOOTH slots: it is one past the last before each wrap, and further
\* by one for each caller that comes between the increment and the wrap.
BeatTypeOK == /\ TypeOK
              /\ reading_flux \in BOOLEAN
              /\ bpm_cycle \in 0..FLUXLINES
              /\ flux_point \in 0..(FLUXLINES - 1)
              /\ bmp_pointer \in 0..(BPMSMOOTH + Cardinality(Callers))
              /\ lpc \in {"none", "test", "lines", "count", "store", "advance"}
              /\ cycle \in 0..FLUXLINES
              /\ gpc \in [Callers -> {"out", "claim", "reset", "sum", "smooth", "wrap"}]
              /\ fresh \in 0..FLUXLINES
              /\ disturbed \in 0..2
              /\ calls \in {"apart", "crossed", "alone"}

\* The beat is looked for in lines that were all recorded since the last time
\* (one of them may be older: it was recorded before the reset and counted
\* after it), unless two callers were inside GetBPM at once.
WindowIsFresh ==
  [][\A c \in Callers : gpc[c] = "reset" /\ gpc'[c] = "sum" /\ calls = "apart"
                          => fresh + 1 >= FLUXLINES]_beatVars

\* While the ring is searched at most one line of it changes - the one that
\* Processor had begun - with the same exception.
SearchedUndisturbed ==
  \A c \in Callers : gpc[c] = "sum" /\ calls = "apart" => disturbed <= 1

\* Lines are recorded again and again however often the beat is asked for and
\* by whomever: no caller leaves the ring claimed, and none is let in again
\* before new lines were recorded.  The exception is that of SoundBuffer: the
\* sensor went deaf when Processor overtook ReadData.
LinesGoOn == []<>(lpc = "lines" \/ overtaken)
=============================================================================
