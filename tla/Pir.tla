----------------------------------- MODULE Pir -----------------------------------
(***************************************************************************)
(* mbed/src/core/PirSensor.cpp.  The motion sensor's input is sampled only *)
(* when somebody calls GetValue; motion that was sampled is held for five  *)
(* seconds by a Timer of mbed, which is external: it counts microseconds   *)
(* in an int, and so wraps.  The unit of time is a tick.                   *)
(***************************************************************************)
EXTENDS Integers

CONSTANTS Hold,    \* ticks motion is held: 5 s
          Range    \* ticks until the timer's int turns negative: 2^31 us

ASSUME PirAssumption == Hold \in Nat \ {0} /\ Range \in Nat /\ Hold < Range

VARIABLES
  timer,   \* what _timer has counted, modulo 2 * Range
  motion   \* the last value GetValue returned

pir == <<timer, motion>>

\* PirSensor::PirSensor: nothing has been sampled, but the timer starts at 0, so
\* that motion is reported for the first Hold.
PirInit == timer = 0 /\ motion = FALSE

\* Timer::read_ms: the int is signed.  Once nobody has moved for Range ticks it is
\* negative, and motion is reported for as long again.
read_ms(count) == IF count < Range THEN count ELSE count - 2 * Range

Tick == /\ timer' = (timer + 1) % (2 * Range)
        /\ UNCHANGED motion

\* PirSensor::GetValue
Sample(active) == /\ timer' = IF active THEN 0 ELSE timer
                  /\ motion' = (read_ms(timer') < Hold)
=============================================================================
