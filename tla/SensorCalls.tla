------------------------------- MODULE SensorCalls -------------------------------
(***************************************************************************)
(* What the driver of the light sensor promises the threads that call      *)
(* GetValue: a call returns once no other thread is in the driver.  Two    *)
(* threads in the driver may keep each other there - each clears, and      *)
(* causes, the response the other waits for.  LightSensor implements this, *)
(* Device relies on it.                                                    *)
(***************************************************************************)

CONSTANT Threads   \* the threads that call GetValue

VARIABLE inside    \* those that are in a call

CallsInit == inside = {}

Call(t)   == t \notin inside /\ inside' = inside \cup {t}
Answer(t) == t \in inside /\ inside' = inside \ {t}

CallsNext == \E t \in Threads : Call(t) \/ Answer(t)

Answers == \A t \in Threads : inside = {t} ~> inside # {t}

CallsSpec == CallsInit /\ [][CallsNext]_inside /\ Answers
=============================================================================
