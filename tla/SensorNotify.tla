---------------------------- MODULE SensorNotify ----------------------------
(***************************************************************************)
(* mbed/src/resources/res_sensors.cpp: the sensors as observable CoAP      *)
(* resources.  A thread of its own wakes every 500 ms and, every           *)
(* SEND_DELAY times, sends a notification of each sensor that is observed. *)
(* The callbacks of GET run on the thread of the connection: they replace  *)
(* the token the notifications carry and count the observation number.     *)
(* Both threads use the same static variables without a lock.              *)
(*                                                                         *)
(* The four sensors have the same code.  Their values are left out (how    *)
(* the beat is computed is in module Beat), but not that both threads wait *)
(* for them: a call of the driver may never return (module LightSensor).   *)
(* So is everything inside the NSDL library, but for when it reads what it *)
(* was given a pointer to; that it finds memory for a response is assumed. *)
(***************************************************************************)
EXTENDS Integers, FiniteSets

CONSTANTS NumSensors,    \* 4: illuminance, motion, beat, temperature
          SEND_DELAY,    \* 4
          NumberSize,    \* values of the uint8_t observation number: 256
          Tokens         \* the tokens a request can carry

Sensors   == 1..NumSensors
NULL      == 0
Addresses == 1..2      \* where malloc can place a token: anew, or where it was
Garbage   == "garbage" \* what memory holds that is free, or not yet written
None      == "none"    \* no token has come yet

ASSUME SensorAssumption == /\ NumSensors \in Nat \ {0}
                           /\ SEND_DELAY \in Nat \ {0}
                           /\ NumberSize \in Nat \ {0, 1}
                           /\ Garbage \notin Tokens /\ None \notin Tokens

VARIABLES
  number,     \* ill_number, pir_number, bpm_number, temp_number
  token_ptr,  \* ill_token_ptr, ...: an address or NULL
  token_len,  \* ill_token_len, ...: the token whose length it is
  memory,     \* the token at each address
  time,       \* time of the sender, of which only the remainder counts
  spc,        \* the sender: "wait", "test", "load", "store", "read", "call",
              \* "send"
  at,         \* the sensor it is at
  sLoaded,    \* what its number++ has loaded
  passed,     \* the pointer and the length it passed to the library
  cpc,        \* the callback: "idle", "read", "token", "null", "malloc", "copy",
              \* "len", "observe", "store", "respond"
  of,         \* the sensor whose callback it is
  request,    \* the token of the request, or None; and whether it is answered
              \* with a number, as to an observer
  cLoaded,    \* what its number++ has loaded
  halted,     \* the device stopped at an access through a null pointer
  latest,     \* the last token a callback got to, for each sensor (history)
  last,       \* the number at the last message, for each sensor (history)
  observed,   \* the sensors that were answered to an observer (history)
  lapped      \* whether sender and callback were at the same sensor at once
              \* since they got there (history)

static   == <<number, token_ptr, token_len, memory>>
sender   == <<time, spc, at, sLoaded, passed>>
callback == <<cpc, of, request, cLoaded>>
history  == <<halted, latest, last, observed>>
vars     == <<static, sender, callback, history, lapped>>

Inc(n)    == (n + 1) % NumberSize
Sending   == spc \notin {"wait", "test"}
Answering == cpc \notin {"idle", "read"}

Init == /\ number    = [s \in Sensors |-> 0]
        /\ token_ptr = [s \in Sensors |-> NULL]
        /\ token_len = [s \in Sensors |-> None]
        /\ memory    = [s \in Sensors |-> [a \in Addresses |-> Garbage]]
        /\ time = 0
        /\ spc = "wait"
        /\ at = 1
        /\ sLoaded = 0
        /\ passed = [ptr |-> NULL, len |-> None]
        /\ cpc = "idle"
        /\ of = 1
        /\ request = [token |-> None, observe |-> FALSE]
        /\ cLoaded = 0
        /\ halted = FALSE
        /\ latest = [s \in Sensors |-> None]
        /\ last   = [s \in Sensors |-> 0]
        /\ observed = {}
        /\ lapped = {}

\* Conjoined to every step of either thread.
Lap == LET met == Sending' /\ Answering' /\ at' = of' IN
       lapped' = {t \in {"sender", "callback"} :
                    \/ met
                    \/ t \in lapped /\ (IF t = "sender" THEN Sending' ELSE Answering')}

-----------------------------------------------------------------------------
(* The sender: sensors_send_thread. *)

\* Thread::wait(500); time++
Wake == /\ spc = "wait"
        /\ time' = (time + 1) % SEND_DELAY
        /\ spc' = "test"
        /\ at' = 1
        /\ UNCHANGED <<static, sLoaded, passed, callback, history>>

\* From sensor `at` to the next one, or to sleep.
NextSensor == /\ spc' = IF at = NumSensors THEN "wait" ELSE "test"
              /\ at' = IF at = NumSensors THEN 1 ELSE at + 1

\* Mutant: the time is tested for a remainder it never has.
DueNever(s) == time = SEND_DELAY /\ number[s] # 0 /\ token_ptr[s] # NULL

\* !(time % SEND_DELAY) && number != 0 && token_ptr != NULL
Due(s) == time = 0 /\ number[s] # 0 /\ token_ptr[s] # NULL

Skip == /\ spc = "test"
        /\ ~ Due(at)
        /\ NextSensor
        /\ UNCHANGED <<static, time, sLoaded, passed, callback, history>>

Send == /\ spc = "test"
        /\ Due(at)
        /\ spc' = "load"
        /\ UNCHANGED <<static, time, at, sLoaded, passed, callback, history>>

\* number++, a load ...
LoadNumber == /\ spc = "load"
              /\ sLoaded' = number[at]
              /\ spc' = "store"
              /\ UNCHANGED <<static, time, at, passed, callback, history>>

\* Mutant: the number is not counted.
StoreSame == /\ spc = "store"
             /\ number' = [number EXCEPT ![at] = sLoaded]
             /\ spc' = "read"
             /\ UNCHANGED <<token_ptr, token_len, memory, time, at, sLoaded, passed,
                            callback, history>>

\* ... and a store.
StoreNumber == /\ spc = "store"
               /\ number' = [number EXCEPT ![at] = Inc(sLoaded)]
               /\ spc' = "read"
               /\ UNCHANGED <<token_ptr, token_len, memory, time, at, sLoaded, passed,
                              callback, history>>

\* get_illuminance(), ... returns, if it ever does.
ReadToSend == /\ spc = "read"
              /\ spc' = "call"
              /\ UNCHANGED <<static, time, at, sLoaded, passed, callback, history>>

\* sn_nsdl_send_observation_notification(token_ptr, token_len, ..., &number, ...)
Call == /\ spc = "call"
        /\ passed' = [ptr |-> token_ptr[at], len |-> token_len[at]]
        /\ spc' = "send"
        /\ UNCHANGED <<static, time, at, sLoaded, callback, history>>

\* The library has built the message from what the pointers point to now.
Sent == /\ spc = "send"
        /\ last' = [last EXCEPT ![at] = number[at]]
        /\ NextSensor
        /\ UNCHANGED <<static, time, sLoaded, passed, callback, halted, latest, observed>>

SenderStep == /\ ~ halted
              /\ \/ Wake \/ Skip \/ Send \/ LoadNumber \/ StoreNumber
                 \/ ReadToSend \/ Call \/ Sent
              /\ Lap

-----------------------------------------------------------------------------
(* The callbacks light_resource_cb, pir_resource_cb, ... of a GET. *)

\* A request comes.  `observe` is what line 165 reads: a request without any
\* options has no list of them either, and any byte may be read then.
Get(s, token, observe) ==
  /\ cpc = "idle"
  /\ of' = s
  /\ request' = [token |-> token, observe |-> observe]
  /\ cpc' = "read"
  /\ UNCHANGED <<static, sender, cLoaded, history>>

\* get_illuminance(), ... returns, if it ever does; a token is then replaced.
ReadToAnswer ==
  /\ cpc = "read"
  /\ latest' = IF request.token = None THEN latest
               ELSE [latest EXCEPT ![of] = request.token]
  /\ cpc' = IF request.token = None THEN "observe" ELSE "token"
  /\ UNCHANGED <<static, sender, of, request, cLoaded, halted, last, observed>>

\* if (token_ptr) free(token_ptr)
Free == /\ cpc = "token"
        /\ memory' = IF token_ptr[of] = NULL THEN memory
                     ELSE [memory EXCEPT ![of][token_ptr[of]] = Garbage]
        /\ cpc' = IF token_ptr[of] = NULL THEN "malloc" ELSE "null"
        /\ UNCHANGED <<number, token_ptr, token_len, sender, of, request, cLoaded,
                       history>>

\* token_ptr = 0
SetNull == /\ cpc = "null"
           /\ token_ptr' = [token_ptr EXCEPT ![of] = NULL]
           /\ cpc' = "malloc"
           /\ UNCHANGED <<number, token_len, memory, sender, of, request, cLoaded,
                          history>>

\* token_ptr = malloc(...): without memory for it there is no token any more.
Malloc == /\ cpc = "malloc"
          /\ \E a \in Addresses \cup {NULL} :
               /\ token_ptr' = [token_ptr EXCEPT ![of] = a]
               /\ cpc' = IF a = NULL THEN "observe" ELSE "copy"
          /\ UNCHANGED <<number, token_len, memory, sender, of, request, cLoaded,
                         history>>

\* Mutant: the token is not copied.
CopyForgotten == /\ cpc = "copy"
                 /\ cpc' = "len"
                 /\ UNCHANGED <<static, sender, of, request, cLoaded, history>>

\* memcpy(token_ptr, ...)
Copy == /\ cpc = "copy"
        /\ memory' = [memory EXCEPT ![of][token_ptr[of]] = request.token]
        /\ cpc' = "len"
        /\ UNCHANGED <<number, token_ptr, token_len, sender, of, request, cLoaded,
                       history>>

\* token_len = ...
SetLen == /\ cpc = "len"
          /\ token_len' = [token_len EXCEPT ![of] = request.token]
          /\ cpc' = "observe"
          /\ UNCHANGED <<number, token_ptr, memory, sender, of, request, cLoaded,
                         history>>

\* if (...->observe): a list of options that refers to the number, and number++,
\* a load ...  Without memory for the list the device stops where it is cleared,
\* or goes on and answers without a number.
Observe ==
  /\ cpc = "observe"
  /\ cLoaded' = IF request.observe THEN number[of] ELSE cLoaded
  /\ cpc' = IF request.observe THEN "store" ELSE "respond"
  /\ \/ UNCHANGED <<request, halted>>
     \/ /\ request.observe
        /\ request' = [request EXCEPT !.observe = FALSE]
        /\ halted' \in BOOLEAN
  /\ UNCHANGED <<static, sender, of, latest, last, observed>>

\* ... and a store.
StoreObserved == /\ cpc = "store"
                 /\ number' = [number EXCEPT ![of] = Inc(cLoaded)]
                 /\ cpc' = "respond"
                 /\ UNCHANGED <<token_ptr, token_len, memory, sender, of, request,
                                cLoaded, history>>

\* The response is sent, with the number for an observer.  Line 173 then takes
\* the number out of the options of the response again; one that is not for an
\* observer has none, and the device stops there, or goes on.
Respond ==
  /\ cpc = "respond"
  /\ last' = [last EXCEPT ![of] = number[of]]
  /\ observed' = IF request.observe THEN observed \cup {of} ELSE observed
  /\ halted' \in (IF request.observe THEN {FALSE} ELSE BOOLEAN)
  /\ cpc' = "idle"
  /\ UNCHANGED <<static, sender, of, request, cLoaded, latest>>

CallbackStep == /\ ~ halted
                /\ \/ ReadToAnswer \/ Free \/ SetNull \/ Malloc \/ Copy \/ SetLen
                   \/ Observe \/ StoreObserved \/ Respond
                /\ Lap

Request == /\ ~ halted
           /\ \E s \in Sensors, token \in Tokens \cup {None}, observe \in BOOLEAN :
                Get(s, token, observe)
           /\ Lap

Next == SenderStep \/ CallbackStep \/ Request

Spec == Init /\ [][Next]_vars

\* Both threads get their time slices; nobody has to ask for a sensor, and no
\* sensor has to answer.
FairSpec == /\ Spec
            /\ WF_vars(SenderStep /\ spc # "read")
            /\ WF_vars(CallbackStep /\ cpc # "read")

-----------------------------------------------------------------------------
(* Properties. *)

TypeOK == /\ number \in [Sensors -> 0..(NumberSize - 1)]
          /\ token_ptr \in [Sensors -> Addresses \cup {NULL}]
          /\ token_len \in [Sensors -> Tokens \cup {None}]
          /\ memory \in [Sensors -> [Addresses -> Tokens \cup {Garbage}]]
          /\ time \in 0..(SEND_DELAY - 1)
          /\ spc \in {"wait", "test", "load", "store", "read", "call", "send"}
          /\ at \in Sensors
          /\ sLoaded \in 0..(NumberSize - 1)
          /\ passed \in [ptr : Addresses \cup {NULL}, len : Tokens \cup {None}]
          /\ cpc \in {"idle", "read", "token", "null", "malloc", "copy", "len",
                      "observe", "store", "respond"}
          /\ of \in Sensors
          /\ request \in [token : Tokens \cup {None}, observe : BOOLEAN]
          /\ cLoaded \in 0..(NumberSize - 1)
          /\ halted \in BOOLEAN
          /\ latest \in [Sensors -> Tokens \cup {None}]
          /\ last \in [Sensors -> 0..(NumberSize - 1)]
          /\ observed \subseteq Sensors
          /\ lapped \subseteq {"sender", "callback"}

\* A notification carries the whole of the last token a callback got to, unless
\* one of the same sensor was at its token or its answer while the sender was at
\* it: a token is never half replaced between two of them.
CarriesLatestToken ==
  spc = "send" /\ "sender" \notin lapped
    => /\ memory[at][passed.ptr] = latest[at]
       /\ passed.len = latest[at]

\* Each message of a sensor counts its observation number once: what it carries
\* is the successor of the number at the message before, whether it is a
\* notification or the response to an observer - with the same exception.  The
\* server drops what does not advance.
NumbersAdvance ==
  /\ spc = "send" /\ "sender" \notin lapped => number[at] = Inc(last[at])
  /\ cpc = "respond" /\ request.observe /\ "callback" \notin lapped
       => number[of] = Inc(last[of])

\* A sensor is ready when it is observed and its token is known.
Ready(s) == number[s] # 0 /\ token_ptr[s] # NULL

\* The sender does not wait for a sensor for ever: one call that does not return
\* ends the notifications of all the sensors.
SensorsAnswer == []<>(spc # "read")

\* If its reads return, the sender notifies a sensor that is ready, unless, when
\* that is due, it finds it no longer ready: without a token, for which there was
\* no memory or which a GET is replacing just then, or its number come round to 0.
ReadyIsNotified ==
  SensorsAnswer =>
    \A s \in Sensors :
      Ready(s) ~> \/ spc = "send" /\ at = s
                  \/ spc = "test" /\ at = s /\ time = 0 /\ ~ Ready(s)
                  \/ halted

\* "sending rate is defined by SEND_DELAY" (line 78): an observer is notified
\* at that rate, that is again and again.  Not when no memory was found.
ObservedIsNotified ==
  SensorsAnswer =>
    \A s \in Sensors :
      <>[](s \in observed /\ token_ptr[s] # NULL /\ cpc = "idle" /\ ~ halted)
        => []<>(spc = "send" /\ at = s)
=============================================================================
