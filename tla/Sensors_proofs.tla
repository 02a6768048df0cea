----------------------------- MODULE Sensors_proofs -----------------------------
(***************************************************************************)
(* Proofs about SensorNotify, for every number of sensors, every delay,    *)
(* every size of the observation number and every schedule of the sender   *)
(* and the callbacks, and, further down, about LightSensor, for every set  *)
(* of threads and samples and whatever the chip held before.               *)
(*                                                                         *)
(* What makes the first hold is that the two threads only disturb each     *)
(* other at the same sensor, and then both are `lapped` until they leave   *)
(* it (Met).  A thread that is not lapped finds what it left: the token    *)
(* (TokenKept) and the number (NumberKept).  A number that differs from    *)
(* the one at the last message is for a message that is about to be sent,  *)
(* whoever interfered (Owed).                                              *)
(*                                                                         *)
(* A call of the light sensor's driver that is not `spoilt` is alone in it *)
(* and finds every register and member as it left them (HeldAlone).  That  *)
(* it has a measurement at all rests on what the constructors had done by  *)
(* then (SetUp), and that they have done it on their being alone (Jobs).   *)
(***************************************************************************)
EXTENDS LightSensor, SensorNotify, SequenceTheorems, TLAPS

\* Threads at the same sensor are lapped, and only threads at a sensor are.
Met == /\ Sending /\ Answering /\ at = of => {"sender", "callback"} \subseteq lapped
       /\ "sender" \in lapped => Sending
       /\ "callback" \in lapped => Answering

\* A token is whole where no callback is replacing it.
Replacing(s) == cpc \in {"token", "null", "malloc", "copy", "len"} /\ of = s
Whole(s) == /\ memory[s][token_ptr[s]] = latest[s]
            /\ token_len[s] = latest[s]

TokenKept ==
  /\ \A s \in Sensors : Replacing(s) \/ token_ptr[s] = NULL \/ Whole(s)
  /\ Replacing(of) => request.token \in Tokens /\ latest[of] = request.token
  /\ cpc \in {"copy", "len"} => token_ptr[of] \in Addresses
  /\ cpc = "null" => token_ptr[of] \in Addresses
  /\ cpc = "len" => memory[of][token_ptr[of]] = request.token
  /\ Sending /\ "sender" \notin lapped => token_ptr[at] \in Addresses
  /\ spc = "send" /\ "sender" \notin lapped =>
       passed.ptr = token_ptr[at] /\ passed.len = token_len[at]

\* A message of s is about to be sent, or an answer, that the present number is for.
Owed(s) == \/ spc \in {"read", "call", "send"} /\ at = s
           \/ cpc = "respond" /\ of = s

NumberKept ==
  /\ \A s \in Sensors : number[s] = last[s] \/ Owed(s)
  /\ "sender" \notin lapped =>
       /\ spc = "store" => sLoaded = number[at]
       /\ spc \in {"read", "call", "send"} => number[at] = Inc(last[at])
  /\ "callback" \notin lapped =>
       /\ cpc = "store" => cLoaded = number[of]
       /\ cpc = "respond" /\ request.observe => number[of] = Inc(last[of])

NotifyInv == TypeOK /\ Met /\ TokenKept /\ NumberKept

-----------------------------------------------------------------------------
\* A thread that is not lapped after a step has been alone at its sensor.
LEMMA Apart ==
  ASSUME Met, Lap
  PROVE  /\ Met'
         /\ Sending /\ Sending' /\ "sender" \notin lapped' =>
              /\ "sender" \notin lapped
              /\ ~ (Answering /\ at = of) /\ ~ (Answering' /\ at' = of')
         /\ Answering /\ Answering' /\ "callback" \notin lapped' =>
              /\ "callback" \notin lapped
              /\ ~ (Sending /\ at = of) /\ ~ (Sending' /\ at' = of')
<1> DEFINE met == Sending' /\ Answering' /\ at' = of'
<1>1. /\ "sender" \in lapped' <=> met \/ ("sender" \in lapped /\ Sending')
      /\ "callback" \in lapped' <=> met \/ ("callback" \in lapped /\ Answering')
  BY DEF Lap
<1>2. Met'
  BY <1>1, Zenon DEF Met
<1>3. Sending /\ Answering /\ at = of => "sender" \in lapped /\ "callback" \in lapped
  BY DEF Met
<1> HIDE DEF Sending
<1> QED BY <1>1, <1>2, <1>3, Zenon

LEMMA IncType ==
  ASSUME NEW n \in 0..(NumberSize - 1)
  PROVE  Inc(n) \in 0..(NumberSize - 1)
BY SensorAssumption DEF Inc

LEMMA InitNotify == Init => NotifyInv
<1> SUFFICES ASSUME Init PROVE NotifyInv
  OBVIOUS
<1>1. TypeOK
  <2>1. halted \in BOOLEAN /\ request \in [token : Tokens \cup {None}, observe : BOOLEAN]
    BY Zenon DEF Init
  <2>2. /\ number \in [Sensors -> 0..(NumberSize - 1)]
        /\ last \in [Sensors -> 0..(NumberSize - 1)]
        /\ sLoaded \in 0..(NumberSize - 1) /\ cLoaded \in 0..(NumberSize - 1)
        /\ time \in 0..(SEND_DELAY - 1) /\ at \in Sensors /\ of \in Sensors
    BY SensorAssumption DEF Init, Sensors
  <2> QED BY <2>1, <2>2 DEF Init, TypeOK
<1>2. Met
  BY DEF Init, Met, Sending, Answering
<1>3. TokenKept
  BY DEF Init, TokenKept, Replacing, Sending
<1>4. NumberKept
  BY DEF Init, NumberKept
<1> QED BY <1>1, <1>2, <1>3, <1>4 DEF NotifyInv

-----------------------------------------------------------------------------
(* The sender. *)

LEMMA SenderTypes ==
  ASSUME TypeOK, SenderStep
  PROVE  TypeOK'
<1>1. lapped' \subseteq {"sender", "callback"}
  BY DEF SenderStep, Lap
<1>2. NextSensor => at' \in Sensors /\ spc' \in {"wait", "test"}
  BY SensorAssumption DEF NextSensor, Sensors, TypeOK
<1>3. CASE Wake
  <2>1. time' \in 0..(SEND_DELAY - 1) /\ at' \in Sensors
    BY <1>3, SensorAssumption DEF Wake, TypeOK, Sensors
  <2> QED BY <1>1, <1>3, <2>1 DEF Wake, TypeOK, static, callback, history
<1>4. CASE Skip
  BY <1>1, <1>2, <1>4 DEF Skip, TypeOK, static, callback, history
<1>5. CASE Send
  BY <1>1, <1>5 DEF Send, TypeOK, static, callback, history
<1>6. CASE LoadNumber
  BY <1>1, <1>6 DEF LoadNumber, TypeOK, static, callback, history
<1>7. CASE StoreNumber
  <2>1. Inc(sLoaded) \in 0..(NumberSize - 1)
    BY IncType DEF TypeOK
  <2> QED BY <1>1, <1>7, <2>1 DEF StoreNumber, TypeOK, callback, history
<1>8. CASE Call
  BY <1>1, <1>8 DEF Call, TypeOK, static, callback, history
<1>9. CASE Sent
  BY <1>1, <1>2, <1>9 DEF Sent, TypeOK, static, callback
<1>10. CASE ReadToSend
  BY <1>1, <1>10 DEF ReadToSend, TypeOK, static, callback, history
<1> QED
  BY <1>3, <1>4, <1>5, <1>6, <1>7, <1>8, <1>9, <1>10, Zenon DEF SenderStep

\* What the sender does to the state, step by step.
LEMMA SenderEffect ==
  ASSUME SenderStep
  PROVE  /\ UNCHANGED <<token_ptr, token_len, memory, callback, latest>>
         /\ \/ /\ spc' \in {"wait", "test"} /\ spc \notin {"read", "call", "send"}
               /\ UNCHANGED <<number, last>>
            \/ /\ spc = "test" /\ spc' = "load" /\ at' = at /\ token_ptr[at] # NULL
               /\ UNCHANGED <<number, last>>
            \/ /\ spc = "load" /\ spc' = "store" /\ at' = at /\ sLoaded' = number[at]
               /\ UNCHANGED <<number, last>>
            \/ /\ spc = "store" /\ spc' = "read" /\ at' = at
               /\ number' = [number EXCEPT ![at] = Inc(sLoaded)] /\ UNCHANGED last
            \/ /\ spc = "read" /\ spc' = "call" /\ at' = at
               /\ UNCHANGED <<number, last>>
            \/ /\ spc = "call" /\ spc' = "send" /\ at' = at
               /\ passed' = [ptr |-> token_ptr[at], len |-> token_len[at]]
               /\ UNCHANGED <<number, last>>
            \/ /\ spc = "send" /\ spc' \in {"wait", "test"} /\ UNCHANGED number
               /\ last' = [last EXCEPT ![at] = number[at]]
<1>1. CASE Wake
  BY <1>1 DEF Wake, static, history
<1>2. CASE Skip
  BY <1>2 DEF Skip, NextSensor, static, history
<1>3. CASE Send
  BY <1>3 DEF Send, Due, static, history
<1>4. CASE LoadNumber
  BY <1>4 DEF LoadNumber, static, history
<1>5. CASE StoreNumber
  BY <1>5 DEF StoreNumber, history
<1>6. CASE Call
  BY <1>6 DEF Call, static, history
<1>7. CASE Sent
  BY <1>7 DEF Sent, NextSensor, static
<1>8. CASE ReadToSend
  BY <1>8 DEF ReadToSend, static, history
<1> QED
  BY <1>1, <1>2, <1>3, <1>4, <1>5, <1>6, <1>7, <1>8, Zenon DEF SenderStep

LEMMA SenderKeeps ==
  ASSUME NotifyInv, SenderStep
  PROVE  NotifyInv'
<1>1. TypeOK' /\ TypeOK /\ Met /\ TokenKept /\ NumberKept
  BY SenderTypes DEF NotifyInv
<1>2. /\ Met'
      /\ Sending /\ Sending' /\ "sender" \notin lapped' =>
           /\ "sender" \notin lapped
           /\ ~ (Answering /\ at = of) /\ ~ (Answering' /\ at' = of')
      /\ Answering /\ Answering' /\ "callback" \notin lapped' =>
           /\ "callback" \notin lapped
           /\ ~ (Sending /\ at = of) /\ ~ (Sending' /\ at' = of')
  BY <1>1, Apart, Zenon DEF SenderStep
<1>3. UNCHANGED <<token_ptr, token_len, memory, cpc, of, request, cLoaded, latest>>
  BY SenderEffect DEF callback
<1>4. Answering' <=> Answering
  BY <1>3 DEF Answering
<1>5. SUFFICES TokenKept' /\ NumberKept'
  BY <1>1, <1>2 DEF NotifyInv
<1>6. /\ \A s \in Sensors : Replacing(s)' \/ token_ptr'[s] = NULL \/ Whole(s)'
      /\ Replacing(of)' => request'.token \in Tokens /\ latest'[of'] = request'.token
      /\ cpc' \in {"copy", "len"} => token_ptr'[of'] \in Addresses
      /\ cpc' = "null" => token_ptr'[of'] \in Addresses
      /\ cpc' = "len" => memory'[of'][token_ptr'[of']] = request'.token
  BY <1>1, <1>3 DEF TokenKept, Replacing, Whole
<1>8. CASE /\ spc' \in {"wait", "test"} /\ spc \notin {"read", "call", "send"}
           /\ UNCHANGED <<number, last>>
  <2>1. ~ Sending' /\ spc' \notin {"store", "read", "call", "send"}
    BY <1>8 DEF Sending
  <2>2. TokenKept'
    BY <1>6, <2>1 DEF TokenKept
  <2>3. \A s \in Sensors : Owed(s) => Owed(s)'
    BY <1>3, <1>8 DEF Owed
  <2>4. "callback" \notin lapped' /\ Answering => "callback" \notin lapped
    BY <1>2, <1>4, Zenon
  <2>5. NumberKept'
    BY <1>1, <1>3, <1>8, <2>1, <2>3, <2>4 DEF NumberKept, Answering
  <2> QED BY <2>2, <2>5
<1>9. CASE /\ spc = "test" /\ spc' = "load" /\ at' = at /\ token_ptr[at] # NULL
           /\ UNCHANGED <<number, last>>
  <2>1. TokenKept'
    BY <1>1, <1>3, <1>6, <1>9 DEF TokenKept, TypeOK
  <2>2. \A s \in Sensors : Owed(s) => Owed(s)'
    BY <1>3, <1>9 DEF Owed
  <2>3. "callback" \notin lapped' /\ Answering => "callback" \notin lapped
    BY <1>2, <1>4, Zenon
  <2>4. NumberKept'
    BY <1>1, <1>3, <1>9, <2>2, <2>3 DEF NumberKept, Answering
  <2> QED BY <2>1, <2>4
<1>10. CASE /\ spc \in {"load", "store", "read", "call"}
            /\ spc' \in {"store", "read", "call", "send"} /\ at' = at
  <2>1. /\ Sending /\ Sending'
        /\ "sender" \notin lapped' => "sender" \notin lapped /\ ~ (Answering /\ at = of)
        /\ "callback" \notin lapped' /\ Answering => "callback" \notin lapped /\ at # of
    <3>1. Sending /\ Sending'
      BY <1>10 DEF Sending
    <3> QED BY <1>2, <1>4, <3>1, Zenon
  <2>2. spc' = "send" => spc = "call" /\ passed' = [ptr |-> token_ptr[at], len |-> token_len[at]]
    BY <1>10, SenderEffect
  <2>3. TokenKept'
    BY <1>1, <1>3, <1>6, <1>10, <2>1, <2>2 DEF TokenKept
  <2>4. CASE spc = "load" /\ spc' = "store" /\ sLoaded' = number[at] /\ UNCHANGED <<number, last>>
    <3>1. \A s \in Sensors : Owed(s) => Owed(s)'
      BY <1>3, <1>10, <2>4 DEF Owed
    <3>2. NumberKept'
      BY <1>1, <1>3, <1>10, <2>1, <2>4, <3>1 DEF NumberKept, Answering
    <3> QED BY <2>3, <3>2
  <2>5. CASE /\ spc = "store" /\ spc' = "read" /\ UNCHANGED last
             /\ number' = [number EXCEPT ![at] = Inc(sLoaded)]
    <3>1. \A s \in Sensors : s # at => number'[s] = number[s]
      BY <1>1, <2>5 DEF TypeOK
    <3>2. \A s \in Sensors : (Owed(s) => Owed(s)') /\ (s = at => Owed(s)')
      BY <1>3, <1>10, <2>5 DEF Owed
    <3>3. "sender" \notin lapped' => number'[at] = Inc(last[at])
      <4> SUFFICES ASSUME "sender" \notin lapped' PROVE number'[at] = Inc(last[at])
        OBVIOUS
      <4>1. sLoaded = number[at]
        BY <1>1, <2>1, <2>5 DEF NumberKept
      <4>2. ~ Owed(at)
        BY <2>1, <2>5 DEF Owed, Answering
      <4>3. at \in Sensors /\ number \in [Sensors -> 0..(NumberSize - 1)]
        BY <1>1 DEF TypeOK
      <4>4. number[at] = last[at]
        BY <1>1, <4>2, <4>3, Zenon DEF NumberKept
      <4> QED BY <2>5, <4>1, <4>3, <4>4
    <3>4. "callback" \notin lapped' /\ Answering => "callback" \notin lapped /\ number'[of] = number[of]
      BY <1>1, <2>1, <3>1 DEF TypeOK
    <3>5. NumberKept'
      BY <1>1, <1>3, <1>10, <2>5, <3>1, <3>2, <3>3, <3>4 DEF NumberKept, Answering
    <3> QED BY <2>3, <3>5
  <2>6. CASE /\ (spc = "read" /\ spc' = "call") \/ (spc = "call" /\ spc' = "send")
             /\ UNCHANGED <<number, last>>
    <3>1. \A s \in Sensors : Owed(s) => Owed(s)'
      BY <1>3, <1>10, <2>6 DEF Owed
    <3>2. NumberKept'
      BY <1>1, <1>3, <1>10, <2>1, <2>6, <3>1 DEF NumberKept, Answering
    <3> QED BY <2>3, <3>2
  <2> QED BY <1>10, <2>4, <2>5, <2>6, SenderEffect
<1>11. CASE /\ spc = "send" /\ spc' \in {"wait", "test"} /\ UNCHANGED number
            /\ last' = [last EXCEPT ![at] = number[at]]
  <2>1. Sending /\ ~ Sending' /\ spc' \notin {"store", "read", "call", "send"}
    BY <1>11 DEF Sending
  <2>2. TokenKept'
    BY <1>6, <2>1 DEF TokenKept
  <2>3. \A s \in Sensors : /\ s # at => last'[s] = last[s]
                           /\ s = at => last'[s] = number[s]
                           /\ s # at => (Owed(s) => Owed(s)')
    BY <1>1, <1>3, <1>11 DEF Owed, TypeOK
  <2>4. "callback" \notin lapped' /\ Answering => "callback" \notin lapped /\ last'[of] = last[of]
    <3>1. "callback" \notin lapped' /\ Answering => "callback" \notin lapped /\ at # of
      BY <1>2, <1>4, <2>1, Zenon
    <3> QED BY <1>1, <2>3, <3>1 DEF TypeOK
  <2>5. NumberKept'
    BY <1>1, <1>3, <1>11, <2>1, <2>3, <2>4 DEF NumberKept, Answering
  <2> QED BY <2>2, <2>5
<1> QED BY <1>8, <1>9, <1>10, <1>11, SenderEffect

-----------------------------------------------------------------------------
(* The callbacks. *)

LEMMA CallbackTypes ==
  ASSUME TypeOK, TokenKept, CallbackStep \/ Request
  PROVE  TypeOK'
<1>1. lapped' \subseteq {"sender", "callback"}
  BY DEF CallbackStep, Request, Lap
<1>2. CASE Free
  <2>1. memory' \in [Sensors -> [Addresses -> Tokens \cup {Garbage}]]
    BY <1>2 DEF Free, TypeOK
  <2> QED BY <1>1, <1>2, <2>1 DEF Free, TypeOK, sender, history
<1>3. CASE SetNull
  BY <1>1, <1>3 DEF SetNull, TypeOK, sender, history
<1>4. CASE Malloc
  BY <1>1, <1>4 DEF Malloc, TypeOK, sender, history
<1>5. CASE Copy
  <2>1. token_ptr[of] \in Addresses /\ request.token \in Tokens
    BY <1>5 DEF Copy, TokenKept, Replacing
  <2>2. memory' \in [Sensors -> [Addresses -> Tokens \cup {Garbage}]]
    BY <1>5, <2>1 DEF Copy, TypeOK
  <2> QED BY <1>1, <1>5, <2>2 DEF Copy, TypeOK, sender, history
<1>6. CASE SetLen
  BY <1>1, <1>6 DEF SetLen, TypeOK, sender, history
<1>7. CASE Observe
  <2>1. cLoaded' \in 0..(NumberSize - 1)
    BY <1>7 DEF Observe, TypeOK
  <2>2. cpc' \in {"store", "respond"}
    BY <1>7, Zenon DEF Observe
  <2>3. halted' \in BOOLEAN /\ request' \in [token : Tokens \cup {None}, observe : BOOLEAN]
    <3>1. CASE UNCHANGED <<request, halted>>
      BY <3>1 DEF TypeOK
    <3>2. CASE request' = [request EXCEPT !.observe = FALSE] /\ halted' \in BOOLEAN
      BY <3>2 DEF TypeOK
    <3> QED BY <1>7, <3>1, <3>2, Zenon DEF Observe
  <2> QED BY <1>1, <1>7, <2>1, <2>2, <2>3 DEF Observe, TypeOK, static, sender
<1>8. CASE StoreObserved
  <2>1. Inc(cLoaded) \in 0..(NumberSize - 1)
    BY IncType DEF TypeOK
  <2> QED BY <1>1, <1>8, <2>1 DEF StoreObserved, TypeOK, sender, history
<1>9. CASE Respond
  <2>1. last' \in [Sensors -> 0..(NumberSize - 1)] /\ observed' \subseteq Sensors
    BY <1>9 DEF Respond, TypeOK
  <2>2. halted' \in BOOLEAN
    BY <1>9, Zenon DEF Respond
  <2> QED BY <1>1, <1>9, <2>1, <2>2 DEF Respond, TypeOK, static, sender
<1>10. CASE Request
  <2>1. PICK s \in Sensors, token \in Tokens \cup {None}, observe \in BOOLEAN :
          Get(s, token, observe)
    BY <1>10, Zenon DEF Request
  <2>2. request' \in [token : Tokens \cup {None}, observe : BOOLEAN]
    BY <2>1 DEF Get
  <2>3. cpc' = "read" /\ of' \in Sensors
    BY <2>1, Zenon DEF Get
  <2> QED BY <1>1, <2>1, <2>2, <2>3 DEF Get, TypeOK, static, sender, history
<1>11. CASE ReadToAnswer
  <2>1. latest' \in [Sensors -> Tokens \cup {None}]
    BY <1>11 DEF ReadToAnswer, TypeOK
  <2>2. cpc' \in {"observe", "token"}
    BY <1>11, Zenon DEF ReadToAnswer
  <2> QED BY <1>1, <1>11, <2>1, <2>2 DEF ReadToAnswer, TypeOK, static, sender
<1> QED
  BY <1>2, <1>3, <1>4, <1>5, <1>6, <1>7, <1>8, <1>9, <1>10, <1>11, Zenon DEF CallbackStep

\* A callback leaves the sender and the other sensors alone.
LEMMA CallbackElsewhere ==
  ASSUME TypeOK, CallbackStep \/ Request
  PROVE  /\ UNCHANGED <<spc, at, sLoaded, passed>>
         /\ \A s \in Sensors : ~ (Answering /\ s = of) =>
              /\ number'[s] = number[s] /\ last'[s] = last[s] /\ memory'[s] = memory[s]
              /\ token_ptr'[s] = token_ptr[s] /\ token_len'[s] = token_len[s]
         /\ Answering => of' = of /\ latest' = latest
<1>1. CASE Free
  BY <1>1 DEF Free, TypeOK, sender, history, Answering
<1>2. CASE SetNull
  BY <1>2 DEF SetNull, TypeOK, sender, history, Answering
<1>3. CASE Malloc
  BY <1>3 DEF Malloc, TypeOK, sender, history, Answering
<1>4. CASE Copy
  BY <1>4 DEF Copy, TypeOK, sender, history, Answering
<1>5. CASE SetLen
  BY <1>5 DEF SetLen, TypeOK, sender, history, Answering
<1>6. CASE Observe
  BY <1>6 DEF Observe, static, sender, Answering
<1>7. CASE StoreObserved
  BY <1>7 DEF StoreObserved, TypeOK, sender, history, Answering
<1>8. CASE Respond
  BY <1>8 DEF Respond, TypeOK, static, sender, Answering
<1>9. CASE Request
  BY <1>9 DEF Request, Get, static, sender, history, Answering
<1>10. CASE ReadToAnswer
  BY <1>10 DEF ReadToAnswer, static, sender, Answering
<1> QED
  BY <1>1, <1>2, <1>3, <1>4, <1>5, <1>6, <1>7, <1>8, <1>9, <1>10, Zenon DEF CallbackStep

\* The token is whole again when the callback has stopped replacing it.
LEMMA CallbackTokens ==
  ASSUME TypeOK, TokenKept, CallbackStep \/ Request
  PROVE  /\ \A s \in Sensors : Replacing(s)' \/ token_ptr'[s] = NULL \/ Whole(s)'
         /\ Replacing(of)' => request'.token \in Tokens /\ latest'[of'] = request'.token
         /\ cpc' \in {"copy", "len"} => token_ptr'[of'] \in Addresses
         /\ cpc' = "null" => token_ptr'[of'] \in Addresses
         /\ cpc' = "len" => memory'[of'][token_ptr'[of']] = request'.token
<1>1. CASE Free
  BY <1>1 DEF Free, TypeOK, TokenKept, Replacing, Whole, history
<1>2. CASE SetNull
  BY <1>2 DEF SetNull, TypeOK, TokenKept, Replacing, Whole, history
<1>3. CASE Malloc
  BY <1>3 DEF Malloc, TypeOK, TokenKept, Replacing, Whole, history
<1>4. CASE Copy
  BY <1>4 DEF Copy, TypeOK, TokenKept, Replacing, Whole, history
<1>5. CASE SetLen
  BY <1>5 DEF SetLen, TypeOK, TokenKept, Replacing, Whole, history
<1>6. CASE Observe
  <2>1. UNCHANGED <<static, of, latest>> /\ cpc' \in {"store", "respond"} /\ cpc = "observe"
    BY <1>6, Zenon DEF Observe
  <2> QED BY <2>1 DEF TokenKept, Replacing, Whole, static
<1>7. CASE StoreObserved
  BY <1>7 DEF StoreObserved, TypeOK, TokenKept, Replacing, Whole, history
<1>8. CASE Respond
  BY <1>8 DEF Respond, TypeOK, TokenKept, Replacing, Whole, static
<1>9. CASE Request
  BY <1>9 DEF Request, Get, TypeOK, TokenKept, Replacing, Whole, static, history
<1>10. CASE ReadToAnswer
  BY <1>10 DEF ReadToAnswer, TypeOK, TokenKept, Replacing, Whole, static
<1> QED
  BY <1>1, <1>2, <1>3, <1>4, <1>5, <1>6, <1>7, <1>8, <1>9, <1>10, Zenon DEF CallbackStep

\* A number that was counted is answered with, or would be.
LEMMA CallbackNumbers ==
  ASSUME TypeOK, NumberKept, CallbackStep \/ Request
  PROVE  \A s \in Sensors : number'[s] = last'[s] \/ Owed(s)'
<1>1. CASE ReadToAnswer \/ Free \/ SetNull \/ Malloc \/ Copy \/ SetLen \/ Observe \/ Request
  <2>1. UNCHANGED <<number, last, spc, at>> /\ cpc # "respond"
    BY <1>1 DEF ReadToAnswer, Free, SetNull, Malloc, Copy, SetLen, Observe, Request, Get, static,
                sender, history
  <2> QED BY <2>1 DEF NumberKept, Owed
<1>2. CASE StoreObserved
  <2>1. /\ UNCHANGED <<last, spc, at, of>> /\ cpc = "store" /\ cpc' = "respond"
        /\ number' = [number EXCEPT ![of] = Inc(cLoaded)]
    BY <1>2 DEF StoreObserved, sender, history
  <2>2. \A s \in Sensors : s # of => number'[s] = number[s] /\ (Owed(s) => Owed(s)')
    BY <2>1 DEF Owed, TypeOK
  <2>3. Owed(of)'
    BY <2>1, Zenon DEF Owed
  <2> QED BY <2>1, <2>2, <2>3 DEF NumberKept
<1>3. CASE Respond
  <2>1. UNCHANGED <<number, spc, at, of>> /\ last' = [last EXCEPT ![of] = number[of]]
    BY <1>3 DEF Respond, static, sender
  <2>2. \A s \in Sensors : /\ s # of => last'[s] = last[s]
                           /\ s = of => last'[s] = number[s]
    BY <2>1 DEF TypeOK
  <2>3. \A s \in Sensors : s # of => (Owed(s) => Owed(s)')
    BY <2>1 DEF Owed
  <2> QED BY <2>1, <2>2, <2>3 DEF NumberKept
<1> QED
  BY <1>1, <1>2, <1>3, Zenon DEF CallbackStep

LEMMA CallbackKeeps ==
  ASSUME NotifyInv, CallbackStep \/ Request
  PROVE  NotifyInv'
<1>1. TypeOK' /\ TypeOK /\ Met /\ TokenKept /\ NumberKept /\ Lap
  BY CallbackTypes, Zenon DEF NotifyInv, CallbackStep, Request
<1>2. /\ Met'
      /\ Sending /\ Sending' /\ "sender" \notin lapped' =>
           /\ "sender" \notin lapped
           /\ ~ (Answering /\ at = of) /\ ~ (Answering' /\ at' = of')
      /\ Answering /\ Answering' /\ "callback" \notin lapped' =>
           /\ "callback" \notin lapped
           /\ ~ (Sending /\ at = of) /\ ~ (Sending' /\ at' = of')
  BY <1>1, Apart, Zenon
<1>3. /\ UNCHANGED <<spc, at, sLoaded, passed>>
      /\ \A s \in Sensors : ~ (Answering /\ s = of) =>
           /\ number'[s] = number[s] /\ last'[s] = last[s] /\ memory'[s] = memory[s]
           /\ token_ptr'[s] = token_ptr[s] /\ token_len'[s] = token_len[s]
      /\ Answering => of' = of /\ latest' = latest
  BY <1>1, CallbackElsewhere
<1>4. at \in Sensors /\ of \in Sensors /\ (Sending' <=> Sending)
  BY <1>1, <1>3 DEF TypeOK, Sending
<1>5. Sending /\ "sender" \notin lapped' =>
        /\ "sender" \notin lapped
        /\ number'[at] = number[at] /\ last'[at] = last[at]
        /\ token_ptr'[at] = token_ptr[at] /\ token_len'[at] = token_len[at]
  BY <1>2, <1>3, <1>4, Zenon
<1>6. TokenKept'
  <2>1. /\ \A s \in Sensors : Replacing(s)' \/ token_ptr'[s] = NULL \/ Whole(s)'
        /\ Replacing(of)' => request'.token \in Tokens /\ latest'[of'] = request'.token
        /\ cpc' \in {"copy", "len"} => token_ptr'[of'] \in Addresses
        /\ cpc' = "null" => token_ptr'[of'] \in Addresses
        /\ cpc' = "len" => memory'[of'][token_ptr'[of']] = request'.token
    BY <1>1, CallbackTokens
  <2>2. Sending' /\ "sender" \notin lapped' => token_ptr'[at'] \in Addresses
    BY <1>1, <1>3, <1>4, <1>5 DEF TokenKept
  <2>3. spc' = "send" /\ "sender" \notin lapped' =>
          passed'.ptr = token_ptr'[at'] /\ passed'.len = token_len'[at']
    <3>1. spc = "send" => Sending
      BY DEF Sending
    <3> QED BY <1>1, <1>3, <1>5, <3>1 DEF TokenKept
  <2> QED BY <2>1, <2>2, <2>3, Zenon DEF TokenKept
<1>7. NumberKept'
  <2>1. \A s \in Sensors : number'[s] = last'[s] \/ Owed(s)'
    BY <1>1, CallbackNumbers
  <2>2. spc \in {"store", "read", "call", "send"} => Sending
    BY DEF Sending
  <2>3. "sender" \notin lapped' =>
          /\ spc' = "store" => sLoaded' = number'[at']
          /\ spc' \in {"read", "call", "send"} => number'[at'] = Inc(last'[at'])
    BY <1>1, <1>3, <1>5, <2>2 DEF NumberKept
  <2>4. "callback" \notin lapped' /\ cpc' = "store" => cLoaded' = number'[of']
    <3>1. cpc' = "store" => Observe
      BY DEF CallbackStep, ReadToAnswer, Free, SetNull, Malloc, Copy, SetLen, StoreObserved,
             Respond, Request, Get
    <3>2. Observe => UNCHANGED <<number, of>> /\ (cpc' = "store" => cLoaded' = number[of])
      <4>1. "respond" # "store"
        OBVIOUS
      <4>2. Observe => UNCHANGED static /\ of' = of /\ (cpc' = "store" => cLoaded' = number[of])
        BY <4>1, Zenon DEF Observe
      <4> QED BY <4>2 DEF static
    <3> QED BY <3>1, <3>2
  <2>5. "callback" \notin lapped' /\ cpc' = "respond" /\ request'.observe =>
          number'[of'] = Inc(last'[of'])
    <3>0. SUFFICES ASSUME "callback" \notin lapped', cpc' = "respond", request'.observe
                   PROVE  number'[of'] = Inc(last'[of'])
      OBVIOUS
    <3>1. CASE Observe
      <4>1. ~ request.observe
        <5>1. cpc' = (IF request.observe THEN "store" ELSE "respond")
          BY <3>1, Zenon DEF Observe
        <5>2. "respond" # "store"
          OBVIOUS
        <5> QED BY <3>0, <5>1, <5>2, Zenon
      <4>2. request' = request
        BY <3>1, <4>1, Zenon DEF Observe
      <4> QED BY <3>0, <4>1, <4>2, Zenon
    <3>2. CASE StoreObserved
      <4>1. /\ cpc = "store" /\ cpc' = "respond" /\ UNCHANGED <<last, of>>
            /\ number' = [number EXCEPT ![of] = Inc(cLoaded)]
        BY <3>2 DEF StoreObserved, history
      <4>2. "callback" \notin lapped /\ ~ (Sending /\ at = of)
        <5>1. Answering /\ Answering'
          BY <4>1 DEF Answering
        <5> QED BY <1>2, <3>0, <5>1, Zenon
      <4>3. cLoaded = number[of]
        BY <1>1, <4>1, <4>2 DEF NumberKept
      <4>4. ~ Owed(of)
        BY <4>1, <4>2 DEF Owed, Sending
      <4>5. number[of] = last[of]
        BY <1>1, <1>4, <4>4, Zenon DEF NumberKept
      <4>6. number'[of] = Inc(cLoaded)
        BY <1>1, <1>4, <4>1 DEF TypeOK
      <4>7. number'[of'] = Inc(cLoaded) /\ last'[of'] = last[of] /\ cLoaded = last[of]
        BY <4>1, <4>3, <4>5, <4>6
      <4> QED BY <4>7, Zenon
    <3>3. CASE ~ Observe /\ ~ StoreObserved
      <4>1. cpc' # "respond"
        BY <3>3 DEF CallbackStep, ReadToAnswer, Free, SetNull, Malloc, Copy, SetLen, Respond,
                    Request, Get
      <4> QED BY <3>0, <4>1
    <3> QED BY <3>1, <3>2, <3>3
  <2>6. "callback" \notin lapped' =>
          /\ cpc' = "store" => cLoaded' = number'[of']
          /\ cpc' = "respond" /\ request'.observe => number'[of'] = Inc(last'[of'])
    BY <2>4, <2>5, Zenon
  <2> QED BY <2>1, <2>3, <2>6, Zenon DEF NumberKept
<1> QED BY <1>1, <1>2, <1>6, <1>7, Zenon DEF NotifyInv

LEMMA SameNotify ==
  ASSUME NotifyInv, UNCHANGED vars
  PROVE  NotifyInv'
<1>1. UNCHANGED <<number, token_ptr, token_len, memory, time, spc, at, sLoaded, passed, cpc, of,
                  request, cLoaded, halted, latest, last, observed, lapped>>
  BY DEF vars, static, sender, callback, history
<1>2. TypeOK'
  BY <1>1 DEF NotifyInv, TypeOK
<1>3. Met'
  BY <1>1 DEF NotifyInv, Met, Sending, Answering
<1>4. TokenKept'
  BY <1>1 DEF NotifyInv, TokenKept, Replacing, Whole, Sending
<1>5. NumberKept'
  <2>1. NumberKept /\ \A s : Owed(s)' <=> Owed(s)
    BY <1>1 DEF NotifyInv, Owed
  <2>2. \A s \in Sensors : number'[s] = last'[s] \/ Owed(s)'
    BY <1>1, <2>1 DEF NumberKept
  <2> QED BY <1>1, <2>1, <2>2 DEF NumberKept
<1> QED BY <1>2, <1>3, <1>4, <1>5 DEF NotifyInv

LEMMA AlwaysNotifyInv == Spec => []NotifyInv
<1>1. NotifyInv /\ [Next]_vars => NotifyInv'
  BY SenderKeeps, CallbackKeeps, SameNotify, Zenon DEF Next
<1> QED BY <1>1, InitNotify, PTL DEF Spec

-----------------------------------------------------------------------------
(* Theorems about SensorNotify. *)

\* Pointers, lengths, tokens and numbers keep their types: memory is only written
\* through a pointer that malloc has returned.
THEOREM TypeCorrect == Spec => []TypeOK
BY AlwaysNotifyInv, PTL DEF NotifyInv

\* A notification carries the whole of the last token a callback got to, unless one of
\* the same sensor was at its token or its answer while the sender was at it.
THEOREM LatestTokenIsCarried == Spec => []CarriesLatestToken
<1>1. NotifyInv => CarriesLatestToken
  <2> SUFFICES ASSUME NotifyInv, spc = "send", "sender" \notin lapped
               PROVE  memory[at][passed.ptr] = latest[at] /\ passed.len = latest[at]
    BY DEF CarriesLatestToken
  <2>1. token_ptr[at] \in Addresses /\ passed.ptr = token_ptr[at] /\ passed.len = token_len[at]
    BY DEF NotifyInv, TokenKept, Sending
  <2>2. ~ Replacing(at)
    BY DEF NotifyInv, Met, Sending, Answering, Replacing
  <2>3. token_ptr[at] # NULL /\ at \in Sensors
    BY <2>1 DEF NotifyInv, TypeOK, Addresses, NULL
  <2>4. Whole(at)
    BY <2>2, <2>3, Zenon DEF NotifyInv, TokenKept
  <2> QED BY <2>1, <2>4 DEF Whole
<1> QED BY <1>1, AlwaysNotifyInv, PTL

\* Each message of a sensor counts its number once, whether the sender or a callback
\* sends it, unless both were at this sensor at once.
THEOREM EveryNumberAdvances == Spec => []NumbersAdvance
<1>1. NotifyInv => NumbersAdvance
  BY DEF NotifyInv, NumberKept, NumbersAdvance
<1> QED BY <1>1, AlwaysNotifyInv, PTL

-----------------------------------------------------------------------------
(* The invariant of LightSensor.                                             *)

Labels == {"idle", "clear", "nop", "send", "check", "low", "high", "add", "store", "return"}

\* After the constructors every job is "vis"; until then only Main is busy, with the
\* step the constructors have come to.
Jobs == /\ Started => \A t \in Threads : Busy(t) => job[t] = "vis"
        /\ ~ Started => /\ \A t \in Threads : Busy(t) => t = Main
                        /\ Busy(Main) => Start[start].op # "write" /\ job[Main] = Start[start].of
                        /\ addressed[Main] => pointer = Register(Main)
                        /\ \A t \in Threads : measured[t] = {}

\* RESET comes first, and the channels are listed before the first measurement.  A response
\* to PARAM_SET is one to this command: RESET has left none and none pending.
SetUp == /\ start > 2 => "HW_KEY" \in written
         /\ start > 8 => "PARAM_WR" \in written
         /\ start > 9 => "CHLIST" \in written
         /\ start \in 2..9 => /\ response => "CHLIST" \in written
                              /\ pending # NONE => pending = "PARAM_SET" /\ start = 9

\* A call that is not spoilt is alone in the driver, so the registers and the members hold
\* what it left there.
Alone(t) == Busy(t) /\ job[t] = "vis" /\ ~ spoilt[t]

HeldAlone(t) ==
  /\ \A u \in Threads : u # t => ~ Busy(u)
  /\ addressed[t] => pointer = Register(t)
  /\ pc[t] \in {"clear", "nop"} => measured[t] = {} /\ pending = NONE
  /\ pc[t] \in {"send", "check"} /\ measured[t] = {} => ~ response /\ pending \in {NONE, "vis"}
  /\ pc[t] \in {"low", "high", "add", "store", "return"} => measured[t] # {}
  /\ measured[t] # {} => measured[t] = {light} /\ pending = NONE
  /\ pc[t] \in {"clear", "nop", "send", "check", "low", "high", "add"} => left[t] = 1 /\ stack[t] = 0
  /\ pc[t] \in {"high", "add"} => LowB = light.low
  /\ pc[t] = "add" => HighB = light.high
  /\ pc[t] = "store" => stack[t] = Word(light)
  /\ pc[t] = "return" => VIS = Word(light)

\* What is needed of the types.
LightTypes ==
  /\ light \in Samples
  /\ start \in 1..17
  /\ pc \in [Threads -> Labels]
  /\ addressed \in [Threads -> BOOLEAN]
  /\ spoilt \in [Threads -> BOOLEAN]
  /\ job \in [Threads -> Gets \cup {NONE, "RESET", "PARAM_SET"}]
  /\ pending \in Gets \cup {NONE, "PARAM_SET"}
  /\ response \in BOOLEAN
  /\ DOMAIN left = Threads /\ DOMAIN stack = Threads /\ DOMAIN measured = Threads
  /\ \A t \in Threads :
       /\ addressed[t] => pc[t] \in {"clear", "check", "low", "high"}
       /\ pc[t] = "check" => job[t] # "RESET"
       /\ pc[t] \in {"low", "high", "add", "store", "return"} => job[t] \in Gets
       /\ ~ Busy(t) => measured[t] = {}

LightInv == LightTypes /\ Jobs /\ SetUp /\ \A t \in Threads : Alone(t) => HeldAlone(t)

-----------------------------------------------------------------------------
LEMMA StartIs ==
  /\ Len(Start) = 16
  /\ Start[1] = Command("RESET") /\ Start[2] = Write("HW_KEY")
  /\ \A i \in {3, 4, 5, 6, 7, 8, 10, 11, 12, 13} : Start[i].op = "write"
  /\ Start[8] = Write("PARAM_WR") /\ Start[9] = Command("PARAM_SET")
  /\ Start[14] = Measure("ps1") /\ Start[15] = Measure("ps2") /\ Start[16] = Measure("ps3")
<1> DEFINE gets == <<Measure("ps1"), Measure("ps2"), Measure("ps3")>>
           S == [op : {"write", "command", "get"},
                 of : {"RESET", "HW_KEY", "PS_LED21", "PS_LED3", "MEAS_RATE", "ALS_RATE", "PS_RATE",
                       "PARAM_WR", "PARAM_SET", "INT_CFG", "IRQ_ENABLE", "IRQ_MODE1", "IRQ_MODE2",
                       "ps1", "ps2", "ps3"}]
<1>1. Restart \in Seq(S) /\ Len(Restart) = 13
  BY DEF Restart, Write, Command
<1>2. gets \in Seq(S) /\ Len(gets) = 3
  BY DEF Measure
<1>3. /\ Len(Start) = 16
      /\ \A i \in 1..16 : Start[i] = IF i <= 13 THEN Restart[i] ELSE gets[i - 13]
  <2>1. Start = Restart \o gets
    BY DEF Start
  <2> HIDE DEF gets
  <2>2. /\ Len(Restart \o gets) = Len(Restart) + Len(gets)
        /\ \A i \in 1..(Len(Restart) + Len(gets)) :
             (Restart \o gets)[i] = IF i <= Len(Restart) THEN Restart[i] ELSE gets[i - Len(Restart)]
    BY <1>1, <1>2, ConcatProperties, Zenon
  <2>3. Len(Restart) + Len(gets) = 16
    BY <1>1, <1>2
  <2> QED BY <1>1, <1>2, <2>1, <2>2, <2>3, Zenon
<1> HIDE DEF gets
<1>4. \A i \in 1..13 : Start[i] = Restart[i]
  BY <1>3
<1>5. /\ Start[14] = Measure("ps1") /\ Start[15] = Measure("ps2")
      /\ Start[16] = Measure("ps3")
  <2>1. Start[14] = gets[1] /\ Start[15] = gets[2] /\ Start[16] = gets[3]
    BY <1>3
  <2> QED BY <2>1 DEF gets
<1>6. /\ Restart[1] = Command("RESET") /\ Restart[2] = Write("HW_KEY")
      /\ Restart[8] = Write("PARAM_WR") /\ Restart[9] = Command("PARAM_SET")
      /\ \A i \in {3, 4, 5, 6, 7, 8, 10, 11, 12, 13} : Restart[i].op = "write"
  BY DEF Restart, Write, Command
<1> QED BY <1>3, <1>4, <1>5, <1>6

LEMMA InitLight == LightInit => LightInv
<1> SUFFICES ASSUME LightInit PROVE LightInv
  OBVIOUS
<1>1. \A t \in Threads : ~ Busy(t) /\ pc[t] = "idle" /\ measured[t] = {} /\ ~ addressed[t]
  BY DEF LightInit, Busy
<1>2. LightTypes
  <2>1. light \in Samples
    BY LightAssumption DEF LightInit, AnySample
  <2>2. /\ addressed \in [Threads -> BOOLEAN] /\ spoilt \in [Threads -> BOOLEAN]
        /\ response \in BOOLEAN
    BY Zenon DEF LightInit
  <2>3. start \in 1..17
    BY DEF LightInit
  <2>4. /\ pc \in [Threads -> Labels] /\ job \in [Threads -> Gets \cup {NONE, "RESET", "PARAM_SET"}]
        /\ pending \in Gets \cup {NONE, "PARAM_SET"}
        /\ DOMAIN left = Threads /\ DOMAIN stack = Threads /\ DOMAIN measured = Threads
    BY DEF LightInit, Labels
  <2> QED BY <1>1, <2>1, <2>2, <2>3, <2>4 DEF LightTypes
<1>3. Jobs
  <2>1. ~ Started
    BY StartIs DEF LightInit, Started
  <2> QED BY <1>1, <2>1, LightAssumption, Zenon DEF Jobs
<1>4. SetUp
  BY DEF LightInit, SetUp
<1>5. \A t \in Threads : ~ Alone(t)
  BY <1>1 DEF Alone
<1> QED BY <1>2, <1>3, <1>4, <1>5 DEF LightInv

\* The constructors write a register, or start a command.
LEMMA ConstructKeeps ==
  ASSUME LightInv, Construct
  PROVE  LightInv'
<1>1. /\ ~ Started /\ ~ Busy(Main) /\ Main \in Threads
      /\ UNCHANGED <<response, pending, light, LowB, HighB, VIS, addressed, measured, spoilt>>
  BY LightAssumption DEF Construct, members
<1>2. start \in 1..16 /\ (\A t \in Threads : ~ Busy(t) /\ pc[t] = "idle" /\ measured[t] = {} /\ ~ addressed[t])
  <2>1. start \in 1..16
    BY <1>1, StartIs DEF Started, LightInv, LightTypes
  <2>2. \A t \in Threads : ~ Busy(t)
    BY <1>1, Zenon DEF LightInv, Jobs
  <2>3. \A t \in Threads : pc[t] = "idle"
    BY <2>2 DEF Busy
  <2>4. ASSUME NEW t \in Threads PROVE measured[t] = {} /\ ~ addressed[t]
    BY <2>2, <2>3 DEF LightInv, LightTypes
  <2> QED BY <2>1, <2>2, <2>3, <2>4
<1>3. LightTypes /\ Jobs /\ SetUp
  BY DEF LightInv
<1>4. CASE Start[start].op = "write"
  <2>1. /\ written' = written \cup {Start[start].of} /\ start' = start + 1
        /\ UNCHANGED <<pc, job, left, stack>>
    BY <1>4, Zenon DEF Construct
  <2>2. start \notin {1, 9, 14, 15, 16}
    BY <1>4, StartIs DEF Command, Measure
  <2>3. \A t \in Threads : ~ Busy(t)' /\ ~ Alone(t)'
    BY <1>2, <2>1 DEF Busy, Alone
  <2>4. LightTypes'
    BY <1>1, <1>2, <1>3, <2>1, <2>3 DEF LightTypes
  <2>5. Jobs'
    <3>1. addressed'[Main] => pointer' = Register(Main)'
      BY <1>1, <1>2
    <3> QED BY <1>1, <1>2, <2>3, <3>1, Zenon DEF Jobs
  <2>6. SetUp'
    <3>1. start = 2 => "HW_KEY" \in written'
      BY <2>1, StartIs DEF Write
    <3>2. start = 8 => "PARAM_WR" \in written'
      BY <2>1, StartIs DEF Write
    <3> QED BY <1>1, <1>2, <1>3, <2>1, <2>2, <3>1, <3>2 DEF SetUp
  <2> QED BY <2>3, <2>4, <2>5, <2>6 DEF LightInv
<1>5. CASE Start[start].op # "write"
  <2> DEFINE what == Start[start].of
  <2>1. /\ pc' = [pc EXCEPT ![Main] = "clear"] /\ job' = [job EXCEPT ![Main] = what]
        /\ DOMAIN left' = DOMAIN left /\ DOMAIN stack' = DOMAIN stack
        /\ UNCHANGED <<written, start>>
    BY <1>5 DEF Construct, Ask, Goto
  <2>2. what \in Proximity \cup {"RESET", "PARAM_SET"}
    BY <1>2, <1>5, StartIs DEF Write, Command, Measure, Proximity
  <2> HIDE DEF what
  <2>3. \A t \in Threads : (Busy(t)' => t = Main) /\ ~ Alone(t)'
    BY <1>2, <1>3, <2>1, <2>2 DEF Busy, Alone, LightTypes, Proximity
  <2>4. LightTypes'
    <3>1. pc' \in [Threads -> Labels] /\ job' \in [Threads -> Gets \cup {NONE, "RESET", "PARAM_SET"}]
      BY <1>3, <2>1, <2>2 DEF LightTypes, Labels, Gets
    <3>2. \A t \in Threads : pc'[t] \in {"idle", "clear"} /\ measured'[t] = {} /\ ~ addressed'[t]
      BY <1>1, <1>2, <1>3, <2>1 DEF LightTypes
    <3> QED BY <1>1, <1>3, <2>1, <3>1, <3>2 DEF LightTypes
  <2>5. Jobs'
    <3>1. addressed'[Main] => pointer' = Register(Main)'
      BY <1>1, <1>2
    <3>2. job'[Main] = Start[start'].of /\ Start[start'].op # "write"
      BY <1>1, <1>3, <1>5, <2>1 DEF LightTypes, what
    <3>3. ~ Started' /\ \A t \in Threads : measured'[t] = {}
      BY <1>1, <1>2, <2>1 DEF Started
    <3> QED BY <2>3, <3>1, <3>2, <3>3, Zenon DEF Jobs
  <2>6. SetUp'
    BY <1>1, <1>3, <2>1 DEF SetUp
  <2> QED BY <2>3, <2>4, <2>5, <2>6 DEF LightInv
<1> QED BY <1>4, <1>5

\* A call begins: it is alone only if the driver was empty and no command is left.
LEMMA BeginKeeps ==
  ASSUME LightInv, NEW t \in Threads, Begin(t)
  PROVE  LightInv'
<1>1. /\ Started /\ ~ Busy(t)
      /\ pc' = [pc EXCEPT ![t] = "clear"] /\ job' = [job EXCEPT ![t] = "vis"]
      /\ left' = [left EXCEPT ![t] = 1] /\ stack' = [stack EXCEPT ![t] = 0]
      /\ UNCHANGED <<response, written, pending, light, pointer, LowB, HighB, VIS, start, addressed,
                     measured>>
  BY DEF Begin, Ask, Goto, chip, members, Proximity
<1>2. spoilt' = [u \in Threads |->
                   IF u = t THEN pending # NONE \/ \E v \in Threads : Busy(v)
                            ELSE spoilt[u] \/ Busy(u)]
  BY Zenon DEF Begin
<1>3. LightTypes /\ Jobs /\ SetUp
  BY DEF LightInv
<1>4. pc[t] = "idle" /\ ~ addressed[t] /\ measured[t] = {}
  BY <1>1, <1>3 DEF Busy, LightTypes
<1>5. LightTypes'
  <2>1. spoilt' \in [Threads -> BOOLEAN]
    BY <1>2, <1>3, Zenon DEF LightTypes
  <2>2. pc' \in [Threads -> Labels] /\ job' \in [Threads -> Gets \cup {NONE, "RESET", "PARAM_SET"}]
    BY <1>1, <1>3 DEF LightTypes, Labels, Gets
  <2>3. ASSUME NEW u \in Threads
        PROVE  /\ addressed'[u] => pc'[u] \in {"clear", "check", "low", "high"}
               /\ pc'[u] = "check" => job'[u] # "RESET"
               /\ pc'[u] \in {"low", "high", "add", "store", "return"} => job'[u] \in Gets
               /\ ~ Busy(u)' => measured'[u] = {}
    BY <1>1, <1>3, <1>4 DEF LightTypes, Busy
  <2> QED BY <1>1, <1>3, <2>1, <2>2, <2>3 DEF LightTypes
<1>6. Jobs'
  <2>1. Started'
    BY <1>1 DEF Started
  <2>2. \A u \in Threads : Busy(u)' => job'[u] = "vis"
    BY <1>1, <1>3 DEF Jobs, Busy, LightTypes
  <2> QED BY <2>1, <2>2, Zenon DEF Jobs
<1>7. SetUp'
  BY <1>1, <1>3 DEF SetUp
<1>8. ASSUME NEW u \in Threads, Alone(u)'
      PROVE  HeldAlone(u)'
  <2>1. ~ spoilt'[u] /\ Busy(u)'
    BY <1>8, Zenon DEF Alone
  <2>2. u = t
    <3>2. u # t => (Busy(u)' <=> Busy(u))
      BY <1>1, <1>3 DEF Busy, LightTypes
    <3>3. u # t => (spoilt'[u] <=> (spoilt[u] \/ Busy(u)))
      BY <1>2, Zenon
    <3> QED BY <2>1, <3>2, <3>3, Zenon
  <2>3. pending = NONE /\ \A v \in Threads : ~ Busy(v)
    BY <1>2, <2>1, <2>2, Zenon
  <2>4. /\ pc'[t] = "clear" /\ left'[t] = 1 /\ stack'[t] = 0 /\ ~ addressed'[t] /\ measured'[t] = {}
        /\ pending' = NONE /\ \A v \in Threads : v # t => ~ Busy(v)'
    BY <1>1, <1>3, <1>4, <2>3 DEF LightTypes, Busy
  <2> QED BY <2>2, <2>4 DEF HeldAlone
<1> QED BY <1>5, <1>6, <1>7, <1>8 DEF LightInv

\* The chip executes a command: for a call that is alone this is the one it has sent.
LEMMA ExecuteKeeps ==
  ASSUME LightInv, Execute
  PROVE  LightInv'
<1>1. /\ pending # NONE /\ pending' = NONE /\ response' = TRUE
      /\ UNCHANGED <<pointer, LowB, HighB, VIS, start, pc, addressed, job, left, stack, spoilt>>
      /\ written \subseteq written'
      /\ pending = "PARAM_SET" /\ "PARAM_WR" \in written => "CHLIST" \in written'
  BY DEF Execute, members, local
<1>2. LightTypes /\ Jobs /\ SetUp
  BY DEF LightInv
<1>3. pending = "vis" =>
        \E s \in Samples :
          /\ light' = IF {"HW_KEY", "CHLIST"} \subseteq written THEN s ELSE light
          /\ measured' = [t \in Threads |->
               IF pc[t] \in {"send", "check"} /\ job[t] = "vis" /\ ~ spoilt[t]
                 THEN {s} ELSE measured[t]]
  BY Zenon DEF Execute
<1>4. pending # "vis" => light' = light /\ measured' = measured
  BY DEF Execute
<1>5. LightTypes'
  <2>1. light' \in Samples
    BY <1>2, <1>3, <1>4 DEF LightTypes
  <2>2. DOMAIN measured' = Threads
    BY <1>2, <1>3, <1>4 DEF LightTypes
  <2>3. \A t \in Threads : ~ Busy(t)' => measured'[t] = {}
    BY <1>1, <1>2, <1>3, <1>4 DEF LightTypes, Busy
  <2> QED BY <1>1, <1>2, <2>1, <2>2, <2>3 DEF LightTypes
<1>6. Jobs'
  <2>1. ASSUME ~ Started, NEW t \in Threads PROVE measured'[t] = {}
    <3>1. measured[t] = {} /\ (Busy(t) => job[t] # "vis")
      <4>1. measured[t] = {} /\ (Busy(t) => t = Main /\ Start[start].op # "write" /\ job[t] = Start[start].of)
        BY <1>2, <2>1, Zenon DEF Jobs
      <4>2. start \in 1..16
        BY <1>2, <2>1, StartIs DEF LightTypes, Started
      <4>3. Start[start].op # "write" => Start[start].of # "vis"
        BY <4>2, StartIs DEF Write, Command, Measure
      <4> QED BY <4>1, <4>3, Zenon
    <3> QED BY <1>2, <1>3, <1>4, <3>1 DEF LightTypes, Busy
  <2>2. Register(Main)' = Register(Main)
    BY <1>1 DEF Register
  <2> QED BY <1>1, <1>2, <2>1, <2>2 DEF Jobs, Started, Busy
<1>7. SetUp'
  BY <1>1, <1>2 DEF SetUp
<1>8. ASSUME NEW t \in Threads, Alone(t)'
      PROVE  HeldAlone(t)'
  <2>1. Alone(t)
    BY <1>1, <1>8 DEF Alone, Busy
  <2>2. HeldAlone(t)
    BY <2>1 DEF LightInv
  <2>3. measured[t] = {} /\ pc[t] \in {"send", "check"} /\ pending = "vis"
    <3>1. measured[t] = {} /\ pc[t] \in Labels /\ pc[t] # "idle"
      BY <1>1, <1>2, <2>1, <2>2 DEF HeldAlone, LightTypes, Alone, Busy
    <3>2. pc[t] \in {"send", "check"}
      BY <1>1, <2>2, <3>1 DEF HeldAlone, Labels
    <3> QED BY <1>1, <2>2, <3>1, <3>2 DEF HeldAlone
  <2>4. {"HW_KEY", "CHLIST"} \subseteq written
    <3>1. Started
      <4>1. ~ Started => job[t] = Start[start].of /\ Start[start].op # "write" /\ job[t] = "vis"
        BY <1>2, <2>1, Zenon DEF Jobs, Alone
      <4>2. ~ Started => start \in 1..16
        BY <1>2, StartIs DEF LightTypes, Started
      <4>3. ~ Started => (Start[start].op # "write" => Start[start].of # "vis")
        BY <4>2, StartIs DEF Write, Command, Measure
      <4> QED BY <4>1, <4>3, Zenon
    <3>2. start > 9
      BY <1>2, <3>1, StartIs DEF LightTypes, Started
    <3> QED BY <1>2, <3>2 DEF SetUp, LightTypes
  <2>5. measured'[t] = {light'}
    BY <1>3, <2>1, <2>3, <2>4 DEF Alone
  <2>6. \A u \in Threads : u # t => ~ Busy(u)'
    BY <1>1, <2>2 DEF HeldAlone, Busy
  <2>7. addressed'[t] => pointer' = Register(t)'
    BY <1>1, <2>2 DEF HeldAlone, Register
  <2> QED BY <1>1, <2>2, <2>3, <2>5, <2>6, <2>7 DEF HeldAlone
<1> QED BY <1>5, <1>6, <1>7, <1>8 DEF LightInv

\* Which job a thread in the driver has.
LEMMA WhichJob ==
  ASSUME LightInv, NEW t \in Threads, Busy(t)
  PROVE  /\ Started => job[t] = "vis"
         /\ ~ Started => /\ t = Main /\ measured[t] = {}
                         /\ job[t] \in Proximity \cup {"RESET", "PARAM_SET"}
                         /\ job[t] = "RESET" <=> start = 1
                         /\ job[t] = "PARAM_SET" <=> start = 9
                         /\ job[t] \in Proximity <=> start \in 14..16
                         /\ start \in {1, 9, 14, 15, 16}
<1>1. LightTypes /\ Jobs
  BY DEF LightInv
<1>2. Started => job[t] = "vis"
  BY <1>1 DEF Jobs
<1>3. ASSUME ~ Started
      PROVE  /\ t = Main /\ measured[t] = {}
             /\ job[t] \in Proximity \cup {"RESET", "PARAM_SET"}
             /\ job[t] = "RESET" <=> start = 1
             /\ job[t] = "PARAM_SET" <=> start = 9
             /\ job[t] \in Proximity <=> start \in 14..16
             /\ start \in {1, 9, 14, 15, 16}
  <2>1. start \in 1..16
    BY <1>1, <1>3, StartIs DEF LightTypes, Started
  <2>2. t = Main /\ measured[t] = {} /\ Start[start].op # "write" /\ job[t] = Start[start].of
    BY <1>1, <1>3, Zenon DEF Jobs
  <2>3. start \in {1, 9, 14, 15, 16}
    BY <2>1, <2>2, StartIs DEF Write
  <2> QED BY <2>2, <2>3, StartIs DEF Command, Measure, Proximity
<1> QED BY <1>2, <1>3

\* A thread that goes on in the driver ...
LEMMA GoesOn ==
  ASSUME LightInv, NEW t \in Threads, Busy(t), NEW label \in Labels \ {"idle"},
         pc' = [pc EXCEPT ![t] = label], UNCHANGED <<start, job, measured>>,
         ~ Started => (addressed'[Main] => pointer' = Register(Main)')
  PROVE  Jobs'
<1>1. LightTypes /\ Jobs
  BY DEF LightInv
<1>2. \A u \in Threads : Busy(u)' <=> Busy(u)
  BY <1>1 DEF Busy, LightTypes
<1>3. Started' <=> Started
  BY DEF Started
<1>4. CASE Started
  BY <1>1, <1>2, <1>3, <1>4, Zenon DEF Jobs
<1>5. CASE ~ Started
  <2>1. /\ \A u \in Threads : Busy(u)' => u = Main
        /\ Busy(Main)' => Start[start'].op # "write" /\ job'[Main] = Start[start'].of
        /\ \A u \in Threads : measured'[u] = {}
    BY <1>1, <1>2, <1>5, LightAssumption DEF Jobs
  <2> QED BY <1>3, <1>5, <2>1, Zenon DEF Jobs
<1> QED BY <1>4, <1>5

\* ... and one that leaves it: the constructors have come a step further, if it was them.
LEMMA Leaves ==
  ASSUME LightInv, NEW t \in Threads, Busy(t),
         pc' = [pc EXCEPT ![t] = "idle"], Constructed, ~ addressed'[t],
         \A u \in Threads : measured'[u] = measured[u] \/ measured'[u] = {},
         \A u \in Threads : u # t => job'[u] = job[u]
  PROVE  Jobs'
<1>1. LightTypes /\ Jobs
  BY DEF LightInv
<1>2. /\ ~ Busy(t)'
      /\ \A u \in Threads : u # t => (Busy(u)' <=> Busy(u))
  BY <1>1 DEF Busy, LightTypes
<1>3. CASE Started
  <2>1. start' = start /\ Started'
    BY <1>3 DEF Constructed, Started
  <2>2. \A u \in Threads : Busy(u)' => job'[u] = "vis"
    BY <1>1, <1>2, <1>3, Zenon DEF Jobs
  <2> QED BY <2>1, <2>2, Zenon DEF Jobs
<1>4. CASE ~ Started
  <2>1. t = Main /\ \A u \in Threads : ~ Busy(u)' /\ measured'[u] = {}
    BY <1>1, <1>2, <1>4, Zenon DEF Jobs
  <2> QED BY <2>1, LightAssumption, Zenon DEF Jobs
<1> QED BY <1>3, <1>4

\* Only the thread that works can be alone in the driver.
LEMMA WorksAlone ==
  ASSUME LightInv, NEW u \in Threads, Work(u), NEW t \in Threads, Alone(t)'
  PROVE  Busy(u) /\ u = t /\ Alone(t) /\ HeldAlone(t) /\ Started
<1>1. LightTypes /\ Jobs
  BY DEF LightInv
<1>2. Busy(u)
  <2>1. CASE Fetch(u)
    BY <1>1, <2>1 DEF Fetch, LightTypes, Busy
  <2>2. CASE Select(u) \/ Nop(u) \/ SendCommand(u) \/ Add(u) \/ Store(u) \/ GiveBack(u)
    BY <2>2 DEF Select, Nop, SendCommand, Add, Store, GiveBack, Busy
  <2> QED BY <2>1, <2>2 DEF Work
<1>3. Alone(t)
  <2>1. \/ t = u /\ Busy(u) /\ job'[t] = job[t] /\ (spoilt[t] => spoilt'[t])
        \/ t = u /\ ~ Busy(t)'
        \/ t # u /\ (Busy(t)' => Busy(t)) /\ job'[t] = job[t] /\ (spoilt[t] => spoilt'[t])
    <3>1. CASE Select(u) \/ Nop(u) \/ Add(u) \/ Store(u) \/ Fetch(u)
      <4>1. \E label \in Labels : pc' = [pc EXCEPT ![u] = label] \/ pc' = pc
        BY <3>1 DEF Select, Nop, Add, Store, Fetch, Goto, Labels
      <4>2. job' = job /\ spoilt' = spoilt
        BY <3>1 DEF Select, Nop, Add, Store, Fetch, local
      <4> QED BY <1>1, <1>2, <4>1, <4>2 DEF LightTypes, Busy
    <3>2. CASE SendCommand(u)
      <4>1. \E label \in Labels : pc' = [pc EXCEPT ![u] = label]
        BY <3>2 DEF SendCommand, Goto, Labels
      <4>2. job' = job
        BY <3>2 DEF SendCommand, local
      <4>3. spoilt[t] => spoilt'[t]
        <5>1. spoilt' = spoilt \/ spoilt' = [spoilt EXCEPT ![u] = @ \/ measured[u] # {}]
          BY <3>2, Zenon DEF SendCommand
        <5>2. DOMAIN spoilt = Threads
          BY <1>1 DEF LightTypes
        <5> QED BY <5>1, <5>2
      <4> QED BY <1>1, <1>2, <4>1, <4>2, <4>3 DEF LightTypes, Busy
    <3>3. CASE GiveBack(u)
      <4>1. /\ pc' = [pc EXCEPT ![u] = "idle"] /\ job' = [job EXCEPT ![u] = NONE]
            /\ spoilt' = [spoilt EXCEPT ![u] = FALSE]
        BY <3>3, Zenon DEF GiveBack, Goto
      <4>2. t = u => ~ Busy(t)'
        BY <1>1, <4>1 DEF LightTypes, Busy
      <4>3. t # u => pc'[t] = pc[t] /\ job'[t] = job[t] /\ spoilt'[t] = spoilt[t]
        BY <1>1, <4>1 DEF LightTypes
      <4> QED BY <4>2, <4>3, Zenon DEF Busy
    <3> QED BY <3>1, <3>2, <3>3 DEF Work
  <2> QED BY <2>1, Zenon DEF Alone
<1>4. HeldAlone(t) /\ u = t
  BY <1>2, <1>3, Zenon DEF LightInv, HeldAlone
<1>5. Started
  <2>1. "vis" \notin Proximity \cup {"RESET", "PARAM_SET"}
    BY DEF Proximity
  <2>2. Busy(t) /\ job[t] = "vis"
    BY <1>3, Zenon DEF Alone
  <2> QED BY <2>1, <2>2, WhichJob, Zenon
<1> QED BY <1>2, <1>3, <1>4, <1>5

-----------------------------------------------------------------------------
(* A step of a thread in the driver. *)

LEMMA RegisterIs ==
  ASSUME NEW t \in Threads
  PROVE  /\ pc[t] \in {"clear", "check"} => Register(t) = <<"response", "low">>
         /\ pc[t] = "low"  => Register(t) = <<job[t], "low">>
         /\ pc[t] = "high" => Register(t) = <<job[t], "high">>
BY DEF Register

LEMMA SelectKeeps ==
  ASSUME LightInv, NEW t \in Threads, Select(t)
  PROVE  LightInv'
<1>1. /\ pc[t] \in {"clear", "check", "low", "high"} /\ pointer' = Register(t)
      /\ addressed' = [addressed EXCEPT ![t] = TRUE]
      /\ UNCHANGED <<response, written, pending, light, LowB, HighB, VIS, start, pc, job, left, stack,
                     measured, spoilt>>
  BY Zenon DEF Select, chip, members, local
<1>2. LightTypes /\ Jobs /\ SetUp /\ Busy(t)
  BY <1>1 DEF LightInv, Busy
<1>3. LightTypes'
  <2>1. addressed' \in [Threads -> BOOLEAN]
    BY <1>1, <1>2, Zenon DEF LightTypes
  <2>2. \A u \in Threads : addressed'[u] => pc'[u] \in {"clear", "check", "low", "high"}
    BY <1>1, <1>2 DEF LightTypes
  <2>3. \A u \in Threads : /\ pc'[u] = "check" => job'[u] # "RESET"
                           /\ pc'[u] \in {"low", "high", "add", "store", "return"} => job'[u] \in Gets
                           /\ ~ Busy(u)' => measured'[u] = {}
    BY <1>1, <1>2 DEF LightTypes, Busy
  <2> QED BY <1>1, <1>2, <2>1, <2>2, <2>3 DEF LightTypes
<1>4. \A u : Register(u)' = Register(u)
  BY <1>1 DEF Register
<1>5. Jobs'
  <2>1. ~ Started => t = Main
    BY <1>2, WhichJob, Zenon
  <2> QED BY <1>1, <1>2, <1>4, <2>1 DEF Jobs, Started, Busy
<1>6. SetUp'
  BY <1>1, <1>2 DEF SetUp
<1>7. ASSUME NEW u \in Threads, Alone(u)'
      PROVE  HeldAlone(u)'
  <2>1. u = t /\ HeldAlone(t)
    BY <1>7, WorksAlone, Zenon DEF Work
  <2>2. pointer' = Register(t)'
    BY <1>1, <1>4
  <2>3. \A v \in Threads : v # t => ~ Busy(v)'
    BY <1>1, <2>1 DEF HeldAlone, Busy
  <2> QED BY <1>1, <2>1, <2>2, <2>3 DEF HeldAlone
<1> QED BY <1>3, <1>5, <1>6, <1>7 DEF LightInv

LEMMA NopKeeps ==
  ASSUME LightInv, NEW t \in Threads, Nop(t)
  PROVE  LightInv'
<1>1. /\ pc[t] = "nop" /\ pc' = [pc EXCEPT ![t] = "clear"] /\ response' = FALSE
      /\ UNCHANGED <<written, pending, light, LowB, HighB, VIS, start, addressed, job, left,
                     stack, measured, spoilt>>
  BY Zenon DEF Nop, Goto, members, local
<1>2. LightTypes /\ Jobs /\ SetUp /\ Busy(t)
  BY <1>1 DEF LightInv, Busy
<1>3. ~ addressed[t]
  BY <1>1, <1>2 DEF LightTypes
<1>4. LightTypes'
  <2>1. pc' \in [Threads -> Labels] /\ response' \in BOOLEAN
    <3>1. pc' \in [Threads -> Labels]
      BY <1>1, <1>2 DEF LightTypes, Labels
    <3> QED BY <1>1, <3>1, Zenon
  <2>2. ASSUME NEW u \in Threads
        PROVE  /\ addressed'[u] => pc'[u] \in {"clear", "check", "low", "high"}
               /\ pc'[u] = "check" => job'[u] # "RESET"
               /\ pc'[u] \in {"low", "high", "add", "store", "return"} => job'[u] \in Gets
               /\ ~ Busy(u)' => measured'[u] = {}
    BY <1>1, <1>2 DEF LightTypes, Busy
  <2> QED BY <1>1, <1>2, <2>1, <2>2 DEF LightTypes
<1>5. Jobs'
  <2>1. ~ Started => ~ addressed'[Main]
    BY <1>1, <1>2, <1>3, WhichJob
  <2> QED BY <1>1, <1>2, <2>1, GoesOn DEF Labels
<1>6. SetUp'
  BY <1>1, <1>2 DEF SetUp
<1>7. ASSUME NEW u \in Threads, Alone(u)'
      PROVE  HeldAlone(u)'
  <2>1. u = t /\ HeldAlone(t)
    BY <1>7, WorksAlone, Zenon DEF Work
  <2>2. pc'[t] = "clear" /\ ~ addressed'[t] /\ \A v \in Threads : v # t => ~ Busy(v)'
    BY <1>1, <1>2, <1>3, <2>1 DEF HeldAlone, Busy, LightTypes
  <2> QED BY <1>1, <2>1, <2>2 DEF HeldAlone
<1> QED BY <1>4, <1>5, <1>6, <1>7 DEF LightInv

LEMMA ContentIs ==
  /\ pointer = <<"response", "low">> => (Content # 0 <=> response)
  /\ pointer = <<"vis", "low">> => Content = light.low
  /\ pointer = <<"vis", "high">> => Content = light.high
<1>1. ASSUME pointer = <<"response", "low">> PROVE Content # 0 <=> response
  <2>1. Content = IF response THEN 1 ELSE 0
    BY <1>1 DEF Content
  <2>2. 1 # 0
    OBVIOUS
  <2> QED BY <2>1, <2>2, Zenon
<1>2. pointer = <<"vis", "low">> => Content = light.low
  BY DEF Content
<1>3. pointer = <<"vis", "high">> => Content = light.high
  BY DEF Content
<1> QED BY <1>1, <1>2, <1>3

LEMMA FetchKeeps ==
  ASSUME LightInv, NEW t \in Threads, Fetch(t)
  PROVE  LightInv'
<1>1. /\ addressed[t] /\ addressed' = [addressed EXCEPT ![t] = FALSE]
      /\ UNCHANGED <<response, written, pending, light, pointer, VIS, job, left, stack, measured, spoilt>>
  BY Zenon DEF Fetch, chip, local
<1>2. LightTypes /\ Jobs /\ SetUp
  BY DEF LightInv
<1>3. pc[t] \in {"clear", "check", "low", "high"} /\ Busy(t)
  BY <1>1, <1>2 DEF LightTypes, Busy
<1> DEFINE Clears == /\ pc[t] = "clear"
                     /\ pc' = [pc EXCEPT ![t] = IF Content = 0 THEN "send" ELSE "nop"]
                     /\ UNCHANGED <<LowB, HighB, start>>
           Again  == /\ pc[t] = "check" /\ Content = 0
                     /\ pc' = [pc EXCEPT ![t] = "send"]
                     /\ UNCHANGED <<LowB, HighB, start>>
           Reads  == /\ pc[t] = "check" /\ Content # 0 /\ job[t] \in Gets
                     /\ pc' = [pc EXCEPT ![t] = "low"]
                     /\ UNCHANGED <<LowB, HighB, start>>
           Done   == /\ pc[t] = "check" /\ Content # 0 /\ job[t] \notin Gets
                     /\ pc' = [pc EXCEPT ![t] = "idle"]
                     /\ Constructed
                     /\ UNCHANGED <<LowB, HighB>>
           Low    == /\ pc[t] = "low" /\ LowB' = Content
                     /\ pc' = [pc EXCEPT ![t] = "high"]
                     /\ UNCHANGED <<HighB, start>>
           High   == /\ pc[t] = "high" /\ HighB' = Content
                     /\ pc' = [pc EXCEPT ![t] = "add"]
                     /\ UNCHANGED <<LowB, start>>
<1>4. Clears \/ Again \/ Reads \/ Done \/ Low \/ High
  BY Zenon DEF Fetch, Goto
<1>5. ~ addressed'[t] /\ \A u \in Threads : u # t => addressed'[u] = addressed[u]
  BY <1>1, <1>2 DEF LightTypes
<1>6. \/ \E label \in {"send", "nop", "low", "high", "add"} :
           /\ pc' = [pc EXCEPT ![t] = label] /\ start' = start
           /\ label \in {"low", "high", "add"} => job[t] \in Gets
      \/ Done
  <2>1. CASE Clears \/ Again
    BY <2>1
  <2>2. CASE Reads
    BY <2>2
  <2>3. CASE Low \/ High
    BY <1>2, <2>3 DEF LightTypes
  <2> QED BY <1>4, <2>1, <2>2, <2>3, Zenon
<1> HIDE DEF Done
<1>7. CASE Done
  <2>1. /\ pc[t] = "check" /\ Content # 0 /\ job[t] \notin Gets
        /\ pc' = [pc EXCEPT ![t] = "idle"] /\ Constructed
    BY <1>7 DEF Done
  <2>2. Jobs'
    BY <1>1, <1>3, <1>5, <2>1, Leaves
  <2>3. ~ Started => start = 9 /\ "CHLIST" \in written
    <3>1. ASSUME ~ Started PROVE start = 9 /\ "CHLIST" \in written
      <4>1. t = Main /\ start = 9
        BY <1>2, <1>3, <2>1, <3>1, WhichJob DEF LightTypes, Gets
      <4>2. pointer = <<"response", "low">>
        BY <1>1, <1>2, <2>1, <3>1, <4>1, RegisterIs DEF Jobs
      <4>3. response
        BY <2>1, <4>2, ContentIs, Zenon
      <4> QED BY <1>2, <4>1, <4>3 DEF SetUp
    <3> QED BY <3>1
  <2>4. SetUp' /\ start' \in 1..17
    <3>1. CASE Started
      BY <1>1, <1>2, <2>1, <3>1 DEF Constructed, SetUp, LightTypes
    <3>2. CASE ~ Started
      BY <1>1, <1>2, <2>1, <2>3, <3>2 DEF Constructed, SetUp
    <3> QED BY <3>1, <3>2
  <2>5. LightTypes'
    <3>1. addressed' \in [Threads -> BOOLEAN]
      BY <1>1, <1>2, Zenon DEF LightTypes
    <3>2. pc' \in [Threads -> Labels]
      BY <1>2, <2>1 DEF LightTypes, Labels
    <3>3. measured[t] = {}
      <4>1. Started => job[t] \in Gets
        BY <1>3, WhichJob DEF Gets
      <4> QED BY <1>3, <2>1, <4>1, WhichJob, Zenon
    <3>4. ASSUME NEW u \in Threads
          PROVE  /\ addressed'[u] => pc'[u] \in {"clear", "check", "low", "high"}
                 /\ pc'[u] = "check" => job'[u] # "RESET"
                 /\ pc'[u] \in {"low", "high", "add", "store", "return"} => job'[u] \in Gets
                 /\ ~ Busy(u)' => measured'[u] = {}
      BY <1>1, <1>2, <1>5, <2>1, <3>3 DEF LightTypes, Busy
    <3> QED BY <1>1, <1>2, <2>4, <3>1, <3>2, <3>4 DEF LightTypes
  <2>6. \A u \in Threads : ~ Alone(u)'
    <3>1. ~ Busy(t)'
      BY <1>2, <2>1 DEF LightTypes, Busy
    <3> QED BY <3>1, WorksAlone, Zenon DEF Work, Alone
  <2> QED BY <2>2, <2>4, <2>5, <2>6, Zenon DEF LightInv
<1>8. CASE ~ Done
  <2>1. PICK label \in {"send", "nop", "low", "high", "add"} :
          /\ pc' = [pc EXCEPT ![t] = label] /\ start' = start
          /\ label \in {"low", "high", "add"} => job[t] \in Gets
    BY <1>6, <1>8, Zenon
  <2>2. Jobs'
    <3>1. ~ Started => ~ addressed'[Main]
      BY <1>3, <1>5, WhichJob
    <3>2. label \in Labels \ {"idle"}
      BY DEF Labels
    <3> QED BY <1>1, <1>3, <2>1, <3>1, <3>2, GoesOn
  <2>3. SetUp'
    BY <1>1, <1>2, <2>1 DEF SetUp
  <2>4. LightTypes'
    <3>1. addressed' \in [Threads -> BOOLEAN]
      BY <1>1, <1>2, Zenon DEF LightTypes
    <3>2. pc' \in [Threads -> Labels]
      BY <1>2, <2>1 DEF LightTypes, Labels
    <3>3. ASSUME NEW u \in Threads
          PROVE  /\ addressed'[u] => pc'[u] \in {"clear", "check", "low", "high"}
                 /\ pc'[u] = "check" => job'[u] # "RESET"
                 /\ pc'[u] \in {"low", "high", "add", "store", "return"} => job'[u] \in Gets
                 /\ ~ Busy(u)' => measured'[u] = {}
      BY <1>1, <1>2, <1>3, <1>5, <2>1 DEF LightTypes, Busy
    <3> QED BY <1>1, <1>2, <2>1, <3>1, <3>2, <3>3 DEF LightTypes
  <2>5. ASSUME NEW u \in Threads, Alone(u)'
        PROVE  HeldAlone(u)'
    <3>1. u = t /\ HeldAlone(t) /\ Alone(t)
      BY <2>5, WorksAlone, Zenon DEF Work
    <3>2. job[t] = "vis" /\ pointer = Register(t)
      BY <1>1, <3>1 DEF Alone, HeldAlone
    <3>3. /\ pc[t] \in {"clear", "check"} => (Content # 0 <=> response)
          /\ pc[t] = "low" => Content = light.low
          /\ pc[t] = "high" => Content = light.high
      <4>1. /\ pc[t] \in {"clear", "check"} => pointer = <<"response", "low">>
            /\ pc[t] = "low" => pointer = <<"vis", "low">>
            /\ pc[t] = "high" => pointer = <<"vis", "high">>
        BY <3>2, RegisterIs
      <4> QED BY <4>1, ContentIs, Zenon
    <3>4. /\ \A v \in Threads : v # t => ~ Busy(v)'
          /\ ~ addressed'[t]
      BY <1>2, <1>5, <2>1, <3>1 DEF HeldAlone, Busy, LightTypes
    <3>5. CASE Clears
      <4>1. /\ pc'[t] \in {"send", "nop"} /\ (pc'[t] = "send" => ~ response)
        BY <1>2, <3>3, <3>5 DEF LightTypes
      <4> QED BY <1>1, <3>1, <3>4, <3>5, <4>1 DEF HeldAlone
    <3>6. CASE Again
      <4>1. pc'[t] = "send"
        BY <1>2, <3>6 DEF LightTypes
      <4> QED BY <1>1, <3>1, <3>4, <3>6, <4>1 DEF HeldAlone
    <3>7. CASE Reads
      <4>1. pc'[t] = "low" /\ response
        BY <1>2, <3>3, <3>7 DEF LightTypes
      <4> QED BY <1>1, <3>1, <3>4, <3>7, <4>1 DEF HeldAlone
    <3>8. CASE Low
      <4>1. pc'[t] = "high" /\ LowB' = light.low
        BY <1>2, <3>3, <3>8 DEF LightTypes
      <4> QED BY <1>1, <3>1, <3>4, <3>8, <4>1 DEF HeldAlone
    <3>9. CASE High
      <4>1. pc'[t] = "add" /\ HighB' = light.high
        BY <1>2, <3>3, <3>9 DEF LightTypes
      <4> QED BY <1>1, <3>1, <3>4, <3>9, <4>1 DEF HeldAlone
    <3> QED BY <1>4, <1>8, <3>1, <3>5, <3>6, <3>7, <3>8, <3>9, Zenon
  <2> QED BY <2>2, <2>3, <2>4, <2>5 DEF LightInv
<1> QED BY <1>7, <1>8

\* What LightTypes says of each thread, where only t has gone on, to label.
LEMMA TypesGoOn ==
  ASSUME LightInv, NEW t \in Threads, Busy(t), ~ addressed[t],
         NEW label \in Labels \ {"idle"}, pc' = [pc EXCEPT ![t] = label],
         label = "check" => job[t] # "RESET",
         label \in {"low", "high", "add", "store", "return"} => job[t] \in Gets,
         UNCHANGED <<addressed, job, measured>>
  PROVE  /\ pc' \in [Threads -> Labels]
         /\ \A u \in Threads :
              /\ addressed'[u] => pc'[u] \in {"clear", "check", "low", "high"}
              /\ pc'[u] = "check" => job'[u] # "RESET"
              /\ pc'[u] \in {"low", "high", "add", "store", "return"} => job'[u] \in Gets
              /\ ~ Busy(u)' => measured'[u] = {}
<1>1. LightTypes
  BY DEF LightInv
<1>2. pc' \in [Threads -> Labels]
  BY <1>1 DEF LightTypes
<1>3. ASSUME NEW u \in Threads
      PROVE  /\ addressed'[u] => pc'[u] \in {"clear", "check", "low", "high"}
             /\ pc'[u] = "check" => job'[u] # "RESET"
             /\ pc'[u] \in {"low", "high", "add", "store", "return"} => job'[u] \in Gets
             /\ ~ Busy(u)' => measured'[u] = {}
  BY <1>1 DEF LightTypes, Busy
<1> QED BY <1>2, <1>3

\* The same where t leaves the driver.
LEMMA TypesLeave ==
  ASSUME LightInv, NEW t \in Threads, ~ addressed[t], pc' = [pc EXCEPT ![t] = "idle"],
         measured'[t] = {}, \A u \in Threads : u # t => job'[u] = job[u] /\ measured'[u] = measured[u],
         UNCHANGED addressed
  PROVE  /\ pc' \in [Threads -> Labels]
         /\ \A u \in Threads :
              /\ addressed'[u] => pc'[u] \in {"clear", "check", "low", "high"}
              /\ pc'[u] = "check" => job'[u] # "RESET"
              /\ pc'[u] \in {"low", "high", "add", "store", "return"} => job'[u] \in Gets
              /\ ~ Busy(u)' => measured'[u] = {}
<1>1. LightTypes
  BY DEF LightInv
<1>2. pc' \in [Threads -> Labels]
  BY <1>1 DEF LightTypes, Labels
<1>3. ASSUME NEW u \in Threads
      PROVE  /\ addressed'[u] => pc'[u] \in {"clear", "check", "low", "high"}
             /\ pc'[u] = "check" => job'[u] # "RESET"
             /\ pc'[u] \in {"low", "high", "add", "store", "return"} => job'[u] \in Gets
             /\ ~ Busy(u)' => measured'[u] = {}
  BY <1>1 DEF LightTypes, Busy
<1> QED BY <1>2, <1>3

LEMMA SendCommandKeeps ==
  ASSUME LightInv, NEW t \in Threads, SendCommand(t)
  PROVE  LightInv'
<1>1. /\ pc[t] = "send"
      /\ UNCHANGED <<light, LowB, HighB, VIS, addressed, job, left, stack, measured>>
  BY Zenon DEF SendCommand, members, local
<1>2. LightTypes /\ Jobs /\ SetUp /\ Busy(t)
  BY <1>1 DEF LightInv, Busy
<1>3. ~ addressed[t]
  BY <1>1, <1>2 DEF LightTypes
<1>4. CASE job[t] = "RESET"
  <2>1. /\ response' = FALSE /\ written' = {} /\ pending' = NONE
        /\ pc' = [pc EXCEPT ![t] = "idle"] /\ Constructed /\ spoilt' = spoilt
    BY <1>4, Zenon DEF SendCommand, Goto
  <2>2. ~ Started /\ t = Main /\ start = 1 /\ measured[t] = {}
    BY <1>2, <1>4, WhichJob
  <2>3. start' = 2
    BY <2>1, <2>2 DEF Constructed
  <2>4. Jobs'
    BY <1>1, <1>2, <1>3, <2>1, Leaves
  <2>5. SetUp'
    BY <2>1, <2>3 DEF SetUp
  <2>6. LightTypes'
    <3>1. response' \in BOOLEAN /\ pending' \in Gets \cup {NONE, "PARAM_SET"}
      <4>1. pending' \in Gets \cup {NONE, "PARAM_SET"}
        BY <2>1
      <4> QED BY <2>1, <4>1, Zenon
    <3>2. start' \in 1..17
      BY <2>3
    <3> QED BY <1>1, <1>2, <1>3, <2>1, <2>2, <3>1, <3>2, TypesLeave DEF LightTypes
  <2>7. \A u \in Threads : ~ Alone(u)'
    <3>1. ~ Busy(t)'
      BY <1>2, <2>1 DEF LightTypes, Busy
    <3> QED BY <3>1, WorksAlone, Zenon DEF Work, Alone
  <2> QED BY <2>4, <2>5, <2>6, <2>7, Zenon DEF LightInv
<1>5. CASE job[t] # "RESET"
  <2>1. /\ pending' = job[t] /\ pc' = [pc EXCEPT ![t] = "check"]
        /\ UNCHANGED <<response, written, start>>
        /\ spoilt' = [spoilt EXCEPT ![t] = @ \/ measured[t] # {}]
    BY <1>5, Zenon DEF SendCommand, Goto
  <2>2. "check" \in Labels \ {"idle"}
    BY DEF Labels
  <2>3. Jobs'
    BY <1>1, <1>2, <1>3, <2>1, <2>2, WhichJob, GoesOn
  <2>4. job[t] \in Gets \cup {"PARAM_SET"} /\ (start \in 2..9 => start = 9 /\ job[t] = "PARAM_SET")
    <3>1. CASE Started
      BY <1>2, <3>1, WhichJob, StartIs DEF Started, Gets
    <3>2. CASE ~ Started
      BY <1>2, <1>5, <3>2, WhichJob DEF Gets
    <3> QED BY <3>1, <3>2
  <2>5. SetUp'
    BY <1>2, <2>1, <2>4 DEF SetUp
  <2>6. LightTypes'
    <3>1. spoilt' \in [Threads -> BOOLEAN]
      BY <1>2, <2>1, Zenon DEF LightTypes
    <3>2. /\ pc' \in [Threads -> Labels]
          /\ \A u \in Threads :
               /\ addressed'[u] => pc'[u] \in {"clear", "check", "low", "high"}
               /\ pc'[u] = "check" => job'[u] # "RESET"
               /\ pc'[u] \in {"low", "high", "add", "store", "return"} => job'[u] \in Gets
               /\ ~ Busy(u)' => measured'[u] = {}
      BY <1>1, <1>2, <1>3, <1>5, <2>1, <2>2, TypesGoOn
    <3> QED BY <1>1, <1>2, <2>1, <2>4, <3>1, <3>2 DEF LightTypes
  <2>7. ASSUME NEW u \in Threads, Alone(u)'
        PROVE  HeldAlone(u)'
    <3>1. u = t /\ HeldAlone(t) /\ Alone(t)
      BY <2>7, WorksAlone, Zenon DEF Work
    <3>2. job[t] = "vis"
      BY <3>1 DEF Alone
    <3>3. measured[t] = {}
      <4>1. ~ spoilt'[t]
        BY <2>7, <3>1, Zenon DEF Alone
      <4>2. spoilt'[t] = (spoilt[t] \/ measured[t] # {})
        BY <1>2, <2>1, Zenon DEF LightTypes
      <4> QED BY <4>1, <4>2, Zenon
    <3>4. pc'[t] = "check" /\ \A v \in Threads : v # t => ~ Busy(v)'
      BY <1>2, <2>1, <3>1 DEF HeldAlone, Busy, LightTypes
    <3> QED BY <1>1, <1>3, <2>1, <3>1, <3>2, <3>3, <3>4 DEF HeldAlone
  <2> QED BY <2>3, <2>5, <2>6, <2>7 DEF LightInv
<1> QED BY <1>4, <1>5

LEMMA AddKeeps ==
  ASSUME LightInv, NEW t \in Threads, Add(t)
  PROVE  LightInv'
<1>0. /\ stack' = [stack EXCEPT ![t] = @ + HighB * Base + LowB]
      /\ left' = [left EXCEPT ![t] = @ - 1]
      /\ pc' = [pc EXCEPT ![t] = IF left[t] > 1 THEN "low" ELSE "store"]
  BY Zenon DEF Add, Goto
<1>1. /\ pc[t] = "add"
      /\ UNCHANGED <<response, written, pending, light, pointer, LowB, HighB, VIS, start, addressed,
                     job, measured, spoilt>>
  BY Zenon DEF Add, chip, members
<1>2. LightTypes /\ Jobs /\ SetUp /\ Busy(t)
  BY <1>1 DEF LightInv, Busy
<1>3. ~ addressed[t] /\ job[t] \in Gets
  BY <1>1, <1>2 DEF LightTypes
<1>4. PICK label \in {"low", "store"} : /\ pc' = [pc EXCEPT ![t] = label]
                                        /\ left[t] = 1 => label = "store"
  <2>1. left[t] = 1 => ~ (left[t] > 1)
    OBVIOUS
  <2>2. CASE left[t] > 1
    <3>1. pc' = [pc EXCEPT ![t] = "low"]
      BY <1>0, <2>2, Zenon
    <3> QED BY <2>1, <2>2, <3>1
  <2>3. CASE ~ (left[t] > 1)
    <3>1. pc' = [pc EXCEPT ![t] = "store"]
      BY <1>0, <2>3, Zenon
    <3> QED BY <3>1
  <2> QED BY <2>2, <2>3
<1>5. /\ label \in Labels \ {"idle"} /\ label # "check"
      /\ pc' = [pc EXCEPT ![t] = label]
  BY <1>4 DEF Labels
<1>6. Jobs'
  BY <1>1, <1>2, <1>3, <1>5, WhichJob, GoesOn
<1>7. SetUp'
  BY <1>1, <1>2 DEF SetUp
<1>8. LightTypes'
  <2>1. /\ pc' \in [Threads -> Labels]
        /\ \A u \in Threads :
             /\ addressed'[u] => pc'[u] \in {"clear", "check", "low", "high"}
             /\ pc'[u] = "check" => job'[u] # "RESET"
             /\ pc'[u] \in {"low", "high", "add", "store", "return"} => job'[u] \in Gets
             /\ ~ Busy(u)' => measured'[u] = {}
    BY <1>1, <1>2, <1>3, <1>5, TypesGoOn
  <2>2. DOMAIN stack' = Threads /\ DOMAIN left' = Threads
    BY <1>0, <1>2, Zenon DEF LightTypes
  <2> QED BY <1>1, <1>2, <2>1, <2>2 DEF LightTypes
<1>9. ASSUME NEW u \in Threads, Alone(u)'
      PROVE  HeldAlone(u)'
  <2>1. u = t /\ HeldAlone(t)
    BY <1>9, WorksAlone, Zenon DEF Work
  <2>2. /\ light.low \in Nat /\ light.high \in Nat /\ Base \in Nat
    BY <1>2, LightAssumption DEF LightTypes
  <2>3. left[t] = 1 /\ stack[t] = 0 /\ LowB = light.low /\ HighB = light.high
    BY <1>1, <2>1 DEF HeldAlone
  <2>4. stack'[t] = Word(light)
    <3>1. stack'[t] = 0 + light.high * Base + light.low
      <4>1. stack'[t] = stack[t] + HighB * Base + LowB
        BY <1>0, <1>2, Zenon DEF LightTypes
      <4> QED BY <2>3, <4>1
    <3>2. light.high * Base \in Nat
      BY <2>2
    <3> QED BY <2>2, <3>1, <3>2 DEF Word
  <2>5. pc'[t] = "store" /\ \A v \in Threads : v # t => ~ Busy(v)'
    <3>1. label = "store"
      BY <1>4, <2>3
    <3> QED BY <1>2, <1>5, <2>1, <3>1 DEF HeldAlone, Busy, LightTypes
  <2>6. Word(light)' = Word(light)
    BY <1>1 DEF Word
  <2> QED BY <1>1, <1>3, <2>1, <2>4, <2>5, <2>6 DEF HeldAlone
<1> QED BY <1>6, <1>7, <1>8, <1>9 DEF LightInv

LEMMA StoreKeeps ==
  ASSUME LightInv, NEW t \in Threads, Store(t)
  PROVE  LightInv'
<1>1. /\ pc[t] = "store" /\ pc' = [pc EXCEPT ![t] = "return"]
      /\ stack' = [stack EXCEPT ![t] = 0]
      /\ UNCHANGED <<response, written, pending, light, pointer, LowB, HighB, start, addressed, job, left,
                     measured, spoilt>>
  BY Zenon DEF Store, Goto, chip
<1>2. job[t] = "vis" => VIS' = stack[t] \div 1
  BY DEF Store
<1>3. LightTypes /\ Jobs /\ SetUp /\ Busy(t)
  BY <1>1 DEF LightInv, Busy
<1>4. ~ addressed[t] /\ job[t] \in Gets /\ "return" \in Labels \ {"idle"}
  BY <1>1, <1>3 DEF LightTypes, Labels
<1>5. Jobs'
  BY <1>1, <1>3, <1>4, WhichJob, GoesOn
<1>6. SetUp'
  BY <1>1, <1>3 DEF SetUp
<1>7. LightTypes'
  <2>1. /\ pc' \in [Threads -> Labels]
        /\ \A u \in Threads :
             /\ addressed'[u] => pc'[u] \in {"clear", "check", "low", "high"}
             /\ pc'[u] = "check" => job'[u] # "RESET"
             /\ pc'[u] \in {"low", "high", "add", "store", "return"} => job'[u] \in Gets
             /\ ~ Busy(u)' => measured'[u] = {}
    BY <1>1, <1>3, <1>4, TypesGoOn
  <2> QED BY <1>1, <1>3, <2>1 DEF LightTypes
<1>8. ASSUME NEW u \in Threads, Alone(u)'
      PROVE  HeldAlone(u)'
  <2>1. u = t /\ HeldAlone(t) /\ Alone(t)
    BY <1>8, WorksAlone, Zenon DEF Work
  <2>2. VIS' = Word(light)
    <3>1. light.low \in Nat /\ light.high \in Nat /\ Base \in Nat
      BY <1>3, LightAssumption DEF LightTypes
    <3>2. light.high * Base \in Nat
      BY <3>1
    <3>3. Word(light) \in Nat
      BY <3>1, <3>2 DEF Word
    <3>4. stack[t] = Word(light) /\ VIS' = stack[t] \div 1
      BY <1>1, <1>2, <2>1 DEF HeldAlone, Alone
    <3> QED BY <3>3, <3>4
  <2>3. pc'[t] = "return" /\ \A v \in Threads : v # t => ~ Busy(v)'
    BY <1>1, <1>3, <2>1 DEF HeldAlone, Busy, LightTypes
  <2>4. Word(light)' = Word(light)
    BY <1>1 DEF Word
  <2> QED BY <1>1, <1>4, <2>1, <2>2, <2>3, <2>4 DEF HeldAlone
<1> QED BY <1>5, <1>6, <1>7, <1>8 DEF LightInv

LEMMA GiveBackKeeps ==
  ASSUME LightInv, NEW t \in Threads, GiveBack(t)
  PROVE  LightInv'
<1>1. /\ pc[t] = "return" /\ pc' = [pc EXCEPT ![t] = "idle"] /\ Constructed
      /\ job' = [job EXCEPT ![t] = NONE]
      /\ measured' = [measured EXCEPT ![t] = {}]
      /\ spoilt' = [spoilt EXCEPT ![t] = FALSE]
      /\ UNCHANGED <<response, written, pending, light, pointer, addressed, left, stack>>
  BY Zenon DEF GiveBack, Goto, chip
<1>2. LightTypes /\ Jobs /\ SetUp /\ Busy(t)
  BY <1>1 DEF LightInv, Busy
<1>3. ~ addressed[t] /\ job[t] \in Gets
  BY <1>1, <1>2 DEF LightTypes
<1>4. /\ measured'[t] = {}
      /\ \A u \in Threads : u # t => job'[u] = job[u] /\ measured'[u] = measured[u]
  BY <1>1, <1>2 DEF LightTypes
<1>5. Jobs'
  <2>1. \A u \in Threads : measured'[u] = measured[u] \/ measured'[u] = {}
    BY <1>4
  <2> QED BY <1>1, <1>2, <1>3, <1>4, <2>1, Leaves
<1>6. SetUp' /\ start' \in 1..17
  <2>1. CASE Started
    BY <1>1, <1>2, <2>1 DEF Constructed, SetUp, LightTypes
  <2>2. CASE ~ Started
    <3>1. start \in 14..16
      BY <1>2, <1>3, <2>2, WhichJob DEF Gets, Proximity
    <3>2. start' = start + 1
      BY <1>1, <2>2 DEF Constructed
    <3> QED BY <1>1, <1>2, <3>1, <3>2 DEF SetUp
  <2> QED BY <2>1, <2>2
<1>7. LightTypes'
  <2>1. spoilt' \in [Threads -> BOOLEAN]
    BY <1>1, <1>2, Zenon DEF LightTypes
  <2>2. job' \in [Threads -> Gets \cup {NONE, "RESET", "PARAM_SET"}]
    BY <1>1, <1>2 DEF LightTypes
  <2>3. /\ pc' \in [Threads -> Labels]
        /\ \A u \in Threads :
             /\ addressed'[u] => pc'[u] \in {"clear", "check", "low", "high"}
             /\ pc'[u] = "check" => job'[u] # "RESET"
             /\ pc'[u] \in {"low", "high", "add", "store", "return"} => job'[u] \in Gets
             /\ ~ Busy(u)' => measured'[u] = {}
    BY <1>1, <1>3, <1>4, TypesLeave
  <2>4. DOMAIN measured' = Threads
    BY <1>1, <1>2 DEF LightTypes
  <2> QED BY <1>1, <1>2, <1>6, <2>1, <2>2, <2>3, <2>4 DEF LightTypes
<1>8. \A u \in Threads : ~ Alone(u)'
  <2>1. ~ Busy(t)'
    BY <1>1, <1>2 DEF LightTypes, Busy
  <2> QED BY <2>1, WorksAlone, Zenon DEF Work, Alone
<1> QED BY <1>5, <1>6, <1>7, <1>8, Zenon DEF LightInv

LEMMA SameLight ==
  ASSUME LightInv, UNCHANGED sensor
  PROVE  LightInv'
<1>1. UNCHANGED <<response, written, pending, pointer, light, LowB, HighB, VIS, start, pc, addressed, job,
                  left, stack, measured, spoilt>>
  BY Zenon DEF sensor
<1>2. /\ \A t : (Busy(t)' <=> Busy(t)) /\ (Alone(t)' <=> Alone(t)) /\ Register(t)' = Register(t)
      /\ Started' <=> Started
      /\ Word(light)' = Word(light)
  BY <1>1 DEF Busy, Alone, Register, Started, Word
<1>3. LightTypes' /\ Jobs' /\ SetUp'
  BY <1>1, <1>2 DEF LightInv, LightTypes, Jobs, SetUp
<1>4. ASSUME NEW t \in Threads, Alone(t)'
      PROVE  HeldAlone(t)'
  <2>1. HeldAlone(t)
    BY <1>2, <1>4 DEF LightInv
  <2> QED BY <1>1, <1>2, <2>1 DEF HeldAlone
<1> QED BY <1>3, <1>4 DEF LightInv

LEMMA AlwaysLightInv == LightSafe => []LightInv
<1>1. LightInv /\ [LightNext]_sensor => LightInv'
  <2> SUFFICES ASSUME LightInv, [LightNext]_sensor PROVE LightInv'
    OBVIOUS
  <2>1. CASE Construct
    BY <2>1, ConstructKeeps
  <2>2. CASE Execute
    BY <2>2, ExecuteKeeps
  <2>3. ASSUME NEW t \in Threads, Begin(t)
        PROVE  LightInv'
    BY <2>3, BeginKeeps
  <2>4. ASSUME NEW t \in Threads, Work(t)
        PROVE  LightInv'
    BY <2>4, SelectKeeps, FetchKeeps, NopKeeps, SendCommandKeeps, AddKeeps, StoreKeeps, GiveBackKeeps,
       Zenon DEF Work
  <2>5. CASE UNCHANGED sensor
    BY <2>5, SameLight
  <2> QED BY <2>1, <2>2, <2>3, <2>4, <2>5, Zenon DEF LightNext
<1> QED BY InitLight, <1>1, PTL DEF LightSafe

\* However the threads that call GetValue and the chip interleave, and whatever the last run of
\* the program left in the response register: the value of a call that was alone in the driver
\* from its first step to its last is the sample the chip took for this very call.
THEOREM MeasuredDuringTheCall == LightSafe => []ReadingIsMeasured
<1>1. LightInv => ReadingIsMeasured
  <2> SUFFICES ASSUME LightInv, NEW t \in Threads, pc[t] = "return", job[t] = "vis", ~ spoilt[t]
               PROVE  \E s \in measured[t] : VIS = Word(s)
    BY Zenon DEF ReadingIsMeasured
  <2>1. Alone(t)
    BY DEF Alone, Busy
  <2>2. HeldAlone(t)
    BY <2>1, Zenon DEF LightInv
  <2>3. measured[t] = {light} /\ VIS = Word(light)
    BY <2>2 DEF HeldAlone
  <2> QED BY <2>3
<1> QED BY AlwaysLightInv, <1>1, PTL
=============================================================================
