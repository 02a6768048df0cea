------------------------- MODULE AsyncRequests_proofs -------------------------
(***************************************************************************)
(* Proofs about AsyncRequests, for every set of requests and every choice  *)
(* of the constants: its variables keep their types, what a client is told *)
(* is what the device answered, and the module implements RequestReply.    *)
(***************************************************************************)
EXTENDS AsyncRequests, SequenceTheorems, TLAPS

\* What is left when the database has taken operation i from its list.
LEMMA WithoutProperties ==
  ASSUME NEW S, NEW s \in Seq(S), NEW i \in 1..Len(s)
  PROVE  /\ Without(s, i) \in Seq(S)
         /\ Len(Without(s, i)) = Len(s) - 1
         /\ \A j \in 1..(Len(s) - 1) :
              Without(s, i)[j] = IF j < i THEN s[j] ELSE s[j + 1]
<1> DEFINE a == SubSeq(s, 1, i - 1)
           b == SubSeq(s, i + 1, Len(s))
<1>0. Len(s) \in Nat /\ \A k \in 1..Len(s) : s[k] \in S
  BY LenProperties, ElementOfSeq
<1>1. /\ a \in Seq(S)
      /\ Len(a) = i - 1
      /\ \A k \in 1..(i - 1) : a[k] = s[k]
  <2>1. /\ a \in Seq(S)
        /\ Len(a) = IF 1 <= i - 1 THEN i - 1 - 1 + 1 ELSE 0
        /\ \A k \in 1..(i - 1 - 1 + 1) : a[k] = s[1 + k - 1]
    <3>1. 1 \in Int /\ i - 1 \in Int /\ \A k \in 1..(i - 1) : s[k] \in S
      BY <1>0
    <3> QED BY <3>1, SubSeqProperties
  <2> QED BY <1>0, <2>1
<1>2. /\ b \in Seq(S)
      /\ Len(b) = Len(s) - i
      /\ \A k \in 1..(Len(s) - i) : b[k] = s[i + k]
  <2>1. /\ b \in Seq(S)
        /\ Len(b) = IF i + 1 <= Len(s) THEN Len(s) - (i + 1) + 1 ELSE 0
        /\ \A k \in 1..(Len(s) - (i + 1) + 1) : b[k] = s[(i + 1) + k - 1]
    <3>1. /\ i + 1 \in Int /\ Len(s) \in Int
          /\ \A k \in (i + 1)..Len(s) : s[k] \in S
      BY <1>0
    <3> QED BY <3>1, SubSeqProperties
  <2> QED BY <1>0, <2>1
<1> HIDE DEF a, b
<1>3. /\ a \o b \in Seq(S)
      /\ Len(a \o b) = Len(a) + Len(b)
      /\ \A j \in 1..(Len(a) + Len(b)) :
           (a \o b)[j] = IF j <= Len(a) THEN a[j] ELSE b[j - Len(a)]
  BY <1>1, <1>2, ConcatProperties
<1>4. Without(s, i) = a \o b
  BY DEF Without, a, b
<1>5. Len(a) + Len(b) = Len(s) - 1
  BY <1>0, <1>1, <1>2
<1>6. ASSUME NEW j \in 1..(Len(s) - 1)
      PROVE  (a \o b)[j] = IF j < i THEN s[j] ELSE s[j + 1]
  <2>1. CASE j < i
    BY <1>0, <1>1, <1>3, <1>5, <2>1
  <2>2. CASE ~ (j < i)
    <3>1. (a \o b)[j] = b[j - (i - 1)]
      BY <1>0, <1>1, <1>3, <1>5, <2>2
    <3>2. j - (i - 1) \in 1..(Len(s) - i) /\ i + (j - (i - 1)) = j + 1
      BY <1>0, <2>2
    <3> QED BY <1>2, <2>2, <3>1, <3>2
  <2> QED BY <2>1, <2>2
<1> QED BY <1>3, <1>4, <1>5, <1>6

\* What the list of operations holds after one more is given to the driver.
LEMMA AppendOp ==
  ASSUME mongo \in Seq(Ops), NEW o \in Ops
  PROVE  /\ Append(mongo, o) \in Seq(Ops)
         /\ Len(Append(mongo, o)) = Len(mongo) + 1
         /\ \A j \in 1..(Len(mongo) + 1) :
              Append(mongo, o)[j] = IF j <= Len(mongo) THEN mongo[j] ELSE o
OBVIOUS

\* What an operation taken from the list is, and what is left of the list.
LEMMA ExecutedOp ==
  ASSUME mongo \in Seq(Ops), NEW i, Executable(i)
  PROVE  /\ i \in 1..Len(mongo)
         /\ Len(mongo) \in Nat
         /\ mongo[i] \in Ops
         /\ Without(mongo, i) \in Seq(Ops)
         /\ Len(Without(mongo, i)) = Len(mongo) - 1
         /\ \A j \in 1..(Len(mongo) - 1) :
              Without(mongo, i)[j] = IF j < i THEN mongo[j] ELSE mongo[j + 1]
<1>1. i \in 1..Len(mongo)
  BY DEF Executable
<1>2. mongo[i] \in Ops
  BY <1>1, ElementOfSeq
<1>3. Len(mongo) \in Nat
  BY LenProperties
<1> QED BY <1>1, <1>2, <1>3, WithoutProperties

-----------------------------------------------------------------------------
(* Types *)

\* The route handlers keep the types of what the client sees.
LEMMA SettleType ==
  ASSUME TypeOK, NEW r \in Requests, NEW code \in Codes, Settle(r, code)
  PROVE  /\ reply' \in [Requests -> Codes \cup {NoReply}]
         /\ announced' \in SUBSET Puts
BY DEF TypeOK, Settle

LEMMA RespondType ==
  ASSUME TypeOK, NEW r \in Requests, NEW s, Respond(r, s)
  PROVE  /\ called' \in [Requests -> Nat]
         /\ reply' \in [Requests -> Codes \cup {NoReply}]
         /\ announced' \in SUBSET Puts
         /\ disturbed' \in BOOLEAN
<1>1. (IF s = "ok" THEN Accepted(r) ELSE 500) \in Codes
  BY DEF Accepted, Codes
<1>2. CASE s = "bare"
  <2>1. UNCHANGED <<called, reply, announced>> /\ disturbed' = TRUE
    BY <1>2 DEF Respond
  <2> QED BY <2>1 DEF TypeOK
<1>3. CASE s # "bare"
  <2>1. called' = [called EXCEPT ![r] = @ + 1] /\ disturbed' = disturbed
    BY <1>3 DEF Respond
  <2>2. called' \in [Requests -> Nat]
    BY <2>1 DEF TypeOK
  <2>3. disturbed' \in BOOLEAN
    BY <2>1 DEF TypeOK
  <2> QED BY <1>1, <1>3, <2>2, <2>3, SettleType DEF Respond
<1> QED BY <1>2, <1>3

LEMMA TypeInit == Init => TypeOK
<1> SUFFICES ASSUME Init PROVE TypeOK
  OBVIOUS
<1>1. disturbed \in BOOLEAN
  BY DEF Init
<1>2. <<>> \in Seq(Ops)
  BY EmptySeq
<1>3. /\ phase \in [Requests -> Phases]
      /\ mongo = <<>> /\ pending = {} /\ announced = {}
      /\ pushed \in [Requests -> 0..MaxCopies]
  BY RequestsAssumption DEF Init, Phases
<1>4. /\ {answer, found, stored} \subseteq [Requests -> Statuses \cup {None}]
      /\ {pushes, called} \subseteq [Requests -> Nat]
      /\ reply \in [Requests -> Codes \cup {NoReply}]
  BY DEF Init
<1> QED BY <1>1, <1>2, <1>3, <1>4 DEF TypeOK

LEMMA TypeStep == TypeOK /\ [Next]_vars => TypeOK'
<1> SUFFICES ASSUME TypeOK, [Next]_vars PROVE TypeOK'
  OBVIOUS
<1> USE RequestsAssumption
<1> USE DEF devices, db, client
<1>1. ASSUME NEW r \in Requests, Ask(r) PROVE TypeOK'
  BY <1>1 DEF Ask, TypeOK, Phases
<1>2. ASSUME NEW r \in Requests, AskFails(r) PROVE TypeOK'
  <2>1. 500 \in Codes
    BY DEF Codes
  <2>2. reply' \in [Requests -> Codes \cup {NoReply}] /\ announced' \in SUBSET Puts
    BY <1>2, <2>1, SettleType DEF AskFails
  <2> QED BY <1>2, <2>2 DEF AskFails, TypeOK, Phases
<1>3. ASSUME NEW r \in Requests, PushAgain(r) PROVE TypeOK'
  BY <1>3 DEF PushAgain, TypeOK
<1>4. ASSUME NEW r \in Requests, Expire(r) PROVE TypeOK'
  BY <1>4 DEF Expire, TypeOK
<1>5. ASSUME NEW r \in Requests, Accept(r) PROVE TypeOK'
  BY <1>5 DEF Accept, TypeOK, Phases
<1>6. ASSUME NEW r \in Requests, Add(r) PROVE TypeOK'
  <2>1. Find(r) \in Ops
    BY DEF Find, Ops
  <2>2. mongo' \in Seq(Ops)
    BY <1>6, <2>1, AppendOp DEF Add, TypeOK
  <2> QED BY <1>6, <2>2 DEF Add, TypeOK, Phases
<1>7. ASSUME NEW r \in Requests, OnNotification(r) PROVE TypeOK'
  <2>1. Insert(r, answer[r]) \in Ops
    BY DEF Insert, Ops, TypeOK
  <2>2. pushes' \in [Requests -> Nat]
    BY <1>7 DEF OnNotification, TypeOK
  <2>3. CASE r \in pending
    <3>1. /\ called' \in [Requests -> Nat]
          /\ reply' \in [Requests -> Codes \cup {NoReply}]
          /\ announced' \in SUBSET Puts
          /\ disturbed' \in BOOLEAN
      BY <1>7, <2>3, RespondType DEF OnNotification
    <3>2. /\ pending' \in SUBSET Requests
          /\ UNCHANGED <<phase, answer, pushed, mongo, found, stored>>
      BY <1>7, <2>3 DEF OnNotification, TypeOK
    <3> QED BY <2>2, <3>1, <3>2 DEF TypeOK
  <2>4. CASE r \notin pending
    <3>1. mongo' \in Seq(Ops)
      BY <1>7, <2>1, <2>4, AppendOp DEF OnNotification, TypeOK
    <3> QED BY <1>7, <2>2, <2>4, <3>1 DEF OnNotification, TypeOK
  <2> QED BY <2>3, <2>4
<1>8. ASSUME NEW r \in Requests, FindReturns(r) PROVE TypeOK'
  <2>1. /\ called' \in [Requests -> Nat]
        /\ reply' \in [Requests -> Codes \cup {NoReply}]
        /\ announced' \in SUBSET Puts
        /\ disturbed' \in BOOLEAN
    BY <1>8, RespondType DEF FindReturns
  <2> QED BY <1>8, <2>1 DEF FindReturns, TypeOK
<1>9. ASSUME NEW r \in Requests, NEW s \in Statuses, AnswerNow(r, s) PROVE TypeOK'
  <2>1. (CASE s \in {"ok", "bare"} -> Accepted(r)
           [] s = "gone" -> 410
           [] s = "refused" -> 500) \in Codes
    BY DEF Accepted, Codes, Statuses
  <2>2. reply' \in [Requests -> Codes \cup {NoReply}] /\ announced' \in SUBSET Puts
    BY <1>9, <2>1, SettleType DEF AnswerNow
  <2> QED BY <1>9, <2>2 DEF AnswerNow, TypeOK, Phases
<1>10. ASSUME NEW r \in Requests, NEW s \in Statuses, DeviceAnswers(r, s) PROVE TypeOK'
  BY <1>10 DEF DeviceAnswers, TypeOK
<1>11. ASSUME NEW i \in DOMAIN mongo, Execute(i) PROVE TypeOK'
  <2>1. mongo[i] \in Ops /\ Without(mongo, i) \in Seq(Ops)
    BY <1>11, ExecutedOp DEF Execute, TypeOK
  <2>2. mongo[i].id \in Requests /\ mongo[i].status \in Statuses \cup {None}
    BY <2>1 DEF Ops
  <2>3. found' \in [Requests -> Statuses \cup {None}]
    BY <1>11, <2>2 DEF Execute, TypeOK
  <2>4. stored' \in [Requests -> Statuses \cup {None}]
    BY <1>11, <2>2 DEF Execute, TypeOK
  <2> QED BY <1>11, <2>1, <2>3, <2>4 DEF Execute, TypeOK
<1>12. ASSUME NEW i \in DOMAIN mongo, ExecuteFails(i) PROVE TypeOK'
  <2>1. Without(mongo, i) \in Seq(Ops)
    BY <1>12, ExecutedOp DEF ExecuteFails, TypeOK
  <2> QED BY <1>12, <2>1 DEF ExecuteFails, TypeOK
<1>13. CASE UNCHANGED vars
  BY <1>13 DEF vars, TypeOK
<1> QED BY <1>1, <1>2, <1>3, <1>4, <1>5, <1>6, <1>7, <1>8, <1>9, <1>10,
           <1>11, <1>12, <1>13 DEF Next, Deliver

\* The variables of the request path keep their types: in particular the
\* collection and the driver hold statuses and `announced` only mode changes.
THEOREM TypeCorrect == Spec => []TypeOK
BY TypeInit, TypeStep, PTL DEF Spec

-----------------------------------------------------------------------------
(* The reply is what the device answered *)

\* Wherever an answer is - pushed, in the driver, in the collection, read by a
\* find - it is the answer of the device to the request with that id.
CopiesAreFaithful ==
  /\ \A r \in Requests :
       /\ phase[r] \in {"idle", "asked"} => answer[r] = None
       /\ pushed[r] > 0 \/ pushes[r] > 0 => answer[r] # None
       /\ stored[r] \in {None, answer[r]}
       /\ found[r]  \in {None, answer[r]}
  /\ \A i \in 1..Len(mongo) :
       mongo[i].op = "insert" => /\ mongo[i].status # None
                                 /\ mongo[i].status = answer[mongo[i].id]

IInv == TypeOK /\ CopiesAreFaithful /\ ReplyIsTheDevices

\* A reply given by `respond` with the device's answer tells the truth.
LEMMA RespondTruthful ==
  ASSUME TypeOK, ReplyIsTheDevices, NEW r \in Requests, UNCHANGED answer,
         Respond(r, answer[r])
  PROVE  ReplyIsTheDevices'
<1> SUFFICES ASSUME NEW q \in Requests
             PROVE  /\ reply'[q] \in {200, 204} => answer[q] \in {"ok", "bare"}
                    /\ reply'[q] = 410 => answer[q] = "gone"
  BY DEF ReplyIsTheDevices
<1>1. CASE reply'[q] = reply[q]
  BY <1>1 DEF ReplyIsTheDevices
<1>2. CASE reply'[q] # reply[q]
  <2>1. q = r /\ reply'[q] = IF answer[r] = "ok" THEN Accepted(r) ELSE 500
    BY <1>2 DEF Respond, Settle, TypeOK
  <2> QED BY <2>1 DEF Accepted
<1> QED BY <1>1, <1>2

LEMMA IInvInit == Init => IInv
<1> SUFFICES ASSUME Init PROVE IInv
  OBVIOUS
<1>1. CopiesAreFaithful
  BY DEF Init, CopiesAreFaithful
<1>2. ReplyIsTheDevices
  <2> SUFFICES ASSUME NEW r \in Requests
               PROVE  reply[r] \notin {200, 204} /\ reply[r] # 410
    BY DEF ReplyIsTheDevices
  <2> QED BY SMT DEF Init, NoReply
<1> QED BY <1>1, <1>2, TypeInit DEF IInv

LEMMA IInvStep == IInv /\ [Next]_vars => IInv'
<1> SUFFICES ASSUME IInv, [Next]_vars PROVE CopiesAreFaithful' /\ ReplyIsTheDevices'
  BY TypeStep DEF IInv
<1> USE RequestsAssumption DEF IInv, devices, db, client
<1>1. ASSUME NEW r \in Requests, Ask(r) PROVE CopiesAreFaithful' /\ ReplyIsTheDevices'
  BY <1>1 DEF Ask, TypeOK, CopiesAreFaithful, ReplyIsTheDevices
<1>2. ASSUME NEW r \in Requests, AskFails(r) PROVE CopiesAreFaithful' /\ ReplyIsTheDevices'
  <2>1. CopiesAreFaithful'
    BY <1>2 DEF AskFails, TypeOK, CopiesAreFaithful
  <2>2. ReplyIsTheDevices'
    BY <1>2 DEF AskFails, Settle, TypeOK, ReplyIsTheDevices
  <2> QED BY <2>1, <2>2
<1>3. ASSUME NEW r \in Requests, PushAgain(r) PROVE CopiesAreFaithful' /\ ReplyIsTheDevices'
  BY <1>3 DEF PushAgain, TypeOK, CopiesAreFaithful, ReplyIsTheDevices
<1>4. ASSUME NEW r \in Requests, Expire(r) PROVE CopiesAreFaithful' /\ ReplyIsTheDevices'
  BY <1>4 DEF Expire, TypeOK, CopiesAreFaithful, ReplyIsTheDevices
<1>5. ASSUME NEW r \in Requests, Accept(r) PROVE CopiesAreFaithful' /\ ReplyIsTheDevices'
  BY <1>5 DEF Accept, TypeOK, CopiesAreFaithful, ReplyIsTheDevices
<1>6. ASSUME NEW r \in Requests, Add(r) PROVE CopiesAreFaithful' /\ ReplyIsTheDevices'
  <2>1. Find(r) \in Ops /\ Find(r).op # "insert"
    BY DEF Find, Ops
  <2>2. /\ Len(mongo') = Len(mongo) + 1 /\ Len(mongo) \in Nat
        /\ \A j \in 1..(Len(mongo) + 1) :
             mongo'[j] = IF j <= Len(mongo) THEN mongo[j] ELSE Find(r)
    BY <1>6, <2>1, AppendOp DEF Add, TypeOK
  <2> QED BY <1>6, <2>1, <2>2 DEF Add, TypeOK, CopiesAreFaithful, ReplyIsTheDevices
<1>7. ASSUME NEW r \in Requests, OnNotification(r)
      PROVE CopiesAreFaithful' /\ ReplyIsTheDevices'
  <2>1. answer[r] \in Statuses /\ UNCHANGED <<phase, answer, pushed, found, stored>>
    BY <1>7 DEF OnNotification, CopiesAreFaithful, TypeOK
  <2>2. \A q \in Requests : pushes'[q] > 0 => pushes[q] > 0
    BY <1>7 DEF OnNotification, TypeOK
  <2>3. CASE r \in pending
    <3>1. UNCHANGED mongo /\ Respond(r, answer[r])
      BY <1>7, <2>3 DEF OnNotification
    <3>2. CopiesAreFaithful'
      BY <2>1, <2>2, <3>1 DEF CopiesAreFaithful
    <3> QED BY <2>1, <3>1, <3>2, RespondTruthful
  <2>4. CASE r \notin pending
    <3>1. /\ Insert(r, answer[r]) \in Ops
          /\ Insert(r, answer[r]).id = r
          /\ Insert(r, answer[r]).status = answer[r]
      BY <2>1 DEF Insert, Ops
    <3>2. UNCHANGED reply /\ mongo' = Append(mongo, Insert(r, answer[r]))
      BY <1>7, <2>4 DEF OnNotification
    <3>3. /\ Len(mongo') = Len(mongo) + 1 /\ Len(mongo) \in Nat
          /\ \A j \in 1..(Len(mongo) + 1) :
               mongo'[j] = IF j <= Len(mongo) THEN mongo[j] ELSE Insert(r, answer[r])
      BY <3>1, <3>2, AppendOp DEF TypeOK
    <3>4. CopiesAreFaithful'
      BY <2>1, <2>2, <3>1, <3>3 DEF CopiesAreFaithful, Statuses, None
    <3> QED BY <2>1, <3>2, <3>4 DEF ReplyIsTheDevices
  <2> QED BY <2>3, <2>4
<1>8. ASSUME NEW r \in Requests, FindReturns(r)
      PROVE CopiesAreFaithful' /\ ReplyIsTheDevices'
  <2>1. found[r] = answer[r] /\ UNCHANGED answer /\ Respond(r, found[r])
    BY <1>8 DEF FindReturns, CopiesAreFaithful
  <2>2. CopiesAreFaithful'
    BY <1>8 DEF FindReturns, TypeOK, CopiesAreFaithful
  <2> QED BY <2>1, <2>2, RespondTruthful
<1>9. ASSUME NEW r \in Requests, NEW s \in Statuses, AnswerNow(r, s)
      PROVE CopiesAreFaithful' /\ ReplyIsTheDevices'
  <2>1. answer[r] = None
    BY <1>9 DEF AnswerNow, CopiesAreFaithful
  <2>2. CopiesAreFaithful'
    BY <1>9, <2>1 DEF AnswerNow, TypeOK, CopiesAreFaithful
  <2>3. ReplyIsTheDevices'
    BY <1>9, <2>1 DEF AnswerNow, Settle, Accepted, TypeOK, ReplyIsTheDevices,
                      Statuses, None
  <2> QED BY <2>2, <2>3
<1>10. ASSUME NEW r \in Requests, NEW s \in Statuses, DeviceAnswers(r, s)
       PROVE CopiesAreFaithful' /\ ReplyIsTheDevices'
  BY <1>10 DEF DeviceAnswers, TypeOK, CopiesAreFaithful, ReplyIsTheDevices,
               Statuses, None
<1>11. ASSUME NEW i \in DOMAIN mongo, Execute(i)
       PROVE CopiesAreFaithful' /\ ReplyIsTheDevices'
  <2>1. /\ i \in 1..Len(mongo) /\ Len(mongo) \in Nat
        /\ mongo[i] \in Ops
        /\ Len(mongo') = Len(mongo) - 1
        /\ \A j \in 1..(Len(mongo) - 1) :
             mongo'[j] = IF j < i THEN mongo[j] ELSE mongo[j + 1]
    BY <1>11, ExecutedOp DEF Execute, TypeOK
  <2>2. mongo[i].id \in Requests
    BY <2>1 DEF Ops
  <2>3. UNCHANGED <<phase, answer, pushes, pushed, reply>>
    BY <1>11 DEF Execute
  <2>4. \A r \in Requests : stored'[r] \in {None, answer[r]}
                           /\ found'[r] \in {None, answer[r]}
    <3>1. CASE mongo[i].op = "find"
      <4>1. /\ found' = [found EXCEPT ![mongo[i].id] = stored[mongo[i].id]]
            /\ UNCHANGED stored
        BY <1>11, <3>1 DEF Execute
      <4> QED BY <2>2, <4>1 DEF TypeOK, CopiesAreFaithful
    <3>2. CASE mongo[i].op = "insert"
      <4>1. /\ stored' = [stored EXCEPT ![mongo[i].id] =
                            IF @ = None THEN mongo[i].status ELSE @]
            /\ UNCHANGED found
        BY <1>11, <3>2 DEF Execute
      <4>2. mongo[i].status = answer[mongo[i].id]
        BY <2>1, <3>2 DEF CopiesAreFaithful
      <4> QED BY <2>2, <4>1, <4>2 DEF TypeOK, CopiesAreFaithful
    <3> QED BY <2>1, <3>1, <3>2 DEF Ops
  <2>5. \A j \in 1..Len(mongo') : \E k \in 1..Len(mongo) : mongo'[j] = mongo[k]
    BY <2>1
  <2> QED BY <2>3, <2>4, <2>5 DEF CopiesAreFaithful, ReplyIsTheDevices
<1>12. ASSUME NEW i \in DOMAIN mongo, ExecuteFails(i)
       PROVE CopiesAreFaithful' /\ ReplyIsTheDevices'
  <2>1. \A j \in 1..Len(mongo') : \E k \in 1..Len(mongo) : mongo'[j] = mongo[k]
    <3>1. /\ i \in 1..Len(mongo) /\ Len(mongo) \in Nat
          /\ Len(mongo') = Len(mongo) - 1
          /\ \A j \in 1..(Len(mongo) - 1) :
               mongo'[j] = IF j < i THEN mongo[j] ELSE mongo[j + 1]
      BY <1>12, ExecutedOp DEF ExecuteFails, TypeOK
    <3> QED BY <3>1
  <2>2. UNCHANGED <<phase, answer, pushes, pushed, found, stored, reply>>
    BY <1>12 DEF ExecuteFails
  <2> QED BY <2>1, <2>2 DEF CopiesAreFaithful, ReplyIsTheDevices
<1>13. CASE UNCHANGED vars
  BY <1>13 DEF vars, CopiesAreFaithful, ReplyIsTheDevices
<1> QED BY <1>1, <1>2, <1>3, <1>4, <1>5, <1>6, <1>7, <1>8, <1>9, <1>10,
           <1>11, <1>12, <1>13 DEF Next, Deliver

\* A client of the resource API is told that its request was accepted, or that
\* the device is gone, only if that is what the device answered.
THEOREM RepliesAreTheDevices == Spec => []ReplyIsTheDevices
<1>1. IInv => ReplyIsTheDevices
  BY DEF IInv
<1> QED BY <1>1, IInvInit, IInvStep, PTL DEF Spec

-----------------------------------------------------------------------------
(* Every step is a step of RequestReply, or changes nothing it speaks of *)

LEMMA RespondImplements ==
  ASSUME TypeOK, NEW r \in Requests, UNCHANGED answer, answer[r] \in Statuses,
         Respond(r, answer[r])
  PROVE  Promise!Reply(r) \/ UNCHANGED <<answer, reply, announced>>
<1> DEFINE code == IF answer[r] = "ok" THEN Accepted(r) ELSE 500
<1>1. CASE answer[r] = "bare"
  BY <1>1 DEF Respond
<1>2. CASE answer[r] # "bare" /\ reply[r] # NoReply
  BY <1>2 DEF Respond, Settle
<1>3. CASE answer[r] # "bare" /\ reply[r] = NoReply
  <2>1. code \in Promise!Truthful(r, answer[r])
    BY <1>3 DEF Promise!Truthful, Accepted, Statuses
  <2>2. Settle(r, code)
    BY <1>3 DEF Respond
  <2> HIDE DEF code
  <2>3. Promise!Settle(r, code)
    BY <1>3, <2>2 DEF Settle, Promise!Settle, NoReply, Promise!NoReply
  <2>4. answer[r] # Promise!None
    BY DEF Promise!None, Statuses
  <2> QED BY <2>1, <2>3, <2>4 DEF Promise!Reply
<1> QED BY <1>1, <1>2, <1>3

LEMMA ImplementsStep == IInv /\ [Next]_vars => [Promise!Next]_(Promise!vars)
<1> SUFFICES ASSUME IInv, [Next]_vars,
                    ~ UNCHANGED <<answer, reply, announced>>
             PROVE  Promise!Next
  BY DEF Promise!vars
<1> USE DEF IInv, devices, db, client
<1>1. ASSUME NEW r \in Requests, AskFails(r) PROVE Promise!Next
  <2>1. answer[r] = None
    BY <1>1 DEF AskFails, CopiesAreFaithful
  <2>2. Promise!Fail(r)
    BY <1>1, <2>1 DEF AskFails, Settle, Promise!Fail, Promise!Settle,
                      NoReply, Promise!NoReply, None, Promise!None
  <2> QED BY <2>2 DEF Promise!Next
<1>2. ASSUME NEW r \in Requests, OnNotification(r) PROVE Promise!Next
  <2>1. answer[r] \in Statuses /\ UNCHANGED answer
    BY <1>2 DEF OnNotification, CopiesAreFaithful, TypeOK
  <2>2. Respond(r, answer[r])
    BY <1>2 DEF OnNotification
  <2> QED BY <2>1, <2>2, RespondImplements DEF Promise!Next
<1>3. ASSUME NEW r \in Requests, FindReturns(r) PROVE Promise!Next
  <2>1. found[r] = answer[r] /\ answer[r] \in Statuses /\ UNCHANGED answer
    BY <1>3 DEF FindReturns, CopiesAreFaithful, TypeOK
  <2>2. Respond(r, answer[r])
    BY <1>3, <2>1 DEF FindReturns
  <2> QED BY <2>1, <2>2, RespondImplements DEF Promise!Next
<1>4. ASSUME NEW r \in Requests, NEW s \in Statuses, AnswerNow(r, s) PROVE Promise!Next
  <2> DEFINE code == CASE s \in {"ok", "bare"} -> Accepted(r)
                       [] s = "gone"           -> 410
                       [] s = "refused"        -> 500
  <2>1. answer[r] = None /\ answer' = [answer EXCEPT ![r] = s] /\ Settle(r, code)
    BY <1>4 DEF AnswerNow, CopiesAreFaithful
  <2>2. code \in Promise!Truthful(r, s)
    BY DEF Promise!Truthful, Accepted, Statuses
  <2>3. CASE reply[r] = NoReply
    <3>1. Promise!Settle(r, code)
      BY <2>1, <2>3 DEF Settle, Promise!Settle, NoReply, Promise!NoReply
    <3>2. Promise!AnswerAndReply(r, s)
      BY <2>1, <2>2, <3>1 DEF Promise!AnswerAndReply, None, Promise!None
    <3> QED BY <3>2 DEF Promise!Next, Statuses, Promise!Statuses
  <2>4. CASE reply[r] # NoReply
    <3>1. Promise!Answer(r, s)
      BY <2>1, <2>4 DEF Settle, Promise!Answer, None, Promise!None
    <3> QED BY <3>1 DEF Promise!Next, Statuses, Promise!Statuses
  <2> QED BY <2>3, <2>4
<1>5. ASSUME NEW r \in Requests, NEW s \in Statuses, DeviceAnswers(r, s)
      PROVE Promise!Next
  <2>1. Promise!Answer(r, s)
    BY <1>5 DEF DeviceAnswers, Promise!Answer, None, Promise!None
  <2> QED BY <2>1 DEF Promise!Next, Statuses, Promise!Statuses
<1>6. ASSUME NEW i \in DOMAIN mongo, Execute(i) \/ ExecuteFails(i) PROVE FALSE
  BY <1>6 DEF Execute, ExecuteFails
<1>7. ASSUME NEW r \in Requests,
             Ask(r) \/ PushAgain(r) \/ Expire(r) \/ Accept(r) \/ Add(r)
      PROVE FALSE
  BY <1>7 DEF Ask, PushAgain, Expire, Accept, Add
<1>8. ~ UNCHANGED vars
  BY DEF vars
<1> QED BY <1>1, <1>2, <1>3, <1>4, <1>5, <1>6, <1>7, <1>8 DEF Next, Deliver

\* Whatever way the answers travel and the database operations overlap, fail
\* or expire, every request is replied to at most once and truthfully.
THEOREM ImplementsRequestReply == Spec => KeepsPromise
<1>1. Init => Promise!Init
  BY DEF Init, Promise!Init, None, Promise!None, NoReply, Promise!NoReply
<1> QED BY <1>1, IInvInit, IInvStep, ImplementsStep,
           PTL DEF Spec, KeepsPromise, Promise!Spec

-----------------------------------------------------------------------------
(* With a database that does what it is told, nothing is stranded *)

Inserted(r, i) == /\ i \in 1..Len(mongo)
                  /\ mongo[i].op = "insert"
                  /\ mongo[i].id = r

\* The find of `add` that will see the saved answer: it is behind the insert.
WillBeFound(r) == \E i \in 1..Len(mongo) :
                    /\ mongo[i].op = "find"
                    /\ mongo[i].id = r
                    /\ \/ stored[r] # None
                       \/ \E k \in 1..(i - 1) : Inserted(r, k)

\* Where the answer of a waiting request can be.
OnItsWay(r) ==
  /\ phase[r] = "accepted" => \/ pushes[r] > 0
                             \/ stored[r] # None
                             \/ \E i \in 1..Len(mongo) : Inserted(r, i)
  /\ phase[r] = "added"    => \/ r \in pending /\ pushes[r] > 0
                             \/ found[r] # None
                             \/ WillBeFound(r)

NothingLost ==
  \A r \in Requests :
    /\ found[r] # None => stored[r] # None
    /\ reply[r] = NoReply =>
         /\ phase[r] = "added" => r \in pending
         /\ answer[r] # None => phase[r] \in {"accepted", "added"} /\ OnItsWay(r)

\* A request `Respond` was called for is not waiting any more, if its answer could
\* be decoded.
LEMMA RespondReplies ==
  ASSUME TypeOK, NEW r \in Requests, NEW s, Respond(r, s), ~ disturbed'
  PROVE  /\ s # "bare"
         /\ reply'[r] # NoReply
         /\ \A q \in Requests : reply'[q] = NoReply => reply[q] = NoReply
<1> DEFINE code == IF s = "ok" THEN Accepted(r) ELSE 500
<1>1. code \in Codes /\ code # NoReply
  BY DEF Accepted, Codes, NoReply
<1>2. s # "bare" /\ Settle(r, code)
  BY DEF Respond
<1> HIDE DEF code
<1> QED BY <1>1, <1>2 DEF Settle, TypeOK

\* A disturbance is not forgotten.
LEMMA DisturbedStays ==
  ASSUME [Next]_vars, disturbed
  PROVE  disturbed'
BY DEF Next, vars, Deliver, Ask, AskFails, PushAgain, Expire, Accept, Add,
       OnNotification, FindReturns, Respond, AnswerNow, DeviceAnswers, Execute,
       ExecuteFails

LEMMA NothingLostStep ==
  ASSUME IInv, NothingLost, [Next]_vars, ~ disturbed'
  PROVE  NothingLost'
<1> USE DEF devices, db, client
<1> TypeOK /\ CopiesAreFaithful
  BY DEF IInv
<1>1. ASSUME NEW r \in Requests, Ask(r) PROVE NothingLost'
  <2>1. answer[r] = None /\ phase'[r] = "asked"
    BY <1>1 DEF Ask, TypeOK, CopiesAreFaithful
  <2>2. /\ UNCHANGED <<answer, pushes, pending, mongo, found, stored, reply>>
        /\ \A q \in Requests : q # r => phase'[q] = phase[q]
    BY <1>1 DEF Ask, TypeOK
  <2> QED BY <2>1, <2>2 DEF NothingLost, OnItsWay, WillBeFound, Inserted
<1>2. ASSUME NEW r \in Requests, AskFails(r) PROVE NothingLost'
  <2>1. reply'[r] # NoReply
    BY <1>2 DEF AskFails, Settle, TypeOK, NoReply
  <2>2. \A q \in Requests : q # r => reply'[q] = reply[q] /\ phase'[q] = phase[q]
    BY <1>2 DEF AskFails, Settle, TypeOK
  <2> QED BY <1>2, <2>1, <2>2 DEF AskFails, NothingLost, OnItsWay, WillBeFound, Inserted
<1>3. ASSUME NEW r \in Requests, PushAgain(r) PROVE NothingLost'
  <2>1. \A q \in Requests : pushes[q] > 0 => pushes'[q] > 0
    BY <1>3 DEF PushAgain, TypeOK
  <2> QED BY <1>3, <2>1 DEF PushAgain, NothingLost, OnItsWay, WillBeFound, Inserted
<1>4. ASSUME NEW r \in Requests, Expire(r) PROVE NothingLost'
  BY <1>4 DEF Expire
<1>5. ASSUME NEW r \in Requests, Accept(r) PROVE NothingLost'
  <2>1. answer[r] = None /\ phase'[r] = "accepted"
    BY <1>5 DEF Accept, TypeOK, CopiesAreFaithful
  <2>2. /\ UNCHANGED <<answer, pushes, pending, mongo, found, stored, reply>>
        /\ \A q \in Requests : q # r => phase'[q] = phase[q]
    BY <1>5 DEF Accept, TypeOK
  <2> QED BY <2>1, <2>2 DEF NothingLost, OnItsWay, WillBeFound, Inserted
<1>6. ASSUME NEW r \in Requests, Add(r) PROVE NothingLost'
  <2>1. Find(r) \in Ops /\ Find(r).op = "find" /\ Find(r).id = r
    BY DEF Find, Ops
  <2>2. /\ mongo' = Append(mongo, Find(r))
        /\ UNCHANGED <<answer, pushes, found, stored, reply>>
        /\ phase[r] = "accepted" /\ phase'[r] = "added"
        /\ r \in pending' /\ \A q \in Requests : q # r => (q \in pending' <=> q \in pending)
        /\ \A q \in Requests : q # r => phase'[q] = phase[q]
    BY <1>6 DEF Add, TypeOK
  <2>3. /\ Len(mongo') = Len(mongo) + 1 /\ Len(mongo) \in Nat
        /\ \A j \in 1..(Len(mongo) + 1) :
             mongo'[j] = IF j <= Len(mongo) THEN mongo[j] ELSE Find(r)
    BY <2>1, <2>2, AppendOp, LenProperties DEF TypeOK
  <2>4. ASSUME reply[r] = NoReply, answer[r] # None PROVE OnItsWay(r)'
    <3>1. CASE pushes[r] > 0
      BY <2>2, <3>1 DEF OnItsWay
    <3>2. CASE stored[r] # None
      <4>1. WillBeFound(r)'
        BY <2>1, <2>2, <2>3, <3>2 DEF WillBeFound
      <4> QED BY <2>2, <4>1 DEF OnItsWay
    <3>3. CASE \E i \in 1..Len(mongo) : Inserted(r, i)
      <4>1. PICK i \in 1..Len(mongo) : Inserted(r, i)
        BY <3>3
      <4>2. Inserted(r, i)' /\ i \in 1..((Len(mongo) + 1) - 1)
        BY <2>3, <4>1 DEF Inserted
      <4>3. WillBeFound(r)'
        BY <2>1, <2>3, <4>2 DEF WillBeFound
      <4> QED BY <2>2, <4>3 DEF OnItsWay
    <3> QED BY <2>2, <2>4, <3>1, <3>2, <3>3 DEF NothingLost, OnItsWay
  <2>5. ASSUME NEW q \in Requests, q # r, OnItsWay(q) PROVE OnItsWay(q)'
    <3>1. \A j \in 1..Len(mongo) : Inserted(q, j) => Inserted(q, j)'
      BY <2>3 DEF Inserted
    <3>2. WillBeFound(q) => WillBeFound(q)'
      BY <2>2, <2>3, <3>1 DEF WillBeFound
    <3> QED BY <2>2, <2>3, <2>5, <3>1, <3>2 DEF OnItsWay
  <2> QED BY <2>2, <2>4, <2>5 DEF NothingLost
<1>7. ASSUME NEW r \in Requests, OnNotification(r) PROVE NothingLost'
  <2>1. /\ answer[r] # None
        /\ UNCHANGED <<phase, answer, found, stored>>
    BY <1>7 DEF OnNotification, CopiesAreFaithful
  <2>2. \A q \in Requests : q # r => pushes'[q] = pushes[q]
    BY <1>7 DEF OnNotification, Respond, TypeOK
  <2>3. CASE r \in pending
    <3>1. /\ UNCHANGED mongo /\ pending' = pending \ {r}
          /\ reply'[r] # NoReply
          /\ \A q \in Requests : reply'[q] = NoReply => reply[q] = NoReply
      BY <1>7, <2>3, RespondReplies DEF OnNotification
    <3> QED BY <2>2, <2>1, <3>1 DEF NothingLost, OnItsWay, WillBeFound, Inserted
  <2>4. CASE r \notin pending
    <3>1. /\ mongo' = Append(mongo, Insert(r, answer[r]))
          /\ UNCHANGED <<pending, reply>>
      BY <1>7, <2>4 DEF OnNotification
    <3>2. /\ Insert(r, answer[r]) \in Ops
          /\ Insert(r, answer[r]).op = "insert" /\ Insert(r, answer[r]).id = r
      BY DEF Insert, Ops, TypeOK
    <3>3. /\ Len(mongo') = Len(mongo) + 1 /\ Len(mongo) \in Nat
          /\ \A j \in 1..(Len(mongo) + 1) :
               mongo'[j] = IF j <= Len(mongo) THEN mongo[j] ELSE Insert(r, answer[r])
      BY <3>1, <3>2, AppendOp, LenProperties DEF TypeOK
    <3>4. phase[r] = "accepted" \/ reply[r] # NoReply
      BY <2>1, <2>4 DEF NothingLost
    <3>5. phase[r] = "accepted" => OnItsWay(r)'
      <4>1. /\ Len(mongo') \in 1..Len(mongo')
            /\ mongo'[Len(mongo')] = Insert(r, answer[r])
        BY <3>3
      <4>2. \E j \in 1..Len(mongo') : Inserted(r, j)'
        BY <3>2, <4>1 DEF Inserted
      <4>3. phase'[r] = "accepted" => OnItsWay(r)'
        BY <4>2 DEF OnItsWay
      <4> QED BY <2>1, <4>3
    <3>6. ASSUME NEW q \in Requests, q # r, OnItsWay(q) PROVE OnItsWay(q)'
      <4>1. \A j \in 1..Len(mongo) : Inserted(q, j) => Inserted(q, j)'
        BY <3>3 DEF Inserted
      <4>2. WillBeFound(q) => WillBeFound(q)'
        BY <2>1, <3>3, <4>1 DEF WillBeFound
      <4> QED BY <2>2, <2>1, <3>1, <3>3, <3>6, <4>1, <4>2 DEF OnItsWay
    <3> QED BY <2>2, <2>1, <3>1, <3>4, <3>5, <3>6 DEF NothingLost
  <2> QED BY <2>3, <2>4
<1>8. ASSUME NEW r \in Requests, FindReturns(r) PROVE NothingLost'
  <2>1. /\ reply'[r] # NoReply
        /\ \A q \in Requests : reply'[q] = NoReply => reply[q] = NoReply
    BY <1>8, RespondReplies DEF FindReturns
  <2>2. /\ UNCHANGED <<phase, answer, pushes, mongo, stored>>
        /\ pending' = pending \ {r}
        /\ found'[r] = None
        /\ \A q \in Requests : q # r => found'[q] = found[q]
    BY <1>8 DEF FindReturns, TypeOK
  <2> QED BY <2>1, <2>2 DEF NothingLost, OnItsWay, WillBeFound, Inserted
<1>9. ASSUME NEW r \in Requests, NEW s \in Statuses, AnswerNow(r, s) PROVE NothingLost'
  <2>1. reply'[r] # NoReply
    BY <1>9 DEF AnswerNow, Settle, Accepted, TypeOK, Statuses, NoReply
  <2>2. \A q \in Requests : q # r => /\ reply'[q] = reply[q]
                                    /\ phase'[q] = phase[q]
                                    /\ answer'[q] = answer[q]
    BY <1>9 DEF AnswerNow, Settle, TypeOK
  <2> QED BY <1>9, <2>1, <2>2 DEF AnswerNow, NothingLost, OnItsWay, WillBeFound, Inserted
<1>10. ASSUME NEW r \in Requests, NEW s \in Statuses, DeviceAnswers(r, s)
       PROVE NothingLost'
  <2>1. /\ UNCHANGED <<phase, pending, mongo, found, stored, reply>>
        /\ phase[r] \in {"accepted", "added"} /\ pushes'[r] = 1
        /\ \A q \in Requests : q # r => answer'[q] = answer[q] /\ pushes'[q] = pushes[q]
    BY <1>10 DEF DeviceAnswers, TypeOK
  <2> QED BY <2>1 DEF NothingLost, OnItsWay, WillBeFound, Inserted
<1>11. ASSUME NEW i \in DOMAIN mongo, Execute(i) PROVE NothingLost'
  <2>1. /\ Len(mongo) \in Nat /\ i \in 1..Len(mongo)
        /\ mongo[i] \in Ops
        /\ Len(mongo') = Len(mongo) - 1
        /\ \A j \in 1..(Len(mongo) - 1) :
             mongo'[j] = IF j < i THEN mongo[j] ELSE mongo[j + 1]
    BY <1>11, ExecutedOp DEF Execute, TypeOK
  <2>2. UNCHANGED <<phase, answer, pushes, pending, reply>>
    BY <1>11 DEF Execute
  <2>3. ASSUME NEW q \in Requests, OnItsWay(q) PROVE OnItsWay(q)'
    <3> DEFINE at(j) == IF j < i THEN j ELSE j - 1
    <3>0. \A j \in 1..Len(mongo) : j # i => /\ at(j) \in 1..Len(mongo')
                                            /\ mongo'[at(j)] = mongo[j]
      BY <2>1
    <3>1. \A j \in 1..Len(mongo) : Inserted(q, j) /\ j # i => Inserted(q, at(j))'
      BY <3>0 DEF Inserted
    <3>2. Inserted(q, i) => stored'[q] # None
      BY <1>11, <2>1 DEF Execute, Inserted, CopiesAreFaithful, TypeOK
    <3>3. stored[q] # None => stored'[q] # None
      BY <1>11, <2>1 DEF Execute, TypeOK, Ops
    <3>4. ASSUME phase[q] = "accepted" PROVE OnItsWay(q)'
      <4>1. CASE \E j \in 1..Len(mongo) : Inserted(q, j)
        <5>1. PICK j \in 1..Len(mongo) : Inserted(q, j)
          BY <4>1
        <5>2. CASE j = i
          BY <2>2, <3>2, <3>4, <5>1, <5>2 DEF OnItsWay
        <5>3. CASE j # i
          <6>1. at(j) \in 1..Len(mongo') /\ Inserted(q, at(j))'
            BY <3>0, <3>1, <5>1, <5>3
          <6> HIDE DEF at
          <6> QED BY <2>2, <3>4, <6>1 DEF OnItsWay
        <5> QED BY <5>2, <5>3
      <4> QED BY <2>2, <2>3, <3>3, <3>4, <4>1 DEF OnItsWay
    <3>5. ASSUME found[q] # None PROVE found'[q] # None \/ WillBeFound(q)'
      BY <1>11, <2>1, <3>3, <3>5 DEF Execute, NothingLost, TypeOK, Ops
    <3>6. ASSUME WillBeFound(q) PROVE found'[q] # None \/ WillBeFound(q)'
      <4>1. PICK j \in 1..Len(mongo) : /\ mongo[j].op = "find"
                                       /\ mongo[j].id = q
                                       /\ \/ stored[q] # None
                                          \/ \E k \in 1..(j - 1) : Inserted(q, k)
        BY <3>6 DEF WillBeFound
      <4>2. CASE j = i
        <5>1. \A k \in 1..(i - 1) : mongo[k].id # q
          BY <1>11, <4>1, <4>2 DEF Execute, Overtakes
        <5>2. stored[q] # None
          BY <4>1, <4>2, <5>1 DEF Inserted
        <5> QED BY <1>11, <2>1, <4>1, <4>2, <5>2 DEF Execute, TypeOK
      <4>3. CASE j # i
        <5>1. at(j) \in 1..Len(mongo') /\ mongo'[at(j)].op = "find" /\ mongo'[at(j)].id = q
          BY <3>0, <4>1, <4>3
        <5>2. stored'[q] # None \/ \E k \in 1..(at(j) - 1) : Inserted(q, k)'
          <6>1. CASE stored[q] # None
            BY <3>3, <6>1
          <6>2. CASE stored[q] = None
            <7>1. PICK k \in 1..(j - 1) : Inserted(q, k)
              BY <4>1, <6>2
            <7>2. CASE k = i
              BY <3>2, <7>1, <7>2
            <7>3. CASE k # i
              <8>1. at(k) \in 1..(at(j) - 1)
                BY <2>1, <4>1, <4>3, <7>1, <7>3
              <8>2. Inserted(q, at(k))'
                BY <3>1, <7>1, <7>3
              <8> HIDE DEF at
              <8> QED BY <8>1, <8>2
            <7> QED BY <7>2, <7>3
          <6> QED BY <6>1, <6>2
        <5> HIDE DEF at
        <5> QED BY <5>1, <5>2 DEF WillBeFound
      <4> QED BY <4>2, <4>3
    <3> QED BY <2>2, <2>3, <3>4, <3>5, <3>6 DEF OnItsWay
  <2>4. \A q \in Requests : found'[q] # None => stored'[q] # None
    BY <1>11, <2>1 DEF Execute, NothingLost, TypeOK, Ops
  <2> QED BY <2>2, <2>3, <2>4 DEF NothingLost
<1>12. ASSUME NEW i \in DOMAIN mongo, ExecuteFails(i) PROVE NothingLost'
  BY <1>12 DEF ExecuteFails
<1>13. CASE UNCHANGED vars
  BY <1>13 DEF vars, NothingLost, OnItsWay, WillBeFound, Inserted
<1> QED BY <1>1, <1>2, <1>3, <1>4, <1>5, <1>6, <1>7, <1>8, <1>9, <1>10,
           <1>11, <1>12, <1>13 DEF Next, Deliver

\* While the database executes the operations about a request in the order
\* they were issued and keeps what it is given, a client whose device answered
\* is never left waiting for nothing, however the callbacks interleave.
THEOREM NeverStranded == Spec => []NoneStranded
<1>1. Init => NothingLost
  BY DEF Init, NothingLost
<1>2. IInv /\ (disturbed \/ NothingLost) => NoneStranded
  <2> SUFFICES ASSUME IInv, NothingLost, NEW r \in Requests, Stranded(r) PROVE FALSE
    BY DEF NoneStranded
  <2>1. Len(mongo) \in Nat /\ DOMAIN mongo = 1..Len(mongo)
    BY LenProperties DEF IInv, TypeOK
  <2>2. OnItsWay(r)
    BY DEF Stranded, NothingLost
  <2> QED BY <2>1, <2>2 DEF Stranded, OnItsWay, WillBeFound
<1>3. IInv /\ (disturbed \/ NothingLost) /\ [Next]_vars => (disturbed \/ NothingLost)'
  BY DisturbedStays, NothingLostStep
<1> QED BY <1>1, <1>2, <1>3, IInvInit, IInvStep, PTL DEF Spec
=============================================================================
