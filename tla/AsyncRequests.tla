---------------------------- MODULE AsyncRequests ----------------------------
(***************************************************************************)
(* The path of a request for a device's resource through the backend:      *)
(*                                                                         *)
(*   rest-api/resources.coffee     GET and PUT of a resource               *)
(*   device-server/client.coffee   `resource`: asks the device server      *)
(*   device-server/requests.coffee `add`, `onNotification`, `respond`      *)
(*   models/async-responses.coffee `save`, `find`, expiry of the documents *)
(*                                                                         *)
(* The device server replies with the answer, or with an async-response-id *)
(* whose answer it pushes later as a notification.  The notification and   *)
(* the id travel on different connections, so either may come first: an    *)
(* early notification is saved in the database, where `add` looks for it.  *)
(*                                                                         *)
(* Node runs one callback at a time, so a step of this module is a whole   *)
(* callback; between callbacks anything may happen.  Operations handed to  *)
(* the MongoDB driver are in `mongo` until the database executes them.     *)
(* The driver spreads them over a pool of connections, so it executes them *)
(* in any order unless InOrder.  The device server gives every request an  *)
(* id of its own, so the request stands for its id.                        *)
(***************************************************************************)
EXTENDS Naturals, Sequences

CONSTANTS Requests,    \* the HTTP requests made of the resource API
          Puts,        \* those of them that set the resource "mode"
          InOrder,     \* the database executes operations in the order issued
          Failures,    \* database operations may fail
          Expiry,      \* saved answers may expire before they are looked for
          Bare,        \* answers pushed may lack a payload
          MaxCopies    \* bound: how often the device server pushes an answer

ASSUME RequestsAssumption == /\ Puts \subseteq Requests
                             /\ InOrder  \in BOOLEAN
                             /\ Failures \in BOOLEAN
                             /\ Expiry   \in BOOLEAN
                             /\ Bare     \in BOOLEAN
                             /\ MaxCopies \in Nat \ {0}

None     == "none"
\* 2xx/3xx with a payload or without, 410, any other status.
Statuses == {"ok", "bare", "gone", "refused"}
Codes    == {200, 204, 410, 500}
NoReply  == 0

VARIABLES
  phase,      \* of a request: "idle", "asked" (the device server was asked),
              \* "accepted" (it sent an id), "added" (`add` was called), "closed"
  answer,     \* the status the device answered with
  pushes,     \* notifications of the answer on their way to PUT /events
  pushed,     \* how many were ever sent
  pending,    \* requests.coffee: the ids with a callback in `pending`
  mongo,      \* operations given to the driver and not yet executed
  found,      \* what the find of `add` read, until its callback runs
  stored,     \* the collection asyncresponses: the saved status by id
  called,     \* how often the callback of a request was called
  reply,      \* the code the HTTP client got
  announced,  \* requests "resources::modeChanged" was emitted for
  disturbed   \* the database executed an operation before an older one about
              \* the same request, failed one, or let an answer expire; or an
              \* answer could not be decoded (history)

devices == <<answer, pushes, pushed>>
db      == <<mongo, found, stored>>
client  == <<called, reply, announced>>
vars    == <<phase, answer, pushes, pushed, pending, mongo, found, stored,
             called, reply, announced, disturbed>>

Phases == {"idle", "asked", "accepted", "added", "closed"}
Ops    == [op : {"find", "insert"}, id : Requests, status : Statuses \cup {None}]

Find(r)      == [op |-> "find",   id |-> r, status |-> None]
Insert(r, s) == [op |-> "insert", id |-> r, status |-> s]

Init == /\ phase     = [r \in Requests |-> "idle"]
        /\ answer    = [r \in Requests |-> None]
        /\ pushes    = [r \in Requests |-> 0]
        /\ pushed    = [r \in Requests |-> 0]
        /\ pending   = {}
        /\ mongo     = <<>>
        /\ found     = [r \in Requests |-> None]
        /\ stored    = [r \in Requests |-> None]
        /\ called    = [r \in Requests |-> 0]
        /\ reply     = [r \in Requests |-> NoReply]
        /\ announced = {}
        /\ disturbed = FALSE

-----------------------------------------------------------------------------
(* The promise behind a request, and the route handler that waits for it. *)

\* Mutant: the change is announced without waiting for the device's answer.
SettleAnnouncesAlways(r, code) ==
  IF reply[r] # NoReply THEN UNCHANGED <<reply, announced>>
  ELSE /\ reply' = [reply EXCEPT ![r] = code]
       /\ announced' = IF r \in Puts THEN announced \cup {r} ELSE announced

\* The handlers' last steps: a settled promise ignores whatever comes later.
Settle(r, code) ==
  IF reply[r] # NoReply THEN UNCHANGED <<reply, announced>>
  ELSE /\ reply' = [reply EXCEPT ![r] = code]
       /\ announced' = IF r \in Puts /\ code = 204
                       THEN announced \cup {r} ELSE announced

Accepted(r) == IF r \in Puts THEN 204 ELSE 200

\* `respond`.  Its error carries `status`, where the route handlers look for
\* `statusCode`: a 410 that comes by notification is reported as a 500.  To
\* decode a payload that is not there throws: the callback, which `pending` has
\* lost by now, is never called.
Respond(r, s) ==
  IF s = "bare"
    THEN UNCHANGED <<called, reply, announced>> /\ disturbed' = TRUE
    ELSE /\ called' = [called EXCEPT ![r] = @ + 1]
         /\ Settle(r, IF s = "ok" THEN Accepted(r) ELSE 500)
         /\ UNCHANGED disturbed

-----------------------------------------------------------------------------
(* The device server: external, modelled from what the client relies on. *)

\* It takes the request and returns an async-response-id.
Accept(r) == /\ phase[r] = "asked"
             /\ phase' = [phase EXCEPT ![r] = "accepted"]
             /\ UNCHANGED <<devices, pending, db, client, disturbed>>

\* The device answers, and the device server pushes what it answered.
DeviceAnswers(r, s) == /\ phase[r] \in {"accepted", "added"}
                       /\ answer[r] = None
                       /\ s = "bare" => Bare
                       /\ answer' = [answer EXCEPT ![r] = s]
                       /\ pushes' = [pushes EXCEPT ![r] = 1]
                       /\ pushed' = [pushed EXCEPT ![r] = 1]
                       /\ UNCHANGED <<phase, pending, db, client, disturbed>>

\* It saw no response to the push and repeats it.
PushAgain(r) == /\ pushed[r] \in 1..(MaxCopies - 1)
                /\ pushes' = [pushes EXCEPT ![r] = @ + 1]
                /\ pushed' = [pushed EXCEPT ![r] = @ + 1]
                /\ UNCHANGED <<phase, answer, pending, db, client, disturbed>>

-----------------------------------------------------------------------------
(* The backend. *)

\* The route handler calls client.resource, which sends the HTTP request.
Ask(r) == /\ phase[r] = "idle"
          /\ phase' = [phase EXCEPT ![r] = "asked"]
          /\ UNCHANGED <<devices, pending, db, client, disturbed>>

\* The response is the answer itself: a body, which is not decoded and may be
\* missing, or an HTTP error, whose error object does carry `statusCode`.
AnswerNow(r, s) == /\ phase[r] = "asked"
                   /\ phase'  = [phase EXCEPT ![r] = "closed"]
                   /\ answer' = [answer EXCEPT ![r] = s]
                   /\ Settle(r, CASE s \in {"ok", "bare"} -> Accepted(r)
                                  [] s = "gone"           -> 410
                                  [] s = "refused"        -> 500)
                   /\ UNCHANGED <<pushes, pushed, pending, db, called, disturbed>>

\* The device server cannot be reached.
AskFails(r) == /\ phase[r] = "asked"
               /\ phase' = [phase EXCEPT ![r] = "closed"]
               /\ Settle(r, 500)
               /\ UNCHANGED <<devices, pending, db, called, disturbed>>

\* Mutant: the callback is not registered before the database is asked.
AddFindsOnly(r) == /\ phase[r] = "accepted"
                   /\ phase' = [phase EXCEPT ![r] = "added"]
                   /\ mongo' = Append(mongo, Find(r))
                   /\ UNCHANGED <<devices, pending, found, stored, client, disturbed>>

\* `add`: the callback is remembered, and the database is asked whether the
\* notification was here first.
Add(r) == /\ phase[r] = "accepted"
          /\ phase'   = [phase EXCEPT ![r] = "added"]
          /\ pending' = pending \cup {r}
          /\ mongo'   = Append(mongo, Find(r))
          /\ UNCHANGED <<devices, found, stored, client, disturbed>>

\* Mutant: an answer nobody waits for yet is dropped instead of saved.
OnNotificationDrops(r) ==
  /\ pushes[r] > 0
  /\ pushes' = [pushes EXCEPT ![r] = @ - 1]
  /\ IF r \in pending
       THEN pending' = pending \ {r} /\ Respond(r, answer[r])
       ELSE UNCHANGED <<pending, client, disturbed>>
  /\ UNCHANGED <<phase, answer, pushed, mongo, found, stored>>

\* One turn of the loop of `onNotification`: the turns touch different ids,
\* so a notification with several responses is a sequence of these.  An answer
\* that cannot be decoded ends the loop, and those `behind` it are not looked at.
OnNotification(r) ==
  /\ pushes[r] > 0
  /\ \E behind \in SUBSET {q \in Requests \ {r} : pushes[q] > 0} :
       /\ behind # {} => r \in pending /\ answer[r] = "bare"
       /\ pushes' = [q \in Requests |->
                       IF q \in {r} \cup behind THEN pushes[q] - 1 ELSE pushes[q]]
  /\ IF r \in pending
       THEN /\ pending' = pending \ {r}
            /\ Respond(r, answer[r])
            /\ UNCHANGED mongo
       ELSE /\ mongo' = Append(mongo, Insert(r, answer[r]))
            /\ UNCHANGED <<pending, client, disturbed>>
  /\ UNCHANGED <<phase, answer, pushed, found, stored>>

\* The callback of the find of `add`.  If it throws, its promise is rejected, and
\* nobody listens.
FindReturns(r) ==
  /\ found[r] # None
  /\ found'   = [found EXCEPT ![r] = None]
  /\ pending' = pending \ {r}
  /\ Respond(r, found[r])
  /\ UNCHANGED <<phase, devices, mongo, stored>>

-----------------------------------------------------------------------------
(* MongoDB: external.  `_id` is unique, so a second insert changes nothing. *)

Executable(i) == i \in DOMAIN mongo /\ (InOrder => i = 1)
\* An older operation is about the same request.
Overtakes(i)  == \E j \in 1..(i - 1) : mongo[j].id = mongo[i].id
Without(s, i) == SubSeq(s, 1, i - 1) \o SubSeq(s, i + 1, Len(s))

Execute(i) ==
  /\ Executable(i)
  /\ mongo' = Without(mongo, i)
  /\ LET o == mongo[i] IN
       \/ /\ o.op = "find"
          /\ found' = [found EXCEPT ![o.id] = stored[o.id]]
          /\ UNCHANGED stored
       \/ /\ o.op = "insert"
          /\ stored' = [stored EXCEPT ![o.id] = IF @ = None THEN o.status ELSE @]
          /\ UNCHANGED found
  /\ disturbed' = (disturbed \/ Overtakes(i))
  /\ UNCHANGED <<phase, devices, pending, client>>

\* The operation fails: its promise is rejected, and nobody listens.
ExecuteFails(i) ==
  /\ Failures
  /\ Executable(i)
  /\ mongo' = Without(mongo, i)
  /\ disturbed' = TRUE
  /\ UNCHANGED <<phase, devices, pending, found, stored, client>>

\* The TTL index removes a document 30 seconds after it was saved.
Expire(r) == /\ Expiry
             /\ stored[r] # None
             /\ stored' = [stored EXCEPT ![r] = None]
             /\ disturbed' = TRUE
             /\ UNCHANGED <<phase, devices, pending, mongo, found, client>>

-----------------------------------------------------------------------------
Deliver(r) == Accept(r) \/ Add(r) \/ OnNotification(r) \/ FindReturns(r)

Next == \/ \E r \in Requests :
             \/ Ask(r)
             \/ AskFails(r)
             \/ PushAgain(r)
             \/ Expire(r)
             \/ Deliver(r)
             \/ \E s \in Statuses : AnswerNow(r, s) \/ DeviceAnswers(r, s)
        \/ \E i \in DOMAIN mongo : Execute(i) \/ ExecuteFails(i)

Spec == Init /\ [][Next]_vars

\* What was sent arrives, and the database executes what it was given.  No
\* device is obliged to answer, and no client to ask.
Fairness == /\ \A r \in Requests : WF_vars(Add(r)) /\ WF_vars(OnNotification(r))
                                   /\ WF_vars(FindReturns(r))
            /\ WF_vars(Execute(1))

FairSpec == Spec /\ Fairness

-----------------------------------------------------------------------------
(* Properties. *)

TypeOK == /\ phase     \in [Requests -> Phases]
          /\ answer    \in [Requests -> Statuses \cup {None}]
          /\ pushes    \in [Requests -> Nat]
          /\ pushed    \in [Requests -> 0..MaxCopies]
          /\ pending   \in SUBSET Requests
          /\ mongo     \in Seq(Ops)
          /\ found     \in [Requests -> Statuses \cup {None}]
          /\ stored    \in [Requests -> Statuses \cup {None}]
          /\ called    \in [Requests -> Nat]
          /\ reply     \in [Requests -> Codes \cup {NoReply}]
          /\ announced \in SUBSET Puts
          /\ disturbed \in BOOLEAN

\* What the client is told is what the device answered: a success is reported
\* only of a request the device accepted, whichever way its answer came - in
\* the response, by notification, or through the database - and 410 only when
\* the device is gone.  The route handlers of resources.coffee rely on it.
ReplyIsTheDevices ==
  \A r \in Requests : /\ reply[r] \in {200, 204} => answer[r] \in {"ok", "bare"}
                      /\ reply[r] = 410 => answer[r] = "gone"

\* A request whose answer has been delivered is left waiting with nothing on
\* its way to it: no notification, no database operation, no result of one.
Stranded(r) == /\ phase[r] = "added"
               /\ reply[r] = NoReply
               /\ answer[r] # None
               /\ pushes[r] = 0
               /\ found[r] = None
               /\ \A i \in DOMAIN mongo : mongo[i].id # r

\* That never happens while the database executes the find of `add` and the
\* insert of `onNotification` in the order they were issued, fails neither,
\* and keeps the answer, and `respond` can decode it: no interleaving of the
\* callbacks alone loses it.
NoneStranded == \A r \in Requests : Stranded(r) => disturbed

\* "when notification comes before adding ... resolves the promise from the
\* database" (test/unit/device-server/requests_spec.coffee, lines 69 to 81):
\* an early notification is always matched.
EarlyAnswerIsFound == \A r \in Requests : ~ Stranded(r)

\* Every request the device answered is replied to in the end, unless the
\* database was disturbed or an answer could not be decoded.
AnsweredIsReplied ==
  \A r \in Requests : phase[r] # "idle" /\ answer[r] # None
                       ~> reply[r] # NoReply \/ disturbed

\* The detailed path implements the promise: one reply, and a truthful one.
Promise == INSTANCE RequestReply
             WITH Requests <- Requests, Puts <- Puts,
                  answer <- answer, reply <- reply, announced <- announced
KeepsPromise == Promise!Spec
=============================================================================
