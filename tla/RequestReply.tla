---------------------------- MODULE RequestReply ----------------------------
(***************************************************************************)
(* What the resource API of the backend promises its HTTP clients: a       *)
(* request for a device's resource is replied to at most once, and the     *)
(* reply is what the device (or the device server, in the device's name)   *)
(* answered.  How answers travel - in the body of the device server's      *)
(* response, or later in a pushed notification, possibly through the       *)
(* database - is the business of AsyncRequests, which implements this.     *)
(***************************************************************************)
EXTENDS Naturals

CONSTANTS Requests,  \* the HTTP requests made of the resource API
          Puts       \* those of them that set the resource "mode"

None     == "none"
\* 2xx/3xx with a payload or without, 410, any other status.
Statuses == {"ok", "bare", "gone", "refused"}
Codes    == {200, 204, 410, 500}           \* what the API replies
NoReply  == 0

VARIABLES answer,     \* the status the device answered a request with
          reply,      \* the code the client got
          announced   \* the requests "resources::modeChanged" was emitted for

vars == <<answer, reply, announced>>

\* The codes that tell the truth about an answer of status s to request r.
Truthful(r, s) ==
  CASE s \in {"ok", "bare"} -> {IF r \in Puts THEN 204 ELSE 200}
    [] s = "gone"           -> {410, 500}
    [] s = "refused"        -> {500}

Init == /\ answer    = [r \in Requests |-> None]
        /\ reply     = [r \in Requests |-> NoReply]
        /\ announced = {}

Answer(r, s) == /\ answer[r] = None
                /\ answer' = [answer EXCEPT ![r] = s]
                /\ UNCHANGED <<reply, announced>>

Settle(r, code) == /\ reply[r] = NoReply
                   /\ reply' = [reply EXCEPT ![r] = code]
                   /\ announced' = IF r \in Puts /\ code = 204
                                   THEN announced \cup {r} ELSE announced

Reply(r) == /\ answer[r] # None
            /\ \E code \in Truthful(r, answer[r]) : Settle(r, code)
            /\ UNCHANGED answer

\* The device server answered in the very response the client waits for.
AnswerAndReply(r, s) == /\ answer[r] = None
                        /\ answer' = [answer EXCEPT ![r] = s]
                        /\ \E code \in Truthful(r, s) : Settle(r, code)

\* The device server could not be asked: an error without an answer.
Fail(r) == /\ answer[r] = None
           /\ Settle(r, 500)
           /\ UNCHANGED answer

Next == \E r \in Requests :
          \/ Reply(r)
          \/ Fail(r)
          \/ \E s \in Statuses : Answer(r, s) \/ AnswerAndReply(r, s)

Spec == Init /\ [][Next]_vars
=============================================================================
