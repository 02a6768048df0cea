----------------------------- MODULE ModeControl -----------------------------
(***************************************************************************)
(* mbed/src/mode_controller.cpp and mbed/src/resources/res_mode.cpp.  The  *)
(* main thread runs the current mode every 10 ms.  The thread of the       *)
(* device server connection executes the callback of the CoAP resource     *)
(* /mode: a PUT deletes the object of the current mode and creates         *)
(* another.  The threads share the pointer mode_ and nothing guards it.    *)
(*                                                                         *)
(* An object is known by a number that is never used again, so that the    *)
(* model sees it when an object is used that does not exist any more.      *)
(***************************************************************************)
EXTENDS Naturals, FiniteSets

CONSTANT MaxSets       \* bound: how many PUTs of a mode arrive

ASSUME ModeAssumption == MaxSets \in Nat

NULL    == 0
Objects == 1..(MaxSets + 1)

\* The first byte of a payload: a digit of a mode, or any other character.
Digits   == {"0", "1", "2"}
Payloads == Digits \cup {"other"}
Zero     == "zero"    \* the byte 0, which is not the digit "0"

VARIABLES
  mode,       \* mode_: the object of the current mode, or NULL
  live,       \* the objects that exist
  class,      \* the class of each object: "Manual", "Music" or "Weather"
  selected,   \* mode_selected, what a GET of /mode returns
  request,    \* the payload of the last PUT
  cpc,        \* the connection thread: "idle", or the next step of Set:
              \* "delete", "null", "new"
  created,    \* how many objects were created
  mpc,        \* the main thread: "wait", "tested", "running"
  tested,     \* what `if (mode_)` read
  this        \* the object whose Run is executing

connection == <<live, class, selected, request, cpc, created>>
main       == <<mpc, tested, this>>
vars       == <<mode, live, class, selected, request, cpc, created, mpc, tested, this>>

ClassOf(m) == CASE m = "1" -> "Music"
                [] m = "2" -> "Weather"
                [] OTHER   -> "Manual"     \* MODE_MANUAL, and the default

\* ModeController::Init ran before the thread of the connection was started.
Init == /\ mode = 1
        /\ live = {1}
        /\ class = [o \in Objects |-> "Manual"]
        /\ selected = "0"
        /\ request = "0"
        /\ cpc = "idle"
        /\ created = 1
        /\ mpc = "wait"
        /\ tested = NULL
        /\ this = NULL

-----------------------------------------------------------------------------
(* The connection thread. *)

\* Mutant: the mode reported is not the one set.
PutKeepsSelected(payload) ==
  /\ cpc = "idle"
  /\ created <= MaxSets
  /\ request' = IF payload \in Digits THEN payload ELSE Zero
  /\ cpc' = "delete"
  /\ UNCHANGED <<mode, live, class, selected, created, main>>

\* mode_resource_cb: PUT with a payload.  A character that is no mode becomes
\* the byte 0 - which is what a GET returns from then on - and Set subtracts
\* '0' from it and finds no such mode.
Put(payload) ==
  /\ cpc = "idle"
  /\ created <= MaxSets
  /\ request'  = IF payload \in Digits THEN payload ELSE Zero
  /\ selected' = request'
  /\ cpc' = "delete"
  /\ UNCHANGED <<mode, live, class, created, main>>

\* Mutant: the old object is not deleted.
DeleteForgotten == /\ cpc = "delete"
                   /\ cpc' = "null"
                   /\ UNCHANGED <<mode, live, class, selected, request, created, main>>

\* if (mode_) delete mode_;
Delete == /\ cpc = "delete"
          /\ live' = live \ {mode}
          /\ cpc' = "null"
          /\ UNCHANGED <<mode, class, selected, request, created, main>>

\* mode_ = NULL;
SetNull == /\ cpc = "null"
           /\ mode' = NULL
           /\ cpc' = "new"
           /\ UNCHANGED <<live, class, selected, request, created, main>>

\* switch (new_mode) ... mode_ = new ...
New == /\ cpc = "new"
       /\ created' = created + 1
       /\ live' = live \cup {created'}
       /\ class' = [class EXCEPT ![created'] = ClassOf(request)]
       /\ mode' = created'
       /\ cpc' = "idle"
       /\ UNCHANGED <<selected, request, main>>

Set == Delete \/ SetNull \/ New

-----------------------------------------------------------------------------
(* The main thread: while (true) { ModeController::Run(); wait(10); } *)

\* Mutant: the condition is turned around.
TestInverted == /\ mpc = "wait"
                /\ tested' = mode
                /\ mpc' = IF mode = NULL THEN "tested" ELSE "wait"
                /\ UNCHANGED <<mode, connection, this>>

\* if (mode_)
Test == /\ mpc = "wait"
        /\ tested' = mode
        /\ mpc' = IF mode = NULL THEN "wait" ELSE "tested"
        /\ UNCHANGED <<mode, connection, this>>

\* mode_->Run(): the compiler is free to read mode_ again or to keep what the
\* test read.
Enter == /\ mpc = "tested"
         /\ this' \in {tested, mode}
         /\ mpc' = "running"
         /\ UNCHANGED <<mode, connection, tested>>

Return == /\ mpc = "running"
          /\ mpc' = "wait"
          /\ this' = NULL
          /\ UNCHANGED <<mode, connection, tested>>

Run == Test \/ Enter \/ Return

Next == \/ \E payload \in Payloads : Put(payload)
        \/ Set
        \/ Run

Spec == Init /\ [][Next]_vars

-----------------------------------------------------------------------------
(* Properties. *)

TypeOK == /\ mode \in Objects \cup {NULL}
          /\ live \in SUBSET Objects
          /\ class \in [Objects -> {"Manual", "Music", "Weather"}]
          /\ selected \in Digits \cup {Zero}
          /\ request  \in Digits \cup {Zero}
          /\ cpc \in {"idle", "delete", "null", "new"}
          /\ created \in Objects
          /\ mpc \in {"wait", "tested", "running"}
          /\ tested \in Objects \cup {NULL}
          /\ this \in Objects \cup {NULL}

\* However often the mode is changed, there is exactly one mode object between
\* two calls of Set, and mode_ points to it: none leaks, none is lost.
OneMode == cpc = "idle" => live = {mode}

\* The mode a GET of /mode reports is the mode that is installed.
ReportedModeIsInstalled ==
  cpc = "idle" /\ selected \in Digits => class[mode] = ClassOf(selected)
=============================================================================
