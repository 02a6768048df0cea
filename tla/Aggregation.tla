----------------------------- MODULE Aggregation -----------------------------
(***************************************************************************)
(* backend/src/database/aggregation.coffee and the insertion of measure-   *)
(* ments it depends on (models/measurements.coffee).  Every 10 seconds a   *)
(* loop adds the measurements that are new to four collections of sums, 30 *)
(* seconds, 5 minutes, an hour and a day wide.  How far a collection has   *)
(* got is the ObjectId saved in the document `previousObjectIds`:          *)
(* measurements above it are reduced *into* the sums, so counting one of   *)
(* them again makes a sum wrong for good, and one that is left out stays   *)
(* left out.                                                               *)
(*                                                                         *)
(* A measurement is known by its ObjectId, here a number.  The driver      *)
(* makes the ObjectId when `create` is called, so ids grow in the order of *)
(* the calls; the insert becomes visible later, and in any order, since    *)
(* inserts go over a pool of connections.  The value of a measurement and  *)
(* the bucket it belongs to are left out: `counted` says how often it was  *)
(* added to the sums.                                                      *)
(***************************************************************************)
EXTENDS Naturals, FiniteSets

CONSTANTS Fields,            \* the collections: "30s", "5m", "hourly", "daily"
          MaxMeasurements,   \* bound: measurements that arrive
          Initially,         \* measurements there when the backend first starts
          MaxFaults          \* bound: failed operations and restarts

ASSUME AggregationAssumption == /\ MaxMeasurements \in Nat
                                /\ Initially \in 0..MaxMeasurements
                                /\ MaxFaults \in Nat

Ids  == 1..MaxMeasurements
None == 0     \* no ObjectId: undefined in the code

VARIABLES
  newest,     \* the last ObjectId given out
  inflight,   \* inserts on their way to the database
  visible,    \* the collection measurements
  pc,         \* of the chain of a field: "idle" (the timer runs), "latest",
              \* "previous", "reduce", "update", "done"
  latest,     \* @latest
  previous,   \* @previous
  watermark,  \* previousObjectIds
  counted,    \* how often a measurement was reduced into a collection
  interrupted, \* of each collection: reductions that were written, in part
              \* perhaps, while the ObjectId they got to was not saved (history)
  missed,     \* for each collection, the measurements that were still on their
              \* way when a newer one was found to be the newest (history)
  faults      \* failed operations and restarts so far

inserts == <<newest, inflight, visible>>
sums    == <<watermark, counted, interrupted, missed>>
vars    == <<newest, inflight, visible, pc, latest, previous, watermark,
             counted, interrupted, missed, faults>>

Init == /\ newest    = Initially
        /\ inflight  = {}
        /\ visible   = 1..Initially
        /\ pc        = [f \in Fields |-> "idle"]
        /\ latest    = [f \in Fields |-> None]
        /\ previous  = [f \in Fields |-> None]
        /\ watermark = [f \in Fields |-> None]
        /\ counted   = [f \in Fields |-> [i \in Ids |-> 0]]
        /\ interrupted = [f \in Fields |-> 0]
        /\ missed = [f \in Fields |-> {}]
        /\ faults = 0

-----------------------------------------------------------------------------
(* Measurements: `create` is called for each of a notification. *)

Create == /\ newest < MaxMeasurements
          /\ newest'   = newest + 1
          /\ inflight' = inflight \cup {newest'}
          /\ UNCHANGED <<visible, pc, latest, previous, sums, faults>>

Commit(i) == /\ i \in inflight
             /\ inflight' = inflight \ {i}
             /\ visible'  = visible \cup {i}
             /\ UNCHANGED <<newest, pc, latest, previous, sums, faults>>

\* Something fails that need not, as long as the bound allows.
Fault == faults < MaxFaults /\ faults' = faults + 1

InsertFails(i) == /\ Fault
                  /\ i \in inflight
                  /\ inflight' = inflight \ {i}
                  /\ UNCHANGED <<newest, visible, pc, latest, previous, sums>>

-----------------------------------------------------------------------------
(* aggregateGeneric, as the database executes its operations one by one. *)

\* aggregateLoop: the four chains are started together, each with an empty
\* object to bind its results to.
StartLoop == /\ \A f \in Fields : pc[f] = "idle"
             /\ pc'       = [f \in Fields |-> "latest"]
             /\ latest'   = [f \in Fields |-> None]
             /\ previous' = [f \in Fields |-> None]
             /\ UNCHANGED <<inserts, sums, faults>>

IsNewest(id) == IF visible = {} THEN id = None
                ELSE id \in visible /\ \A j \in visible : j <= id

FindLatest(f) == /\ pc[f] = "latest"
                 /\ \E id \in visible \cup {None} :
                      IsNewest(id) /\ latest' = [latest EXCEPT ![f] = id]
                 /\ missed' = [missed EXCEPT ![f] =
                                  @ \cup {i \in inflight : i < latest'[f]}]
                 /\ pc' = [pc EXCEPT ![f] = "previous"]
                 /\ UNCHANGED <<inserts, previous, watermark, counted, interrupted, faults>>

GetPrevious(f) == /\ pc[f] = "previous"
                  /\ previous' = [previous EXCEPT ![f] = watermark[f]]
                  /\ pc' = [pc EXCEPT ![f] = "reduce"]
                  /\ UNCHANGED <<inserts, latest, sums, faults>>

\* Without either bound the query asks for an _id that is {}: there is none.
Bound(f) == previous[f] # None \/ latest[f] # None

\* Mutant: the lower bound of the query is inclusive ($gte).
SelectedFrom(f) == {i \in visible : /\ Bound(f)
                                    /\ previous[f] # None => i >= previous[f]
                                    /\ latest[f]   # None => i <= latest[f]}

\* The query: each bound is left out where there is no ObjectId for it.
Selected(f) == {i \in visible : /\ Bound(f)
                                /\ previous[f] # None => i > previous[f]
                                /\ latest[f]   # None => i <= latest[f]}

Count(f, S) == [counted EXCEPT ![f] =
                  [i \in Ids |-> IF i \in S THEN counted[f][i] + 1 ELSE counted[f][i]]]

MapReduce(f) == /\ pc[f] = "reduce"
                /\ counted' = Count(f, Selected(f))
                /\ pc' = [pc EXCEPT ![f] = "update"]
                /\ UNCHANGED <<inserts, latest, previous, watermark, interrupted, missed, faults>>

\* Mutant: the newest ObjectId of the collection is saved, not the one the
\* query was bounded by.
UpdatePreviousToNewest(f) ==
  /\ pc[f] = "update"
  /\ \E id \in visible \cup {None} :
       IsNewest(id) /\ watermark' = [watermark EXCEPT ![f] = id]
  /\ pc' = [pc EXCEPT ![f] = "done"]
  /\ UNCHANGED <<inserts, latest, previous, counted, interrupted, missed, faults>>

\* updatePreviousObjectId
UpdatePrevious(f) ==
  /\ pc[f] = "update"
  /\ watermark' = [watermark EXCEPT ![f] = latest[f]]
  /\ pc' = [pc EXCEPT ![f] = "done"]
  /\ UNCHANGED <<inserts, latest, previous, counted, interrupted, missed, faults>>

\* A reduction that was written is not followed by its update.
Interrupt(S) == interrupted' = [f \in Fields |-> IF f \in S THEN interrupted[f] + 1
                                                 ELSE interrupted[f]]
Written == {f \in Fields : pc[f] = "update"}

\* An operation of the chain fails, and `catch` ends it.  The output of the
\* reduction is nonAtomic: some of it may have been written.
ChainFails(f) ==
  /\ Fault
  /\ pc[f] \in {"latest", "previous", "reduce", "update"}
  /\ IF pc[f] = "reduce"
       THEN \E S \in SUBSET Selected(f) :
              counted' = Count(f, S) /\ Interrupt(IF S = {} THEN {} ELSE {f})
       ELSE UNCHANGED counted /\ Interrupt(Written \cap {f})
  /\ pc' = [pc EXCEPT ![f] = "done"]
  /\ UNCHANGED <<inserts, latest, previous, watermark, missed>>

\* Promise.all, and `finally` starts the timer again.
EndLoop == /\ \A f \in Fields : pc[f] = "done"
           /\ pc' = [f \in Fields |-> "idle"]
           /\ UNCHANGED <<inserts, latest, previous, sums, faults>>

\* The backend stops, between any two operations, and is started again.
\* Inserts it has sent are executed or lost.
Crash == /\ Fault
         /\ \E lost \in SUBSET inflight : inflight' = inflight \ lost
         /\ pc'       = [f \in Fields |-> "idle"]
         /\ latest'   = [f \in Fields |-> None]
         /\ previous' = [f \in Fields |-> None]
         /\ Interrupt(Written)
         /\ UNCHANGED <<newest, visible, watermark, counted, missed>>

Chain(f) == FindLatest(f) \/ GetPrevious(f) \/ MapReduce(f) \/ UpdatePrevious(f)

Next == \/ Create
        \/ \E i \in Ids : Commit(i) \/ InsertFails(i)
        \/ StartLoop \/ EndLoop \/ Crash
        \/ \E f \in Fields : Chain(f) \/ ChainFails(f)

Spec == Init /\ [][Next]_vars

\* The timer fires and the database answers; measurements need not arrive.
Fairness == /\ \A f \in Fields : WF_vars(Chain(f))
            /\ WF_vars(StartLoop) /\ WF_vars(EndLoop)
            /\ \A i \in Ids : WF_vars(Commit(i))

FairSpec == Spec /\ Fairness

-----------------------------------------------------------------------------
(* Properties. *)

TypeOK == /\ newest    \in 0..MaxMeasurements
          /\ inflight  \in SUBSET Ids
          /\ visible   \in SUBSET Ids
          /\ pc        \in [Fields -> {"idle", "latest", "previous", "reduce",
                                       "update", "done"}]
          /\ latest    \in [Fields -> 0..MaxMeasurements]
          /\ previous  \in [Fields -> 0..MaxMeasurements]
          /\ watermark \in [Fields -> 0..MaxMeasurements]
          /\ counted   \in [Fields -> [Ids -> Nat]]
          /\ interrupted \in [Fields -> 0..faults]
          /\ missed \in [Fields -> SUBSET Ids]
          /\ faults \in 0..MaxFaults

\* "only processes new data" (test/e2e/database/aggregation_spec.coffee, line
\* 177): a measurement is added to a collection once, and once more at most for
\* every reduction that was written without the ObjectId it got to being saved.
\* A failure or a restart at any other point repeats nothing, nor does an insert
\* that comes late.
CountedOnce == \A f \in Fields, i \in Ids : counted[f][i] <= 1 + interrupted[f]

\* The saved ObjectId never passes a measurement that was not counted, so no
\* restart and no failure of the loop loses one.  The exception: its insert was
\* overtaken by that of a newer one, and the newest ObjectId was read between
\* the two.
NothingSkipped ==
  \A f \in Fields : \A i \in visible \ missed[f] :
    i <= watermark[f] => counted[f][i] >= 1

\* Progress is never taken back: what a collection has got to, it keeps, even
\* across failures and restarts.
WatermarkGrows == [][\A f \in Fields : watermark'[f] >= watermark[f]]_vars

\* Every measurement that was stored reaches every collection, once failures
\* and restarts cease, with the same exception.
EverythingCounted ==
  \A f \in Fields, i \in Ids :
    i \in visible ~> counted[f][i] >= 1 \/ i \in missed[f]
=============================================================================
