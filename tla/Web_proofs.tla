------------------------------- MODULE Web_proofs -------------------------------
(***************************************************************************)
(* Theorems about the two ends of the web application.                     *)
(*                                                                         *)
(* Aggregation, in the back end, for every set of collections and any      *)
(* number of measurements, failures and restarts.  NothingSkipped and      *)
(* CountedOnce say nothing of the steps of a chain, so the inductive       *)
(* invariant adds what the chain of a field relies on: how far its         *)
(* ObjectIds reach (Reached), what is still on its way below them          *)
(* (Missing), and what they cover (Covered, Single).                       *)
(*                                                                         *)
(* The page of the presentation in the browser, for any number of clicks   *)
(* and lost answers.  ShowsWhatIsSet speaks of an idle page only; while    *)
(* chains are at work, PageInv says that without a failed click there is   *)
(* one at most (Alone), and that what it has found or done is still so     *)
(* (Right).  After one, several may be at work: the choice that is marked  *)
(* and the mode agree (Agree), or an init is to mend it (Mending).         *)
(*                                                                         *)
(* The page of the statistics, for any selections, intervals and changes,  *)
(* and answers in any order.  What a point does to the series is AddIs;    *)
(* what an answer draws is found from it by induction over the points      *)
(* (FillIs); StatsInv follows the newest update, from the timer over its   *)
(* fetches (UpToDate) to the chart (InTurn).                               *)
(***************************************************************************)
EXTENDS Aggregation, Browser, FiniteSetTheorems, SequenceTheorems, WellFoundedInduction, TLAPS

-----------------------------------------------------------------------------
(* Aggregation *)

Bounded == {"previous", "reduce", "update"}   \* @latest was read

\* Up to where a chain that has read @latest will go, or a field has got.
Within(f, i) == i <= watermark[f] \/ (pc[f] \in Bounded /\ i <= latest[f])
Past(f, i)   == i <= watermark[f] \/ (pc[f] = "update" /\ i <= latest[f])

\* A measurement is on its way or in the collection, and older than the next.
Inserts == /\ inflight \cap visible = {}
           /\ \A i \in inflight \cup visible : i <= newest

\* The ObjectIds a chain works with belong to measurements in the collection,
\* and the one it will save is not below the one saved.
Reached(f) == /\ watermark[f] \in visible \cup {None}
              /\ pc[f] \in Bounded => /\ latest[f] \in visible \cup {None}
                                      /\ watermark[f] <= latest[f]
              /\ pc[f] \in {"reduce", "update"} => previous[f] = watermark[f]

\* What is still on its way below those ObjectIds was overtaken.
Missing(f) == \A i \in inflight : Within(f, i) => i \in missed[f]

\* What is in the collection and was reduced, or saved as reduced, is counted.
Covered(f) == \A i \in visible \ missed[f] : Past(f, i) => counted[f][i] >= 1

\* Beside what interrupted reductions added, nothing is counted twice, and nothing
\* before it is due.
Due(f, i) == IF Past(f, i) THEN 1 ELSE 0
Single(f) == \A i \in Ids : counted[f][i] <= interrupted[f] + Due(f, i)

Field(f) == Reached(f) /\ Missing(f) /\ Covered(f) /\ Single(f)

IInv == TypeOK /\ Inserts /\ \A f \in Fields : Field(f)

-----------------------------------------------------------------------------
(* Facts that several steps use. *)

\* Nothing a field relies on is touched, but that inserts may fail.
LEMMA Elsewhere ==
  ASSUME NEW f \in Fields, Field(f),
         inflight' \subseteq inflight, visible' = visible,
         interrupted'[f] = interrupted[f], counted[f] \in [Ids -> Nat],
         pc'[f] = pc[f], latest'[f] = latest[f], previous'[f] = previous[f],
         watermark'[f] = watermark[f], counted'[f] = counted[f],
         missed'[f] = missed[f]
  PROVE  Field(f)'
<1>1. Reached(f)'
  BY DEF Field, Reached
<1>2. Missing(f)'
  BY DEF Field, Missing, Within
<1>3. Covered(f)'
  BY DEF Field, Covered, Past
<1>4. Single(f)'
  BY DEF Field, Single, Due, Past
<1> QED BY <1>1, <1>2, <1>3, <1>4 DEF Field

\* A chain that leaves its steps keeps what its collection has got to; if a
\* reduction was written and not saved, that is counted.
LEMMA ChainLeft ==
  ASSUME NEW f \in Fields, Field(f),
         inflight' \subseteq inflight, visible' = visible,
         interrupted[f] \in Nat, counted[f] \in [Ids -> Nat],
         interrupted'[f] = IF pc[f] = "update" THEN interrupted[f] + 1 ELSE interrupted[f],
         pc'[f] \notin Bounded,
         watermark'[f] = watermark[f], counted'[f] = counted[f],
         missed'[f] = missed[f]
  PROVE  Field(f)'
<1>1. Reached(f)'
  BY DEF Field, Reached, Bounded
<1>2. Missing(f)'
  BY DEF Field, Missing, Within
<1>3. Covered(f)'
  BY DEF Field, Covered, Past, Bounded
<1>4. Single(f)'
  <2> SUFFICES ASSUME NEW i \in Ids PROVE counted'[f][i] <= interrupted'[f] + Due(f, i)'
    BY DEF Single
  <2>1. counted[f][i] <= interrupted[f] + Due(f, i) /\ counted[f][i] \in Nat
    BY DEF Field, Single
  <2>2. Due(f, i) \in {0, 1} /\ Due(f, i)' \in {0, 1}
    BY DEF Due
  <2>3. CASE pc[f] = "update"
    BY <2>1, <2>2, <2>3
  <2>4. CASE pc[f] # "update"
    <3>1. Due(f, i)' = Due(f, i)
      BY <2>4 DEF Due, Past, Bounded
    <3> QED BY <2>1, <2>4, <3>1
  <2> QED BY <2>3, <2>4
<1> QED BY <1>1, <1>2, <1>3, <1>4 DEF Field

\* What one reduction does to the sums of its collection and to no other.
LEMMA CountIs ==
  ASSUME TypeOK, NEW f \in Fields, NEW S \in SUBSET Ids
  PROVE  /\ Count(f, S) \in [Fields -> [Ids -> Nat]]
         /\ \A g \in Fields \ {f} : Count(f, S)[g] = counted[g]
         /\ \A i \in S : Count(f, S)[f][i] = counted[f][i] + 1
         /\ \A i \in Ids \ S : Count(f, S)[f][i] = counted[f][i]
<1> DEFINE sum == [i \in Ids |-> IF i \in S THEN counted[f][i] + 1 ELSE counted[f][i]]
<1>1. Count(f, S) = [counted EXCEPT ![f] = sum]
  BY DEF Count
<1>2. counted[f] \in [Ids -> Nat] /\ counted \in [Fields -> [Ids -> Nat]]
  BY DEF TypeOK
<1>3. sum \in [Ids -> Nat]
  BY <1>2
<1>4. Count(f, S)[f] = sum
  BY <1>1, <1>2
<1>5. /\ \A i \in S : sum[i] = counted[f][i] + 1
      /\ \A i \in Ids \ S : sum[i] = counted[f][i]
  OBVIOUS
<1> HIDE DEF sum
<1> QED BY <1>1, <1>2, <1>3, <1>4, <1>5

\* What a fault, if it is one, does to the count of interrupted reductions.
LEMMA InterruptIs ==
  ASSUME TypeOK, NEW S, Interrupt(S), Fault \/ (S = {} /\ faults' = faults)
  PROVE  /\ faults' \in 0..MaxFaults
         /\ interrupted' \in [Fields -> 0..faults']
         /\ \A f \in Fields : interrupted'[f] = IF f \in S THEN interrupted[f] + 1
                                                 ELSE interrupted[f]
<1>1. faults \in Nat /\ MaxFaults \in Nat /\ \A f \in Fields : interrupted[f] \in 0..faults
  BY AggregationAssumption DEF TypeOK
<1> QED BY <1>1 DEF Interrupt, Fault, TypeOK

\* What a reduction selects are measurements.
LEMMA SelectedIsIds == ASSUME TypeOK, NEW f \in Fields PROVE Selected(f) \subseteq Ids
  BY DEF TypeOK, Selected

-----------------------------------------------------------------------------
(* The invariant. *)

\* At the first start nothing is counted and no ObjectId is saved.
LEMMA InitInv == Init => IInv
<1> SUFFICES ASSUME Init PROVE IInv
  OBVIOUS
<1> USE AggregationAssumption
<1>1. TypeOK
  BY DEF Init, TypeOK, Ids, None
<1>2. Inserts
  BY DEF Init, Inserts
<1>3. ASSUME NEW f \in Fields PROVE Field(f)
  <2>1. pc[f] = "idle" /\ watermark[f] = None /\ counted[f] = [i \in Ids |-> 0]
    BY DEF Init
  <2>2. Reached(f) /\ Missing(f)
    BY <2>1 DEF Init, Reached, Missing, Bounded
  <2>3. Covered(f) /\ Single(f)
    BY <2>1 DEF Init, Covered, Single, Due, Past, None, Ids
  <2> QED BY <2>2, <2>3 DEF Field
<1> QED BY <1>1, <1>2, <1>3 DEF IInv

\* A new ObjectId is above all that were given out.
LEMMA CreateInv == IInv /\ Create => IInv'
<1> SUFFICES ASSUME IInv, Create PROVE IInv'
  OBVIOUS
<1> USE AggregationAssumption DEF IInv, Create, sums
<1>1. TypeOK'
  BY DEF TypeOK, Ids
<1>2. Inserts'
  BY DEF Inserts, TypeOK, Ids
<1>3. ASSUME NEW f \in Fields PROVE Field(f)'
  <2>1. Reached(f)'
    BY DEF Field, Reached
  <2>2. Missing(f)'
    BY DEF Field, Missing, Reached, Within, Inserts, TypeOK, None, Ids
  <2>3. Covered(f)' /\ Single(f)'
    BY DEF Field, Covered, Single, Due, Past
  <2> QED BY <2>1, <2>2, <2>3 DEF Field
<1> QED BY <1>1, <1>2, <1>3

\* An insert that becomes visible below an ObjectId in use was overtaken.
LEMMA CommitInv == ASSUME IInv, NEW i \in Ids, Commit(i) PROVE IInv'
<1> USE DEF IInv, Commit, sums
<1>1. TypeOK'
  BY DEF TypeOK
<1>2. Inserts'
  BY DEF Inserts
<1>3. ASSUME NEW f \in Fields PROVE Field(f)'
  <2>1. Reached(f)'
    BY DEF Field, Reached
  <2>2. Missing(f)'
    BY DEF Field, Missing, Within
  <2>3. Covered(f)'
    BY DEF Field, Missing, Covered, Within, Past, Bounded
  <2>4. Single(f)'
    BY DEF Field, Single, Due, Past
  <2> QED BY <2>1, <2>2, <2>3, <2>4 DEF Field
<1> QED BY <1>1, <1>2, <1>3

LEMMA InsertFailsInv == ASSUME IInv, NEW i \in Ids, InsertFails(i) PROVE IInv'
<1> USE DEF IInv, InsertFails, Fault, sums
<1>1. TypeOK'
  BY AggregationAssumption DEF TypeOK
<1>2. Inserts'
  BY DEF Inserts
<1>3. ASSUME NEW f \in Fields PROVE Field(f)'
  BY Elsewhere DEF TypeOK
<1> QED BY <1>1, <1>2, <1>3

LEMMA StartLoopInv == IInv /\ StartLoop => IInv'
<1> SUFFICES ASSUME IInv, StartLoop PROVE IInv'
  OBVIOUS
<1> USE DEF IInv, StartLoop, sums, inserts
<1>1. TypeOK'
  BY AggregationAssumption DEF TypeOK, None
<1>2. Inserts'
  BY DEF Inserts
<1>3. ASSUME NEW f \in Fields PROVE Field(f)'
  BY ChainLeft DEF Bounded, TypeOK
<1> QED BY <1>1, <1>2, <1>3

LEMMA EndLoopInv == IInv /\ EndLoop => IInv'
<1> SUFFICES ASSUME IInv, EndLoop PROVE IInv'
  OBVIOUS
<1> USE DEF IInv, EndLoop, sums, inserts
<1>1. TypeOK'
  BY DEF TypeOK
<1>2. Inserts'
  BY DEF Inserts
<1>3. ASSUME NEW f \in Fields PROVE Field(f)'
  BY ChainLeft DEF Bounded, TypeOK
<1> QED BY <1>1, <1>2, <1>3

\* A crash after a reduction and before its ObjectId is saved interrupts it.
LEMMA CrashInv == IInv /\ Crash => IInv'
<1> SUFFICES ASSUME IInv, Crash PROVE IInv'
  OBVIOUS
<1> USE DEF IInv, Crash
<1>1. /\ faults' \in 0..MaxFaults /\ interrupted' \in [Fields -> 0..faults']
      /\ \A f \in Fields : interrupted'[f] = IF pc[f] = "update" THEN interrupted[f] + 1
                                              ELSE interrupted[f]
  BY InterruptIs DEF Written
<1>2. TypeOK'
  BY <1>1, AggregationAssumption DEF TypeOK, None
<1>3. Inserts'
  BY DEF Inserts
<1>4. ASSUME NEW f \in Fields PROVE Field(f)'
  <2>1. interrupted[f] \in Nat /\ counted[f] \in [Ids -> Nat] /\ pc'[f] \notin Bounded
    BY DEF TypeOK, Bounded
  <2> QED BY <1>1, <2>1, ChainLeft
<1> QED BY <1>2, <1>3, <1>4

-----------------------------------------------------------------------------
(* The steps of a chain. *)

\* The newest ObjectId is not below the saved one, which is that of a
\* measurement in the collection.
LEMMA FindLatestInv == ASSUME IInv, NEW f \in Fields, FindLatest(f) PROVE IInv'
<1> USE AggregationAssumption DEF IInv, FindLatest, inserts
<1>1. PICK id \in visible \cup {None} :
        IsNewest(id) /\ latest' = [latest EXCEPT ![f] = id]
  OBVIOUS
<1>2. id \in 0..MaxMeasurements /\ latest'[f] = id /\ pc'[f] = "previous"
  BY <1>1 DEF TypeOK, Ids, None
<1>3. TypeOK'
  <2>1. latest' \in [Fields -> 0..MaxMeasurements]
    BY <1>1, <1>2 DEF TypeOK
  <2>2. pc' \in [Fields -> {"idle", "latest", "previous", "reduce", "update", "done"}]
    BY DEF TypeOK
  <2>3. missed' \in [Fields -> SUBSET Ids]
    BY DEF TypeOK
  <2> QED BY <2>1, <2>2, <2>3 DEF TypeOK
<1>4. Inserts'
  BY DEF Inserts
<1>5. Field(f)'
  <2>1. watermark[f] <= id
    BY <1>1, <1>2 DEF Field, Reached, IsNewest, TypeOK, Ids, None
  <2>2. Reached(f)'
    BY <1>2, <2>1 DEF Field, Reached, Bounded
  <2>3. missed'[f] = missed[f] \cup {i \in inflight : i < id}
    BY <1>2 DEF TypeOK
  \* What is on its way has another ObjectId than what has arrived.
  <2>4. \A i \in inflight : i <= id => i < id
    BY <1>2 DEF Inserts, TypeOK, Ids, None
  <2>5. Missing(f)'
    BY <1>2, <2>1, <2>3, <2>4 DEF Field, Missing, Within, TypeOK, Ids
  <2>6. Covered(f)' /\ Single(f)'
    BY <1>2, <2>3 DEF Field, Covered, Single, Due, Past
  <2> QED BY <2>2, <2>5, <2>6 DEF Field
<1>6. ASSUME NEW g \in Fields \ {f} PROVE Field(g)'
  BY <1>1, Elsewhere DEF TypeOK
<1> QED BY <1>3, <1>4, <1>5, <1>6

LEMMA GetPreviousInv == ASSUME IInv, NEW f \in Fields, GetPrevious(f) PROVE IInv'
<1> USE DEF IInv, GetPrevious, inserts, sums
<1>1. TypeOK'
  BY DEF TypeOK
<1>2. Inserts'
  BY DEF Inserts
<1>3. pc'[f] = "reduce" /\ previous'[f] = watermark[f]
  BY DEF TypeOK
<1>4. Field(f)'
  <2>1. Reached(f)'
    BY <1>3 DEF Field, Reached, Bounded
  <2>2. Missing(f)'
    BY <1>3 DEF Field, Missing, Within, Bounded
  <2>3. Covered(f)' /\ Single(f)'
    BY <1>3 DEF Field, Covered, Single, Due, Past
  <2> QED BY <2>1, <2>2, <2>3 DEF Field
<1>5. ASSUME NEW g \in Fields \ {f} PROVE Field(g)'
  BY Elsewhere DEF TypeOK
<1> QED BY <1>1, <1>2, <1>4, <1>5

\* What lies between the two ObjectIds was not counted before, and is now.
LEMMA MapReduceInv == ASSUME IInv, NEW f \in Fields, MapReduce(f) PROVE IInv'
<1> USE DEF IInv, MapReduce, inserts
<1>1. Selected(f) \subseteq Ids
  BY SelectedIsIds
<1>2. pc'[f] = "update" /\ latest' = latest /\ watermark' = watermark
  BY DEF TypeOK
<1>3. TypeOK'
  <2>1. counted' \in [Fields -> [Ids -> Nat]]
    BY <1>1, CountIs
  <2>2. pc' \in [Fields -> {"idle", "latest", "previous", "reduce", "update", "done"}]
    BY DEF TypeOK
  <2> QED BY <2>1, <2>2 DEF TypeOK
<1>4. Inserts'
  BY DEF Inserts
<1>5. Field(f)'
  <2>1. Reached(f)'
    BY <1>2 DEF Field, Reached, Bounded
  <2>2. Missing(f)'
    BY <1>2 DEF Field, Missing, Within, Bounded
  <2>3. previous[f] = watermark[f] /\ watermark[f] <= latest[f]
    BY DEF Field, Reached, Bounded
  <2>4. watermark[f] \in 0..MaxMeasurements /\ latest[f] \in 0..MaxMeasurements
    BY DEF TypeOK
  <2>5. \A i \in Ids : i \in Selected(f)
                         <=> /\ i \in visible
                             /\ i > watermark[f]
                             /\ i <= latest[f]
    BY <2>3, <2>4 DEF Selected, Bound, TypeOK, Ids, None
  <2>6. /\ \A i \in Selected(f) : counted'[f][i] = counted[f][i] + 1
        /\ \A i \in Ids \ Selected(f) : counted'[f][i] = counted[f][i]
        /\ \A i \in Ids : counted[f][i] \in Nat
    BY <1>1, CountIs DEF TypeOK
  <2>7. Covered(f)'
    <3> SUFFICES ASSUME NEW i \in visible, i \notin missed[f], Past(f, i)'
                 PROVE  counted'[f][i] >= 1
      BY DEF Covered
    <3>1. i \in Ids /\ i <= latest[f]
      BY <1>2, <2>3, <2>4 DEF Past, TypeOK, Ids
    <3>2. CASE i \in Selected(f)
      BY <3>1, <3>2, <2>6
    <3>3. CASE i \notin Selected(f)
      <4>1. i <= watermark[f]
        BY <3>1, <3>3, <2>4, <2>5 DEF Ids
      <4> QED BY <4>1, <3>1, <3>3, <2>6 DEF Field, Covered, Past
    <3> QED BY <3>2, <3>3
  <2>8. Single(f)'
    <3> SUFFICES ASSUME NEW i \in Ids PROVE counted'[f][i] <= interrupted'[f] + Due(f, i)'
      BY DEF Single
    <3>1. /\ counted[f][i] \in Nat /\ interrupted[f] \in Nat /\ interrupted'[f] = interrupted[f]
          /\ counted[f][i] <= interrupted[f] + Due(f, i)
      BY DEF Field, Single, TypeOK
    <3>2. i \in Nat /\ (i <= watermark[f] => i <= latest[f])
      BY <2>3, <2>4 DEF Ids
    <3>3. CASE i \in Selected(f)
      <4>1. ~ i <= watermark[f] /\ i <= latest[f]
        BY <3>2, <3>3, <2>4, <2>5
      <4>2. Due(f, i) = 0 /\ Due(f, i)' = 1
        BY <4>1, <1>2 DEF Due, Past
      <4> QED BY <4>2, <3>1, <3>3, <2>6
    <3>4. CASE i \notin Selected(f)
      <4>1. Due(f, i) <= Due(f, i)' /\ Due(f, i) \in {0, 1} /\ Due(f, i)' \in {0, 1}
        BY <1>2 DEF Due, Past
      <4> QED BY <4>1, <3>1, <3>4, <2>6
    <3> QED BY <3>3, <3>4
  <2> QED BY <2>1, <2>2, <2>7, <2>8 DEF Field
<1>6. ASSUME NEW g \in Fields \ {f} PROVE Field(g)'
  <2>1. counted'[g] = counted[g]
    BY <1>1, CountIs
  <2> QED BY <2>1, Elsewhere DEF TypeOK
<1> QED BY <1>3, <1>4, <1>5, <1>6

\* What is saved is what was reduced.
LEMMA UpdatePreviousInv == ASSUME IInv, NEW f \in Fields, UpdatePrevious(f) PROVE IInv'
<1> USE DEF IInv, UpdatePrevious, inserts
<1>1. TypeOK'
  BY DEF TypeOK
<1>2. Inserts'
  BY DEF Inserts
<1>3. pc'[f] = "done" /\ watermark'[f] = latest[f] /\ watermark[f] <= latest[f]
  BY DEF TypeOK, Field, Reached, Bounded
<1>4. Field(f)'
  <2>1. Reached(f)'
    BY <1>3 DEF Field, Reached, Bounded
  <2>2. Missing(f)'
    BY <1>3 DEF Field, Missing, Within, Bounded
  <2>3. Covered(f)'
    BY <1>3 DEF Field, Covered, Past
  <2>4. Single(f)'
    BY <1>3 DEF Field, Single, Due, Past, TypeOK, Ids
  <2> QED BY <2>1, <2>2, <2>3, <2>4 DEF Field
<1>5. ASSUME NEW g \in Fields \ {f} PROVE Field(g)'
  BY Elsewhere DEF TypeOK
<1> QED BY <1>1, <1>2, <1>4, <1>5

\* Where a chain fails, what it has written is interrupted.
LEMMA ChainFailsInv == ASSUME IInv, NEW f \in Fields, ChainFails(f) PROVE IInv'
<1> USE DEF IInv, ChainFails, inserts
<1>1. pc'[f] = "done" /\ watermark' = watermark /\ missed' = missed
  BY DEF TypeOK
<1>2. Inserts'
  BY DEF Inserts
<1>3. ASSUME NEW S, Interrupt(S), S \subseteq {f}, counted' \in [Fields -> [Ids -> Nat]]
      PROVE  /\ TypeOK'
             /\ interrupted[f] \in Nat
             /\ interrupted'[f] = IF f \in S THEN interrupted[f] + 1 ELSE interrupted[f]
             /\ \A g \in Fields \ {f} : counted'[g] = counted[g] => Field(g)'
  <2>1. /\ faults' \in 0..MaxFaults /\ interrupted' \in [Fields -> 0..faults']
        /\ \A g \in Fields : interrupted'[g] = IF g \in S THEN interrupted[g] + 1
                                                ELSE interrupted[g]
    BY <1>3, InterruptIs
  <2>2. pc' \in [Fields -> {"idle", "latest", "previous", "reduce", "update", "done"}]
    BY DEF TypeOK
  <2>3. TypeOK'
    BY <1>3, <2>1, <2>2 DEF TypeOK
  <2>4. ASSUME NEW g \in Fields \ {f}, counted'[g] = counted[g] PROVE Field(g)'
    <3>1. interrupted'[g] = interrupted[g] /\ pc'[g] = pc[g] /\ counted[g] \in [Ids -> Nat]
      BY <1>3, <2>1 DEF TypeOK
    <3> QED BY <2>4, <3>1, Elsewhere
  <2> QED BY <2>1, <2>3, <2>4 DEF TypeOK
<1>4. CASE pc[f] = "reduce"
  <2>1. PICK S \in SUBSET Selected(f) :
          counted' = Count(f, S) /\ Interrupt(IF S = {} THEN {} ELSE {f})
    BY <1>4
  <2>2. S \subseteq Ids
    BY SelectedIsIds
  <2>3. /\ counted' \in [Fields -> [Ids -> Nat]]
        /\ \A g \in Fields \ {f} : counted'[g] = counted[g]
        /\ \A i \in S : counted'[f][i] = counted[f][i] + 1
        /\ \A i \in Ids \ S : counted'[f][i] = counted[f][i]
        /\ \A i \in Ids : counted[f][i] \in Nat
    BY <2>1, <2>2, CountIs DEF TypeOK
  <2>4. /\ TypeOK' /\ \A g \in Fields \ {f} : Field(g)'
        /\ interrupted[f] \in Nat
        /\ interrupted'[f] = IF S = {} THEN interrupted[f] ELSE interrupted[f] + 1
    BY <1>3, <2>1, <2>3
  <2>5. Reached(f)' /\ Missing(f)'
    BY <1>1 DEF Field, Reached, Missing, Within, Bounded
  <2>6. Covered(f)'
    BY <1>1, <1>4, <2>3 DEF Field, Covered, Past, TypeOK
  <2>7. Single(f)'
    <3> SUFFICES ASSUME NEW i \in Ids PROVE counted'[f][i] <= interrupted'[f] + Due(f, i)'
      BY DEF Single
    <3>1. Due(f, i)' = Due(f, i) /\ Due(f, i) \in {0, 1}
      BY <1>1, <1>4 DEF Due, Past
    <3>2. counted[f][i] <= interrupted[f] + Due(f, i)
      BY DEF Field, Single
    <3> QED BY <2>3, <2>4, <3>1, <3>2
  <2> QED BY <1>2, <2>4, <2>5, <2>6, <2>7 DEF Field
<1>5. CASE pc[f] # "reduce"
  <2>1. counted' = counted /\ Interrupt(Written \cap {f})
    BY <1>5
  <2>2. counted' \in [Fields -> [Ids -> Nat]] /\ counted[f] \in [Ids -> Nat]
    BY <2>1 DEF TypeOK
  <2>3. /\ TypeOK' /\ \A g \in Fields \ {f} : Field(g)'
        /\ interrupted[f] \in Nat
        /\ interrupted'[f] = IF pc[f] = "update" THEN interrupted[f] + 1 ELSE interrupted[f]
    BY <1>3, <2>1, <2>2 DEF Written
  <2>4. Field(f)'
    BY <1>1, <2>1, <2>2, <2>3, ChainLeft DEF Bounded
  <2> QED BY <1>2, <2>3, <2>4
<1> QED BY <1>4, <1>5

-----------------------------------------------------------------------------

\* The invariant holds after each step of the backend and of the database.
LEMMA NextInv == IInv /\ [Next]_vars => IInv'
<1> SUFFICES ASSUME IInv, [Next]_vars PROVE IInv'
  OBVIOUS
<1>1. CASE Create
  BY <1>1, CreateInv
<1>2. CASE \E i \in Ids : Commit(i) \/ InsertFails(i)
  BY <1>2, CommitInv, InsertFailsInv
<1>3. CASE StartLoop \/ EndLoop \/ Crash
  BY <1>3, StartLoopInv, EndLoopInv, CrashInv
<1>4. CASE \E f \in Fields : Chain(f) \/ ChainFails(f)
  BY <1>4, FindLatestInv, GetPreviousInv, MapReduceInv, UpdatePreviousInv,
     ChainFailsInv DEF Chain
<1>5. CASE UNCHANGED vars
  <2>1. TypeOK' /\ Inserts'
    BY <1>5 DEF vars, IInv, TypeOK, Inserts
  <2>2. ASSUME NEW f \in Fields PROVE Field(f)'
    BY <1>5, Elsewhere DEF vars, IInv, TypeOK
  <2> QED BY <2>1, <2>2 DEF IInv
<1> QED BY <1>1, <1>2, <1>3, <1>4, <1>5 DEF Next

\* The invariant holds in every reachable state.
LEMMA InvHolds == Spec => []IInv
  BY InitInv, NextInv, PTL DEF Spec

\* ObjectIds, chains and sums keep their types, and no collection has more reductions
\* interrupted than there were faults.
THEOREM TypeCorrect == Spec => []TypeOK
<1>1. IInv => TypeOK
  BY DEF IInv
<1> QED BY <1>1, InvHolds, PTL

\* A measurement is added to a collection once, and once more at most for each of its
\* reductions that was written while the ObjectId it got to was not saved.
THEOREM NothingCountedTwice == Spec => []CountedOnce
<1>1. IInv => CountedOnce
  <2> SUFFICES ASSUME IInv, NEW f \in Fields, NEW i \in Ids
               PROVE  counted[f][i] <= 1 + interrupted[f]
    BY DEF CountedOnce
  <2>1. counted[f][i] <= interrupted[f] + Due(f, i) /\ Due(f, i) \in {0, 1}
    BY DEF IInv, Field, Single, Due
  <2>2. counted[f][i] \in Nat /\ interrupted[f] \in Nat
    BY DEF IInv, TypeOK
  <2> QED BY <2>1, <2>2
<1> QED BY <1>1, InvHolds, PTL

\* No measurement below the saved ObjectId is left out, however failures and
\* restarts fall, unless its insert was overtaken.
THEOREM NoneLeftOut == Spec => []NothingSkipped
<1>1. IInv => NothingSkipped
  BY DEF IInv, Field, Covered, Past, NothingSkipped
<1> QED BY <1>1, InvHolds, PTL

\* The saved ObjectId never goes back.
THEOREM WatermarkNeverFalls == Spec => WatermarkGrows
<1> DEFINE Grows == \A f \in Fields : watermark'[f] >= watermark[f]
<1>1. IInv /\ [Next]_vars => [Grows]_vars
  <2> SUFFICES ASSUME IInv, Next, NEW g \in Fields PROVE watermark'[g] >= watermark[g]
    OBVIOUS
  <2>1. watermark[g] \in 0..MaxMeasurements
    BY DEF IInv, TypeOK
  <2>2. ASSUME watermark' = watermark PROVE watermark'[g] >= watermark[g]
    BY <2>1, <2>2
  <2>3. ASSUME NEW f \in Fields, UpdatePrevious(f) PROVE watermark'[g] >= watermark[g]
    <3>1. CASE g = f
      <4>1. watermark'[f] = latest[f] /\ latest[f] \in 0..MaxMeasurements
        BY <2>3 DEF IInv, TypeOK, UpdatePrevious
      <4>2. watermark[f] <= latest[f]
        BY <2>3 DEF IInv, Field, Reached, Bounded, UpdatePrevious
      <4> QED BY <3>1, <4>1, <4>2, <2>1
    <3>2. CASE g # f
      BY <3>2, <2>1, <2>3 DEF UpdatePrevious, IInv, TypeOK
    <3> QED BY <3>1, <3>2
  <2>4. Next => \/ watermark' = watermark
                \/ \E f \in Fields : UpdatePrevious(f)
    BY DEF Next, Chain, Create, Commit, InsertFails, StartLoop, EndLoop, Crash,
           FindLatest, GetPrevious, MapReduce, ChainFails, sums
  <2> QED BY <2>2, <2>3, <2>4
<1> QED BY <1>1, InvHolds, PTL DEF Spec, WatermarkGrows

-----------------------------------------------------------------------------
(* The page of the presentation *)

Waiting == {"free", "retry", "resume"}    \* for no answer
Mending == {"get", "getSpin", "retry"}    \* init is still to show what it reads
Ats     == Waiting \cup Mending \cup {"set", "setColor", "setSpin", "pick"}
Nets    == {"none", "sent", "ok", "error"}
Links   == [at : Ats, net : Nets, target : FakeModes, goesOn : {"never", "now", "later"}, value : 0..2]

\* A chain that is free is as new; a spinning is only sent with the manual mode.
Proper(l) == /\ l.at = "free" => l = Unused
             /\ l.net = "none" <=> l.at \in Waiting
             /\ l.at \in {"setColor", "setSpin"} => ModeOf(l.target) = 0

PageTypes == /\ mode \in Modes /\ dmode \in Modes /\ dspin \in Spins
             /\ chain \in [Chains -> Links] /\ \A c \in Chains : Proper(chain[c])
             /\ clicks \in 0..MaxClicks
             /\ \A c \in Chains : c > clicks + 1 => chain[c] = Unused

Accurate == mode = dmode /\ fakeMode = FakeOf(dmode, dspin)

\* What a chain that works alone, and is not one of a failed click, has found or done.
Right(l) == /\ l.at # "resume"
            /\ l.at \in Mending => l.goesOn = "never"
            /\ l.at = "get" /\ l.net = "ok" => l.value = dmode
            /\ l.at = "getSpin" => mode = dmode
            /\ l.at = "getSpin" /\ l.net = "ok" => l.value = dspin
            /\ l.at = "set" /\ l.net = "ok" => dmode = ModeOf(l.target)
            /\ l.at \in {"setColor", "setSpin"} => dmode = 0
            /\ l.at = "setSpin" => mode = 0 /\ fakeMode = l.target
            /\ l.at = "setSpin" /\ l.net = "ok" => dspin = l.target
            /\ l.at = "pick" => Accurate

\* One chain at most works, and nobody can click meanwhile.
Alone == /\ \A c, d \in Working : c = d
         /\ Working # {} => busy
         /\ \A c \in Working : Right(chain[c])
         /\ Working = {} => Accurate

Agree == mode = ModeOf(fakeMode)

PageInv == /\ PageTypes
           /\ destroyed \/ failed \/ Alone
           /\ destroyed \/ Agree \/ \E c \in Chains : chain[c].at \in Mending

-----------------------------------------------------------------------------
LEMMA LinkIs ==
  ASSUME NEW at \in Ats, NEW net \in Nets, NEW target \in FakeModes,
         NEW goesOn \in {"never", "now", "later"}
  PROVE  /\ Link(at, net, target, goesOn) \in Links
         /\ Link(at, net, target, goesOn).at = at /\ Link(at, net, target, goesOn).net = net
         /\ Link(at, net, target, goesOn).target = target
         /\ Link(at, net, target, goesOn).goesOn = goesOn
         /\ Link(at, net, target, goesOn).value = 0
BY DEF Link, Links, Nets

\* A chain with a request on its way.
LEMMA SentIs ==
  ASSUME NEW at \in {"get", "getSpin", "set", "setColor", "setSpin", "pick"},
         NEW target \in FakeModes, NEW goesOn \in {"never", "now", "later"}
  PROVE  /\ Link(at, "sent", target, goesOn) \in Links
         /\ Link(at, "sent", target, goesOn).at = at
         /\ Link(at, "sent", target, goesOn).net = "sent"
         /\ Link(at, "sent", target, goesOn).target = target
         /\ Link(at, "sent", target, goesOn).goesOn = goesOn
<1>1. at \in Ats /\ "sent" \in Nets
  BY DEF Ats, Nets, Mending
<1> QED BY <1>1, LinkIs

LEMMA UnusedIs ==
  /\ Unused \in Links /\ Unused.at = "free" /\ Unused.net = "none" /\ Proper(Unused)
  /\ Init0 \in Links /\ Init0.at = "get" /\ Init0.net = "sent" /\ Proper(Init0)
  /\ Init0.goesOn = "never"
BY DEF Unused, Init0, Link, Links, Nets, Proper, Ats, Waiting, Mending, FakeModes

LEMMA FakeIs ==
  ASSUME NEW m \in Modes, NEW spin \in Spins
  PROVE  FakeOf(m, spin) \in FakeModes /\ ModeOf(FakeOf(m, spin)) = m
BY DEF FakeOf, ModeOf, Modes, Spins, FakeModes

LEMMA TargetIs ==
  ASSUME NEW f \in FakeModes
  PROVE  /\ ModeOf(f) \in Modes
         /\ \A spin \in Spins : ModeOf(f) # 0 => f = FakeOf(ModeOf(f), spin)
         /\ ModeOf(f) = 0 => f \in Spins /\ FakeOf(0, f) = f
BY DEF FakeOf, ModeOf, Modes, Spins, FakeModes

LEMMA InitPage == BrowserInit => PageInv
<1> SUFFICES ASSUME BrowserInit PROVE PageInv
  OBVIOUS
<1>1. /\ dmode \in Modes /\ dspin \in Spins /\ mode = 0 /\ fakeMode = 0 /\ busy = TRUE
      /\ clicks = 0
      /\ \/ chain = [c \in Chains |-> IF c = 1 THEN Init0 ELSE Unused]
         \/ chain = [c \in Chains |-> Unused] /\ destroyed
  <2>1. CASE PageInit
    <3>1. PICK d \in Found : dmode = d[1] /\ dspin = d[2]
      BY <2>1 DEF PageInit
    <3>2. dmode \in Modes /\ dspin \in Spins
      BY <3>1, PresentationAssumption
    <3> QED BY <2>1, <3>2, Zenon DEF PageInit
  <2>2. CASE PageClosed
    <3>1. dmode \in Modes /\ dspin \in Spins
      BY <2>2 DEF PageClosed, Modes, Spins
    <3> QED BY <2>2, <3>1, Zenon DEF PageClosed
  <2> QED BY <2>1, <2>2 DEF BrowserInit, OpenPresentation, OpenStatistics
<1>2. 1 \in Chains /\ Chains \subseteq Nat /\ MaxClicks \in Nat
  BY PresentationAssumption DEF Chains
<1>3. PageTypes
  <2>1. chain \in [Chains -> Links] /\ \A c \in Chains : Proper(chain[c])
    BY <1>1, UnusedIs
  <2>2. clicks \in 0..MaxClicks /\ mode \in Modes
    BY <1>1, <1>2 DEF Modes
  <2>3. \A c \in Chains : c > clicks + 1 => chain[c] = Unused
    BY <1>1, <1>2
  <2> QED BY <1>1, <2>1, <2>2, <2>3 DEF PageTypes
<1>4. Agree
  BY <1>1 DEF Agree, ModeOf
<1>5. destroyed \/ Alone
  <2>1. ASSUME chain = [c \in Chains |-> IF c = 1 THEN Init0 ELSE Unused]
        PROVE  Alone
    <3>1. Working = {1} /\ chain[1] = Init0
      BY <1>2, <2>1, UnusedIs DEF Working
    <3>2. Right(Init0)
      BY UnusedIs DEF Right
    <3> QED BY <1>1, <3>1, <3>2 DEF Alone
  <2> QED BY <1>1, <2>1
<1> QED BY <1>3, <1>4, <1>5 DEF PageInv

\* A chain goes on, or ends.
LEMMA StepKeeps ==
  ASSUME PageInv, NEW c \in Chains, NEW link \in Links, Proper(link),
         chain' = [chain EXCEPT ![c] = link], chain[c] # Unused,
         clicks' = clicks, mode' \in Modes, dmode' \in Modes, dspin' \in Spins,
         destroyed' = destroyed, failed => failed',
         \/ destroyed \/ failed'
         \/ Right(chain[c]) /\ busy => IF link = Unused THEN Accurate' ELSE busy' /\ Right(chain[c])',
         \/ destroyed \/ Agree' \/ link.at \in Mending
         \/ UNCHANGED <<mode, fakeMode>> /\ chain[c].at \notin Mending
  PROVE  PageInv'
<1>1. PageTypes
  BY DEF PageInv
<1>2. chain'[c] = link /\ \A d \in Chains \ {c} : chain'[d] = chain[d]
  BY <1>1 DEF PageTypes
<1>3. PageTypes'
  <2>1. \A d \in Chains : d > clicks + 1 => chain'[d] = Unused
    BY <1>1, <1>2 DEF PageTypes
  <2>2. chain' \in [Chains -> Links] /\ \A d \in Chains : Proper(chain'[d])
    BY <1>1, <1>2 DEF PageTypes
  <2> QED BY <1>1, <2>1, <2>2 DEF PageTypes
<1>4. ASSUME ~ destroyed', ~ failed'
      PROVE  Alone'
  <2>1. Alone /\ Working = {c} /\ Right(chain[c]) /\ busy
    <3>1. Alone
      BY <1>4 DEF PageInv
    <3>2. c \in Working
      BY DEF Working
    <3> QED BY <3>1, <3>2, Zenon DEF Alone
  <2>2. IF link = Unused THEN Accurate' ELSE busy' /\ Right(chain[c])'
    BY <1>4, <2>1
  <2>3. Working' = IF link = Unused THEN {} ELSE {c}
    BY <1>2, <2>1 DEF Working
  <2> QED BY <2>2, <2>3 DEF Alone
<1>5. destroyed' \/ Agree' \/ \E d \in Chains : chain'[d].at \in Mending
  <2>1. CASE destroyed \/ Agree' \/ link.at \in Mending
    BY <1>2, <2>1
  <2>2. CASE UNCHANGED <<mode, fakeMode>> /\ chain[c].at \notin Mending
    BY <1>2, <2>2 DEF PageInv, Agree
  <2> QED BY <2>1, <2>2
<1> QED BY <1>3, <1>4, <1>5, Zenon DEF PageInv

\* A request that is executed, or fails, changes nothing the page shows.
LEMMA ExecuteStep ==
  ASSUME PageInv, NEW c \in Chains, Execute(c)
  PROVE  PageInv'
<1>1. PICK answer \in {"ok", "error"} :
        chain' = [chain EXCEPT ![c].net = answer,
                               ![c].value = IF answer = "error" THEN 0
                                            ELSE IF chain[c].at = "get" THEN dmode
                                            ELSE IF chain[c].at = "getSpin" THEN dspin
                                            ELSE 0]
  BY Zenon DEF Execute
<1> DEFINE value == IF answer = "error" THEN 0
                    ELSE IF chain[c].at = "get" THEN dmode
                    ELSE IF chain[c].at = "getSpin" THEN dspin
                    ELSE 0
           link == [chain[c] EXCEPT !.net = answer, !.value = value]
<1>2. /\ chain[c].net = "sent"
      /\ dmode' = IF chain[c].at = "set" THEN ModeOf(chain[c].target) ELSE dmode
      /\ dspin' = IF chain[c].at = "setSpin" THEN chain[c].target ELSE dspin
      /\ UNCHANGED <<mode, fakeMode, busy, destroyed, clicks, failed>>
  BY Zenon DEF Execute, state
<1>3. PageTypes
  BY DEF PageInv
<1>4. chain[c] \in Links /\ mode \in Modes /\ dmode \in Modes /\ dspin \in Spins /\ Proper(chain[c])
  BY <1>3 DEF PageTypes
<1>5. chain' = [chain EXCEPT ![c] = link]
  BY <1>1, <1>3 DEF PageTypes, Links, Nets
<1>6. /\ link.at = chain[c].at /\ link.net = answer /\ link.target = chain[c].target
      /\ link.value = value /\ link.goesOn = chain[c].goesOn
      /\ link \in Links
  <2>1. value \in 0..2
    BY <1>4 DEF Modes, Spins
  <2> HIDE DEF value
  <2> QED BY <1>4, <2>1 DEF Links, Nets
<1>7. Proper(link) /\ chain[c] # Unused /\ link # Unused
  BY <1>2, <1>4, <1>6, UnusedIs DEF Proper
<1>8. dmode' \in Modes /\ dspin' \in Spins
  BY <1>2, <1>4, TargetIs DEF Links, Proper
<1>9. Right(chain[c]) => Right(chain[c])'
  <2> SUFFICES ASSUME Right(chain[c]) PROVE Right(chain[c])'
    OBVIOUS
  <2>1. chain'[c] = link
    BY <1>3, <1>5 DEF PageTypes
  <2>2. CASE chain[c].at \in {"get", "getSpin"}
    BY <1>2, <1>6, <2>1, <2>2 DEF Right, Mending
  <2>3. CASE chain[c].at \in {"set", "setColor", "setSpin"}
    BY <1>2, <1>6, <2>1, <2>3 DEF Right, Mending
  <2>4. CASE chain[c].at \notin {"get", "getSpin", "set", "setColor", "setSpin"}
    BY <1>2, <1>6, <2>1, <2>4 DEF Right, Mending, Accurate
  <2> QED BY <2>2, <2>3, <2>4
<1> HIDE DEF link
<1>10. link.at \in Mending \/ (UNCHANGED <<mode, fakeMode>> /\ chain[c].at \notin Mending)
  BY <1>2, <1>6
<1>11. UNCHANGED <<clicks, destroyed, failed, busy>> /\ mode' \in Modes
  BY <1>2, <1>4
<1> QED BY <1>5, <1>6, <1>7, <1>8, <1>9, <1>10, <1>11, StepKeeps

LEMMA UnreachableStep ==
  ASSUME PageInv, NEW c \in Chains, Unreachable(c)
  PROVE  PageInv'
<1> DEFINE link == [chain[c] EXCEPT !.net = "error"]
<1>1. chain[c].net = "sent" /\ chain' = [chain EXCEPT ![c].net = "error"]
  BY Zenon DEF Unreachable
<1>2. UNCHANGED <<mode, fakeMode, busy, dmode, dspin, clicks, destroyed, failed>>
  BY Zenon DEF Unreachable, state, device
<1>3. chain \in [Chains -> Links] /\ chain[c] \in Links /\ Proper(chain[c])
      /\ mode \in Modes /\ dmode \in Modes /\ dspin \in Spins
  BY DEF PageInv, PageTypes
<1>4. chain' = [chain EXCEPT ![c] = link] /\ chain'[c] = link
  BY <1>1, <1>3
<1>5. /\ link \in Links /\ link.at = chain[c].at /\ link.net = "error"
      /\ link.target = chain[c].target /\ link.goesOn = chain[c].goesOn
  BY <1>3 DEF Links, Nets
<1> HIDE DEF link
<1>6. Proper(link) /\ chain[c] # Unused /\ link # Unused
  BY <1>1, <1>3, <1>5, UnusedIs DEF Proper
<1>7. Right(chain[c]) => Right(chain[c])'
  BY <1>2, <1>4, <1>5 DEF Right, Accurate
<1>8. link.at \in Mending \/ (UNCHANGED <<mode, fakeMode>> /\ chain[c].at \notin Mending)
  BY <1>2, <1>5
<1>9. mode' \in Modes /\ dmode' \in Modes /\ dspin' \in Spins
      /\ UNCHANGED <<clicks, destroyed, failed, busy>>
  BY <1>2, <1>3
<1> QED BY <1>4, <1>5, <1>6, <1>7, <1>8, <1>9, StepKeeps

-----------------------------------------------------------------------------
(* What a chain does next, of the operators that the steps share.            *)

\* The facts about a chain whose step is not its request's.
LEMMA Going ==
  ASSUME PageInv, NEW c \in Chains, NEW at, NEW net, net # "none" \/ at \notin {"free"},
         At(c, {at}, {net})
  PROVE  /\ chain \in [Chains -> Links] /\ chain[c] \in Links /\ Proper(chain[c])
         /\ chain[c].at = at /\ chain[c].net = net /\ chain[c] # Unused
         /\ chain[c].target \in FakeModes /\ chain[c].goesOn \in {"never", "now", "later"}
         /\ mode \in Modes /\ dmode \in Modes /\ dspin \in Spins
BY UnusedIs DEF PageInv, PageTypes, At, Links

\* A click that goes on shows its target, and sends the spinning or ends.
LEMMA GoesOnIs ==
  ASSUME PageInv, NEW c \in Chains, chain[c] # Unused, GoesOn(c)
  PROVE  /\ mode' = ModeOf(chain[c].target) /\ fakeMode' = chain[c].target
         /\ mode' \in Modes /\ Agree'
         /\ \E link \in Links :
              /\ Proper(link) /\ chain' = [chain EXCEPT ![c] = link] /\ chain'[c] = link
              /\ IF Manual(c) THEN link.at = "setSpin" /\ link.net = "sent"
                                   /\ link.target = chain[c].target /\ link # Unused
                 ELSE link = Unused
<1>1. /\ chain \in [Chains -> Links] /\ chain[c].target \in FakeModes
      /\ chain[c].goesOn \in {"never", "now", "later"}
  BY DEF PageInv, PageTypes, Links
<1>2. /\ mode' = ModeOf(chain[c].target) /\ fakeMode' = chain[c].target
      /\ mode' \in Modes /\ Agree'
  BY <1>1, TargetIs DEF GoesOn, Agree
<1> DEFINE link == Link("setSpin", "sent", chain[c].target, chain[c].goesOn)
<1>3. CASE Manual(c)
  <2>1. chain' = [chain EXCEPT ![c] = link]
    BY <1>3 DEF GoesOn, Request
  <2>2. link \in Links /\ link.at = "setSpin" /\ link.net = "sent" /\ link.target = chain[c].target
    BY <1>1, SentIs
  <2> HIDE DEF link
  <2>3. link # Unused /\ Proper(link)
    BY <1>3, <2>2, UnusedIs DEF Proper, Manual, Waiting
  <2>4. chain'[c] = link
    BY <1>1, <2>1
  <2> QED BY <1>2, <1>3, <2>1, <2>2, <2>3, <2>4
<1>4. CASE ~ Manual(c)
  <2>1. chain' = [chain EXCEPT ![c] = Unused]
    BY <1>4 DEF GoesOn, End
  <2>2. chain'[c] = Unused
    BY <1>1, <2>1
  <2> QED BY <1>2, <1>4, <2>1, <2>2, UnusedIs
<1> QED BY <1>3, <1>4

LEMMA GotStep ==
  ASSUME PageInv, NEW c \in Chains, Got(c)
  PROVE  PageInv'
<1>1. /\ chain \in [Chains -> Links] /\ chain[c] \in Links
      /\ chain[c].at = "get" /\ chain[c].net = "ok" /\ chain[c] # Unused
      /\ chain[c].target \in FakeModes /\ chain[c].goesOn \in {"never", "now", "later"}
      /\ dmode \in Modes /\ dspin \in Spins
  BY Going DEF Got
<1>2. mode' = chain[c].value /\ UNCHANGED <<busy, destroyed, dmode, dspin, clicks, failed>>
  BY DEF Got, device
<1> DEFINE link == Link("getSpin", "sent", chain[c].target, chain[c].goesOn)
<1>3. chain' = [chain EXCEPT ![c] = link] /\ chain'[c] = link
  BY <1>1, Zenon DEF Got, Request
<1>4. /\ link \in Links /\ link.at = "getSpin" /\ link.net = "sent"
      /\ link.goesOn = chain[c].goesOn
  BY <1>1, SentIs
<1> HIDE DEF link
<1>5. Proper(link) /\ link # Unused /\ link.at \in Mending
  BY <1>4, UnusedIs DEF Proper, Waiting, Mending
<1>6. mode' \in Modes
  BY <1>1, <1>2 DEF Links, Modes
<1>7. Right(chain[c]) => Right(chain[c])'
  BY <1>1, <1>2, <1>3, <1>4 DEF Right, Mending
<1>8. dmode' \in Modes /\ dspin' \in Spins
  BY <1>1, <1>2
<1> QED BY <1>1, <1>2, <1>3, <1>4, <1>5, <1>6, <1>7, <1>8, StepKeeps

LEMMA GotSpinStep ==
  ASSUME PageInv, NEW c \in Chains, GotSpin(c)
  PROVE  PageInv'
<1>1. /\ chain \in [Chains -> Links] /\ chain[c] \in Links
      /\ chain[c].at = "getSpin" /\ chain[c].net = "ok" /\ chain[c] # Unused
      /\ chain[c].target \in FakeModes
      /\ mode \in Modes /\ dmode \in Modes /\ dspin \in Spins
  BY Going DEF GotSpin
<1>2. UNCHANGED <<destroyed, dmode, dspin, clicks, failed>>
  BY DEF GotSpin, device
<1>3. Right(chain[c]) => /\ chain[c].goesOn = "never"
                         /\ mode = dmode /\ chain[c].value = dspin
  BY <1>1 DEF Right, Mending
<1>4. chain[c].value \in Spins
  BY <1>1 DEF Links, Spins
<1>5. CASE chain[c].goesOn = "never" /\ InitDone(c)
  <2>1. chain' = [chain EXCEPT ![c] = Unused] /\ UNCHANGED mode
        /\ fakeMode' = FakeOf(mode, chain[c].value)
    BY <1>5 DEF InitDone, End
  <2>2. Agree'
    BY <1>1, <1>4, <2>1, FakeIs DEF Agree
  <2>3. Right(chain[c]) => Accurate'
    BY <1>2, <1>3, <2>1 DEF Accurate
  <2>4. mode' \in Modes /\ dmode' \in Modes /\ dspin' \in Spins
    BY <1>1, <1>2, <2>1
  <2> QED BY <1>1, <1>2, <2>1, <2>2, <2>3, <2>4, UnusedIs, StepKeeps
<1>6. CASE chain[c].goesOn = "later" /\ InitDone(c)
  <2> DEFINE link == Link("resume", "none", chain[c].target, "later")
  <2>1. chain' = [chain EXCEPT ![c] = link] /\ UNCHANGED mode
        /\ fakeMode' = FakeOf(mode, chain[c].value)
    BY <1>6 DEF InitDone, Stay
  <2>2. link \in Links /\ link.at = "resume" /\ link.net = "none"
    BY <1>1, LinkIs DEF Ats, Nets, Waiting
  <2> HIDE DEF link
  <2>3. Proper(link)
    BY <2>2 DEF Proper, Waiting
  <2>4. Agree'
    BY <1>1, <1>4, <2>1, FakeIs DEF Agree
  <2>5. ~ Right(chain[c])
    BY <1>3, <1>6
  <2>6. mode' \in Modes /\ dmode' \in Modes /\ dspin' \in Spins
    BY <1>1, <1>2, <2>1
  <2> QED BY <1>1, <1>2, <2>1, <2>2, <2>3, <2>4, <2>5, <2>6, StepKeeps
<1>7. CASE chain[c].goesOn = "now" /\ GoesOn(c)
  <2>1. PICK link \in Links : Proper(link) /\ chain' = [chain EXCEPT ![c] = link]
    BY <1>1, <1>7, GoesOnIs
  <2>2. mode' \in Modes /\ Agree'
    BY <1>1, <1>7, GoesOnIs
  <2>3. ~ Right(chain[c])
    BY <1>3, <1>7
  <2>4. dmode' \in Modes /\ dspin' \in Spins
    BY <1>1, <1>2
  <2> QED BY <1>1, <1>2, <2>1, <2>2, <2>3, <2>4, StepKeeps
<1>8. InitDone(c) \/ (chain[c].goesOn = "now" /\ GoesOn(c))
  BY DEF GotSpin
<1> QED BY <1>5, <1>6, <1>7, <1>8 DEF InitDone

\* A page that was not left goes on with the target of its click only after init.
LEMMA ResumeStep ==
  ASSUME PageInv, NEW c \in Chains, Resume(c)
  PROVE  PageInv'
<1>1. /\ chain[c].at = "resume" /\ chain[c] # Unused
      /\ dmode \in Modes /\ dspin \in Spins
  BY Going DEF Resume
<1>2. GoesOn(c) /\ UNCHANGED <<destroyed, dmode, dspin, clicks, failed>>
  BY DEF Resume, Continue, device
<1>3. PICK link \in Links : Proper(link) /\ chain' = [chain EXCEPT ![c] = link]
  BY <1>1, <1>2, GoesOnIs
<1>4. mode' \in Modes /\ Agree' /\ ~ Right(chain[c])
  BY <1>1, <1>2, GoesOnIs DEF Right
<1>5. dmode' \in Modes /\ dspin' \in Spins
  BY <1>1, <1>2
<1> QED BY <1>1, <1>2, <1>3, <1>4, <1>5, StepKeeps

LEMMA GiveUpStep ==
  ASSUME PageInv, NEW c \in Chains, GiveUp(c)
  PROVE  PageInv'
<1>1. /\ chain[c] # Unused /\ destroyed
      /\ mode \in Modes /\ dmode \in Modes /\ dspin \in Spins
  BY Going DEF GiveUp
<1>2. UNCHANGED <<destroyed, dmode, dspin, clicks, failed>>
  BY DEF GiveUp, device
<1>3. \E link \in Links : Proper(link) /\ chain' = [chain EXCEPT ![c] = link] /\ mode' \in Modes
  <2>1. CASE End(c) /\ UNCHANGED mode
    BY <1>1, <2>1, UnusedIs DEF End
  <2>2. CASE GoesOn(c)
    BY <1>1, <2>2, GoesOnIs
  <2> QED BY <2>1, <2>2 DEF GiveUp, Continue
<1>4. dmode' \in Modes /\ dspin' \in Spins
  BY <1>1, <1>2
<1> QED BY <1>1, <1>2, <1>3, <1>4, StepKeeps

LEMMA RetryLaterStep ==
  ASSUME PageInv, NEW c \in Chains, RetryLater(c)
  PROVE  PageInv'
<1>1. /\ chain \in [Chains -> Links] /\ chain[c] \in Links
      /\ chain[c].at \in {"get", "getSpin"} /\ chain[c] # Unused
      /\ chain[c].target \in FakeModes /\ chain[c].goesOn \in {"never", "now", "later"}
      /\ mode \in Modes /\ dmode \in Modes /\ dspin \in Spins
  BY UnusedIs DEF RetryLater, PageInv, PageTypes, At, Links
<1>2. UNCHANGED <<mode, fakeMode, busy, destroyed, dmode, dspin, clicks, failed>>
  BY DEF RetryLater, state, device
<1> DEFINE goesOn == IF chain[c].goesOn = "never" THEN "never" ELSE "later"
           link == Link("retry", "none", chain[c].target, goesOn)
<1>3. chain' = [chain EXCEPT ![c] = link] /\ chain'[c] = link
  BY <1>1, Zenon DEF RetryLater, Stay
<1>4. link \in Links /\ link.at = "retry" /\ link.net = "none" /\ link.goesOn = goesOn
  BY <1>1, LinkIs DEF Ats, Nets, Waiting
<1> HIDE DEF link
<1>5. Proper(link) /\ link # Unused /\ link.at \in Mending
  BY <1>4, UnusedIs DEF Proper, Waiting, Mending
<1>6. Right(chain[c]) => Right(chain[c])'
  BY <1>1, <1>2, <1>3, <1>4 DEF Right, Mending
<1>7. mode' \in Modes /\ dmode' \in Modes /\ dspin' \in Spins
  BY <1>1, <1>2
<1> QED BY <1>1, <1>2, <1>3, <1>4, <1>5, <1>6, <1>7, StepKeeps

LEMMA RetryStep ==
  ASSUME PageInv, NEW c \in Chains, Retry(c)
  PROVE  PageInv'
<1>1. /\ chain \in [Chains -> Links] /\ chain[c] \in Links
      /\ chain[c].at = "retry" /\ chain[c] # Unused
      /\ chain[c].target \in FakeModes /\ chain[c].goesOn \in {"never", "now", "later"}
      /\ mode \in Modes /\ dmode \in Modes /\ dspin \in Spins
  BY Going DEF Retry
<1>2. UNCHANGED <<mode, fakeMode, busy, destroyed, dmode, dspin, clicks, failed>>
  BY DEF Retry, state, device
<1> DEFINE link == Link("get", "sent", chain[c].target, chain[c].goesOn)
<1>3. chain' = [chain EXCEPT ![c] = link] /\ chain'[c] = link
  BY <1>1, Zenon DEF Retry, Request
<1>4. link \in Links /\ link.at = "get" /\ link.net = "sent" /\ link.goesOn = chain[c].goesOn
  BY <1>1, SentIs
<1> HIDE DEF link
<1>5. Proper(link) /\ link # Unused /\ link.at \in Mending
  BY <1>4, UnusedIs DEF Proper, Waiting, Mending
<1>6. Right(chain[c]) => Right(chain[c])'
  BY <1>1, <1>2, <1>3, <1>4 DEF Right, Mending
<1>7. mode' \in Modes /\ dmode' \in Modes /\ dspin' \in Spins
  BY <1>1, <1>2
<1> QED BY <1>1, <1>2, <1>3, <1>4, <1>5, <1>6, <1>7, StepKeeps

LEMMA SetColorStep ==
  ASSUME PageInv, NEW c \in Chains, SetColor(c)
  PROVE  PageInv'
<1>1. /\ chain \in [Chains -> Links] /\ chain[c] \in Links
      /\ chain[c].at = "set" /\ chain[c].net = "ok" /\ chain[c] # Unused
      /\ chain[c].target \in FakeModes /\ chain[c].goesOn \in {"never", "now", "later"}
      /\ mode \in Modes /\ dmode \in Modes /\ dspin \in Spins
  BY Going DEF SetColor
<1>2. UNCHANGED <<mode, fakeMode, busy, destroyed, dmode, dspin, clicks, failed>>
  BY DEF SetColor, state, device
<1> DEFINE link == Link("setColor", "sent", chain[c].target, chain[c].goesOn)
<1>3. chain' = [chain EXCEPT ![c] = link] /\ chain'[c] = link
  BY <1>1, Zenon DEF SetColor, Request
<1>4. link \in Links /\ link.at = "setColor" /\ link.net = "sent" /\ link.target = chain[c].target
  BY <1>1, SentIs
<1> HIDE DEF link
<1>5. Proper(link) /\ link # Unused
  BY <1>4, UnusedIs DEF Proper, Waiting, SetColor, Manual
<1>6. Right(chain[c]) => Right(chain[c])'
  BY <1>1, <1>2, <1>3, <1>4 DEF Right, Mending, SetColor, Manual
<1>7. mode' \in Modes /\ dmode' \in Modes /\ dspin' \in Spins /\ chain[c].at \notin Mending
  BY <1>1, <1>2 DEF Mending
<1> QED BY <1>1, <1>2, <1>3, <1>4, <1>5, <1>6, <1>7, StepKeeps

LEMMA ChangedStep ==
  ASSUME PageInv, NEW c \in Chains, Changed(c)
  PROVE  PageInv'
<1>1. /\ chain[c] \in Links /\ chain[c].at \in {"set", "setColor"} /\ chain[c].net = "ok"
      /\ chain[c] # Unused /\ Proper(chain[c]) /\ chain[c].target \in FakeModes
      /\ dmode \in Modes /\ dspin \in Spins
  BY UnusedIs DEF Changed, PageInv, PageTypes, At, Links
<1>2. GoesOn(c) /\ busy' = (Manual(c) /\ busy) /\ UNCHANGED <<destroyed, dmode, dspin, clicks, failed>>
  BY DEF Changed, Continue, device
<1>3. PICK link \in Links :
        /\ Proper(link) /\ chain' = [chain EXCEPT ![c] = link] /\ chain'[c] = link
        /\ IF Manual(c) THEN link.at = "setSpin" /\ link.net = "sent"
                             /\ link.target = chain[c].target /\ link # Unused
           ELSE link = Unused
  BY <1>1, <1>2, GoesOnIs
<1>4. mode' = ModeOf(chain[c].target) /\ fakeMode' = chain[c].target /\ mode' \in Modes /\ Agree'
  BY <1>1, <1>2, GoesOnIs
<1>5. ASSUME Right(chain[c]), busy
      PROVE  IF link = Unused THEN Accurate' ELSE busy' /\ Right(chain[c])'
  <2>1. dmode = ModeOf(chain[c].target)
    BY <1>1, <1>5 DEF Right, Proper
  <2>2. CASE Manual(c)
    BY <1>2, <1>3, <1>4, <1>5, <2>1, <2>2 DEF Right, Mending, Manual
  <2>3. CASE ~ Manual(c)
    <3>1. chain[c].target = FakeOf(ModeOf(chain[c].target), dspin)
      BY <1>1, <2>3, TargetIs DEF Manual
    <3> QED BY <1>2, <1>3, <1>4, <2>1, <2>3, <3>1 DEF Accurate
  <2> QED BY <2>2, <2>3
<1>6. dmode' \in Modes /\ dspin' \in Spins
  BY <1>1, <1>2
<1> QED BY <1>1, <1>2, <1>3, <1>4, <1>5, <1>6, StepKeeps

\* A click that fails is known; on a page that was not left it is for init to mend.
LEMMA ChangeFailsStep ==
  ASSUME PageInv, NEW c \in Chains, ChangeFails(c)
  PROVE  PageInv'
<1>1. /\ chain \in [Chains -> Links] /\ chain[c] # Unused /\ chain[c].target \in FakeModes
      /\ chain[c].goesOn \in {"never", "now", "later"}
      /\ mode \in Modes /\ dmode \in Modes /\ dspin \in Spins
  BY UnusedIs DEF ChangeFails, PageInv, PageTypes, At, Links
<1>2. failed' /\ UNCHANGED <<destroyed, dmode, dspin, clicks>>
  BY DEF ChangeFails, device
<1>3. dmode' \in Modes /\ dspin' \in Spins
  BY <1>1, <1>2
<1>4. CASE destroyed
  <2>1. GoesOn(c)
    BY <1>4 DEF ChangeFails, Continue
  <2>2. PICK link \in Links : Proper(link) /\ chain' = [chain EXCEPT ![c] = link]
    BY <1>1, <2>1, GoesOnIs
  <2>3. mode' \in Modes
    BY <1>1, <2>1, GoesOnIs
  <2> QED BY <1>1, <1>2, <1>3, <1>4, <2>2, <2>3, StepKeeps
<1>5. CASE ~ destroyed
  <2> DEFINE link == Link("get", "sent", chain[c].target, chain[c].goesOn)
  <2>1. chain' = [chain EXCEPT ![c] = link] /\ UNCHANGED mode
    BY <1>5 DEF ChangeFails, Request
  <2>2. link \in Links /\ link.at = "get" /\ link.net = "sent"
    BY <1>1, SentIs
  <2> HIDE DEF link
  <2>3. Proper(link) /\ link.at \in Mending
    BY <2>2 DEF Proper, Waiting, Mending
  <2> QED BY <1>1, <1>2, <1>3, <2>1, <2>2, <2>3, StepKeeps
<1> QED BY <1>4, <1>5

LEMMA SpinSetStep ==
  ASSUME PageInv, NEW c \in Chains, SpinSet(c)
  PROVE  PageInv'
<1>1. /\ chain[c] \in Links /\ chain[c].at = "setSpin" /\ chain[c].net \in {"ok", "error"}
      /\ chain[c] # Unused /\ Proper(chain[c]) /\ chain[c].target \in FakeModes
      /\ mode \in Modes /\ dmode \in Modes /\ dspin \in Spins
  BY UnusedIs DEF SpinSet, PageInv, PageTypes, At, Links
<1>2. /\ failed' = (failed \/ chain[c].net = "error")
      /\ UNCHANGED <<mode, fakeMode, destroyed, dmode, dspin, clicks>>
      /\ chain' = [chain EXCEPT ![c] = Unused]
  BY DEF SpinSet, device, End
<1>3. ASSUME Right(chain[c]), ~ failed'
      PROVE  Accurate'
  <2>1. chain[c].net = "ok"
    BY <1>1, <1>2, <1>3
  <2>2. mode = 0 /\ dmode = 0 /\ fakeMode = chain[c].target /\ dspin = chain[c].target
    BY <1>1, <1>3, <2>1 DEF Right
  <2>3. FakeOf(0, chain[c].target) = chain[c].target
    BY <1>1, TargetIs DEF Proper
  <2> QED BY <1>2, <2>2, <2>3 DEF Accurate
<1>4. mode' \in Modes /\ dmode' \in Modes /\ dspin' \in Spins /\ chain[c].at \notin Mending
  BY <1>1, <1>2 DEF Mending
<1>5. failed => failed'
  BY <1>2
<1> QED BY <1>1, <1>2, <1>3, <1>4, <1>5, UnusedIs, StepKeeps

LEMMA PickedStep ==
  ASSUME PageInv, NEW c \in Chains, Picked(c)
  PROVE  PageInv'
<1>1. /\ chain[c].at = "pick" /\ chain[c] # Unused
      /\ mode \in Modes /\ dmode \in Modes /\ dspin \in Spins
  BY UnusedIs DEF Picked, PageInv, PageTypes, At, Links
<1>2. /\ UNCHANGED <<mode, fakeMode, destroyed, dmode, dspin, clicks, failed>>
      /\ chain' = [chain EXCEPT ![c] = Unused]
  BY DEF Picked, device, End
<1>3. Right(chain[c]) => Accurate'
  BY <1>1, <1>2 DEF Right, Accurate
<1>4. mode' \in Modes /\ dmode' \in Modes /\ dspin' \in Spins /\ chain[c].at \notin Mending
  BY <1>1, <1>2 DEF Mending
<1> QED BY <1>1, <1>2, <1>3, <1>4, UnusedIs, StepKeeps

-----------------------------------------------------------------------------
(* The user, and the rest.                                                   *)

\* A click takes a chain that was never used; while it is alone nobody else can.
LEMMA Clicked ==
  ASSUME PageInv, Usable, NEW k, k = NextChain, NEW link \in Links, Proper(link), link # Unused,
         chain' = [chain EXCEPT ![k] = link], clicks' = clicks + 1, busy',
         UNCHANGED <<mode, fakeMode, destroyed, dmode, dspin>>,
         ~ failed' => ~ failed \/ Working = {}, failed /\ ~ failed' => link.at = "set",
         ~ destroyed /\ ~ failed' /\ (link.at = "set" \/ Accurate) => Right(chain[k])'
  PROVE  PageInv'
<1>1. PageTypes /\ MaxClicks \in Nat /\ clicks < MaxClicks /\ ~ busy /\ ~ destroyed
  BY PresentationAssumption DEF PageInv, Usable
<1>2. k \in Chains /\ clicks \in Nat /\ chain[k] = Unused
  BY <1>1 DEF NextChain, Chains, PageTypes
<1>3. chain'[k] = link /\ \A d \in Chains \ {k} : chain'[d] = chain[d]
  BY <1>1, <1>2 DEF PageTypes
<1>4. PageTypes'
  <2>1. \A d \in Chains : d > clicks' + 1 => chain'[d] = Unused
    BY <1>1, <1>2, <1>3 DEF PageTypes, NextChain, Chains
  <2>2. chain' \in [Chains -> Links] /\ \A d \in Chains : Proper(chain'[d])
    BY <1>1, <1>3 DEF PageTypes
  <2>3. clicks' \in 0..MaxClicks
    BY <1>1, <1>2
  <2> QED BY <1>1, <2>1, <2>2, <2>3 DEF PageTypes
<1>5. ASSUME ~ failed'
      PROVE  Alone'
  <2>1. Working = {} /\ (link.at = "set" \/ Accurate)
    <3>1. CASE failed
      BY <1>5, <3>1
    <3>2. CASE ~ failed
      <4>1. Alone
        BY <1>1, <3>2 DEF PageInv
      <4> QED BY <1>1, <4>1 DEF Alone
    <3> QED BY <3>1, <3>2
  <2>2. Right(chain[k])'
    BY <1>1, <1>5, <2>1
  <2>3. Working' = {k}
    BY <1>2, <1>3, <2>1 DEF Working
  <2> QED BY <1>2, <1>3, <2>2, <2>3 DEF Alone
<1>6. Agree' \/ \E d \in Chains : chain'[d].at \in Mending
  <2>1. Unused.at \notin Mending
    BY UnusedIs DEF Mending
  <2> QED BY <1>1, <1>2, <1>3, <2>1 DEF PageInv, Agree
<1> QED BY <1>4, <1>5, <1>6 DEF PageInv

LEMMA ClickStep ==
  ASSUME PageInv, NEW f \in FakeModes, Click(f)
  PROVE  PageInv'
<1>1. PICK k : k = NextChain
  OBVIOUS
<1> DEFINE link == Link("set", "sent", f, "now")
<1>2. /\ Usable /\ busy' /\ clicks' = clicks + 1 /\ chain' = [chain EXCEPT ![k] = link]
      /\ failed' = (failed /\ Working # {})
      /\ UNCHANGED <<mode, fakeMode, destroyed, dmode, dspin>>
  BY <1>1 DEF Click, device
<1>3. link \in Links /\ link.at = "set" /\ link.net = "sent"
  BY SentIs
<1> HIDE DEF link
<1>4. Proper(link) /\ link # Unused
  BY <1>3, UnusedIs DEF Proper, Waiting
<1>5. k \in Chains /\ chain'[k] = link
  BY <1>1, <1>2, PresentationAssumption DEF PageInv, PageTypes, Chains, NextChain, Usable
<1>6. Right(chain[k])'
  BY <1>3, <1>5 DEF Right, Mending
<1> QED BY <1>1, <1>2, <1>3, <1>4, <1>6, Clicked

LEMMA PickColorStep == PageInv /\ PickColor => PageInv'
<1> SUFFICES ASSUME PageInv, PickColor PROVE PageInv'
  OBVIOUS
<1>1. PICK k : k = NextChain
  OBVIOUS
<1> DEFINE link == Link("pick", "sent", 0, "never")
<1>2. /\ Usable /\ busy' /\ clicks' = clicks + 1 /\ chain' = [chain EXCEPT ![k] = link]
      /\ UNCHANGED <<mode, fakeMode, destroyed, dmode, dspin, failed>>
  BY <1>1 DEF PickColor, device
<1>3. link \in Links /\ link.at = "pick" /\ link.net = "sent"
  BY SentIs DEF FakeModes
<1> HIDE DEF link
<1>4. Proper(link) /\ link # Unused
  BY <1>3, UnusedIs DEF Proper, Waiting
<1>5. k \in Chains /\ chain'[k] = link
  BY <1>1, <1>2, PresentationAssumption DEF PageInv, PageTypes, Chains, NextChain, Usable
<1>6. Accurate => Right(chain[k])'
  BY <1>2, <1>3, <1>5 DEF Right, Mending, Accurate
<1> QED BY <1>1, <1>2, <1>3, <1>4, <1>6, Clicked

LEMMA PageUnchanged ==
  PageInv /\ UNCHANGED <<mode, fakeMode, busy, dmode, dspin, chain, clicks, failed>>
          /\ (destroyed => destroyed')
  => PageInv'
BY DEF PageInv, PageTypes, Alone, Agree, Working, Right, Accurate

LEMMA PageStep == PageInv /\ PageNext => PageInv'
<1> SUFFICES ASSUME PageInv, PageNext PROVE PageInv'
  OBVIOUS
<1>1. ASSUME NEW c \in Chains, ChainStep(c) PROVE PageInv'
  BY <1>1, ExecuteStep, UnreachableStep, GotStep, GotSpinStep, ResumeStep, RetryLaterStep,
     RetryStep, GiveUpStep, SetColorStep, ChangedStep, ChangeFailsStep, SpinSetStep,
     PickedStep, Zenon DEF ChainStep
<1>2. CASE User
  BY <1>2, ClickStep, PickColorStep, Zenon DEF User
<1>3. CASE Way \/ Destroy
  BY <1>3, PageUnchanged DEF Way, Destroy, state, device
<1> QED BY <1>1, <1>2, <1>3, Zenon DEF PageNext, PageGoesOn

LEMMA BrowserStep == PageInv /\ [BrowserNext]_browser => PageInv'
<1>1. PageInv /\ UNCHANGED page => PageInv'
  BY PageUnchanged DEF page
<1> QED BY <1>1, PageStep, Zenon DEF BrowserNext, OnPresentation, OnStatistics, browser

LEMMA AlwaysPageInv == BrowserInit /\ [][BrowserNext]_browser => []PageInv
BY InitPage, BrowserStep, PTL

\* An idle page shows what the device does, for any number of clicks, retries and lost
\* answers, unless a click failed - and does so again once one succeeds that was made
\* when nothing was left of those before.
THEOREM ShowsTheDevice == BrowserSpec => []ShowsWhatIsSet
<1>1. PageInv => ShowsWhatIsSet
  BY DEF PageInv, Alone, Accurate, ShowsWhatIsSet
<1> QED BY <1>1, AlwaysPageInv, PTL DEF BrowserSpec

\* Whatever fails, and however chains of several clicks overtake each other, the choice
\* marked on an idle page is one of the mode whose controls are shown.
THEOREM ChoiceIsOfTheMode == BrowserSpec => []ControlsAgree
<1>1. PageInv => ControlsAgree
  <2> SUFFICES ASSUME PageInv, Working = {}, ~ destroyed PROVE Agree
    BY DEF ControlsAgree, Agree
  <2>1. \A c \in Chains : chain[c].at \notin Mending
    BY UnusedIs DEF Working, Mending
  <2> QED BY <2>1 DEF PageInv
<1> QED BY <1>1, AlwaysPageInv, PTL DEF BrowserSpec

-----------------------------------------------------------------------------
(* The page of the statistics *)

\* Induction, as a fact about a set: for the provers take no predicate for an argument.
LEMMA SetInduction ==
  ASSUME NEW T, 0 \in T, \A n \in Nat : n \in T => n + 1 \in T
  PROVE  Nat \subseteq T
<1> SUFFICES ASSUME Nat \ T # {}
             PROVE  FALSE
  OBVIOUS
<1> DEFINE Below == OpToRel(<, Nat)
<1>1. IsWellFoundedOn(Below, Nat)
  BY NatLessThanWellFounded
<1>2. \A k, n \in Nat : k < n => <<k, n>> \in Below
  BY DEF OpToRel
<1> HIDE DEF Below
<1>3. PICK n \in Nat \ T : \A k \in Nat \ T : <<k, n>> \notin Below
  <2>1. Nat \ T \subseteq Nat
    OBVIOUS
  <2> QED BY <1>1, <2>1, WFMin, Zenon
<1>4. n # 0 /\ n - 1 \in Nat
  BY <1>3
<1>5. n - 1 \in T
  <2>1. n - 1 < n /\ n \in Nat
    BY <1>4
  <2>2. <<n - 1, n>> \in Below
    BY <1>2, <1>4, <2>1
  <2> QED BY <1>3, <1>4, <2>2
<1> QED BY <1>3, <1>4, <1>5

LEMMA MinIs == ASSUME NEW I \in SUBSET Nat, I # {} PROVE Min(I) \in I
<1>1. \E n \in I : \A m \in I : n <= m
  <2> SUFFICES ASSUME \A n \in I : \E m \in I : m < n
               PROVE  FALSE
    BY SMT
  <2> DEFINE T == {n \in Nat : \A m \in I : n <= m}
  <2>1. 0 \in T
    OBVIOUS
  <2>2. \A n \in Nat : n \in T => n + 1 \in T
    <3> SUFFICES ASSUME NEW n \in Nat, \A m \in I : n <= m, NEW k \in I
                 PROVE  n + 1 <= k
      OBVIOUS
    <3>1. PICK m \in I : m < k
      OBVIOUS
    <3> QED BY <3>1
  <2> HIDE DEF T
  <2>3. Nat \subseteq T
    BY <2>1, <2>2, SetInduction
  <2>4. PICK k \in I : TRUE
    OBVIOUS
  <2>5. k + 1 \in T
    BY <2>3
  <2> QED BY <2>5 DEF T
<1> QED BY <1>1, Zenon DEF Min

LEMMA InsertIs ==
  ASSUME NEW T, NEW s \in Seq(T), NEW e \in T
  PROVE  \A i \in 1..(Len(s) + 1) :
           /\ InsertAt(s, i, e) \in Seq(T) /\ Len(InsertAt(s, i, e)) = Len(s) + 1
           /\ \A j \in 1..(Len(s) + 1) :
                InsertAt(s, i, e)[j] = IF j < i THEN s[j] ELSE IF j = i THEN e ELSE s[j - 1]
<1> TAKE i \in 1..(Len(s) + 1)
<1> DEFINE before == SubSeq(s, 1, i - 1)
           after  == SubSeq(s, i, Len(s))
<1>1. /\ before \in Seq(T) /\ Len(before) = i - 1
      /\ \A j \in 1..(i - 1) : before[j] = s[j]
  <2>1. \A j \in 1..(i - 1) : s[j] \in T
    OBVIOUS
  <2> QED BY <2>1, SubSeqProperties
<1>2. /\ after \in Seq(T) /\ Len(after) = Len(s) + 1 - i
      /\ \A j \in 1..(Len(s) + 1 - i) : after[j] = s[i + j - 1]
  <2>1. \A j \in i..Len(s) : s[j] \in T
    OBVIOUS
  <2> QED BY <2>1, SubSeqProperties
<1>3. InsertAt(s, i, e) = before \o <<e>> \o after
  BY DEF InsertAt
<1> HIDE DEF before, after
<1>4. <<e>> \in Seq(T) /\ Len(<<e>>) = 1 /\ <<e>>[1] = e
  OBVIOUS
<1>5. /\ before \o <<e>> \in Seq(T) /\ Len(before \o <<e>>) = i
      /\ \A j \in 1..i : (before \o <<e>>)[j] = IF j < i THEN s[j] ELSE e
  BY <1>1, <1>4, ConcatProperties
<1>6. /\ before \o <<e>> \o after \in Seq(T) /\ Len(before \o <<e>> \o after) = Len(s) + 1
      /\ \A j \in 1..(Len(s) + 1) :
           (before \o <<e>> \o after)[j] = IF j <= i THEN (before \o <<e>>)[j] ELSE after[j - i]
  <2> DEFINE front == before \o <<e>>
  <2>1. front \in Seq(T) /\ Len(front) = i
    BY <1>5
  <2> HIDE DEF front
  <2>2. /\ front \o after \in Seq(T) /\ Len(front \o after) = Len(front) + Len(after)
        /\ \A j \in 1..(Len(front) + Len(after)) :
             (front \o after)[j] = IF j <= Len(front) THEN front[j] ELSE after[j - Len(front)]
    BY <1>2, <2>1, ConcatProperties
  <2>3. Len(front) + Len(after) = Len(s) + 1
    BY <1>2, <2>1
  <2> QED BY <2>1, <2>2, <2>3 DEF front
<1>7. \A j \in (i + 1)..(Len(s) + 1) : after[j - i] = s[j - 1]
  BY <1>2
<1> QED BY <1>3, <1>5, <1>6, <1>7

\* The elements of a sequence.
LEMMA ToSetIs == ASSUME NEW T, NEW s \in Seq(T) PROVE ToSet(s) = {s[j] : j \in 1..Len(s)}
BY DEF ToSet

\* Wherever a point is put, nothing else is lost, and nothing is there twice.
LEMMA AddIs ==
  ASSUME NEW T, NEW s \in Seq(T), NEW e \in T, IsInjective(s)
  PROVE  /\ Add(s, e) \in Seq(T) /\ IsInjective(Add(s, e))
         /\ ToSet(Add(s, e)) = ToSet(s) \cup {e}
<1>1. CASE Contains(s, e)
  BY <1>1 DEF Add, Contains, ToSet
<1>2. CASE ~ Contains(s, e)
  <2>0. \A i \in 1..(Len(s) + 1) :
          /\ InsertAt(s, i, e) \in Seq(T) /\ Len(InsertAt(s, i, e)) = Len(s) + 1
          /\ \A j \in 1..(Len(s) + 1) :
               InsertAt(s, i, e)[j] = IF j < i THEN s[j] ELSE IF j = i THEN e ELSE s[j - 1]
    BY InsertIs
  <2>1. PICK i \in 1..(Len(s) + 1) : Add(s, e) = InsertAt(s, i, e)
    <3>1. CASE s = <<>>
      <4>1. Add(s, e) = <<e>>
        BY <1>2, <3>1 DEF Add
      <4>2. /\ InsertAt(s, 1, e) \in Seq(T) /\ Len(InsertAt(s, 1, e)) = 1
            /\ InsertAt(s, 1, e)[1] = e
        <5>1. Len(s) = 0 /\ 1 \in 1..(Len(s) + 1)
          BY <3>1
        <5> QED BY <2>0, <5>1
      <4>3. <<e>> \in Seq(T) /\ Len(<<e>>) = 1 /\ <<e>>[1] = e
        OBVIOUS
      <4>4. InsertAt(s, 1, e) = <<e>>
        BY <4>2, <4>3, SeqEqual
      <4> QED BY <3>1, <4>1, <4>4
    <3>2. CASE s # <<>>
      <4> DEFINE later == {j \in 1..Len(s) : Timestamp(s[j]) > Timestamp(e)}
      <4>1. FindLater(s, e) = IF later # {} THEN Min(later) ELSE 0
        BY DEF FindLater, SelectInSeq
      <4>2. later # {} => Min(later) \in 1..Len(s)
        <5>1. later \in SUBSET Nat /\ later \subseteq 1..Len(s)
          OBVIOUS
        <5> HIDE DEF later
        <5> QED BY <5>1, MinIs
      <4> HIDE DEF later
      <4>3. Add(s, e) = InsertAt(s, IF FindLater(s, e) = 0 THEN 1 ELSE FindLater(s, e), e)
        BY <1>2, <3>2 DEF Add, Append1
      <4>4. (IF FindLater(s, e) = 0 THEN 1 ELSE FindLater(s, e)) \in 1..(Len(s) + 1)
        BY <4>1, <4>2
      <4> QED BY <4>3, <4>4
    <3> QED BY <3>1, <3>2
  <2> DEFINE new == Add(s, e)
  <2>2. /\ new \in Seq(T) /\ Len(new) = Len(s) + 1
        /\ \A j \in 1..(Len(s) + 1) :
             new[j] = IF j < i THEN s[j] ELSE IF j = i THEN e ELSE s[j - 1]
    <3>1. /\ InsertAt(s, i, e) \in Seq(T) /\ Len(InsertAt(s, i, e)) = Len(s) + 1
          /\ \A j \in 1..(Len(s) + 1) :
               InsertAt(s, i, e)[j] = IF j < i THEN s[j] ELSE IF j = i THEN e ELSE s[j - 1]
      BY <2>0
    <3>2. new = InsertAt(s, i, e)
      BY <2>1
    <3> HIDE DEF new
    <3> QED BY <3>1, <3>2
  <2> HIDE DEF new
  <2>3. \A j \in 1..Len(s) : s[j] # e
    BY <1>2 DEF Contains
  <2>4. ASSUME NEW j \in 1..(Len(s) + 1), NEW k \in 1..(Len(s) + 1), new[j] = new[k]
        PROVE  j = k
    <3> DEFINE old(m) == IF m < i THEN m ELSE m - 1
    <3>1. \A m \in 1..(Len(s) + 1) : m # i => old(m) \in 1..Len(s) /\ new[m] = s[old(m)]
      BY <2>2
    <3>2. \A m, n \in 1..Len(s) : s[m] = s[n] => m = n
      BY DEF IsInjective
    <3>3. j = i <=> k = i
      BY <2>2, <2>3, <2>4, <3>1
    <3>4. CASE j # i /\ k # i
      <4>1. old(j) = old(k)
        BY <2>4, <3>1, <3>2, <3>4
      <4> QED BY <3>4, <4>1
    <3> QED BY <3>3, <3>4
  <2>5. IsInjective(new)
    BY <2>2, <2>4 DEF IsInjective
  <2>6. ToSet(new) = ToSet(s) \cup {e}
    <3>1. ToSet(new) = {new[j] : j \in 1..(Len(s) + 1)} /\ ToSet(s) = {s[j] : j \in 1..Len(s)}
      <4>1. ToSet(new) = {new[j] : j \in 1..Len(new)}
        BY <2>2, ToSetIs
      <4> QED BY <2>2, <4>1, ToSetIs
    <3>2. \A j \in 1..(Len(s) + 1) : new[j] = e \/ \E k \in 1..Len(s) : new[j] = s[k]
      BY <2>2
    <3>3. new[i] = e
      BY <2>2
    <3>4. ASSUME NEW k \in 1..Len(s) PROVE \E j \in 1..(Len(s) + 1) : new[j] = s[k]
      <4>1. CASE k < i
        BY <2>2, <4>1
      <4>2. CASE k >= i
        <5>1. k + 1 \in 1..(Len(s) + 1) /\ ~ k + 1 < i /\ k + 1 # i /\ k + 1 - 1 = k
          BY <4>2
        <5>2. new[k + 1] = s[k]
          BY <2>2, <5>1
        <5> QED BY <5>1, <5>2
      <4> QED BY <4>1, <4>2
    <3> QED BY <3>1, <3>2, <3>3, <3>4
  <2> QED BY <2>2, <2>5, <2>6 DEF new
<1> QED BY <1>1, <1>2

\* What an answer draws: each of its points, once.
LEMMA FillIs ==
  ASSUME NEW T, NEW points \in Seq(T)
  PROVE  IsInjective(Fill(points)) /\ ToSet(Fill(points)) = ToSet(points)
<1> DEFINE n == Len(points)
           added == CHOOSE added : added = [k \in 0..Len(points) |->
                      IF k = 0 THEN <<>> ELSE Add(added[k - 1], points[k])]
           first(k) == {points[j] : j \in 1..k}
           Fine == {k \in Nat : k <= n => /\ added[k] \in Seq(T) /\ IsInjective(added[k])
                                          /\ ToSet(added[k]) = first(k)}
<1>1. Fill(points) = added[n]
  BY Zenon DEF Fill, AddAll
<1>2. n \in Nat /\ \A k \in 1..n : points[k] \in T
  OBVIOUS
<1>3. added = [k \in 0..n |-> IF k = 0 THEN <<>> ELSE Add(added[k - 1], points[k])]
  <2> DEFINE Upto(f, m) == f = [k \in 0..m |-> IF k = 0 THEN <<>> ELSE Add(f[k - 1], points[k])]
             There == {m \in Nat : \E f : Upto(f, m)}
  <2>1. 0 \in There
    <3>1. Upto([k \in 0..0 |-> <<>>], 0)
      OBVIOUS
    <3> QED BY <3>1
  <2>2. ASSUME NEW m \in Nat, NEW f, Upto(f, m)
        PROVE  \E g : Upto(g, m + 1)
    <3> DEFINE g == [k \in 0..(m + 1) |-> IF k = m + 1 THEN Add(f[m], points[m + 1]) ELSE f[k]]
    <3>1. ASSUME NEW k \in 0..(m + 1)
          PROVE  g[k] = IF k = 0 THEN <<>> ELSE Add(g[k - 1], points[k])
      <4>1. CASE k = m + 1
        <5>1. g[k] = Add(f[m], points[k]) /\ k - 1 = m /\ k # 0
          BY <4>1
        <5>2. g[m] = f[m]
          OBVIOUS
        <5> QED BY <5>1, <5>2
      <4>2. CASE k # m + 1
        <5>1. k \in 0..m /\ g[k] = f[k]
          BY <4>2
        <5>2. f[k] = IF k = 0 THEN <<>> ELSE Add(f[k - 1], points[k])
          BY <2>2, <5>1
        <5>3. k # 0 => g[k - 1] = f[k - 1]
          BY <5>1
        <5> QED BY <5>1, <5>2, <5>3
      <4> QED BY <4>1, <4>2
    <3>2. g = [k \in 0..(m + 1) |-> g[k]]
      OBVIOUS
    <3> HIDE DEF g
    <3>3. g = [k \in 0..(m + 1) |-> IF k = 0 THEN <<>> ELSE Add(g[k - 1], points[k])]
      BY <3>1, <3>2
    <3> QED BY <3>3
  <2>3. Nat \subseteq There
    <3>1. \A m \in Nat : m \in There => m + 1 \in There
      <4>1. \A m \in Nat : m + 1 \in Nat
        OBVIOUS
      <4> HIDE DEF Upto
      <4> QED BY <2>2, <4>1, Zenon
    <3> HIDE DEF There
    <3> QED BY <2>1, <3>1, SetInduction
  <2>4. PICK f : f = [k \in 0..n |-> IF k = 0 THEN <<>> ELSE Add(f[k - 1], points[k])]
    BY <1>2, <2>3
  <2> QED BY <2>4, Zenon
<1> HIDE DEF added
<1>4. 0 \in Fine
  <2>1. added[0] = <<>>
    BY <1>2, <1>3
  <2>2. <<>> \in Seq(T) /\ IsInjective(<<>>) /\ ToSet(<<>>) = {}
    BY DEF IsInjective, ToSet
  <2>3. first(0) = {}
    OBVIOUS
  <2> QED BY <2>1, <2>2, <2>3
<1>5. ASSUME NEW k \in Nat, k \in Fine, k + 1 <= n
      PROVE  /\ added[k + 1] \in Seq(T) /\ IsInjective(added[k + 1])
             /\ ToSet(added[k + 1]) = first(k + 1)
  <2>1. k <= n /\ k + 1 \in 0..n /\ k + 1 # 0 /\ k + 1 - 1 = k /\ points[k + 1] \in T
    BY <1>2, <1>5
  <2>2. added[k] \in Seq(T) /\ IsInjective(added[k]) /\ ToSet(added[k]) = first(k)
    BY <1>5, <2>1
  <2>3. added[k + 1] = Add(added[k], points[k + 1])
    BY <1>3, <2>1
  <2>4. first(k + 1) = first(k) \cup {points[k + 1]}
    OBVIOUS
  <2> HIDE DEF first
  <2>5. /\ Add(added[k], points[k + 1]) \in Seq(T) /\ IsInjective(Add(added[k], points[k + 1]))
        /\ ToSet(Add(added[k], points[k + 1])) = ToSet(added[k]) \cup {points[k + 1]}
    <3>1. ASSUME NEW r \in Seq(T), NEW e \in T, IsInjective(r)
          PROVE  /\ Add(r, e) \in Seq(T) /\ IsInjective(Add(r, e))
                 /\ ToSet(Add(r, e)) = ToSet(r) \cup {e}
      BY <3>1, AddIs
    <3> HIDE DEF n, Fine
    <3> QED BY <2>1, <2>2, <3>1, Zenon
  <2> QED BY <2>2, <2>3, <2>4, <2>5, Zenon
<1>6. Nat \subseteq Fine
  <2>1. \A k \in Nat : k \in Fine => k + 1 \in Fine
    <3>1. \A k \in Nat : k + 1 \in Nat
      OBVIOUS
    <3> HIDE DEF first, n
    <3> QED BY <1>5, <3>1, Zenon
  <2> HIDE DEF Fine
  <2> QED BY <1>4, <2>1, SetInduction
<1>7. IsInjective(added[n]) /\ ToSet(added[n]) = first(n)
  <2> HIDE DEF first, n, Fine
  <2>1. n \in Fine /\ n <= n
    BY <1>2, <1>6
  <2> QED BY <2>1, Zenon DEF Fine
<1>8. first(n) = ToSet(points)
  BY DEF ToSet
<1> QED BY <1>1, <1>7, <1>8

Fetches == {Done} \cup (Selections \X (0..4))

\* Each update is due to a change, or to the page itself.
StatsTypes == /\ selected \in Selections \cup {0}
              /\ changes \in 0..MaxSelects /\ updates \in Nat
              /\ updates <= IF due THEN changes ELSE changes + 1
              /\ fetch \in [Updates -> Fetches]
              /\ \A u \in Updates : u > updates => fetch[u] = Done

Charts == {Fill(Points(s, interval, a)) : s \in Selections, interval \in 0..4, a \in Answers}
ChartsOf(s) == {Fill(Points(s, interval, a)) : interval \in 0..4, a \in Answers}

\* Unless an older one overtook it, what is drawn is of the newest update, or that is
\* still to be answered.
InTurn == /\ from \in 0..updates
          /\ late \/ from = updates \/ (updates \in Updates /\ fetch[updates] # Done)

\* Unless the timer runs, the newest update is of what is selected.
UpToDate == \/ due
            \/ /\ updates \in Updates
               /\ fetch[updates] # Done => fetch[updates][1] = selected
               /\ from = updates => flotData \in {<<>>} \cup ChartsOf(selected)

StatsInv == StatsTypes /\ InTurn /\ UpToDate /\ flotData \in {<<>>} \cup Charts

LEMMA FetchIs ==
  ASSUME NEW s, NEW interval
  PROVE  <<s, interval>> # Done /\ <<s, interval>>[1] = s /\ <<s, interval>>[2] = interval
BY DEF Done

LEMMA NextFetchIs ==
  ASSUME NEW s \in Selections, NEW interval \in 0..4, NEW n
  PROVE  /\ NextFetch(s, interval, n) \in Fetches
         /\ NextFetch(s, interval, n) # Done => NextFetch(s, interval, n)[1] = s
<1>1. interval > 0 => interval - 1 \in 0..4
  OBVIOUS
<1> QED BY <1>1, FetchIs DEF NextFetch, Fetches

LEMMA StatsInitInv == StatsInit => StatsInv
<1> SUFFICES ASSUME StatsInit PROVE StatsInv
  OBVIOUS
<1>1. /\ selected = 0 /\ changes = 0 /\ due /\ updates = 0 /\ fetch = [u \in Updates |-> Done]
      /\ flotData = <<>> /\ from = 0
  BY DEF StatsInit
<1>2. MaxSelects \in Nat
  BY StatisticsAssumption
<1>3. StatsTypes
  BY <1>1, <1>2 DEF StatsTypes, Fetches
<1> QED BY <1>1, <1>3 DEF StatsInv, InTurn, UpToDate

LEMMA SelectStep == ASSUME StatsInv, NEW s \in Selections \cup {0}, Select(s) PROVE StatsInv'
<1>1. /\ changes < MaxSelects /\ selected' = s /\ changes' = changes + 1 /\ due'
      /\ UNCHANGED <<updates, fetch, flotData, from, late>>
  BY DEF Select
<1>2. StatsTypes'
  BY <1>1, StatisticsAssumption DEF StatsInv, StatsTypes
<1> QED BY <1>1, <1>2 DEF StatsInv, InTurn, UpToDate, Charts

LEMMA UpdateStep == StatsInv /\ Update => StatsInv'
<1> SUFFICES ASSUME StatsInv, Update PROVE StatsInv'
  OBVIOUS
<1>1. due /\ ~ due' /\ updates' = updates + 1 /\ UNCHANGED <<selected, changes>>
  BY DEF Update
<1>2. StatsTypes /\ MaxSelects \in Nat
  BY StatisticsAssumption DEF StatsInv
<1>3. updates' \in Updates /\ fetch[updates'] = Done /\ updates \in Nat
  BY <1>1, <1>2 DEF StatsTypes, Updates
<1>4. CASE selected = 0
  <2>1. flotData' = <<>> /\ from' = updates' /\ UNCHANGED fetch
    BY <1>4 DEF Update, Show
  <2>2. StatsTypes'
    BY <1>1, <1>2, <2>1 DEF StatsTypes
  <2> QED BY <1>1, <1>3, <2>1, <2>2 DEF StatsInv, InTurn, UpToDate
<1>5. CASE selected # 0
  <2> DEFINE new == <<selected, Match[selected]>>
  <2>1. fetch' = [fetch EXCEPT ![updates'] = new] /\ UNCHANGED <<flotData, from, late>>
    BY <1>5, Zenon DEF Update
  <2>2. new \in Fetches /\ new # Done /\ new[1] = selected
    BY <1>2, <1>5, FetchIs, StatisticsAssumption DEF StatsTypes, Fetches
  <2> HIDE DEF new
  <2>3. /\ fetch'[updates'] = new /\ fetch' \in [Updates -> Fetches]
        /\ \A u \in Updates : u # updates' => fetch'[u] = fetch[u]
    BY <1>2, <1>3, <2>1, <2>2 DEF StatsTypes
  <2>4. StatsTypes'
    BY <1>1, <1>2, <1>3, <2>3 DEF StatsTypes, Updates
  <2>5. from \in 0..updates /\ from' = from
    BY <2>1 DEF StatsInv, InTurn
  <2>6. InTurn'
    BY <1>1, <1>3, <2>2, <2>3, <2>5 DEF InTurn
  <2>7. UpToDate'
    BY <1>1, <1>3, <2>2, <2>3, <2>5 DEF UpToDate
  <2> QED BY <2>1, <2>4, <2>6, <2>7 DEF StatsInv, Charts
<1> QED BY <1>4, <1>5

\* The step of an update whose answer has n points; what it may draw is of its selection.
LEMMA GoStep ==
  ASSUME StatsInv, NEW u \in Updates, fetch[u] # Done, NEW n, NEW points, Go(u, n, points),
         points \in {<<>>} \cup ChartsOf(fetch[u][1])
  PROVE  StatsInv'
<1>1. StatsTypes /\ InTurn /\ UpToDate
  BY DEF StatsInv
<1>2. fetch[u] \in Selections \X (0..4) /\ updates \in Nat /\ u \in Nat /\ u <= updates
  BY <1>1 DEF StatsTypes, Fetches, Updates
<1> DEFINE s == fetch[u][1]
           next == NextFetch(fetch[u][1], fetch[u][2], n)
<1>3. s \in Selections /\ fetch[u][2] \in 0..4
  BY <1>2
<1>4. fetch' = [fetch EXCEPT ![u] = next] /\ UNCHANGED <<selected, changes, due, updates>>
  BY Zenon DEF Go
<1>5. next \in Fetches /\ (next # Done => next[1] = s)
  BY <1>3, NextFetchIs
<1> HIDE DEF next
<1>6. /\ fetch'[u] = next /\ fetch' \in [Updates -> Fetches]
      /\ \A v \in Updates : v # u => fetch'[v] = fetch[v]
  BY <1>1, <1>4, <1>5 DEF StatsTypes
<1>7. StatsTypes'
  BY <1>1, <1>2, <1>4, <1>6 DEF StatsTypes
<1>8. CASE next = Done
  <2>1. flotData' = points /\ from' = u /\ (late \/ u < from => late')
    <3>1. Show(u, points)
      BY <1>6, <1>8, Zenon DEF Go, ShowResult
    <3> QED BY <3>1, Zenon DEF Show
  <2>2. ChartsOf(s) \subseteq Charts
    BY <1>3 DEF ChartsOf, Charts
  <2>3. flotData' \in {<<>>} \cup Charts'
    BY <2>1, <2>2 DEF Charts
  <2>4. InTurn'
    <3>1. CASE u = updates
      BY <1>2, <1>4, <2>1, <3>1 DEF InTurn
    <3>2. CASE u # updates /\ ~ late'
      <4>1. ~ late /\ ~ u < from
        BY <2>1, <3>2, Zenon
      <4>2. from # updates
        BY <1>2, <3>2, <4>1
      <4>3. updates \in Updates /\ fetch[updates] # Done
        BY <1>1, <4>1, <4>2, Zenon DEF InTurn
      <4>4. fetch'[updates'] # Done
        BY <1>4, <1>6, <3>2, <4>3
      <4> QED BY <1>2, <1>4, <2>1, <4>3, <4>4 DEF InTurn
    <3>3. CASE u # updates /\ late'
      BY <1>2, <1>4, <2>1, <3>3 DEF InTurn
    <3> QED BY <3>1, <3>2, <3>3
  <2>5. UpToDate'
    <3>1. CASE due
      BY <1>4, <3>1 DEF UpToDate
    <3>2. CASE ~ due /\ u = updates
      BY <1>1, <1>2, <1>4, <1>6, <1>8, <2>1, <3>2 DEF UpToDate, ChartsOf
    <3>3. CASE ~ due /\ u # updates
      BY <1>1, <1>2, <1>4, <1>6, <2>1, <3>3 DEF UpToDate
    <3> QED BY <3>1, <3>2, <3>3
  <2> QED BY <1>7, <2>3, <2>4, <2>5 DEF StatsInv
<1>9. CASE next # Done
  <2>1. UNCHANGED <<flotData, from, late>>
    BY <1>6, <1>9 DEF Go
  <2>2. InTurn'
    BY <1>1, <1>4, <1>6, <1>9, <2>1 DEF InTurn
  <2>3. UpToDate'
    BY <1>1, <1>4, <1>5, <1>6, <1>9, <2>1 DEF UpToDate, ChartsOf
  <2> QED BY <1>7, <2>1, <2>2, <2>3 DEF StatsInv, Charts
<1> QED BY <1>8, <1>9

LEMMA RespondStep == ASSUME StatsInv, NEW u \in Updates, Respond(u) PROVE StatsInv'
<1>1. CASE Failed(u)
  BY <1>1, GoStep, Zenon DEF Failed
<1>2. ASSUME NEW a \in Answers, Answered(u, a)
      PROVE  StatsInv'
  <2>1. /\ fetch[u] # Done /\ Go(u, Len(data'), data')
        /\ data' = Fill(Points(fetch[u][1], fetch[u][2], a))
    BY <1>2, Zenon DEF Answered
  <2>2. fetch[u][2] \in 0..4
    BY <2>1 DEF StatsInv, StatsTypes, Fetches
  <2>3. data' \in ChartsOf(fetch[u][1])
    BY <2>1, <2>2 DEF ChartsOf
  <2> QED BY <2>1, <2>3, GoStep
<1> QED BY <1>1, <1>2, Zenon DEF Respond

LEMMA StatsStep == StatsInv /\ [StatsNext]_stats => StatsInv'
<1>1. ASSUME StatsInv, UNCHANGED stats
      PROVE  StatsInv'
  BY <1>1 DEF stats, StatsInv, StatsTypes, InTurn, UpToDate, Charts, ChartsOf
<1> QED BY <1>1, SelectStep, UpdateStep, RespondStep, Zenon DEF StatsNext, StatsGoOn

LEMMA ChartIs ==
  ASSUME NEW s, NEW interval, NEW a \in Answers
  PROVE  /\ IsInjective(Fill(Points(s, interval, a)))
         /\ ToSet(Fill(Points(s, interval, a))) = ToSet(Points(s, interval, a))
         /\ \A p \in ToSet(Points(s, interval, a)) : p[1] = s
<1>1. a \in Seq(Nat \X Nat)
  BY StatisticsAssumption
<1> DEFINE T == {<<s, interval, item>> : item \in Nat \X Nat}
<1>2. Points(s, interval, a) \in Seq(T)
  <2>1. \A i \in 1..Len(a) : <<s, interval, a[i]>> \in T
    BY <1>1
  <2>2. Points(s, interval, a) = [i \in 1..Len(a) |-> <<s, interval, a[i]>>]
    BY <1>1 DEF Points
  <2>3. Len(a) \in Nat
    BY <1>1
  <2> HIDE DEF T
  <2> QED BY <2>1, <2>2, <2>3, IsASeq
<1>3. \A p \in ToSet(Points(s, interval, a)) : p[1] = s
  BY DEF ToSet, Points
<1> HIDE DEF T
<1> QED BY <1>2, <1>3, FillIs

\* What StatsInv says of the page.
LEMMA StatsInvShows == StatsInv => DrawsOneAnswer /\ DrawsSelected
<1> SUFFICES ASSUME StatsInv
             PROVE  DrawsOneAnswer /\ DrawsSelected
  OBVIOUS
<1>1. DrawsOneAnswer
  <2>1. CASE flotData = <<>>
    BY <2>1, Zenon DEF DrawsOneAnswer
  <2>2. CASE flotData # <<>>
    <3>1. PICK s \in Selections, interval \in 0..4, a \in Answers :
            flotData = Fill(Points(s, interval, a))
      BY <2>2 DEF StatsInv, Charts
    <3> QED BY <3>1, ChartIs, Zenon DEF DrawsOneAnswer
  <2> QED BY <2>1, <2>2
<1>2. DrawsSelected
  <2> SUFFICES ASSUME ~ due, \A u \in Updates : fetch[u] = Done, ~ late
               PROVE  from = updates /\ \A i \in DOMAIN flotData : flotData[i][1] = selected
    BY DEF DrawsSelected
  <2>1. from = updates /\ flotData \in {<<>>} \cup ChartsOf(selected)
    BY DEF StatsInv, InTurn, UpToDate
  <2>2. CASE flotData = <<>>
    BY <2>1, <2>2
  <2>3. CASE flotData \in ChartsOf(selected)
    <3>1. PICK interval \in 0..4, a \in Answers : flotData = Fill(Points(selected, interval, a))
      BY <2>3 DEF ChartsOf
    <3>2. \A p \in ToSet(flotData) : p[1] = selected
      BY <3>1, ChartIs
    <3> QED BY <2>1, <3>2 DEF ToSet
  <2> QED BY <2>1, <2>2, <2>3
<1> QED BY <1>1, <1>2

LEMMA AlwaysStatsInv == BrowserInit /\ [][BrowserNext]_browser => []StatsInv
<1>1. BrowserInit => StatsInv
  BY StatsInitInv, Zenon DEF BrowserInit, OpenPresentation, OpenStatistics
<1>2. StatsInv /\ [BrowserNext]_browser => StatsInv'
  <2>1. [BrowserNext]_browser => [StatsNext]_stats
    BY Zenon DEF BrowserNext, OnPresentation, OnStatistics, browser
  <2> QED BY <2>1, StatsStep
<1> QED BY <1>1, <1>2, PTL

\* The chart is one answer, whole and without repetition, to what was selected at one
\* time: fetches of several updates fill the one @flot of stats-svc.coffee without mixing,
\* and Flot.add keeps what it gets, in whatever order.
THEOREM ChartIsOneAnswer == BrowserSpec => []DrawsOneAnswer
BY StatsInvShows, AlwaysStatsInv, PTL DEF BrowserSpec

\* The chart comes to be of the last selection, unless an answer to an older update
\* overtook one to a newer: nothing in stats-ctrl.coffee discards it.
THEOREM ChartIsOfSelection == BrowserSpec => []DrawsSelected
BY StatsInvShows, AlwaysStatsInv, PTL DEF BrowserSpec
=============================================================================
