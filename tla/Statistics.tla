------------------------------- MODULE Statistics -------------------------------
(***************************************************************************)
(* frontend/src/coffee/stats-ctrl.coffee, stats-svc.coffee and             *)
(* flot-fct.coffee: the page that draws measurements.  Whenever the user   *)
(* has changed the period or the sensors it fetches points of a length of  *)
(* interval that suits the period, and of shorter intervals as long as     *)
(* there are too few.  Fetches of several updates go on at the same time,  *)
(* are answered in any order, and fill one object, @flot.                  *)
(*                                                                         *)
(* A selection is a number, 0 standing for one without sensors or with an  *)
(* empty period; there is one series.  No finder of the backend sorts, so  *)
(* an answer has its items in any order, twice perhaps, and several of one *)
(* time.  The steps that the promises of Bluebird make of one answer       *)
(* follow each other at once.                                              *)
(***************************************************************************)
EXTENDS Naturals, Sequences, SequencesExt

CONSTANTS Selections,   \* what the user may select, without 0
          Match,        \* [Selections -> 0..4]: the interval _matchInterval finds
          Answers,      \* what the backend may answer: sequences of <<timestamp, value>>
          Enough,       \* TARGET_DATA_POINTS, for one resource
          Ratio,        \* [1..4 -> Nat]: of an interval to the next shorter one
          MaxSelects    \* bound: how often the selection is changed

ASSUME StatisticsAssumption ==
  /\ Selections \subseteq Nat \ {0}
  /\ Match \in [Selections -> 0..4]
  /\ Answers \subseteq Seq(Nat \X Nat)
  /\ Enough \in Nat
  /\ Ratio \in [1..4 -> Nat]
  /\ MaxSelects \in Nat

Updates == 1..(MaxSelects + 1)

VARIABLES
  selected,   \* $scope.from, to and selectedSensors
  changes,    \* how often it was changed
  due,        \* the timer of the debounced update runs
  updates,    \* how many updates there were
  fetch,      \* of each: the selection and the interval being fetched, or Done
  data,       \* @flot.data: points <<selection, interval, item>>
  flotData,   \* $scope.flotData
  from,       \* the update flotData is of (history)
  late        \* some answer came after that to a newer update (history)

stats == <<selected, changes, due, updates, fetch, data, flotData, from, late>>

Done == <<>>

StatsInit == /\ selected = 0 /\ changes = 0
             /\ due = TRUE
             /\ updates = 0
             /\ fetch = [u \in Updates |-> Done]
             /\ data = <<>> /\ flotData = <<>>
             /\ from = 0
             /\ late = FALSE

Select(s) == /\ changes < MaxSelects /\ s # selected
             /\ selected' = s
             /\ changes' = changes + 1
             /\ due' = TRUE
             /\ UNCHANGED <<updates, fetch, data, flotData, from, late>>

Show(u, points) == /\ flotData' = points
                   /\ from' = u
                   /\ late' = (late \/ u < from)

\* $scope.update, 500 ms after the last change, and stats.get.
Update == /\ due
          /\ due' = FALSE
          /\ updates' = updates + 1
          /\ IF selected = 0
               THEN Show(updates', <<>>) /\ UNCHANGED fetch
               ELSE /\ fetch' = [fetch EXCEPT ![updates'] = <<selected, Match[selected]>>]
                    /\ UNCHANGED <<flotData, from, late>>
          /\ UNCHANGED <<selected, changes, data>>

-----------------------------------------------------------------------------
(* Flot *)

Timestamp(point) == point[3][1]
FindLater(series, point) == SelectInSeq(series, LAMBDA p : Timestamp(p) > Timestamp(point))

\* Flot._append: before the first later point, or in front if there is none.
Append1(series, point) ==
  LET i == FindLater(series, point)
  IN  InsertAt(series, IF i = 0 THEN 1 ELSE i, point)

\* Flot.add, of a point that is in the series already, of the first one, and of
\* any other.
Add(series, point) == IF Contains(series, point) THEN series
                      ELSE IF series = <<>> THEN <<point>>
                      ELSE Append1(series, point)

\* The points of an answer.
Points(s, interval, answer) == [i \in DOMAIN answer |-> <<s, interval, answer[i]>>]

\* The points are added to a series one after the other.
AddAll(series, points) ==
  LET added[n \in 0..Len(points)] == IF n = 0 THEN series ELSE Add(added[n - 1], points[n])
  IN  added[Len(points)]

\* Mutant: @flot is not emptied.
FillOnTop(points) == AddAll(data, points)

Fill(points) == AddAll(<<>>, points)

-----------------------------------------------------------------------------
(* Answers *)

\* Mutant: the length of the interval stays the same.
NextStuck(s, interval, n) ==
  IF interval > 0 /\ n < Enough /\ n * Ratio[interval] <= 2 * Enough
    THEN <<s, interval>> ELSE Done

\* _getRecursiveInterval: what is fetched next, after n points.
NextFetch(s, interval, n) ==
  IF interval > 0 /\ n < Enough /\ n * Ratio[interval] <= 2 * Enough
    THEN <<s, interval - 1>> ELSE Done

\* Mutant: what was fetched last is shown whenever it is new to the page.
ShowChanges(u, points) ==
  IF points = <<>> THEN UNCHANGED <<flotData, from, late>> ELSE Show(u, points)

ShowResult(u, points) == Show(u, points)

\* An update goes on with, or shows, n points; an error (_get catches it) is an
\* answer without points that leaves @flot alone.
Go(u, n, points) ==
  /\ fetch' = [fetch EXCEPT ![u] = NextFetch(fetch[u][1], fetch[u][2], n)]
  /\ IF fetch'[u] = Done THEN ShowResult(u, points)
                         ELSE UNCHANGED <<flotData, from, late>>
  /\ UNCHANGED <<selected, changes, due, updates>>

Answered(u, answer) == /\ fetch[u] # Done
                       /\ data' = Fill(Points(fetch[u][1], fetch[u][2], answer))
                       /\ Go(u, Len(data'), data')

Failed(u) == /\ fetch[u] # Done
             /\ Go(u, 0, <<>>)
             /\ UNCHANGED data

Respond(u) == Failed(u) \/ \E answer \in Answers : Answered(u, answer)

StatsGoOn == Update \/ \E u \in Updates : Respond(u)

StatsNext == StatsGoOn \/ \E s \in Selections \cup {0} : Select(s)

-----------------------------------------------------------------------------
(* Properties. *)

\* What is drawn is one answer, whole, and each of its points once: those of fetches
\* that are answered in between, of other selections or other intervals, are not mixed
\* with it, and wherever Flot._append puts a point it drops none.
DrawsOneAnswer ==
  \/ flotData = <<>>
  \/ /\ IsInjective(flotData)
     /\ \E s \in Selections, interval \in 0..4, answer \in Answers :
          ToSet(flotData) = ToSet(Points(s, interval, answer))

\* When all is answered the page shows what was selected last, unless an answer to
\* an earlier update came after that to a later one - nothing discards it.
DrawsSelected ==
  ~ due /\ (\A u \in Updates : fetch[u] = Done) /\ ~ late
    => from = updates /\ \A i \in DOMAIN flotData : flotData[i][1] = selected

\* As the changes do, the updates come to an end: each fetches points of shorter and
\* shorter intervals, however few there are and whatever fails.
UpdateEnds == <>[](\A u \in Updates : fetch[u] = Done)
=============================================================================
