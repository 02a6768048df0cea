--------------------------- MODULE WeatherUpdater_proofs ---------------------------
(***************************************************************************)
(* Proofs about WeatherUpdater, for every set of endpoints and cities, any *)
(* number of updates, events and faults, and every order of their steps.   *)
(*                                                                         *)
(* An update that has found its endpoint in weather mode stays right about *)
(* it until the mode is changed, and is `overtaken` from then on (Asked).  *)
(* What its chain hands from one request to the next is a city, then a     *)
(* colour (Chained).  An update that has not begun to ask, or is over, has *)
(* no request under way (Quiet).                                           *)
(***************************************************************************)
EXTENDS WeatherUpdater, TLAPS

UnderWay == {"kept", "city", "weather", "put"}

Counted == \A e \in Endpoints : \A b \in BOOLEAN : changes[e][b] <= events

Chained == \A u \in Updates, e \in Endpoints :
             /\ at[u][e] = "weather" => got[u][e] \in Cities
             /\ at[u][e] = "put" => got[u][e] \in Colours

Asked == \A u \in Updates, e \in Endpoints :
           at[u][e] \in UnderWay => e \in weatherMode \/ <<u, e>> \in overtaken

Quiet == /\ \A u \in Updates : phase[u] \in {"unused", "list", "over"} =>
              \A e \in Endpoints : at[u][e] \in {"out", "dropped", "done"}
         /\ timer = "set" => phase[Loop] \in {"unused", "over"}

WeatherInv == TypeOK /\ Counted /\ Chained /\ Asked /\ Quiet /\ IntrudesOnlyWhenOvertaken

States == {"out", "ask", "kept", "dropped", "city", "weather", "put", "done", "failed", "lost"}
Phases == {"unused", "list", "filter", "map", "over", "failed"}
Results == Cities \cup Colours \cup {Unset}

-----------------------------------------------------------------------------
\* What changing one entry of a table does.
LEMMA Nested ==
  ASSUME NEW A, NEW B, NEW C, NEW f \in [A -> [B -> C]], NEW a \in A, NEW b \in B, NEW c \in C,
         NEW g, g = [f EXCEPT ![a][b] = c]
  PROVE  /\ g \in [A -> [B -> C]]
         /\ g[a][b] = c
         /\ \A x \in A, y \in B : x # a \/ y # b => g[x][y] = f[x][y]
OBVIOUS

LEMMA InitWeather == Init => WeatherInv
<1> SUFFICES ASSUME Init PROVE WeatherInv
  OBVIOUS
<1>1. MaxEvents \in Nat /\ MaxFaults \in Nat /\ Cold \in Colours
  BY WeatherAssumption
<1>2. changes \in [Endpoints -> [BOOLEAN -> 0..MaxEvents]] /\ Counted
  <2>1. 0 \in 0..MaxEvents /\ 0 <= 0
    BY <1>1
  <2>2. changes = [e \in Endpoints |-> [isWeather \in BOOLEAN |-> 0]] /\ events = 0
    BY DEF Init
  <2> QED BY <2>1, <2>2, Zenon DEF Counted
<1>3. TypeOK
  <2>1. /\ online \in SUBSET Endpoints /\ weatherMode \in SUBSET Endpoints
        /\ shown \in [Endpoints -> Colours \cup {Users}]
        /\ city \in [Endpoints -> Cities \cup {Unset}]
        /\ weather \in [Cities -> Colours]
        /\ timer \in {"set", "running", "ended"}
    BY <1>1 DEF Init
  <2>2. /\ phase \in [Updates -> Phases]
        /\ eps \in [Updates -> SUBSET Endpoints]
        /\ at \in [Updates -> [Endpoints -> States]]
        /\ got \in [Updates -> [Endpoints -> Results]]
    BY DEF Init, Nowhere, Nothing, Phases, States, Results
  <2>3. /\ events \in 0..MaxEvents /\ faults \in 0..MaxFaults
        /\ overtaken \in SUBSET (Updates \X Endpoints) /\ intruded \in SUBSET (Updates \X Endpoints)
    BY <1>1 DEF Init
  <2> QED BY <1>2, <2>1, <2>2, <2>3 DEF TypeOK, Phases, States, Results
<1>4. \A u \in Updates, e \in Endpoints : at[u][e] = "out"
  BY DEF Init, Nowhere
<1>5. Chained /\ Asked
  BY <1>4 DEF Chained, Asked, UnderWay
<1>6. Quiet
  <2>1. phase[Loop] = "unused"
    BY <1>1 DEF Init, Loop, Updates
  <2> QED BY <1>4, <2>1 DEF Quiet
<1>7. IntrudesOnlyWhenOvertaken
  BY DEF Init, IntrudesOnlyWhenOvertaken
<1> QED BY <1>2, <1>3, <1>5, <1>6, <1>7 DEF WeatherInv

-----------------------------------------------------------------------------
(* Clients, nodes and the weather.                                           *)

\* Events leave the updates alone.
LEMMA EventKeeps ==
  ASSUME WeatherInv, Event,
         online' \in SUBSET Endpoints, weatherMode' \in SUBSET Endpoints,
         shown' \in [Endpoints -> Colours \cup {Users}],
         city' \in [Endpoints -> Cities \cup {Unset}],
         weather' \in [Cities -> Colours],
         changes' \in [Endpoints -> [BOOLEAN -> 0..MaxEvents]], Counted',
         overtaken \subseteq overtaken', overtaken' \in SUBSET (Updates \X Endpoints),
         Asked'
  PROVE  WeatherInv'
<1>1. /\ events < MaxEvents /\ events' = events + 1
      /\ UNCHANGED <<timer, phase, eps, at, got, faults, intruded>>
  BY DEF Event
<1>2. TypeOK /\ Chained /\ Quiet /\ IntrudesOnlyWhenOvertaken
  BY DEF WeatherInv
<1>3. TypeOK'
  <2>1. events' \in 0..MaxEvents
    BY <1>1, <1>2, WeatherAssumption DEF TypeOK
  <2> QED BY <1>1, <1>2, <2>1, Zenon DEF TypeOK
<1>4. Chained' /\ Quiet'
  BY <1>1, <1>2 DEF Chained, Quiet, Loop
<1>5. IntrudesOnlyWhenOvertaken'
  BY <1>1, <1>2 DEF IntrudesOnlyWhenOvertaken
<1> QED BY <1>3, <1>4, <1>5, Zenon DEF WeatherInv

\* Events other than a change of the mode.
LEMMA OtherEventKeeps ==
  ASSUME WeatherInv, Event, UNCHANGED <<weatherMode, changes, overtaken>>,
         online' \in SUBSET Endpoints,
         shown' \in [Endpoints -> Colours \cup {Users}],
         city' \in [Endpoints -> Cities \cup {Unset}],
         weather' \in [Cities -> Colours]
  PROVE  WeatherInv'
<1>1. TypeOK /\ Counted /\ Asked
  BY DEF WeatherInv
<1>2. /\ weatherMode' \in SUBSET Endpoints
      /\ changes' \in [Endpoints -> [BOOLEAN -> 0..MaxEvents]]
      /\ overtaken' \in SUBSET (Updates \X Endpoints) /\ overtaken \subseteq overtaken'
  BY <1>1, Zenon DEF TypeOK
<1>3. Asked'
  BY <1>1 DEF Asked, Event
<1>4. Counted'
  <2>1. ASSUME NEW e \in Endpoints, NEW b \in BOOLEAN
        PROVE  changes'[e][b] <= events'
    <3> DEFINE n == changes[e][b]
    <3>1. n \in 0..MaxEvents /\ n <= events
      BY <1>1, Zenon DEF TypeOK, Counted
    <3>2. changes'[e][b] = n
      BY Zenon
    <3> HIDE DEF n
    <3>3. n <= events'
      BY <1>1, <3>1, WeatherAssumption DEF Event, TypeOK
    <3> QED BY <3>2, <3>3, Zenon
  <2> QED BY <2>1, Zenon DEF Counted
<1> QED BY <1>2, <1>3, <1>4, EventKeeps, Zenon

LEMMA PutModeKeeps ==
  ASSUME WeatherInv, NEW e \in Endpoints, NEW isWeather \in BOOLEAN, PutMode(e, isWeather)
  PROVE  WeatherInv'
<1> DEFINE overtakes == {<<u, e>> : u \in {v \in Updates : at[v][e] \in UnderWay}}
<1>1. /\ Event
      /\ weatherMode' = IF isWeather THEN weatherMode \cup {e} ELSE weatherMode \ {e}
      /\ changes' = [changes EXCEPT ![e][isWeather] = @ + 1]
      /\ overtaken' = overtaken \cup overtakes
      /\ UNCHANGED <<online, shown, city, weather, at>>
  BY Zenon DEF PutMode, Event, UnderWay
<1>2. TypeOK /\ Counted /\ Asked
  BY DEF WeatherInv
<1>3. weatherMode' \in SUBSET Endpoints /\ \A d \in Endpoints : d # e => (d \in weatherMode' <=> d \in weatherMode)
  <2>1. weatherMode' = weatherMode \cup {e} \/ weatherMode' = weatherMode \ {e}
    BY <1>1, Zenon
  <2> QED BY <1>2, <2>1 DEF TypeOK
<1>4. overtaken' \in SUBSET (Updates \X Endpoints) /\ overtaken \subseteq overtaken'
  BY <1>1, <1>2 DEF TypeOK
<1>5. Asked'
  <2>1. ASSUME NEW u \in Updates, NEW d \in Endpoints, at[u][d] \in UnderWay
        PROVE  d \in weatherMode' \/ <<u, d>> \in overtaken'
    <3>1. CASE d = e
      BY <1>1, <2>1, <3>1, Zenon
    <3>2. CASE d # e
      BY <1>2, <1>3, <1>4, <2>1, <3>2 DEF Asked
    <3> QED BY <3>1, <3>2
  <2> QED BY <1>1, <2>1, Zenon DEF Asked
<1>6. changes' \in [Endpoints -> [BOOLEAN -> 0..MaxEvents]] /\ Counted'
  <2> DEFINE n == changes[e][isWeather]
  <2>1. n \in 0..MaxEvents /\ n <= events
    BY <1>2, Zenon DEF TypeOK, Counted
  <2>2. changes' = [changes EXCEPT ![e][isWeather] = n + 1]
    BY <1>1, Zenon
  <2>3. changes \in [Endpoints -> [BOOLEAN -> 0..MaxEvents]]
    BY <1>2, Zenon DEF TypeOK
  <2>4. n + 1 \in 0..MaxEvents /\ n + 1 <= events' /\ \A m \in 0..MaxEvents : m <= events => m <= events'
    <3> HIDE DEF n
    <3> QED BY <1>1, <1>2, <2>1, WeatherAssumption DEF Event, TypeOK
  <2> HIDE DEF n
  <2>5. /\ changes' \in [Endpoints -> [BOOLEAN -> 0..MaxEvents]]
        /\ changes'[e][isWeather] = n + 1
        /\ \A d \in Endpoints, b \in BOOLEAN : d # e \/ b # isWeather => changes'[d][b] = changes[d][b]
    BY <2>2, <2>3, <2>4, Nested, Zenon
  <2>6. ASSUME NEW d \in Endpoints, NEW b \in BOOLEAN
        PROVE  changes'[d][b] <= events'
    <3>1. CASE d = e /\ b = isWeather
      BY <2>4, <2>5, <3>1, Zenon
    <3>2. CASE ~ (d = e /\ b = isWeather)
      <4>1. changes'[d][b] = changes[d][b]
        BY <2>5, <3>2, Zenon
      <4>2. changes[d][b] \in 0..MaxEvents /\ changes[d][b] <= events
        BY <1>2, Zenon DEF TypeOK, Counted
      <4> QED BY <2>4, <4>1, <4>2, Zenon
    <3> QED BY <3>1, <3>2, Zenon
  <2> QED BY <2>5, <2>6, Zenon DEF Counted
<1>7. /\ online' \in SUBSET Endpoints /\ shown' \in [Endpoints -> Colours \cup {Users}]
      /\ city' \in [Endpoints -> Cities \cup {Unset}] /\ weather' \in [Cities -> Colours]
  BY <1>1, <1>2, Zenon DEF TypeOK
<1> QED BY <1>1, <1>3, <1>4, <1>5, <1>6, <1>7, EventKeeps, Zenon

LEMMA ClientsKeep ==
  ASSUME WeatherInv,
         \/ \E e \in Endpoints : \/ PutColor(e) \/ Registers(e)
                                 \/ \E c \in Cities : PutSettings(e, c)
         \/ \E c \in Cities, colour \in Colours : WeatherChanges(c, colour)
  PROVE  WeatherInv'
<1>1. TypeOK
  BY DEF WeatherInv
<1>2. ASSUME NEW e \in Endpoints, PutColor(e)
      PROVE  WeatherInv'
  <2>1. shown' \in [Endpoints -> Colours \cup {Users}]
    BY <1>1, <1>2 DEF PutColor, TypeOK
  <2>2. /\ Event /\ UNCHANGED <<weatherMode, changes, overtaken>>
        /\ UNCHANGED <<online, city, weather>>
    BY <1>2, Zenon DEF PutColor
  <2> QED BY <1>1, <2>1, <2>2, OtherEventKeeps, Zenon DEF TypeOK
<1>3. ASSUME NEW e \in Endpoints, Registers(e)
      PROVE  WeatherInv'
  <2>1. online' \in SUBSET Endpoints
    BY <1>1, <1>3 DEF Registers, TypeOK
  <2>2. /\ Event /\ UNCHANGED <<weatherMode, changes, overtaken>>
        /\ UNCHANGED <<shown, city, weather>>
    BY <1>3, Zenon DEF Registers
  <2> QED BY <1>1, <2>1, <2>2, OtherEventKeeps, Zenon DEF TypeOK
<1>4. ASSUME NEW e \in Endpoints, NEW c \in Cities, PutSettings(e, c)
      PROVE  WeatherInv'
  <2>1. city' \in [Endpoints -> Cities \cup {Unset}]
    BY <1>1, <1>4 DEF PutSettings, save, TypeOK
  <2>2. /\ Event /\ UNCHANGED <<weatherMode, changes, overtaken>>
        /\ UNCHANGED <<online, shown, weather>>
    BY <1>4, Zenon DEF PutSettings
  <2> QED BY <1>1, <2>1, <2>2, OtherEventKeeps, Zenon DEF TypeOK
<1>5. ASSUME NEW c \in Cities, NEW colour \in Colours, WeatherChanges(c, colour)
      PROVE  WeatherInv'
  <2>1. weather' \in [Cities -> Colours]
    BY <1>1, <1>5 DEF WeatherChanges, TypeOK
  <2>2. /\ Event /\ UNCHANGED <<weatherMode, changes, overtaken>>
        /\ UNCHANGED <<online, shown, city>>
    BY <1>5, Zenon DEF WeatherChanges
  <2> QED BY <1>1, <2>1, <2>2, OtherEventKeeps, Zenon DEF TypeOK
<1> QED BY <1>2, <1>3, <1>4, <1>5, Zenon

-----------------------------------------------------------------------------
(* Updates start, go from stage to stage, and end.                           *)

\* An update starts: it and its requests are new, nothing is held against it.
LEMMA StartKeeps ==
  ASSUME WeatherInv, NEW u \in Updates, NEW argument \in SUBSET Endpoints, Starts(u, argument),
         UNCHANGED <<nodes, bounds>>,
         changes' \in [Endpoints -> [BOOLEAN -> 0..MaxEvents]], Counted',
         timer' \in {"set", "running", "ended"},
         timer' = "set" => u # Loop /\ timer = "set"
  PROVE  WeatherInv'
<1>1. /\ phase' = [phase EXCEPT ![u] = "list"] /\ eps' = [eps EXCEPT ![u] = argument]
      /\ at' = [at EXCEPT ![u] = Nowhere] /\ got' = [got EXCEPT ![u] = Nothing]
      /\ overtaken' = {p \in overtaken : p[1] # u} /\ intruded' = {p \in intruded : p[1] # u}
      /\ UNCHANGED <<online, weatherMode, shown, city, weather, events, faults>>
  BY Zenon DEF Starts, nodes, bounds
<1>2. TypeOK /\ Chained /\ Asked /\ Quiet /\ IntrudesOnlyWhenOvertaken
  BY DEF WeatherInv
<1>3. /\ phase \in [Updates -> Phases] /\ at \in [Updates -> [Endpoints -> States]]
      /\ got \in [Updates -> [Endpoints -> Results]] /\ eps \in [Updates -> SUBSET Endpoints]
      /\ overtaken \in SUBSET (Updates \X Endpoints) /\ intruded \in SUBSET (Updates \X Endpoints)
  BY <1>2 DEF TypeOK, Phases, States, Results
<1>4. TypeOK'
  <2>1. /\ phase' \in [Updates -> Phases] /\ eps' \in [Updates -> SUBSET Endpoints]
    BY <1>1, <1>3 DEF Phases
  <2>2. /\ at' \in [Updates -> [Endpoints -> States]] /\ got' \in [Updates -> [Endpoints -> Results]]
    BY <1>1, <1>3 DEF Nowhere, Nothing, States, Results
  <2>3. overtaken' \in SUBSET (Updates \X Endpoints) /\ intruded' \in SUBSET (Updates \X Endpoints)
    BY <1>1, <1>3
  <2> QED BY <1>1, <1>2, <2>1, <2>2, <2>3, Zenon DEF TypeOK, Phases, States, Results
<1>5. \A v \in Updates : \A e \in Endpoints :
        IF v = u THEN at'[v][e] = "out" ELSE at'[v][e] = at[v][e] /\ got'[v][e] = got[v][e]
  BY <1>1, <1>3 DEF Nowhere
<1>6. Chained'
  BY <1>2, <1>5 DEF Chained
<1>7. Asked'
  <2>1. ASSUME NEW v \in Updates, NEW e \in Endpoints, at'[v][e] \in UnderWay
        PROVE  e \in weatherMode' \/ <<v, e>> \in overtaken'
    <3>1. v # u /\ at[v][e] \in UnderWay
      BY <1>5, <2>1 DEF UnderWay
    <3>2. e \in weatherMode \/ <<v, e>> \in overtaken
      BY <1>2, <3>1 DEF Asked
    <3> QED BY <1>1, <3>1, <3>2
  <2> QED BY <2>1, Zenon DEF Asked
<1>8. Quiet'
  <2>1. \A v \in Updates : v # u => phase'[v] = phase[v]
    BY <1>1, <1>3
  <2>2. Loop \in Updates
    BY WeatherAssumption DEF Loop, Updates
  <2>3. \A v \in Updates : phase'[v] \in {"unused", "list", "over"} =>
          \A e \in Endpoints : at'[v][e] \in {"out", "dropped", "done"}
    BY <1>2, <1>5, <2>1 DEF Quiet
  <2>4. timer' = "set" => phase'[Loop] \in {"unused", "over"}
    BY <1>2, <2>1, <2>2 DEF Quiet
  <2> QED BY <2>3, <2>4 DEF Quiet, Loop
<1>9. IntrudesOnlyWhenOvertaken'
  BY <1>1, <1>2 DEF IntrudesOnlyWhenOvertaken
<1> QED BY <1>4, <1>6, <1>7, <1>8, <1>9, Zenon DEF WeatherInv

LEMMA LoopKeeps ==
  ASSUME WeatherInv, updateLoop
  PROVE  WeatherInv'
<1>1. /\ timer' = "running" /\ Starts(Loop, {}) /\ UNCHANGED <<nodes, bounds>> /\ UNCHANGED changes
      /\ UNCHANGED events
  BY Zenon DEF updateLoop, bounds
<1>2. Loop \in Updates
  BY WeatherAssumption DEF Loop, Updates
<1>3. changes' \in [Endpoints -> [BOOLEAN -> 0..MaxEvents]] /\ Counted'
  BY <1>1, Zenon DEF WeatherInv, TypeOK, Counted
<1>4. timer' \in {"set", "running", "ended"} /\ timer' # "set"
  BY <1>1
<1> QED BY <1>1, <1>2, <1>3, <1>4, StartKeeps, Zenon

LEMMA ChangeKeeps ==
  ASSUME WeatherInv, NEW e \in Endpoints, NEW isWeather \in BOOLEAN, modeOrCityChanged(e, isWeather)
  PROVE  WeatherInv'
<1>1. /\ changes[e][isWeather] > 0
      /\ changes' = [changes EXCEPT ![e][isWeather] = changes[e][isWeather] - 1]
      /\ UNCHANGED <<nodes, bounds>> /\ UNCHANGED timer /\ UNCHANGED events
      /\ UNCHANGED <<online, weatherMode, shown, city, weather, faults>>
  BY Zenon DEF modeOrCityChanged, bounds, nodes
<1>2. TypeOK /\ Counted
  BY DEF WeatherInv
<1>3. changes' \in [Endpoints -> [BOOLEAN -> 0..MaxEvents]] /\ Counted'
  <2> DEFINE n == changes[e][isWeather]
  <2>1. n \in 0..MaxEvents /\ n <= events /\ n > 0
    BY <1>1, <1>2, Zenon DEF TypeOK, Counted
  <2>2. changes' = [changes EXCEPT ![e][isWeather] = n - 1]
    BY <1>1, Zenon
  <2>3. changes \in [Endpoints -> [BOOLEAN -> 0..MaxEvents]]
    BY <1>2, Zenon DEF TypeOK
  <2> HIDE DEF n
  <2>4. n - 1 \in 0..MaxEvents /\ n - 1 <= events'
    BY <1>1, <1>2, <2>1, WeatherAssumption DEF TypeOK
  <2>5. /\ changes' \in [Endpoints -> [BOOLEAN -> 0..MaxEvents]]
        /\ changes'[e][isWeather] = n - 1
        /\ \A d \in Endpoints, b \in BOOLEAN : d # e \/ b # isWeather => changes'[d][b] = changes[d][b]
    BY <2>2, <2>3, <2>4, Nested, Zenon
  <2>6. ASSUME NEW d \in Endpoints, NEW b \in BOOLEAN
        PROVE  changes'[d][b] <= events'
    <3>1. CASE d = e /\ b = isWeather
      BY <2>4, <2>5, <3>1, Zenon
    <3>2. CASE ~ (d = e /\ b = isWeather)
      BY <1>1, <1>2, <2>5, <3>2, Zenon DEF Counted
    <3> QED BY <3>1, <3>2, Zenon
  <2> QED BY <2>5, <2>6, Zenon DEF Counted
<1>4. CASE isWeather
  <2>1. PICK u \in Updates \ {Loop} : Starts(u, {e})
    BY <1>4, Zenon DEF modeOrCityChanged
  <2>2. u \in Updates /\ {e} \in SUBSET Endpoints /\ u # Loop
    OBVIOUS
  <2>3. timer' \in {"set", "running", "ended"} /\ (timer' = "set" => timer = "set")
    BY <1>1, <1>2, Zenon DEF TypeOK
  <2> QED BY <1>1, <1>3, <2>1, <2>2, <2>3, StartKeeps, Zenon
<1>5. CASE ~ isWeather
  <2>1. UNCHANGED <<phase, eps, at, got, overtaken, intruded>>
    BY <1>5, Zenon DEF modeOrCityChanged, history
  <2>2. TypeOK'
    BY <1>1, <1>2, <1>3, <2>1, Zenon DEF TypeOK
  <2>3. Chained' /\ Asked' /\ Quiet' /\ IntrudesOnlyWhenOvertaken'
    BY <1>1, <2>1 DEF WeatherInv, Chained, Asked, Quiet, IntrudesOnlyWhenOvertaken, Loop
  <2> QED BY <1>3, <2>2, <2>3, Zenon DEF WeatherInv
<1> QED BY <1>4, <1>5, Zenon

\* A stage of an update is over: its requests go on as next says.  Those to come are to
\* endpoints in weather mode, none is beyond "city".
LEMMA StageKeeps ==
  ASSUME WeatherInv, NEW u \in Updates, NEW stage \in Phases, phase' = [phase EXCEPT ![u] = stage],
         NEW next \in [Endpoints -> States], at' = [at EXCEPT ![u] = next],
         UNCHANGED <<online, weatherMode, shown, city, weather, changes, eps, got, events, overtaken, intruded>>,
         faults' \in 0..MaxFaults,
         timer' \in {"set", "running", "ended"},
         timer' = "set" => IF u = Loop THEN stage = "over" ELSE timer = "set",
         \A e \in Endpoints : /\ next[e] = at[u][e] \/ next[e] \notin {"weather", "put"}
                              /\ next[e] \in UnderWay => at[u][e] \in UnderWay
                              /\ stage \in {"unused", "list", "over"} => next[e] \in {"out", "dropped", "done"}
  PROVE  WeatherInv'
<1>1. TypeOK /\ Counted /\ Chained /\ Asked /\ Quiet /\ IntrudesOnlyWhenOvertaken
  BY DEF WeatherInv
<1>2. phase \in [Updates -> Phases] /\ at \in [Updates -> [Endpoints -> States]]
  BY <1>1 DEF TypeOK, Phases, States
<1>3. TypeOK'
  <2>1. phase' \in [Updates -> Phases] /\ at' \in [Updates -> [Endpoints -> States]]
    BY <1>2
  <2> QED BY <1>1, <2>1, Zenon DEF TypeOK, Phases, States
<1>4. \A v \in Updates : \A e \in Endpoints :
        at'[v][e] = (IF v = u THEN next[e] ELSE at[v][e])
  BY <1>2
<1>5. Counted'
  BY <1>1, Zenon DEF Counted
<1>6. Chained'
  BY <1>1, <1>4 DEF Chained
<1>7. Asked'
  BY <1>1, <1>4 DEF Asked
<1>8. Quiet'
  <2>1. \A v \in Updates : phase'[v] = (IF v = u THEN stage ELSE phase[v])
    BY <1>2
  <2>2. Loop \in Updates
    BY WeatherAssumption DEF Loop, Updates
  <2>3. \A v \in Updates : phase'[v] \in {"unused", "list", "over"} =>
          \A e \in Endpoints : at'[v][e] \in {"out", "dropped", "done"}
    BY <1>1, <1>4, <2>1 DEF Quiet
  <2>4. timer' = "set" => phase'[Loop] \in {"unused", "over"}
    BY <1>1, <2>1, <2>2 DEF Quiet
  <2> QED BY <2>3, <2>4 DEF Quiet, Loop
<1>9. IntrudesOnlyWhenOvertaken'
  BY <1>1, Zenon DEF IntrudesOnlyWhenOvertaken
<1> QED BY <1>3, <1>5, <1>6, <1>7, <1>8, <1>9, Zenon DEF WeatherInv

LEMMA OnceKeeps ==
  ASSUME WeatherInv, NEW u \in Updates, updateOnce(u)
  PROVE  WeatherInv'
<1>1. TypeOK /\ Quiet
  BY DEF WeatherInv
<1>2. /\ phase \in [Updates -> Phases] /\ at \in [Updates -> [Endpoints -> States]]
      /\ timer \in {"set", "running", "ended"} /\ faults \in 0..MaxFaults
  BY <1>1 DEF TypeOK, Phases, States
<1>3. timer = "set" => phase[Loop] \in {"unused", "over"}
  BY <1>1 DEF Quiet
<1>4. at[u] \in [Endpoints -> States] /\ at = [at EXCEPT ![u] = at[u]]
  BY <1>2
<1>5. CASE ListOnline(u)
  <2> DEFINE next == [e \in Endpoints |->
                        IF e \in online /\ (eps[u] = {} \/ e \in eps[u]) THEN "ask" ELSE "out"]
  <2>1. /\ phase[u] = "list" /\ phase' = [phase EXCEPT ![u] = "filter"] /\ at' = [at EXCEPT ![u] = next]
        /\ UNCHANGED <<online, weatherMode, shown, city, weather, changes, eps, got, events, overtaken,
                       intruded>>
        /\ faults' = faults /\ timer' = timer
    BY <1>5, Zenon DEF ListOnline, nodes, bounds, history
  <2>2. \A e \in Endpoints : next[e] \in {"ask", "out"}
    OBVIOUS
  <2>3. next \in [Endpoints -> States] /\ "filter" \in Phases
    BY DEF States, Phases
  <2> HIDE DEF next
  <2>4. \A e \in Endpoints :
          /\ next[e] = at[u][e] \/ next[e] \notin {"weather", "put"}
          /\ next[e] \in UnderWay => at[u][e] \in UnderWay
          /\ "filter" \in {"unused", "list", "over"} => next[e] \in {"out", "dropped", "done"}
    BY <2>2 DEF UnderWay
  <2>5. timer' = "set" => IF u = Loop THEN "filter" = "over" ELSE timer = "set"
    BY <1>3, <2>1
  <2>6. faults' \in 0..MaxFaults /\ timer' \in {"set", "running", "ended"}
    BY <1>2, <2>1
  <2> QED BY <2>1, <2>3, <2>4, <2>5, <2>6, StageKeeps, Zenon
<1>6. CASE ListFails(u)
  <2>1. /\ phase[u] = "list" /\ phase' = [phase EXCEPT ![u] = "failed"] /\ at' = at
        /\ UNCHANGED <<online, weatherMode, shown, city, weather, changes, eps, got, events, overtaken,
                       intruded>>
        /\ faults < MaxFaults /\ faults' = faults + 1
        /\ timer' = IF u = Loop THEN "ended" ELSE timer
    BY <1>6, Zenon DEF ListFails, Rejected, Fault, nodes, history
  <2>2. \A e \in Endpoints :
          /\ at[u][e] = at[u][e] \/ at[u][e] \notin {"weather", "put"}
          /\ at[u][e] \in UnderWay => at[u][e] \in UnderWay
          /\ "failed" \in {"unused", "list", "over"} => at[u][e] \in {"out", "dropped", "done"}
    OBVIOUS
  <2>3. /\ timer' = "set" => IF u = Loop THEN "failed" = "over" ELSE timer = "set"
        /\ timer' \in {"set", "running", "ended"}
    BY <1>2, <2>1
  <2>4. faults' \in 0..MaxFaults
    BY <1>2, <2>1, WeatherAssumption
  <2>5. "failed" \in Phases /\ at' = [at EXCEPT ![u] = at[u]]
    BY <1>4, <2>1 DEF Phases
  <2> QED BY <1>4, <2>1, <2>2, <2>3, <2>4, <2>5, StageKeeps, Zenon
<1>7. CASE Filtered(u)
  <2> DEFINE next == [e \in Endpoints |-> IF at[u][e] = "kept" THEN "city" ELSE at[u][e]]
  <2>1. /\ phase[u] = "filter" /\ phase' = [phase EXCEPT ![u] = "map"] /\ at' = [at EXCEPT ![u] = next]
        /\ UNCHANGED <<online, weatherMode, shown, city, weather, changes, eps, got, events, overtaken,
                       intruded>>
        /\ faults' = faults /\ timer' = timer
    BY <1>7, Zenon DEF Filtered, nodes, bounds, history
  <2>2. next \in [Endpoints -> States] /\ "map" \in Phases
    BY <1>4 DEF States, Phases
  <2>3. \A e \in Endpoints : next[e] = IF at[u][e] = "kept" THEN "city" ELSE at[u][e]
    OBVIOUS
  <2> HIDE DEF next
  <2>4. \A e \in Endpoints :
          /\ next[e] = at[u][e] \/ next[e] \notin {"weather", "put"}
          /\ next[e] \in UnderWay => at[u][e] \in UnderWay
          /\ "map" \in {"unused", "list", "over"} => next[e] \in {"out", "dropped", "done"}
    BY <2>3 DEF UnderWay
  <2>5. timer' = "set" => IF u = Loop THEN "map" = "over" ELSE timer = "set"
    BY <1>3, <2>1
  <2>6. faults' \in 0..MaxFaults /\ timer' \in {"set", "running", "ended"}
    BY <1>2, <2>1
  <2> QED BY <2>1, <2>2, <2>4, <2>5, <2>6, StageKeeps, Zenon
<1>8. CASE Over(u)
  <2>1. /\ \A e \in Endpoints : at[u][e] \in {"out", "dropped", "done"}
        /\ phase' = [phase EXCEPT ![u] = "over"] /\ at' = at
        /\ UNCHANGED <<online, weatherMode, shown, city, weather, changes, eps, got, events, overtaken,
                       intruded>>
        /\ faults' = faults /\ timer' = IF u = Loop THEN "set" ELSE timer
    BY <1>8, Zenon DEF Over, nodes, bounds, history
  <2>2. \A e \in Endpoints :
          /\ at[u][e] = at[u][e] \/ at[u][e] \notin {"weather", "put"}
          /\ at[u][e] \in UnderWay => at[u][e] \in UnderWay
          /\ "over" \in {"unused", "list", "over"} => at[u][e] \in {"out", "dropped", "done"}
    BY <2>1
  <2>3. /\ timer' = "set" => IF u = Loop THEN "over" = "over" ELSE timer = "set"
        /\ timer' \in {"set", "running", "ended"} /\ faults' \in 0..MaxFaults
    BY <1>2, <2>1
  <2>4. "over" \in Phases /\ at' = [at EXCEPT ![u] = at[u]]
    BY <1>4, <2>1 DEF Phases
  <2> QED BY <1>4, <2>1, <2>2, <2>3, <2>4, StageKeeps, Zenon
<1> QED BY <1>5, <1>6, <1>7, <1>8 DEF updateOnce

-----------------------------------------------------------------------------
(* The chain of requests for an endpoint.                                    *)

LEMMA MovesIs ==
  ASSUME NEW u \in Updates, NEW e \in Endpoints, NEW from, NEW to \in States, Moves(u, e, from, to),
         at \in [Updates -> [Endpoints -> States]]
  PROVE  /\ at' \in [Updates -> [Endpoints -> States]] /\ at'[u][e] = to
         /\ \A v \in Updates, d \in Endpoints : v # u \/ d # e => at'[v][d] = at[v][d]
BY Nested, Zenon DEF Moves

\* A request is answered, fails or is lost, and its result handed on.
LEMMA MovesKeeps ==
  ASSUME WeatherInv, NEW u \in Updates, NEW e \in Endpoints,
         NEW from \in {"ask", "city", "weather", "put"}, NEW to \in States \ {"city"}, Moves(u, e, from, to),
         to \in UnderWay => from \in UnderWay \/ e \in weatherMode,
         NEW result \in Results, got' = [got EXCEPT ![u][e] = result] \/ (got' = got /\ result = got[u][e]),
         to = "weather" => result \in Cities,
         to = "put" => result \in Colours,
         \/ UNCHANGED <<phase, timer>>
         \/ phase' = [phase EXCEPT ![u] = "failed"] /\ timer' = IF u = Loop THEN "ended" ELSE timer,
         UNCHANGED <<online, weatherMode, city, weather, changes, eps, events, overtaken>>,
         shown' \in [Endpoints -> Colours \cup {Users}],
         faults' \in 0..MaxFaults, intruded' \subseteq overtaken
  PROVE  WeatherInv'
<1>1. TypeOK /\ Counted /\ Chained /\ Asked /\ Quiet
  BY DEF WeatherInv
<1>2. /\ phase \in [Updates -> Phases] /\ at \in [Updates -> [Endpoints -> States]]
      /\ got \in [Updates -> [Endpoints -> Results]] /\ timer \in {"set", "running", "ended"}
      /\ overtaken \in SUBSET (Updates \X Endpoints)
  BY <1>1 DEF TypeOK, Phases, States, Results
<1>3. at[u][e] = from /\ to \in States
  BY DEF Moves
<1>4. /\ at' \in [Updates -> [Endpoints -> States]] /\ at'[u][e] = to
      /\ \A v \in Updates, d \in Endpoints : v # u \/ d # e => at'[v][d] = at[v][d]
  BY <1>2, <1>3, MovesIs
<1>5. /\ got' \in [Updates -> [Endpoints -> Results]] /\ got'[u][e] = result
      /\ \A v \in Updates, d \in Endpoints : v # u \/ d # e => got'[v][d] = got[v][d]
  <2>1. CASE got' = [got EXCEPT ![u][e] = result]
    BY <1>2, <2>1, Nested, Zenon
  <2>2. CASE got' = got /\ result = got[u][e]
    BY <1>2, <2>2, Zenon
  <2> QED BY <2>1, <2>2
<1>6. /\ phase' \in [Updates -> Phases] /\ timer' \in {"set", "running", "ended"}
      /\ \A v \in Updates : phase'[v] = phase[v] \/ phase'[v] = "failed"
      /\ timer' = "set" => timer = "set" /\ (u = Loop => phase' = phase)
      /\ u # Loop => phase'[Loop] = phase[Loop] /\ timer' = timer
  <2>1. CASE UNCHANGED <<phase, timer>>
    BY <1>2, <2>1
  <2>2. CASE phase' = [phase EXCEPT ![u] = "failed"] /\ timer' = IF u = Loop THEN "ended" ELSE timer
    BY <1>2, <2>2 DEF Phases
  <2> QED BY <2>1, <2>2
<1>7. TypeOK'
  <2>1. intruded' \in SUBSET (Updates \X Endpoints)
    BY <1>2
  <2> QED BY <1>1, <1>4, <1>5, <1>6, <2>1, Zenon DEF TypeOK, Phases, States, Results
<1>8. Counted'
  BY <1>1, Zenon DEF Counted
<1>9. Chained'
  BY <1>1, <1>4, <1>5, Zenon DEF Chained
<1>10. Asked'
  <2>1. ASSUME NEW v \in Updates, NEW d \in Endpoints, at'[v][d] \in UnderWay
        PROVE  d \in weatherMode \/ <<v, d>> \in overtaken
    <3>1. CASE v = u /\ d = e
      BY <1>1, <1>3, <1>4, <2>1, <3>1, Zenon DEF Asked
    <3>2. CASE ~ (v = u /\ d = e)
      BY <1>1, <1>4, <2>1, <3>2, Zenon DEF Asked
    <3> QED BY <3>1, <3>2, Zenon
  <2> QED BY <2>1, Zenon DEF Asked
<1>11. Quiet'
  <2>1. phase[u] \notin {"unused", "list", "over"}
    BY <1>1, <1>3 DEF Quiet
  <2>2. ASSUME NEW v \in Updates, phase'[v] \in {"unused", "list", "over"}, NEW d \in Endpoints
        PROVE  at'[v][d] \in {"out", "dropped", "done"}
    <3>1. phase'[v] = phase[v] /\ v # u
      BY <1>6, <2>1, <2>2
    <3> QED BY <1>1, <1>4, <2>2, <3>1 DEF Quiet
  <2>3. timer' = "set" => phase'[Loop] \in {"unused", "over"}
    BY <1>1, <1>6 DEF Quiet
  <2> QED BY <2>2, <2>3, Zenon DEF Quiet, Loop
<1>12. IntrudesOnlyWhenOvertaken'
  BY DEF IntrudesOnlyWhenOvertaken
<1> QED BY <1>7, <1>8, <1>9, <1>10, <1>11, <1>12, Zenon DEF WeatherInv

LEMMA ChainKeeps ==
  ASSUME WeatherInv, NEW u \in Updates, NEW e \in Endpoints, Chain(u, e)
  PROVE  WeatherInv'
<1>1. TypeOK /\ Chained /\ Asked /\ IntrudesOnlyWhenOvertaken
  BY DEF WeatherInv
<1>2. /\ got[u][e] \in Results /\ shown \in [Endpoints -> Colours \cup {Users}] /\ faults \in 0..MaxFaults
      /\ got = got /\ intruded \subseteq overtaken
  BY <1>1 DEF TypeOK, Results, IntrudesOnlyWhenOvertaken
<1>3. /\ at[u][e] = "weather" => got[u][e] \in Cities
      /\ at[u][e] = "put" => got[u][e] \in Colours
  BY <1>1 DEF Chained
<1>4. faults' = faults \/ Fault => faults' \in 0..MaxFaults
  BY <1>2, WeatherAssumption DEF Fault
<1>5. /\ "kept" \in States \ {"city"} /\ "dropped" \in States \ {"city"} /\ "weather" \in States \ {"city"}
      /\ "put" \in States \ {"city"} /\ "done" \in States \ {"city"} /\ "failed" \in States \ {"city"}
      /\ "lost" \in States \ {"city"}
  BY DEF States
<1>6. "city" \in UnderWay /\ "weather" \in UnderWay /\ "dropped" \notin UnderWay /\ "done" \notin UnderWay
      /\ "failed" \notin UnderWay /\ "lost" \notin UnderWay
  BY DEF UnderWay
<1>7. DefaultCity \in Cities /\ Cities \subseteq Results /\ Colours \subseteq Results
  BY WeatherAssumption DEF Results
<1>8. CASE GetMode(u, e)
  <2>1. /\ UNCHANGED <<phase, timer>> /\ got' = got /\ shown' = shown /\ faults' = faults
        /\ intruded' = intruded
        /\ UNCHANGED <<online, weatherMode, city, weather, changes, eps, events, overtaken>>
    BY <1>8, Zenon DEF GetMode, nodes, bounds, history
  <2>2. CASE e \in weatherMode
    <3>1. Moves(u, e, "ask", "kept")
      BY <1>8, <2>2, Zenon DEF GetMode
    <3>2. "kept" # "weather" /\ "kept" # "put"
      OBVIOUS
    <3> QED BY <1>2, <1>5, <2>1, <2>2, <3>1, <3>2, MovesKeeps, Zenon
  <2>3. CASE e \notin weatherMode
    <3>1. Moves(u, e, "ask", "dropped")
      BY <1>8, <2>3, Zenon DEF GetMode
    <3>2. "dropped" # "weather" /\ "dropped" # "put"
      OBVIOUS
    <3> QED BY <1>2, <1>5, <1>6, <2>1, <3>1, <3>2, MovesKeeps, Zenon
  <2> QED BY <2>2, <2>3
<1>9. ASSUME NEW c \in Cities, Moves(u, e, "city", "weather"), got' = [got EXCEPT ![u][e] = c],
             faults' = faults \/ Fault,
             UNCHANGED <<phase, timer, shown, intruded>>,
             UNCHANGED <<online, weatherMode, city, weather, changes, eps, events, overtaken>>
      PROVE  WeatherInv'
  <2>1. c \in Results /\ "weather" # "put"
    BY <1>7
  <2> QED BY <1>2, <1>4, <1>5, <1>6, <1>9, <2>1, MovesKeeps, Zenon
<1>10. CASE getCityFromSettings(u, e)
  <2>1. (IF city[e] = Unset THEN DefaultCity ELSE city[e]) \in Cities
    BY <1>1, <1>7 DEF TypeOK
  <2> QED BY <1>9, <1>10, <2>1, Zenon DEF getCityFromSettings, nodes, bounds, history
<1>11. CASE CityFails(u, e)
  BY <1>7, <1>9, <1>11, Zenon DEF CityFails, nodes, history
<1>12. CASE getWeather(u, e)
  <2>1. /\ Moves(u, e, "weather", "put") /\ got' = [got EXCEPT ![u][e] = weather[got[u][e]]]
        /\ UNCHANGED <<phase, timer>> /\ shown' = shown /\ faults' = faults
        /\ intruded' = intruded
        /\ UNCHANGED <<online, weatherMode, city, weather, changes, eps, events, overtaken>>
    BY <1>12, Zenon DEF getWeather, nodes, bounds, history
  <2>2. weather[got[u][e]] \in Colours
    BY <1>1, <1>3, <2>1, Zenon DEF Moves, TypeOK
  <2>3. weather[got[u][e]] \in Results /\ "put" # "weather"
    BY <1>7, <2>2
  <2> QED BY <1>2, <1>5, <1>6, <2>1, <2>2, <2>3, MovesKeeps, Zenon
<1>13. CASE SetColor(u, e)
  <2>1. /\ Moves(u, e, "put", "done") /\ shown' = [shown EXCEPT ![e] = got[u][e]]
        /\ intruded' = IF e \in weatherMode THEN intruded ELSE intruded \cup {<<u, e>>}
        /\ UNCHANGED <<phase, timer>> /\ got' = got /\ faults' = faults
        /\ UNCHANGED <<online, weatherMode, city, weather, changes, eps, events, overtaken>>
    BY <1>13, Zenon DEF SetColor, bounds
  <2>2. at[u][e] = "put"
    BY <2>1 DEF Moves
  <2>3. shown' \in [Endpoints -> Colours \cup {Users}]
    BY <1>2, <1>3, <2>1, <2>2
  <2>4. e \in weatherMode \/ <<u, e>> \in overtaken
    BY <1>1, <2>2 DEF Asked, UnderWay
  <2>5. intruded' \subseteq overtaken
    BY <1>2, <2>1, <2>4
  <2>6. "done" # "weather" /\ "done" # "put"
    OBVIOUS
  <2> QED BY <1>2, <1>5, <1>6, <2>1, <2>3, <2>5, <2>6, MovesKeeps, Zenon
<1>14. CASE Fails(u, e)
  <2>1. PICK from \in {"ask", "weather", "put"} : Moves(u, e, from, "failed")
    BY <1>14, Zenon DEF Fails
  <2>2. faults' = faults \/ Fault
    BY <1>14, Zenon DEF Fails
  <2>3. /\ phase' = [phase EXCEPT ![u] = "failed"] /\ timer' = IF u = Loop THEN "ended" ELSE timer
        /\ got' = got /\ shown' = shown /\ intruded' = intruded
        /\ UNCHANGED <<online, weatherMode, city, weather, changes, eps, events, overtaken>>
    BY <1>14, Zenon DEF Fails, Rejected, nodes, history
  <2>4. from \in {"ask", "city", "weather", "put"} /\ "failed" # "weather" /\ "failed" # "put"
    OBVIOUS
  <2>5. /\ faults' \in 0..MaxFaults /\ shown' \in [Endpoints -> Colours \cup {Users}]
        /\ intruded' \subseteq overtaken
    BY <1>2, <1>4, <2>2, <2>3, Zenon
  <2>6. /\ "failed" \in UnderWay => from \in UnderWay \/ e \in weatherMode
        /\ "failed" = "weather" => got[u][e] \in Cities
        /\ "failed" = "put" => got[u][e] \in Colours
        /\ got' = [got EXCEPT ![u][e] = got[u][e]] \/ (got' = got /\ got[u][e] = got[u][e])
        /\ \/ UNCHANGED <<phase, timer>>
           \/ phase' = [phase EXCEPT ![u] = "failed"] /\ timer' = IF u = Loop THEN "ended" ELSE timer
    BY <1>6, <2>3, <2>4, Zenon
  <2>7. /\ from \in {"ask", "city", "weather", "put"} /\ "failed" \in States \ {"city"}
        /\ got[u][e] \in Results
        /\ UNCHANGED <<online, weatherMode, city, weather, changes, eps, events, overtaken>>
    BY <1>2, <1>5, <2>3, <2>4, Zenon
  <2> QED BY <2>1, <2>5, <2>6, <2>7, MovesKeeps, Zenon
<1>15. CASE Lost(u, e)
  <2>1. PICK from \in {"ask", "put"} : Moves(u, e, from, "lost")
    BY <1>15, Zenon DEF Lost
  <2>2. /\ Fault /\ UNCHANGED <<phase, timer>>
        /\ got' = got /\ shown' = shown /\ intruded' = intruded
        /\ UNCHANGED <<online, weatherMode, city, weather, changes, eps, events, overtaken>>
    BY <1>15, Zenon DEF Lost, nodes, history
  <2>3. from \in {"ask", "city", "weather", "put"} /\ "lost" # "weather" /\ "lost" # "put"
    OBVIOUS
  <2> QED BY <1>2, <1>4, <1>5, <1>6, <2>1, <2>2, <2>3, MovesKeeps, Zenon
<1> QED BY <1>8, <1>10, <1>11, <1>12, <1>13, <1>14, <1>15, Zenon DEF Chain

LEMMA SameWeather ==
  ASSUME WeatherInv, UNCHANGED vars
  PROVE  WeatherInv'
<1>1. UNCHANGED <<online, weatherMode, shown, city, weather, changes, timer, phase, eps, at, got, events,
                  faults, overtaken, intruded>>
  BY DEF vars
<1>2. TypeOK'
  BY <1>1, Zenon DEF WeatherInv, TypeOK
<1>3. Counted'
  BY <1>1, Zenon DEF WeatherInv, Counted
<1>4. Chained' /\ Asked' /\ Quiet' /\ IntrudesOnlyWhenOvertaken'
  BY <1>1 DEF WeatherInv, Chained, Asked, Quiet, IntrudesOnlyWhenOvertaken, Loop
<1> QED BY <1>2, <1>3, <1>4, Zenon DEF WeatherInv

LEMMA AlwaysWeatherInv == Spec => []WeatherInv
<1>1. WeatherInv /\ [Next]_vars => WeatherInv'
  BY PutModeKeeps, ClientsKeep, LoopKeeps, ChangeKeeps, OnceKeeps, ChainKeeps, SameWeather, Zenon DEF Next
<1> QED BY InitWeather, <1>1, PTL DEF Spec

-----------------------------------------------------------------------------
(* Theorems about WeatherUpdater.                                            *)

\* What a chain of requests hands on is what the next one takes: the weather is asked for a
\* city, and a node is never sent anything but the colour of a temperature.
THEOREM TypeCorrect == Spec => []TypeOK
BY AlwaysWeatherInv, PTL DEF WeatherInv

\* However many updates overtake each other: one that sets the colour of a node in another
\* mode had asked for the mode before it was changed.
THEOREM LeavesOtherModesAlone == Spec => []IntrudesOnlyWhenOvertaken
BY AlwaysWeatherInv, PTL DEF WeatherInv

\* A round of the loop starts only when nothing of the one before is under way: the
\* timer is set again once every endpoint has been seen to, or never.
OneRound ==
  timer = "set" => \A e \in Endpoints : at[Loop][e] \in {"out", "dropped", "done"}

\* The loop never runs twice at a time: when its timer is set, no request of the last round
\* is under way, be it one that was never answered.
THEOREM RoundsDoNotOverlap == Spec => []OneRound
<1>1. WeatherInv => OneRound
  <2>1. Loop \in Updates
    BY WeatherAssumption DEF Loop, Updates
  <2> QED BY <2>1 DEF WeatherInv, Quiet, OneRound
<1> QED BY AlwaysWeatherInv, <1>1, PTL
=============================================================================
