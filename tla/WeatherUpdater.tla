---------------------------- MODULE WeatherUpdater ----------------------------
(***************************************************************************)
(* backend/src/ext-weather-updater.coffee and ext-weather.coffee: the      *)
(* endpoints in weather mode are given the colour of the temperature in    *)
(* their city.  A loop updates all endpoints every five minutes; a PUT of  *)
(* mode starts an update of its own for one endpoint (rest-api/resources), *)
(* and so does, by intention, a change of the city (rest-api/settings).    *)
(*                                                                         *)
(* An update, `updateOnce`, is a chain of requests to the device server,   *)
(* the database and the weather service.  Several updates may be under way *)
(* at a time, and clients change mode, colour and city meanwhile.          *)
(*                                                                         *)
(* Abstractions: a temperature is known by the colour calculateRgba gives  *)
(* it; a request to an endpoint takes effect when it is answered; `get`,   *)
(* which tries a city and then an id, is one request; @rgba, shared by all *)
(* updates, only reaches results that nobody reads, and is left out.       *)
(***************************************************************************)
EXTENDS Naturals, FiniteSets

CONSTANTS Endpoints,
          Cities,
          DefaultCity,  \* openWeatherDefaultCity
          Colours,      \* of temperatures
          Cold,         \* the colour of every city at the start
          Users,        \* a colour that clients set, of no temperature
          MaxEvents,    \* bound: what clients, nodes and the weather do
          MaxFaults     \* bound: requests that fail or are never answered

ASSUME WeatherAssumption == /\ DefaultCity \in Cities
                            /\ Cold \in Colours
                            /\ Users \notin Colours
                            /\ MaxEvents \in Nat
                            /\ MaxFaults \in Nat

Loop    == 0
Updates == 0..MaxEvents   \* the loop's, and those started by events
Unset   == "unset"        \* no settings saved for an endpoint

VARIABLES
  online,   \* the endpoints registered at the device server
  weatherMode,  \* the endpoints whose mode is 2
  shown,    \* the value of led_color
  city,     \* the settings
  weather,  \* what the weather service answers
  changes,  \* how many PUTs of a mode were accepted and not yet answered
  timer,    \* the loop: "set", "running", "ended"
  phase,    \* of an update: "unused", "list", "filter", "map", "over", "failed"
  eps,      \* its argument; empty for all endpoints
  at,       \* for an endpoint: "out", "ask", "kept", "dropped", "city",
            \* "weather", "put", "done", "failed", "lost"
  got,      \* the last result of its chain
  events, faults,   \* how many there were
  overtaken,  \* the mode was changed after the update had asked for it (history)
  intruded    \* the update set the colour in another mode (history)

nodes   == <<online, weatherMode, shown, city, weather>>
bounds  == <<events, faults>>
history == <<overtaken, intruded>>
vars    == <<online, weatherMode, shown, city, weather, changes, timer, phase,
             eps, at, got, events, faults, overtaken, intruded>>

Nowhere == [e \in Endpoints |-> "out"]
Nothing == [e \in Endpoints |-> Unset]

Init == /\ online = Endpoints
        /\ weatherMode \in SUBSET Endpoints
        /\ shown   = [e \in Endpoints |-> Users]
        /\ city    = [e \in Endpoints |-> Unset]
        /\ weather = [c \in Cities |-> Cold]
        /\ changes = [e \in Endpoints |-> [isWeather \in BOOLEAN |-> 0]]
        /\ timer   = "set"
        /\ phase   = [u \in Updates |-> "unused"]
        /\ eps     = [u \in Updates |-> {}]
        /\ at      = [u \in Updates |-> Nowhere]
        /\ got     = [u \in Updates |-> Nothing]
        /\ events = 0 /\ faults = 0
        /\ overtaken = {} /\ intruded = {}

-----------------------------------------------------------------------------
(* Clients, nodes and the weather. *)

Event == /\ events < MaxEvents
         /\ events' = events + 1
         /\ UNCHANGED <<timer, phase, eps, at, got, faults, intruded>>

\* The node accepts a PUT of its mode.
PutMode(e, isWeather) ==
  /\ Event
  /\ e \in online
  /\ weatherMode' = IF isWeather THEN weatherMode \cup {e} ELSE weatherMode \ {e}
  /\ changes' = [changes EXCEPT ![e][isWeather] = @ + 1]
  /\ overtaken' = overtaken \cup
       {<<u, e>> : u \in {v \in Updates : at[v][e] \in {"kept", "city", "weather", "put"}}}
  /\ UNCHANGED <<online, shown, city, weather>>

PutColor(e) == /\ Event
               /\ e \in online
               /\ shown' = [shown EXCEPT ![e] = Users]
               /\ UNCHANGED <<online, weatherMode, city, weather, changes, overtaken>>

\* models/settings: the document of the endpoint is replaced, or made.
save(e, c) == city' = [city EXCEPT ![e] = c]

\* PUT of the settings.  settings::cityChanged is emitted, but without a mode:
\* isWeatherMode then says no, and no update is started.
PutSettings(e, c) == /\ Event
                     /\ save(e, c)
                     /\ UNCHANGED <<online, weatherMode, shown, weather, changes, overtaken>>

Registers(e) == /\ Event
                /\ online' = IF e \in online THEN online \ {e} ELSE online \cup {e}
                /\ UNCHANGED <<weatherMode, shown, city, weather, changes, overtaken>>

WeatherChanges(c, colour) ==
  /\ Event
  /\ weather' = [weather EXCEPT ![c] = colour]
  /\ UNCHANGED <<online, weatherMode, shown, city, changes, overtaken>>

-----------------------------------------------------------------------------
(* ext-weather-updater *)

\* updateOnce is called: the list of the endpoints is requested.
Starts(u, argument) == /\ phase' = [phase EXCEPT ![u] = "list"]
                       /\ eps'   = [eps   EXCEPT ![u] = argument]
                       /\ at'    = [at    EXCEPT ![u] = Nowhere]
                       /\ got'   = [got   EXCEPT ![u] = Nothing]
                       /\ overtaken' = {p \in overtaken : p[1] # u}
                       /\ intruded'  = {p \in intruded : p[1] # u}

updateLoop == /\ timer = "set"
              /\ timer' = "running"
              /\ Starts(Loop, {})
              /\ UNCHANGED <<nodes, changes, bounds>>

\* The client is answered, and resources::modeChanged is emitted.
modeOrCityChanged(e, isWeather) ==
  /\ changes[e][isWeather] > 0
  /\ changes' = [changes EXCEPT ![e][isWeather] = @ - 1]
  /\ IF isWeather
       THEN \E u \in Updates \ {Loop} :
              /\ phase[u] = "unused"
              /\ \A v \in Updates \ {Loop} : phase[v] = "unused" => u <= v
              /\ Starts(u, {e})
       ELSE UNCHANGED <<phase, eps, at, got, history>>
  /\ UNCHANGED <<nodes, timer, bounds>>

\* Mutant: the timer is only started again after an update that did something.
OverIfAny(u) ==
  /\ phase[u] = "map"
  /\ \A e \in Endpoints : at[u][e] \in {"out", "dropped", "done"}
  /\ phase' = [phase EXCEPT ![u] = "over"]
  /\ timer' = IF u # Loop THEN timer
              ELSE IF \E e \in Endpoints : at[u][e] = "done" THEN "set" ELSE "ended"
  /\ UNCHANGED <<nodes, changes, eps, at, got, bounds, history>>

\* The promise of an update is fulfilled; the loop starts its timer again.
Over(u) == /\ phase[u] = "map"
           /\ \A e \in Endpoints : at[u][e] \in {"out", "dropped", "done"}
           /\ phase' = [phase EXCEPT ![u] = "over"]
           /\ timer' = IF u = Loop THEN "set" ELSE timer
           /\ UNCHANGED <<nodes, changes, eps, at, got, bounds, history>>

-----------------------------------------------------------------------------
(* updateOnce *)

\* listOnline is answered; the endpoints not asked for drop out, the others
\* are asked for their modes.
ListOnline(u) ==
  /\ phase[u] = "list"
  /\ phase' = [phase EXCEPT ![u] = "filter"]
  /\ at' = [at EXCEPT ![u] =
              [e \in Endpoints |->
                 IF e \in online /\ (eps[u] = {} \/ e \in eps[u]) THEN "ask" ELSE "out"]]
  /\ UNCHANGED <<nodes, changes, timer, eps, got, bounds, history>>

Moves(u, e, from, to) == /\ at[u][e] = from
                         /\ at' = [at EXCEPT ![u][e] = to]

\* Mutant: the mode is not looked at.
GetModeAny(u, e) ==
  /\ Moves(u, e, "ask", "kept")
  /\ e \in online
  /\ UNCHANGED <<nodes, changes, timer, phase, eps, got, bounds, history>>

GetMode(u, e) ==
  /\ Moves(u, e, "ask", IF e \in weatherMode THEN "kept" ELSE "dropped")
  /\ e \in online
  /\ UNCHANGED <<nodes, changes, timer, phase, eps, got, bounds, history>>

\* `filter` is fulfilled when every endpoint has answered, and only then.
Filtered(u) ==
  /\ phase[u] = "filter"
  /\ \A e \in Endpoints : at[u][e] \in {"out", "kept", "dropped"}
  /\ phase' = [phase EXCEPT ![u] = "map"]
  /\ at' = [at EXCEPT ![u] = [e \in Endpoints |-> IF at[u][e] = "kept" THEN "city"
                                                                      ELSE at[u][e]]]
  /\ UNCHANGED <<nodes, changes, timer, eps, got, bounds, history>>

\* Mutant: the settings of the endpoint are not used.
GetCityDefault(u, e) ==
  /\ Moves(u, e, "city", "weather")
  /\ got' = [got EXCEPT ![u][e] = DefaultCity]
  /\ UNCHANGED <<nodes, changes, timer, phase, eps, bounds, history>>

\* getCityFromSettings: the default is used if there is none.
getCityFromSettings(u, e) ==
  /\ Moves(u, e, "city", "weather")
  /\ got' = [got EXCEPT ![u][e] = IF city[e] = Unset THEN DefaultCity ELSE city[e]]
  /\ UNCHANGED <<nodes, changes, timer, phase, eps, bounds, history>>

\* The weather is answered, and the colour sent to the node.
getWeather(u, e) ==
  /\ Moves(u, e, "weather", "put")
  /\ got' = [got EXCEPT ![u][e] = weather[got[u][e]]]
  /\ UNCHANGED <<nodes, changes, timer, phase, eps, bounds, history>>

\* The node takes the colour, whatever its mode is by now.
SetColor(u, e) ==
  /\ Moves(u, e, "put", "done")
  /\ e \in online
  /\ shown' = [shown EXCEPT ![e] = got[u][e]]
  /\ intruded' = IF e \in weatherMode THEN intruded ELSE intruded \cup {<<u, e>>}
  /\ UNCHANGED <<online, weatherMode, city, weather, changes, timer, phase, eps, got,
                 bounds, overtaken>>

\* A rejected update: what the other endpoints wait for goes on, but nobody
\* looks at it; after a failure before `map`, nothing follows.  The loop only
\* logs the failure.
Rejected(u) == /\ phase' = [phase EXCEPT ![u] = "failed"]
               /\ timer' = IF u = Loop THEN "ended" ELSE timer
               /\ UNCHANGED <<nodes, changes, eps, got, events, history>>

Fault == faults < MaxFaults /\ faults' = faults + 1

ListFails(u) == /\ phase[u] = "list"
                /\ Fault
                /\ UNCHANGED at
                /\ Rejected(u)

\* A request for an endpoint fails: that of a node that is gone, or any other.
\* (A failure of the database is made up for by the default city.)
Fails(u, e) ==
  /\ \E from \in {"ask", "weather", "put"} :
       /\ Moves(u, e, from, "failed")
       /\ IF from # "weather" /\ e \notin online THEN UNCHANGED faults ELSE Fault
  /\ Rejected(u)

CityFails(u, e) ==
  /\ Moves(u, e, "city", "weather")
  /\ Fault
  /\ got' = [got EXCEPT ![u][e] = DefaultCity]
  /\ UNCHANGED <<nodes, changes, timer, phase, eps, events, history>>

\* A request to a node is never answered: its promise is pending for ever.
Lost(u, e) ==
  /\ \E from \in {"ask", "put"} : Moves(u, e, from, "lost")
  /\ Fault
  /\ UNCHANGED <<nodes, changes, timer, phase, eps, got, events, history>>

Chain(u, e) == \/ GetMode(u, e) \/ getCityFromSettings(u, e) \/ getWeather(u, e)
               \/ SetColor(u, e) \/ Fails(u, e) \/ CityFails(u, e) \/ Lost(u, e)

updateOnce(u) == \/ ListOnline(u) \/ ListFails(u) \/ Filtered(u) \/ Over(u)

Next == \/ \E e \in Endpoints :
             \/ \E isWeather \in BOOLEAN : PutMode(e, isWeather) \/ modeOrCityChanged(e, isWeather)
             \/ PutColor(e) \/ Registers(e)
             \/ \E c \in Cities : PutSettings(e, c)
        \/ \E c \in Cities, colour \in Colours : WeatherChanges(c, colour)
        \/ updateLoop
        \/ \E u \in Updates : updateOnce(u) \/ \E e \in Endpoints : Chain(u, e)

Spec == Init /\ [][Next]_vars

\* The timer fires, and every request is answered, fails or is lost.
Fairness == /\ WF_vars(updateLoop)
            /\ \A u \in Updates :
                 /\ WF_vars(updateOnce(u))
                 /\ \A e \in Endpoints : WF_vars(Chain(u, e))
            /\ \A e \in Endpoints, isWeather \in BOOLEAN :
                 WF_vars(modeOrCityChanged(e, isWeather))

FairSpec == Spec /\ Fairness

-----------------------------------------------------------------------------
(* Properties. *)

TypeOK ==
  /\ online \in SUBSET Endpoints
  /\ weatherMode \in SUBSET Endpoints
  /\ shown \in [Endpoints -> Colours \cup {Users}]
  /\ city \in [Endpoints -> Cities \cup {Unset}]
  /\ weather \in [Cities -> Colours]
  /\ changes \in [Endpoints -> [BOOLEAN -> 0..MaxEvents]]
  /\ timer \in {"set", "running", "ended"}
  /\ phase \in [Updates -> {"unused", "list", "filter", "map", "over", "failed"}]
  /\ eps \in [Updates -> SUBSET Endpoints]
  /\ at \in [Updates -> [Endpoints -> {"out", "ask", "kept", "dropped", "city",
                                       "weather", "put", "done", "failed", "lost"}]]
  /\ got \in [Updates -> [Endpoints -> Cities \cup Colours \cup {Unset}]]
  /\ events \in 0..MaxEvents
  /\ faults \in 0..MaxFaults
  /\ overtaken \in SUBSET (Updates \X Endpoints)
  /\ intruded \in SUBSET (Updates \X Endpoints)

\* A colour that a client chose in another mode is never replaced by that of
\* the weather, except by an update that asked for the mode before it changed.
IntrudesOnlyWhenOvertaken == intruded \subseteq overtaken

\* The loop goes on as long as none of its requests fails or is lost.
Broken == phase[Loop] = "failed" \/ \E e \in Endpoints : at[Loop][e] = "lost"
LoopGoesOn == []<>(timer = "set" \/ Broken)

\* In the end a node in weather mode shows the colour of its city, however the
\* updates overtook each other - unless the loop is broken.
Local(e) == IF city[e] = Unset THEN DefaultCity ELSE city[e]
WeatherIsShown ==
  <>[](\A e \in online \cap weatherMode : shown[e] = weather[Local(e)] \/ Broken)
=============================================================================
