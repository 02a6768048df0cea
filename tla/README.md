# Moodlight: TLA+ models, checks and proofs

Moodlight is a lamp with sensors: an mbed device drives a ring of 24 LEDs, a
Node.js backend talks to the devices through an mbed device server, stores and
aggregates what they measure, and a browser application shows the statistics and
sets mode and colour. This directory holds TLA+ modules that model the parts of
the program where ordering, concurrency or failure matter, the TLC runs that
check them on small instances, and TLAPS proofs for every value of the constants.

Paths below are relative to `src/`.

## 1. The system and its parts

```
 browser  --HTTP-->  backend  --HTTP-->  device server  --CoAP-->  device
 (frontend/) <-io-- (backend/)  <-PUT /events-- (external) <------  (mbed/)
                      |   \
                   MongoDB  OpenWeatherMap
```

### Backend (`backend/src`, CoffeeScript, one event loop)

| part | state | operations | talks to |
|---|---|---|---|
| asynchronous requests (`device-server/requests.coffee`, `models/async-responses.coffee`) | `pending` (callbacks by id), collection `asyncresponses` with a TTL of 30 s | `add`, `onNotification`, `respond`, `save`, `find` | device server (ids, pushed answers), MongoDB |
| client (`device-server/client.coffee`) | none | `resource` and plain HTTP calls | device server |
| resource API (`rest-api/resources.coffee`) | none | GET and PUT of a resource; emits `resources::modeChanged` | client, weather lights |
| measurements (`models/measurements.coffee`) | collection `measurements` | `create` for each notification; finders | MongoDB |
| aggregation (`database/aggregation.coffee`) | `previousObjectIds`, four collections of sums | a loop of four chains: newest id, saved id, mapReduce, save id | MongoDB |
| weather lights (`ext-weather.coffee`, `ext-weather-updater.coffee`) | a timer, `@rgba` | `updateOnce`, by loop or by event | device server, settings, OpenWeatherMap |
| settings, endpoints | collection `settings` | `save`, `find`; `getMode`, `setColor`, `listOnline` | MongoDB, client |
| startup (`events.coffee`, `app.coffee`, ...) | none | push URL, subscriptions, plugin order | device server |
| statistics API (`rest-api/stats.coffee`) | none | choice of aggregation, alignment of buckets | MongoDB |
| live updates (`socketio.coffee`) | none | forwards notifications | browsers |

Hard here: answers arrive on another connection than the id they belong to;
operations given to the MongoDB driver are spread over a pool of connections;
every callback may be followed by any other; a restart may come between two
database operations; several weather updates run at a time, while clients change
what they have just read.

### Device (`mbed/src`, C++, mbed RTOS threads, round robin, no locks)

| part | state | threads | operations |
|---|---|---|---|
| lights (`core/Lights.cpp`) | `_current`, `_target`, `_generator`, two flags, `_fade_speed` | main; the lights' own | `setColor`, `setGenerator`, `SetPixels`; `doupdate` |
| mode controller (`mode_controller.cpp`, `resources/res_mode.cpp`) | `mode_`, `mode_enum_`, `mode_selected` | main; connection | `Set`, `Run`; GET and PUT of `/mode` |
| modes (`modes/*.cpp`, `res_color.cpp`, `res_spinning.cpp`) | `serverRed` ... `serverSpinning`, members of the mode object | main; connection | `Run` of each mode; PUT of colour and spinning |
| sound sensor (`core/SoundSensor.cpp`) | a buffer of two halves, three flags, beat statistics | reader; processor; main | `ReadData`, `Processor`, `GetValue`, `GetBPM` |
| sensor resources (`resources/res_sensors.cpp`) | token and number of each observation | connection; sender | callbacks, notifications |
| motion sensor (`core/PirSensor.cpp`) | a timer | main; connection; sender | `GetValue` |
| light sensor (`core/LightSensor.cpp`, `SI1143.cpp`) | `LowB`, `HighB`, `VIS`, and the registers of the chip | main; connection; sender | `restart`, `bias`, `GetValue`; `command`, `read_reg`, `write_reg` |
| temperature, transform (`Temperature`, `Hartley`) | none that outlives a call | main; sender; processor | arithmetic |
| connection and start (`connection.cpp`, `main.cpp`) | none of its own | main; connection | the steps of `Connection::init`, registration, message loop |

Hard here: every field above is shared between threads without a lock, and a
thread can be preempted between any two statements. Every step of the start may
fail and none is checked. The main loop waits, in the weather mode, in a driver
that two other threads use.

### Browser (`frontend/src/coffee`, AngularJS)

| part | state | operations | talks to |
|---|---|---|---|
| presentation (`presentation-ctrl.coffee`, `mode-svc.coffee`) | `$scope.state` (`online`, `mode`, `fakeMode`, `busy`), `destroyed` | `init` with a retry every 5 s, `fakeModeChanged`, `modeChanged`, the watch of the colour | backend: mode, colour, spinning |
| statistics (`stats-ctrl.coffee`, `stats-svc.coffee`, `flot-fct.coffee`) | the selection, `@flot.data`, `flotData`, a debounce timer | `update`, `_getRecursiveInterval`, `Flot.add`, `Flot.empty` | backend: statistics API |
| dashboard (`dashboard-ctrl.coffee`) | `online`, `mode` | as the presentation, without `busy` | backend |
| raw data (`raw-data-svc.coffee`), forms, navigation | last values; the endpoint in the path | one call per event or click | socket.io, backend |

Hard here: chains of promises of one page run at the same time and share its
state; requests fail after they were executed, or before; answers come out of
order, late, or after the page was left.

### What makes each part correct

* requests: one reply per request, and the one the device gave; no answered
  request waits for ever; `modeChanged` only after a device accepted a mode.
* aggregation: every measurement in every sum exactly once, across restarts.
* weather lights: nodes in weather mode get the colour of their city, in the
  end; nodes in other modes keep the colour their user chose; the loop goes on.
* lights: what was asked for last is shown in the end; a colour stops a
  generator; a generator starts on a dark ring; levels stay in a byte.
* mode controller: one object, the one reported, and `Run` is called on it.
* modes: whatever bytes `Run` catches, in the end the lights do as the server says.
* sound: samples are stored inside the buffer and outside the half in use;
  halves take turns; the beat is looked for in new lines, which stay as they are
  meanwhile; no caller of `GetBPM` ever stops the recording.
* sensor resources: a notification carries the observer's last token, whole, and
  the next number; an observed sensor goes on being notified.
* light sensor: a call returns the light it had measured itself, and it returns.
* motion sensor: it should report motion when, and only when, some was sampled in
  the last five seconds (it does not, section 4).
* start: whatever fails, the lamp comes to run a mode; a mode set from outside
  comes to be run.
* presentation: when nothing is under way the page shows what the device does, and
  the controls of the choice it marks; it becomes usable after failures; it comes
  to rest when it is left.
* statistics: one answer is drawn, whole, and in the end that of the last
  selection; the fetches of an update come to an end.

## 2. The modules

| module | models | how |
|---|---|---|
| `RequestReply` | the promise of the resource API | abstract specification |
| `AsyncRequests` | requests, async-responses, `client.resource`, the two routes | one action per callback; MongoDB executes operations in any order, fails some, drops expired ones; refines `RequestReply` |
| `AsyncRequests_proofs` | | theorems |
| `Aggregation` | aggregation, `create` | one action per database operation of a chain; crash at any point |
| `WeatherUpdater` | the updater, `updateOnce`, the events that start it | one action per answered request; requests fail or are lost |
| `WeatherUpdater_proofs` | | theorems |
| `Lights`, `MCLights` | the lights | a call is the sequence of its assignments, `doupdate` is split where it reads or writes shared fields |
| `Lights_proofs` | | theorems |
| `ModeControl` | mode controller and `/mode` | one action per statement that touches `mode_` |
| `Modes`, `MCModes` | the modes and the variables the server sets | one action per byte compared, copied, received; one per call to the lights |
| `Modes_proofs` | | theorems |
| `SoundBuffer` | the double buffer | one action per statement that touches a flag or the pointer |
| `Beat` | the ring of flux lines and `GetBPM`, on top of `SoundBuffer` (the complete `SoundSensor`) | the same; increments are a load and a store; any number of callers |
| `Beat_proofs` | | theorems about `SoundBuffer` and `Beat` |
| `SensorNotify` | the observable sensors: sender thread and callbacks of GET | one action per statement that touches a token or a number |
| `SensorCalls` | what callers may expect of the light sensor's driver | abstract specification |
| `LightSensor`, `MCLightSensor` | the driver and its start (`LightSensor.cpp`, `SI1143.cpp`), the chip being external | one action per access to a register and per use of a shared member; refines `SensorCalls` |
| `Sensors_proofs` | | theorems about `SensorNotify` and `LightSensor` |
| `Pir` | the motion sensor | one action per call; the timer wraps |
| `Device` | the composition of `ModeControl`, `Pir` and `SensorCalls` with `main()`, `Connection::init` and the callbacks that read sensors | the actions of the parts, conjoined with whose thread is where |
| `Device_proofs` | | theorems about `ModeControl` and `Device` |
| `Presentation` | the page that sets the mode | one action per answer, click and timer |
| `Statistics` | the page that draws measurements | one action per answer, selection and timer |
| `Browser`, `MCBrowser` | a tab on one of the two pages | the actions of the page that is open |
| `Web_proofs` | | theorems about `Aggregation` and `Browser` |

How they fit together: `Device` composes `ModeControl` (by its steps), `Pir` (by
its steps) and `SensorCalls` (by its promise); `LightSensor` is shown to keep that
promise under an `INSTANCE ... WITH` that maps a call in progress to
`pc[t] # "idle"`. `AsyncRequests` is shown to implement `RequestReply` in the same
way. `Device_proofs` shows that a behaviour of `Device` is one of `ModeControl`.
`Beat` extends `SoundBuffer`; `Browser` puts its two pages side by side. `Modes`
and `Lights` have one boundary with these: a call to the lights, and a mode
replaced between two calls of `Run`.

Definitions carry the names of the functions they model. Definitions whose
comment begins with "Mutant:" are wrong variants of the definition after them:
they are used by no specification, and document for each property a bug of the
code that the property would catch.

**History variables.** Several modules keep a variable the code does not have,
which records that something happened that a property must make an exception
for: `disturbed` (the database reordered, failed or dropped an operation, or an
answer could not be decoded), `interrupted` (how many reductions were written
without their ObjectId being saved), `missed` (an insert was still on its way when
a newer measurement was found to be the newest), `overtaken` (an update that asked
for the mode before it changed; in `SoundBuffer`, a processor faster than the
reader's next statement), `raced`, `unseen` and `overlapped` in `Lights`, `calls`
(two callers were inside `GetBPM` at once), `lapped` (sender and callback were at
the same sensor at once), `spoilt` (another thread was in the driver, or a command
was sent once more after it had been executed), `failed` (a request of a click
failed) and `late` (an answer to an earlier update came after one to a later).
Others measure what a property speaks of: `fresh` and `disturbed` of `Beat` count
the lines of flux recorded since the last reset and since the ring was claimed;
`latest`, `last` and `observed` keep the last token that came, the last number
sent, and the sensors that were answered to an observer; `measured` and `from` say
what was measured, and whose answer is drawn.

An exception is a disjunct of the property, never a guard of an action: the
behaviours remain in the model, and every other behaviour must satisfy the
property without it. What an exception names is misbehaviour of the code, and a
property that excepts it does not catch it: **it checks the remaining
interleavings, not the hazard itself**. The hazards this concerns are

| hazard | excepted by | found by a run |
|---|---|---|
| the insert of an early answer is overtaken (`requests.coffee:45`) | `disturbed` | `AsyncRequestsPool` |
| a find fails (`requests.coffee:26`), an answer has no payload (`:54`) | `disturbed` | no |
| a reduction is repeated after a restart (`aggregation.coffee:156`) | `interrupted` | no |
| an insert becomes visible late (`measurements.coffee:66`) | `missed` | no |
| updates overtake each other (`ext-weather.coffee:58`) | `overtaken` | no |
| a generator is started on a call (`Lights.cpp:158`) | `raced` | no |
| pixels raised by `SetPixels` are not shown (`Lights.cpp:151`) | `unseen` | no |
| the handshake of the sound sensor (`SoundSensor.cpp:39`) | `overtaken` | no |
| two callers of `GetBPM` (half of `SoundSensor.cpp:71`) | `calls` | no |
| a token replaced, or a number counted, while it is sent (`res_sensors.cpp:92`, `:170`) | `lapped` | no |
| two threads in the driver of the light sensor (`SI1143.cpp:72`) | `spoilt` | no |
| answers of an older update come last (`stats-svc.coffee:61`) | `late` | no |
| a click fails (`presentation-ctrl.coffee:85`) | `failed` | no |

Four more are not caught for other reasons. That a mode is deleted under its `Run`
(`mode_controller.cpp:50`) is in `Device`, where such a call does what a `Run` of any
class may do; `NewModeComesToRun` says that the main thread comes out of it, not
that the object exists, for that does not hold. That motion is reported when none
was sampled for long, or ever (`PirSensor.cpp:16`, `:26`), is in `Pir`, of which no
property is checked: what would be left of one is a restatement of `GetValue`. That
`_bmp_pointer` runs past `_smothbpm` (`SoundSensor.cpp:171`) is folded into the
bound of the type invariant of `Beat`. That a change of colour ends a spinning that
is still wanted (`manual_mode.cpp:108`) satisfies `SpinsAsServed`, which says what
spinning may be shown, not that one is. Where a comment or a test of the repository says the
opposite of what the code does, a run of its own shows it (section 4).

### Correspondence and abstractions

*AsyncRequests.* A request stands for its async-response-id (the device server
never gives one twice). `phase` is where `client.resource` is, `pending` the
object of that name, `mongo` the operations given to the driver and not yet
executed, `found` a result whose callback has not run, `stored` the collection.
`OnNotification` is one turn of the loop over `async-responses`. Of a payload only
its absence counts, so a status is one of four: a success, one without a payload
("bare"), a 410, any other error. To decode a payload that is not there throws
(`requests.coffee:54`): the callback is gone from `pending`, nobody is called, and
the rest of the notification is lost. `AnswerNow` decodes nothing and takes such an
answer as it is. `Respond` gives its
error `status`, the routes look at `statusCode`, so a 410 by notification is a
500: the model does what the code does.

*Aggregation.* ObjectIds are numbers given out by `create` (the driver makes
them on the client); an insert becomes visible later, in
any order (a pool of connections). `counted` is the number of
times a measurement went into a collection. `MapReduce` uses exactly the bounds
the query has; with neither, on an empty collection, the query is `{_id: {}}`,
which matches nothing (`Bound`). `interrupted` counts the reductions that were
written while what they got to was not saved. `ChainFails` in "reduce"
leaves any part of the output written (`nonAtomic`). Bucketing and min, max and
total are left out.

*WeatherUpdater.* `at[u][e]` is where the chain of update `u` for endpoint `e`
is; `filter` waits for all modes, then `map` goes on for each endpoint on its
own. A failure rejects the update, what was under way for other endpoints goes
on; the loop restarts its timer only after success. A change of settings starts
nothing, as in the code (below). Clients send the mode as a JSON number.

*Lights.* `Stmt` is an assignment; `todo` holds those a call still has to do,
`lpc` where `doupdate` is. One channel instead of three, a frame is any
brightness, `update` is one step (it disables interrupts), `adjust` is the
function of that name over the levels.

*ModeControl.* Objects are never reused, so a dangling pointer is visible.
`Enter` may use the pointer tested or read it again: the compiler may do either.
A payload that is no mode becomes the byte 0.

*Modes.* `Compare` stops at the first difference, `Copy` copies byte by byte in
the order of the code, and PUTs write bytes in their own order in between.
`spinning` of a new `ManualMode` is uninitialised: any value. `PutMode` replaces a
mode between two calls of `Run` only: what happens if it is deleted during one is
not defined by C++, and is the subject of `ModeControl` and `Device`. A
call to the lights is one step (the rest is Lights').

*SoundBuffer.* The pointer and three flags as in the class; samples and the
transform are left out. `half` is the half whose transform is under way.

*Beat.* Extends `SoundBuffer`: `ProcessHalf` is its `Process` on the one thread
that also records lines (`lpc`). A caller that finds too few lines returns the
last result and changes nothing, so `GetBPM` has no action for it. `calls`
becomes "apart" again only after one call has had the sensor to itself.

*SensorNotify.* A token is a model value; its memory is one of two addresses, so
that `malloc` may return the place just freed or another; `Malloc` may fail. The
values sent are left out. The library copies what it is given a pointer to only
when it builds the message (`Sent`). Both threads read the sensor first, and
that read may never return (`ReadToSend`, `ReadToAnswer`; `LightSensor` shows why):
no fairness is assumed of it, and `SensorsAnswer` is a premise of the two liveness
properties. `Observe` may stop the device where the list of options is cleared
without memory for it, `Respond` where the code reads through a list that is not
there; what a build does with a null pointer is either. `time` is kept modulo
`SEND_DELAY`.

*LightSensor.* `pc[t]` is where a thread is in `command`, in the loop of
`get_...` or in between; `Select` and `Fetch` are the two halves of `read_reg`,
between which another thread may address another register; a write moves the chip's
pointer as well (`WriteReg`). `Start` is the
sequence of commands, registers and measurements the constructors go through. The
chip executes a command some time after it was written, and starts in any state
the last run of the program may have left. `get_ps1` to `get_ps3` differ in their
registers only, and share actions. A sample is a low and a high byte.

*Pir.* The Timer of mbed counts microseconds in a signed int: `Range` ticks until
it turns negative, `Hold` ticks that motion is held. The timer runs from the start,
before anything was sampled.

*Device.* `boot` is the statement of `main()`. `Network` and `Resources` may fail
in any of their steps; what remains is whether requests arrive (`served`). A
callback occupies the connection's thread, so that `/mode` is not set while it
reads a sensor. `EndRun` lets `Run` of the weather mode return only when it has
read both sensors; that of the manual mode samples the motion sensor in one call of
ten (`ReadLevel`); an object that was deleted is memory that may be anything. Time
counts from the moment the sensors are constructed.

*Presentation.* A chain is a record of its position, of its request (on its way,
or answered), of what was clicked, and of how it goes on after an `init`. The
`catch` of `modeChanged` returns `init()` (`ChangeFails`): the chain of a click that
failed goes through `init`, with every retry of it, and only then does what a
successful one does: it shows what was clicked, and sends the spinning (`GoesOn`,
`Continue`). After a retry that is in a later digest (`Resume`), and `init` has
enabled the buttons by then. A request fails because the device cannot be reached
or because its answer is lost after it was executed. The view is digested at once,
and nobody else sets the mode.

*Statistics.* A selection stands for a period and its sensors, `Match` for
`_matchInterval`, `Ratio` for the quotient of two intervals, `Enough` for
`TARGET_DATA_POINTS`. There is one series. No finder of the backend sorts
(`models/measurements.coffee:37-41`, `rest-api/stats.coffee:44`, `:74`), and the time
in an ObjectId is in seconds: an answer is any sequence of items. `Add` has the three
branches of `Flot.add`, a point that is there already included. What the promises
make of one answer (emptying `@flot`, adding each point) is one step, since Bluebird
drains its queue before the next response is handled; `AddAll` adds point after
point and is a recursive function, about which one can prove what one could not of
a fold.

## 3. The runs

| run | question | bounds and why they are enough |
|---|---|---|
| `AsyncRequests` | one truthful reply per request, whatever the database does; is anything left waiting that nothing disturbed? | a GET and a PUT of mode (both branches of every test; requests only meet in `mongo` and in a notification), 2 copies of a push (the second one finds another state than the first), answers with and without a payload |
| `AsyncRequestsPool` (violated) | is an early notification always matched? | no failures, no expiry, every answer with its payload: only order |
| `Aggregation` | nothing skipped but an overtaken insert, nothing twice but by an interrupted reduction, all counted in the end | two collections (independent failure), 2 measurements (one below, one above the saved id; the second can overtake the first), starting empty; 2 failures or restarts (one may hit what the other left) |
| `WeatherUpdater` | user colours respected, nodes in weather mode right in the end, the loop goes on | 2 nodes, 2 cities, 2 colours, 2 events (mode and colour; two updates besides the loop), 1 fault |
| `Lights` | what is shown in the end; that a colour stops a generator; that a generator starts on a dark ring | 2 pixels (different targets), levels 0..2, a gamma table that darkens, 2 calls (the second meets what the first left), fade speeds 1 and 2 |
| `Modes` | colour, generator and mode in the end | 3 colours of bytes 0 or 1 that differ pairwise in several bytes, one of them the constructor's; 3 PUTs |
| `Device` | whatever fails at the start: one mode object, the one reported; a mode that is set is run in the end | 2 PUTs of every payload (a mode replaced while the one before it is run), 3 threads (all that read sensors), motion held 1 tick of a range of 2: the timer holds, is over and wraps |
| `LightSensor` | is a reading the light that was measured, and does a call return? | 2 threads (the least that meet), dark and bright samples that differ in both bytes, base 2, a mean of 2 samples |
| `Browser` | do the pages show what is set and selected, and come to rest? | a device that spins, one that does not, one in another mode; 2 clicks (the second overtakes the first), 1 lost answer (and any number of failures while the device cannot be reached); 3 selections of 2, of intervals 3 and 1, answers of 0, 1 and 3 items where 2 points are enough, out of order, with one item twice and with two of one time, ratios that make the next interval too large or not |
| `Beat` | samples inside the buffer and outside the half in use; new lines, undisturbed while searched; recording never ends | halves of 2 slots, a ring of 2 lines, 1 slot of smoothing: more only repeats the steps in between; 2 callers, the least that meet |
| `SensorNotify` | whole tokens, numbers that advance, a ready sensor is notified | 1 sensor (the four share only the clock and the thread), 3 numbers (the number wraps while a notification is under way), 2 tokens (the old and the new one), every second round sends |
| `SensorNotifyWrap` (violated) | does an observer who has an answer go on being notified? | the same with 1 token |

Deadlock is checked but for `AsyncRequests` and `WeatherUpdater`, which stop
when all requests are done, or the loop has ended and the bounded events are
over, for `SensorNotify`, where an access through a null pointer may stop
the device, and for `Browser`, whose pages come to rest.

**Fairness.** Backend: a callback whose event has happened is run by Node
(`Add`, `OnNotification`, `FindReturns`, `modeOrCityChanged`, the steps of
`updateOnce`, the timers), and the database executes what it was given
(`Execute(1)`, `Commit`, `Chain`). No device is obliged to answer, no client to
ask, and nothing need fail. In `WeatherUpdater` a request to a node may be lost
for good, since `requests.coffee` has no timeout. Device: each thread gets its
time slices (round robin), so each thread as a whole is weakly fair; no PUT and
no call by a mode need ever come; nobody need ask for the beat or for a sensor,
but a call of `GetBPM` that was begun goes on. In `SensorNotify` both threads are fair
but for their reads of the sensor, which need not return. `LightSpec` adds that
the chip executes the command it was given. `DeviceSpec` has one condition per
step of `main()`, one for `SetMode`, one for `RunMode`; of the driver it assumes no
more than `SensorCalls` promises, that a thread alone in it gets its answer. Whoever
asks for a value, and time, are not fair. Browser: a page's requests are answered
one way or the other and its timers run off, so one condition for all it has left
to do (`PageGoesOn`, `StatsGoOn`); nobody need click, and whether the device can
be reached is not fair at all (`BecomesUsable` supposes it, by `<>[]reachable`).
Bounds on events mean that liveness says: once the outside is quiet.

## 4. What the checks show

Besides the properties that hold, a statement of a comment and one of a test do not:

* *An early notification is found in the database* (test "when notification
  comes before adding"). The insert of `onNotification` and the find of `add`
  are sent on different connections. If the find is executed first the request
  hangs: nothing times it out (`EarlyAnswerIsFound`; `NoneStranded` shows that
  this, failures, expiry and an answer without a payload are the only ways).
* *The sending rate is defined by SEND_DELAY* (`res_sensors.cpp:78`). The
  observation number is a byte, and the value 0 also means "not observed". When
  the number wraps to 0 the sender skips the sensor from then on, and an observer
  hears nothing more until it asks again (`ObservedIsNotified`; `ReadyIsNotified`
  shows that only this, a token that is missing when the notification is due, and
  a sensor whose read never returns silence it).

Observations made while modelling, that no run states on its own:

* "Stops generator if it was set" (`Lights.h:28`) does not hold if `setColor` runs
  between the test of `_useGenerator` and `_generatorReady = true`
  (`ColorStopsGenerator` excepts exactly that, by `raced`).
* "Skip data if not processed" (`SoundSensor.cpp:30`): if the processor finishes
  between `_ready = true` and `_processed = false`, data is skipped for ever
  (`SkipsOnlyUnprocessed` excepts exactly that, by `overtaken`). Swapping the two
  assignments would mend it.
* "Runs the logic for the current mode" (`mode_controller.hpp:23`): a PUT of `/mode`
  deletes the object whose `Run` is under way, or about to begin, on the other thread.
* "true if pir is active (sensing people), false othervise" (`PirSensor.h:29`): the
  constructor starts the timer that is compared with five seconds, so for the first
  five motion is reported with none sampled; and the timer wraps after 36 minutes
  without motion, so for as long again motion is reported that is long over.
* Two threads in the driver of the light sensor may keep each other there: one
  clears the response the other waits for, and causes one the other wants gone
  (`SI1143.cpp:73-82`). In the weather mode this holds up the main loop. And they
  use each other's samples: `read_reg` is two accesses, `LowB`, `HighB` and `VIS`
  are members.
* `get_aux` returns 0 whatever it reads (`SI1143.cpp:233` assigns to the wrong
  variable); it is never called, nor is `get_ir`.
* `presentation-ctrl.coffee:82-85`: the chain of a click that failed waits for the
  `init` its `catch` returns, and then goes on as if it had not failed: one click on
  Music while the device cannot be reached ends with an idle page that shows Music,
  though `init` has just read another mode (`ShowsWhatIsSet` excepts that, by
  `failed`). `mode.setManualSpinning` may fail with the same effect; nobody looks. The
  `init` clears `busy`, so the next click may be made before this one has gone on. And
  a click that waits to try again when the page is left still sets the spinning.
* `stats-svc.coffee:61`: nothing discards an answer to an earlier update that comes
  last: the page then shows what is not selected any more (`DrawsSelected` excepts
  that, by `late`).
* `flot-fct.coffee:30-34`: a point later than all is put in front. An answer 1, 3, 2,
  and the backend sorts none, is drawn 2, 3, 1; nothing in the repository says in
  which direction the line has to run.
* `requests.coffee:54`: an answer without a payload throws in the loop over the
  responses. Its request and those behind it in the notification are never replied to
  (`NoneStranded` excepts them, by `disturbed`).
* `requests.coffee:50` sets `err.status`, `resources.coffee:45` and `67` read
  `err.statusCode`: a 410 that arrives by notification is answered as 500.
* `settings.coffee:34` emits `cityChanged` without `mode`, so
  `modeOrCityChanged` never updates: the new city is used in the next round.
* `ext-weather-updater.coffee:39` ends the loop on the first failure of any
  request for any node; a lost answer stops it as well.
* `ext-weather.coffee:57-61` keeps the colour in a `this` shared by all nodes,
  so the colours `updateOnce` resolves with may all be the last one computed.
* `SetPixels(fast)` raises `_current` itself; `doupdate` then finds nothing to
  adjust and does not write the strip until something else changes (`unseen`).
* `manual_mode.cpp:108-117`: a change of colour while the lights spin calls
  `setColor`, which ends the spinning the server still asks for; the same
  happens at the start if the uninitialised `spinning` has the server's value.
* A new `ManualMode` shows nothing while the server's values equal those of its
  constructor (`Unnoticed`).
* `res_mode.cpp:31` assigns the byte 0, not the digit, to `mode_selected`.
* A restart between mapReduce and `updatePreviousObjectId` makes the next round
  count the same measurements again (`CountedOnce` shows that this, and a reduction
  that fails half-way, are the only ways to count twice).
* An insert that is executed after that of a newer measurement, with the newest
  ObjectId read in between, is below the saved ObjectId for ever: it is in no sum
  (`NothingSkipped` excepts exactly that).
* With two callers inside `GetBPM` the first to finish clears `_reading_flux`
  under the other (`SearchedUndisturbed`). `_bmp_pointer` is compared after the
  increment with `>`, so it indexes one slot past `_smothbpm`
  (`SoundSensor.cpp:170-171`, the type invariant says by how much).
* A plain GET of a sensor replaces the token its notifications carry
  (`res_sensors.cpp:154`), and lines 165 and 173 use an options list that a
  request or response without options does not have.

## 5. The proofs

The eight modules named `..._proofs` are checked by TLAPS. They assume nothing but
the named ASSUMEs of the modules, which give constants their types and say little
else: `fft` is at least 2, `gamma` keeps black black, the threads that are named
differ. Every invariant and every action property that a passing run checks is a
theorem here, and so is the refinement of `RequestReply`, for all values of the
constants: any number of clicks, callers, threads, pixels, endpoints, measurements,
failures. Each proof has the same shape:
an inductive invariant that was checked by TLC on the instance of the run first,
one lemma for each action, and the theorems as its consequences.

### Backend

* `AsyncRequests_proofs`. `TypeOK` is inductive by itself; the one
  obstacle is `mongo`: what `Append`, `SubSeq` and concatenation do to a sequence
  of operations is stated once in `WithoutProperties`, `AppendOp`, `ExecutedOp`.
  `RepliesAreTheDevices`: a reply may come from a saved answer, so
  `CopiesAreFaithful` adds that whatever is in an insert, in the collection or in
  a result is the device's answer, and that a push exists only after an answer.
  `ImplementsRequestReply`: with that, each step is a step of `RequestReply` or
  leaves `answer`, `reply`, `announced` alone. `NeverStranded`: `NothingLost`
  says, for an undisturbed state, where a request's answer is: with a callback
  pending and a push or nothing yet sent; or in an insert queued before the find;
  or stored with the find queued; or found. The order of the operations of one
  request is part of the invariant, no order among different requests is assumed.
* `Web_proofs`, first part (`Aggregation`). `NothingSkipped` and `CountedOnce` say
  nothing of the steps of a chain. For each collection the invariant adds
  `Reached` (both ObjectIds are those of stored measurements, the one read is not
  below the one saved, the bound of the query is the one saved), `Missing` (what
  is on its way below them was overtaken), `Covered` and `Single` (what is reduced
  but not yet saved is counted; once, beside what interrupted reductions added).
  From them `TypeCorrect`, `NoneLeftOut`,
  `NothingCountedTwice` and the action property `WatermarkNeverFalls`.
* `WeatherUpdater_proofs`. An update that found its node in weather mode is right
  about it until the mode changes, and `overtaken` from then on (`Asked`);
  `Chained` types what one request hands to the next; `Quiet` says when an update
  has nothing under way; `Counted` bounds the numbers of changes. From them
  `LeavesOtherModesAlone`, and `RoundsDoNotOverlap`: the loop never sets its timer
  while a request of its last round is under way or lost.

### Device

* `Beat_proofs`. For `SoundBuffer`, `Handshake` relates flags and program counters
  (the reader owns a half between the check and the claim), `Position` says on
  which side of the boundary the pointer is when `_partition` has a value, `Order`
  that `turns` is the half processed before: `HalvesDisjoint`,
  `SkipsOnlyWhileProcessing`, the action property `HalvesInTurn`, for every length
  of a half. `ImplementsSoundBuffer` carries them over to the whole sensor
  (`SensorKeepsHalvesApart`). For the ring, `Solo` and `FoundFull` say that callers
  that have not crossed are inside one at a time and find what they tested; `Held`
  that the ring is claimed while it is searched, by which at most the line begun
  may still change; `Counted` and `Loaded` bound the count by the lines that are
  fresh, through its load and its store; `PointerInv` counts the callers that have
  moved `_bmp_pointer` and not wrapped it yet. From them `BeatTypeCorrect`,
  `SearchedWhenFresh`, `SearchIsUndisturbed`, and `RingIsReleased`: no crossing of
  callers leaves `_reading_flux` set with nobody inside.
* `Device_proofs`. For `ModeControl`, `Stage` says which objects exist at each step
  of `Set`, `Installed` what is reported: `OneModeAlways`, `ReportedModeIsTrue`.
  `ImplementsModeControl` shows that each step of the device is a step of
  `ModeControl` or leaves its variables alone, so they hold of the device as well
  (`DeviceHasOneMode`, `DeviceReportsItsMode`).
* `Modes_proofs`. That the lights follow the motion is not inductive: `Known` says
  where `Run` is and what its local variable `already_spinning` says of the lights
  between the reading of the sensor and the command. `Flags` and `Data` are the
  types, apart because no prover treats truth values and the rest at once. From
  them `TypeCorrect` and `WeatherSpinsWithMotion`.
* `Lights_proofs`. `Ordered` says what statements a call still has to execute and in
  which order; `Arriving`, of every field, that it has the value asked for or the
  statement that gives it is to come; `Round`, of a round of `doupdate` without
  calls, that the pixels compared so far have arrived. From them `TypeCorrect`
  (each step of a fade keeps a level in range and moves towards the target, lemmas
  of the first section), `CallsTakeEffect`, `GeneratorStops` and the action
  property `StartsDark`. That a colour stops the generator rests on `useGenerator`
  being FALSE too, unless `raced`: otherwise `doupdate` would start one again.
* `Sensors_proofs`, first part (`SensorNotify`). Sender and callback disturb each
  other only at the same sensor, and are `lapped` then until they leave (`Met`); a
  thread that is not finds the token (`TokenKept`) and the number (`NumberKept`) it
  left, however long it reads the sensor in between; a number that differs from that
  of the last message belongs to one about to be sent (`Owed`). From them
  `LatestTokenIsCarried` and `EveryNumberAdvances`.
* `Sensors_proofs`, second part (`LightSensor`). A call that is not `spoilt` is
  alone in the driver, and the registers and members hold what it left there
  (`HeldAlone`); that a sample of its own exists rests on what the constructors
  did (`SetUp`) and that they did it alone (`Jobs`): `MeasuredDuringTheCall`.

### Browser

* `Web_proofs`, second part (`Presentation`). `ShowsWhatIsSet` speaks of an idle
  page; while chains work and no click has failed, one chain at most does, and nobody
  can click meanwhile (`Alone`); what it has found or done is still so (`Right`). A
  chain of a failed click may meet others, and all that is left then is that the
  choice and the mode agree, or some `init` is still to show what it reads
  (`Agree`, `Mending`). From them `ShowsTheDevice` and `ChoiceIsOfTheMode`.
* `Web_proofs`, third part (`Statistics`). `AddIs` says what a point does to a series,
  `FillIs` what the series of an answer is, with any number of items in any order, by
  induction over the points: the library's induction rules take a predicate as a
  parameter, which the provers cannot instantiate, but its theorem on minimal
  elements takes a set, and `SetInduction` follows from it. `StatsInv` follows the
  newest update from the timer (`UpToDate`) to the chart (`InTurn`). From them
  `ChartIsOneAnswer`, `ChartIsOfSelection`.

### Only model-checked

All liveness properties: LS4 handles no fairness over parameterised actions, and
ENABLED is out of the provers' reach. These are `AnsweredIsReplied`,
`EverythingCounted`, `LoopGoesOn`, `WeatherIsShown`, `SettlesOnWanted`,
`ColourSettles`, `SpinsAsServed`, `ModeTakesOver`, `LinesGoOn`,
`StartsWhateverFails`, `NewModeComesToRun`, `ReadyIsNotified`, `BecomesUsable`,
`RestsWhenLeft`, `UpdateEnds`, and the `KeepsPromise` of the light sensor, by which a
thread alone in its driver returns. Proved but in no run are
the types of each module but `Beat`, `ReplyIsTheDevices`, `WatermarkGrows`,
`HalvesAlternate`, `ReleasedAfterUse`, `CallTookEffect`, `OneRound`.

## 6. Not modelled

* Startup of the backend, push URL and subscriptions; the statistics API; live
  updates: the first is planned, the others keep no state.
* Dashboard, raw data, forms of the browser: as the presentation without `busy`, or
  one call per event.
* Temperature, the Hartley transform, the colours of the music mode, the bit pattern
  on the SPI wire, the factor of the ambient light: arithmetic on values that no
  property tells apart.
* `fader.cpp`, `leds.cpp`, `timer_for_leds_in_thread.cpp`, `main_ds.cpp`,
  `main_example.cpp`: not used by `main.cpp`, or not built.
* Registration and CoAP (the vendored nsdl library), the Timer, RTOS and I2C of
  mbed, the SI1143 itself, MongoDB, the mbed device server: external; modelled by
  how the code uses them, where it does. Third-party code of the frontend.

## 7. Plan

Done, in this order: requests, lights, sound, mode controller, aggregation, modes,
weather, beat, sensor notifications; light and motion sensor, the device composed
of them, and the two pages of the browser.

Next, the order being that of what can go wrong most:

1. Proofs: what `Modes` promises of a colour once `Run` has been through it; safety
   lemmas the liveness properties rest on (`StatsGoOn` makes intervals shorter, a
   pixel nears its target in each round).
2. `Startup` of the backend: notifications that come before the database is there.
3. The lights in `Device`, in the place of `Modes`' abstract commands.
4. `ColourCodec` (32-bit colours in backend, device, browser, checked against a
   reference over bounded inputs), `StatsQuery` (alignment of buckets).
