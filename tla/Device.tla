-------------------------------- MODULE Device --------------------------------
(***************************************************************************)
(* The threads of the device together (mbed/src/main.cpp and connection/): *)
(* main() constructs the sensors, starts the connection and then runs the  *)
(* current mode for ever; the thread of the connection executes the        *)
(* callbacks of CoAP one at a time; a third thread, which is started with  *)
(* the resources of the sensors, sends notifications.  ModeControl, Pir    *)
(* and SensorCalls say what the parts do, this module who does it when:    *)
(* Run of WeatherLightMotionMode reads both sensors and Run of ManualMode  *)
(* the motion sensor, which the callbacks and the sender read too, and     *)
(* returns only when their drivers do.                                     *)
(***************************************************************************)
EXTENDS ModeControl, Pir, SensorCalls

CONSTANTS Main, Connection, Sender   \* the threads

ASSUME DeviceAssumption ==
  /\ Threads = {Main, Connection, Sender}
  /\ Cardinality(Threads) = 3

VARIABLES
  boot,     \* main(): "sensors", "network", "resources", "mode", "running"
  online,   \* Ethernet, the UDP port and the server's address could be had
  served,   \* the resources and the sender exist, the endpoint is registered
  read      \* what the Run that is executing has read: "none", "motion", "light",
            \* or in the manual mode "level"

device == <<boot, online, served, read>>
all    == <<vars, pir, inside, device>>

DeviceInit == /\ Init /\ PirInit /\ CallsInit
              /\ boot = "sensors"
              /\ online = FALSE /\ served = FALSE
              /\ read = "none"

\* main(): the sensors are constructed, which LightSensor says returns.
Sensors == /\ boot = "sensors"
           /\ boot' = "network"
           /\ UNCHANGED <<vars, pir, inside, online, served, read>>

\* Connection::ethernet_init and nsp_init, any step of which may fail.  Init
\* goes on whatever they return.
Network == /\ boot = "network"
           /\ online' \in BOOLEAN
           /\ boot' = "resources"
           /\ UNCHANGED <<vars, pir, inside, served, read>>

\* Mutant: a failure ends init.
ResourcesRequired == /\ boot = "resources" /\ online
                     /\ served' \in BOOLEAN
                     /\ boot' = "mode"
                     /\ UNCHANGED <<vars, pir, inside, online, read>>

\* Connection::create_resources.  There may be no memory for it, or no answer
\* of the device server.
Resources == /\ boot = "resources"
             /\ served' \in {FALSE, online}
             /\ boot' = "mode"
             /\ UNCHANGED <<vars, pir, inside, online, read>>

\* ModeController::Init, which leaves the state ModeControl begins with.  Only
\* then is the thread of the connection started.
InitMode == /\ boot = "mode"
            /\ boot' = "running"
            /\ UNCHANGED <<vars, pir, inside, online, served, read>>

\* mode_resource_cb, while no other callback is under way.
PutMode(payload) == /\ boot = "running" /\ served
                    /\ Connection \notin inside
                    /\ Put(payload)
                    /\ UNCHANGED <<pir, inside, device>>

SetMode == Set /\ UNCHANGED <<pir, inside, device>>

\* A thread other than main reads a sensor: in a callback of the connection, or
\* for a notification, which the sender sends once a callback has left it a token.
MayRead(t) == boot = "running" /\ served /\ (t = Connection => cpc = "idle")

GetMotion(t) == /\ MayRead(t) /\ t \notin inside
                /\ \E active \in BOOLEAN : Sample(active)
                /\ UNCHANGED <<vars, inside, device>>

GetLight(t) == /\ MayRead(t)
               /\ Call(t)
               /\ UNCHANGED <<vars, pir, device>>

GotLight(t) == /\ t # Main
               /\ Answer(t)
               /\ UNCHANGED <<vars, pir, device>>

\* May the Run that is executing be that of a class?  An object that was deleted
\* is memory that may be anything.
RunIsOf(c) == this \in live => class[this] = c

\* Run of the weather mode: motion = pir->GetValue(), and then the light.
ReadMotion == /\ mpc = "running" /\ RunIsOf("Weather") /\ read = "none"
              /\ \E active \in BOOLEAN : Sample(active)
              /\ read' = "motion"
              /\ UNCHANGED <<vars, inside>>

ReadLight == /\ mpc = "running" /\ read = "motion"
             /\ Call(Main)
             /\ read' = "light"
             /\ UNCHANGED <<vars, pir>>

HaveLight == /\ Answer(Main)
             /\ UNCHANGED <<vars, pir, read>>

\* Run of the manual mode, one call in ten: pir->GetValue() for the brightness.
ReadLevel == /\ mpc = "running" /\ RunIsOf("Manual") /\ read = "none"
             /\ \E active \in BOOLEAN : Sample(active)
             /\ read' = "level"
             /\ UNCHANGED <<vars, inside>>

\* A call of Run begins, or ends: the weather mode's with both values read.
CallRun == /\ Test \/ Enter
           /\ UNCHANGED <<pir, inside, read>>

EndRun == /\ Main \notin inside
          /\ \/ read \in {"light", "level"}
             \/ read = "none" /\ (RunIsOf("Manual") \/ RunIsOf("Music"))
          /\ Return
          /\ read' = "none"
          /\ UNCHANGED <<pir, inside>>

RunMode == /\ boot = "running"
           /\ CallRun \/ ReadMotion \/ ReadLight \/ ReadLevel \/ EndRun
           /\ UNCHANGED <<boot, online, served>>

RunOn == HaveLight /\ UNCHANGED <<boot, online, served>>

\* The timer counts from the moment the sensor is constructed.
Time == /\ boot # "sensors"
        /\ Tick
        /\ UNCHANGED <<vars, inside, device>>

DeviceNext == \/ Sensors \/ Network \/ Resources \/ InitMode
              \/ \E payload \in Payloads : PutMode(payload)
              \/ SetMode
              \/ \E t \in {Connection, Sender} : GetMotion(t) \/ GetLight(t) \/ GotLight(t)
              \/ RunMode
              \/ RunOn
              \/ Time

DeviceSafe == DeviceInit /\ [][DeviceNext]_all

\* Each thread goes on with what it has begun; the driver of the light sensor
\* keeps its promise and no more; nobody need ask or change the mode.
DeviceSpec ==
  /\ DeviceSafe
  /\ WF_all(Sensors) /\ WF_all(Network) /\ WF_all(Resources) /\ WF_all(InitMode)
  /\ WF_all(SetMode) /\ WF_all(RunMode)
  /\ WF_all(inside = {Main} /\ RunOn)
  /\ \A t \in {Connection, Sender} : WF_all(inside = {t} /\ GotLight(t))

-----------------------------------------------------------------------------
(* Properties. *)

\* Whatever of the start fails, the device comes to run a mode, without a network,
\* too; requests for other modes that arrive from the first moment do not stop it.
StartsWhateverFails == <>(mpc = "running")

\* A mode that was set comes to be run, although Set may delete the object that Run
\* is executing on, or is about to, and the call then does whatever it finds in its
\* place; unless another mode is set, or two threads hold each other up in the driver
\* of the light sensor, which is the one place where a mode waits.
NewModeComesToRun ==
  \A o \in Objects :
    boot = "running" /\ cpc = "idle" /\ mode = o
      ~> this = o \/ cpc # "idle" \/ Cardinality(inside) > 1
=============================================================================
