----------------------------- MODULE Device_proofs -----------------------------
(***************************************************************************)
(* Theorems about ModeControl, for every number of PUTs, and about Device. *)
(*                                                                         *)
(* The inductive invariant of ModeControl follows the connection thread    *)
(* through Set: Stage says which objects exist and where mode_ points at   *)
(* each of its steps.  What holds of the mode carries over to Device, of   *)
(* which every step implements one of ModeControl.                         *)
(***************************************************************************)
EXTENDS Device, TLAPS


\* Which objects exist, and where mode_ points, at each step of Set.  The
\* current mode is always the object that was created last.
Stage == /\ cpc \in {"idle", "delete"} => mode = created /\ live = {mode}
         /\ cpc \in {"null", "new"}    => live = {}
         /\ cpc # "idle"               => created <= MaxSets

\* The mode asked for last is the one reported, and the one installed unless
\* its Set is still under way.
Installed == /\ request = selected
             /\ cpc = "idle" => class[mode] = ClassOf(selected)

IInv == TypeOK /\ Stage /\ Installed

\* The class of an object that New creates is one of the three classes.
LEMMA ClassOfIsAClass == \A m : ClassOf(m) \in {"Manual", "Music", "Weather"}
  BY DEF ClassOf

\* At start the one object is the manual mode, and nobody uses it.
LEMMA InitInv == Init => IInv
<1> SUFFICES ASSUME Init PROVE IInv
  OBVIOUS
<1>1. 1 \in Objects /\ class[1] = "Manual"
  BY ModeAssumption DEF Init, Objects
<1>2. TypeOK
  BY <1>1 DEF Init, TypeOK, Digits
<1>3. Stage
  BY DEF Init, Stage
<1>4. Installed
  BY <1>1 DEF Init, Installed, ClassOf
<1> QED BY <1>2, <1>3, <1>4 DEF IInv

\* The invariant holds after each step of either thread.
LEMMA NextInv == IInv /\ [Next]_vars => IInv'
<1> SUFFICES ASSUME IInv, [Next]_vars PROVE IInv'
  OBVIOUS
<1> USE ModeAssumption
<1>1. ASSUME NEW payload \in Payloads, Put(payload) PROVE IInv'
  <2>1. TypeOK'
    BY <1>1 DEF Put, main, IInv, TypeOK, Digits, Zero
  <2>2. Stage'
    BY <1>1, SMT DEF Put, main, IInv, TypeOK, Stage, Objects
  <2>3. Installed'
    BY <1>1 DEF Put, IInv, Installed
  <2> QED BY <2>1, <2>2, <2>3 DEF IInv
<1>2. ASSUME Delete PROVE IInv'
  <2>1. TypeOK'
    BY <1>2 DEF Delete, main, IInv, TypeOK
  <2>2. Stage'
    BY <1>2 DEF Delete, main, IInv, Stage
  <2>3. Installed'
    BY <1>2 DEF Delete, IInv, Installed
  <2> QED BY <2>1, <2>2, <2>3 DEF IInv
<1>3. ASSUME SetNull PROVE IInv'
  <2>1. TypeOK'
    BY <1>3 DEF SetNull, main, IInv, TypeOK
  <2>2. Stage'
    BY <1>3 DEF SetNull, main, IInv, Stage
  <2>3. Installed'
    BY <1>3 DEF SetNull, IInv, Installed
  <2> QED BY <2>1, <2>2, <2>3 DEF IInv
<1>4. ASSUME New PROVE IInv'
  \* The number of the new object is one that was never used.
  <2>1. created' \in Objects /\ created' = created + 1
    BY <1>4, SMT DEF New, IInv, TypeOK, Stage, Objects
  <2>2. TypeOK'
    BY <1>4, <2>1, ClassOfIsAClass DEF New, main, IInv, TypeOK
  <2>3. Stage'
    BY <1>4, <2>1 DEF New, IInv, Stage
  <2>4. Installed'
    BY <1>4, <2>1 DEF New, IInv, TypeOK, Installed
  <2> QED BY <2>2, <2>3, <2>4 DEF IInv
<1>5. ASSUME Test PROVE IInv'
  <2>1. TypeOK'
    BY <1>5 DEF Test, connection, IInv, TypeOK
  <2>2. Stage' /\ Installed'
    BY <1>5 DEF Test, connection, IInv, Stage, Installed
  <2> QED BY <2>1, <2>2 DEF IInv
<1>6. ASSUME Enter PROVE IInv'
  <2>1. TypeOK'
    BY <1>6 DEF Enter, connection, IInv, TypeOK
  <2>2. Stage' /\ Installed'
    BY <1>6 DEF Enter, connection, IInv, Stage, Installed
  <2> QED BY <2>1, <2>2 DEF IInv
<1>7. ASSUME Return PROVE IInv'
  <2>1. TypeOK'
    BY <1>7 DEF Return, connection, IInv, TypeOK, NULL
  <2>2. Stage' /\ Installed'
    BY <1>7 DEF Return, connection, IInv, Stage, Installed
  <2> QED BY <2>1, <2>2 DEF IInv
<1>8. ASSUME UNCHANGED vars PROVE IInv'
  BY <1>8 DEF vars, IInv, TypeOK, Stage, Installed
<1> QED
  BY <1>1, <1>2, <1>3, <1>4, <1>5, <1>6, <1>7, <1>8 DEF Next, Set, Run

\* The invariant holds in every reachable state.
LEMMA InvHolds == Spec => []IInv
  BY InitInv, NextInv, PTL DEF Spec

-----------------------------------------------------------------------------

\* mode_controller.cpp never leaves the set of objects it made, and neither do
\* the pointers it keeps or reads.
THEOREM TypeCorrect == Spec => []TypeOK
<1>1. IInv => TypeOK
  BY DEF IInv
<1> QED BY <1>1, InvHolds, PTL

\* Between two calls of Set exactly one mode object exists and mode_ points to
\* it, after any number of changes of the mode.
THEOREM OneModeAlways == Spec => []OneMode
<1>1. IInv => OneMode
  BY DEF IInv, Stage, OneMode
<1> QED BY <1>1, InvHolds, PTL

\* What a GET of /mode reports is what is installed, whatever was PUT before.
THEOREM ReportedModeIsTrue == Spec => []ReportedModeIsInstalled
<1>1. IInv => ReportedModeIsInstalled
  BY DEF IInv, Installed, ReportedModeIsInstalled
<1> QED BY <1>1, InvHolds, PTL

-----------------------------------------------------------------------------
(* Device. *)

\* Whatever thread takes it, a step of the device is one of ModeControl, or leaves
\* its variables alone.
LEMMA DeviceStepsModes == [DeviceNext]_all => [Next]_vars
<1> SUFFICES ASSUME [DeviceNext]_all PROVE Next \/ UNCHANGED vars
  OBVIOUS
<1>1. CASE Sensors \/ Network \/ Resources \/ InitMode
  BY <1>1 DEF Sensors, Network, Resources, InitMode
<1>2. CASE \E payload \in Payloads : PutMode(payload)
  BY <1>2 DEF PutMode, Next
<1>3. CASE SetMode
  BY <1>3 DEF SetMode, Next
<1>4. CASE \E t \in {Connection, Sender} : GetMotion(t) \/ GetLight(t) \/ GotLight(t)
  BY <1>4 DEF GetMotion, GetLight, GotLight
<1>5. CASE RunMode
  BY <1>5 DEF RunMode, CallRun, ReadMotion, ReadLight, ReadLevel, EndRun, Next, Run
<1>6. CASE RunOn \/ Time
  BY <1>6 DEF RunOn, HaveLight, Time
<1>7. CASE UNCHANGED all
  BY <1>7 DEF all
<1> QED BY <1>1, <1>2, <1>3, <1>4, <1>5, <1>6, <1>7 DEF DeviceNext

-----------------------------------------------------------------------------

\* The device implements ModeControl: no thread disturbs the mode in a way that
\* mode_controller.cpp and res_mode.cpp do not.
THEOREM ImplementsModeControl == DeviceSpec => Spec
<1>1. DeviceInit => Init
  BY DEF DeviceInit
<1> QED BY <1>1, DeviceStepsModes, PTL DEF DeviceSpec, DeviceSafe, Spec

\* The mode the device reports is the one whose object is installed.
THEOREM DeviceReportsItsMode == DeviceSpec => []ReportedModeIsInstalled
  BY ImplementsModeControl, ReportedModeIsTrue, PTL

\* And between two calls of Set there is one mode object, the current one.
THEOREM DeviceHasOneMode == DeviceSpec => []OneMode
  BY ImplementsModeControl, OneModeAlways, PTL

=============================================================================
