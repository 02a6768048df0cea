------------------------------ MODULE Presentation ------------------------------
(***************************************************************************)
(* frontend/src/coffee/presentation-ctrl.coffee and mode-svc.coffee: the   *)
(* page that shows the mode of a device and sets it.  The controller runs  *)
(* chains of promises.  That of the page itself is init, which reads the   *)
(* mode and the spinning and is tried again when a request fails.  That of *)
(* a click sets the mode, shows it, and sends the spinning; if the mode    *)
(* cannot be set, it goes through init, retries included, and then goes on *)
(* as if it had been.  By then init has enabled the buttons, and the chain *)
(* of the next click may run beside what is left of this one.  The chains  *)
(* share $scope, and each takes a step when its request is answered.       *)
(*                                                                         *)
(* A request travels to the device, through the backend, and its answer    *)
(* back; the two may arrive in any order.  It fails when the device cannot *)
(* be reached, or when its answer is lost.  Abstractions: nobody else sets *)
(* the mode; a colour has no value; the view is digested at once.          *)
(***************************************************************************)
EXTENDS Naturals

Modes     == 0..2     \* manual, music, weather
Spins     == 0..2

CONSTANTS Found,       \* modes and spinnings the device may have at first
          MaxClicks,   \* bound: how often the user clicks or picks a colour
          MaxLosses    \* bound: how many answers are lost

ASSUME PresentationAssumption ==
  /\ Found \subseteq Modes \X Spins
  /\ MaxClicks \in Nat /\ MaxLosses \in Nat

FakeModes == 0..4     \* manual with each spinning, music, weather

\* One chain for the page itself, and one for each click or colour picked.
Chains == 1..(1 + MaxClicks)

VARIABLES
  online, mode, fakeMode, busy,  \* $scope.state
  destroyed,
  dmode, dspin,  \* the device's mode and spinning
  reachable,     \* is there a way to it?
  chain,         \* of each chain: where it is, its request and the value of the answer,
                 \* the fake mode a click asks for, and how it goes on after an init
  clicks, losses,
  failed         \* a request of a click has failed since the last click that was
                 \* made while nothing else was on its way (history)

device == <<dmode, dspin, reachable>>
state  == <<online, mode, fakeMode, busy>>
page   == <<online, mode, fakeMode, busy, destroyed, dmode, dspin, reachable, chain,
            clicks, losses, failed>>

ModeOf(f) == IF f <= 2 THEN 0 ELSE f - 2
FakeOf(m, spin) == IF m = 0 THEN spin ELSE m + 2

\* A chain goes on after an init now, in the same run of Bluebird's queue; or later,
\* once $timeout's promise was in between, in a digest of its own; the page's never.
Link(at, net, target, goesOn) ==
  [at |-> at, net |-> net, target |-> target, goesOn |-> goesOn, value |-> 0]
Unused == Link("free", "none", 0, "never")
Init0  == Link("get", "sent", 0, "never")

At(c, at, net) == chain[c].at \in at /\ chain[c].net \in net
Working == {c \in Chains : chain[c] # Unused}

PageInit == /\ online = FALSE /\ mode = 0 /\ fakeMode = 0 /\ busy = TRUE
            /\ destroyed = FALSE
            /\ \E d \in Found : dmode = d[1] /\ dspin = d[2]
            /\ reachable = TRUE
            /\ chain = [c \in Chains |-> IF c = 1 THEN Init0 ELSE Unused]
            /\ clicks = 0 /\ losses = 0
            /\ failed = FALSE

\* The page is not open.
PageClosed == /\ online = FALSE /\ mode = 0 /\ fakeMode = 0 /\ busy = TRUE
              /\ destroyed = TRUE
              /\ dmode = 0 /\ dspin = 0 /\ reachable = TRUE
              /\ chain = [c \in Chains |-> Unused]
              /\ clicks = 0 /\ losses = 0
              /\ failed = FALSE

\* A chain goes on with another request, stays without one, or ends.
Request(c, at) == chain' = [chain EXCEPT ![c] = Link(at, "sent", @.target, @.goesOn)]
Stay(c, at, goesOn) == chain' = [chain EXCEPT ![c] = Link(at, "none", @.target, goesOn)]
End(c)         == chain' = [chain EXCEPT ![c] = Unused]

-----------------------------------------------------------------------------
(* The way to the device. *)

Way == /\ reachable' = ~ reachable
       /\ UNCHANGED <<state, destroyed, dmode, dspin, chain, clicks, losses, failed>>

\* The device executes a request; what is lost, if anything, is the answer.
Execute(c) ==
  /\ chain[c].net = "sent" /\ reachable
  /\ \E answer \in {"ok", "error"} :
       /\ losses' = IF answer = "error" THEN losses + 1 ELSE losses
       /\ losses' <= MaxLosses
       /\ chain' = [chain EXCEPT ![c].net = answer,
                                 ![c].value = IF answer = "error" THEN 0
                                              ELSE IF chain[c].at = "get" THEN dmode
                                              ELSE IF chain[c].at = "getSpin" THEN dspin
                                              ELSE 0]
  /\ dmode' = IF chain[c].at = "set" THEN ModeOf(chain[c].target) ELSE dmode
  /\ dspin' = IF chain[c].at = "setSpin" THEN chain[c].target ELSE dspin
  /\ UNCHANGED <<state, destroyed, reachable, clicks, failed>>

Unreachable(c) ==
  /\ chain[c].net = "sent" /\ ~ reachable
  /\ chain' = [chain EXCEPT ![c].net = "error"]
  /\ UNCHANGED <<state, destroyed, device, clicks, losses, failed>>

-----------------------------------------------------------------------------
(* What a click asked for is shown; then the manual mode is sent the spinning, *)
(* and the other modes are done.                                               *)

Manual(c) == ModeOf(chain[c].target) = 0

\* Mutant: the spinning is not sent.
GoesOnStill(c) == mode' = ModeOf(chain[c].target) /\ fakeMode' = chain[c].target /\ End(c)

\* Mutant: only the choice is shown, not the controls of the mode.
GoesOnWithoutMode(c) ==
  /\ UNCHANGED mode /\ fakeMode' = chain[c].target
  /\ IF Manual(c) THEN Request(c, "setSpin") ELSE End(c)

GoesOn(c) == /\ mode' = ModeOf(chain[c].target) /\ fakeMode' = chain[c].target
             /\ IF Manual(c) THEN Request(c, "setSpin") ELSE End(c)

\* ... and promise.finally.
Continue(c) == GoesOn(c) /\ busy' = (Manual(c) /\ busy)

-----------------------------------------------------------------------------
(* init *)

\* mode.get and mode.getManualSpinning were answered.
Got(c) == /\ At(c, {"get"}, {"ok"})
          /\ online' = TRUE
          /\ mode' = chain[c].value
          /\ Request(c, "getSpin")
          /\ UNCHANGED <<fakeMode, busy, destroyed, device, clicks, losses, failed>>

\* Init shows what it has read, and is over.
InitDone(c) == /\ fakeMode' = FakeOf(mode, chain[c].value) /\ UNCHANGED mode
               /\ \/ chain[c].goesOn = "never" /\ End(c)
                  \/ chain[c].goesOn = "later" /\ Stay(c, "resume", "later")

\* Mutant: busy is not reset.
GotSpinStaysBusy(c) ==
  /\ At(c, {"getSpin"}, {"ok"})
  /\ \/ InitDone(c)
     \/ chain[c].goesOn = "now" /\ GoesOn(c)
  /\ UNCHANGED <<online, busy, destroyed, device, clicks, losses, failed>>

GotSpin(c) == /\ At(c, {"getSpin"}, {"ok"})
              /\ busy' = FALSE
              /\ \/ InitDone(c)
                 \/ chain[c].goesOn = "now" /\ GoesOn(c)
              /\ UNCHANGED <<online, destroyed, device, clicks, losses, failed>>

\* A click goes on in the digest that settles $timeout's promise.
Resume(c) == /\ At(c, {"resume"}, {"none"})
             /\ Continue(c)
             /\ UNCHANGED <<online, destroyed, device, clicks, losses, failed>>

\* $timeout init, 5000
RetryLater(c) ==
  /\ At(c, {"get", "getSpin"}, {"error"})
  /\ Stay(c, "retry", IF chain[c].goesOn = "never" THEN "never" ELSE "later")
  /\ UNCHANGED <<state, destroyed, device, clicks, losses, failed>>

\* Mutant: a page that was left goes on.
RetryForEver(c) == /\ At(c, {"retry"}, {"none"})
                   /\ Request(c, "get")
                   /\ UNCHANGED <<state, destroyed, device, clicks, losses, failed>>

Retry(c) == /\ At(c, {"retry"}, {"none"}) /\ ~ destroyed
            /\ Request(c, "get")
            /\ UNCHANGED <<state, destroyed, device, clicks, losses, failed>>

\* On a page that was left init returns nothing, and a click goes on at once.
GiveUp(c) == /\ At(c, {"retry"}, {"none"}) /\ destroyed
             /\ IF chain[c].goesOn = "never"
                  THEN End(c) /\ UNCHANGED <<mode, fakeMode, busy>>
                  ELSE Continue(c)
             /\ UNCHANGED <<online, destroyed, device, clicks, losses, failed>>

-----------------------------------------------------------------------------
(* The user.  The buttons are there while the page is online and enabled     *)
(* while it is not busy; a colour that is picked at another time is ignored. *)

Usable == online /\ ~ busy /\ ~ destroyed /\ clicks < MaxClicks

\* The chain of the next click.
NextChain == clicks + 2

Click(f) == /\ Usable
            /\ busy' = TRUE /\ clicks' = clicks + 1
            /\ chain' = [chain EXCEPT ![NextChain] = Link("set", "sent", f, "now")]
            /\ failed' = (failed /\ Working # {})
            /\ UNCHANGED <<online, mode, fakeMode, destroyed, device, losses>>

PickColor == /\ Usable /\ mode = 0
             /\ busy' = TRUE /\ clicks' = clicks + 1
             /\ chain' = [chain EXCEPT ![NextChain] = Link("pick", "sent", 0, "never")]
             /\ UNCHANGED <<online, mode, fakeMode, destroyed, device, losses, failed>>

\* The chain of the watch ends whatever the answer.
Picked(c) == /\ At(c, {"pick"}, {"ok", "error"})
             /\ busy' = FALSE
             /\ End(c)
             /\ UNCHANGED <<online, mode, fakeMode, destroyed, device, clicks, losses, failed>>

\* mode.set was answered; the manual mode is sent a colour, too.
SetColor(c) == /\ At(c, {"set"}, {"ok"}) /\ Manual(c)
               /\ Request(c, "setColor")
               /\ UNCHANGED <<state, destroyed, device, clicks, losses, failed>>

Changed(c) == /\ \/ At(c, {"set"}, {"ok"}) /\ ~ Manual(c)
                 \/ At(c, {"setColor"}, {"ok"})
              /\ Continue(c)
              /\ UNCHANGED <<online, destroyed, device, clicks, losses, failed>>

\* The catch of modeChanged returns init(): the click waits for it.
ChangeFails(c) ==
  /\ At(c, {"set", "setColor"}, {"error"})
  /\ online' = FALSE
  /\ IF destroyed THEN Continue(c)
                  ELSE Request(c, "get") /\ UNCHANGED <<mode, fakeMode, busy>>
  /\ failed' = TRUE
  /\ UNCHANGED <<destroyed, device, clicks, losses>>

\* promise.finally; nobody handles the error.
SpinSet(c) == /\ At(c, {"setSpin"}, {"ok", "error"})
              /\ busy' = FALSE
              /\ End(c)
              /\ failed' = (failed \/ chain[c].net = "error")
              /\ UNCHANGED <<online, mode, fakeMode, destroyed, device, clicks, losses>>

\* Another page is opened.
Destroy == /\ ~ destroyed
           /\ destroyed' = TRUE
           /\ UNCHANGED <<state, device, chain, clicks, losses, failed>>

ChainStep(c) == \/ Execute(c) \/ Unreachable(c)
                \/ Got(c) \/ GotSpin(c) \/ Resume(c)
                \/ RetryLater(c) \/ Retry(c) \/ GiveUp(c)
                \/ SetColor(c) \/ Changed(c) \/ ChangeFails(c) \/ SpinSet(c) \/ Picked(c)

User == (\E f \in FakeModes : Click(f)) \/ PickColor

PageGoesOn == \E c \in Chains : ChainStep(c)

PageNext == \/ PageGoesOn
            \/ User
            \/ Way
            \/ Destroy

-----------------------------------------------------------------------------
(* Properties. *)

\* What an idle page shows is what the device does, unless a click failed: then the
\* page shows what was clicked, whatever init has read, until a click succeeds that
\* was made when nothing of an earlier one was left.
ShowsWhatIsSet ==
  Working = {} /\ ~ destroyed /\ ~ failed => fakeMode = FakeOf(dmode, dspin) /\ mode = dmode

\* On an idle page the choice that is marked is one of the mode whose controls are
\* shown, whatever failed and however chains of several clicks overtook each other,
\* although they assign the two separately (Got and GotSpin) or together (GoesOn).
ControlsAgree == Working = {} /\ ~ destroyed => mode = ModeOf(fakeMode)

\* A page that is not left comes to be usable if the device can be reached in the
\* end: whatever failed, in whatever order, it is online and not busy.
BecomesUsable == <>[]reachable => <>[](online /\ ~ busy) \/ <>destroyed

\* A page that was left comes to rest, even if the device cannot be reached: a click
\* that waits to try again goes on, sends the spinning, and ends.
RestsWhenLeft == destroyed ~> Working = {}
=============================================================================
