-------------------------------- MODULE Lights --------------------------------
(***************************************************************************)
(* mbed/src/core/Lights.cpp: the LED strip of the device.                  *)
(*                                                                         *)
(* The modes, on the main thread, call setColor, setGenerator and          *)
(* SetPixels, which write the fields of the object.  A thread of its own   *)
(* runs doupdate in a loop: it shows frames of the generator, or fades the *)
(* pixels to their targets and, arrived there, switches to the generator   *)
(* if one is set.  Nothing locks the fields, and the threads are scheduled *)
(* round robin, so a call and doupdate interleave statement by statement.  *)
(* `overlapped`, `raced` and `unseen` are history: they record what a      *)
(* property has to make an exception for.                                  *)
(*                                                                         *)
(* Abstractions: a pixel has one channel, the three being treated alike; a *)
(* frame of a generator is any brightness, the generator being a callback; *)
(* _force and the sleeps only tell how long a round takes, and are left    *)
(* out; update writes the strip with interrupts disabled, so in one step.  *)
(***************************************************************************)
EXTENDS Integers, Sequences

CONSTANTS Size,           \* number of pixels
          Max,            \* the brightest level (255)
          gamma,          \* the table of NeoPixels.h
          ColorFade,      \* _fade_speed of setColor (1)
          GeneratorFade,  \* of setGenerator (10)
          PixelsFade,     \* of SetPixels (20)
          Generators,     \* the generators of the modes
          MaxCalls        \* bound: calls made by the modes

Pixels == 1..Size
Levels == 0..Max

ASSUME LightsAssumption ==
  /\ Size \in Nat \ {0}
  /\ Max \in Nat \ {0}
  /\ gamma \in [Levels -> Levels]
  /\ gamma[0] = 0
  /\ {ColorFade, GeneratorFade, PixelsFade} \subseteq 1..Max
  /\ MaxCalls \in Nat

loading == "loading"   \* the generator the constructor starts

VARIABLES
  useGenerator, generatorReady, generator, fadeSpeed,   \* fields of Lights
  target, current,
  strip,    \* what the LEDs show: the argument of the last update
  todo,     \* the statements of the call under way that are still to run
  wanted,   \* what the last call asked for
  calls,    \* how many calls were made
  lpc,      \* where doupdate is: "top", "frame", "read", "write", "check"
            \* or "ready"
  pix,      \* the pixel its loop is at
  next,     \* what adjust returned for it
  same,     \* `result`: no pixel had to be adjusted so far
  overlapped,  \* a call was under way during this round of doupdate
  raced,       \* _generatorReady was once set when _useGenerator was false
  unseen       \* SetPixels raised a level that update has not shown since

fields == <<useGenerator, generatorReady, generator, fadeSpeed, target>>
caller == <<todo, wanted, calls>>
looper == <<lpc, pix, next, same>>
vars   == <<useGenerator, generatorReady, generator, fadeSpeed, target, current,
            strip, todo, wanted, calls, lpc, pix, next, same, overlapped, raced,
            unseen>>

Overlap == overlapped' = (lpc' # "top" /\ (overlapped \/ todo' # <<>>))

-----------------------------------------------------------------------------
\* One step of a fade: at most fade_speed, and never beyond the target.
adjust(source, tgt, fade) ==
  LET delta == tgt - source IN
    IF delta > 0 THEN IF delta < fade  THEN source + delta ELSE source + fade
                 ELSE IF delta > -fade THEN source + delta ELSE source - fade

-----------------------------------------------------------------------------
(* The calls, as the statements they execute. *)

Stmt(field, value) == [set |-> field, val |-> value, at |-> 0]
TargetStmt(p, level, fast) ==
  [set |-> IF fast THEN "fast" ELSE "target", val |-> level, at |-> p]

Targets(buffer, fast) == [p \in Pixels |-> TargetStmt(p, gamma[buffer[p]], fast)]

\* Mutant: _generatorReady is not reset.
setColorOnly(c) == <<Stmt("fadeSpeed", ColorFade),
                     Stmt("useGenerator", FALSE)>>
                   \o Targets([p \in Pixels |-> c], FALSE)

\* The colour is converted once for all pixels; every pixel gets it.
setColor(c) == <<Stmt("fadeSpeed", ColorFade),
                 Stmt("useGenerator", FALSE),
                 Stmt("generatorReady", FALSE)>>
               \o Targets([p \in Pixels |-> c], FALSE)

\* Mutant: the strip is not faded to black first.
setGeneratorAtOnce(g) == <<Stmt("fadeSpeed", GeneratorFade),
                           Stmt("generator", g),
                           Stmt("useGenerator", TRUE)>>

setGenerator(g) == setColor(0)
                   \o <<Stmt("fadeSpeed", GeneratorFade),
                        Stmt("generator", g),
                        Stmt("useGenerator", TRUE)>>

\* Pixels beyond the length of the buffer become dark, which is what a dark
\* pixel in the buffer becomes: `fast` only ever raises a pixel.
SetPixels(buffer, fast) == <<Stmt("useGenerator", FALSE),
                             Stmt("generatorReady", FALSE),
                             Stmt("fadeSpeed", PixelsFade)>>
                           \o Targets(buffer, fast)

Idle == todo = <<>>

Call(kind, g, buffer, script) ==
  /\ Idle
  /\ calls < MaxCalls
  /\ calls'  = calls + 1
  /\ wanted' = [kind |-> kind, generator |-> g, levels |-> buffer]
  /\ todo'   = script
  /\ UNCHANGED <<fields, current, strip, looper, raced, unseen>>
  /\ Overlap

Plain(c) == [p \in Pixels |-> c]

Calls == \/ \E c \in Levels : Call("color", loading, Plain(c), setColor(c))
         \/ \E g \in Generators : Call("generator", g, Plain(0), setGenerator(g))
         \/ \E buffer \in [Pixels -> Levels], fast \in BOOLEAN :
              Call("pixels", loading, buffer, SetPixels(buffer, fast))

\* The caller's thread runs the next statement of its call.
Statement ==
  /\ ~ Idle
  /\ todo' = Tail(todo)
  /\ LET s == Head(todo) IN
       /\ useGenerator'   = IF s.set = "useGenerator"   THEN s.val ELSE useGenerator
       /\ generatorReady' = IF s.set = "generatorReady" THEN s.val ELSE generatorReady
       /\ generator'      = IF s.set = "generator"      THEN s.val ELSE generator
       /\ fadeSpeed'      = IF s.set = "fadeSpeed"      THEN s.val ELSE fadeSpeed
       /\ target'         = IF s.set \in {"target", "fast"}
                            THEN [target EXCEPT ![s.at] = s.val] ELSE target
       /\ current'        = IF s.set = "fast" /\ s.val > current[s.at]
                            THEN [current EXCEPT ![s.at] = s.val] ELSE current
  /\ unseen' = (unseen \/ current' # current)
  /\ UNCHANGED <<strip, wanted, calls, looper, raced>>
  /\ Overlap

-----------------------------------------------------------------------------
(* doupdate, on the thread of the lights. *)

\* if(_generatorReady)
Top == /\ lpc = "top"
       /\ lpc'  = IF generatorReady THEN "frame" ELSE "read"
       /\ pix'  = 1
       /\ same' = TRUE
       /\ UNCHANGED <<fields, current, strip, caller, next>>

\* The generator computes one pixel of a frame.
Frame == /\ lpc = "frame"
         /\ pix <= Size
         /\ \E level \in Levels : current' = [current EXCEPT ![pix] = gamma[level]]
         /\ pix' = pix + 1
         /\ UNCHANGED <<fields, strip, caller, lpc, next, same>>

\* The pixels are written to the strip with interrupts disabled: one step.
update == strip' = current

ShowFrame == /\ lpc = "frame"
             /\ pix > Size
             /\ update
             /\ lpc' = "top"
             /\ UNCHANGED <<fields, current, caller, pix, next, same>>

\* adjustPixel: a pixel that differs from its target is read ...
Read == /\ lpc = "read"
        /\ pix <= Size
        /\ IF current[pix] = target[pix]
             THEN pix' = pix + 1 /\ UNCHANGED <<lpc, next>>
             ELSE /\ next' = adjust(current[pix], target[pix], fadeSpeed)
                  /\ lpc' = "write"
                  /\ UNCHANGED pix
        /\ UNCHANGED <<fields, current, strip, caller, same>>

\* ... and its new level written back.
Write == /\ lpc = "write"
         /\ current' = [current EXCEPT ![pix] = next]
         /\ same' = FALSE
         /\ pix' = pix + 1
         /\ lpc' = "read"
         /\ UNCHANGED <<fields, strip, caller, next>>

\* Mutant: the strip is not updated after the pixels were adjusted.
AdjustedForgetsUpdate == /\ lpc = "read"
                         /\ pix > Size
                         /\ lpc' = IF same THEN "check" ELSE "top"
                         /\ UNCHANGED <<fields, current, strip, caller, pix, next, same>>

\* if(!result) update(...) else if(_useGenerator) ...
Adjusted == /\ lpc = "read"
            /\ pix > Size
            /\ IF same THEN lpc' = "check" /\ UNCHANGED strip
                       ELSE lpc' = "top" /\ update
            /\ UNCHANGED <<fields, current, caller, pix, next, same>>

CheckGenerator == /\ lpc = "check"
                  /\ lpc' = IF useGenerator THEN "ready" ELSE "top"
                  /\ UNCHANGED <<fields, current, strip, caller, pix, next, same>>

\* _generatorReady = true, whatever happened since _useGenerator was read.
SetReady == /\ lpc = "ready"
            /\ generatorReady' = TRUE
            /\ lpc' = "top"
            /\ UNCHANGED <<useGenerator, generator, fadeSpeed, target, current,
                           strip, caller, pix, next, same>>

doupdate == /\ \/ Top \/ Frame \/ ShowFrame \/ Read \/ Write \/ Adjusted
               \/ CheckGenerator \/ SetReady
            /\ Overlap
            /\ raced'  = (raced \/ (lpc = "ready" /\ ~ useGenerator))
            /\ unseen' = (unseen /\ strip' # current)

\* The constructor starts the thread with a generator, and main sets up the
\* network before the first mode exists, so the first frame has been shown by
\* then.  The targets come from malloc with whatever was there.
Init == /\ useGenerator = TRUE
        /\ generatorReady = TRUE
        /\ generator = loading
        /\ fadeSpeed = 1
        /\ target  \in [Pixels -> Levels]
        /\ current \in [Pixels -> {gamma[l] : l \in Levels}]
        /\ strip = current
        /\ todo = <<>>
        /\ wanted = [kind |-> "generator", generator |-> loading,
                    levels |-> [p \in Pixels |-> 0]]
        /\ calls = 0
        /\ lpc = "top" /\ pix = 1 /\ next = 0 /\ same = TRUE
        /\ overlapped = FALSE /\ raced = FALSE /\ unseen = FALSE

Next == Calls \/ Statement \/ doupdate

Spec == Init /\ [][Next]_vars

\* Both threads get their time slices; no mode is obliged to call.
FairSpec == Spec /\ WF_vars(Statement) /\ WF_vars(doupdate)

-----------------------------------------------------------------------------
(* Properties. *)

TypeOK == /\ useGenerator \in BOOLEAN
          /\ generatorReady \in BOOLEAN
          /\ generator \in Generators \cup {loading}
          /\ fadeSpeed \in 1..Max
          /\ target  \in [Pixels -> Levels]
          /\ current \in [Pixels -> Levels]
          /\ strip   \in [Pixels -> Levels]
          /\ next \in Levels
          /\ calls \in 0..MaxCalls
          /\ lpc \in {"top", "frame", "read", "write", "check", "ready"}
          /\ pix \in 1..(Size + 1)
          /\ same \in BOOLEAN
          /\ overlapped \in BOOLEAN
          /\ raced \in BOOLEAN
          /\ unseen \in BOOLEAN

\* "Stops generator if it was set" (Lights.h, line 28): once setColor or
\* SetPixels has returned, the lights thread does not go on with a generator.
\* One thing breaks this: a call that clears _useGenerator after doupdate has
\* tested it and before it sets _generatorReady.
ColorStopsGenerator ==
  Idle /\ wanted.kind # "generator" => ~ generatorReady \/ raced

\* A generator starts on a dark strip: setGenerator fades whatever was shown
\* to black, and doupdate switches over only when the fade has arrived.  In a
\* round during which a call is made the pixels may be compared with the
\* targets of two calls.
GeneratorStartsDark ==
  [][~ generatorReady /\ generatorReady'
       => (\A p \in Pixels : current[p] = 0) \/ overlapped]_vars

\* What a mode asked for last is what the strip shows in the end, for good -
\* unless a generator went on in the way just described, or SetPixels raised
\* levels that nothing has shown since.
ShowsWanted ==
  IF wanted.kind = "generator" THEN generatorReady /\ generator = wanted.generator
  ELSE \A p \in Pixels : strip[p] = gamma[wanted.levels[p]]
SettlesOnWanted == <>[](ShowsWanted \/ raced \/ unseen)
=============================================================================
