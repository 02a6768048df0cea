----------------------------- MODULE Lights_proofs -----------------------------
(***************************************************************************)
(* Proofs about Lights, for every number of pixels and levels, every table *)
(* gamma that keeps black black, every fade speed and every schedule: what *)
(* a call leaves behind when it returns, that it stops a generator, and    *)
(* that a generator starts on a dark strip.                                *)
(*                                                                         *)
(* A call and doupdate interleave statement by statement, so the invariant *)
(* says of every field: it has the value the call is to give it, or the    *)
(* statement that gives it is still to come (Arriving); and of every round *)
(* of doupdate during which no call was made: the pixels compared so far   *)
(* have arrived (Round).                                                   *)
(***************************************************************************)
EXTENDS Lights, SequenceTheorems, TLAPS

Kinds == {"color", "generator", "pixels"}
Wishes == [kind : Kinds, generator : Generators \cup {loading}, levels : [Pixels -> Levels]]

Statements == [set : {"useGenerator", "generatorReady"}, val : BOOLEAN, at : {0}]
              \cup [set : {"generator"}, val : Generators, at : {0}]
              \cup [set : {"fadeSpeed"}, val : 1..Max, at : {0}]
              \cup [set : {"target", "fast"}, val : Levels, at : Pixels]

CallerOK == todo \in Seq(Statements) /\ wanted \in Wishes

\* Is a statement still to come that sets this field, this pixel?
Pending(field)  == \E i \in DOMAIN todo : todo[i].set = field
PendingPixel(p) == \E i \in DOMAIN todo : todo[i].set \in {"target", "fast"} /\ todo[i].at = p

\* What statements a call for w consists of, and in which order.
Ordered(script, w) ==
  \A i \in DOMAIN script :
    /\ script[i].set \in {"target", "fast"} => script[i].val = gamma[w.levels[script[i].at]]
    /\ script[i].set = "generator" => w.kind = "generator" /\ script[i].val = w.generator
    /\ script[i].set = "generatorReady" => script[i].val = FALSE
    /\ script[i].set = "useGenerator" =>
         IF script[i].val
           THEN w.kind = "generator" /\ i = Len(script)
           ELSE /\ \E j \in DOMAIN script : j > i /\ script[j].set = "generatorReady"
                /\ w.kind = "generator" =>
                     \E j \in DOMAIN script :
                       j > i /\ script[j].set = "useGenerator" /\ script[j].val

\* Every field has the value that was asked for, or will be given it.
Arriving ==
  /\ calls = 0 => Idle /\ generatorReady /\ wanted.kind = "generator"
  /\ calls > 0 => \A p \in Pixels : target[p] = gamma[wanted.levels[p]] \/ PendingPixel(p)
  /\ (useGenerator <=> wanted.kind = "generator") \/ Pending("useGenerator")
  /\ wanted.kind = "generator" => /\ generator = wanted.generator \/ Pending("generator")
                                  /\ \A p \in Pixels : wanted.levels[p] = 0
  /\ wanted.kind # "generator" => ~ generatorReady \/ raced \/ Pending("generatorReady")

\* A round of doupdate during which no call was under way.
Round ==
  /\ lpc # "top" /\ ~ overlapped => Idle
  /\ lpc \in {"read", "write"} /\ ~ overlapped /\ same =>
       \A p \in Pixels : p < pix => current[p] = target[p]
  /\ lpc \in {"check", "ready"} /\ ~ overlapped => \A p \in Pixels : current[p] = target[p]
  /\ lpc = "ready" /\ ~ overlapped => useGenerator
  /\ lpc = "write" => pix <= Size

\* What the object holds once the call has returned.
CallTookEffect ==
  Idle /\ calls > 0 =>
    /\ useGenerator <=> wanted.kind = "generator"
    /\ wanted.kind = "generator" => generator = wanted.generator
    /\ \A p \in Pixels : target[p] = gamma[wanted.levels[p]]

LightsInv == TypeOK /\ CallerOK /\ Ordered(todo, wanted) /\ Arriving /\ Round

-----------------------------------------------------------------------------
(* The fade. *)

\* Distance of two levels.
Between(a, b) == IF a < b THEN b - a ELSE a - b

\* A step of a fade stays among the levels, ends nearer to the target and does not
\* leap over it, and the last step arrives.
LEMMA AdjustApproaches ==
  ASSUME NEW source \in Levels, NEW tgt \in Levels, NEW fade \in 1..Max, source # tgt
  PROVE  /\ adjust(source, tgt, fade) \in Levels
         /\ Between(adjust(source, tgt, fade), tgt) < Between(source, tgt)
         /\ source < tgt <=> source < adjust(source, tgt, fade)
         /\ source < tgt => adjust(source, tgt, fade) <= tgt
         /\ source > tgt => adjust(source, tgt, fade) >= tgt
         /\ Between(source, tgt) <= fade => adjust(source, tgt, fade) = tgt
<1>1. Max \in Nat /\ source \in 0..Max /\ tgt \in 0..Max /\ fade \in 1..Max
  BY LightsAssumption DEF Levels
<1>2. CASE source < tgt
  <2>1. adjust(source, tgt, fade) = IF tgt - source < fade THEN tgt ELSE source + fade
    BY <1>1, <1>2 DEF adjust
  <2> QED BY <1>1, <1>2, <2>1 DEF Between, Levels
<1>3. CASE source > tgt
  <2>1. adjust(source, tgt, fade) = IF source - tgt < fade THEN tgt ELSE source - fade
    BY <1>1, <1>3 DEF adjust
  <2> QED BY <1>1, <1>3, <2>1 DEF Between, Levels
<1> QED BY <1>1, <1>2, <1>3

-----------------------------------------------------------------------------
(* The scripts of the calls. *)

\* A script gives every field that its call is about.
Complete(script, w) ==
  /\ \A p \in Pixels : \E i \in DOMAIN script :
       script[i].set \in {"target", "fast"} /\ script[i].at = p
  /\ \E i \in DOMAIN script : script[i].set = "useGenerator"
  /\ \E i \in DOMAIN script : script[i].set = "generatorReady"
  /\ w.kind = "generator" =>
       /\ \E i \in DOMAIN script : script[i].set = "generator"
       /\ \A p \in Pixels : w.levels[p] = 0

\* The statements that set every pixel to what `levels` asks for.
SetsTargets(tail, levels) ==
  /\ tail \in Seq(Statements) /\ Len(tail) = Size
  /\ \A p \in Pixels : /\ tail[p].set \in {"target", "fast"}
                      /\ tail[p].val = gamma[levels[p]]
                      /\ tail[p].at = p

LEMMA TargetsScript ==
  ASSUME NEW buffer \in [Pixels -> Levels], NEW fast \in BOOLEAN
  PROVE  SetsTargets(Targets(buffer, fast), buffer)
<1>1. \A p \in Pixels : TargetStmt(p, gamma[buffer[p]], fast) \in Statements
  BY LightsAssumption DEF TargetStmt, Statements
<1>2. Targets(buffer, fast) \in [1..Size -> Statements]
  BY <1>1 DEF Targets, Pixels
<1>3. Size \in Nat
  BY LightsAssumption
<1> QED BY <1>2, <1>3 DEF Targets, TargetStmt, Pixels, SetsTargets

\* Some statements, and then the targets: what the scripts have in common.
IsScript(script, head, levels) ==
  /\ script \in Seq(Statements) /\ DOMAIN script = 1..(Len(head) + Size)
  /\ Len(script) = Len(head) + Size
  /\ \A i \in 1..Len(head) : script[i] = head[i]
  /\ \A i \in (Len(head) + 1)..(Len(head) + Size) :
       /\ i - Len(head) \in Pixels
       /\ script[i].set \in {"target", "fast"}
       /\ script[i].val = gamma[levels[i - Len(head)]]
       /\ script[i].at = i - Len(head)

LEMMA HeadAndTargets ==
  ASSUME NEW head \in Seq(Statements), NEW levels, NEW tail, SetsTargets(tail, levels)
  PROVE  IsScript(head \o tail, head, levels)
<1>1. Size \in Nat /\ Len(head) \in Nat
  BY LightsAssumption, LenProperties
<1>2. tail \in Seq(Statements) /\ Len(tail) = Size
  BY DEF SetsTargets
<1>3. /\ head \o tail \in Seq(Statements) /\ Len(head \o tail) = Len(head) + Size
      /\ \A i \in 1..(Len(head) + Size) :
           (head \o tail)[i] = IF i <= Len(head) THEN head[i] ELSE tail[i - Len(head)]
  BY <1>2, ConcatProperties
<1>4. \A i \in 1..Len(head) : (head \o tail)[i] = head[i]
  BY <1>1, <1>3
<1>5. \A i \in (Len(head) + 1)..(Len(head) + Size) :
        i - Len(head) \in Pixels /\ (head \o tail)[i] = tail[i - Len(head)]
  BY <1>1, <1>3 DEF Pixels
<1> QED BY <1>3, <1>4, <1>5, LenProperties DEF SetsTargets, IsScript

\* What setColor and SetPixels run.
LEMMA StopScript ==
  ASSUME NEW w \in Wishes, w.kind # "generator",
         NEW head \in Seq(Statements), Len(head) = 3,
         \E i, j \in 1..3 : /\ i < j
                           /\ head[i].set = "useGenerator" /\ head[i].val = FALSE
                           /\ head[j].set = "generatorReady" /\ head[j].val = FALSE
                           /\ \A k \in 1..3 : k # i /\ k # j => head[k].set = "fadeSpeed",
         NEW script, IsScript(script, head, w.levels)
  PROVE  Ordered(script, w) /\ Complete(script, w)
<1>1. /\ DOMAIN script = 1..(3 + Size) /\ Size \in Nat
      /\ \A i \in 1..3 : script[i] = head[i]
      /\ \A i \in 4..(3 + Size) : /\ i - 3 \in Pixels
                                  /\ script[i].set \in {"target", "fast"}
                                  /\ script[i].val = gamma[w.levels[i - 3]]
                                  /\ script[i].at = i - 3
  <2>1. Size \in Nat /\ DOMAIN script = 1..(3 + Size) /\ \A i \in 1..3 : script[i] = head[i]
    BY LightsAssumption DEF IsScript
  <2>2. ASSUME NEW i \in 4..(3 + Size)
        PROVE  /\ i - 3 \in Pixels
               /\ script[i].set \in {"target", "fast"}
               /\ script[i].val = gamma[w.levels[i - 3]]
               /\ script[i].at = i - 3
    <3>1. i \in (Len(head) + 1)..(Len(head) + Size)
      BY <2>1
    <3> QED BY <2>1, <3>1 DEF IsScript
  <2> QED BY <2>1, <2>2
<1>2. PICK m \in 1..3, n \in 1..3 :
        /\ m < n
        /\ script[m].set = "useGenerator" /\ script[m].val = FALSE
        /\ script[n].set = "generatorReady" /\ script[n].val = FALSE
        /\ \A k \in 1..3 : k # m /\ k # n => script[k].set = "fadeSpeed"
  BY <1>1
<1>3. \A p \in Pixels : p + 3 \in 4..(3 + Size) /\ (p + 3) - 3 = p
  BY <1>1 DEF Pixels
<1>4. Complete(script, w)
  <2>1. ASSUME NEW p \in Pixels
        PROVE  \E i \in DOMAIN script : script[i].set \in {"target", "fast"} /\ script[i].at = p
    <3>1. p + 3 \in DOMAIN script /\ p + 3 \in 4..(3 + Size)
      BY <1>1, <1>3
    <3>2. script[p + 3].set \in {"target", "fast"} /\ script[p + 3].at = (p + 3) - 3
      BY <1>1, <3>1
    <3> QED BY <1>3, <3>1, <3>2
  <2>2. m \in DOMAIN script /\ n \in DOMAIN script
    BY <1>1
  <2> QED BY <1>2, <2>1, <2>2 DEF Complete
<1>5. Ordered(script, w)
  <2> SUFFICES ASSUME NEW i \in 1..(3 + Size)
               PROVE  /\ script[i].set \in {"target", "fast"} =>
                           script[i].val = gamma[w.levels[script[i].at]]
                      /\ script[i].set # "generator"
                      /\ script[i].set = "generatorReady" => script[i].val = FALSE
                      /\ script[i].set = "useGenerator" =>
                           /\ script[i].val = FALSE
                           /\ \E j \in DOMAIN script : j > i /\ script[j].set = "generatorReady"
    BY <1>1 DEF Ordered
  <2>1. CASE i \in 1..3
    BY <1>1, <1>2, <2>1
  <2>2. CASE i \in 4..(3 + Size)
    BY <1>1, <2>2
  <2> QED BY <1>1, <2>1, <2>2
<1> QED BY <1>4, <1>5

ColorHead == <<Stmt("fadeSpeed", ColorFade), Stmt("useGenerator", FALSE),
               Stmt("generatorReady", FALSE)>>
PixelsHead == <<Stmt("useGenerator", FALSE), Stmt("generatorReady", FALSE),
                Stmt("fadeSpeed", PixelsFade)>>
GeneratorTail(g) == <<Stmt("fadeSpeed", GeneratorFade), Stmt("generator", g),
                      Stmt("useGenerator", TRUE)>>

LEMMA Heads ==
  /\ ColorHead \in Seq(Statements) /\ Len(ColorHead) = 3
  /\ ColorHead[1].set = "fadeSpeed"
  /\ ColorHead[2].set = "useGenerator" /\ ColorHead[2].val = FALSE
  /\ ColorHead[3].set = "generatorReady" /\ ColorHead[3].val = FALSE
  /\ PixelsHead \in Seq(Statements) /\ Len(PixelsHead) = 3
  /\ PixelsHead[1].set = "useGenerator" /\ PixelsHead[1].val = FALSE
  /\ PixelsHead[2].set = "generatorReady" /\ PixelsHead[2].val = FALSE
  /\ PixelsHead[3].set = "fadeSpeed"
<1>1. \A fade \in {ColorFade, PixelsFade} :
        [set |-> "fadeSpeed", val |-> fade, at |-> 0] \in Statements
  BY LightsAssumption DEF Statements
<1>2. \A field \in {"useGenerator", "generatorReady"} :
        [set |-> field, val |-> FALSE, at |-> 0] \in Statements
  BY DEF Statements
<1> QED BY <1>1, <1>2 DEF ColorHead, PixelsHead, Stmt

LEMMA GeneratorTailIs ==
  ASSUME NEW g \in Generators
  PROVE  /\ GeneratorTail(g) \in Seq(Statements) /\ Len(GeneratorTail(g)) = 3
         /\ GeneratorTail(g)[1].set = "fadeSpeed"
         /\ GeneratorTail(g)[2].set = "generator" /\ GeneratorTail(g)[2].val = g
         /\ GeneratorTail(g)[3].set = "useGenerator" /\ GeneratorTail(g)[3].val = TRUE
<1>1. /\ [set |-> "fadeSpeed", val |-> GeneratorFade, at |-> 0] \in Statements
      /\ [set |-> "generator", val |-> g, at |-> 0] \in Statements
      /\ [set |-> "useGenerator", val |-> TRUE, at |-> 0] \in Statements
  BY LightsAssumption DEF Statements
<1> QED BY <1>1 DEF GeneratorTail, Stmt

LEMMA ColorIsScript ==
  ASSUME NEW c \in Levels
  PROVE  IsScript(setColor(c), ColorHead, Plain(c))
<1>1. Plain(c) \in [Pixels -> Levels]
  BY DEF Plain
<1>2. SetsTargets(Targets(Plain(c), FALSE), Plain(c))
  BY <1>1, TargetsScript
<1>3. setColor(c) = ColorHead \o Targets(Plain(c), FALSE)
  BY DEF setColor, ColorHead, Plain
<1> QED BY <1>2, <1>3, Heads, HeadAndTargets, Zenon

\* The scripts say what was asked for, in an order that ends with it.
LEMMA ColorScript ==
  ASSUME NEW c \in Levels, NEW w \in Wishes, w.kind = "color", w.levels = Plain(c)
  PROVE  /\ setColor(c) \in Seq(Statements)
         /\ Ordered(setColor(c), w) /\ Complete(setColor(c), w)
<1>1. IsScript(setColor(c), ColorHead, w.levels)
  BY ColorIsScript
<1>2. setColor(c) \in Seq(Statements)
  BY <1>1, Zenon DEF IsScript
<1>3. \A k \in 1..3 : k # 2 /\ k # 3 => k = 1
  OBVIOUS
<1>4. w.kind # "generator"
  OBVIOUS
<1>5. \E i, j \in 1..3 : /\ i < j
                         /\ ColorHead[i].set = "useGenerator" /\ ColorHead[i].val = FALSE
                         /\ ColorHead[j].set = "generatorReady" /\ ColorHead[j].val = FALSE
                         /\ \A k \in 1..3 : k # i /\ k # j => ColorHead[k].set = "fadeSpeed"
  <2>1. 2 \in 1..3 /\ 3 \in 1..3 /\ 2 < 3
    OBVIOUS
  <2> QED BY <1>3, <2>1, Heads, Zenon
<1> QED BY <1>1, <1>2, <1>4, <1>5, Heads, StopScript, Zenon

LEMMA PixelsScript ==
  ASSUME NEW fast \in BOOLEAN, NEW w \in Wishes, w.kind = "pixels"
  PROVE  /\ SetPixels(w.levels, fast) \in Seq(Statements)
         /\ Ordered(SetPixels(w.levels, fast), w) /\ Complete(SetPixels(w.levels, fast), w)
<1>1. IsScript(SetPixels(w.levels, fast), PixelsHead, w.levels)
  <2>1. SetsTargets(Targets(w.levels, fast), w.levels)
    BY TargetsScript DEF Wishes
  <2>2. SetPixels(w.levels, fast) = PixelsHead \o Targets(w.levels, fast)
    BY DEF SetPixels, PixelsHead
  <2> QED BY <2>1, <2>2, Heads, HeadAndTargets, Zenon
<1>2. SetPixels(w.levels, fast) \in Seq(Statements)
  BY <1>1, Zenon DEF IsScript
<1>3. \A k \in 1..3 : k # 1 /\ k # 2 => k = 3
  OBVIOUS
<1>4. w.kind # "generator"
  OBVIOUS
<1>5. \E i, j \in 1..3 : /\ i < j
                         /\ PixelsHead[i].set = "useGenerator" /\ PixelsHead[i].val = FALSE
                         /\ PixelsHead[j].set = "generatorReady" /\ PixelsHead[j].val = FALSE
                         /\ \A k \in 1..3 : k # i /\ k # j => PixelsHead[k].set = "fadeSpeed"
  <2>1. 1 \in 1..3 /\ 2 \in 1..3 /\ 1 < 2
    OBVIOUS
  <2> QED BY <1>3, <2>1, Heads, Zenon
<1> QED BY <1>1, <1>2, <1>4, <1>5, Heads, StopScript, Zenon

LEMMA GeneratorScript ==
  ASSUME NEW g \in Generators, NEW w \in Wishes,
         w.kind = "generator", w.generator = g, w.levels = Plain(0)
  PROVE  /\ setGenerator(g) \in Seq(Statements)
         /\ Ordered(setGenerator(g), w) /\ Complete(setGenerator(g), w)
<1> DEFINE base == setColor(0)  last == GeneratorTail(g)  script == setGenerator(g)
<1>1. Size \in Nat /\ 0 \in Levels /\ gamma[0] = 0
  BY LightsAssumption DEF Levels
<1>2. \A p \in Pixels : w.levels[p] = 0
  BY DEF Plain
<1>3. /\ base \in Seq(Statements) /\ Len(base) = Size + 3
      /\ base[1].set = "fadeSpeed"
      /\ base[2].set = "useGenerator" /\ base[2].val = FALSE
      /\ base[3].set = "generatorReady" /\ base[3].val = FALSE
      /\ \A i \in 4..(Size + 3) : /\ i - 3 \in Pixels
                                  /\ base[i].set \in {"target", "fast"}
                                  /\ base[i].val = 0
                                  /\ base[i].at = i - 3
  <2>1. IsScript(base, ColorHead, Plain(0))
    BY <1>1, ColorIsScript
  <2> HIDE DEF base
  <2>2. base \in Seq(Statements) /\ Len(base) = Size + 3 /\ \A i \in 1..3 : base[i] = ColorHead[i]
    BY <1>1, <2>1, Heads DEF IsScript
  <2>3. ASSUME NEW i \in 4..(Size + 3)
        PROVE  /\ i - 3 \in Pixels
               /\ base[i].set \in {"target", "fast"}
               /\ base[i].val = 0
               /\ base[i].at = i - 3
    <3>1. i \in (Len(ColorHead) + 1)..(Len(ColorHead) + Size) /\ Len(ColorHead) = 3
      BY <1>1, Heads
    <3>2. \A p \in Pixels : Plain(0)[p] = 0
      BY DEF Plain
    <3> QED BY <1>1, <2>1, <3>1, <3>2 DEF IsScript
  <2> QED BY <2>2, <2>3, Heads
<1>4. /\ last \in Seq(Statements) /\ Len(last) = 3
      /\ last[1].set = "fadeSpeed"
      /\ last[2].set = "generator" /\ last[2].val = g
      /\ last[3].set = "useGenerator" /\ last[3].val = TRUE
  BY GeneratorTailIs
<1>5. script = base \o last
  BY DEF setGenerator, GeneratorTail
<1> HIDE DEF base, last, script
<1>6. /\ script \in Seq(Statements) /\ Len(script) = Size + 6 /\ DOMAIN script = 1..(Size + 6)
      /\ \A i \in 1..(Size + 3) : script[i] = base[i]
      /\ \A i \in (Size + 4)..(Size + 6) : script[i] = last[i - (Size + 3)]
  <2>1. /\ base \o last \in Seq(Statements) /\ Len(base \o last) = Size + 3 + 3
        /\ \A i \in 1..(Size + 3 + 3) :
             (base \o last)[i] = IF i <= Size + 3 THEN base[i] ELSE last[i - (Size + 3)]
    <3>1. base \in Seq(Statements) /\ last \in Seq(Statements)
      BY <1>3, <1>4
    <3>2. /\ base \o last \in Seq(Statements) /\ Len(base \o last) = Len(base) + Len(last)
          /\ \A i \in 1..(Len(base) + Len(last)) :
               (base \o last)[i] = IF i <= Len(base) THEN base[i] ELSE last[i - Len(base)]
      BY <3>1, ConcatProperties, Zenon
    <3>3. Len(base) = Size + 3 /\ Len(last) = 3
      BY <1>3, <1>4
    <3> QED BY <3>2, <3>3, Zenon
  <2>2. DOMAIN (base \o last) = 1..Len(base \o last)
    BY <2>1, LenProperties
  <2> HIDE DEF Statements
  <2>3. \A i \in 1..(Size + 3) : script[i] = base[i]
    BY <1>1, <1>5, <2>1
  <2>4. \A i \in (Size + 4)..(Size + 6) : script[i] = last[i - (Size + 3)]
    BY <1>1, <1>5, <2>1
  <2> QED BY <1>1, <1>5, <2>1, <2>2, <2>3, <2>4
<1>7. /\ DOMAIN script = 1..(Size + 6) /\ Len(script) = Size + 6
      /\ script[1].set = "fadeSpeed"
      /\ script[2].set = "useGenerator" /\ script[2].val = FALSE
      /\ script[3].set = "generatorReady" /\ script[3].val = FALSE
      /\ \A i \in 4..(Size + 3) : /\ i - 3 \in Pixels
                                  /\ script[i].set \in {"target", "fast"}
                                  /\ script[i].val = 0
                                  /\ script[i].at = i - 3
      /\ script[Size + 4].set = "fadeSpeed"
      /\ script[Size + 5].set = "generator" /\ script[Size + 5].val = g
      /\ script[Size + 6].set = "useGenerator" /\ script[Size + 6].val = TRUE
  <2>1. /\ script[1] = base[1] /\ script[2] = base[2] /\ script[3] = base[3]
        /\ \A i \in 4..(Size + 3) : script[i] = base[i]
    BY <1>1, <1>6
  <2>2. script[Size + 4] = last[1] /\ script[Size + 5] = last[2] /\ script[Size + 6] = last[3]
    BY <1>1, <1>6
  <2> QED BY <1>3, <1>4, <1>6, <2>1, <2>2
<1>8. Complete(script, w)
  <2>1. ASSUME NEW p \in Pixels
        PROVE  \E i \in DOMAIN script : script[i].set \in {"target", "fast"} /\ script[i].at = p
    <3>1. p + 3 \in DOMAIN script /\ p + 3 \in 4..(Size + 3) /\ (p + 3) - 3 = p
      BY <1>1, <1>7 DEF Pixels
    <3>2. script[p + 3].set \in {"target", "fast"} /\ script[p + 3].at = (p + 3) - 3
      BY <1>7, <3>1
    <3> QED BY <3>1, <3>2
  <2>2. 2 \in DOMAIN script /\ 3 \in DOMAIN script /\ Size + 5 \in DOMAIN script
    BY <1>1, <1>7
  <2> QED BY <1>2, <1>7, <2>1, <2>2, Zenon DEF Complete
<1>9. Ordered(script, w)
  <2> SUFFICES ASSUME NEW i \in DOMAIN script
               PROVE  /\ script[i].set \in {"target", "fast"} =>
                           script[i].val = gamma[w.levels[script[i].at]]
                      /\ script[i].set = "generator" =>
                           w.kind = "generator" /\ script[i].val = w.generator
                      /\ script[i].set = "generatorReady" => script[i].val = FALSE
                      /\ script[i].set = "useGenerator" =>
                           IF script[i].val
                             THEN w.kind = "generator" /\ i = Len(script)
                             ELSE /\ \E j \in DOMAIN script :
                                       j > i /\ script[j].set = "generatorReady"
                                  /\ w.kind = "generator" =>
                                       \E j \in DOMAIN script :
                                         j > i /\ script[j].set = "useGenerator" /\ script[j].val
    BY Zenon DEF Ordered
  <2>1. CASE i = 2
    <3>1. /\ 3 \in DOMAIN script /\ Size + 6 \in DOMAIN script
          /\ 3 > i /\ Size + 6 > i
      BY <1>1, <1>7, <2>1
    <3> QED BY <1>7, <2>1, <3>1
  <2>2. CASE i \in 4..(Size + 3)
    BY <1>1, <1>2, <1>7, <2>2
  <2>3. CASE i \in {1, 3, Size + 4, Size + 5, Size + 6}
    BY <1>1, <1>7, <2>3
  <2>4. i = 2 \/ i \in 4..(Size + 3) \/ i \in {1, 3, Size + 4, Size + 5, Size + 6}
    BY <1>1, <1>7
  <2> QED BY <2>1, <2>2, <2>3, <2>4, Zenon
<1> QED BY <1>6, <1>8, <1>9, Zenon DEF script

-----------------------------------------------------------------------------
(* A call runs its statements. *)

LEMMA HeadAndRest ==
  ASSUME NEW s \in Seq(Statements), s # <<>>
  PROVE  /\ Tail(s) \in Seq(Statements) /\ Head(s) \in Statements /\ Head(s) = s[1]
         /\ Len(s) \in Nat \ {0} /\ DOMAIN s = 1..Len(s) /\ 1 \in DOMAIN s
         /\ Len(Tail(s)) = Len(s) - 1
         /\ \A i \in DOMAIN Tail(s) :
              i \in Nat /\ i + 1 \in DOMAIN s /\ Tail(s)[i] = s[i + 1]
         /\ \A j \in DOMAIN s : j # 1 => j - 1 \in DOMAIN Tail(s) /\ Tail(s)[j - 1] = s[j]
<1>1. /\ Tail(s) \in Seq(Statements) /\ Head(s) \in Statements /\ Len(Tail(s)) = Len(s) - 1
      /\ \A i \in 1..Len(Tail(s)) : Tail(s)[i] = s[i + 1]
  BY HeadTailProperties
<1>2. Len(s) \in Nat \ {0} /\ DOMAIN s = 1..Len(s)
  BY EmptySeq, LenProperties
<1>3. DOMAIN Tail(s) = 1..(Len(s) - 1)
  BY <1>1, LenProperties
<1>4. Head(s) = s[1]
  OBVIOUS
<1>5. ASSUME NEW i \in DOMAIN Tail(s)
      PROVE  i \in Nat /\ i + 1 \in DOMAIN s /\ Tail(s)[i] = s[i + 1]
  BY <1>1, <1>2, <1>3
<1>6. ASSUME NEW j \in DOMAIN s, j # 1
      PROVE  j - 1 \in DOMAIN Tail(s) /\ Tail(s)[j - 1] = s[j]
  <2>1. j - 1 \in 1..(Len(s) - 1) /\ (j - 1) + 1 = j
    BY <1>2, <1>6
  <2> QED BY <1>1, <1>3, <2>1
<1> QED BY <1>1, <1>2, <1>4, <1>5, <1>6

\* What remains of a call is in order.
LEMMA RestOrdered ==
  ASSUME NEW s \in Seq(Statements), s # <<>>, NEW w, Ordered(s, w)
  PROVE  Ordered(Tail(s), w)
<1> DEFINE rest == Tail(s)
<1>1. /\ Len(s) \in Nat \ {0} /\ DOMAIN s = 1..Len(s) /\ Len(rest) = Len(s) - 1
      /\ \A i \in DOMAIN rest : i \in Nat /\ i + 1 \in DOMAIN s /\ rest[i] = s[i + 1]
      /\ \A j \in DOMAIN s : j # 1 => j - 1 \in DOMAIN rest /\ rest[j - 1] = s[j]
  BY HeadAndRest, Zenon
<1> HIDE DEF rest
<1> SUFFICES ASSUME NEW i \in DOMAIN rest
             PROVE  /\ rest[i].set \in {"target", "fast"} => rest[i].val = gamma[w.levels[rest[i].at]]
                    /\ rest[i].set = "generator" => w.kind = "generator" /\ rest[i].val = w.generator
                    /\ rest[i].set = "generatorReady" => rest[i].val = FALSE
                    /\ rest[i].set = "useGenerator" =>
                         IF rest[i].val
                           THEN w.kind = "generator" /\ i = Len(rest)
                           ELSE /\ \E j \in DOMAIN rest : j > i /\ rest[j].set = "generatorReady"
                                /\ w.kind = "generator" =>
                                     \E j \in DOMAIN rest :
                                       j > i /\ rest[j].set = "useGenerator" /\ rest[j].val
  BY Zenon DEF Ordered, rest
<1>2. i \in Nat /\ i + 1 \in DOMAIN s /\ rest[i] = s[i + 1]
  BY <1>1
<1>3. /\ rest[i].set \in {"target", "fast"} => rest[i].val = gamma[w.levels[rest[i].at]]
      /\ rest[i].set = "generator" => w.kind = "generator" /\ rest[i].val = w.generator
      /\ rest[i].set = "generatorReady" => rest[i].val = FALSE
      /\ rest[i].set = "useGenerator" =>
           IF rest[i].val
             THEN w.kind = "generator" /\ i + 1 = Len(s)
             ELSE /\ \E j \in DOMAIN s : j > i + 1 /\ s[j].set = "generatorReady"
                  /\ w.kind = "generator" =>
                       \E j \in DOMAIN s : j > i + 1 /\ s[j].set = "useGenerator" /\ s[j].val
  <2>1. /\ s[i + 1].set \in {"target", "fast"} => s[i + 1].val = gamma[w.levels[s[i + 1].at]]
        /\ s[i + 1].set = "generator" => w.kind = "generator" /\ s[i + 1].val = w.generator
        /\ s[i + 1].set = "generatorReady" => s[i + 1].val = FALSE
        /\ s[i + 1].set = "useGenerator" =>
             IF s[i + 1].val
               THEN w.kind = "generator" /\ i + 1 = Len(s)
               ELSE /\ \E j \in DOMAIN s : j > i + 1 /\ s[j].set = "generatorReady"
                    /\ w.kind = "generator" =>
                         \E j \in DOMAIN s : j > i + 1 /\ s[j].set = "useGenerator" /\ s[j].val
    BY <1>2, Zenon DEF Ordered
  <2> QED BY <1>2, <2>1, Zenon
<1>4. i + 1 = Len(s) => i = Len(rest)
  BY <1>1, <1>2
<1>5. \A j \in DOMAIN s : j > i + 1 => j - 1 \in DOMAIN rest /\ j - 1 > i /\ rest[j - 1] = s[j]
  BY <1>1, <1>2
<1> QED BY <1>3, <1>4, <1>5, Zenon

\* What was to come is still to come, or has just been done.
LEMMA RestPending ==
  ASSUME todo \in Seq(Statements), todo # <<>>, todo' = Tail(todo)
  PROVE  /\ \A field : Pending(field) => Head(todo).set = field \/ Pending(field)'
         /\ \A p \in Pixels : PendingPixel(p) =>
              \/ Head(todo).set \in {"target", "fast"} /\ Head(todo).at = p
              \/ PendingPixel(p)'
<1>1. /\ Head(todo) = todo[1]
      /\ \A j \in DOMAIN todo : j # 1 => j - 1 \in DOMAIN Tail(todo) /\ Tail(todo)[j - 1] = todo[j]
  BY HeadAndRest, Zenon
<1> QED BY <1>1, Zenon DEF Pending, PendingPixel

\* A statement that clears _useGenerator is followed by one that clears
\* _generatorReady, and in setGenerator by one that sets _useGenerator again.
LEMMA Followed ==
  ASSUME todo \in Seq(Statements), todo # <<>>, Ordered(todo, wanted), todo' = Tail(todo),
         Head(todo).set = "useGenerator", ~ Head(todo).val
  PROVE  wanted.kind = "generator" => Pending("useGenerator")'
<1>1. /\ Head(todo) = todo[1] /\ 1 \in DOMAIN todo
      /\ \A j \in DOMAIN todo : j # 1 => j - 1 \in DOMAIN Tail(todo) /\ Tail(todo)[j - 1] = todo[j]
  BY HeadAndRest, Zenon
<1>2. wanted.kind = "generator" =>
        \E j \in DOMAIN todo : j > 1 /\ todo[j].set = "useGenerator" /\ todo[j].val
  <2>1. todo[1].set = "useGenerator" /\ ~ todo[1].val
    BY <1>1, Zenon
  <2>2. todo[1].set = "useGenerator" =>
          IF todo[1].val
            THEN wanted.kind = "generator" /\ 1 = Len(todo)
            ELSE /\ \E j \in DOMAIN todo : j > 1 /\ todo[j].set = "generatorReady"
                 /\ wanted.kind = "generator" =>
                      \E j \in DOMAIN todo : j > 1 /\ todo[j].set = "useGenerator" /\ todo[j].val
    BY <1>1, Zenon DEF Ordered
  <2> QED BY <2>1, <2>2, Zenon
<1>3. \A j \in DOMAIN todo : j > 1 => j # 1
  <2>1. DOMAIN todo = 1..Len(todo) /\ Len(todo) \in Nat
    BY LenProperties
  <2> QED BY <2>1
<1> QED BY <1>1, <1>2, <1>3, Zenon DEF Pending

LEMMA StopFollows ==
  ASSUME Ordered(todo, wanted), wanted.kind # "generator", Pending("useGenerator")
  PROVE  Pending("generatorReady")
<1>1. PICK i \in DOMAIN todo : todo[i].set = "useGenerator"
  BY Zenon DEF Pending
<1>2. todo[i].set = "useGenerator" =>
        IF todo[i].val
          THEN wanted.kind = "generator" /\ i = Len(todo)
          ELSE /\ \E j \in DOMAIN todo : j > i /\ todo[j].set = "generatorReady"
               /\ wanted.kind = "generator" =>
                    \E j \in DOMAIN todo : j > i /\ todo[j].set = "useGenerator" /\ todo[j].val
  BY Zenon DEF Ordered
<1> QED BY <1>1, <1>2, Zenon DEF Pending

-----------------------------------------------------------------------------
(* The invariant, step by step. *)

LEMMA InitLights == Init => LightsInv
<1> SUFFICES ASSUME Init PROVE LightsInv
  OBVIOUS
<1>1. TypeOK
  <2>1. /\ useGenerator \in BOOLEAN /\ generatorReady \in BOOLEAN /\ same \in BOOLEAN
        /\ overlapped \in BOOLEAN /\ raced \in BOOLEAN /\ unseen \in BOOLEAN
    BY Zenon DEF Init
  <2>2. generator \in Generators \cup {loading} /\ lpc \in {"top", "frame", "read", "write", "check", "ready"}
    BY DEF Init
  <2>3. fadeSpeed \in 1..Max /\ next \in Levels /\ calls \in 0..MaxCalls /\ pix \in 1..(Size + 1)
    BY LightsAssumption DEF Init, Levels
  <2>4. {gamma[l] : l \in Levels} \subseteq Levels
    BY LightsAssumption
  <2>5. target \in [Pixels -> Levels] /\ current \in [Pixels -> Levels] /\ strip = current
    BY <2>4 DEF Init
  <2> QED BY <2>1, <2>2, <2>3, <2>5, Zenon DEF TypeOK
<1>2. CallerOK
  <2>1. todo \in Seq(Statements)
    BY EmptySeq, Zenon DEF Init
  <2>2. wanted \in Wishes
    BY LightsAssumption DEF Init, Wishes, Kinds, Levels
  <2> QED BY <2>1, <2>2 DEF CallerOK
<1>3. Ordered(todo, wanted)
  BY DEF Init, Ordered
<1>4. Arriving
  BY DEF Init, Arriving, Idle
<1>5. Round
  BY DEF Init, Round
<1> QED BY <1>1, <1>2, <1>3, <1>4, <1>5 DEF LightsInv

LEMMA CallKeeps ==
  ASSUME LightsInv, NEW w \in Wishes, NEW script \in Seq(Statements),
         Ordered(script, w), Complete(script, w), Call(w.kind, w.generator, w.levels, script)
  PROVE  LightsInv'
<1>1. /\ Idle /\ calls < MaxCalls /\ calls' = calls + 1 /\ todo' = script
      /\ UNCHANGED <<useGenerator, generatorReady, generator, fadeSpeed, target, current, strip,
                     lpc, pix, next, same, raced, unseen>>
      /\ overlapped' = (lpc' # "top" /\ (overlapped \/ todo' # <<>>))
  BY DEF Call, Overlap, fields, looper
<1>2. wanted' = w
  BY DEF Call, Wishes
<1>3. todo' # <<>>
  BY <1>1 DEF Complete
<1>4. TypeOK'
  <2>1. calls' \in 0..MaxCalls
    BY <1>1, LightsAssumption DEF LightsInv, TypeOK
  <2>2. overlapped' \in BOOLEAN
    BY <1>1, Zenon
  <2> QED BY <1>1, <2>1, <2>2 DEF LightsInv, TypeOK
<1>5. CallerOK' /\ Ordered(todo, wanted)'
  <2>1. CallerOK'
    BY <1>1, <1>2 DEF CallerOK
  <2>2. Ordered(todo', wanted')
    BY <1>1, <1>2, Zenon
  <2> QED BY <2>1, <2>2, Zenon DEF Ordered
<1>6. Arriving'
  <2>1. /\ \A p \in Pixels : PendingPixel(p)'
        /\ Pending("useGenerator")' /\ Pending("generatorReady")'
        /\ w.kind = "generator" => Pending("generator")' /\ \A p \in Pixels : w.levels[p] = 0
    BY <1>1, Zenon DEF Complete, Pending, PendingPixel
  <2>2. ~ (calls' = 0)
    BY <1>1 DEF LightsInv, TypeOK
  <2> QED BY <1>2, <2>1, <2>2, Zenon DEF Arriving
<1>7. Round'
  <2>1. lpc' # "top" => overlapped'
    BY <1>1, <1>3, Zenon
  <2>2. lpc' = "write" => pix' <= Size
    BY <1>1 DEF LightsInv, Round
  <2>3. ~ ("read" = "top") /\ ~ ("write" = "top") /\ ~ ("check" = "top") /\ ~ ("ready" = "top")
    OBVIOUS
  <2> QED BY <2>1, <2>2, <2>3, Zenon DEF Round
<1> QED BY <1>4, <1>5, <1>6, <1>7, Zenon DEF LightsInv

LEMMA StatementKeeps ==
  ASSUME LightsInv, Statement
  PROVE  LightsInv'
<1> DEFINE s == Head(todo)
<1>1. /\ todo # <<>> /\ todo' = Tail(todo) /\ todo \in Seq(Statements) /\ Ordered(todo, wanted)
      /\ wanted' = wanted /\ calls' = calls
      /\ overlapped' = (lpc' # "top" /\ (overlapped \/ todo' # <<>>))
  BY DEF Statement, Idle, LightsInv, CallerOK, Overlap
<1>2. /\ s \in Statements
      /\ s.set \in {"target", "fast"} => s.val = gamma[wanted.levels[s.at]]
      /\ s.set = "generator" => s.val = wanted.generator
      /\ s.set = "generatorReady" => s.val = FALSE
      /\ s.set = "useGenerator" => (s.val => wanted.kind = "generator")
      /\ s.set = "useGenerator" /\ ~ s.val /\ wanted.kind = "generator" => Pending("useGenerator")'
  <2>1. s \in Statements /\ 1 \in DOMAIN todo /\ s = todo[1]
    BY <1>1, HeadAndRest, Zenon
  <2>2. /\ todo[1].set \in {"target", "fast"} => todo[1].val = gamma[wanted.levels[todo[1].at]]
        /\ todo[1].set = "generator" => todo[1].val = wanted.generator
        /\ todo[1].set = "generatorReady" => todo[1].val = FALSE
        /\ todo[1].set = "useGenerator" => (todo[1].val => wanted.kind = "generator")
    BY <1>1, <2>1, Zenon DEF Ordered
  <2>3. s.set = "useGenerator" /\ ~ s.val /\ wanted.kind = "generator" => Pending("useGenerator")'
    BY <1>1, Followed, Zenon
  <2> QED BY <2>1, <2>2, <2>3, Zenon
<1>3. /\ s.set \in {"useGenerator", "generatorReady"} => s.val \in BOOLEAN
      /\ s.set = "generator" => s.val \in Generators
      /\ s.set = "fadeSpeed" => s.val \in 1..Max
      /\ s.set \in {"target", "fast"} => s.val \in Levels /\ s.at \in Pixels
  <2>1. CASE s \in [set : {"useGenerator", "generatorReady"}, val : BOOLEAN, at : {0}]
    BY <2>1
  <2>2. CASE s \in [set : {"generator"}, val : Generators, at : {0}]
    BY <2>2
  <2>3. CASE s \in [set : {"fadeSpeed"}, val : 1..Max, at : {0}]
    BY <2>3
  <2>4. CASE s \in [set : {"target", "fast"}, val : Levels, at : Pixels]
    BY <2>4
  <2> QED BY <1>2, <2>1, <2>2, <2>3, <2>4, Zenon DEF Statements
<1>4. /\ useGenerator'   = IF s.set = "useGenerator"   THEN s.val ELSE useGenerator
      /\ generatorReady' = IF s.set = "generatorReady" THEN s.val ELSE generatorReady
      /\ generator'      = IF s.set = "generator"      THEN s.val ELSE generator
      /\ fadeSpeed'      = IF s.set = "fadeSpeed"      THEN s.val ELSE fadeSpeed
      /\ target'         = IF s.set \in {"target", "fast"}
                           THEN [target EXCEPT ![s.at] = s.val] ELSE target
      /\ current'        = IF s.set = "fast" /\ s.val > current[s.at]
                           THEN [current EXCEPT ![s.at] = s.val] ELSE current
      /\ unseen' = (unseen \/ current' # current)
      /\ UNCHANGED <<strip, lpc, pix, next, same, raced>>
  BY DEF Statement, looper
<1> HIDE DEF s
<1>5. TypeOK'
  <2>1. /\ useGenerator' \in BOOLEAN /\ generatorReady' \in BOOLEAN /\ same' \in BOOLEAN
        /\ overlapped' \in BOOLEAN /\ raced' \in BOOLEAN /\ unseen' \in BOOLEAN
    BY <1>1, <1>3, <1>4, Zenon DEF LightsInv, TypeOK
  <2>2. generator' \in Generators \cup {loading}
    BY <1>3, <1>4 DEF LightsInv, TypeOK
  <2>3. fadeSpeed' \in 1..Max
    BY <1>3, <1>4 DEF LightsInv, TypeOK
  <2>4. target' \in [Pixels -> Levels]
    BY <1>3, <1>4 DEF LightsInv, TypeOK
  <2>5. current' \in [Pixels -> Levels]
    BY <1>3, <1>4 DEF LightsInv, TypeOK
  <2>6. /\ strip' \in [Pixels -> Levels] /\ next' \in Levels /\ calls' \in 0..MaxCalls
        /\ lpc' \in {"top", "frame", "read", "write", "check", "ready"} /\ pix' \in 1..(Size + 1)
    BY <1>1, <1>4 DEF LightsInv, TypeOK
  <2> QED BY <2>1, <2>2, <2>3, <2>4, <2>5, <2>6, Zenon DEF TypeOK
<1>6. CallerOK' /\ Ordered(todo, wanted)'
  <2>1. CallerOK'
    BY <1>1, HeadAndRest, Zenon DEF LightsInv, CallerOK
  <2>2. Ordered(todo', wanted')
    BY <1>1, RestOrdered, Zenon
  <2> QED BY <2>1, <2>2, Zenon DEF Ordered
<1>7. Arriving'
  <2>1. /\ \A field : Pending(field) => s.set = field \/ Pending(field)'
        /\ \A p \in Pixels : PendingPixel(p) =>
             \/ s.set \in {"target", "fast"} /\ s.at = p
             \/ PendingPixel(p)'
    BY <1>1, RestPending, Zenon DEF s
  <2>2. ~ (calls' = 0) /\ calls > 0
    <3>1. calls # 0 /\ calls \in 0..MaxCalls
      BY <1>1 DEF LightsInv, TypeOK, Arriving, Idle
    <3> QED BY <1>1, <3>1, LightsAssumption
  <2>3. ASSUME NEW p \in Pixels
        PROVE  target'[p] = gamma[wanted'.levels[p]] \/ PendingPixel(p)'
    <3>1. target[p] = gamma[wanted.levels[p]] \/ PendingPixel(p)
      BY <1>1, <2>2, Zenon DEF LightsInv, Arriving
    <3>2. CASE s.set \in {"target", "fast"} /\ s.at = p
      <4>1. target'[p] = s.val
        BY <1>4, <3>2 DEF LightsInv, TypeOK
      <4> QED BY <1>1, <1>2, <3>2, <4>1, Zenon
    <3>3. CASE ~ (s.set \in {"target", "fast"} /\ s.at = p)
      <4>1. target'[p] = target[p]
        BY <1>3, <1>4, <3>3 DEF LightsInv, TypeOK
      <4> QED BY <1>1, <2>1, <3>1, <3>3, <4>1, Zenon
    <3> QED BY <3>2, <3>3, Zenon
  <2>4. (useGenerator' <=> wanted'.kind = "generator") \/ Pending("useGenerator")'
    <3>1. (useGenerator <=> wanted.kind = "generator") \/ Pending("useGenerator")
      BY Zenon DEF LightsInv, Arriving
    <3>2. CASE s.set = "useGenerator"
      BY <1>1, <1>2, <1>4, <3>2, Zenon
    <3>3. CASE s.set # "useGenerator"
      BY <1>1, <1>4, <2>1, <3>1, <3>3, Zenon
    <3> QED BY <3>2, <3>3, Zenon
  <2>5. wanted'.kind = "generator" => /\ generator' = wanted'.generator \/ Pending("generator")'
                                      /\ \A p \in Pixels : wanted'.levels[p] = 0
    <3>1. wanted.kind = "generator" => /\ generator = wanted.generator \/ Pending("generator")
                                       /\ \A p \in Pixels : wanted.levels[p] = 0
      BY Zenon DEF LightsInv, Arriving
    <3>2. CASE s.set = "generator"
      BY <1>1, <1>2, <1>4, <3>1, <3>2, Zenon
    <3>3. CASE s.set # "generator"
      BY <1>1, <1>4, <2>1, <3>1, <3>3, Zenon
    <3> QED BY <3>2, <3>3, Zenon
  <2>6. wanted'.kind # "generator" => ~ generatorReady' \/ raced' \/ Pending("generatorReady")'
    <3>1. wanted.kind # "generator" => ~ generatorReady \/ raced \/ Pending("generatorReady")
      BY Zenon DEF LightsInv, Arriving
    <3>2. CASE s.set = "generatorReady"
      BY <1>1, <1>2, <1>4, <3>2, Zenon
    <3>3. CASE s.set # "generatorReady"
      BY <1>1, <1>4, <2>1, <3>1, <3>3, Zenon
    <3> QED BY <3>2, <3>3, Zenon
  <2> QED BY <2>2, <2>3, <2>4, <2>5, <2>6, Zenon DEF Arriving
<1>8. Round'
  <2>1. lpc' # "top" => overlapped'
    <3>1. lpc # "top" => overlapped
      BY <1>1, Zenon DEF LightsInv, Round, Idle
    <3> QED BY <1>1, <1>4, <3>1, Zenon
  <2>2. lpc' = "write" => pix' <= Size
    BY <1>4 DEF LightsInv, Round
  <2>3. ~ ("read" = "top") /\ ~ ("write" = "top") /\ ~ ("check" = "top") /\ ~ ("ready" = "top")
    OBVIOUS
  <2> QED BY <2>1, <2>2, <2>3, Zenon DEF Round
<1> QED BY <1>5, <1>6, <1>7, <1>8, Zenon DEF LightsInv

\* doupdate leaves the call alone.
LEMMA RoundKeeps ==
  ASSUME LightsInv, doupdate, TypeOK', Round',
         UNCHANGED <<useGenerator, generator, fadeSpeed, target, todo, wanted, calls>>,
         generatorReady' = (generatorReady \/ lpc = "ready")
  PROVE  LightsInv'
<1>1. CallerOK' /\ Ordered(todo, wanted)'
  BY DEF LightsInv, CallerOK, Ordered
<1>2. raced' = (raced \/ (lpc = "ready" /\ ~ useGenerator))
  BY Zenon DEF doupdate
<1>3. Arriving'
  <2>1. Arriving /\ Ordered(todo, wanted)
    BY DEF LightsInv
  <2>2. /\ \A field : Pending(field)' <=> Pending(field)
        /\ \A p : PendingPixel(p)' <=> PendingPixel(p)
    BY DEF Pending, PendingPixel
  <2>3. wanted'.kind # "generator" => ~ generatorReady' \/ raced' \/ Pending("generatorReady")'
    <3>1. CASE lpc = "ready" /\ useGenerator /\ wanted.kind # "generator"
      <4>1. Pending("useGenerator")
        BY <2>1, <3>1, Zenon DEF Arriving
      <4> QED BY <2>1, <2>2, <3>1, <4>1, StopFollows, Zenon
    <3>2. CASE lpc = "ready" /\ ~ useGenerator
      BY <1>2, <3>2, Zenon
    <3>3. CASE lpc # "ready"
      BY <1>2, <2>1, <2>2, <3>3, Zenon DEF Arriving
    <3> QED BY <3>1, <3>2, <3>3, Zenon
  <2>4. calls' = 0 => Idle' /\ generatorReady' /\ wanted'.kind = "generator"
    BY <2>1, Zenon DEF Arriving, Idle
  <2>5. calls' > 0 => \A p \in Pixels : target'[p] = gamma[wanted'.levels[p]] \/ PendingPixel(p)'
    BY <2>1, <2>2, Zenon DEF Arriving
  <2>6. (useGenerator' <=> wanted'.kind = "generator") \/ Pending("useGenerator")'
    BY <2>1, <2>2, Zenon DEF Arriving
  <2>7. wanted'.kind = "generator" => /\ generator' = wanted'.generator \/ Pending("generator")'
                                      /\ \A p \in Pixels : wanted'.levels[p] = 0
    BY <2>1, <2>2, Zenon DEF Arriving
  <2> QED BY <2>3, <2>4, <2>5, <2>6, <2>7, Zenon DEF Arriving
<1> QED BY <1>1, <1>3, Zenon DEF LightsInv

LEMMA DoupdateKeeps ==
  ASSUME LightsInv, doupdate
  PROVE  LightsInv'
<1>1. /\ overlapped' = (lpc' # "top" /\ (overlapped \/ todo' # <<>>))
      /\ raced' = (raced \/ (lpc = "ready" /\ ~ useGenerator))
      /\ unseen' = (unseen /\ strip' # current)
  BY DEF doupdate, Overlap
<1>2. TypeOK /\ Round /\ Size \in Nat \ {0}
  BY LightsAssumption DEF LightsInv
<1>3. overlapped' \in BOOLEAN /\ raced' \in BOOLEAN /\ unseen' \in BOOLEAN
  BY <1>1, <1>2, Zenon DEF TypeOK
<1>4. /\ UNCHANGED <<useGenerator, generator, fadeSpeed, target, todo, wanted, calls>>
      /\ generatorReady' = (generatorReady \/ lpc = "ready")
  <2>1. CASE SetReady
    <3>1. lpc = "ready" /\ generatorReady' = TRUE
      BY <2>1, Zenon DEF SetReady
    <3>2. UNCHANGED <<useGenerator, generator, fadeSpeed, target, todo, wanted, calls>>
      BY <2>1 DEF SetReady, caller
    <3> QED BY <3>1, <3>2, Zenon
  <2>2. CASE Top \/ Frame \/ ShowFrame \/ Read \/ Write \/ Adjusted \/ CheckGenerator
    <3>1. lpc # "ready"
      BY <2>2 DEF Top, Frame, ShowFrame, Read, Write, Adjusted, CheckGenerator
    <3>2. UNCHANGED fields /\ UNCHANGED caller
      BY <2>2, Zenon DEF Top, Frame, ShowFrame, Read, Write, Adjusted, CheckGenerator
    <3>3. /\ UNCHANGED <<useGenerator, generator, fadeSpeed, target, todo, wanted, calls>>
          /\ generatorReady' = generatorReady
      BY <3>2 DEF fields, caller
    <3>4. generatorReady \in BOOLEAN
      BY <1>2, Zenon DEF TypeOK
    <3> QED BY <3>1, <3>3, <3>4, Zenon
  <2> QED BY <2>1, <2>2, Zenon DEF doupdate
<1>5. /\ useGenerator' \in BOOLEAN /\ generatorReady' \in BOOLEAN
      /\ generator' \in Generators \cup {loading} /\ fadeSpeed' \in 1..Max
      /\ target' \in [Pixels -> Levels] /\ calls' \in 0..MaxCalls
  BY <1>2, <1>4, Zenon DEF TypeOK
<1>6. /\ lpc' # "top" /\ ~ overlapped' => Idle' /\ ~ overlapped
      /\ lpc # "top" /\ ~ overlapped => Idle
  BY <1>1, <1>2, Zenon DEF Round, Idle
<1> DEFINE LoopOK == /\ current \in [Pixels -> Levels] /\ strip \in [Pixels -> Levels]
                     /\ next \in Levels /\ same \in BOOLEAN /\ pix \in 1..(Size + 1)
                     /\ lpc \in {"top", "frame", "read", "write", "check", "ready"}
           RoundOK == /\ lpc \in {"read", "write"} /\ ~ overlapped /\ same =>
                           \A p \in Pixels : p < pix => current[p] = target[p]
                      /\ lpc \in {"check", "ready"} /\ ~ overlapped =>
                           \A p \in Pixels : current[p] = target[p]
                      /\ lpc = "ready" /\ ~ overlapped => useGenerator
                      /\ lpc = "write" => pix <= Size
<1>7. LoopOK /\ RoundOK
  BY <1>2, Zenon DEF TypeOK, Round
<1>8. SUFFICES LoopOK' /\ RoundOK'
  <2>1. TypeOK'
    BY <1>3, <1>5, <1>8, Zenon DEF TypeOK
  <2>2. Round'
    BY <1>6, <1>8, Zenon DEF Round
  <2> QED BY <1>4, <2>1, <2>2, RoundKeeps, Zenon
<1>9. CASE Top
  <2>1. /\ lpc' \in {"frame", "read"} /\ pix' = 1 /\ UNCHANGED <<current, strip, next>>
        /\ same' = TRUE
    BY <1>9 DEF Top
  <2>2. \A p \in Pixels : ~ (p < pix')
    BY <1>2, <2>1 DEF Pixels
  <2>3. pix' \in 1..(Size + 1)
    BY <1>2, <2>1
  <2>4. same' \in BOOLEAN
    BY <2>1, Zenon
  <2>5. LoopOK'
    BY <1>7, <2>1, <2>3, <2>4
  <2>6. lpc' # "write" /\ lpc' # "check" /\ lpc' # "ready"
    BY <2>1
  <2>7. lpc' \notin {"check", "ready"}
    BY <2>6
  <2> QED BY <2>2, <2>5, <2>6, <2>7, Zenon
<1>10. CASE Frame
  <2>1. /\ lpc = "frame" /\ lpc' = lpc /\ pix <= Size /\ pix' = pix + 1
        /\ UNCHANGED <<strip, next, same>>
        /\ \E level \in Levels : current' = [current EXCEPT ![pix] = gamma[level]]
    BY <1>10 DEF Frame
  <2>2. current' \in [Pixels -> Levels]
    BY <1>7, <2>1, LightsAssumption
  <2>3. pix' \in 1..(Size + 1)
    BY <1>2, <1>7, <2>1
  <2>4. LoopOK'
    BY <1>7, <2>1, <2>2, <2>3
  <2>5. lpc' \notin {"read", "write", "check", "ready"}
    BY <2>1
  <2> QED BY <2>4, <2>5
<1>11. CASE ShowFrame
  <2>1. lpc' = "top" /\ strip' = current /\ UNCHANGED <<current, pix, next, same>>
    BY <1>11 DEF ShowFrame, update
  <2> QED BY <1>7, <2>1
<1>12. CASE Read
  <2>1. /\ lpc = "read" /\ pix <= Size /\ UNCHANGED <<current, strip, same>>
    BY <1>12 DEF Read
  <2>2. pix \in Pixels
    BY <1>2, <1>7, <2>1 DEF Pixels
  <2>3. CASE current[pix] = target[pix]
    <3>1. pix' = pix + 1 /\ lpc' = lpc /\ next' = next
      BY <1>12, <2>3 DEF Read
    <3>2. LoopOK'
      BY <1>2, <1>7, <2>1, <3>1
    <3>3. ~ overlapped' /\ same' => \A p \in Pixels : p < pix' => current'[p] = target'[p]
      <4>1. ~ overlapped' => ~ overlapped
        BY <1>6, <2>1, <3>1
      <4>2. ~ overlapped /\ same => \A p \in Pixels : p < pix => current[p] = target[p]
        BY <1>7, <2>1
      <4>3. \A p \in Pixels : p < pix' => p < pix \/ p = pix
        BY <2>2, <3>1 DEF Pixels
      <4>4. target' = target /\ current' = current /\ same' = same
        BY <1>4, <2>1
      <4> QED BY <2>3, <4>1, <4>2, <4>3, <4>4, Zenon
    <3>4. lpc' \notin {"check", "ready"} /\ lpc' # "ready" /\ lpc' # "write"
      BY <2>1, <3>1
    <3> QED BY <3>2, <3>3, <3>4, Zenon
  <2>4. CASE current[pix] # target[pix]
    <3>1. next' = adjust(current[pix], target[pix], fadeSpeed) /\ lpc' = "write" /\ pix' = pix
      BY <1>12, <2>4 DEF Read
    <3>2. next' \in Levels
      <4>1. current[pix] \in Levels /\ target[pix] \in Levels /\ fadeSpeed \in 1..Max
        BY <1>2, <2>2 DEF TypeOK
      <4> QED BY <2>4, <3>1, <4>1, AdjustApproaches, Zenon
    <3>3. LoopOK'
      BY <1>7, <2>1, <3>1, <3>2
    <3>4. ~ overlapped' /\ same' => \A p \in Pixels : p < pix' => current'[p] = target'[p]
      <4>1. ~ overlapped' => ~ overlapped
        BY <1>6, <3>1
      <4>2. ~ overlapped /\ same => \A p \in Pixels : p < pix => current[p] = target[p]
        BY <1>7, <2>1
      <4>3. target' = target /\ current' = current /\ same' = same
        BY <1>4, <2>1
      <4> QED BY <3>1, <4>1, <4>2, <4>3, Zenon
    <3>5. lpc' \notin {"check", "ready"} /\ lpc' # "ready" /\ pix' <= Size
      BY <2>1, <3>1
    <3> QED BY <3>3, <3>4, <3>5, Zenon
  <2> QED BY <2>3, <2>4, Zenon
<1>13. CASE Write
  <2>1. /\ lpc = "write" /\ lpc' = "read" /\ pix' = pix + 1 /\ UNCHANGED <<strip, next>>
        /\ current' = [current EXCEPT ![pix] = next]
    BY <1>13 DEF Write
  <2>2. ~ same' /\ same' \in BOOLEAN
    BY <1>13, Zenon DEF Write
  <2>3. pix <= Size
    BY <1>7, <2>1
  <2>4. current' \in [Pixels -> Levels] /\ pix' \in 1..(Size + 1)
    BY <1>2, <1>7, <2>1, <2>3 DEF Pixels
  <2>5. LoopOK'
    BY <1>7, <2>1, <2>2, <2>4
  <2>6. lpc' \notin {"check", "ready"} /\ lpc' # "ready" /\ lpc' # "write"
    BY <2>1
  <2> QED BY <2>2, <2>5, <2>6, Zenon
<1>14. CASE Adjusted
  <2>1. /\ lpc = "read" /\ pix > Size /\ UNCHANGED <<current, pix, next, same>>
        /\ strip' = strip \/ strip' = current
    BY <1>14 DEF Adjusted, update
  <2>2. CASE same
    <3>1. lpc' = "check"
      BY <1>14, <2>2 DEF Adjusted
    <3>2. LoopOK'
      BY <1>7, <2>1, <3>1
    <3>3. ~ overlapped' => \A p \in Pixels : current'[p] = target'[p]
      <4>1. ~ overlapped' => ~ overlapped
        BY <1>6, <3>1
      <4>2. ~ overlapped => \A p \in Pixels : p < pix => current[p] = target[p]
        BY <1>7, <2>1, <2>2
      <4>3. \A p \in Pixels : p < pix
        BY <1>2, <1>7, <2>1 DEF Pixels
      <4>4. target' = target /\ current' = current
        BY <1>4, <2>1
      <4> QED BY <4>1, <4>2, <4>3, <4>4, Zenon
    <3>4. lpc' \notin {"read", "write"} /\ lpc' # "ready" /\ lpc' # "write"
      BY <3>1
    <3> QED BY <3>2, <3>3, <3>4, Zenon
  <2>3. CASE ~ same
    <3>1. lpc' = "top"
      BY <1>14, <2>3 DEF Adjusted
    <3> QED BY <1>7, <2>1, <3>1
  <2> QED BY <2>2, <2>3, Zenon
<1>15. CASE CheckGenerator
  <2>1. lpc = "check" /\ UNCHANGED <<current, strip, pix, next, same>>
    BY <1>15 DEF CheckGenerator
  <2>2. CASE useGenerator
    <3>1. lpc' = "ready"
      BY <1>15, <2>2 DEF CheckGenerator
    <3>2. LoopOK'
      BY <1>7, <2>1, <3>1
    <3>3. ~ overlapped' => \A p \in Pixels : current'[p] = target'[p]
      <4>1. ~ overlapped' => ~ overlapped
        BY <1>6, <3>1
      <4>2. ~ overlapped => \A p \in Pixels : current[p] = target[p]
        BY <1>7, <2>1
      <4>3. target' = target /\ current' = current
        BY <1>4, <2>1
      <4> QED BY <4>1, <4>2, <4>3, Zenon
    <3>4. lpc' \notin {"read", "write"} /\ lpc' # "write"
      BY <3>1
    <3>5. useGenerator'
      BY <1>4, <2>2, Zenon
    <3> QED BY <3>2, <3>3, <3>4, <3>5, Zenon
  <2>3. CASE ~ useGenerator
    <3>1. lpc' = "top"
      BY <1>15, <2>3 DEF CheckGenerator
    <3> QED BY <1>7, <2>1, <3>1
  <2> QED BY <2>2, <2>3, Zenon
<1>16. CASE SetReady
  <2>1. lpc' = "top" /\ UNCHANGED <<current, strip, pix, next, same>>
    BY <1>16 DEF SetReady
  <2> QED BY <1>7, <2>1
<1> QED
  BY <1>9, <1>10, <1>11, <1>12, <1>13, <1>14, <1>15, <1>16, Zenon DEF doupdate

LEMMA SameLights == LightsInv /\ UNCHANGED vars => LightsInv'
<1> SUFFICES ASSUME LightsInv, UNCHANGED vars PROVE LightsInv'
  OBVIOUS
<1>1. UNCHANGED <<useGenerator, generatorReady, generator, fadeSpeed, target, current, strip, todo,
                  wanted, calls, lpc, pix, next, same, overlapped, raced, unseen>>
  BY DEF vars
<1>2. TypeOK'
  BY <1>1 DEF LightsInv, TypeOK
<1>3. CallerOK' /\ Ordered(todo, wanted)'
  BY <1>1 DEF LightsInv, CallerOK, Ordered
<1>4. Arriving'
  BY <1>1 DEF LightsInv, Arriving, Idle, Pending, PendingPixel
<1>5. Round'
  BY <1>1 DEF LightsInv, Round, Idle
<1> QED BY <1>2, <1>3, <1>4, <1>5 DEF LightsInv

LEMMA CallsKeep ==
  ASSUME LightsInv, Calls
  PROVE  LightsInv'
<1>1. 0 \in Levels
  BY LightsAssumption DEF Levels
<1>2. \A c \in Levels : Plain(c) \in [Pixels -> Levels]
  BY DEF Plain
<1>3. ASSUME NEW c \in Levels, Call("color", loading, Plain(c), setColor(c))
      PROVE  LightsInv'
  <2> DEFINE w == [kind |-> "color", generator |-> loading, levels |-> Plain(c)]
  <2>1. w \in Wishes /\ w.kind = "color" /\ w.generator = loading /\ w.levels = Plain(c)
    BY <1>2 DEF Wishes, Kinds
  <2> HIDE DEF w
  <2>2. /\ setColor(c) \in Seq(Statements)
        /\ Ordered(setColor(c), w) /\ Complete(setColor(c), w)
    BY <2>1, ColorScript, Zenon
  <2>3. Call(w.kind, w.generator, w.levels, setColor(c))
    BY <1>3, <2>1, Zenon
  <2> QED BY <2>1, <2>2, <2>3, CallKeeps, Zenon
<1>4. ASSUME NEW g \in Generators, Call("generator", g, Plain(0), setGenerator(g))
      PROVE  LightsInv'
  <2> DEFINE w == [kind |-> "generator", generator |-> g, levels |-> Plain(0)]
  <2>1. w \in Wishes /\ w.kind = "generator" /\ w.generator = g /\ w.levels = Plain(0)
    BY <1>1, <1>2 DEF Wishes, Kinds
  <2> HIDE DEF w
  <2>2. /\ setGenerator(g) \in Seq(Statements)
        /\ Ordered(setGenerator(g), w) /\ Complete(setGenerator(g), w)
    BY <2>1, GeneratorScript, Zenon
  <2>3. Call(w.kind, w.generator, w.levels, setGenerator(g))
    BY <1>4, <2>1, Zenon
  <2> QED BY <2>1, <2>2, <2>3, CallKeeps, Zenon
<1>5. ASSUME NEW buffer \in [Pixels -> Levels], NEW fast \in BOOLEAN,
             Call("pixels", loading, buffer, SetPixels(buffer, fast))
      PROVE  LightsInv'
  <2> DEFINE w == [kind |-> "pixels", generator |-> loading, levels |-> buffer]
  <2>1. w \in Wishes /\ w.kind = "pixels" /\ w.generator = loading /\ w.levels = buffer
    BY DEF Wishes, Kinds
  <2> HIDE DEF w
  <2>2. /\ SetPixels(w.levels, fast) \in Seq(Statements)
        /\ Ordered(SetPixels(w.levels, fast), w) /\ Complete(SetPixels(w.levels, fast), w)
    BY <2>1, PixelsScript, Zenon
  <2>3. Call(w.kind, w.generator, w.levels, SetPixels(w.levels, fast))
    BY <1>5, <2>1, Zenon
  <2> QED BY <2>1, <2>2, <2>3, CallKeeps, Zenon
<1> QED BY <1>3, <1>4, <1>5, Zenon DEF Calls

LEMMA AlwaysLightsInv == Spec => []LightsInv
<1>1. Init => LightsInv
  BY InitLights
<1>2. LightsInv /\ [Next]_vars => LightsInv'
  BY CallsKeep, StatementKeeps, DoupdateKeeps, SameLights, Zenon DEF Next
<1> QED BY <1>1, <1>2, PTL DEF Spec

-----------------------------------------------------------------------------
(* Theorems. *)

\* The fields, the pixels and the strip keep their ranges: no step of a fade and no
\* statement of a call takes a level out of them, however they interleave.
THEOREM TypeCorrect == Spec => []TypeOK
BY AlwaysLightsInv, PTL DEF LightsInv

\* When a call has returned, the fields are what it asked for: the mode of showing,
\* the generator and every target, whatever doupdate did meanwhile.
THEOREM CallsTakeEffect == Spec => []CallTookEffect
<1>1. LightsInv => CallTookEffect
  <2> SUFFICES ASSUME LightsInv PROVE CallTookEffect
    OBVIOUS
  <2>1. Idle => /\ \A field : ~ Pending(field)
                /\ \A p : ~ PendingPixel(p)
    BY DEF Idle, Pending, PendingPixel
  <2> QED BY <2>1, Zenon DEF LightsInv, Arriving, CallTookEffect
<1> QED BY <1>1, AlwaysLightsInv, PTL

\* setColor and SetPixels stop a generator: the lights thread is not left in the
\* generator's loop, unless the call fell between the test of _useGenerator and the
\* assignment of _generatorReady.
THEOREM GeneratorStops == Spec => []ColorStopsGenerator
<1>1. LightsInv => ColorStopsGenerator
  <2> SUFFICES ASSUME LightsInv PROVE ColorStopsGenerator
    OBVIOUS
  <2>1. Idle => \A field : ~ Pending(field)
    BY DEF Idle, Pending
  <2> QED BY <2>1, Zenon DEF LightsInv, Arriving, ColorStopsGenerator
<1> QED BY <1>1, AlwaysLightsInv, PTL

\* doupdate starts a generator on a dark strip: when it sets _generatorReady after a
\* round without calls, every pixel has faded to black.
THEOREM StartsDark == Spec => GeneratorStartsDark
<1> DEFINE Dark == ~ generatorReady /\ generatorReady'
                     => (\A p \in Pixels : current[p] = 0) \/ overlapped
<1>1. LightsInv /\ [Next]_vars => [Dark]_vars
  <2> SUFFICES ASSUME LightsInv, Next, ~ generatorReady, generatorReady', ~ overlapped
               PROVE  \A p \in Pixels : current[p] = 0
    BY Zenon
  <2>1. SetReady
    <3>1. CASE Calls
      <4>1. UNCHANGED fields
        BY <3>1, Zenon DEF Calls, Call
      <4>2. generatorReady' = generatorReady
        BY <4>1 DEF fields
      <4> QED BY <4>2, Zenon
    <3>2. CASE Statement
      <4>1. ~ Idle /\ todo \in Seq(Statements) /\ Ordered(todo, wanted)
        BY <3>2, Zenon DEF Statement, LightsInv, CallerOK
      <4>2. generatorReady' = IF Head(todo).set = "generatorReady" THEN Head(todo).val ELSE generatorReady
        BY <3>2, Zenon DEF Statement
      <4>3. Head(todo) = todo[1] /\ 1 \in DOMAIN todo
        BY <4>1, HeadAndRest, Zenon DEF Idle
      <4>4. todo[1].set = "generatorReady" => todo[1].val = FALSE
        BY <4>1, <4>3, Zenon DEF Ordered
      <4> QED BY <4>2, <4>3, <4>4, Zenon
    <3>3. CASE Top \/ Frame \/ ShowFrame \/ Read \/ Write \/ Adjusted \/ CheckGenerator
      <4>1. UNCHANGED fields
        BY <3>3, Zenon DEF Top, Frame, ShowFrame, Read, Write, Adjusted, CheckGenerator
      <4>2. generatorReady' = generatorReady
        BY <4>1 DEF fields
      <4> QED BY <4>2, Zenon
    <3> QED BY <3>1, <3>2, <3>3, Zenon DEF Next, doupdate
  <2>2. lpc = "ready"
    BY <2>1, Zenon DEF SetReady
  <2>3. Idle /\ useGenerator /\ \A p \in Pixels : current[p] = target[p]
    BY <2>2 DEF LightsInv, Round
  <2>4. \A field : ~ Pending(field)
    BY <2>3 DEF Idle, Pending
  <2>5. wanted.kind = "generator" /\ \A p \in Pixels : wanted.levels[p] = 0
    BY <2>3, <2>4, Zenon DEF LightsInv, Arriving
  <2>6. calls > 0
    <3>1. calls # 0 /\ calls \in 0..MaxCalls
      BY DEF LightsInv, TypeOK, Arriving
    <3> QED BY <3>1, LightsAssumption
  <2>7. \A p \in Pixels : target[p] = gamma[wanted.levels[p]]
    BY <2>3, <2>6 DEF LightsInv, Arriving, PendingPixel, Idle
  <2> QED BY <2>3, <2>5, <2>7, LightsAssumption
<1> QED BY <1>1, AlwaysLightsInv, PTL DEF Spec, GeneratorStartsDark
=============================================================================
