-------------------------- MODULE TextRollup_proofs -------------------------
(***************************************************************************)
(* What is proved of textrollup for every set of words and geometries, any *)
(* number of words in a buffer and any interleaving of the two threads.    *)
(***************************************************************************)
EXTENDS TextRollup, OrderLemmas, SequenceTheorems

\* A window that holds words of W.
Display(W) ==
    [columns : Nat, lines : Nat \ {0}, breaks : BOOLEAN,
     done : Seq(Seq(W) \ {<<>>}), current : Seq(W)]

\* A word numbered first or later.
WordFrom(first) == [width : Nat, ends : BOOLEAN, number : {n \in Nat : n >= first}]

Events == {"stream_start", "segment", "flush_stop"}
Item == [kind : {"gap", "cue"} \cup Events, start : Nat, end : Nat, lines : Seq(Line)]
Timed == [kind : {"text"}, start : Nat, end : Nat, words : Line]
         \cup [kind : {"gap"}, start : Nat, end : Nat]
Handler == [input : Timed \cup [kind : Events], geometry : Geometries, clearAfter : {clearAfter}]
HandlingTimed == Handling("text") \/ Handling("gap")

\* The type invariant, with what the window and the items are made of.  The
\* window is trimmed to the lines it had when a line was completed.
SettingsOK ==
    /\ phase \in {"paused", "stopping", "ready"} /\ flushing \in BOOLEAN
    /\ due \in {"stream_start", "segment", "data"}
    /\ geometry \in Geometries /\ clearAfter \in ClearAfters
    /\ setting \in Geometries \cup {NoCopy}
HasRoom(w) == \E g \in Geometries : Len(w.done) <= g.lines /\ w.lines <= g.lines
WindowOK == window \in Display(WordFrom(0)) /\ HasRoom(window)
TimesOK ==
    /\ lastEnd \in Time /\ frontier \in Time /\ edge \in Time /\ shownEnd \in Time
    /\ inputStart \in Time /\ inputEdge \in Time
    /\ spoken \in Nat /\ firstWord \in Nat /\ segments \in Nat
TextOK == said \in Line /\ reshaped \in BOOLEAN /\ shown \in Seq(Line)
HandlingOK ==
    /\ handling = Idle \/ handling \in Handler
    /\ Handling("text") => handling.input.start <= handling.input.end
    /\ Handling("gap") => handling.input.start < handling.input.end
ToPushOK ==
    /\ toPush \in Seq(Item)
    /\ \A i \in DOMAIN toPush : toPush[i].start <= toPush[i].end
    /\ handling = Idle \/ toPush = <<>>
TypeInv == SettingsOK /\ WindowOK /\ TimesOK /\ TextOK /\ HandlingOK /\ ToPushOK

\* One thread streams: an event is on its way alone, a timed input is handled
\* in its segment only, and nothing is on its way once the pads are down.
OneAtATime ==
    /\ \A i \in DOMAIN toPush : toPush[i].kind \in Events => Len(toPush) = 1
    /\ HandlingTimed => /\ due = "data"
                        /\ inputStart = handling.input.start /\ inputEdge = handling.input.end
    /\ phase = "ready" => handling = Idle /\ toPush = <<>>

\* Text is current wherever it waits, except in the window of a stream that
\* was stopped: stream-start clears that one.
TextInv ==
    /\ firstWord <= spoken + 1
    /\ shown \in Seq(Seq(WordFrom(firstWord)))
    /\ \A i \in DOMAIN toPush : toPush[i].lines \in Seq(Seq(WordFrom(firstWord)))
    /\ \A i \in DOMAIN toPush : toPush[i].kind \in Events => window \in Display({})
    /\ Handling("text") => handling.input.words \in Seq(WordFrom(firstWord))
    /\ \/ window \in Display(WordFrom(firstWord))
       \/ due = "stream_start" \/ Handling("stream_start") \/ Handling("flush_stop")

\* No input is stale, only an empty buffer has no length, and the deadline is
\* never behind what was received.
InputInv ==
    /\ Handling("text") => (handling.input.words = <<>> <=> inputStart = inputEdge)
    /\ due = "data" =>
          /\ handling = Idle => frontier <= inputEdge
          /\ HandlingTimed => frontier <= inputStart
    /\ lastEnd # NoTime /\ clearAfter > 0 /\ handling = Idle => inputEdge <= lastEnd + clearAfter

\* Until a flush refuses it, coverage continues: what is on its way follows on
\* what was pushed, and reaches the end of the input.
Continues(before, item) ==
    before # NoTime =>
        /\ item.start >= before
        /\ item.start < item.end => item.start = Later(before, inputStart)
CoverageInv ==
    /\ \A i \in DOMAIN toPush : toPush[i].kind \notin Events =>
          /\ i = 1 /\ ~flushing => Continues(edge, toPush[i])
          /\ i # 1 => Continues(toPush[i - 1].end, toPush[i])
    /\ toPush # <<>> /\ toPush[1].kind \notin Events => toPush[Len(toPush)].end = inputEdge
    /\ edge # NoTime /\ ~flushing =>
          /\ handling = Idle /\ toPush = <<>> => edge = inputEdge
          /\ HandlingTimed =>
                edge <= inputStart /\ (lastEnd # NoTime /\ clearAfter > 0 => edge <= lastEnd + clearAfter)

\* The deadline counts from the text on screen, from the time it is pushed: only
\* the last item brings text, and the first that is not a GAP clears in time.
CountsFrom(end) == lastEnd \in {NoTime, end} /\ (phase = "paused" => lastEnd = end)
Silent(n) == \A j \in 1 .. n : toPush[j].kind = "gap"
NotEarly(item) ==
    item.kind = "cue" /\ item.lines = <<>> =>
        \/ clearAfter > 0 /\ item.start = shownEnd + clearAfter
        \/ inputStart = inputEdge /\ item.start = inputEdge
NotLate(item) ==
    phase = "paused" /\ clearAfter > 0 =>
        /\ item.kind = "gap" => item.end <= shownEnd + clearAfter
        /\ item.lines # <<>> => item.start < shownEnd + clearAfter
ClearInv ==
    /\ shown # <<>> => shownEnd # NoTime
    /\ ~flushing =>
          /\ \A i \in DOMAIN toPush :
                toPush[i].lines # <<>> => i = Len(toPush) /\ CountsFrom(toPush[i].end)
          /\ shown # <<>> =>
                /\ Silent(Len(toPush)) => CountsFrom(shownEnd)
                /\ \A i \in DOMAIN toPush : Silent(i - 1) => NotEarly(toPush[i]) /\ NotLate(toPush[i])

-----------------------------------------------------------------------------
\* The window (window.rs): whatever is pushed, its lines consist of words it
\* was given, and completed lines are trimmed to what the geometry allows.

\* The last lines are lines, at most so many, and some if there are any.
LEMMA LastLinesType ==
    ASSUME NEW S, NEW s \in Seq(S), NEW n \in Nat \ {0}
    PROVE  /\ LastLines(s, n) \in Seq(S)
           /\ Len(LastLines(s, n)) <= n
           /\ s # <<>> => LastLines(s, n) # <<>>
<1> DEFINE m == IF Len(s) > n THEN Len(s) - n + 1 ELSE 1
<1>1. Len(s) \in Nat /\ m \in Nat /\ m >= 1 /\ Len(s) - m + 1 <= n /\ (Len(s) >= 1 => m <= Len(s))
  OBVIOUS
<1>2. \A i \in m .. Len(s) : s[i] \in S
  BY <1>1
<1>3. LastLines(s, n) = SubSeq(s, m, Len(s))
  BY DEF LastLines
<1> HIDE DEF m
<1>4. /\ LastLines(s, n) \in Seq(S)
      /\ Len(LastLines(s, n)) = IF m <= Len(s) THEN Len(s) - m + 1 ELSE 0
  BY <1>1, <1>2, <1>3, SubSeqProperties
<1>5. Len(LastLines(s, n)) <= n
  BY <1>1, <1>4
<1>6. ASSUME s # <<>> PROVE LastLines(s, n) # <<>>
  <2>1. Len(s) >= 1
    BY <1>6, EmptySeq
  <2>2. Len(LastLines(s, n)) # 0
    BY <1>1, <1>4, <2>1
  <2> QED BY <2>2
<1> QED BY <1>4, <1>5, <1>6

LEMMA FreezeType ==
    ASSUME NEW W, NEW w \in Display(W)
    PROVE  /\ Freeze(w) \in Display(W)
           /\ Freeze(w).columns = w.columns /\ Freeze(w).lines = w.lines
           /\ Freeze(w).breaks = w.breaks
           /\ Freeze(w).current = <<>>
           /\ Freeze(w).done = w.done \/ Len(Freeze(w).done) <= w.lines
           /\ w.done # <<>> \/ w.current # <<>> => Freeze(w).done # <<>>
<1>1. CASE w.current = <<>>
  BY <1>1 DEF Freeze
<1>2. CASE w.current # <<>>
  <2> DEFINE all == Append(w.done, w.current)
             kept == LastLines(all, w.lines)
  <2>1. w.done \in Seq(Seq(W) \ {<<>>}) /\ w.current \in Seq(W) \ {<<>>} /\ w.lines \in Nat \ {0}
    BY <1>2 DEF Display
  <2>2. all \in Seq(Seq(W) \ {<<>>}) /\ all # <<>>
    BY <2>1, AppendProperties
  <2>3. Freeze(w) = [w EXCEPT !.done = kept, !.current = <<>>]
    BY <1>2 DEF Freeze
  <2> HIDE DEF all
  <2>4. kept \in Seq(Seq(W) \ {<<>>}) /\ Len(kept) <= w.lines /\ kept # <<>>
    BY <2>1, <2>2, LastLinesType
  <2> HIDE DEF kept
  <2>5. <<>> \in Seq(W)
    OBVIOUS
  <2> QED BY <2>3, <2>4, <2>5 DEF Display
<1> QED BY <1>1, <1>2

LEMMA PushWordType ==
    ASSUME NEW W, NEW w \in Display(W), NEW word \in W
    PROVE  /\ PushWord(w, word) \in Display(W)
           /\ PushWord(w, word).columns = w.columns /\ PushWord(w, word).lines = w.lines
           /\ PushWord(w, word).breaks = w.breaks
           /\ PushWord(w, word).done = w.done \/ Len(PushWord(w, word).done) <= w.lines
           /\ PushWord(w, word).done # <<>> \/ PushWord(w, word).current # <<>>
<1> DEFINE full == w.current # <<>> /\ LineWidth(Append(w.current, word)) > w.columns
           room == IF full THEN Freeze(w) ELSE w
           line == Append(room.current, word)
           grown == [room EXCEPT !.current = line]
<1>1. PushWord(w, word) = IF w.breaks /\ word.ends THEN Freeze(grown) ELSE grown
  BY DEF PushWord
<1> HIDE DEF full
<1>2. /\ room \in Display(W)
      /\ room.columns = w.columns /\ room.lines = w.lines /\ room.breaks = w.breaks
      /\ room.done = w.done \/ Len(room.done) <= w.lines
  BY FreezeType
<1> HIDE DEF room
<1>3. line \in Seq(W) /\ line # <<>>
  <2>1. room.current \in Seq(W)
    BY <1>2 DEF Display
  <2> QED BY <2>1, AppendProperties
<1> HIDE DEF line
<1>4. /\ grown \in Display(W)
      /\ grown.columns = w.columns /\ grown.lines = w.lines /\ grown.breaks = w.breaks
      /\ grown.done = room.done /\ grown.current # <<>>
  BY <1>2, <1>3 DEF Display
<1> HIDE DEF grown
<1>5. /\ Freeze(grown) \in Display(W)
      /\ Freeze(grown).columns = grown.columns /\ Freeze(grown).lines = grown.lines
      /\ Freeze(grown).breaks = grown.breaks
      /\ Freeze(grown).done = grown.done \/ Len(Freeze(grown).done) <= grown.lines
      /\ Freeze(grown).done # <<>>
  BY <1>4, FreezeType
<1>6. PushWord(w, word) = Freeze(grown) \/ PushWord(w, word) = grown
  BY <1>1
<1> QED BY <1>2, <1>4, <1>5, <1>6

\* The loop over the words of a buffer is the function PushWords defines.
Computes(f, w, words, n) ==
    f = [i \in 0 .. n |-> IF i = 0 THEN w ELSE PushWord(f[i - 1], words[i])]

LEMMA PushWordsDefined ==
    ASSUME NEW w, NEW words, NEW n \in Nat
    PROVE  \E f : Computes(f, w, words, n)
<1> DEFINE T == {m \in Nat : \E f : Computes(f, w, words, m)}
<1>1. 0 \in T
  <2> DEFINE f == [i \in 0 .. 0 |-> w]
  <2>1. Computes(f, w, words, 0)
    BY DEF Computes
  <2> QED BY <2>1
<1>2. ASSUME NEW m \in T PROVE m + 1 \in T
  <2>1. PICK f : Computes(f, w, words, m)
    OBVIOUS
  <2> DEFINE g == [i \in 0 .. m + 1 |-> IF i <= m THEN f[i] ELSE PushWord(f[m], words[m + 1])]
  <2>2. ASSUME NEW i \in 0 .. m + 1
        PROVE  g[i] = IF i = 0 THEN w ELSE PushWord(g[i - 1], words[i])
    <3>1. CASE i = m + 1
      BY <3>1
    <3>2. CASE i # m + 1
      <4>1. i \in 0 .. m /\ (i # 0 => i - 1 \in 0 .. m)
        BY <3>2
      <4>2. f[i] = IF i = 0 THEN w ELSE PushWord(f[i - 1], words[i])
        BY <2>1, <4>1 DEF Computes
      <4> QED BY <4>1, <4>2
    <3> QED BY <3>1, <3>2
  <2>3. Computes(g, w, words, m + 1)
    BY <2>2 DEF Computes
  <2> HIDE DEF g
  <2>4. m + 1 \in Nat
    OBVIOUS
  <2> QED BY <2>3, <2>4
<1>3. T = Nat
  BY <1>1, <1>2, NatInductionSet
<1> QED BY <1>3

LEMMA PushWordsType ==
    ASSUME NEW W, NEW w \in Display(W), NEW words \in Seq(W)
    PROVE  /\ PushWords(w, words) \in Display(W)
           /\ PushWords(w, words).lines = w.lines
           /\ PushWords(w, words).done = w.done \/ Len(PushWords(w, words).done) <= w.lines
           /\ words # <<>> => PushWords(w, words).done # <<>> \/ PushWords(w, words).current # <<>>
<1> DEFINE after[i \in 0 .. Len(words)] ==
               IF i = 0 THEN w ELSE PushWord(after[i - 1], words[i])
           Pushed(i) == /\ after[i] \in Display(W) /\ after[i].lines = w.lines
                        /\ after[i].done = w.done \/ Len(after[i].done) <= w.lines
                        /\ i > 0 => after[i].done # <<>> \/ after[i].current # <<>>
           T == {m \in Nat : m <= Len(words) => Pushed(m)}
<1>1. Len(words) \in Nat
  OBVIOUS
<1>2. PushWords(w, words) = after[Len(words)]
  BY DEF PushWords
<1>3. after = [i \in 0 .. Len(words) |-> IF i = 0 THEN w ELSE PushWord(after[i - 1], words[i])]
  <2>1. \E f : Computes(f, w, words, Len(words))
    BY <1>1, PushWordsDefined
  <2>2. after = CHOOSE f : Computes(f, w, words, Len(words))
    BY DEF after, Computes
  <2> HIDE DEF after
  <2>3. Computes(after, w, words, Len(words))
    BY <2>1, <2>2
  <2> QED BY <2>3 DEF Computes
<1> HIDE DEF after
<1>4. 0 \in T
  BY <1>1, <1>3
<1>5. ASSUME NEW m \in T PROVE m + 1 \in T
  <2> SUFFICES ASSUME m + 1 <= Len(words) PROVE Pushed(m + 1)
    OBVIOUS
  <2>1. m + 1 \in 1 .. Len(words) /\ words[m + 1] \in W /\ Pushed(m) /\ m + 1 > 0
    BY <1>1
  <2>2. after[m + 1] = PushWord(after[m], words[m + 1])
    BY <1>1, <1>3
  <2> DEFINE w1 == after[m]
             w2 == PushWord(w1, words[m + 1])
  <2>3. /\ w1 \in Display(W) /\ w1.lines = w.lines
        /\ w1.done = w.done \/ Len(w1.done) <= w.lines
    BY <2>1
  <2> HIDE DEF w1
  <2>4. /\ w2 \in Display(W) /\ w2.lines = w1.lines
        /\ w2.done = w1.done \/ Len(w2.done) <= w1.lines
        /\ w2.done # <<>> \/ w2.current # <<>>
    BY <2>1, <2>3, PushWordType
  <2>5. w2 = after[m + 1]
    BY <2>2 DEF w1
  <2> HIDE DEF w2
  <2> QED BY <2>3, <2>4, <2>5
<1> HIDE DEF Pushed
<1>6. T = Nat
  BY <1>4, <1>5, NatInductionSet
<1>7. Pushed(Len(words))
  BY <1>1, <1>6
<1>8. words # <<>> => Len(words) > 0
  BY EmptySeq
<1> QED BY <1>2, <1>7, <1>8 DEF Pushed

LEMMA RenderType ==
    ASSUME NEW W, NEW w \in Display(W)
    PROVE  /\ Render(w) \in Seq(Seq(W))
           /\ w.done # <<>> \/ w.current # <<>> => Render(w) # <<>>
<1> DEFINE last == IF w.current = <<>> THEN <<>> ELSE <<w.current>>
<1>1. w.done \in Seq(Seq(W)) /\ last \in Seq(Seq(W)) /\ w.lines \in Nat \ {0}
  <2>1. w.done \in Seq(Seq(W) \ {<<>>}) /\ w.current \in Seq(W)
    BY DEF Display
  <2>2. w.done \in Seq(Seq(W))
    BY <2>1, SeqMonotonic
  <2> QED BY <2>1, <2>2 DEF Display
<1>2. w.done # <<>> \/ w.current # <<>> => w.done \o last # <<>>
  BY <1>1, ConcatEqualIffEmpty
<1>3. w.done \o last \in Seq(Seq(W))
  BY <1>1, ConcatProperties
<1>4. Render(w) = LastLines(w.done \o last, w.lines)
  BY DEF Render
<1> HIDE DEF last
<1> QED BY <1>1, <1>2, <1>3, <1>4, LastLinesType

LEMMA ClearType ==
    ASSUME NEW W, NEW V, NEW w \in Display(V)
    PROVE  Clear(w) \in Display(W) /\ Clear(w).lines = w.lines /\ Clear(w).done = <<>>
<1>1. <<>> \in Seq(Seq(W) \ {<<>>}) /\ <<>> \in Seq(W)
  OBVIOUS
<1> QED BY <1>1 DEF Clear, Display

LEMMA FreshWindowType ==
    ASSUME NEW W, NEW g \in Geometries
    PROVE  FreshWindow(g) \in Display(W) /\ FreshWindow(g).lines = g.lines
           /\ FreshWindow(g).done = <<>>
<1>1. <<>> \in Seq(Seq(W) \ {<<>>}) /\ <<>> \in Seq(W)
  OBVIOUS
<1>2. g.columns \in Nat /\ g.lines \in Nat \ {0} /\ g.breaks \in BOOLEAN
  BY RollupAssumption
<1> QED BY <1>1, <1>2 DEF FreshWindow, NewWindow, Display

LEMMA ReshapeType ==
    ASSUME NEW W, NEW w \in Display(W), NEW g \in Geometries
    PROVE  /\ Reshape(w, g.columns, g.lines, g.breaks) \in Display(W)
           /\ Reshape(w, g.columns, g.lines, g.breaks).lines = g.lines
           /\ Reshape(w, g.columns, g.lines, g.breaks).done = w.done
<1>1. g.columns \in Nat /\ g.lines \in Nat \ {0} /\ g.breaks \in BOOLEAN
  BY RollupAssumption
<1> QED BY <1>1 DEF Reshape, Display

-----------------------------------------------------------------------------
\* What the handlers make.

\* Two items, one after the other.
LEMMA Pairs ==
    ASSUME NEW S, NEW a \in S, NEW b \in S
    PROVE  <<a>> \o <<b>> = <<a, b>>
<1> DEFINE s == <<a>>
           t == <<b>>
           u == <<a, b>>
<1>1. /\ s \in Seq(S) /\ Len(s) = 1 /\ s[1] = a
      /\ t \in Seq(S) /\ Len(t) = 1 /\ t[1] = b
      /\ u \in Seq(S) /\ Len(u) = 2 /\ u[1] = a /\ u[2] = b
  OBVIOUS
<1> HIDE DEF s, t, u
<1>2. /\ s \o t \in Seq(S) /\ Len(s \o t) = 2
      /\ \A i \in 1 .. 2 : (s \o t)[i] = IF i <= 1 THEN s[i] ELSE t[i - 1]
  BY <1>1, ConcatProperties
<1>3. \A i \in 1 .. 2 : (s \o t)[i] = u[i]
  <2>1. (s \o t)[1] = u[1] /\ (s \o t)[2] = u[2]
    BY <1>1, <1>2
  <2>2. 1 .. 2 = {1, 2}
    OBVIOUS
  <2> HIDE DEF s, t, u
  <2> QED BY <2>1, <2>2, Zenon
<1>4. s \o t = u
  BY <1>1, <1>2, <1>3, SeqEqual
<1> QED BY <1>4 DEF s, t, u

\* Short tuples, index by index.
LEMMA Tuples ==
    ASSUME NEW S, NEW a \in S, NEW b \in S, NEW c \in S
    PROVE  /\ <<a>> \in Seq(S) /\ Len(<<a>>) = 1 /\ <<a>>[1] = a
           /\ <<a, b>> \in Seq(S) /\ Len(<<a, b>>) = 2 /\ <<a, b>>[1] = a /\ <<a, b>>[2] = b
           /\ <<a, b, c>> \in Seq(S) /\ Len(<<a, b, c>>) = 3
           /\ <<a, b, c>>[1] = a /\ <<a, b, c>>[2] = b /\ <<a, b, c>>[3] = c
           /\ <<a>> \o <<b>> = <<a, b>> /\ <<a, b>> \o <<c>> = <<a, b, c>>
           /\ <<>> \o <<a>> = <<a>> /\ <<a>> \o <<>> = <<a>> /\ <<a, b>> \o <<>> = <<a, b>>
<1>1. /\ <<a>> \in Seq(S) /\ Len(<<a>>) = 1 /\ <<a>>[1] = a
      /\ <<a, b>> \in Seq(S) /\ Len(<<a, b>>) = 2 /\ <<a, b>>[1] = a /\ <<a, b>>[2] = b
      /\ <<a, b, c>> \in Seq(S) /\ Len(<<a, b, c>>) = 3
      /\ <<a, b, c>>[1] = a /\ <<a, b, c>>[2] = b /\ <<a, b, c>>[3] = c
      /\ <<b>> \in Seq(S) /\ Len(<<b>>) = 1 /\ <<b>>[1] = b
      /\ <<c>> \in Seq(S) /\ Len(<<c>>) = 1 /\ <<c>>[1] = c
  OBVIOUS
<1>2. <<>> \o <<a>> = <<a>> /\ <<a>> \o <<>> = <<a>> /\ <<a, b>> \o <<>> = <<a, b>>
  BY <1>1, ConcatEmptySeq
<1>3. <<a>> \o <<b>> = <<a, b>>
  BY Pairs
<1>4. <<a, b>> \o <<c>> = <<a, b, c>>
  <2> DEFINE s == <<a, b>>
             t == <<c>>
             u == <<a, b, c>>
  <2>1. /\ s \in Seq(S) /\ Len(s) = 2 /\ s[1] = a /\ s[2] = b
        /\ t \in Seq(S) /\ Len(t) = 1 /\ t[1] = c
        /\ u \in Seq(S) /\ Len(u) = 3 /\ u[1] = a /\ u[2] = b /\ u[3] = c
    BY <1>1
  <2> HIDE DEF s, t, u
  <2>2. /\ s \o t \in Seq(S) /\ Len(s \o t) = 3
        /\ (s \o t)[1] = s[1] /\ (s \o t)[2] = s[2] /\ (s \o t)[3] = t[1]
    <3>1. /\ s \o t \in Seq(S) /\ Len(s \o t) = 2 + 1
          /\ \A i \in 1 .. 2 + 1 : (s \o t)[i] = IF i <= 2 THEN s[i] ELSE t[i - 2]
      <4>1. /\ s \o t \in Seq(S) /\ Len(s \o t) = Len(s) + Len(t)
            /\ \A i \in 1 .. Len(s) + Len(t) :
                  (s \o t)[i] = IF i <= Len(s) THEN s[i] ELSE t[i - Len(s)]
        BY <2>1, ConcatProperties
      <4>2. Len(s) = 2 /\ Len(t) = 1
        BY <2>1
      <4> QED BY <4>1, <4>2
    <3>2. 1 \in 1 .. 2 + 1 /\ 2 \in 1 .. 2 + 1 /\ 3 \in 1 .. 2 + 1 /\ 3 - 2 = 1
      OBVIOUS
    <3> QED BY <3>1, <3>2
  <2>3. \A i \in 1 .. 3 : (s \o t)[i] = u[i]
    <3>1. (s \o t)[1] = u[1] /\ (s \o t)[2] = u[2] /\ (s \o t)[3] = u[3]
      BY <2>1, <2>2
    <3>2. 1 .. 3 = {1, 2, 3}
      OBVIOUS
    <3>3. \A i \in {1, 2, 3} : (s \o t)[i] = u[i]
      BY <3>1
    <3> QED BY <3>2, <3>3
  <2>4. s \o t = u
    BY <2>1, <2>2, <2>3, SeqEqual
  <2> QED BY <2>4 DEF s, t, u
<1> QED BY <1>1, <1>2, <1>3, <1>4

\* Every word is numbered 0 or later.
LEMMA AnyWord == Line = Seq(WordFrom(0))
<1>1. {n \in Nat : n >= 0} = Nat
  OBVIOUS
<1> QED BY <1>1, Zenon DEF Line, WordFrom

LEMMA EmptyLine == <<>> \in Line /\ <<>> \in Seq(Line)
  BY EmptySeq DEF Line

LEMMA GapItem ==
    ASSUME NEW a \in Nat, NEW b \in Nat
    PROVE  /\ Gap(a, b) \in Item /\ Gap(a, b).kind = "gap" /\ Gap(a, b).start = a
           /\ Gap(a, b).end = b /\ Gap(a, b).lines = <<>>
  BY EmptyLine DEF Gap, Item, Events

LEMMA CueItem ==
    ASSUME NEW a \in Nat, NEW b \in Nat, NEW l \in Seq(Line)
    PROVE  /\ Cue(a, b, l) \in Item /\ Cue(a, b, l).kind = "cue" /\ Cue(a, b, l).start = a
           /\ Cue(a, b, l).end = b /\ Cue(a, b, l).lines = l
  BY DEF Cue, Item, Events

LEMMA BlankItem ==
    ASSUME NEW a \in Nat
    PROVE  /\ Blank(a) \in Item /\ Blank(a).kind = "cue" /\ Blank(a).start = a
           /\ Blank(a).end = a /\ Blank(a).lines = <<>>
  BY EmptyLine, CueItem DEF Blank

LEMMA EventItem ==
    ASSUME NEW k \in Events
    PROVE  /\ Event(k) \in Item /\ Event(k).kind = k /\ Event(k).start = 0
           /\ Event(k).end = 0 /\ Event(k).lines = <<>>
  BY EmptyLine DEF Event, Item

\* A GAP around a clear: what is before it, the clear, and what is behind.
LEMMA SplitGapCases ==
    ASSUME NEW start \in Nat, NEW end \in Nat, NEW at \in Nat, start < end, at <= end
    PROVE  \/ start < at /\ at < end
                /\ SplitGap(start, end, at) = <<Gap(start, at), Blank(at), Gap(at, end)>>
           \/ start < at /\ at = end
                /\ SplitGap(start, end, at) = <<Gap(start, at), Blank(at)>>
           \/ at <= start /\ SplitGap(start, end, at) = <<Blank(at), Gap(start, end)>>
<1>1. /\ Gap(start, at) \in Item /\ Blank(at) \in Item
      /\ Gap(at, end) \in Item /\ Gap(start, end) \in Item
  BY GapItem, BlankItem
<1>2. Later(start, at) = IF start > at THEN start ELSE at
  BY DEF Later
<1> DEFINE before == Gap(start, at)
           clear == Blank(at)
           after == Gap(Later(start, at), end)
<1>3. SplitGap(start, end, at) =
         (IF start < at THEN <<before>> ELSE <<>>) \o <<clear>>
         \o (IF end > at THEN <<after>> ELSE <<>>)
  BY DEF SplitGap
<1>4. before \in Item /\ clear \in Item /\ after \in Item
  BY <1>1, <1>2
<1> HIDE DEF before, clear, after
<1>5. CASE start < at /\ at < end
  <2>1. SplitGap(start, end, at) = <<before, clear, after>>
    <3>1. SplitGap(start, end, at) = <<before>> \o <<clear>> \o <<after>>
      BY <1>3, <1>5
    <3>2. <<before>> \o <<clear>> = <<before, clear>> /\ <<before, clear>> \o <<after>> = <<before, clear, after>>
      BY <1>4, Tuples
    <3> QED BY <3>1, <3>2, Zenon
  <2>2. Later(start, at) = at
    BY <1>2, <1>5
  <2> QED BY <1>5, <2>1, <2>2 DEF before, clear, after
<1>6. CASE start < at /\ at = end
  <2>1. SplitGap(start, end, at) = <<before, clear>>
    <3>1. SplitGap(start, end, at) = <<before>> \o <<clear>> \o <<>>
      BY <1>3, <1>6
    <3>2. <<before>> \o <<clear>> = <<before, clear>>
      BY <1>4, Pairs
    <3>3. <<before, clear>> \o <<>> = <<before, clear>>
      BY <1>4, Tuples
    <3> QED BY <3>1, <3>2, <3>3, Zenon
  <2> QED BY <1>6, <2>1 DEF before, clear
<1>7. CASE at <= start
  <2>1. SplitGap(start, end, at) = <<clear, after>>
    <3>1. SplitGap(start, end, at) = <<>> \o <<clear>> \o <<after>>
      BY <1>3, <1>7
    <3>2. <<>> \o <<clear>> = <<clear>>
      BY <1>4, Tuples
    <3>3. <<clear>> \o <<after>> = <<clear, after>>
      BY <1>4, Pairs
    <3> QED BY <3>1, <3>2, <3>3, Zenon
  <2>2. Later(start, at) = start
    BY <1>2, <1>7
  <2> QED BY <1>7, <2>1, <2>2 DEF clear, after
<1> QED BY <1>5, <1>6, <1>7

\* The deadline, if there is one, lies clear-after behind the last text.
LEMMA DeadlineType ==
    ASSUME TypeInv, handling # Idle
    PROVE  /\ clearAfter \in Nat
           /\ Deadline = IF clearAfter = 0 \/ lastEnd = NoTime THEN NoTime ELSE lastEnd + clearAfter
           /\ clearAfter > 0 /\ lastEnd # NoTime =>
                 Deadline \in Nat /\ Deadline # NoTime /\ lastEnd \in Nat
<1>1. clearAfter \in Nat /\ lastEnd \in Time
  BY RollupAssumption DEF TypeInv, SettingsOK, TimesOK
<1>2. handling.clearAfter = clearAfter
  BY DEF TypeInv, HandlingOK, Handler
<1> QED BY <1>1, <1>2 DEF Deadline, Time, NoTime

\* What is handled is what the kind says.
LEMMA InputTypes ==
    ASSUME TypeInv
    PROVE  /\ \A kind \in {"text", "gap"} \cup Events : Handling(kind) => handling # Idle /\ toPush = <<>>
           /\ Handling("text") => /\ handling.input.start \in Nat /\ handling.input.end \in Nat
                                  /\ handling.input.words \in Line
                                  /\ handling.input.start <= handling.input.end
           /\ Handling("gap") => /\ handling.input.start \in Nat /\ handling.input.end \in Nat
                                 /\ handling.input.start < handling.input.end
           /\ \A kind \in Events : Handling(kind) => handling.geometry \in Geometries
<1>1. Idle.input.kind = "none"
  BY DEF Idle
<1>2. handling # Idle => /\ handling.input \in Timed \cup [kind : Events]
                         /\ handling.geometry \in Geometries
  BY DEF TypeInv, HandlingOK, Handler
<1>3. \A kind \in {"text", "gap"} \cup Events : Handling(kind) => handling # Idle
  BY <1>1 DEF Handling, Events
<1>4. \A kind \in {"text", "gap"} \cup Events : Handling(kind) => toPush = <<>>
  BY <1>3 DEF TypeInv, ToPushOK
<1>5. Handling("text") => handling.input \in [kind : {"text"}, start : Nat, end : Nat, words : Line]
  BY <1>2, <1>3 DEF Handling, Timed, Events
<1>6. Handling("gap") => handling.input \in [kind : {"gap"}, start : Nat, end : Nat]
  BY <1>2, <1>3 DEF Handling, Timed, Events
<1>7. /\ Handling("text") => handling.input.start <= handling.input.end
      /\ Handling("gap") => handling.input.start < handling.input.end
  BY DEF TypeInv, HandlingOK
<1> QED BY <1>2, <1>3, <1>4, <1>5, <1>6, <1>7

-----------------------------------------------------------------------------
\* Types.

LEMMA IdleHandles ==
    ASSUME handling = Idle
    PROVE  \A kind \in {"text", "gap"} \cup Events : ~Handling(kind)
  BY DEF Handling, Idle, Events

LEMMA TypeInit == Init => TypeInv
<1> SUFFICES ASSUME Init PROVE TypeInv
  OBVIOUS
<1>1. SettingsOK /\ TimesOK /\ HandlingOK
  <2>1. SettingsOK /\ TimesOK
    BY RollupAssumption DEF Init, SettingsOK, TimesOK, Time, NoTime
  <2> QED BY <2>1, IdleHandles DEF Init, HandlingOK
<1>2. WindowOK
  <2>1. window = FreshWindow(geometry) /\ geometry \in Geometries
    BY DEF Init
  <2>2. window \in Display(WordFrom(0)) /\ window.lines = geometry.lines /\ window.done = <<>>
    BY <2>1, FreshWindowType
  <2>3. Len(window.done) <= geometry.lines /\ window.lines <= geometry.lines
    BY <2>1, <2>2, RollupAssumption
  <2> QED BY <2>1, <2>2, <2>3 DEF WindowOK, HasRoom
<1>3. TextOK
  BY EmptyLine DEF Init, TextOK
<1>4. ToPushOK
  <2>1. <<>> \in Seq(Item) /\ DOMAIN <<>> = {}
    OBVIOUS
  <2>2. toPush = <<>>
    BY DEF Init
  <2> QED BY <2>1, <2>2 DEF ToPushOK
<1> QED BY <1>1, <1>2, <1>3, <1>4 DEF TypeInv

\* A window keeps room for its lines, whatever is pushed or set.
LEMMA RoomKept ==
    ASSUME NEW w, NEW v, HasRoom(w), w.lines \in Nat, Len(w.done) \in Nat,
           v.lines = w.lines, v.done = w.done \/ Len(v.done) <= w.lines, Len(v.done) \in Nat
    PROVE  HasRoom(v)
<1>1. PICK g \in Geometries : Len(w.done) <= g.lines /\ w.lines <= g.lines
  BY DEF HasRoom
<1>2. g.lines \in Nat
  BY RollupAssumption
<1>3. Len(v.done) <= g.lines /\ v.lines <= g.lines
  BY <1>1, <1>2
<1> QED BY <1>3 DEF HasRoom

LEMMA RoomReshaped ==
    ASSUME NEW w, NEW v, HasRoom(w), Len(w.done) \in Nat, NEW g \in Geometries,
           v.lines = g.lines, v.done = w.done
    PROVE  HasRoom(v)
<1>1. PICK h \in Geometries : Len(w.done) <= h.lines /\ w.lines <= h.lines
  BY DEF HasRoom
<1>2. g.lines \in Nat /\ h.lines \in Nat
  BY RollupAssumption
<1>3. CASE g.lines <= h.lines
  BY <1>1, <1>2, <1>3 DEF HasRoom
<1>4. CASE h.lines <= g.lines
  <2>1. Len(v.done) <= g.lines /\ v.lines <= g.lines
    BY <1>1, <1>2, <1>4
  <2> QED BY <2>1 DEF HasRoom
<1> QED BY <1>2, <1>3, <1>4

LEMMA DisplayFields ==
    ASSUME NEW W, NEW w \in Display(W)
    PROVE  /\ w.lines \in Nat /\ Len(w.done) \in Nat
           /\ w.done \in Seq(Seq(W) \ {<<>>}) /\ w.current \in Seq(W)
  BY DEF Display

LEMMA FreshOK ==
    ASSUME NEW g \in Geometries
    PROVE  FreshWindow(g) \in Display(WordFrom(0)) /\ HasRoom(FreshWindow(g))
<1>1. /\ FreshWindow(g) \in Display(WordFrom(0)) /\ FreshWindow(g).lines = g.lines
      /\ FreshWindow(g).done = <<>>
  BY FreshWindowType
<1>2. Len(FreshWindow(g).done) <= g.lines /\ FreshWindow(g).lines <= g.lines
  BY <1>1, RollupAssumption
<1> QED BY <1>1, <1>2 DEF HasRoom

LEMMA ClearOK ==
    ASSUME WindowOK
    PROVE  Clear(window) \in Display(WordFrom(0)) /\ HasRoom(Clear(window))
<1>1. /\ Clear(window) \in Display(WordFrom(0)) /\ Clear(window).lines = window.lines
      /\ Clear(window).done = <<>>
  BY ClearType DEF WindowOK
<1>2. window.lines \in Nat /\ Len(window.done) \in Nat
  BY DisplayFields DEF WindowOK
<1>3. Len(Clear(window).done) = 0
  BY <1>1
<1> HIDE DEF Clear
<1> QED BY <1>1, <1>2, <1>3, RoomKept DEF WindowOK

\* What a handler leaves behind is well typed if its items and its window are.
LEMMA HandledType ==
    ASSUME TypeInv, NEW items \in Seq(Item), \A i \in DOMAIN items : items[i].start <= items[i].end,
           Handled(items), WindowOK', lastEnd' \in Time, frontier' \in Time,
           said' \in Line, reshaped' \in BOOLEAN
    PROVE  TypeInv'
<1>1. SettingsOK'
  BY DEF TypeInv, SettingsOK, Handled, upstream, settings
<1>2. TimesOK'
  BY DEF TypeInv, TimesOK, Handled, sent
<1>3. TextOK'
  BY DEF TypeInv, TextOK, Handled, sent
<1>4. HandlingOK' /\ ToPushOK'
  <2>1. handling' = Idle /\ toPush' = items
    BY DEF Handled
  <2>2. ToPushOK'
    BY <2>1, Zenon DEF ToPushOK
  <2>3. Idle.input.kind = "none"
    BY DEF Idle
  <2>4. HandlingOK'
    BY <2>1, <2>3 DEF HandlingOK, Handling
  <2> QED BY <2>2, <2>4
<1> QED BY <1>1, <1>2, <1>3, <1>4 DEF TypeInv

LEMMA ForgetType ==
    ASSUME Forget
    PROVE  said' \in Line /\ reshaped' \in BOOLEAN
  BY EmptyLine DEF Forget

\* One item, in order.
LEMMA OneItem ==
    ASSUME NEW a \in Item, a.start <= a.end
    PROVE  <<a>> \in Seq(Item) /\ \A i \in DOMAIN <<a>> : <<a>>[i].start <= <<a>>[i].end
  OBVIOUS

LEMMA TwoItems ==
    ASSUME NEW a \in Item, NEW b \in Item, a.start <= a.end, b.start <= b.end
    PROVE  <<a, b>> \in Seq(Item) /\ \A i \in DOMAIN <<a, b>> : <<a, b>>[i].start <= <<a, b>>[i].end
  OBVIOUS

LEMMA ThreeItems ==
    ASSUME NEW a \in Item, NEW b \in Item, NEW c \in Item,
           a.start <= a.end, b.start <= b.end, c.start <= c.end
    PROVE  /\ <<a, b, c>> \in Seq(Item)
           /\ \A i \in DOMAIN <<a, b, c>> : <<a, b, c>>[i].start <= <<a, b, c>>[i].end
  OBVIOUS

LEMMA BlankTypes ==
    ASSUME TypeInv, HandleBlank
    PROVE  TypeInv'
<1> DEFINE item == Blank(handling.input.start)
<1>1. handling.input.start \in Nat
  BY InputTypes DEF HandleBlank
<1>2. item \in Item /\ item.start <= item.end
  BY <1>1, BlankItem
<1>3. Handled(<<item>>) /\ ResetDisplay /\ UNCHANGED frontier
  BY DEF HandleBlank
<1> HIDE DEF item
<1>4. <<item>> \in Seq(Item) /\ \A i \in DOMAIN <<item>> : <<item>>[i].start <= <<item>>[i].end
  BY <1>2, OneItem
<1>5. WindowOK'
  BY <1>3, ClearOK DEF TypeInv, ResetDisplay, WindowOK
<1>6. said' \in Line /\ reshaped' \in BOOLEAN
  BY <1>3, ForgetType DEF ResetDisplay
<1>7. lastEnd' \in Time /\ frontier' \in Time
  BY <1>3 DEF ResetDisplay, TypeInv, TimesOK, Time
<1> QED BY <1>3, <1>4, <1>5, <1>6, <1>7, HandledType

\* The words of a buffer reach the window, and one cue shows it, after the
\* clear that was missed.
LEMMA WordsMade ==
    ASSUME TypeInv, HandleWords
    PROVE  LET in == handling.input
               cue == Cue(in.start, in.end, Render(window'))
           IN  /\ in.start \in Nat /\ in.end \in Nat /\ in.start <= in.end /\ in.words # <<>>
               /\ WindowOK' /\ Render(window') \in Seq(Line) /\ Render(window') # <<>>
               /\ cue \in Item
               /\ lastEnd' = in.end /\ said' \in Line
               /\ \/ ~ClearMissed(in.start) /\ Handled(<<cue>>)
                     /\ window' = PushWords(window, in.words)
                  \/ ClearMissed(in.start) /\ Handled(<<Blank(Deadline), cue>>)
                     /\ window' = PushWords(Clear(window), in.words)
                     /\ Blank(Deadline) \in Item /\ Deadline \in Nat /\ Deadline <= in.start
                     /\ clearAfter > 0 /\ lastEnd # NoTime
<1> DEFINE in == handling.input
           missed == ClearMissed(in.start)
           below == IF missed THEN Clear(window) ELSE window
           cue == Cue(in.start, in.end, Render(window'))
<1>1. /\ in.start \in Nat /\ in.end \in Nat /\ in.start <= in.end
      /\ in.words \in Line /\ in.words # <<>> /\ handling # Idle
  BY InputTypes DEF HandleWords
<1>2. /\ window' = PushWords(below, in.words)
      /\ said' = (IF missed THEN <<>> ELSE said) \o in.words
      /\ lastEnd' = in.end
      /\ Handled((IF missed THEN <<Blank(Deadline)>> ELSE <<>>) \o <<cue>>)
  BY DEF HandleWords
<1>3. below \in Display(WordFrom(0)) /\ HasRoom(below)
  BY ClearOK DEF TypeInv, WindowOK
<1>4. Line = Seq(WordFrom(0))
  BY AnyWord
<1> HIDE DEF below
<1>5. WindowOK' /\ (window'.done # <<>> \/ window'.current # <<>>)
  <2>1. /\ window' \in Display(WordFrom(0)) /\ window'.lines = below.lines
        /\ window'.done = below.done \/ Len(window'.done) <= below.lines
        /\ window'.done # <<>> \/ window'.current # <<>>
    BY <1>1, <1>2, <1>3, <1>4, PushWordsType
  <2>2. below.lines \in Nat /\ Len(below.done) \in Nat /\ Len(window'.done) \in Nat
    BY <1>3, <2>1, DisplayFields
  <2>3. HasRoom(window')
    BY <1>3, <2>1, <2>2, RoomKept
  <2> QED BY <2>1, <2>3 DEF WindowOK, HasRoom
<1>6. Render(window') \in Seq(Line) /\ Render(window') # <<>>
  BY <1>4, <1>5, RenderType DEF WindowOK
<1>7. cue \in Item
  BY <1>1, <1>6, CueItem
<1>8. said' \in Line
  <2>1. said \in Line /\ <<>> \in Line
    BY EmptyLine DEF TypeInv, TextOK
  <2> QED BY <1>1, <1>2, <1>4, <2>1, ConcatProperties
<1> HIDE DEF cue
<1>9. CASE ~missed
  <2>1. <<>> \o <<cue>> = <<cue>>
    BY <1>7, Tuples
  <2> QED BY <1>1, <1>2, <1>5, <1>6, <1>7, <1>8, <1>9, <2>1 DEF below, cue
<1>10. CASE missed
  <2>1. Deadline # NoTime /\ in.start >= Deadline
    BY <1>10 DEF ClearMissed
  <2>2. Deadline \in Nat /\ clearAfter > 0 /\ lastEnd # NoTime
    BY <1>1, <2>1, DeadlineType
  <2>3. Blank(Deadline) \in Item
    BY <2>2, BlankItem
  <2>4. <<Blank(Deadline)>> \o <<cue>> = <<Blank(Deadline), cue>>
    BY <1>7, <2>3, Pairs
  <2> QED BY <1>1, <1>2, <1>5, <1>6, <1>7, <1>8, <1>10, <2>1, <2>2, <2>3, <2>4 DEF below, cue
<1> QED BY <1>9, <1>10

LEMMA WordsTypes ==
    ASSUME TypeInv, HandleWords
    PROVE  TypeInv'
<1> DEFINE in == handling.input
           cue == Cue(in.start, in.end, Render(window'))
<1>1. /\ in.start \in Nat /\ in.end \in Nat /\ in.start <= in.end
      /\ WindowOK' /\ Render(window') \in Seq(Line) /\ cue \in Item
      /\ lastEnd' = in.end /\ said' \in Line
      /\ \/ Handled(<<cue>>)
         \/ Handled(<<Blank(Deadline), cue>>) /\ Blank(Deadline) \in Item /\ Deadline \in Nat
  BY WordsMade
<1>2. cue.start <= cue.end
  BY <1>1, CueItem
<1>3. lastEnd' \in Time /\ frontier' \in Time /\ reshaped' \in BOOLEAN
  BY <1>1 DEF HandleWords, TypeInv, TimesOK, Time, TextOK
<1>4. Deadline \in Nat => Blank(Deadline).start <= Blank(Deadline).end
  BY BlankItem
<1> HIDE DEF cue
<1>5. CASE Handled(<<cue>>)
  <2>1. <<cue>> \in Seq(Item) /\ \A i \in DOMAIN <<cue>> : <<cue>>[i].start <= <<cue>>[i].end
    BY <1>1, <1>2, OneItem
  <2> QED BY <1>1, <1>3, <1>5, <2>1, HandledType
<1>6. CASE Handled(<<Blank(Deadline), cue>>) /\ Blank(Deadline) \in Item /\ Deadline \in Nat
  <2> DEFINE items == <<Blank(Deadline), cue>>
  <2>1. items \in Seq(Item) /\ \A i \in DOMAIN items : items[i].start <= items[i].end
    BY <1>1, <1>2, <1>4, <1>6, TwoItems
  <2>2. Handled(items)
    BY <1>6
  <2> HIDE DEF items
  <2> QED BY <1>1, <1>3, <2>1, <2>2, HandledType
<1> QED BY <1>1, <1>5, <1>6

\* A GAP is dropped, goes through, or is split around the clear.
LEMMA GapMade ==
    ASSUME TypeInv, HandleGap
    PROVE  LET start == handling.input.start
               end == handling.input.end
           IN  /\ start \in Nat /\ end \in Nat /\ start < end
               /\ \/ end < frontier /\ Handled(<<>>) /\ UNCHANGED <<state, text>>
                  \/ /\ ~(end < frontier) /\ frontier' = Later(end, frontier)
                     /\ Deadline = NoTime \/ end < Deadline
                     /\ Handled(<<Gap(start, end)>>) /\ UNCHANGED <<window, lastEnd, text>>
                  \/ /\ ~(end < frontier) /\ frontier' = Later(end, frontier)
                     /\ clearAfter > 0 /\ lastEnd # NoTime
                     /\ Deadline \in Nat /\ Deadline <= end /\ ResetDisplay
                     /\ Handled(SplitGap(start, end, Deadline))
<1> DEFINE start == handling.input.start
           end == handling.input.end
<1>1. start \in Nat /\ end \in Nat /\ start < end /\ handling # Idle
  BY InputTypes DEF HandleGap
<1>2. CASE end < frontier
  BY <1>1, <1>2 DEF HandleGap
<1>3. CASE ~(end < frontier) /\ (Deadline = NoTime \/ end < Deadline)
  BY <1>1, <1>3 DEF HandleGap
<1>4. CASE ~(end < frontier) /\ ~(Deadline = NoTime \/ end < Deadline)
  <2>1. Deadline \in Nat /\ clearAfter > 0 /\ lastEnd # NoTime
    BY <1>1, <1>4, DeadlineType
  <2>2. Deadline <= end
    BY <1>1, <1>4, <2>1
  <2>3. /\ frontier' = Later(end, frontier) /\ ResetDisplay
        /\ Handled(SplitGap(start, end, Deadline))
    BY <1>4 DEF HandleGap
  <2> QED BY <1>1, <1>4, <2>1, <2>2, <2>3
<1> QED BY <1>2, <1>3, <1>4

LEMMA SplitTypes ==
    ASSUME NEW start \in Nat, NEW end \in Nat, NEW at \in Nat, start < end, at <= end,
           NEW items, items = SplitGap(start, end, at)
    PROVE  items \in Seq(Item) /\ \A i \in DOMAIN items : items[i].start <= items[i].end
<1> DEFINE before == Gap(start, at)
           clear == Blank(at)
           after == Gap(at, end)
           whole == Gap(start, end)
<1>1. /\ before \in Item /\ clear \in Item /\ after \in Item /\ whole \in Item
      /\ before.start = start /\ before.end = at /\ clear.start <= clear.end
      /\ after.start = at /\ after.end = end /\ whole.start <= whole.end
  BY GapItem, BlankItem
<1>2. \/ start < at /\ at < end /\ items = <<before, clear, after>>
      \/ start < at /\ items = <<before, clear>>
      \/ items = <<clear, whole>>
  BY SplitGapCases
<1> HIDE DEF before, clear, after, whole
<1>3. CASE start < at /\ at < end /\ items = <<before, clear, after>>
  <2>1. before.start <= before.end /\ after.start <= after.end
    BY <1>1, <1>3
  <2> QED BY <1>1, <1>3, <2>1, ThreeItems
<1>4. CASE start < at /\ items = <<before, clear>>
  <2>1. before.start <= before.end
    BY <1>1, <1>4
  <2> QED BY <1>1, <1>4, <2>1, TwoItems
<1>5. CASE items = <<clear, whole>>
  BY <1>1, <1>5, TwoItems
<1> QED BY <1>2, <1>3, <1>4, <1>5

LEMMA GapTypes ==
    ASSUME TypeInv, HandleGap
    PROVE  TypeInv'
<1> DEFINE start == handling.input.start
           end == handling.input.end
<1>1. start \in Nat /\ end \in Nat /\ start < end
  BY GapMade
<1>2. /\ window \in Display(WordFrom(0)) /\ HasRoom(window) /\ lastEnd \in Time /\ frontier \in Time
      /\ said \in Line /\ reshaped \in BOOLEAN
  BY DEF TypeInv, WindowOK, TimesOK, TextOK
<1>3. CASE Handled(<<>>) /\ UNCHANGED <<state, text>>
  <2>1. <<>> \in Seq(Item) /\ \A i \in DOMAIN <<>> : <<>>[i].start <= <<>>[i].end
    <3>1. DOMAIN <<>> = {}
      OBVIOUS
    <3> QED BY <3>1, EmptySeq
  <2>2. UNCHANGED <<window, lastEnd, frontier, said, reshaped>>
    BY <1>3 DEF state, text
  <2>3. WindowOK'
    BY <1>2, <2>2 DEF WindowOK, HasRoom
  <2> QED BY <1>2, <1>3, <2>1, <2>2, <2>3, HandledType
<1>4. CASE /\ frontier' = Later(end, frontier)
           /\ Handled(<<Gap(start, end)>>) /\ UNCHANGED <<window, lastEnd, text>>
  <2> DEFINE item == Gap(start, end)
  <2>1. item \in Item /\ item.start <= item.end
    BY <1>1, GapItem
  <2> HIDE DEF item
  <2>2. <<item>> \in Seq(Item) /\ \A i \in DOMAIN <<item>> : <<item>>[i].start <= <<item>>[i].end
    BY <2>1, OneItem
  <2>3. WindowOK'
    BY <1>2, <1>4 DEF WindowOK, HasRoom
  <2>4. frontier' \in Time
    BY <1>1, <1>2, <1>4 DEF Later, Time
  <2>5. UNCHANGED <<lastEnd, said, reshaped>>
    BY <1>4 DEF text
  <2> QED BY <1>2, <1>4, <2>2, <2>3, <2>4, <2>5, HandledType DEF item
<1>5. CASE /\ frontier' = Later(end, frontier) /\ ResetDisplay
           /\ Deadline \in Nat /\ Deadline <= end
           /\ Handled(SplitGap(start, end, Deadline))
  <2>1. /\ SplitGap(start, end, Deadline) \in Seq(Item)
        /\ \A i \in DOMAIN SplitGap(start, end, Deadline) :
              SplitGap(start, end, Deadline)[i].start <= SplitGap(start, end, Deadline)[i].end
    BY <1>1, <1>5, SplitTypes
  <2>2. WindowOK'
    BY <1>5, ClearOK DEF TypeInv, ResetDisplay, WindowOK
  <2>3. said' \in Line /\ reshaped' \in BOOLEAN
    BY <1>5, ForgetType DEF ResetDisplay
  <2>4. lastEnd' \in Time /\ frontier' \in Time
    BY <1>1, <1>2, <1>5 DEF ResetDisplay, Later, Time
  <2> QED BY <1>5, <2>1, <2>2, <2>3, <2>4, HandledType
<1>6. \/ Handled(<<>>) /\ UNCHANGED <<state, text>>
      \/ /\ frontier' = Later(end, frontier)
         /\ Handled(<<Gap(start, end)>>) /\ UNCHANGED <<window, lastEnd, text>>
      \/ /\ frontier' = Later(end, frontier) /\ ResetDisplay
         /\ Deadline \in Nat /\ Deadline <= end
         /\ Handled(SplitGap(start, end, Deadline))
  BY GapMade
<1> QED BY <1>3, <1>4, <1>5, <1>6

\* The event goes on once the state is as new.
LEMMA EventMade ==
    ASSUME TypeInv, HandleSegment \/ HandleReset
    PROVE  \E kind \in Events :
              /\ Handling(kind) /\ Handled(<<Event(kind)>>)
              /\ lastEnd' = NoTime /\ frontier' = NoTime /\ Forget
              /\ \/ kind = "segment" /\ window' = Clear(window)
                 \/ \E g \in Geometries : window' = FreshWindow(g)
<1>1. CASE HandleSegment
  BY <1>1 DEF HandleSegment, ResetTimeline, ResetDisplay, Events
<1>2. CASE HandleReset
  <2>1. PICK kind \in {"stream_start", "flush_stop"} : Handling(kind)
    BY <1>2 DEF HandleReset
  <2>2. handling.input.kind = kind /\ kind \in Events
    BY <2>1 DEF Handling, Events
  <2>3. handling.geometry \in Geometries
    BY <2>1, <2>2, InputTypes
  <2>4. /\ Handled(<<Event(kind)>>) /\ window' = FreshWindow(handling.geometry)
        /\ lastEnd' = NoTime /\ frontier' = NoTime /\ Forget
    BY <1>2, <2>2 DEF HandleReset, ResetAll
  <2> QED BY <2>1, <2>2, <2>3, <2>4
<1> QED BY <1>1, <1>2

LEMMA EventTypes ==
    ASSUME TypeInv, HandleSegment \/ HandleReset
    PROVE  TypeInv'
<1>1. PICK kind \in Events :
              /\ Handled(<<Event(kind)>>)
              /\ lastEnd' = NoTime /\ frontier' = NoTime /\ Forget
              /\ \/ window' = Clear(window)
                 \/ \E g \in Geometries : window' = FreshWindow(g)
  BY EventMade
<1> DEFINE item == Event(kind)
<1>2. item \in Item /\ item.start <= item.end
  BY EventItem
<1> HIDE DEF item
<1>3. <<item>> \in Seq(Item) /\ \A i \in DOMAIN <<item>> : <<item>>[i].start <= <<item>>[i].end
  BY <1>2, OneItem
<1>4. WindowOK'
  BY <1>1, ClearOK, FreshOK DEF TypeInv, WindowOK
<1> QED BY <1>1, <1>3, <1>4, ForgetType, HandledType DEF Time, item

\* The next item leaves, or is refused while the pads flush.
LEMMA TailItems ==
    ASSUME TypeInv, toPush # <<>>
    PROVE  /\ toPush[1] \in Item /\ Head(toPush) = toPush[1] /\ Len(toPush) \in Nat \ {0}
           /\ DOMAIN toPush = 1 .. Len(toPush) /\ 1 \in DOMAIN toPush
           /\ Tail(toPush) \in Seq(Item) /\ Len(Tail(toPush)) = Len(toPush) - 1
           /\ DOMAIN Tail(toPush) = 1 .. Len(toPush) - 1
           /\ \A i \in DOMAIN Tail(toPush) :
                 Tail(toPush)[i] = toPush[i + 1] /\ i + 1 \in DOMAIN toPush
<1>1. toPush \in Seq(Item)
  BY DEF TypeInv, ToPushOK
<1>2. /\ Tail(toPush) \in Seq(Item) /\ Len(Tail(toPush)) = Len(toPush) - 1
      /\ \A i \in 1 .. Len(Tail(toPush)) : Tail(toPush)[i] = toPush[i + 1]
  BY <1>1, HeadTailProperties
<1>3. Len(toPush) \in Nat \ {0} /\ DOMAIN toPush = 1 .. Len(toPush)
  BY <1>1, EmptySeq
<1>4. toPush[1] \in Item /\ Head(toPush) = toPush[1]
  BY <1>1, <1>3
<1>5. DOMAIN Tail(toPush) = 1 .. Len(toPush) - 1
  BY <1>2
<1> QED BY <1>2, <1>3, <1>4, <1>5

LEMMA PushMade ==
    ASSUME TypeInv, PushNext
    PROVE  LET item == toPush[1]
           IN  /\ toPush # <<>> /\ handling = Idle
               /\ \/ /\ flushing /\ item.kind # "flush_stop" /\ flushing' = flushing
                     /\ out' = Nothing /\ UNCHANGED sent
                     /\ toPush' = <<>> \/ toPush' = Tail(toPush)
                  \/ /\ ~flushing \/ item.kind = "flush_stop"
                     /\ flushing' = FALSE /\ out' = item /\ toPush' = Tail(toPush)
                     /\ \/ /\ item.kind = "gap" /\ edge' = item.end
                           /\ UNCHANGED <<shown, shownEnd, firstWord>>
                        \/ /\ item.kind = "cue" /\ edge' = item.end /\ shown' = item.lines
                           /\ shownEnd' = item.end /\ UNCHANGED firstWord
                        \/ /\ item.kind \in Events /\ edge' = NoTime /\ shown' = <<>>
                           /\ shownEnd' = NoTime /\ firstWord' = spoken + 1
               /\ UNCHANGED <<phase, due, settings, handling, state, observed>>
<1> DEFINE item == toPush[1]
           refused == flushing /\ item.kind # "flush_stop"
<1>1. toPush # <<>>
  BY DEF PushNext
<1>2. Head(toPush) = item /\ item \in Item
  BY <1>1, TailItems
<1>3. item.kind \in {"gap", "cue"} \cup Events
  BY <1>2 DEF Item
<1>4. handling = Idle /\ flushing \in BOOLEAN
  BY <1>1 DEF TypeInv, ToPushOK, SettingsOK
<1>5. /\ toPush' = IF refused /\ item.kind = "cue" THEN <<>> ELSE Tail(toPush)
      /\ out' = IF refused THEN Nothing ELSE item
      /\ flushing' = (flushing /\ item.kind # "flush_stop")
      /\ UNCHANGED <<phase, due, settings, handling, state, observed>>
  BY <1>2 DEF PushNext
<1>6. CASE refused
  <2>1. UNCHANGED sent
    BY <1>2, <1>6 DEF PushNext
  <2> QED BY <1>1, <1>4, <1>5, <1>6, <2>1
<1>7. CASE ~refused
  <2>1. \/ /\ item.kind = "gap" /\ edge' = item.end
           /\ UNCHANGED <<shown, shownEnd, firstWord>>
        \/ /\ item.kind = "cue" /\ edge' = item.end /\ shown' = item.lines
           /\ shownEnd' = item.end /\ UNCHANGED firstWord
        \/ /\ item.kind \in Events /\ edge' = NoTime /\ shown' = <<>>
           /\ shownEnd' = NoTime /\ firstWord' = spoken + 1
    BY <1>2, <1>3, <1>7 DEF PushNext, Events
  <2>2. flushing' = FALSE /\ (~flushing \/ item.kind = "flush_stop")
    BY <1>4, <1>5, <1>7
  <2> QED BY <1>1, <1>4, <1>5, <1>7, <2>1, <2>2
<1> QED BY <1>6, <1>7

LEMMA PushTypes ==
    ASSUME TypeInv, PushNext
    PROVE  TypeInv'
<1> DEFINE item == toPush[1]
<1>1. /\ toPush # <<>> /\ handling = Idle /\ flushing' \in BOOLEAN
      /\ toPush' = <<>> \/ toPush' = Tail(toPush)
      /\ \/ UNCHANGED sent
         \/ edge' = item.end /\ UNCHANGED <<shown, shownEnd, firstWord>>
         \/ edge' = item.end /\ shown' = item.lines /\ shownEnd' = item.end /\ UNCHANGED firstWord
         \/ edge' = NoTime /\ shown' = <<>> /\ shownEnd' = NoTime /\ firstWord' = spoken + 1
      /\ UNCHANGED <<phase, due, settings, handling, state, observed>>
  <2>1. flushing \in BOOLEAN
    BY DEF TypeInv, SettingsOK
  <2> QED BY <2>1, PushMade
<1>2. item \in Item
  BY <1>1, TailItems
<1>3. item.end \in Nat /\ item.lines \in Seq(Line)
  BY <1>2 DEF Item
<1> HIDE DEF item
<1>4. SettingsOK'
  BY <1>1 DEF TypeInv, SettingsOK, settings
<1>5. WindowOK' /\ HandlingOK'
  <2>1. UNCHANGED <<window, handling, clearAfter>>
    BY <1>1 DEF state, settings
  <2>2. WindowOK'
    BY <2>1 DEF TypeInv, WindowOK, HasRoom
  <2>3. HandlingOK'
    BY <2>1 DEF TypeInv, HandlingOK, Handler, Handling
  <2> QED BY <2>2, <2>3
<1>6. TimesOK'
  <2>1. UNCHANGED <<lastEnd, frontier, inputStart, inputEdge, spoken, segments>>
    BY <1>1 DEF state, observed
  <2>2. edge' \in Time /\ shownEnd' \in Time /\ firstWord' \in Nat
    BY <1>1, <1>3 DEF TypeInv, TimesOK, sent, Time
  <2> QED BY <2>1, <2>2 DEF TypeInv, TimesOK
<1>7. TextOK'
  <2>1. UNCHANGED <<said, reshaped>>
    BY <1>1 DEF observed, text
  <2>2. shown' \in Seq(Line)
    BY <1>1, <1>3, EmptyLine DEF TypeInv, TextOK, sent
  <2> QED BY <2>1, <2>2 DEF TypeInv, TextOK
<1>8. ToPushOK'
  <2>1. CASE toPush' = <<>>
    <3>1. <<>> \in Seq(Item) /\ DOMAIN <<>> = {}
      OBVIOUS
    <3> QED BY <2>1, <3>1, Zenon DEF ToPushOK
  <2>2. CASE toPush' = Tail(toPush)
    <3>1. /\ toPush' \in Seq(Item)
          /\ \A i \in DOMAIN toPush' : toPush'[i] = toPush[i + 1] /\ i + 1 \in DOMAIN toPush
      BY <1>1, <2>2, TailItems
    <3>2. \A i \in DOMAIN toPush : toPush[i].start <= toPush[i].end
      BY DEF TypeInv, ToPushOK
    <3> QED BY <1>1, <3>1, <3>2 DEF ToPushOK
  <2> QED BY <1>1, <2>1, <2>2
<1> QED BY <1>4, <1>5, <1>6, <1>7, <1>8 DEF TypeInv

\* Input and the application.
LEMMA EnterTypes ==
    ASSUME TypeInv, NEW input \in Timed \cup [kind : Events],
           input.kind \in {"text", "gap"} => input.start <= input.end,
           input.kind = "gap" => input.start < input.end,
           Free, Enter(input), due' \in {"stream_start", "segment", "data"},
           inputStart' \in Time, inputEdge' \in Time, spoken' \in Nat, segments' \in Nat,
           UNCHANGED text
    PROVE  TypeInv'
<1>1. /\ handling' = [input |-> input, geometry |-> geometry, clearAfter |-> clearAfter]
      /\ UNCHANGED <<phase, flushing, geometry, clearAfter, setting, toPush, window, lastEnd, frontier,
                     edge, shown, shownEnd, firstWord, said, reshaped>>
  BY DEF Enter, settings, state, sent, text
<1>2. SettingsOK'
  BY <1>1 DEF TypeInv, SettingsOK
<1>3. WindowOK' /\ TextOK' /\ TimesOK'
  BY <1>1 DEF TypeInv, WindowOK, HasRoom, TextOK, TimesOK
<1>4. ToPushOK'
  <2>1. toPush' = <<>> /\ toPush = <<>>
    BY <1>1 DEF Free
  <2>2. toPush' \in Seq(Item) /\ DOMAIN toPush' = {}
    BY <2>1
  <2> QED BY <2>1, <2>2 DEF ToPushOK
<1>5. HandlingOK'
  <2>1. handling' \in [input : Timed \cup [kind : Events], geometry : Geometries, clearAfter : {clearAfter'}]
    BY <1>1 DEF TypeInv, SettingsOK
  <2>2. handling'.input = input
    BY <1>1
  <2> HIDE DEF Timed
  <2> QED BY <2>1, <2>2 DEF HandlingOK, Handler, Handling
<1> QED BY <1>2, <1>3, <1>4, <1>5 DEF TypeInv

LEMMA TextArrivesTypes ==
    ASSUME TypeInv, NEW start \in 0 .. MaxTime, NEW end \in 0 .. MaxTime, start <= end,
           NEW words \in Batches, TextArrives(start, end, words)
    PROVE  TypeInv'
<1>1. PICK n \in 0 .. MaxBatch : words \in [1 .. n -> Words]
  BY DEF Batches
<1>2. n \in Nat /\ Len(words) = n /\ DOMAIN words = 1 .. n /\ spoken \in Nat
  BY <1>1, RollupAssumption DEF TypeInv, TimesOK
<1> DEFINE numbered == [i \in DOMAIN words |-> [width |-> words[i].width, ends |-> words[i].ends,
                                               number |-> spoken + i]]
           input == [kind |-> "text", start |-> start, end |-> end, words |-> numbered]
<1>3. numbered \in Line
  <2> DEFINE Word == [width : Nat, ends : BOOLEAN, number : Nat]
  <2>1. \A i \in 1 .. n : [width |-> words[i].width, ends |-> words[i].ends, number |-> spoken + i]
                          \in Word
    BY <1>1, <1>2, RollupAssumption
  <2> HIDE DEF Word
  <2>2. numbered \in [1 .. n -> Word]
    BY <1>2, <2>1
  <2> HIDE DEF numbered
  <2>3. numbered \in Seq(Word)
    BY <1>2, <2>2
  <2> QED BY <2>3 DEF Line, Word
<1> HIDE DEF numbered
<1>4. input \in Timed \cup [kind : Events] /\ input.kind = "text" /\ input.start <= input.end
  <2>1. start \in Nat /\ end \in Nat
    BY RollupAssumption
  <2> QED BY <1>3, <2>1 DEF Timed
<1>5. /\ Free /\ Enter(input) /\ spoken' = spoken + n /\ inputStart' = start /\ inputEdge' = end
      /\ UNCHANGED <<due, text, segments>>
  BY <1>2 DEF TextArrives, numbered
<1>6. /\ due' \in {"stream_start", "segment", "data"} /\ segments' \in Nat /\ spoken' \in Nat
      /\ inputStart' \in Time /\ inputEdge' \in Time
  BY <1>2, <1>5, RollupAssumption DEF TypeInv, SettingsOK, TimesOK, Time
<1> HIDE DEF input
<1> QED BY <1>4, <1>5, <1>6, EnterTypes

LEMMA GapArrivesTypes ==
    ASSUME TypeInv, NEW start \in 0 .. MaxTime, NEW end \in 0 .. MaxTime, GapArrives(start, end)
    PROVE  TypeInv'
<1> DEFINE input == [kind |-> "gap", start |-> start, end |-> end]
<1>1. start \in Nat /\ end \in Nat
  BY RollupAssumption
<1>2. /\ Free /\ Enter(input) /\ start < end /\ inputStart' = start /\ inputEdge' = end
      /\ UNCHANGED <<due, spoken, text, segments>>
  BY DEF GapArrives
<1>3. input \in Timed \cup [kind : Events] /\ input.start < input.end /\ input.start <= input.end
  BY <1>1, <1>2 DEF Timed
<1>4. /\ due' \in {"stream_start", "segment", "data"} /\ segments' \in Nat /\ spoken' \in Nat
      /\ inputStart' \in Time /\ inputEdge' \in Time
  BY <1>1, <1>2 DEF TypeInv, SettingsOK, TimesOK, Time
<1> HIDE DEF input
<1> QED BY <1>2, <1>3, <1>4, EnterTypes

LEMMA EventArrivesTypes ==
    ASSUME TypeInv, NEW kind \in Events, EventArrives(kind)
    PROVE  TypeInv'
<1> DEFINE input == [kind |-> kind]
<1>1. /\ Free /\ Enter(input) /\ inputStart' = NoTime /\ inputEdge' = NoTime
      /\ segments' = segments + 1 /\ UNCHANGED <<spoken, text>>
      /\ due' \in {due, "data", "segment"}
  BY DEF EventArrives
<1>2. input \in Timed \cup [kind : Events] /\ input.kind \notin {"text", "gap"}
  BY DEF Events
<1>3. /\ due' \in {"stream_start", "segment", "data"} /\ segments' \in Nat /\ spoken' \in Nat
      /\ inputStart' \in Time /\ inputEdge' \in Time
  BY <1>1 DEF TypeInv, SettingsOK, TimesOK, Time
<1> HIDE DEF input
<1> QED BY <1>1, <1>2, <1>3, EnterTypes

LEMMA ApplicationTypes ==
    ASSUME TypeInv, Application
    PROVE  TypeInv'
<1>1. CASE \E g \in Geometries : SetProperty(g)
  <2>1. /\ geometry' \in Geometries /\ setting' \in Geometries
        /\ UNCHANGED <<upstream, clearAfter, state, text, toPush, handling, sent,
                       inputStart, inputEdge, spoken, segments>>
    BY <1>1 DEF SetProperty, Quiet
  <2>2. UNCHANGED <<phase, flushing, due, window, lastEnd, frontier, said, reshaped,
                    edge, shown, shownEnd, firstWord>>
    BY <2>1 DEF upstream, state, text, sent
  <2> QED BY <2>1, <2>2 DEF TypeInv, SettingsOK, WindowOK, HasRoom, TimesOK, TextOK, HandlingOK,
             Handler, Handling, ToPushOK
<1>2. CASE ApplySettings
  <2>1. setting \in Geometries
    BY <1>2 DEF ApplySettings, TypeInv, SettingsOK
  <2>2. /\ window' = Reshape(window, setting.columns, setting.lines, setting.breaks)
        /\ setting' = NoCopy /\ reshaped' \in BOOLEAN
        /\ UNCHANGED <<upstream, geometry, clearAfter, lastEnd, frontier, said, toPush, handling,
                       sent, inputStart, inputEdge, spoken, segments>>
    BY <1>2 DEF ApplySettings, Quiet
  <2>3. UNCHANGED <<phase, flushing, due, edge, shown, shownEnd, firstWord>>
    BY <2>2 DEF upstream, sent
  <2>4. WindowOK'
    <3>1. window \in Display(WordFrom(0)) /\ HasRoom(window) /\ Len(window.done) \in Nat
      BY DisplayFields DEF TypeInv, WindowOK
    <3>2. window' \in Display(WordFrom(0)) /\ window'.lines = setting.lines
          /\ window'.done = window.done
      BY <2>1, <2>2, <3>1, ReshapeType
    <3>3. HasRoom(window')
      BY <2>1, <3>1, <3>2, RoomReshaped
    <3> QED BY <3>2, <3>3 DEF WindowOK, HasRoom
  <2> QED BY <2>2, <2>3, <2>4 DEF TypeInv, SettingsOK, TimesOK, TextOK, HandlingOK,
             Handler, Handling, ToPushOK
<1>3. CASE FlushStart \/ DeactivatePads
  <2>1. /\ phase' \in {"paused", "stopping", "ready"} /\ flushing' \in BOOLEAN
        /\ UNCHANGED <<due, settings, state, text, toPush, handling, sent,
                       inputStart, inputEdge, spoken, segments>>
    BY <1>3 DEF FlushStart, DeactivatePads, Quiet, TypeInv, SettingsOK
  <2>2. UNCHANGED <<geometry, clearAfter, setting, window, lastEnd, frontier, said, reshaped,
                    edge, shown, shownEnd, firstWord>>
    BY <2>1 DEF settings, state, text, sent
  <2> QED BY <2>1, <2>2 DEF TypeInv, SettingsOK, WindowOK, HasRoom, TimesOK, TextOK, HandlingOK,
             Handler, Handling, ToPushOK
<1>4. CASE PausedToReady
  <2>1. /\ phase' = "stopping" /\ window' = FreshWindow(geometry)
        /\ lastEnd' = NoTime /\ frontier' = NoTime /\ Forget
        /\ UNCHANGED <<flushing, due, settings, toPush, handling, sent,
                       inputStart, inputEdge, spoken, segments>>
    BY <1>4 DEF PausedToReady, ResetAll, Quiet
  <2>2. UNCHANGED <<geometry, clearAfter, setting, edge, shown, shownEnd, firstWord>>
    BY <2>1 DEF settings, sent
  <2>3. WindowOK'
    BY <2>1, FreshOK DEF TypeInv, SettingsOK, WindowOK
  <2>4. said' \in Line /\ reshaped' \in BOOLEAN
    BY <2>1, ForgetType
  <2> QED BY <2>1, <2>2, <2>3, <2>4 DEF TypeInv, SettingsOK, TimesOK, Time, TextOK, HandlingOK,
             Handler, Handling, ToPushOK
<1>5. CASE ReadyToPaused
  <2>1. /\ phase' = "paused" /\ flushing' = FALSE /\ due' = "stream_start"
        /\ inputStart' = NoTime /\ inputEdge' = NoTime
        /\ edge' = NoTime /\ shown' = <<>> /\ shownEnd' = NoTime /\ firstWord' = spoken + 1
        /\ UNCHANGED <<settings, handling, toPush, state, spoken, text, segments>>
    BY <1>5 DEF ReadyToPaused
  <2>2. UNCHANGED <<geometry, clearAfter, setting, window, lastEnd, frontier, said, reshaped>>
    BY <2>1 DEF settings, state, text
  <2>3. shown' \in Seq(Line)
    BY <2>1, EmptyLine
  <2>4. SettingsOK' /\ TextOK'
    BY <2>1, <2>2, <2>3 DEF TypeInv, SettingsOK, TextOK
  <2>5. TimesOK'
    BY <2>1, <2>2 DEF TypeInv, TimesOK, Time
  <2>6. WindowOK' /\ HandlingOK' /\ ToPushOK'
    BY <2>1, <2>2 DEF TypeInv, WindowOK, HasRoom, HandlingOK, Handler, Handling, ToPushOK
  <2> QED BY <2>4, <2>5, <2>6 DEF TypeInv
<1> QED BY <1>1, <1>2, <1>3, <1>4, <1>5 DEF Application

LEMMA TypeStep == TypeInv /\ [Next]_vars => TypeInv'
<1> SUFFICES ASSUME TypeInv, [Next]_vars PROVE TypeInv'
  OBVIOUS
<1>1. CASE Input
  <2>1. CASE \E start, end \in 0 .. MaxTime : GapArrives(start, end)
    BY <2>1, GapArrivesTypes
  <2>2. ASSUME NEW start \in 0 .. MaxTime, NEW end \in 0 .. MaxTime, start <= end,
               NEW words \in Batches, TextArrives(start, end, words)
        PROVE  TypeInv'
    BY <2>2, TextArrivesTypes
  <2>3. ASSUME NEW kind \in Events, EventArrives(kind) PROVE TypeInv'
    BY <2>3, EventArrivesTypes
  <2> QED BY <1>1, <2>1, <2>2, <2>3 DEF Input, Events
<1>2. CASE Streaming
  BY <1>2, BlankTypes, WordsTypes, GapTypes, EventTypes, PushTypes DEF Streaming
<1>3. CASE Application
  BY <1>3, ApplicationTypes
<1>4. CASE UNCHANGED vars
  BY <1>4 DEF vars, upstream, settings, state, sent, observed, text, TypeInv, SettingsOK, WindowOK,
     HasRoom, TimesOK, TextOK, HandlingOK, Handler, Handling, ToPushOK
<1> QED BY <1>1, <1>2, <1>3, <1>4 DEF Next

\* Every reachable state of textrollup is well typed: no completed line of the
\* window is empty and there are no more of them than some geometry allows
\* (Window::freeze_current), every item runs forwards.
THEOREM TypeCorrect == Spec => []TypeOK
<1>1. TypeInv => TypeOK
  <2> SUFFICES ASSUME TypeInv PROVE TypeOK
    OBVIOUS
  <2>1. window.done \in Seq(Line) /\ window.current \in Line
        /\ \A i \in DOMAIN window.done : window.done[i] # <<>>
    <3>1. window.done \in Seq(Line \ {<<>>}) /\ window.current \in Line
      BY AnyWord DEF TypeInv, WindowOK, Display
    <3>2. window.done \in Seq(Line)
      BY <3>1, SeqMonotonic
    <3>3. \A i \in 1 .. Len(window.done) : window.done[i] # <<>>
      BY <3>1
    <3> QED BY <3>1, <3>2, <3>3
  <2>2. \E g \in Geometries : Len(window.done) <= g.lines
    BY DEF TypeInv, WindowOK, HasRoom
  <2>3. \A i \in DOMAIN toPush : toPush[i].lines \in Seq(Line) /\ toPush[i].start <= toPush[i].end
    <3>1. \A i \in DOMAIN toPush : toPush[i] \in Item
      BY DEF TypeInv, ToPushOK
    <3> QED BY <3>1 DEF TypeInv, ToPushOK, Item
  <2> QED BY <2>1, <2>2, <2>3 DEF TypeOK, TypeInv, SettingsOK, TimesOK, TextOK
<1> QED BY <1>1, TypeInit, TypeStep, PTL DEF Spec

-----------------------------------------------------------------------------
\* One item at a time, and only current text.

\* What a timed input becomes: GAPs and cues, and the cues show nothing or the
\* window.
LEMMA TimedItems ==
    ASSUME TypeInv, HandleBlank \/ HandleWords \/ HandleGap
    PROVE  /\ handling' = Idle /\ HandlingTimed
           /\ \A i \in DOMAIN toPush' :
                 /\ toPush'[i].kind \in {"gap", "cue"}
                 /\ toPush'[i].lines = <<>> \/ (HandleWords /\ toPush'[i].lines = Render(window'))
<1> DEFINE in == handling.input
           Made == {x \in Item : /\ x.kind \in {"gap", "cue"}
                                 /\ x.lines = <<>> \/ (HandleWords /\ x.lines = Render(window'))}
<1>5. toPush' \in Seq(Made) =>
         \A i \in DOMAIN toPush' :
            /\ toPush'[i].kind \in {"gap", "cue"}
            /\ toPush'[i].lines = <<>> \/ (HandleWords /\ toPush'[i].lines = Render(window'))
  OBVIOUS
<1>6. \A x \in Item : (x.kind \in {"gap", "cue"} /\ (x.lines = <<>> \/ (HandleWords /\ x.lines = Render(window'))))
                      => x \in Made
  OBVIOUS
<1> HIDE DEF Made
<1>1. CASE HandleBlank
  <2> DEFINE blank == Blank(in.start)
  <2>1. in.start \in Nat /\ Handling("text")
    BY <1>1, InputTypes DEF HandleBlank
  <2>2. blank \in Item /\ blank.kind = "cue" /\ blank.lines = <<>>
    BY <2>1, BlankItem
  <2>3. Handled(<<blank>>)
    BY <1>1 DEF HandleBlank
  <2> HIDE DEF blank
  <2>4. blank \in Made
    BY <2>2, <1>6
  <2>5. <<blank>> \in Seq(Made)
    BY <2>4
  <2>6. toPush' = <<blank>> /\ handling' = Idle
    BY <2>3 DEF Handled
  <2>7. toPush' \in Seq(Made)
    BY <2>5, <2>6
  <2> QED BY <2>1, <2>6, <2>7, <1>5 DEF HandlingTimed
<1>2. CASE HandleWords
  <2> DEFINE cue == Cue(in.start, in.end, Render(window'))
             blank == Blank(Deadline)
  <2>1. /\ in.start \in Nat /\ in.end \in Nat /\ Render(window') \in Seq(Line)
        /\ Handled(<<cue>>) \/ (Handled(<<blank, cue>>) /\ Deadline \in Nat)
    BY <1>2, WordsMade, Zenon
  <2>2. cue \in Item /\ cue.kind = "cue" /\ cue.lines = Render(window')
    BY <2>1, CueItem
  <2>3. Deadline \in Nat => blank \in Item /\ blank.kind = "cue" /\ blank.lines = <<>>
    BY BlankItem
  <2> HIDE DEF cue, blank
  <2>4. cue \in Made /\ (Deadline \in Nat => blank \in Made)
    BY <1>2, <2>2, <2>3, <1>6
  <2>5. <<cue>> \in Seq(Made) /\ (Deadline \in Nat => <<blank, cue>> \in Seq(Made))
    BY <2>4
  <2>6. handling' = Idle /\ (toPush' = <<cue>> \/ (toPush' = <<blank, cue>> /\ Deadline \in Nat))
    BY <2>1 DEF Handled
  <2>7. toPush' \in Seq(Made)
    BY <2>5, <2>6
  <2> QED BY <1>2, <2>6, <2>7, <1>5 DEF HandleWords, HandlingTimed
<1>3. CASE HandleGap
  <2>1. /\ in.start \in Nat /\ in.end \in Nat /\ in.start < in.end
        /\ \/ Handled(<<>>) \/ Handled(<<Gap(in.start, in.end)>>)
           \/ Deadline \in Nat /\ Deadline <= in.end /\ Handled(SplitGap(in.start, in.end, Deadline))
    BY <1>3, GapMade
  <2> DEFINE before == Gap(in.start, Deadline)
             clear == Blank(Deadline)
             after == Gap(Deadline, in.end)
             whole == Gap(in.start, in.end)
  <2>2. /\ whole \in Item /\ whole.kind = "gap" /\ whole.lines = <<>>
        /\ Deadline \in Nat =>
              /\ before \in Item /\ before.kind = "gap" /\ before.lines = <<>>
              /\ clear \in Item /\ clear.kind = "cue" /\ clear.lines = <<>>
              /\ after \in Item /\ after.kind = "gap" /\ after.lines = <<>>
    BY <2>1, GapItem, BlankItem
  <2>3. /\ handling' = Idle
        /\ \/ toPush' = <<>> \/ toPush' = <<whole>>
           \/ /\ Deadline \in Nat
              /\ \/ toPush' = <<before, clear, after>>
                 \/ toPush' = <<before, clear>> \/ toPush' = <<clear, whole>>
    <3>1. CASE Handled(<<>>) \/ Handled(<<whole>>)
      BY <3>1 DEF Handled
    <3>2. CASE Deadline \in Nat /\ Deadline <= in.end /\ Handled(SplitGap(in.start, in.end, Deadline))
      <4>1. toPush' = SplitGap(in.start, in.end, Deadline) /\ handling' = Idle
        BY <3>2 DEF Handled
      <4> HIDE DEF in
      <4> QED BY <2>1, <3>2, <4>1, SplitGapCases
    <3> QED BY <2>1, <3>1, <3>2
  <2> HIDE DEF before, clear, after, whole
  <2>4. whole \in Made /\ (Deadline \in Nat => before \in Made /\ clear \in Made /\ after \in Made)
    BY <2>2, <1>6
  <2>5. /\ <<>> \in Seq(Made) /\ <<whole>> \in Seq(Made)
        /\ Deadline \in Nat => /\ <<before, clear, after>> \in Seq(Made)
                               /\ <<before, clear>> \in Seq(Made) /\ <<clear, whole>> \in Seq(Made)
    BY <2>4
  <2>6. toPush' \in Seq(Made)
    BY <2>3, <2>5
  <2> QED BY <1>3, <2>3, <2>6, <1>5 DEF HandleGap, HandlingTimed
<1> QED BY <1>1, <1>2, <1>3

\* Nothing is handled: no kind of input is.
LEMMA NothingHandled ==
    ASSUME handling' = Idle
    PROVE  ~Handling("text")' /\ ~HandlingTimed' /\ \A kind \in Events : ~Handling(kind)'
  BY DEF Handling, HandlingTimed, Idle, Events

\* One event, alone.
LEMMA EventAlone ==
    ASSUME NEW kind \in Events
    PROVE  LET items == <<Event(kind)>>
           IN  /\ Len(items) = 1 /\ DOMAIN items = {1}
               /\ items[1].kind = kind /\ items[1].lines = <<>>
<1> DEFINE item == Event(kind)
<1>1. item.kind = kind /\ item.lines = <<>>
  BY EventItem
<1> HIDE DEF item
<1>2. Len(<<item>>) = 1 /\ DOMAIN <<item>> = {1} /\ <<item>>[1] = item
  OBVIOUS
<1>3. <<item>>[1].kind = kind /\ <<item>>[1].lines = <<>>
  BY <1>1, <1>2
<1> QED BY <1>2, <1>3 DEF item

LEMMA OneStep == TypeInv /\ OneAtATime /\ [Next]_vars => OneAtATime'
<1> SUFFICES ASSUME TypeInv, OneAtATime, [Next]_vars PROVE OneAtATime'
  OBVIOUS
<1> USE DEF OneAtATime
<1>1. ASSUME NEW start, NEW end, NEW input, input.kind \in {"text", "gap"},
             input.start = start, input.end = end,
             Free, due' = "data", inputStart' = start, inputEdge' = end, Enter(input)
      PROVE  OneAtATime'
  <2>1. toPush' = <<>> /\ phase' # "ready" /\ handling'.input = input
    BY <1>1 DEF Enter, Free
  <2>2. DOMAIN toPush' = {}
    BY <2>1
  <2> QED BY <1>1, <2>1, <2>2
<1>2. ASSUME NEW start, NEW end, NEW words, TextArrives(start, end, words)
      PROVE  OneAtATime'
  <2> DEFINE input == [kind |-> "text", start |-> start, end |-> end,
                       words |-> [i \in DOMAIN words |->
                                    [width |-> words[i].width, ends |-> words[i].ends,
                                     number |-> spoken + i]]]
  <2>1. /\ input.kind = "text" /\ input.start = start /\ input.end = end
    OBVIOUS
  <2>2. Free /\ due' = "data" /\ inputStart' = start /\ inputEdge' = end /\ Enter(input)
    BY <1>2 DEF TextArrives
  <2> HIDE DEF input
  <2> QED BY <1>1, <2>1, <2>2
<1>3. ASSUME NEW start, NEW end, GapArrives(start, end)
      PROVE  OneAtATime'
  <2> DEFINE input == [kind |-> "gap", start |-> start, end |-> end]
  <2>1. input.kind = "gap" /\ input.start = start /\ input.end = end
    OBVIOUS
  <2>2. Free /\ due' = "data" /\ inputStart' = start /\ inputEdge' = end /\ Enter(input)
    BY <1>3 DEF GapArrives
  <2> HIDE DEF input
  <2> QED BY <1>1, <2>1, <2>2
<1>4. ASSUME NEW kind \in Events, EventArrives(kind)
      PROVE  OneAtATime'
  <2>1. toPush' = <<>> /\ phase' # "ready" /\ handling'.input.kind = kind
    BY <1>4 DEF EventArrives, Enter, Free
  <2>2. DOMAIN toPush' = {} /\ ~HandlingTimed'
    BY <2>1 DEF HandlingTimed, Handling, Events
  <2> QED BY <2>1, <2>2
<1>5. CASE HandleBlank \/ HandleWords \/ HandleGap
  <2>1. handling' = Idle /\ HandlingTimed
    BY <1>5, TimedItems
  <2>2. \A i \in DOMAIN toPush' : toPush'[i].kind \notin Events
    BY <1>5, TimedItems DEF Events
  <2>3. phase' = phase
    BY <1>5 DEF HandleBlank, HandleWords, HandleGap, Handled, upstream
  <2>4. phase # "ready"
    BY <2>1, IdleHandles DEF HandlingTimed
  <2> QED BY <2>1, <2>2, <2>3, <2>4, NothingHandled
<1>6. CASE HandleSegment \/ HandleReset
  <2>1. PICK kind \in Events : Handling(kind) /\ Handled(<<Event(kind)>>)
    BY <1>6, EventMade
  <2>2. handling' = Idle /\ phase' = phase /\ Len(toPush') = 1
    BY <2>1, EventAlone DEF Handled, upstream
  <2>3. phase # "ready"
    BY <2>1, IdleHandles
  <2> QED BY <2>2, <2>3, NothingHandled
<1>7. CASE PushNext
  <2>1. /\ toPush # <<>> /\ handling' = Idle /\ phase' = phase
        /\ toPush' = <<>> \/ toPush' = Tail(toPush)
    BY <1>7, PushMade
  <2>2. \A i \in DOMAIN toPush' : toPush'[i].kind \notin Events
    <3>1. CASE toPush' = <<>>
      BY <3>1
    <3>2. CASE toPush' = Tail(toPush)
      <4> SUFFICES ASSUME NEW i \in DOMAIN toPush', toPush'[i].kind \in Events PROVE FALSE
        OBVIOUS
      <4>1. /\ toPush'[i] = toPush[i + 1] /\ i + 1 \in DOMAIN toPush
            /\ i \in 1 .. Len(toPush) - 1 /\ Len(toPush) \in Nat
        BY <2>1, <3>2, TailItems
      <4>2. Len(toPush) = 1
        BY <4>1
      <4> QED BY <4>1, <4>2
    <3> QED BY <2>1, <3>1, <3>2
  <2>3. phase' # "ready"
    BY <2>1
  <2> QED BY <2>1, <2>2, <2>3, NothingHandled
<1>8. ASSUME UNCHANGED <<toPush, handling, due, inputStart, inputEdge>>,
             phase' = "ready" => phase = "ready" \/ Free
      PROVE  OneAtATime'
  BY <1>8 DEF HandlingTimed, Handling, Free
<1>9. CASE Application
  <2>1. CASE ~ReadyToPaused
    <3>1. /\ UNCHANGED <<toPush, handling, due, inputStart, inputEdge>>
          /\ phase' = "ready" => phase = "ready" \/ Free
      BY <1>9, <2>1 DEF Application, SetProperty, ApplySettings, FlushStart, PausedToReady,
                        DeactivatePads, Quiet, upstream
    <3> QED BY <1>8, <3>1
  <2>2. CASE ReadyToPaused
    <3>1. handling' = Idle /\ toPush' = <<>> /\ phase' = "paused"
      BY <2>2 DEF ReadyToPaused
    <3>2. DOMAIN toPush' = {}
      BY <3>1
    <3> QED BY <3>1, <3>2, NothingHandled
  <2> QED BY <2>1, <2>2
<1>10. CASE UNCHANGED vars
  BY <1>8, <1>10 DEF vars, upstream, observed
<1> QED BY <1>2, <1>3, <1>4, <1>5, <1>6, <1>7, <1>9, <1>10
        DEF Next, Input, Streaming, Events

\* A window without words holds words of any kind.
LEMMA EmptyDisplay ==
    ASSUME NEW W, NEW w \in Display({})
    PROVE  w \in Display(W)
<1>1. Seq({}) \subseteq Seq(W)
  BY SeqMonotonic
<1>2. Seq({}) \ {<<>>} \subseteq Seq(W) \ {<<>>}
  BY <1>1
<1>3. Seq(Seq({}) \ {<<>>}) \subseteq Seq(Seq(W) \ {<<>>})
  BY <1>2, SeqMonotonic
<1> QED BY <1>1, <1>3 DEF Display

LEMMA NoLines == \A W : <<>> \in Seq(Seq(W))
  BY EmptySeq

\* Text stays current as long as it stays where it is.
LEMMA TextFrame ==
    ASSUME TextInv, UNCHANGED <<firstWord, spoken, shown, toPush, handling, window, due>>
    PROVE  TextInv'
  BY DEF TextInv, Handling

\* What a handler leaves behind is current if its window and its items are.
LEMMA TextHandled ==
    ASSUME TypeInv, TextInv, handling' = Idle, UNCHANGED <<firstWord, spoken, shown>>,
           \A i \in DOMAIN toPush' : toPush'[i].lines \in Seq(Seq(WordFrom(firstWord))),
           \A i \in DOMAIN toPush' : toPush'[i].kind \in Events => window' \in Display({}),
           window' \in Display(WordFrom(firstWord))
    PROVE  TextInv'
  BY NothingHandled DEF TextInv

LEMMA TextArrivals ==
    ASSUME TypeInv, TextInv, Input
    PROVE  TextInv'
<1> USE DEF TextInv
<1>1. ASSUME NEW start \in 0 .. MaxTime, NEW end \in 0 .. MaxTime, NEW words \in Batches,
             TextArrives(start, end, words)
      PROVE  TextInv'
  <2> DEFINE numbered == [i \in DOMAIN words |->
                            [width |-> words[i].width, ends |-> words[i].ends,
                             number |-> spoken + i]]
             input == [kind |-> "text", start |-> start, end |-> end, words |-> numbered]
  <2>1. PICK n \in 0 .. MaxBatch : words \in [1 .. n -> Words]
    BY DEF Batches
  <2>2. n \in Nat /\ Len(words) = n /\ DOMAIN words = 1 .. n
        /\ spoken \in Nat /\ firstWord \in Nat
    BY <2>1, RollupAssumption DEF TypeInv, TimesOK
  <2>3. numbered \in Seq(WordFrom(firstWord))
    <3> DEFINE W == WordFrom(firstWord)
    <3>1. ASSUME NEW i \in 1 .. n
          PROVE  [width |-> words[i].width, ends |-> words[i].ends, number |-> spoken + i] \in W
      <4>1. spoken + i \in {m \in Nat : m >= firstWord}
        BY <2>2
      <4>2. words[i].width \in Nat /\ words[i].ends \in BOOLEAN
        BY <2>1, RollupAssumption
      <4> QED BY <4>1, <4>2 DEF WordFrom
    <3> HIDE DEF W
    <3>2. numbered \in [1 .. n -> W]
      BY <2>2, <3>1
    <3> HIDE DEF numbered
    <3>3. numbered \in Seq(W)
      BY <2>2, <3>2
    <3> QED BY <3>3 DEF W
  <2>4. /\ Free /\ Enter(input) /\ spoken' = spoken + n /\ due = "data" /\ due' = due
    BY <1>1, <2>2 DEF TextArrives
  <2> HIDE DEF numbered
  <2>5. handling'.input.words = numbered
    BY <2>4 DEF Enter
  <2> HIDE DEF input
  <2>6. handling = Idle /\ toPush' = <<>> /\ toPush = <<>>
        /\ UNCHANGED <<firstWord, shown, window>>
    BY <2>4 DEF Free, Enter, state, sent
  <2>7. window \in Display(WordFrom(firstWord))
    BY <2>4, <2>6, IdleHandles DEF Events
  <2>8. firstWord' <= spoken' + 1
    BY <2>2, <2>4, <2>6
  <2> QED BY <2>3, <2>5, <2>6, <2>7, <2>8, Zenon
<1>2. ASSUME NEW start, NEW end, GapArrives(start, end)
      PROVE  TextInv'
  <2> DEFINE input == [kind |-> "gap", start |-> start, end |-> end]
  <2>1. Free /\ Enter(input) /\ UNCHANGED spoken /\ due = "data" /\ due' = due
    BY <1>2 DEF GapArrives
  <2>2. handling'.input.kind = "gap"
    BY <2>1 DEF Enter
  <2>3. handling = Idle /\ toPush' = <<>> /\ toPush = <<>>
        /\ UNCHANGED <<firstWord, shown, window>>
    BY <2>1 DEF Free, Enter, state, sent
  <2>4. window \in Display(WordFrom(firstWord)) /\ ~Handling("text")'
    BY <2>1, <2>2, <2>3, IdleHandles DEF Events, Handling
  <2> QED BY <2>1, <2>3, <2>4, Zenon
<1>3. ASSUME NEW kind \in Events, EventArrives(kind)
      PROVE  TextInv'
  <2> DEFINE input == [kind |-> kind]
  <2>1. Free /\ Enter(input) /\ UNCHANGED spoken
    BY <1>3 DEF EventArrives
  <2>2. handling'.input.kind = kind
    BY <2>1 DEF Enter
  <2>3. handling = Idle /\ toPush' = <<>> /\ toPush = <<>>
        /\ UNCHANGED <<firstWord, shown, window>>
    BY <2>1 DEF Free, Enter, state, sent
  <2>4. ~Handling("text")' /\ (kind \in {"stream_start", "flush_stop"} => Handling(kind)')
    BY <2>2 DEF Events, Handling
  <2>5. kind = "segment" => due \in {"segment", "data"}
    BY <1>3 DEF EventArrives
  <2>6. kind = "segment" => window \in Display(WordFrom(firstWord))
    BY <2>3, <2>5, IdleHandles DEF Events
  <2>7. kind \in {"segment", "stream_start", "flush_stop"}
    BY DEF Events
  <2> QED BY <2>1, <2>3, <2>4, <2>6, <2>7, Zenon
<1> QED BY <1>1, <1>2, <1>3 DEF Input, Events

LEMMA TextHandlers ==
    ASSUME TypeInv, OneAtATime, TextInv, Streaming
    PROVE  TextInv'
<1> DEFINE W == WordFrom(firstWord)
<1>1. CASE HandleBlank \/ HandleWords \/ HandleGap
  <2>1. /\ handling' = Idle /\ HandlingTimed
        /\ \A i \in DOMAIN toPush' :
              /\ toPush'[i].kind \in {"gap", "cue"}
              /\ toPush'[i].lines = <<>> \/ (HandleWords /\ toPush'[i].lines = Render(window'))
    BY <1>1, TimedItems
  <2>2. window \in Display(W)
    <3>1. due = "data" /\ ~Handling("stream_start") /\ ~Handling("flush_stop")
      BY <2>1 DEF OneAtATime, HandlingTimed, Handling
    <3> QED BY <3>1 DEF TextInv
  <2>3. UNCHANGED <<firstWord, spoken, shown>>
    BY <1>1 DEF HandleBlank, HandleWords, HandleGap, Handled, sent
  <2>4. window' \in Display(W)
    <3>1. CASE HandleBlank \/ HandleGap
      <4>1. window' = window \/ window' = Clear(window)
        BY <3>1 DEF HandleBlank, HandleGap, ResetDisplay, state
      <4> QED BY <2>2, <4>1, ClearType
    <3>2. CASE HandleWords
      <4>1. handling.input.words \in Seq(W)
        BY <3>2 DEF HandleWords, TextInv
      <4>2. \/ window' = PushWords(window, handling.input.words)
            \/ window' = PushWords(Clear(window), handling.input.words)
        BY <3>2 DEF HandleWords
      <4>3. Clear(window) \in Display(W)
        BY <2>2, ClearType
      <4> HIDE DEF W
      <4> QED BY <2>2, <4>1, <4>2, <4>3, PushWordsType
    <3> QED BY <1>1, <3>1, <3>2
  <2>5. \A i \in DOMAIN toPush' : toPush'[i].lines \in Seq(Seq(W))
    <3>1. Render(window') \in Seq(Seq(W)) /\ <<>> \in Seq(Seq(W))
      BY <2>4, RenderType, NoLines
    <3> QED BY <2>1, <3>1
  <2>6. \A i \in DOMAIN toPush' : toPush'[i].kind \in Events => window' \in Display({})
    BY <2>1 DEF Events
  <2> QED BY <2>1, <2>3, <2>4, <2>5, <2>6, TextHandled
<1>2. CASE HandleSegment \/ HandleReset
  <2>1. PICK kind \in Events :
           /\ Handled(<<Event(kind)>>)
           /\ window' = Clear(window) \/ \E g \in Geometries : window' = FreshWindow(g)
    BY <1>2, EventMade
  <2>2. window' \in Display({}) /\ window' \in Display(W)
    BY <2>1, ClearType, FreshWindowType DEF TypeInv, WindowOK
  <2>3. handling' = Idle /\ UNCHANGED <<firstWord, spoken, shown>>
        /\ toPush' = <<Event(kind)>>
    BY <2>1 DEF Handled, sent
  <2>4. \A i \in DOMAIN toPush' : toPush'[i].lines \in Seq(Seq(W))
    <3>1. DOMAIN toPush' = {1} /\ toPush'[1].lines = <<>>
      BY <2>3, EventAlone
    <3> QED BY <3>1, NoLines
  <2> QED BY <2>2, <2>3, <2>4, TextHandled
<1>3. CASE PushNext
  <2> DEFINE item == toPush[1]
  <2>1. /\ toPush # <<>> /\ handling' = Idle
        /\ toPush' = <<>> \/ toPush' = Tail(toPush)
        /\ \/ UNCHANGED <<shown, firstWord>>
           \/ item.kind \notin Events /\ shown' = item.lines /\ UNCHANGED firstWord
           \/ /\ item.kind \in Events /\ toPush' = Tail(toPush)
              /\ shown' = <<>> /\ firstWord' = spoken + 1
        /\ UNCHANGED <<due, spoken, window>>
    BY <1>3, PushMade DEF sent, observed, state, Events
  <2>2. \A i \in DOMAIN toPush' : \E j \in DOMAIN toPush : toPush'[i] = toPush[j]
    BY <2>1, TailItems
  <2>3. 1 \in DOMAIN toPush
    BY <2>1, TailItems
  <2>4. CASE firstWord' = firstWord
    <3>1. shown' \in Seq(Seq(W))
      <4>1. shown' = shown \/ shown' = item.lines \/ shown' = <<>>
        BY <2>1
      <4> QED BY <2>3, <4>1, NoLines DEF TextInv
    <3>2. \/ window' \in Display(WordFrom(firstWord')) \/ due' = "stream_start"
      <4>1. ~Handling("stream_start") /\ ~Handling("flush_stop")
        BY <2>1, IdleHandles DEF TypeInv, ToPushOK, Events
      <4> QED BY <2>1, <2>4, <4>1 DEF TextInv
    <3>3. \A i \in DOMAIN toPush' : /\ toPush'[i].lines \in Seq(Seq(WordFrom(firstWord')))
                                    /\ toPush'[i].kind \in Events => window' \in Display({})
      BY <2>1, <2>2, <2>4 DEF TextInv
    <3> QED BY <2>1, <2>4, <3>1, <3>2, <3>3, NothingHandled DEF TextInv
  <2>5. CASE item.kind \in Events /\ shown' = <<>> /\ firstWord' = spoken + 1 /\ toPush' = Tail(toPush)
    <3>1. Len(toPush) = 1
      BY <2>3, <2>5 DEF OneAtATime
    <3>2. DOMAIN toPush' = {}
      BY <2>1, <2>5, <3>1, TailItems
    <3>3. window \in Display({})
      BY <2>3, <2>5 DEF TextInv
    <3>4. window' \in Display(WordFrom(firstWord'))
      BY <2>1, <3>3, EmptyDisplay
    <3>5. shown' \in Seq(Seq(WordFrom(firstWord'))) /\ firstWord' <= spoken' + 1
      BY <2>1, <2>5, NoLines DEF TypeInv, TimesOK
    <3> QED BY <2>1, <3>2, <3>4, <3>5, NothingHandled DEF TextInv
  <2> QED BY <2>1, <2>4, <2>5
<1> QED BY <1>1, <1>2, <1>3 DEF Streaming

LEMMA TextStep == TypeInv /\ OneAtATime /\ TextInv /\ [Next]_vars => TextInv'
<1> SUFFICES ASSUME TypeInv, OneAtATime, TextInv, [Next]_vars PROVE TextInv'
  OBVIOUS
<1>1. CASE (\E g \in Geometries : SetProperty(g)) \/ FlushStart \/ DeactivatePads \/ UNCHANGED vars
  <2>1. UNCHANGED <<firstWord, spoken, shown, toPush, handling, window, due>>
    BY <1>1 DEF SetProperty, FlushStart, DeactivatePads, Quiet, vars, upstream, state, sent, observed
  <2> QED BY <2>1, TextFrame
<1>2. CASE ApplySettings \/ PausedToReady
  <2>1. UNCHANGED <<firstWord, spoken, shown, toPush, handling, due>>
    BY <1>2 DEF ApplySettings, PausedToReady, Quiet, upstream, sent
  <2>2. \A W : window \in Display(W) => window' \in Display(W)
    <3>1. CASE ApplySettings
      <4>1. setting \in Geometries
            /\ window' = Reshape(window, setting.columns, setting.lines, setting.breaks)
        BY <3>1 DEF ApplySettings, TypeInv, SettingsOK
      <4> QED BY <4>1, ReshapeType
    <3>2. CASE PausedToReady
      <4>1. geometry \in Geometries /\ window' = FreshWindow(geometry)
        BY <3>2 DEF PausedToReady, ResetAll, TypeInv, SettingsOK
      <4> QED BY <4>1, FreshWindowType
    <3> QED BY <1>2, <3>1, <3>2
  <2> QED BY <2>1, <2>2 DEF TextInv, Handling
<1>3. CASE ReadyToPaused
  <2>1. /\ phase = "ready" /\ due' = "stream_start" /\ shown' = <<>> /\ firstWord' = spoken + 1
        /\ UNCHANGED <<handling, toPush, spoken>>
    BY <1>3 DEF ReadyToPaused
  <2>2. handling' = Idle /\ toPush' = <<>>
    BY <2>1 DEF OneAtATime
  <2>3. DOMAIN toPush' = {}
    BY <2>2
  <2>4. shown' \in Seq(Seq(WordFrom(firstWord'))) /\ firstWord' <= spoken' + 1
    BY <2>1, NoLines DEF TypeInv, TimesOK
  <2> QED BY <2>1, <2>2, <2>3, <2>4, NothingHandled DEF TextInv
<1> QED BY <1>1, <1>2, <1>3, TextArrivals, TextHandlers DEF Next, Application

\* Text of the previous timeline never leaks into the new one: whatever is on
\* screen was received since the last segment, flush or restart
\* (State::reset_timeline, reset_all), whatever the window kept of it.
THEOREM TextNeverLeaks == Spec => []OnlyCurrentText
<1>1. Init => OneAtATime /\ TextInv
  <2> SUFFICES ASSUME Init PROVE OneAtATime /\ TextInv
    OBVIOUS
  <2>1. /\ handling = Idle /\ toPush = <<>> /\ phase = "paused" /\ due = "stream_start"
        /\ shown = <<>> /\ firstWord = 1 /\ spoken = 0
    BY DEF Init
  <2>2. DOMAIN toPush = {} /\ ~Handling("text") /\ ~Handling("gap")
    BY <2>1, IdleHandles
  <2> QED BY <2>1, <2>2, NoLines DEF OneAtATime, TextInv, HandlingTimed
<1>2. TextInv => OnlyCurrentText
  <2> SUFFICES ASSUME TextInv, NEW i \in DOMAIN shown, NEW n \in Numbers(shown[i])
               PROVE  n >= firstWord
    BY DEF OnlyCurrentText
  <2>1. shown[i] \in Seq(WordFrom(firstWord))
    BY DEF TextInv
  <2>2. PICK j \in DOMAIN shown[i] : n = shown[i][j].number
    BY DEF Numbers
  <2>3. shown[i][j] \in WordFrom(firstWord)
    BY <2>1
  <2> QED BY <2>2, <2>3 DEF WordFrom
<1> QED BY <1>1, <1>2, TypeInit, TypeStep, OneStep, TextStep, PTL DEF Spec

-----------------------------------------------------------------------------
\* Coverage and the clear, for input in which an empty buffer has no duration:
\* sink_chain answers one that has with a clear of length zero.

\* What a handler makes of a timed input.
IsGap(x, start, end) ==
    x \in Item /\ x.kind = "gap" /\ x.start = start /\ x.end = end /\ x.lines = <<>>
IsClear(x, at) ==
    x \in Item /\ x.kind = "cue" /\ x.start = at /\ x.end = at /\ x.lines = <<>>
IsText(x, start, end) ==
    x \in Item /\ x.kind = "cue" /\ x.start = start /\ x.end = end /\ x.lines # <<>>

Owed == lastEnd # NoTime /\ clearAfter > 0
Limit == lastEnd + clearAfter

MadeClear ==
    /\ inputStart = inputEdge /\ lastEnd' = NoTime /\ frontier' = frontier
    /\ \E x : IsClear(x, inputStart) /\ toPush' = <<x>>
MadeText ==
    /\ inputStart < inputEdge /\ lastEnd' = inputEdge /\ frontier' = frontier
    /\ Owed => inputStart < Limit
    /\ \E x : IsText(x, inputStart, inputEdge) /\ toPush' = <<x>>
MadeLateText ==
    /\ inputStart < inputEdge /\ lastEnd' = inputEdge /\ frontier' = frontier
    /\ Owed /\ Limit <= inputStart
    /\ \E x, y : /\ IsClear(x, Limit) /\ IsText(y, inputStart, inputEdge)
                 /\ toPush' = <<x, y>>
MadeGap ==
    /\ inputStart < inputEdge /\ lastEnd' = lastEnd /\ frontier' = inputEdge
    /\ Owed => inputEdge < Limit
    /\ \E x : IsGap(x, inputStart, inputEdge) /\ toPush' = <<x>>
MadeSplit ==
    /\ inputStart < inputEdge /\ lastEnd' = NoTime /\ frontier' = inputEdge /\ Owed
    /\ \/ /\ inputStart < Limit /\ Limit < inputEdge
          /\ \E x, y, z : /\ IsGap(x, inputStart, Limit) /\ IsClear(y, Limit)
                          /\ IsGap(z, Limit, inputEdge) /\ toPush' = <<x, y, z>>
       \/ /\ inputStart < Limit /\ Limit = inputEdge
          /\ \E x, y : /\ IsGap(x, inputStart, Limit) /\ IsClear(y, Limit)
                       /\ toPush' = <<x, y>>
       \/ /\ Limit <= inputStart
          /\ \E x, y : /\ IsClear(x, Limit) /\ IsGap(y, inputStart, inputEdge)
                       /\ toPush' = <<x, y>>

\* A GAP is never dropped as stale, and the deadline is the limit.
LEMMA TimedMade ==
    ASSUME TypeInv, OneAtATime, InputInv, HandleBlank \/ HandleWords \/ HandleGap
    PROVE  /\ handling' = Idle /\ HandlingTimed /\ due = "data" /\ toPush = <<>>
           /\ UNCHANGED <<phase, flushing, due, clearAfter, edge, shown, shownEnd,
                          inputStart, inputEdge>>
           /\ inputStart \in Nat /\ inputEdge \in Nat /\ inputStart <= inputEdge
           /\ clearAfter \in Nat /\ lastEnd \in Time /\ frontier <= inputStart
           /\ \/ MadeClear \/ MadeText \/ MadeLateText \/ MadeGap \/ MadeSplit
<1> DEFINE in == handling.input
<1>1. handling' = Idle /\ HandlingTimed
  BY TimedItems
<1>2. /\ due = "data" /\ inputStart = in.start /\ inputEdge = in.end
      /\ in.start \in Nat /\ in.end \in Nat /\ in.start <= in.end /\ handling # Idle /\ toPush = <<>>
  BY <1>1, InputTypes DEF OneAtATime, HandlingTimed
<1>3. frontier <= inputStart /\ frontier \in Time /\ lastEnd \in Time
  BY <1>1, <1>2 DEF InputInv, TypeInv, TimesOK
<1>4. /\ clearAfter \in Nat
      /\ Owed => Deadline = Limit /\ Limit \in Nat
      /\ ~Owed => Deadline = NoTime
  BY <1>2, <1>3, DeadlineType DEF Owed, Limit, Time
<1>5. UNCHANGED <<phase, flushing, due, clearAfter, edge, shown, shownEnd, inputStart, inputEdge>>
  BY DEF HandleBlank, HandleWords, HandleGap, Handled, upstream, settings, sent
<1>6. ASSUME HandleBlank PROVE MadeClear
  <2> DEFINE x == Blank(in.start)
  <2>1. inputStart = inputEdge
    BY <1>6 DEF HandleBlank, InputInv
  <2>2. IsClear(x, inputStart)
    BY <1>2, BlankItem DEF IsClear
  <2>3. lastEnd' = NoTime /\ frontier' = frontier /\ toPush' = <<x>>
    BY <1>6 DEF HandleBlank, ResetDisplay, Handled
  <2> HIDE DEF x
  <2> QED BY <2>1, <2>2, <2>3 DEF MadeClear
<1>7. ASSUME HandleWords PROVE MadeText \/ MadeLateText
  <2> DEFINE x == Blank(Deadline)
             y == Cue(in.start, in.end, Render(window'))
  <2>1. in.words # <<>> /\ Handling("text") /\ frontier' = frontier
    BY <1>7 DEF HandleWords
  <2>2. inputStart < inputEdge
    BY <1>2, <2>1 DEF InputInv
  <2>3. /\ Render(window') \in Seq(Line) /\ Render(window') # <<>> /\ lastEnd' = in.end
        /\ \/ ~ClearMissed(in.start) /\ Handled(<<y>>)
           \/ ClearMissed(in.start) /\ Handled(<<x, y>>)
    BY <1>7, WordsMade, Zenon
  <2>4. IsText(y, inputStart, inputEdge)
    BY <1>2, <2>3, CueItem DEF IsText
  <2>5. CASE ~ClearMissed(in.start) /\ Handled(<<y>>)
    <3>1. Owed => inputStart < Limit
      BY <1>2, <1>4, <2>5 DEF ClearMissed, NoTime
    <3>2. toPush' = <<y>>
      BY <2>5 DEF Handled
    <3> HIDE DEF y
    <3> QED BY <1>2, <2>1, <2>2, <2>3, <2>4, <3>1, <3>2 DEF MadeText
  <2>6. CASE ClearMissed(in.start) /\ Handled(<<x, y>>)
    <3>1. Owed /\ Limit <= inputStart
      BY <1>2, <1>4, <2>6 DEF ClearMissed, NoTime
    <3>2. toPush' = <<x, y>>
      BY <2>6 DEF Handled
    <3>3. IsClear(x, Limit)
      BY <1>4, <3>1, BlankItem DEF IsClear
    <3> HIDE DEF x, y
    <3> QED BY <1>2, <2>1, <2>2, <2>3, <2>4, <3>1, <3>2, <3>3 DEF MadeLateText
  <2> QED BY <2>3, <2>5, <2>6
<1>8. ASSUME HandleGap PROVE MadeGap \/ MadeSplit
  <2>1. /\ in.start < in.end
        /\ \/ in.end < frontier
           \/ /\ frontier' = Later(in.end, frontier)
              /\ Deadline = NoTime \/ in.end < Deadline
              /\ Handled(<<Gap(in.start, in.end)>>) /\ UNCHANGED lastEnd
           \/ /\ frontier' = Later(in.end, frontier)
              /\ clearAfter > 0 /\ lastEnd # NoTime
              /\ Deadline \in Nat /\ Deadline <= in.end /\ ResetDisplay
              /\ Handled(SplitGap(in.start, in.end, Deadline))
    BY <1>8, GapMade
  <2>2. ~(in.end < frontier) /\ Later(in.end, frontier) = inputEdge
    BY <1>2, <1>3, <2>1 DEF Later, Time, NoTime
  <2>3. CASE /\ frontier' = Later(in.end, frontier)
             /\ Deadline = NoTime \/ in.end < Deadline
             /\ Handled(<<Gap(in.start, in.end)>>) /\ UNCHANGED lastEnd
    <3> DEFINE x == Gap(in.start, in.end)
    <3>1. IsGap(x, inputStart, inputEdge)
      BY <1>2, GapItem DEF IsGap
    <3>2. toPush' = <<x>>
      BY <2>3 DEF Handled
    <3>3. Owed => inputEdge < Limit
      BY <1>2, <1>4, <2>3 DEF NoTime
    <3> HIDE DEF x
    <3> QED BY <1>2, <2>1, <2>2, <2>3, <3>1, <3>2, <3>3 DEF MadeGap
  <2>4. CASE /\ frontier' = Later(in.end, frontier)
             /\ clearAfter > 0 /\ lastEnd # NoTime
             /\ Deadline \in Nat /\ Deadline <= in.end /\ ResetDisplay
             /\ Handled(SplitGap(in.start, in.end, Deadline))
    <3> DEFINE before == Gap(in.start, Limit)
               clear == Blank(Limit)
               after == Gap(Limit, in.end)
               whole == Gap(in.start, in.end)
    <3>1. Owed /\ Deadline = Limit /\ Limit \in Nat /\ lastEnd' = NoTime
          /\ toPush' = SplitGap(in.start, in.end, Limit)
      BY <1>4, <2>4 DEF Owed, ResetDisplay, Handled
    <3>2. /\ IsGap(before, inputStart, Limit) /\ IsClear(clear, Limit)
          /\ IsGap(after, Limit, inputEdge) /\ IsGap(whole, inputStart, inputEdge)
      BY <1>2, <3>1, GapItem, BlankItem DEF IsGap, IsClear
    <3>3. \/ inputStart < Limit /\ Limit < inputEdge /\ toPush' = <<before, clear, after>>
          \/ inputStart < Limit /\ Limit = inputEdge /\ toPush' = <<before, clear>>
          \/ Limit <= inputStart /\ toPush' = <<clear, whole>>
      <4>1. Limit <= in.end
        BY <2>4, <3>1
      <4> HIDE DEF in
      <4> QED BY <1>2, <2>1, <3>1, <4>1, SplitGapCases
    <3> HIDE DEF before, clear, after, whole
    <3>4. inputStart < inputEdge /\ frontier' = inputEdge
      BY <1>2, <2>1, <2>2, <2>4
    <3> QED BY <3>1, <3>2, <3>3, <3>4 DEF MadeSplit
  <2> QED BY <2>1, <2>2, <2>3, <2>4
<1> QED BY <1>1, <1>2, <1>3, <1>4, <1>5, <1>6, <1>7, <1>8

\* What arrives finds the element free, follows on the input before it, and is
\* empty only if it is words without length.
LEMMA ArrivalMade ==
    ASSUME TypeInv, Input, "blank_span" \notin Features
    PROVE  /\ Free /\ toPush' = <<>> /\ handling' # Idle
           /\ UNCHANGED <<phase, flushing, clearAfter, lastEnd, frontier, edge, shown, shownEnd>>
           /\ \/ /\ HandlingTimed' /\ due = "data" /\ due' = due
                 /\ inputStart' \in Nat /\ inputEdge' \in Nat /\ inputStart' <= inputEdge'
                 /\ inputEdge # NoTime => inputStart' >= inputEdge
                 /\ Handling("text")' => (handling'.input.words = <<>> <=> inputStart' = inputEdge')
              \/ /\ ~HandlingTimed' /\ ~Handling("text")'
                 /\ inputStart' = NoTime /\ inputEdge' = NoTime
<1>1. ASSUME NEW input, Free, Enter(input), input.kind # "none"
      PROVE  /\ toPush' = <<>> /\ handling' # Idle
             /\ handling'.input = input
             /\ UNCHANGED <<phase, flushing, clearAfter, lastEnd, frontier, edge, shown, shownEnd>>
  BY <1>1 DEF Enter, Free, settings, state, sent, Idle
<1>2. inputEdge \in Time
  BY DEF TypeInv, TimesOK
<1>3. ASSUME NEW start \in 0 .. MaxTime, NEW end \in 0 .. MaxTime, start <= end,
             NEW words \in Batches, TextArrives(start, end, words)
      PROVE  /\ Free /\ toPush' = <<>> /\ handling' # Idle
             /\ UNCHANGED <<phase, flushing, clearAfter, lastEnd, frontier, edge, shown, shownEnd>>
             /\ HandlingTimed' /\ due = "data" /\ due' = due
             /\ inputStart' \in Nat /\ inputEdge' \in Nat /\ inputStart' <= inputEdge'
             /\ inputEdge # NoTime => inputStart' >= inputEdge
             /\ handling'.input.words = <<>> <=> inputStart' = inputEdge'
  <2> DEFINE numbered == [i \in DOMAIN words |->
                            [width |-> words[i].width, ends |-> words[i].ends,
                             number |-> spoken + i]]
             input == [kind |-> "text", start |-> start, end |-> end, words |-> numbered]
  <2>1. PICK n \in 0 .. MaxBatch : words \in [1 .. n -> Words]
    BY DEF Batches
  <2>2. start \in Nat /\ end \in Nat /\ n \in Nat
    BY <2>1, RollupAssumption
  <2>3. numbered = <<>> <=> words = <<>>
    <3> DEFINE Word == [width : Nat, ends : BOOLEAN, number : Int]
    <3>1. words \in Seq(Words) /\ DOMAIN words = 1 .. n
      BY <2>1, <2>2
    <3>2. spoken \in Nat
      BY DEF TypeInv, TimesOK
    <3>3. \A i \in 1 .. n : [width |-> words[i].width, ends |-> words[i].ends, number |-> spoken + i]
                            \in Word
      BY <2>1, <2>2, <3>2, RollupAssumption
    <3> HIDE DEF Word
    <3>4. numbered \in [1 .. n -> Word]
      BY <3>1, <3>3
    <3> HIDE DEF numbered
    <3>5. numbered \in Seq(Word) /\ DOMAIN numbered = 1 .. n
      BY <2>2, <3>4
    <3>6. (words = <<>> <=> n = 0) /\ (numbered = <<>> <=> n = 0)
      BY <2>2, <3>1, <3>5, EmptySeq
    <3> QED BY <3>6
  <2>4. /\ Free /\ Enter(input) /\ Follows(start) /\ due = "data" /\ due' = due
        /\ inputStart' = start /\ inputEdge' = end
        /\ (words = <<>> /\ start < end) => "blank_span" \in Features
        /\ words # <<>> => start < end
    BY <1>3 DEF TextArrives
  <2>5. words = <<>> <=> start = end
    BY <1>3, <2>2, <2>4
  <2> HIDE DEF numbered
  <2>6. input.kind = "text" /\ input.words = numbered
    OBVIOUS
  <2> HIDE DEF input
  <2>7. /\ toPush' = <<>> /\ handling' # Idle /\ handling'.input = input
        /\ UNCHANGED <<phase, flushing, clearAfter, lastEnd, frontier, edge, shown, shownEnd>>
    BY <1>1, <2>4, <2>6
  <2>8. HandlingTimed'
    BY <2>6, <2>7 DEF HandlingTimed, Handling
  <2>9. inputEdge # NoTime => inputStart' >= inputEdge
    BY <1>2, <2>2, <2>4 DEF Follows, Time
  <2>10. handling'.input.words = <<>> <=> inputStart' = inputEdge'
    BY <2>3, <2>4, <2>5, <2>6, <2>7
  <2> QED BY <1>3, <2>2, <2>4, <2>7, <2>8, <2>9, <2>10
<1>4. ASSUME NEW start \in 0 .. MaxTime, NEW end \in 0 .. MaxTime, GapArrives(start, end)
      PROVE  /\ Free /\ toPush' = <<>> /\ handling' # Idle
             /\ UNCHANGED <<phase, flushing, clearAfter, lastEnd, frontier, edge, shown, shownEnd>>
             /\ HandlingTimed' /\ due = "data" /\ due' = due
             /\ inputStart' \in Nat /\ inputEdge' \in Nat /\ inputStart' <= inputEdge'
             /\ inputEdge # NoTime => inputStart' >= inputEdge
             /\ ~Handling("text")'
  <2> DEFINE input == [kind |-> "gap", start |-> start, end |-> end]
  <2>1. start \in Nat /\ end \in Nat
    BY RollupAssumption
  <2>2. /\ Free /\ Enter(input) /\ Follows(start) /\ due = "data" /\ due' = due
        /\ inputStart' = start /\ inputEdge' = end /\ start < end
    BY <1>4 DEF GapArrives
  <2>3. input.kind = "gap"
    OBVIOUS
  <2> HIDE DEF input
  <2>4. /\ toPush' = <<>> /\ handling' # Idle /\ handling'.input = input
        /\ UNCHANGED <<phase, flushing, clearAfter, lastEnd, frontier, edge, shown, shownEnd>>
    BY <1>1, <2>2, <2>3
  <2>5. HandlingTimed' /\ ~Handling("text")'
    BY <2>3, <2>4 DEF HandlingTimed, Handling
  <2>6. inputEdge # NoTime => inputStart' >= inputEdge
    BY <1>2, <2>1, <2>2 DEF Follows, Time
  <2> QED BY <2>1, <2>2, <2>4, <2>5, <2>6
<1>5. ASSUME NEW kind \in Events, EventArrives(kind)
      PROVE  /\ Free /\ toPush' = <<>> /\ handling' # Idle
             /\ UNCHANGED <<phase, flushing, clearAfter, lastEnd, frontier, edge, shown, shownEnd>>
             /\ ~HandlingTimed' /\ ~Handling("text")'
             /\ inputStart' = NoTime /\ inputEdge' = NoTime
  <2> DEFINE input == [kind |-> kind]
  <2>1. Free /\ Enter(input) /\ inputStart' = NoTime /\ inputEdge' = NoTime
    BY <1>5 DEF EventArrives
  <2>2. input.kind = kind /\ kind \notin {"none", "text", "gap"}
    BY DEF Events
  <2> HIDE DEF input
  <2>3. /\ toPush' = <<>> /\ handling' # Idle /\ handling'.input = input
        /\ UNCHANGED <<phase, flushing, clearAfter, lastEnd, frontier, edge, shown, shownEnd>>
    BY <1>1, <2>1, <2>2
  <2> QED BY <2>1, <2>2, <2>3 DEF HandlingTimed, Handling
<1>6. \/ \E start, end \in 0 .. MaxTime : GapArrives(start, end)
      \/ \E start, end \in 0 .. MaxTime : start <= end /\ \E words \in Batches : TextArrives(start, end, words)
      \/ \E kind \in Events : EventArrives(kind)
  BY DEF Input, Events
<1>7. CASE \E start, end \in 0 .. MaxTime : GapArrives(start, end)
  BY <1>4, <1>7
<1>8. CASE \E start, end \in 0 .. MaxTime : start <= end /\ \E words \in Batches : TextArrives(start, end, words)
  BY <1>3, <1>8
<1>9. CASE \E kind \in Events : EventArrives(kind)
  BY <1>5, <1>9
<1> QED BY <1>6, <1>7, <1>8, <1>9

\* The application either lets the stream alone, has the pads flush, resets the
\* timeline of a stream that stops, or starts anew.
LEMMA ApplicationMade ==
    ASSUME TypeInv, OneAtATime, Application \/ UNCHANGED vars
    PROVE  /\ clearAfter' = clearAfter
           /\ \/ UNCHANGED <<phase, flushing, due, handling, toPush, lastEnd, frontier,
                             edge, shown, shownEnd, inputStart, inputEdge>>
              \/ /\ flushing' = TRUE
                 /\ UNCHANGED <<due, handling, toPush, lastEnd, frontier,
                                edge, shown, shownEnd, inputStart, inputEdge>>
              \/ /\ phase' = "stopping" /\ lastEnd' = NoTime /\ frontier' = NoTime
                 /\ UNCHANGED <<flushing, due, handling, toPush, edge, shown, shownEnd,
                                inputStart, inputEdge>>
              \/ /\ handling' = Idle /\ toPush' = <<>> /\ due' = "stream_start"
                 /\ inputStart' = NoTime /\ inputEdge' = NoTime
                 /\ edge' = NoTime /\ shown' = <<>> /\ UNCHANGED <<lastEnd, frontier>>
<1>1. CASE (\E g \in Geometries : SetProperty(g)) \/ ApplySettings \/ UNCHANGED vars
  BY <1>1 DEF SetProperty, ApplySettings, Quiet, vars, upstream, settings, state, sent, observed
<1>2. CASE FlushStart \/ DeactivatePads
  BY <1>2 DEF FlushStart, DeactivatePads, Quiet, settings, state, sent, TypeInv, SettingsOK
<1>3. CASE PausedToReady
  BY <1>3 DEF PausedToReady, ResetAll, Quiet, settings, sent
<1>4. CASE ReadyToPaused
  BY <1>4 DEF ReadyToPaused, OneAtATime, settings, state
<1> QED BY <1>1, <1>2, <1>3, <1>4 DEF Application

\* An event resets the timeline and goes on alone.
LEMMA EventStep ==
    ASSUME TypeInv, OneAtATime, HandleSegment \/ HandleReset
    PROVE  /\ handling' = Idle /\ lastEnd' = NoTime /\ frontier' = NoTime
           /\ UNCHANGED <<phase, flushing, due, clearAfter, edge, shown, shownEnd,
                          inputStart, inputEdge>>
           /\ Len(toPush') = 1 /\ DOMAIN toPush' = {1}
           /\ toPush'[1].kind \in Events /\ toPush'[1].lines = <<>>
<1>1. PICK kind \in Events :
         Handled(<<Event(kind)>>) /\ lastEnd' = NoTime /\ frontier' = NoTime
  BY EventMade
<1>2. /\ handling' = Idle /\ toPush' = <<Event(kind)>>
      /\ UNCHANGED <<phase, flushing, due, clearAfter, edge, shown, shownEnd, inputStart, inputEdge>>
  BY <1>1 DEF Handled, upstream, settings, sent
<1> QED BY <1>1, <1>2, EventAlone

\* What is pushed leaves the rest on its way.
LEMMA PushStep ==
    ASSUME TypeInv, OneAtATime, PushNext
    PROVE  LET item == toPush[1]
           IN  /\ toPush \in Seq(Item) /\ Len(toPush) \in Nat \ {0} /\ DOMAIN toPush = 1 .. Len(toPush)
               /\ item \in Item /\ handling = Idle /\ handling' = Idle
               /\ UNCHANGED <<phase, due, clearAfter, lastEnd, frontier, inputStart, inputEdge>>
               /\ \/ toPush' = <<>> /\ DOMAIN toPush' = {} /\ Len(toPush') = 0
                  \/ /\ toPush' # <<>> /\ Len(toPush) > 1 /\ Len(toPush') = Len(toPush) - 1
                     /\ DOMAIN toPush' = 1 .. Len(toPush) - 1
                     /\ \A i \in 1 .. Len(toPush) - 1 : toPush'[i] = toPush[i + 1]
               /\ \A i \in DOMAIN toPush' :
                     /\ toPush'[i] = toPush[i + 1] /\ i + 1 \in DOMAIN toPush /\ i \in Nat \ {0}
                     /\ toPush'[i].kind \notin Events
               /\ item.kind \in {"gap", "cue"} \cup Events
               /\ item.kind \in Events => Len(toPush) = 1
               /\ \/ flushing' = TRUE /\ out' = Nothing /\ UNCHANGED <<edge, shown, shownEnd>>
                  \/ /\ flushing' = FALSE /\ out' = item
                     /\ toPush' = <<>> <=> Len(toPush) = 1
                     /\ \/ /\ item.kind = "gap" /\ ~flushing /\ edge' = item.end
                           /\ UNCHANGED <<shown, shownEnd>>
                        \/ /\ item.kind = "cue" /\ ~flushing /\ edge' = item.end
                           /\ shown' = item.lines /\ shownEnd' = item.end
                        \/ /\ item.kind \in Events /\ edge' = NoTime /\ shown' = <<>>
<1> DEFINE item == toPush[1]
<1>1. /\ toPush # <<>> /\ handling = Idle /\ handling' = Idle
      /\ UNCHANGED <<phase, due, clearAfter, lastEnd, frontier, inputStart, inputEdge>>
      /\ toPush' = <<>> \/ toPush' = Tail(toPush)
  BY PushMade DEF settings, state, observed
<1>2. toPush \in Seq(Item)
  BY DEF TypeInv, ToPushOK
<1>3. /\ item \in Item /\ Len(toPush) \in Nat \ {0} /\ DOMAIN toPush = 1 .. Len(toPush)
      /\ 1 \in DOMAIN toPush
      /\ Tail(toPush) \in Seq(Item) /\ Len(Tail(toPush)) = Len(toPush) - 1
      /\ DOMAIN Tail(toPush) = 1 .. Len(toPush) - 1
      /\ \A i \in DOMAIN Tail(toPush) : Tail(toPush)[i] = toPush[i + 1] /\ i + 1 \in DOMAIN toPush
  BY <1>1, TailItems
<1>4. item.kind \in {"gap", "cue"} \cup Events
  BY <1>3 DEF Item
<1>5. item.kind \in Events => Len(toPush) = 1
  BY <1>3 DEF OneAtATime
<1>6. Tail(toPush) = <<>> <=> Len(toPush) = 1
  <2>1. Tail(toPush) = <<>> <=> Len(Tail(toPush)) = 0
    BY <1>3, EmptySeq
  <2> DEFINE n == Len(toPush)
             m == Len(Tail(toPush))
  <2>2. n \in Nat \ {0} /\ m = n - 1
    BY <1>3
  <2> HIDE DEF n, m
  <2>3. m = 0 <=> n = 1
    BY <2>2
  <2> QED BY <2>1, <2>3 DEF n, m
<1>7. \/ toPush' = <<>> /\ DOMAIN toPush' = {} /\ Len(toPush') = 0
      \/ /\ toPush' # <<>> /\ Len(toPush) > 1 /\ Len(toPush') = Len(toPush) - 1
         /\ DOMAIN toPush' = 1 .. Len(toPush) - 1
         /\ \A i \in 1 .. Len(toPush) - 1 : toPush'[i] = toPush[i + 1]
  <2>1. CASE toPush' = <<>>
    BY <2>1
  <2>2. CASE toPush' # <<>>
    <3> DEFINE n == Len(toPush)
               tail == Tail(toPush)
    <3>1. /\ n \in Nat \ {0} /\ n # 1 /\ toPush' = tail /\ Len(tail) = n - 1
          /\ DOMAIN tail = 1 .. n - 1 /\ \A i \in 1 .. n - 1 : tail[i] = toPush[i + 1]
      BY <1>1, <1>3, <1>6, <2>2
    <3> HIDE DEF n, tail
    <3>2. n > 1
      BY <3>1
    <3> QED BY <2>2, <3>1, <3>2 DEF n
  <2> QED BY <2>1, <2>2
<1>8. ASSUME NEW i \in DOMAIN toPush'
      PROVE  /\ toPush'[i] = toPush[i + 1] /\ i + 1 \in DOMAIN toPush /\ i \in Nat \ {0}
             /\ toPush'[i].kind \notin Events
  <2>1. /\ toPush'[i] = toPush[i + 1] /\ i \in 1 .. Len(toPush) - 1 /\ Len(toPush) > 1
    BY <1>7
  <2>2. i + 1 \in DOMAIN toPush /\ i \in Nat \ {0}
    BY <1>3, <2>1
  <2>3. toPush[i + 1].kind \notin Events
    BY <1>3, <2>1, <2>2 DEF OneAtATime
  <2> QED BY <2>1, <2>2, <2>3
<1>9. \/ flushing' = TRUE /\ out' = Nothing /\ UNCHANGED <<edge, shown, shownEnd>>
      \/ /\ flushing' = FALSE /\ out' = item
         /\ toPush' = Tail(toPush)
         /\ \/ /\ item.kind = "gap" /\ ~flushing /\ edge' = item.end
               /\ UNCHANGED <<shown, shownEnd>>
            \/ /\ item.kind = "cue" /\ ~flushing /\ edge' = item.end
               /\ shown' = item.lines /\ shownEnd' = item.end
            \/ /\ item.kind \in Events /\ edge' = NoTime /\ shown' = <<>>
  <2>1. flushing \in BOOLEAN
    BY DEF TypeInv, SettingsOK
  <2> QED BY <2>1, PushMade DEF sent
<1> HIDE DEF item
<1>10. toPush' = Tail(toPush) => (toPush' = <<>> <=> Len(toPush) = 1)
  BY <1>6
<1> QED BY <1>1, <1>2, <1>3, <1>4, <1>5, <1>7, <1>8, <1>9, <1>10 DEF item

LEMMA InputStep ==
    ASSUME "blank_span" \notin Features
    PROVE  TypeInv /\ OneAtATime /\ InputInv /\ [Next]_vars => InputInv'
<1> SUFFICES ASSUME TypeInv, OneAtATime, InputInv, [Next]_vars PROVE InputInv'
  OBVIOUS
<1>1. /\ inputStart \in Time /\ inputEdge \in Time /\ frontier \in Time /\ lastEnd \in Time
      /\ clearAfter \in Nat
  BY RollupAssumption DEF TypeInv, TimesOK, SettingsOK
<1>2. CASE Input
  <2>1. handling = Idle /\ handling' # Idle /\ frontier' = frontier
    BY <1>2, ArrivalMade DEF Free
  <2>2. Handling("text")' => (handling'.input.words = <<>> <=> inputStart' = inputEdge')
    BY <1>2, ArrivalMade
  <2>3. due' = "data" /\ HandlingTimed' => frontier' <= inputStart'
    <3> SUFFICES ASSUME due' = "data", HandlingTimed' PROVE frontier <= inputStart'
      BY <2>1
    <3>1. /\ due = "data" /\ inputStart' \in Nat
          /\ inputEdge # NoTime => inputStart' >= inputEdge
      BY <1>2, ArrivalMade
    <3>2. frontier <= inputEdge
      BY <2>1, <3>1 DEF InputInv
    <3> QED BY <1>1, <3>1, <3>2 DEF Time, NoTime
  <2> QED BY <2>1, <2>2, <2>3 DEF InputInv
<1>3. CASE HandleBlank \/ HandleWords \/ HandleGap
  <2>1. /\ handling' = Idle /\ clearAfter' = clearAfter /\ inputEdge' = inputEdge
        /\ inputStart \in Nat /\ inputEdge \in Nat /\ inputStart <= inputEdge /\ frontier <= inputStart
        /\ \/ MadeClear \/ MadeText \/ MadeLateText \/ MadeGap \/ MadeSplit
    BY <1>3, TimedMade
  <2>2. frontier' = frontier \/ frontier' = inputEdge
    BY <2>1 DEF MadeClear, MadeText, MadeLateText, MadeGap, MadeSplit
  <2>3. frontier' <= inputEdge'
    BY <1>1, <2>1, <2>2 DEF Time, NoTime
  <2>4. \/ lastEnd' = NoTime \/ lastEnd' = inputEdge
        \/ lastEnd' = lastEnd /\ (Owed => inputEdge < Limit)
    BY <2>1 DEF MadeClear, MadeText, MadeLateText, MadeGap, MadeSplit
  <2>5. lastEnd' # NoTime /\ clearAfter' > 0 => inputEdge' <= lastEnd' + clearAfter'
    BY <1>1, <2>1, <2>4 DEF Owed, Limit, Time, NoTime
  <2> QED BY <2>1, <2>3, <2>5, NothingHandled DEF InputInv
<1>4. CASE HandleSegment \/ HandleReset
  <2>1. handling' = Idle /\ lastEnd' = NoTime /\ frontier' = NoTime /\ inputEdge' = inputEdge
    BY <1>4, EventStep
  <2>2. frontier' <= inputEdge'
    BY <1>1, <2>1 DEF Time, NoTime
  <2> QED BY <2>1, <2>2, NothingHandled DEF InputInv
<1>5. CASE PushNext
  <2>1. /\ handling = Idle /\ handling' = Idle
        /\ UNCHANGED <<due, clearAfter, lastEnd, frontier, inputStart, inputEdge>>
    BY <1>5, PushStep
  <2> QED BY <2>1, NothingHandled DEF InputInv
<1>6. CASE Application \/ UNCHANGED vars
  <2>1. CASE UNCHANGED <<due, clearAfter, handling, lastEnd, frontier, inputStart, inputEdge>>
    BY <2>1 DEF InputInv, Handling, HandlingTimed
  <2>2. CASE /\ lastEnd' = NoTime /\ frontier' = NoTime
             /\ UNCHANGED <<due, clearAfter, handling, inputStart, inputEdge>>
    <3>1. frontier' <= inputEdge' /\ frontier' <= inputStart'
      BY <1>1, <2>2 DEF Time, NoTime
    <3> QED BY <2>2, <3>1 DEF InputInv, Handling, HandlingTimed
  <2>3. CASE /\ handling' = Idle /\ due' = "stream_start" /\ inputEdge' = NoTime
             /\ UNCHANGED <<lastEnd, clearAfter>>
    <3>1. lastEnd' # NoTime => inputEdge' <= lastEnd' + clearAfter'
      BY <1>1, <2>3 DEF Time, NoTime
    <3> QED BY <2>3, <3>1, NothingHandled DEF InputInv
  <2> QED BY <1>6, <2>1, <2>2, <2>3, ApplicationMade
<1> QED BY <1>2, <1>3, <1>4, <1>5, <1>6 DEF Next, Streaming

LEMMA Indexes ==
    /\ \A x : Len(<<x>>) = 1 /\ DOMAIN <<x>> = {1} /\ <<x>>[1] = x
    /\ \A x, y : Len(<<x, y>>) = 2 /\ DOMAIN <<x, y>> = {1, 2} /\ <<x, y>>[1] = x /\ <<x, y>>[2] = y
    /\ \A x, y, z : /\ Len(<<x, y, z>>) = 3 /\ DOMAIN <<x, y, z>> = {1, 2, 3}
                    /\ <<x, y, z>>[1] = x /\ <<x, y, z>>[2] = y /\ <<x, y, z>>[3] = z
  OBVIOUS

\* The items of a handler follow on what was pushed and on each other.
LEMMA CoverageHandled ==
    ASSUME TypeInv, OneAtATime, InputInv, CoverageInv, HandleBlank \/ HandleWords \/ HandleGap
    PROVE  CoverageInv'
<1>1. /\ handling' = Idle /\ HandlingTimed
      /\ UNCHANGED <<flushing, clearAfter, edge, inputStart, inputEdge>>
      /\ inputStart \in Nat /\ inputEdge \in Nat /\ inputStart <= inputEdge
      /\ clearAfter \in Nat /\ lastEnd \in Time
      /\ \/ MadeClear \/ MadeText \/ MadeLateText \/ MadeGap \/ MadeSplit
  BY TimedMade
<1>2. edge \in Time /\ (Owed => Limit \in Nat)
  BY <1>1 DEF TypeInv, TimesOK, Owed, Limit, Time
<1>3. edge # NoTime /\ ~flushing => edge <= inputStart /\ (Owed => edge <= Limit)
  BY <1>1 DEF CoverageInv, Owed, Limit
<1>4. ASSUME toPush' # <<>>,
             ~flushing => Continues(edge, toPush[1])',
             \A i \in DOMAIN toPush' : i # 1 => Continues(toPush[i - 1].end, toPush[i])',
             toPush'[Len(toPush')].end = inputEdge
      PROVE  CoverageInv'
  BY <1>1, <1>4, NothingHandled DEF CoverageInv
<1>5. CASE MadeClear
  <2>1. PICK x : IsClear(x, inputStart) /\ toPush' = <<x>> /\ inputStart = inputEdge
    BY <1>5 DEF MadeClear
  <2>2. Len(toPush') = 1 /\ DOMAIN toPush' = {1} /\ toPush'[1] = x /\ toPush' # <<>>
    BY <2>1, Indexes
  <2>3. ~flushing => Continues(edge, toPush[1])'
    BY <1>1, <1>2, <1>3, <2>1, <2>2 DEF Continues, IsClear, Time
  <2> QED BY <1>4, <2>1, <2>2, <2>3 DEF IsClear
<1>6. CASE MadeText \/ MadeGap
  <2>1. PICK x : /\ IsText(x, inputStart, inputEdge) \/ IsGap(x, inputStart, inputEdge)
                 /\ toPush' = <<x>>
    BY <1>6 DEF MadeText, MadeGap
  <2>2. x.start = inputStart /\ x.end = inputEdge
    BY <2>1 DEF IsText, IsGap
  <2>3. Len(toPush') = 1 /\ DOMAIN toPush' = {1} /\ toPush'[1] = x /\ toPush' # <<>>
    BY <2>1, Indexes
  <2>4. ~flushing => Continues(edge, toPush[1])'
    BY <1>1, <1>2, <1>3, <2>2, <2>3 DEF Continues, Later, Time
  <2> QED BY <1>4, <2>2, <2>3, <2>4
<1>7. CASE MadeLateText
  <2>1. PICK x, y : IsClear(x, Limit) /\ IsText(y, inputStart, inputEdge) /\ toPush' = <<x, y>>
    BY <1>7 DEF MadeLateText
  <2>2. Owed /\ Limit <= inputStart
    BY <1>7 DEF MadeLateText
  <2>3. /\ Len(toPush') = 2 /\ DOMAIN toPush' = {1, 2} /\ toPush' # <<>>
        /\ toPush'[1] = x /\ toPush'[2] = y
    BY <2>1, Indexes
  <2>4. /\ x.start = Limit /\ x.end = Limit /\ y.start = inputStart /\ y.end = inputEdge
    BY <2>1 DEF IsText, IsClear
  <2>5. ~flushing => Continues(edge, toPush[1])'
    BY <1>1, <1>2, <1>3, <2>2, <2>3, <2>4 DEF Continues, Later, Time
  <2>6. Continues(toPush[1].end, toPush[2])'
    BY <1>1, <1>2, <2>2, <2>3, <2>4 DEF Continues, Later, Time
  <2>7. \A i \in DOMAIN toPush' : i # 1 => Continues(toPush[i - 1].end, toPush[i])'
    <3>1. 2 - 1 = 1
      OBVIOUS
    <3> QED BY <2>3, <2>6, <3>1 DEF Continues
  <2> QED BY <1>4, <2>3, <2>4, <2>5, <2>7
<1>8. CASE MadeSplit
  <2>1. Owed
    BY <1>8 DEF MadeSplit
  <2>2. CASE /\ inputStart < Limit /\ Limit < inputEdge
             /\ \E x, y, z : /\ IsGap(x, inputStart, Limit) /\ IsClear(y, Limit)
                             /\ IsGap(z, Limit, inputEdge) /\ toPush' = <<x, y, z>>
    <3>1. PICK x, y, z : /\ IsGap(x, inputStart, Limit) /\ IsClear(y, Limit)
                         /\ IsGap(z, Limit, inputEdge) /\ toPush' = <<x, y, z>>
      BY <2>2
    <3>2. /\ Len(toPush') = 3 /\ DOMAIN toPush' = {1, 2, 3} /\ toPush' # <<>>
          /\ toPush'[1] = x /\ toPush'[2] = y /\ toPush'[3] = z
      BY <3>1, Indexes
    <3>3. /\ x.start = inputStart /\ x.end = Limit /\ y.start = Limit /\ y.end = Limit
          /\ z.start = Limit /\ z.end = inputEdge
      BY <3>1 DEF IsGap, IsClear
    <3>4. ~flushing => Continues(edge, toPush[1])'
      BY <1>1, <1>2, <1>3, <2>1, <2>2, <3>2, <3>3 DEF Continues, Later, Time
    <3>5. Continues(toPush[1].end, toPush[2])' /\ Continues(toPush[2].end, toPush[3])'
      BY <1>1, <1>2, <2>1, <2>2, <3>2, <3>3 DEF Continues, Later, Time
    <3>6. \A i \in DOMAIN toPush' : i # 1 => Continues(toPush[i - 1].end, toPush[i])'
      <4>1. 2 - 1 = 1 /\ 3 - 1 = 2
        OBVIOUS
      <4> QED BY <3>2, <3>5, <4>1 DEF Continues
    <3> QED BY <1>4, <3>2, <3>3, <3>4, <3>6
  <2>3. CASE /\ inputStart < Limit /\ Limit = inputEdge
             /\ \E x, y : IsGap(x, inputStart, Limit) /\ IsClear(y, Limit) /\ toPush' = <<x, y>>
    <3>1. PICK x, y : IsGap(x, inputStart, Limit) /\ IsClear(y, Limit) /\ toPush' = <<x, y>>
      BY <2>3
    <3>2. /\ Len(toPush') = 2 /\ DOMAIN toPush' = {1, 2} /\ toPush' # <<>>
          /\ toPush'[1] = x /\ toPush'[2] = y
      BY <3>1, Indexes
    <3>3. x.start = inputStart /\ x.end = Limit /\ y.start = Limit /\ y.end = Limit
      BY <3>1 DEF IsGap, IsClear
    <3>4. ~flushing => Continues(edge, toPush[1])'
      BY <1>1, <1>2, <1>3, <2>1, <2>3, <3>2, <3>3 DEF Continues, Later, Time
    <3>5. Continues(toPush[1].end, toPush[2])'
      BY <1>1, <1>2, <2>1, <2>3, <3>2, <3>3 DEF Continues, Later, Time
    <3>6. \A i \in DOMAIN toPush' : i # 1 => Continues(toPush[i - 1].end, toPush[i])'
      <4>1. 2 - 1 = 1
        OBVIOUS
      <4> QED BY <3>2, <3>5, <4>1 DEF Continues
    <3> QED BY <1>4, <2>3, <3>2, <3>3, <3>4, <3>6
  <2>4. CASE /\ Limit <= inputStart
             /\ \E x, y : /\ IsClear(x, Limit) /\ IsGap(y, inputStart, inputEdge)
                          /\ toPush' = <<x, y>>
    <3>1. PICK x, y : IsClear(x, Limit) /\ IsGap(y, inputStart, inputEdge) /\ toPush' = <<x, y>>
      BY <2>4
    <3>2. /\ Len(toPush') = 2 /\ DOMAIN toPush' = {1, 2} /\ toPush' # <<>>
          /\ toPush'[1] = x /\ toPush'[2] = y
      BY <3>1, Indexes
    <3>3. x.start = Limit /\ x.end = Limit /\ y.start = inputStart /\ y.end = inputEdge
      BY <3>1 DEF IsGap, IsClear
    <3>4. ~flushing => Continues(edge, toPush[1])'
      BY <1>1, <1>2, <1>3, <2>1, <2>4, <3>2, <3>3 DEF Continues, Later, Time
    <3>5. Continues(toPush[1].end, toPush[2])'
      BY <1>1, <1>2, <2>1, <2>4, <3>2, <3>3 DEF Continues, Later, Time
    <3>6. \A i \in DOMAIN toPush' : i # 1 => Continues(toPush[i - 1].end, toPush[i])'
      <4>1. 2 - 1 = 1
        OBVIOUS
      <4> QED BY <3>2, <3>5, <4>1 DEF Continues
    <3> QED BY <1>4, <3>2, <3>3, <3>4, <3>6
  <2> QED BY <1>8, <2>2, <2>3, <2>4 DEF MadeSplit
<1> QED BY <1>1, <1>5, <1>6, <1>7, <1>8

LEMMA CoverageStep ==
    ASSUME "blank_span" \notin Features
    PROVE  TypeInv /\ OneAtATime /\ InputInv /\ CoverageInv /\ [Next]_vars => CoverageInv'
<1> SUFFICES ASSUME TypeInv, OneAtATime, InputInv, CoverageInv, [Next]_vars PROVE CoverageInv'
  OBVIOUS
<1>1. /\ edge \in Time /\ inputEdge \in Time /\ lastEnd \in Time /\ clearAfter \in Nat
  BY RollupAssumption DEF TypeInv, TimesOK, SettingsOK
<1>2. CASE Input
  <2>1. /\ handling = Idle /\ toPush = <<>> /\ toPush' = <<>> /\ handling' # Idle
        /\ UNCHANGED <<flushing, clearAfter, lastEnd, edge>>
    BY <1>2, ArrivalMade DEF Free
  <2>2. DOMAIN toPush' = {}
    BY <2>1
  <2>3. ASSUME edge' # NoTime, ~flushing', HandlingTimed'
        PROVE  /\ edge' <= inputStart'
               /\ lastEnd' # NoTime /\ clearAfter' > 0 => edge' <= lastEnd' + clearAfter'
    <3>1. inputStart' \in Nat /\ (inputEdge # NoTime => inputStart' >= inputEdge)
      BY <1>2, <2>3, ArrivalMade
    <3>2. edge = inputEdge
      BY <2>1, <2>3 DEF CoverageInv
    <3>3. lastEnd # NoTime /\ clearAfter > 0 => inputEdge <= lastEnd + clearAfter
      BY <2>1 DEF InputInv
    <3> QED BY <1>1, <2>1, <2>3, <3>1, <3>2, <3>3
  <2> QED BY <2>1, <2>2, <2>3 DEF CoverageInv
<1>3. CASE HandleBlank \/ HandleWords \/ HandleGap
  BY <1>3, CoverageHandled
<1>4. CASE HandleSegment \/ HandleReset
  <2>1. /\ handling' = Idle /\ Len(toPush') = 1 /\ DOMAIN toPush' = {1} /\ toPush'[1].kind \in Events
    BY <1>4, EventStep
  <2>2. toPush' # <<>>
    BY <2>1
  <2> QED BY <2>1, <2>2, NothingHandled DEF CoverageInv
<1>5. CASE PushNext
  <2> DEFINE item == toPush[1]
  <2>1. /\ Len(toPush) \in Nat \ {0} /\ DOMAIN toPush = 1 .. Len(toPush) /\ toPush # <<>>
        /\ handling' = Idle /\ UNCHANGED <<inputStart, inputEdge>>
        /\ \/ toPush' = <<>> /\ DOMAIN toPush' = {}
           \/ /\ toPush' # <<>> /\ Len(toPush) > 1 /\ Len(toPush') = Len(toPush) - 1
              /\ \A i \in 1 .. Len(toPush) - 1 : toPush'[i] = toPush[i + 1]
        /\ \A i \in DOMAIN toPush' :
              /\ toPush'[i] = toPush[i + 1] /\ i + 1 \in DOMAIN toPush /\ i \in Nat \ {0}
              /\ toPush'[i].kind \notin Events
        /\ item.kind \in Events => Len(toPush) = 1
    BY <1>5, PushStep DEF PushNext
  <2>2. ASSUME NEW i \in DOMAIN toPush'
        PROVE  Continues(toPush[i].end, toPush[i + 1])
    <3>1. /\ i + 1 \in DOMAIN toPush /\ toPush[i + 1].kind \notin Events
          /\ i \in Nat \ {0}
      BY <2>1, Zenon
    <3>2. i + 1 # 1 /\ (i + 1) - 1 = i
      BY <3>1
    <3> QED BY <3>1, <3>2 DEF CoverageInv
  <2>3. ASSUME NEW i \in DOMAIN toPush', i # 1 PROVE Continues(toPush[i - 1].end, toPush[i])'
    <3>1. toPush'[i] = toPush[i + 1] /\ i \in Nat \ {0} /\ toPush' # <<>>
      BY <2>1, Zenon
    <3>2. /\ DOMAIN toPush' = 1 .. Len(toPush) - 1
          /\ \A j \in 1 .. Len(toPush) - 1 : toPush'[j] = toPush[j + 1]
      BY <1>5, <3>1, PushStep, Zenon
    <3> DEFINE n == Len(toPush) - 1
    <3>3. n \in Int /\ i \in 1 .. n
      <4>1. Len(toPush) \in Nat
        BY <2>1
      <4> QED BY <3>2, <4>1
    <3> HIDE DEF n
    <3>4. i - 1 \in 1 .. n /\ (i - 1) + 1 = i
      BY <2>3, <3>1, <3>3
    <3>5. toPush'[i - 1] = toPush[i]
      BY <3>2, <3>4 DEF n
    <3> QED BY <2>1, <2>2, <3>1, <3>5 DEF Continues, Later
  <2>4. toPush' # <<>> => toPush'[Len(toPush')].end = inputEdge'
    <3> SUFFICES ASSUME toPush' # <<>> PROVE toPush'[Len(toPush')].end = inputEdge'
      OBVIOUS
    <3> DEFINE n == Len(toPush)
    <3>1. /\ n \in Nat /\ n > 1 /\ Len(toPush') = n - 1
          /\ \A i \in 1 .. n - 1 : toPush'[i] = toPush[i + 1]
      BY <2>1
    <3>2. item.kind \notin Events
      BY <2>1, <3>1
    <3>3. toPush[n].end = inputEdge
      BY <2>1, <3>2 DEF CoverageInv
    <3> HIDE DEF n
    <3>4. n - 1 \in 1 .. n - 1 /\ (n - 1) + 1 = n
      BY <3>1
    <3> QED BY <2>1, <3>1, <3>3, <3>4
  <2>5. ASSUME ~flushing'
        PROVE  /\ edge' # NoTime /\ toPush' = <<>> => edge' = inputEdge'
               /\ \A i \in DOMAIN toPush' : i = 1 => Continues(edge, toPush[i])'
    <3>1. /\ edge' = item.end \/ edge' = NoTime
          /\ item.kind \in Events => edge' = NoTime
          /\ toPush' = <<>> => Len(toPush) = 1
      BY <1>5, <2>5, PushStep, Zenon DEF Events
    <3>2. toPush' = <<>> /\ item.kind \notin Events => item.end = inputEdge
      BY <2>1, <3>1 DEF CoverageInv
    <3>3. ASSUME 1 \in DOMAIN toPush' PROVE Continues(edge, toPush[1])'
      <4>1. Continues(toPush[1].end, toPush[2]) /\ toPush'[1] = toPush[2]
        <5>1. 1 + 1 = 2
          OBVIOUS
        <5> QED BY <2>1, <2>2, <3>3, <5>1
      <4> QED BY <2>1, <3>1, <4>1 DEF Continues, Later
    <3> QED BY <2>1, <3>1, <3>2, <3>3
  <2>6. ~HandlingTimed'
    BY <2>1, NothingHandled
  <2> QED BY <2>1, <2>3, <2>4, <2>5, <2>6 DEF CoverageInv
<1>6. CASE Application \/ UNCHANGED vars
  <2>1. CASE /\ UNCHANGED <<handling, toPush, edge, inputStart, inputEdge, clearAfter>>
             /\ lastEnd' \in {lastEnd, NoTime} /\ (flushing' = TRUE \/ flushing' = flushing)
    <3>1. \A before, item : Continues(before, item) =>
             (before # NoTime =>
                /\ item.start >= before
                /\ item.start < item.end => item.start = Later(before, inputStart))
      BY DEF Continues
    <3>2. \A i \in DOMAIN toPush : toPush[i].kind \notin Events =>
             /\ i = 1 /\ ~flushing => Continues(edge, toPush[i])'
             /\ i # 1 => Continues(toPush[i - 1].end, toPush[i])'
      BY <2>1 DEF CoverageInv, Continues, Later
    <3> QED BY <2>1, <3>2 DEF CoverageInv, HandlingTimed, Handling
  <2>2. CASE handling' = Idle /\ toPush' = <<>> /\ edge' = NoTime
    <3>1. DOMAIN toPush' = {}
      BY <2>2
    <3> QED BY <2>2, <3>1 DEF CoverageInv
  <2> QED BY <1>6, <2>1, <2>2, ApplicationMade
<1> QED BY <1>2, <1>3, <1>4, <1>5, <1>6 DEF Next, Streaming

\* What a step may do to what an observer sees.
LEMMA OnlyPushShows ==
    ASSUME TypeInv, Next, out'.kind \in {"gap", "cue"}
    PROVE  PushNext
<1>1. CASE Input
  <2>1. out' = Nothing
    BY <1>1 DEF Input, TextArrives, GapArrives, EventArrives, Enter
  <2> QED BY <2>1 DEF Nothing, Event
<1>2. CASE HandleBlank \/ HandleWords \/ HandleGap \/ HandleSegment \/ HandleReset
  <2>1. out' = Nothing
    BY <1>2 DEF HandleBlank, HandleWords, HandleGap, HandleSegment, HandleReset, Handled
  <2> QED BY <2>1 DEF Nothing, Event
<1>3. CASE Application
  <2>1. out' = Nothing
    BY <1>3 DEF Application, SetProperty, ApplySettings, FlushStart, PausedToReady, DeactivatePads,
                ReadyToPaused, Quiet
  <2> QED BY <2>1 DEF Nothing, Event
<1> QED BY <1>1, <1>2, <1>3 DEF Next, Streaming

\* An item that leaves as coverage is the next one, and no flush refused it.
LEMMA PushedOut ==
    ASSUME TypeInv, OneAtATime, [Next]_vars, vars' # vars, out'.kind \in {"gap", "cue"}
    PROVE  LET item == toPush[1]
           IN  /\ PushNext /\ out' = item /\ item \in Item /\ item.kind \notin Events
               /\ 1 \in DOMAIN toPush /\ ~flushing /\ edge' = item.end
               /\ UNCHANGED inputEdge
               /\ toPush' = <<>> => Len(toPush) = 1
<1>1. PushNext
  BY OnlyPushShows
<1>2. Nothing.kind = "none"
  BY DEF Nothing, Event
<1>3. out' # Nothing
  BY <1>2
<1>4. /\ Len(toPush) \in Nat \ {0} /\ DOMAIN toPush = 1 .. Len(toPush)
  BY <1>1, PushStep
<1>5. 1 \in DOMAIN toPush
  BY <1>4
<1> QED BY <1>1, <1>3, <1>5, PushStep, Zenon DEF Events

\* The items of a handler clear what is on screen at the limit.
LEMMA ClearHandled ==
    ASSUME TypeInv, OneAtATime, InputInv, ClearInv, HandleBlank \/ HandleWords \/ HandleGap
    PROVE  ClearInv'
<1>1. /\ handling' = Idle /\ toPush = <<>>
      /\ UNCHANGED <<phase, flushing, clearAfter, shown, shownEnd, inputStart, inputEdge>>
      /\ inputStart \in Nat /\ inputEdge \in Nat /\ inputStart <= inputEdge
      /\ clearAfter \in Nat /\ lastEnd \in Time
      /\ \/ MadeClear \/ MadeText \/ MadeLateText \/ MadeGap \/ MadeSplit
  BY TimedMade
<1>2. ASSUME shown # <<>>, ~flushing
      PROVE  /\ shownEnd # NoTime /\ CountsFrom(shownEnd)
             /\ Owed => Limit = shownEnd + clearAfter
             /\ phase = "paused" /\ clearAfter > 0 => Owed
  <2>1. Silent(Len(toPush))
    <3>1. Len(toPush) = 0
      BY <1>1
    <3> QED BY <3>1 DEF Silent
  <2>2. shownEnd # NoTime /\ CountsFrom(shownEnd)
    BY <1>2, <2>1 DEF ClearInv
  <2> QED BY <1>1, <2>2 DEF CountsFrom, Owed, Limit
<1>3. shown' # <<>> => shownEnd' # NoTime
  BY <1>1 DEF ClearInv
<1>4. CASE MadeClear
  <2>1. PICK x : IsClear(x, inputStart) /\ toPush' = <<x>> /\ inputStart = inputEdge
    BY <1>4 DEF MadeClear
  <2>2. Len(toPush') = 1 /\ DOMAIN toPush' = {1} /\ toPush'[1] = x
    BY <2>1, Indexes
  <2>3. x.kind = "cue" /\ x.lines = <<>> /\ x.start = inputEdge
    BY <2>1 DEF IsClear
  <2>4. ~Silent(Len(toPush))'
    BY <2>2, <2>3 DEF Silent
  <2>5. NotEarly(toPush[1])' /\ NotLate(toPush[1])'
    BY <1>1, <2>1, <2>2, <2>3 DEF NotEarly, NotLate
  <2> QED BY <1>3, <2>2, <2>3, <2>4, <2>5 DEF ClearInv, NotEarly, NotLate
<1>5. CASE MadeText
  <2>1. PICK x : IsText(x, inputStart, inputEdge) /\ toPush' = <<x>>
    BY <1>5 DEF MadeText
  <2>2. Len(toPush') = 1 /\ DOMAIN toPush' = {1} /\ toPush'[1] = x
    BY <2>1, Indexes
  <2>3. x.kind = "cue" /\ x.lines # <<>> /\ x.start = inputStart /\ x.end = inputEdge
    BY <2>1 DEF IsText
  <2>4. ~Silent(Len(toPush))'
    BY <2>2, <2>3 DEF Silent
  <2>5. CountsFrom(toPush[1].end)'
    BY <1>5, <2>2, <2>3 DEF CountsFrom, MadeText
  <2>6. ~flushing' /\ shown' # <<>> => NotEarly(toPush[1])' /\ NotLate(toPush[1])'
    BY <1>1, <1>2, <1>5, <2>2, <2>3 DEF NotEarly, NotLate, MadeText
  <2> QED BY <1>3, <2>2, <2>3, <2>4, <2>5, <2>6 DEF ClearInv, NotEarly, NotLate, CountsFrom
<1>6. CASE MadeLateText
  <2>1. PICK x, y : IsClear(x, Limit) /\ IsText(y, inputStart, inputEdge) /\ toPush' = <<x, y>>
    BY <1>6 DEF MadeLateText
  <2>2. Len(toPush') = 2 /\ DOMAIN toPush' = {1, 2} /\ toPush'[1] = x /\ toPush'[2] = y
    BY <2>1, Indexes
  <2>3. /\ x.kind = "cue" /\ x.lines = <<>> /\ x.start = Limit
        /\ y.kind = "cue" /\ y.lines # <<>> /\ y.start = inputStart /\ y.end = inputEdge
    BY <2>1 DEF IsText, IsClear
  <2>4. ~Silent(Len(toPush))' /\ ~Silent(2 - 1)'
    BY <2>2, <2>3 DEF Silent
  <2>5. CountsFrom(toPush[2].end)'
    BY <1>6, <2>2, <2>3 DEF CountsFrom, MadeLateText
  <2>6. ~flushing' /\ shown' # <<>> => NotEarly(toPush[1])' /\ NotLate(toPush[1])'
    BY <1>1, <1>2, <1>6, <2>2, <2>3 DEF NotEarly, NotLate, MadeLateText, Owed
  <2> QED BY <1>3, <2>2, <2>3, <2>4, <2>5, <2>6 DEF ClearInv, NotEarly, NotLate, CountsFrom
<1>7. CASE MadeGap
  <2>1. PICK x : IsGap(x, inputStart, inputEdge) /\ toPush' = <<x>>
    BY <1>7 DEF MadeGap
  <2>2. Len(toPush') = 1 /\ DOMAIN toPush' = {1} /\ toPush'[1] = x
    BY <2>1, Indexes
  <2>3. x.kind = "gap" /\ x.lines = <<>> /\ x.end = inputEdge
    BY <2>1 DEF IsGap
  <2>4. ~flushing' /\ shown' # <<>> => CountsFrom(shownEnd)'
    BY <1>1, <1>2, <1>7 DEF CountsFrom, MadeGap
  <2>5. ~flushing' /\ shown' # <<>> => NotEarly(toPush[1])' /\ NotLate(toPush[1])'
    BY <1>1, <1>2, <1>7, <2>2, <2>3 DEF NotEarly, NotLate, MadeGap, Owed, Limit, Time
  <2> QED BY <1>3, <2>2, <2>3, <2>4, <2>5 DEF ClearInv, NotEarly, NotLate
<1>8. CASE MadeSplit
  <2>1. Owed
    BY <1>8 DEF MadeSplit
  <2>2. CASE \E x, y, z : /\ IsGap(x, inputStart, Limit) /\ IsClear(y, Limit)
                          /\ IsGap(z, Limit, inputEdge) /\ toPush' = <<x, y, z>>
    <3>1. PICK x, y, z : /\ IsGap(x, inputStart, Limit) /\ IsClear(y, Limit)
                         /\ IsGap(z, Limit, inputEdge) /\ toPush' = <<x, y, z>>
      BY <2>2
    <3>2. /\ Len(toPush') = 3 /\ DOMAIN toPush' = {1, 2, 3}
          /\ toPush'[1] = x /\ toPush'[2] = y /\ toPush'[3] = z
      BY <3>1, Indexes
    <3>3. /\ x.kind = "gap" /\ x.lines = <<>> /\ x.end = Limit
          /\ y.kind = "cue" /\ y.lines = <<>> /\ y.start = Limit
          /\ z.lines = <<>>
      BY <3>1 DEF IsGap, IsClear
    <3>4. ~Silent(Len(toPush))' /\ ~Silent(3 - 1)'
      BY <3>2, <3>3 DEF Silent
    <3>5. ~flushing' /\ shown' # <<>> =>
             /\ NotEarly(toPush[1])' /\ NotLate(toPush[1])'
             /\ NotEarly(toPush[2])' /\ NotLate(toPush[2])'
      BY <1>1, <1>2, <2>1, <3>2, <3>3 DEF NotEarly, NotLate, Owed, Limit, Time
    <3> QED BY <1>3, <3>2, <3>3, <3>4, <3>5 DEF ClearInv, NotEarly, NotLate
  <2>3. CASE \E x, y : IsGap(x, inputStart, Limit) /\ IsClear(y, Limit) /\ toPush' = <<x, y>>
    <3>1. PICK x, y : IsGap(x, inputStart, Limit) /\ IsClear(y, Limit) /\ toPush' = <<x, y>>
      BY <2>3
    <3>2. /\ Len(toPush') = 2 /\ DOMAIN toPush' = {1, 2} /\ toPush'[1] = x /\ toPush'[2] = y
      BY <3>1, Indexes
    <3>3. /\ x.kind = "gap" /\ x.lines = <<>> /\ x.end = Limit
          /\ y.kind = "cue" /\ y.lines = <<>> /\ y.start = Limit
      BY <3>1 DEF IsGap, IsClear
    <3>4. ~Silent(Len(toPush))'
      BY <3>2, <3>3 DEF Silent
    <3>5. ~flushing' /\ shown' # <<>> =>
             /\ NotEarly(toPush[1])' /\ NotLate(toPush[1])'
             /\ NotEarly(toPush[2])' /\ NotLate(toPush[2])'
      BY <1>1, <1>2, <2>1, <3>2, <3>3 DEF NotEarly, NotLate, Owed, Limit, Time
    <3> QED BY <1>3, <3>2, <3>3, <3>4, <3>5 DEF ClearInv, NotEarly, NotLate
  <2>4. CASE \E x, y : /\ IsClear(x, Limit) /\ IsGap(y, inputStart, inputEdge)
                       /\ toPush' = <<x, y>>
    <3>1. PICK x, y : IsClear(x, Limit) /\ IsGap(y, inputStart, inputEdge) /\ toPush' = <<x, y>>
      BY <2>4
    <3>2. /\ Len(toPush') = 2 /\ DOMAIN toPush' = {1, 2} /\ toPush'[1] = x /\ toPush'[2] = y
      BY <3>1, Indexes
    <3>3. /\ x.kind = "cue" /\ x.lines = <<>> /\ x.start = Limit
          /\ y.lines = <<>>
      BY <3>1 DEF IsGap, IsClear
    <3>4. ~Silent(Len(toPush))' /\ ~Silent(2 - 1)'
      BY <3>2, <3>3 DEF Silent
    <3>5. ~flushing' /\ shown' # <<>> => NotEarly(toPush[1])' /\ NotLate(toPush[1])'
      BY <1>1, <1>2, <2>1, <3>2, <3>3 DEF NotEarly, NotLate, Owed
    <3> QED BY <1>3, <3>2, <3>3, <3>4, <3>5 DEF ClearInv, NotEarly, NotLate
  <2> QED BY <1>8, <2>2, <2>3, <2>4 DEF MadeSplit
<1> QED BY <1>1, <1>4, <1>5, <1>6, <1>7, <1>8

\* What the next item leaves behind: the rest still clears in time.
LEMMA ClearPushed ==
    ASSUME TypeInv, OneAtATime, ClearInv, PushNext
    PROVE  ClearInv'
<1> DEFINE item == toPush[1]
           n == Len(toPush)
<1>1. /\ n \in Nat \ {0} /\ DOMAIN toPush = 1 .. n /\ item \in Item
      /\ UNCHANGED <<phase, clearAfter, lastEnd, inputStart, inputEdge>>
      /\ \/ toPush' = <<>> /\ DOMAIN toPush' = {} /\ Len(toPush') = 0
         \/ /\ toPush' # <<>> /\ n > 1 /\ Len(toPush') = n - 1
            /\ DOMAIN toPush' = 1 .. n - 1
            /\ \A i \in 1 .. n - 1 : toPush'[i] = toPush[i + 1]
  BY PushStep
<1>2. \/ flushing' = TRUE /\ UNCHANGED <<shown, shownEnd>>
      \/ /\ flushing' = FALSE /\ (toPush' = <<>> <=> n = 1)
         /\ \/ item.kind = "gap" /\ ~flushing /\ UNCHANGED <<shown, shownEnd>>
            \/ item.kind = "cue" /\ ~flushing /\ shown' = item.lines /\ shownEnd' = item.end
            \/ item.kind \in Events /\ n = 1 /\ shown' = <<>>
  BY PushStep
<1> HIDE DEF item, n
<1>3. 1 \in DOMAIN toPush /\ item.end \in Nat
  <2>1. 1 \in 1 .. n
    BY <1>1
  <2>2. item.end \in Nat
    BY <1>1 DEF Item
  <2> QED BY <1>1, <2>1, <2>2
<1>4. shown' # <<>> => shownEnd' # NoTime
  BY <1>2, <1>3 DEF ClearInv, NoTime
<1>5. CASE flushing' = TRUE
  BY <1>4, <1>5 DEF ClearInv
<1>6. CASE item.kind \in Events /\ n = 1 /\ shown' = <<>> /\ flushing' = FALSE /\ toPush' = <<>>
  <2>1. DOMAIN toPush' = {}
    BY <1>6
  <2> QED BY <1>6, <2>1 DEF ClearInv
<1>7. CASE ~flushing /\ item.kind \in {"gap", "cue"} /\ flushing' = FALSE
           /\ (toPush' = <<>> <=> n = 1)
  <2>1. ASSUME NEW i \in DOMAIN toPush'
        PROVE  toPush'[i] = toPush[i + 1] /\ i + 1 \in DOMAIN toPush /\ i \in 1 .. n - 1
               /\ Len(toPush') = n - 1
    BY <1>1
  <2>2. ASSUME NEW i \in DOMAIN toPush', toPush'[i].lines # <<>>
        PROVE  i = Len(toPush') /\ CountsFrom(toPush[i].end)'
    <3>1. i + 1 = Len(toPush) /\ CountsFrom(toPush[i + 1].end)
      BY <1>7, <2>1, <2>2 DEF ClearInv
    <3>2. i = Len(toPush')
      <4>1. i \in 1 .. n - 1 /\ Len(toPush') = n - 1 /\ i + 1 = n /\ n \in Nat
        BY <1>1, <2>1, <3>1 DEF n
      <4> QED BY <4>1
    <3>3. toPush'[i] = toPush[i + 1] /\ phase' = phase /\ lastEnd' = lastEnd
      BY <1>1, <2>1
    <3> QED BY <3>1, <3>2, <3>3 DEF CountsFrom
  <2>3. CASE item.kind = "gap"
    <3>1. UNCHANGED <<shown, shownEnd>>
      BY <1>2, <1>7, <2>3 DEF Events
    <3>2. ASSUME NEW m \in 0 .. n - 1, \A j \in 1 .. m : toPush'[j].kind = "gap",
                 toPush' # <<>> \/ m = 0
          PROVE  Silent(m + 1)
      <4> SUFFICES ASSUME NEW j \in 1 .. m + 1 PROVE toPush[j].kind = "gap"
        BY DEF Silent
      <4>1. CASE j = 1
        BY <2>3, <4>1 DEF item
      <4>2. CASE j # 1
        <5>1. j - 1 \in 1 .. m /\ m \in Nat /\ m # 0 /\ (j - 1) + 1 = j
          BY <1>1, <4>2
        <5>2. toPush'[j - 1].kind = "gap"
          BY <3>2, <5>1
        <5>3. j - 1 \in 1 .. n - 1
          BY <1>1, <5>1
        <5>4. toPush'[j - 1] = toPush[j]
          BY <1>1, <3>2, <5>1, <5>3
        <5> QED BY <5>2, <5>4
      <4> QED BY <4>1, <4>2
    <3>3. shown' # <<>> /\ Silent(Len(toPush))' => CountsFrom(shownEnd)'
      <4> SUFFICES ASSUME shown' # <<>>, Silent(Len(toPush))' PROVE CountsFrom(shownEnd)'
        OBVIOUS
      <4>1. CASE toPush' = <<>>
        <5>1. n = 1
          BY <1>7, <4>1
        <5>2. Silent(Len(toPush))
          BY <2>3, <5>1 DEF Silent, item, n
        <5>3. CountsFrom(shownEnd)
          BY <1>7, <3>1, <5>2 DEF ClearInv
        <5> QED BY <1>1, <3>1, <5>3 DEF CountsFrom
      <4>2. CASE toPush' # <<>>
        <5>1. Len(toPush') = n - 1 /\ n \in Nat /\ n > 1
          BY <1>1, <4>2
        <5>2. \A j \in 1 .. n - 1 : toPush'[j].kind = "gap"
          BY <5>1 DEF Silent
        <5>3. n - 1 \in 0 .. n - 1 /\ (n - 1) + 1 = n
          BY <5>1
        <5>4. Silent(n)
          BY <3>2, <4>2, <5>2, <5>3
        <5>5. CountsFrom(shownEnd)
          BY <1>7, <3>1, <5>4 DEF ClearInv, n
        <5> QED BY <1>1, <3>1, <5>5 DEF CountsFrom
      <4> QED BY <4>1, <4>2
    <3>4. ASSUME shown' # <<>>, NEW i \in DOMAIN toPush', Silent(i - 1)'
          PROVE  NotEarly(toPush[i])' /\ NotLate(toPush[i])'
      <4>1. /\ toPush'[i] = toPush[i + 1] /\ i + 1 \in DOMAIN toPush
            /\ i \in 1 .. n - 1 /\ i \in Nat /\ n \in Nat
        BY <1>1, <2>1
      <4>2. i - 1 \in 0 .. n - 1 /\ (i - 1) + 1 = i /\ (i + 1) - 1 = i
        BY <4>1
      <4>3. toPush' # <<>>
        OBVIOUS
      <4>4. Silent(i)
        BY <3>2, <3>4, <4>2, <4>3 DEF Silent
      <4>5. NotEarly(toPush[i + 1]) /\ NotLate(toPush[i + 1])
        BY <1>7, <3>1, <3>4, <4>1, <4>2, <4>4 DEF ClearInv
      <4> QED BY <1>1, <3>1, <4>1, <4>5 DEF NotEarly, NotLate
    <3> QED BY <1>4, <2>2, <3>3, <3>4 DEF ClearInv
  <2>4. CASE item.kind = "cue"
    <3>1. shown' = item.lines /\ shownEnd' = item.end
      BY <1>2, <1>7, <2>4 DEF Events
    <3>2. CASE item.lines = <<>>
      BY <1>4, <2>2, <3>1, <3>2 DEF ClearInv
    <3>3. CASE item.lines # <<>>
      <4>1. n = 1 /\ CountsFrom(item.end)
        BY <1>3, <1>7, <3>3 DEF ClearInv, item, n
      <4>2. DOMAIN toPush' = {}
        BY <1>7, <4>1
      <4>3. CountsFrom(shownEnd)'
        BY <1>1, <3>1, <4>1 DEF CountsFrom
      <4> QED BY <1>4, <4>2, <4>3 DEF ClearInv
    <3> QED BY <3>2, <3>3
  <2> QED BY <1>7, <2>3, <2>4
<1> QED BY <1>2, <1>5, <1>6, <1>7

LEMMA ClearStep ==
    ASSUME "blank_span" \notin Features
    PROVE  TypeInv /\ OneAtATime /\ InputInv /\ ClearInv /\ [Next]_vars => ClearInv'
<1> SUFFICES ASSUME TypeInv, OneAtATime, InputInv, ClearInv, [Next]_vars PROVE ClearInv'
  OBVIOUS
<1>1. CASE Input
  <2>1. /\ toPush = <<>> /\ toPush' = <<>>
        /\ UNCHANGED <<phase, flushing, lastEnd, shown, shownEnd>>
    BY <1>1, ArrivalMade DEF Free
  <2>2. DOMAIN toPush' = {}
    BY <2>1
  <2>3. Silent(Len(toPush))' => Silent(Len(toPush))
    BY <2>1 DEF Silent
  <2> QED BY <2>1, <2>2, <2>3 DEF ClearInv, CountsFrom
<1>2. CASE HandleBlank \/ HandleWords \/ HandleGap
  BY <1>2, ClearHandled
<1>3. CASE HandleSegment \/ HandleReset
  <2>1. /\ UNCHANGED <<flushing, shown, shownEnd>>
        /\ Len(toPush') = 1 /\ DOMAIN toPush' = {1}
        /\ toPush'[1].kind \in Events /\ toPush'[1].lines = <<>>
    BY <1>3, EventStep
  <2>2. toPush'[1].kind \notin {"gap", "cue"}
    BY <2>1 DEF Events
  <2>3. ~Silent(Len(toPush))'
    BY <2>1, <2>2 DEF Silent
  <2>4. NotEarly(toPush[1])' /\ NotLate(toPush[1])'
    BY <2>1, <2>2 DEF NotEarly, NotLate
  <2> QED BY <2>1, <2>3, <2>4 DEF ClearInv, NotEarly, NotLate
<1>4. CASE PushNext
  BY <1>4, ClearPushed
<1>5. CASE Application \/ UNCHANGED vars
  <2>1. CASE flushing' = TRUE /\ UNCHANGED <<shown, shownEnd>>
    BY <2>1 DEF ClearInv
  <2>2. CASE UNCHANGED <<phase, flushing, toPush, lastEnd, clearAfter, shown, shownEnd,
                         inputStart, inputEdge>>
    BY <2>2 DEF ClearInv, CountsFrom, Silent, NotEarly, NotLate
  <2>3. CASE /\ phase' = "stopping" /\ lastEnd' = NoTime
             /\ UNCHANGED <<flushing, toPush, clearAfter, shown, shownEnd, inputStart, inputEdge>>
    <3>1. \A end : CountsFrom(end)'
      BY <2>3 DEF CountsFrom
    <3>2. \A x : (NotEarly(x) => NotEarly(x)') /\ NotLate(x)'
      BY <2>3 DEF NotEarly, NotLate
    <3> QED BY <2>3, <3>1, <3>2 DEF ClearInv, Silent, CountsFrom, NotEarly, NotLate
  <2>4. CASE toPush' = <<>> /\ shown' = <<>>
    <3>1. DOMAIN toPush' = {}
      BY <2>4
    <3> QED BY <2>4, <3>1 DEF ClearInv
  <2> QED BY <1>5, <2>1, <2>2, <2>3, <2>4, ApplicationMade
<1> QED BY <1>1, <1>2, <1>3, <1>4, <1>5 DEF Next, Streaming

LEMMA FlowInit == Init => OneAtATime /\ InputInv /\ CoverageInv /\ ClearInv
<1> SUFFICES ASSUME Init PROVE OneAtATime /\ InputInv /\ CoverageInv /\ ClearInv
  OBVIOUS
<1>1. /\ handling = Idle /\ toPush = <<>> /\ phase = "paused" /\ due = "stream_start"
      /\ edge = NoTime /\ shown = <<>> /\ lastEnd = NoTime
  BY DEF Init
<1>2. DOMAIN toPush = {} /\ ~Handling("text") /\ ~Handling("gap")
  BY <1>1, IdleHandles
<1> QED BY <1>1, <1>2 DEF OneAtATime, InputInv, CoverageInv, ClearInv, HandlingTimed

\* For every set of words, geometry and clear-after, and any holes and flushes:
\* each GAP and cue pushed starts where the coverage before it or the hole in
\* the input ended, and the last item of an input reaches its end
\* (sink_chain, handle_gap, split_gap).
THEOREM CoverageKept ==
    ASSUME "blank_span" \notin Features
    PROVE  Spec => CoveragePreserved
<1>1. TypeInv /\ OneAtATime /\ CoverageInv /\ [Next]_vars =>
         [out'.kind \in {"gap", "cue"} /\ edge # NoTime =>
            /\ out'.start < out'.end => out'.start = Later(edge, inputStart)
            /\ out'.start >= edge
            /\ toPush' = <<>> => edge' = inputEdge]_vars
  <2> SUFFICES ASSUME TypeInv, OneAtATime, CoverageInv, [Next]_vars, vars' # vars,
                      out'.kind \in {"gap", "cue"}, edge # NoTime
               PROVE  /\ out'.start < out'.end => out'.start = Later(edge, inputStart)
                      /\ out'.start >= edge
                      /\ toPush' = <<>> => edge' = inputEdge
    OBVIOUS
  <2> DEFINE item == toPush[1]
  <2>1. /\ out' = item /\ item.kind \notin Events /\ 1 \in DOMAIN toPush /\ ~flushing
        /\ edge' = item.end /\ (toPush' = <<>> => Len(toPush) = 1)
    BY PushedOut
  <2>2. Continues(edge, item)
    BY <2>1 DEF CoverageInv
  <2>3. toPush # <<>> => toPush[Len(toPush)].end = inputEdge
    BY <2>1 DEF CoverageInv
  <2>4. toPush # <<>> /\ UNCHANGED inputEdge
    BY PushedOut DEF PushNext
  <2> QED BY <2>1, <2>2, <2>3, <2>4 DEF Continues
<1> QED BY <1>1, TypeInit, FlowInit, TypeStep, OneStep, InputStep, CoverageStep, PTL
        DEF Spec, CoveragePreserved

\* For every instance: while the element plays no GAP passes the instant
\* clear-after behind the text on screen, and no text starts behind it, before
\* the clear is pushed (clear_deadline, clear_before_word, split_gap).
THEOREM ClearsInTime ==
    ASSUME "blank_span" \notin Features
    PROVE  Spec => ClearedInTime
<1>1. TypeInv /\ OneAtATime /\ ClearInv /\ [Next]_vars =>
         [phase = "paused" /\ shown # <<>> /\ clearAfter > 0 /\ out'.kind \in {"gap", "cue"} =>
            /\ out'.kind = "gap" => out'.end <= shownEnd + clearAfter
            /\ out'.lines # <<>> => out'.start < shownEnd + clearAfter]_vars
  <2> SUFFICES ASSUME TypeInv, OneAtATime, ClearInv, [Next]_vars, vars' # vars,
                      phase = "paused", shown # <<>>, clearAfter > 0, out'.kind \in {"gap", "cue"}
               PROVE  /\ out'.kind = "gap" => out'.end <= shownEnd + clearAfter
                      /\ out'.lines # <<>> => out'.start < shownEnd + clearAfter
    OBVIOUS
  <2>1. out' = toPush[1] /\ 1 \in DOMAIN toPush /\ ~flushing
    BY PushedOut
  <2>2. Silent(1 - 1)
    BY DEF Silent
  <2>3. NotLate(toPush[1])
    BY <2>1, <2>2 DEF ClearInv
  <2> QED BY <2>1, <2>3 DEF NotLate
<1> QED BY <1>1, TypeInit, FlowInit, TypeStep, OneStep, InputStep, ClearStep, PTL
        DEF Spec, ClearedInTime

\* For every instance: the clear comes at that instant and no earlier, and never
\* with clear-after=0, unless an empty buffer asked for it.
THEOREM ClearsNoEarlier ==
    ASSUME "blank_span" \notin Features
    PROVE  Spec => ClearedNoEarlier
<1>1. TypeInv /\ OneAtATime /\ ClearInv /\ [Next]_vars =>
         [(out'.kind = "cue" /\ out'.lines = <<>> /\ shown # <<>>) =>
            \/ clearAfter > 0 /\ out'.start = shownEnd + clearAfter
            \/ inputStart = inputEdge /\ out'.start = inputEdge]_vars
  <2> SUFFICES ASSUME TypeInv, OneAtATime, ClearInv, [Next]_vars, vars' # vars,
                      out'.kind = "cue", out'.lines = <<>>, shown # <<>>
               PROVE  \/ clearAfter > 0 /\ out'.start = shownEnd + clearAfter
                      \/ inputStart = inputEdge /\ out'.start = inputEdge
    OBVIOUS
  <2>1. out' = toPush[1] /\ 1 \in DOMAIN toPush /\ ~flushing
    BY PushedOut
  <2>2. Silent(1 - 1)
    BY DEF Silent
  <2>3. NotEarly(toPush[1])
    BY <2>1, <2>2 DEF ClearInv
  <2> QED BY <2>1, <2>3 DEF NotEarly
<1> QED BY <1>1, TypeInit, FlowInit, TypeStep, OneStep, InputStep, ClearStep, PTL
        DEF Spec, ClearedNoEarlier
=============================================================================
