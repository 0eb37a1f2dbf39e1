------------------------- MODULE Transcriber_proofs -------------------------
(***************************************************************************)
(* What is proved of the transcriber element, its worker and the two       *)
(* channels between them, for every family, queue length and priming       *)
(* chunk, and whatever upstream and the application do.                    *)
(***************************************************************************)
EXTENDS Transcriber, OrderLemmas, SequenceTheorems

\* The steps of a handler, by what they carry.
Scope == {"caps", "chain", "finalize", "restart", "plan", "forward"}
PlainStep == [op : {"ensure_ready", "finalize", "drain", "segment", "eos", "flush_stop"}, scope : Scope]
RestartStep == [op : {"restart"}, scope : Scope, discard : BOOLEAN]
AwaitStep == [op : {"await"}, scope : Scope, marker : {"drained", "restarted"}, discard : BOOLEAN]
FeedStep == [op : {"feed"}, scope : Scope, len : Nat, from : Time]
BridgeStep == [op : {"bridge"}, scope : Scope, pts : Nat]
PlanStep == [op : {"plan_gap"}, scope : Scope, from : Nat, to : Nat]
GapStep == [op : {"input_gap"}, scope : Scope, from : Nat, to : Nat, frontier : Nat]
EnterStep == {s \in [op : {"enter"}, scope : Scope, pts : Nat, end : Nat] : s.pts <= s.end}
StepType == UNION {PlainStep, RestartStep, AwaitStep, FeedStep, BridgeStep, PlanStep, GapStep, EnterStep}

\* The worker's events.
MarkerEvent == [type : {"ready", "restarted", "drained", "error"}]
ProgressEvent == [type : {"progress"}, ms : Nat]
SpokenEvent == {ev \in [type : {"words"}, rows : Seq(Row), heard : Seq(Tick)] :
                  \A i \in DOMAIN ev.rows : ev.rows[i].t0 < Len(ev.heard)}
EventType == UNION {MarkerEvent, ProgressEvent, SpokenEvent}

WorkerType == [state : {"loading", "idle", "dead"}, family : Family, heard : Seq(Tick),
               decided : Nat, spoken : Nat, frontier : Nat]

\* What is pushed.
Piece == [kind : {"gap"}, start : Nat, end : Nat]
         \cup [kind : {"word"}, start : Nat, end : Nat, planned : Nat, real : Time, fedIn : Nat]

ElementOK ==
    /\ phase \in {"null", "ready", "paused", "stopping"}
    /\ sinkFlush \in BOOLEAN /\ srcFlush \in BOOLEAN
    /\ due \in {"caps", "segment", "data"}
StateOK ==
    /\ ready \in BOOLEAN /\ base \in Time /\ outPts \in Time /\ nextPts \in Time
    /\ committed \in Nat /\ dropped \in Nat
    /\ gate \in {"off", "armed", "open"} /\ gateSeen \in Nat
CommandsOK == cmdQ \in Seq(Commands) /\ Len(cmdQ) <= QueueLen
HeldOK(w) == w \in WorkerType /\ w.decided <= Len(w.heard) /\ w.spoken <= w.decided
ObservedOK == inputEnd \in Time /\ edge \in Time /\ gapEnd \in Time /\ stream \in Nat

\* Types, of the steps and the events too.
TypeInv ==
    /\ ElementOK /\ todo \in Seq(StepType) /\ StateOK
    /\ CommandsOK /\ evQ \in Seq(EventType)
    /\ cancel \in BOOLEAN /\ HeldOK(worker) /\ ObservedOK

-----------------------------------------------------------------------------
\* What an element of these sets carries.

LEMMA StepFields ==
    ASSUME NEW s \in StepType
    PROVE  /\ s.op \in {"ensure_ready", "finalize", "drain", "segment", "eos", "flush_stop", "restart",
                        "await", "feed", "bridge", "plan_gap", "input_gap", "enter"}
           /\ s.scope \in Scope
           /\ s.op = "restart" => s.discard \in BOOLEAN
           /\ s.op = "await" => s.marker \in {"drained", "restarted"} /\ s.discard \in BOOLEAN
           /\ s.op = "feed" => s.len \in Nat /\ s.from \in Time
           /\ s.op = "bridge" => s.pts \in Nat
           /\ s.op = "plan_gap" => s.from \in Nat /\ s.to \in Nat
           /\ s.op = "input_gap" => s.from \in Nat /\ s.to \in Nat /\ s.frontier \in Nat
           /\ s.op = "enter" => s.pts \in Nat /\ s.end \in Nat /\ s.pts <= s.end
<1>1. CASE s \in PlainStep
  BY <1>1 DEF PlainStep
<1>2. CASE s \in RestartStep
  BY <1>2 DEF RestartStep
<1>3. CASE s \in AwaitStep
  BY <1>3 DEF AwaitStep
<1>4. CASE s \in FeedStep
  BY <1>4 DEF FeedStep
<1>5. CASE s \in BridgeStep
  BY <1>5 DEF BridgeStep
<1>6. CASE s \in PlanStep
  BY <1>6 DEF PlanStep
<1>7. CASE s \in GapStep
  BY <1>7 DEF GapStep
<1>8. CASE s \in EnterStep
  BY <1>8 DEF EnterStep
<1> QED BY <1>1, <1>2, <1>3, <1>4, <1>5, <1>6, <1>7, <1>8 DEF StepType

LEMMA EventFields ==
    ASSUME NEW ev \in EventType
    PROVE  /\ ev.type \in {"ready", "restarted", "drained", "error", "progress", "words"}
           /\ ev.type = "progress" => ev.ms \in Nat
           /\ ev.type = "words" =>
                 /\ ev.rows \in Seq(Row) /\ ev.heard \in Seq(Tick)
                 /\ \A i \in DOMAIN ev.rows : ev.rows[i].t0 < Len(ev.heard)
           /\ IsResult(ev)
<1>1. CASE ev \in MarkerEvent
  BY <1>1 DEF MarkerEvent, IsResult
<1>2. CASE ev \in ProgressEvent
  BY <1>2 DEF ProgressEvent, IsResult
<1>3. CASE ev \in SpokenEvent
  <2>1. ev.rows \in Seq(Row) /\ \A i \in DOMAIN ev.rows : ev.rows[i] \in Row
    BY <1>3 DEF SpokenEvent
  <2> QED BY <1>3, <2>1 DEF SpokenEvent, IsResult
<1> QED BY <1>1, <1>2, <1>3 DEF EventType

LEMMA CommandFields ==
    ASSUME NEW c \in Commands
    PROVE  /\ c.type \in {"feed", "finalize", "restart"}
           /\ c.type = "feed" => c.len \in Nat /\ c.from \in Time /\ c.stream \in Nat
BY DEF Commands

-----------------------------------------------------------------------------
\* Words and GAPs.

LEMMA GreatestIndex ==
    ASSUME NEW n \in Nat, NEW S \in SUBSET (1 .. n), S # {}
    PROVE  \E i \in S : \A j \in S : j <= i
<1> DEFINE T == {n - i : i \in S}
<1>1. PICK t \in T : \A u \in T : t <= u
  <2>1. PICK i \in S : TRUE
    OBVIOUS
  <2>2. n - i \in T
    BY <2>1
  <2>3. T \in SUBSET Nat
    OBVIOUS
  <2> HIDE DEF T
  <2> QED BY <2>2, <2>3, LeastNat
<1>2. PICK i \in S : t = n - i
  BY <1>1
<1>3. ASSUME NEW j \in S PROVE j <= i
  <2>1. n - j \in T
    OBVIOUS
  <2>2. n - i <= n - j /\ i \in 1 .. n /\ j \in 1 .. n
    BY <1>1, <1>2, <2>1
  <2> QED BY <2>2
<1> QED BY <1>3

LEMMA PieceFields ==
    ASSUME NEW p \in Piece
    PROVE  p.kind \in {"gap", "word"} /\ p.end \in Nat /\ p.start \in Nat
BY DEF Piece

\* Publishing pushes what it is given, or nothing.
LEMMA PublishOK ==
    ASSUME NEW cover \in Seq(Piece), edge \in Time, gapEnd \in Time, Publish(cover)
    PROVE  /\ edge' \in Time /\ gapEnd' \in Time
           /\ out' = Nothing \/ out' = [event |-> "none", cover |-> cover]
<1>1. CASE srcFlush \/ cover = <<>>
  BY <1>1 DEF Publish
<1>2. CASE ~(srcFlush \/ cover = <<>>)
  <2> DEFINE gaps == {i \in DOMAIN cover : cover[i].kind = "gap"}
             last == CHOOSE i \in gaps : \A j \in gaps : j <= i
  <2>1. /\ out' = [event |-> "none", cover |-> cover]
        /\ edge' = cover[Len(cover)].end
        /\ gapEnd' = IF gaps = {} THEN gapEnd ELSE cover[last].end
    BY <1>2 DEF Publish
  <2>2. Len(cover) \in DOMAIN cover
    BY <1>2, EmptySeq
  <2>3. cover[Len(cover)] \in Piece
    BY <2>2, ElementOfSeq
  <2>4. ASSUME gaps # {} PROVE last \in DOMAIN cover
    <3>1. gaps \in SUBSET (1 .. Len(cover)) /\ Len(cover) \in Nat
      OBVIOUS
    <3>2. \E i \in gaps : \A j \in gaps : j <= i
      <4> HIDE DEF gaps
      <4> QED BY <2>4, <3>1, GreatestIndex
    <3>3. last \in gaps
      <4> HIDE DEF gaps
      <4> QED BY <3>2
    <3> QED BY <3>3
  <2>5. gaps # {} => cover[last].end \in Nat
    <3> HIDE DEF last
    <3> SUFFICES ASSUME gaps # {} PROVE cover[last].end \in Nat
      OBVIOUS
    <3>1. last \in DOMAIN cover
      BY <2>4
    <3>2. cover[last] \in Piece
      BY <3>1, ElementOfSeq
    <3> QED BY <3>2, PieceFields
  <2> HIDE DEF gaps, last
  <2> QED BY <2>1, <2>3, <2>5, PieceFields DEF Time
<1> QED BY <1>1, <1>2

LEMMA GapCoverOK ==
    ASSUME NEW from \in Nat, NEW to \in Nat
    PROVE  /\ GapCover(from, to) \in Seq(Piece)
           /\ \A i \in DOMAIN GapCover(from, to) : GapCover(from, to)[i].kind = "gap"
<1>1. Gap(from, to) \in Piece /\ Gap(from, to).kind = "gap"
  BY DEF Gap, Piece
<1> DEFINE g == Gap(from, to)
<1> HIDE DEF g
<1>2. <<g>> \in Seq(Piece) /\ \A i \in DOMAIN <<g>> : <<g>>[i].kind = "gap"
  BY <1>1 DEF g
<1>3. GapCover(from, to) = IF to > from THEN <<g>> ELSE <<>>
  BY DEF GapCover, g
<1> QED BY <1>2, <1>3

\* plan_timed_text, row by row: each buffer ends at or behind its start.
Slot == [from : Nat, pts : Nat, end : Nat]
SlotEnd(anchor, rows, i, last) ==
    LET pts == Later(anchor + rows[i].t0, last)
    IN  FloorEnd(pts, Later(anchor + rows[i].t1, pts),
                 IF i < Len(rows) THEN anchor + rows[i + 1].t0 ELSE NoTime)
Ends(f, anchor, first, rows, n) ==
    f = [i \in 0 .. n |-> IF i = 0 THEN first ELSE SlotEnd(anchor, rows, i, f[i - 1])]

LEMMA EndsDefined ==
    ASSUME NEW anchor, NEW first, NEW rows, NEW n \in Nat
    PROVE  \E f : Ends(f, anchor, first, rows, n)
<1> DEFINE T == {m \in Nat : \E f : Ends(f, anchor, first, rows, m)}
<1>1. 0 \in T
  <2> DEFINE f == [i \in 0 .. 0 |-> IF i = 0 THEN first ELSE 0]
  <2>1. \A i \in 0 .. 0 : f[i] = IF i = 0 THEN first ELSE SlotEnd(anchor, rows, i, f[i - 1])
    OBVIOUS
  <2>2. Ends(f, anchor, first, rows, 0)
    BY <2>1 DEF Ends
  <2> HIDE DEF f
  <2> QED BY <2>2
<1>2. ASSUME NEW m \in T PROVE m + 1 \in T
  <2>1. PICK f : Ends(f, anchor, first, rows, m)
    OBVIOUS
  <2> DEFINE g == [i \in 0 .. m + 1 |-> IF i <= m THEN f[i] ELSE SlotEnd(anchor, rows, m + 1, f[m])]
  <2>2. ASSUME NEW i \in 0 .. m + 1
        PROVE  g[i] = IF i = 0 THEN first ELSE SlotEnd(anchor, rows, i, g[i - 1])
    <3>1. CASE i = m + 1
      BY <3>1
    <3>2. CASE i # m + 1
      <4>1. i \in 0 .. m /\ (i # 0 => i - 1 \in 0 .. m)
        BY <3>2
      <4>2. f[i] = IF i = 0 THEN first ELSE SlotEnd(anchor, rows, i, f[i - 1])
        BY <2>1, <4>1 DEF Ends
      <4> QED BY <4>1, <4>2
    <3> QED BY <3>1, <3>2
  <2>3. Ends(g, anchor, first, rows, m + 1)
    BY <2>2 DEF Ends
  <2> HIDE DEF g
  <2>4. m + 1 \in Nat
    OBVIOUS
  <2> QED BY <2>3, <2>4
<1>3. T = Nat
  BY <1>1, <1>2, NatInductionSet
<1> QED BY <1>3

LEMMA SlotEndNat ==
    ASSUME NEW anchor \in Nat, NEW rows \in Seq(Row), NEW i \in 1 .. Len(rows), NEW last \in Nat
    PROVE  SlotEnd(anchor, rows, i, last) \in Nat /\ Later(anchor + rows[i].t0, last) \in Nat
<1>1. rows[i] \in Row
  BY ElementOfSeq
<1>2. i < Len(rows) => rows[i + 1] \in Row
  <2>1. i < Len(rows) => i + 1 \in 1 .. Len(rows)
    OBVIOUS
  <2> QED BY <2>1, ElementOfSeq
<1> DEFINE t0 == rows[i].t0
           t1 == rows[i].t1
           next == IF i < Len(rows) THEN anchor + rows[i + 1].t0 ELSE NoTime
<1>3. t0 \in Nat /\ t1 \in Nat /\ next \in Int
  BY <1>1, <1>2 DEF Row, NoTime
<1>4. SlotEnd(anchor, rows, i, last) =
          LET pts == Later(anchor + t0, last) IN FloorEnd(pts, Later(anchor + t1, pts), next)
  BY DEF SlotEnd
<1> HIDE DEF t0, t1, next
<1> DEFINE pts == Later(anchor + t0, last)
<1>5. pts \in Nat /\ Later(anchor + t1, pts) \in Nat
  BY <1>3 DEF Later
<1>6. SlotEnd(anchor, rows, i, last) = FloorEnd(pts, Later(anchor + t1, pts), next)
  BY <1>4
<1> HIDE DEF pts
<1> DEFINE stop == Later(anchor + t1, pts)
<1> HIDE DEF stop
<1>7. FloorEnd(pts, stop, next) \in Nat
  BY <1>3, <1>5, TimedTextAssumption DEF FloorEnd, Earlier, stop
<1> QED BY <1>5, <1>6, <1>7 DEF pts, stop, t0

LEMMA PlanTyped ==
    ASSUME NEW anchor \in Nat, NEW first \in Nat, NEW rows \in Seq(Row),
           NEW slots, slots = PlanTimedText(anchor, first, rows)
    PROVE  slots \in Seq(Slot) /\ Len(slots) = Len(rows)
<1> DEFINE next(i) == IF i < Len(rows) THEN anchor + rows[i + 1].t0 ELSE NoTime
           end[i \in 0 .. Len(rows)] ==
               IF i = 0 THEN first
               ELSE LET pts == Later(anchor + rows[i].t0, end[i - 1])
                    IN  FloorEnd(pts, Later(anchor + rows[i].t1, pts), next(i))
<1>1. slots = [i \in DOMAIN rows |->
                 [from |-> end[i - 1], pts |-> Later(anchor + rows[i].t0, end[i - 1]), end |-> end[i]]]
  BY DEF PlanTimedText
<1>2. Ends(end, anchor, first, rows, Len(rows))
  <2>1. \E f : Ends(f, anchor, first, rows, Len(rows))
    <3>1. Len(rows) \in Nat
      OBVIOUS
    <3> QED BY <3>1, EndsDefined
  <2>2. end = CHOOSE f : Ends(f, anchor, first, rows, Len(rows))
    BY DEF end, Ends, SlotEnd
  <2> HIDE DEF end
  <2> QED BY <2>1, <2>2
<1> HIDE DEF end
<1>3. end = [i \in 0 .. Len(rows) |-> IF i = 0 THEN first ELSE SlotEnd(anchor, rows, i, end[i - 1])]
  BY <1>2 DEF Ends
<1> DEFINE T == {m \in Nat : m <= Len(rows) => end[m] \in Nat}
<1>4. 0 \in T
  BY <1>3
<1>5. ASSUME NEW m \in T PROVE m + 1 \in T
  <2> SUFFICES ASSUME m + 1 <= Len(rows) PROVE end[m + 1] \in Nat
    OBVIOUS
  <2>1. m + 1 \in 1 .. Len(rows) /\ end[m] \in Nat
    OBVIOUS
  <2>2. end[m + 1] = SlotEnd(anchor, rows, m + 1, end[m])
    BY <1>3, <2>1
  <2> QED BY <2>1, <2>2, SlotEndNat
<1>6. T = Nat
  <2>1. T \in SUBSET Nat
    OBVIOUS
  <2> HIDE DEF T
  <2> QED BY <2>1, <1>4, <1>5, NatInductionSet
<1>7. ASSUME NEW i \in 1 .. Len(rows)
      PROVE  end[i - 1] \in Nat /\ end[i] \in Nat /\ Later(anchor + rows[i].t0, end[i - 1]) \in Nat
  <2>1. i - 1 \in Nat /\ i \in Nat /\ i - 1 <= Len(rows) /\ i <= Len(rows)
    OBVIOUS
  <2>2. end[i - 1] \in Nat /\ end[i] \in Nat
    BY <1>6, <2>1
  <2> QED BY <2>2, SlotEndNat
<1>8. \A i \in 1 .. Len(rows) :
         [from |-> end[i - 1], pts |-> Later(anchor + rows[i].t0, end[i - 1]), end |-> end[i]] \in Slot
  BY <1>7 DEF Slot
<1>9. Len(rows) \in Nat /\ DOMAIN rows = 1 .. Len(rows)
  OBVIOUS
<1> DEFINE n == Len(rows)
           slot(i) == [from |-> end[i - 1], pts |-> Later(anchor + rows[i].t0, end[i - 1]), end |-> end[i]]
<1>10. slots = [i \in 1 .. n |-> slot(i)] /\ n \in Nat /\ \A i \in 1 .. n : slot(i) \in Slot
  BY <1>1, <1>8, <1>9
<1> HIDE DEF slot, n
<1>11. slots \in Seq(Slot) /\ Len(slots) = n
  BY <1>10
<1> QED BY <1>11 DEF n

\* A cover made of words of one event: each shows a row of it, at the tick of the
\* audio that was heard for it.
ShowsTick(w, t0, tick) == w.planned = base + t0 /\ w.real = tick.at /\ w.fedIn = tick.stream
ShowsRow(w, ev, r) == ShowsTick(w, ev.rows[r].t0, ev.heard[ev.rows[r].t0 + 1])
ShowsAudioOf(cover, ev) ==
    \A i \in DOMAIN cover : cover[i].kind = "word" => \E r \in DOMAIN ev.rows : ShowsRow(cover[i], ev, r)
AddWord(cover, slots, ev, i) ==
    cover \o GapCover(slots[i].from, slots[i].pts)
          \o <<Word(slots[i], base + ev.rows[i].t0, ev.heard[ev.rows[i].t0 + 1])>>
Covers(f, slots, ev, n) ==
    f = [i \in 0 .. n |-> IF i = 0 THEN <<>> ELSE AddWord(f[i - 1], slots, ev, i)]

LEMMA CoversDefined ==
    ASSUME NEW slots, NEW ev, NEW n \in Nat
    PROVE  \E f : Covers(f, slots, ev, n)
<1> DEFINE T == {m \in Nat : \E f : Covers(f, slots, ev, m)}
<1>1. 0 \in T
  <2> DEFINE f == [i \in 0 .. 0 |-> IF i = 0 THEN <<>> ELSE 0]
  <2>1. \A i \in 0 .. 0 : f[i] = IF i = 0 THEN <<>> ELSE AddWord(f[i - 1], slots, ev, i)
    OBVIOUS
  <2>2. Covers(f, slots, ev, 0)
    BY <2>1 DEF Covers
  <2> HIDE DEF f
  <2> QED BY <2>2
<1>2. ASSUME NEW m \in T PROVE m + 1 \in T
  <2>1. PICK f : Covers(f, slots, ev, m)
    OBVIOUS
  <2> DEFINE g == [i \in 0 .. m + 1 |-> IF i <= m THEN f[i] ELSE AddWord(f[m], slots, ev, m + 1)]
  <2>2. ASSUME NEW i \in 0 .. m + 1
        PROVE  g[i] = IF i = 0 THEN <<>> ELSE AddWord(g[i - 1], slots, ev, i)
    <3>1. CASE i = m + 1
      BY <3>1
    <3>2. CASE i # m + 1
      <4>1. i \in 0 .. m /\ (i # 0 => i - 1 \in 0 .. m)
        BY <3>2
      <4>2. f[i] = IF i = 0 THEN <<>> ELSE AddWord(f[i - 1], slots, ev, i)
        BY <2>1, <4>1 DEF Covers
      <4> QED BY <4>1, <4>2
    <3> QED BY <3>1, <3>2
  <2>3. Covers(g, slots, ev, m + 1)
    BY <2>2 DEF Covers
  <2> HIDE DEF g
  <2>4. m + 1 \in Nat
    OBVIOUS
  <2> QED BY <2>3, <2>4
<1>3. T = Nat
  <2>1. T \in SUBSET Nat
    OBVIOUS
  <2> HIDE DEF T
  <2> QED BY <2>1, <1>1, <1>2, NatInductionSet
<1> QED BY <1>3

LEMMA AddWordOK ==
    ASSUME base \in Nat, NEW ev \in SpokenEvent, NEW slots \in Seq(Slot), Len(slots) = Len(ev.rows),
           NEW i \in 1 .. Len(slots), NEW cover \in Seq(Piece), ShowsAudioOf(cover, ev)
    PROVE  AddWord(cover, slots, ev, i) \in Seq(Piece) /\ ShowsAudioOf(AddWord(cover, slots, ev, i), ev)
<1>1. /\ ev.rows \in Seq(Row) /\ ev.heard \in Seq(Tick) /\ i \in DOMAIN ev.rows
      /\ \A r \in DOMAIN ev.rows : ev.rows[r].t0 < Len(ev.heard)
  BY DEF SpokenEvent
<1>2. ev.rows[i] \in Row /\ slots[i] \in Slot
  BY <1>1, ElementOfSeq
<1>3. ev.rows[i].t0 \in Nat /\ ev.rows[i].t0 < Len(ev.heard)
  BY <1>1, <1>2 DEF Row
<1>4. ev.heard[ev.rows[i].t0 + 1] \in Tick
  <2>1. ev.rows[i].t0 + 1 \in 1 .. Len(ev.heard)
    BY <1>1, <1>3
  <2> QED BY <1>1, <2>1, ElementOfSeq
<1> DEFINE audio == ev.heard[ev.rows[i].t0 + 1]
           w == Word(slots[i], base + ev.rows[i].t0, audio)
           gap == GapCover(slots[i].from, slots[i].pts)
<1>5. w \in Piece /\ w.kind = "word" /\ ShowsTick(w, ev.rows[i].t0, audio)
  <2> HIDE DEF audio
  <2>1. audio \in Tick /\ base + ev.rows[i].t0 \in Nat
    BY <1>3, <1>4 DEF audio
  <2>2. w \in Piece /\ w.kind = "word"
    BY <2>1, <1>2 DEF Word, Piece, Slot, Tick
  <2>3. w.planned = base + ev.rows[i].t0 /\ w.real = audio.at /\ w.fedIn = audio.stream
    BY DEF Word
  <2> QED BY <2>2, <2>3 DEF ShowsTick
<1>6. gap \in Seq(Piece) /\ \A j \in DOMAIN gap : gap[j].kind = "gap"
  <2>1. slots[i].from \in Nat /\ slots[i].pts \in Nat
    BY <1>2 DEF Slot
  <2> QED BY <2>1, GapCoverOK
<1>7. AddWord(cover, slots, ev, i) = (cover \o gap) \o <<w>>
  BY DEF AddWord
<1>8. ShowsRow(w, ev, i)
  BY <1>5 DEF ShowsRow
<1> HIDE DEF w, gap, audio
<1> DEFINE front == cover \o gap
<1>9. /\ front \in Seq(Piece) /\ Len(front) = Len(cover) + Len(gap)
      /\ \A j \in 1 .. Len(cover) + Len(gap) :
            front[j] = IF j <= Len(cover) THEN cover[j] ELSE gap[j - Len(cover)]
  BY <1>6, ConcatProperties
<1> HIDE DEF front
<1>10. <<w>> \in Seq(Piece) /\ Len(<<w>>) = 1 /\ <<w>>[1] = w
  BY <1>5
<1> DEFINE all == front \o <<w>>
<1>11. /\ all \in Seq(Piece) /\ Len(all) = Len(front) + 1
       /\ \A j \in 1 .. Len(front) + 1 : all[j] = IF j <= Len(front) THEN front[j] ELSE <<w>>[j - Len(front)]
  BY <1>9, <1>10, ConcatProperties
<1> HIDE DEF all
<1>12. ASSUME NEW j \in DOMAIN all, all[j].kind = "word"
       PROVE  \E r \in DOMAIN ev.rows : ShowsRow(all[j], ev, r)
  <2>1. /\ j \in 1 .. Len(front) + 1 /\ Len(front) = Len(cover) + Len(gap)
        /\ Len(cover) \in Nat /\ Len(gap) \in Nat
    BY <1>6, <1>9, <1>11
  <2>2. CASE j <= Len(cover)
    <3>1. all[j] = cover[j] /\ j \in DOMAIN cover
      BY <1>9, <1>11, <2>1, <2>2
    <3> QED BY <3>1, <1>12 DEF ShowsAudioOf
  <2>3. CASE j > Len(cover) /\ j <= Len(front)
    <3>1. all[j] = gap[j - Len(cover)] /\ j - Len(cover) \in DOMAIN gap
      BY <1>6, <1>9, <1>11, <2>1, <2>3
    <3> QED BY <3>1, <1>6, <1>12
  <2>4. CASE j = Len(front) + 1
    <3>1. all[j] = w
      BY <1>10, <1>11, <2>1, <2>4
    <3> QED BY <3>1, <1>1, <1>8
  <2> QED BY <2>1, <2>2, <2>3, <2>4
<1>13. all \in Seq(Piece) /\ ShowsAudioOf(all, ev)
  BY <1>11, <1>12 DEF ShowsAudioOf
<1> QED BY <1>7, <1>13 DEF all, front

LEMMA WordsCoverOK ==
    ASSUME base \in Nat, NEW ev \in SpokenEvent, NEW slots \in Seq(Slot), Len(slots) = Len(ev.rows),
           NEW cover, cover = WordsCover(slots, ev)
    PROVE  cover \in Seq(Piece) /\ ShowsAudioOf(cover, ev)
<1> DEFINE done[i \in 0 .. Len(slots)] ==
               IF i = 0 THEN <<>>
               ELSE done[i - 1] \o GapCover(slots[i].from, slots[i].pts)
                    \o <<Word(slots[i], base + ev.rows[i].t0, ev.heard[ev.rows[i].t0 + 1])>>
<1>1. cover = done[Len(slots)]
  BY DEF WordsCover
<1>2. Covers(done, slots, ev, Len(slots))
  <2>1. \E f : Covers(f, slots, ev, Len(slots))
    <3>1. Len(slots) \in Nat
      OBVIOUS
    <3> QED BY <3>1, CoversDefined
  <2>2. done = CHOOSE f : Covers(f, slots, ev, Len(slots))
    BY DEF done, Covers, AddWord
  <2> HIDE DEF done
  <2> QED BY <2>1, <2>2
<1> HIDE DEF done
<1>3. done = [i \in 0 .. Len(slots) |-> IF i = 0 THEN <<>> ELSE AddWord(done[i - 1], slots, ev, i)]
  BY <1>2 DEF Covers
<1> DEFINE T == {m \in Nat : m <= Len(slots) => done[m] \in Seq(Piece) /\ ShowsAudioOf(done[m], ev)}
<1>4. 0 \in T
  <2>1. done[0] = <<>>
    BY <1>3
  <2>2. done[0] \in Seq(Piece) /\ DOMAIN done[0] = {}
    BY <2>1
  <2> QED BY <2>2 DEF ShowsAudioOf
<1>5. ASSUME NEW m \in T PROVE m + 1 \in T
  <2> SUFFICES ASSUME m + 1 <= Len(slots)
               PROVE  done[m + 1] \in Seq(Piece) /\ ShowsAudioOf(done[m + 1], ev)
    OBVIOUS
  <2>1. m + 1 \in 1 .. Len(slots) /\ done[m] \in Seq(Piece) /\ ShowsAudioOf(done[m], ev)
    OBVIOUS
  <2>2. done[m + 1] = AddWord(done[m], slots, ev, m + 1)
    BY <1>3, <2>1
  <2> QED BY <2>1, <2>2, AddWordOK
<1>6. T = Nat
  <2>1. T \in SUBSET Nat
    OBVIOUS
  <2> HIDE DEF T
  <2> QED BY <2>1, <1>4, <1>5, NatInductionSet
<1>7. Len(slots) \in Nat
  OBVIOUS
<1> QED BY <1>1, <1>6, <1>7

-----------------------------------------------------------------------------
\* What is left of a handler, and what a send adds to a channel.

Dropped(n) ==
    /\ n \in 1 .. Len(todo)
    /\ todo' \in Seq(StepType) /\ Len(todo') = Len(todo) - n
    /\ \A i \in 1 .. Len(todo') : todo'[i] = todo[n + i]

LEMMA HeadOfTodo ==
    ASSUME todo \in Seq(StepType), todo # <<>>
    PROVE  /\ Head(todo) = todo[1] /\ Head(todo) \in StepType
           /\ Len(todo) \in Nat \ {0} /\ 1 \in DOMAIN todo
           /\ todo' = Tail(todo) => Dropped(1)
<1>1. Head(todo) \in StepType /\ Tail(todo) \in Seq(StepType)
  BY HeadTailProperties
<1>2. Len(todo) \in Nat \ {0} /\ 1 \in DOMAIN todo /\ Head(todo) = todo[1]
  BY EmptySeq
<1>3. ASSUME todo' = Tail(todo) PROVE Dropped(1)
  <2>1. Len(todo') = Len(todo) - 1 /\ \A i \in 1 .. Len(todo) - 1 : todo'[i] = todo[1 + i]
    BY <1>2, <1>3
  <2> QED BY <1>1, <1>2, <1>3, <2>1 DEF Dropped
<1> QED BY <1>1, <1>2, <1>3

LEMMA AbandonDrops ==
    ASSUME todo \in Seq(StepType), Abandon
    PROVE  \E n \in 1 .. Len(todo) : Dropped(n)
<1>1. PICK n \in DOMAIN todo : todo' = SubSeq(todo, n + 1, Len(todo))
  BY DEF Abandon
<1>2. n \in 1 .. Len(todo) /\ Len(todo) \in Nat
  OBVIOUS
<1>3. todo' \in Seq(StepType) /\ Len(todo') = Len(todo) - n
  <2>1. n + 1 \in 1 .. Len(todo) + 1 /\ Len(todo) \in n .. Len(todo)
    BY <1>2
  <2>2. \A i \in n + 1 .. Len(todo) : todo[i] \in StepType
    BY <1>2, ElementOfSeq
  <2> QED BY <1>1, <1>2, <2>1, <2>2, SubSeqProperties
<1>4. \A i \in 1 .. Len(todo') : todo'[i] = todo[n + i]
  BY <1>1, <1>2, <1>3
<1> QED BY <1>2, <1>3, <1>4 DEF Dropped

LEMMA SendTypes ==
    ASSUME todo \in Seq(StepType), todo # <<>>, CommandsOK, evQ \in Seq(EventType),
           NEW cmd \in Commands, NEW then \in Seq(StepType), SendOrFail(cmd, then)
    PROVE  todo' \in Seq(StepType) /\ CommandsOK' /\ evQ' \in Seq(EventType)
<1>1. CASE worker.state = "dead"
  <2>1. Abandon /\ evQ' = <<>> /\ cmdQ' = cmdQ
    BY <1>1 DEF SendOrFail
  <2>2. todo' \in Seq(StepType)
    BY <2>1, AbandonDrops DEF Dropped
  <2>3. evQ' \in Seq(EventType)
    BY <2>1, EmptySeq
  <2> QED BY <2>1, <2>2, <2>3 DEF CommandsOK
<1>2. CASE worker.state # "dead"
  <2>1. /\ Len(cmdQ) < QueueLen /\ evQ' = evQ /\ cmdQ' = Append(cmdQ, cmd)
        /\ todo' = then \o Tail(todo)
    BY <1>2 DEF SendOrFail
  <2>2. todo' \in Seq(StepType)
    BY <2>1, HeadTailProperties, ConcatProperties
  <2>3. cmdQ' \in Seq(Commands) /\ Len(cmdQ') = Len(cmdQ) + 1 /\ Len(cmdQ) \in Nat
    BY <2>1, AppendProperties DEF CommandsOK
  <2>4. QueueLen \in Nat
    BY TranscriberAssumption
  <2> QED BY <2>1, <2>2, <2>3, <2>4 DEF CommandsOK
<1> QED BY <1>1, <1>2

-----------------------------------------------------------------------------
\* Every action keeps the types: handlers start.

LEMMA StepsMade ==
    /\ \A op \in {"ensure_ready", "finalize", "drain", "segment", "eos", "flush_stop"}, scope \in Scope :
          Step(op, scope) \in StepType
    /\ \A scope \in Scope, discard \in BOOLEAN : Restart(scope, discard) \in StepType
    /\ \A scope \in Scope : Finalize(scope) \in StepType
    /\ \A marker \in {"drained", "restarted"}, scope \in Scope, discard \in BOOLEAN :
          Await(marker, scope, discard) \in StepType
    /\ \A len \in Nat, from \in Time : Feed(len, from) \in StepType
<1>1. \A op \in {"ensure_ready", "finalize", "drain", "segment", "eos", "flush_stop"}, scope \in Scope :
         Step(op, scope) \in PlainStep
  BY DEF Step, PlainStep
<1>2. \A scope \in Scope, discard \in BOOLEAN : Restart(scope, discard) \in RestartStep
  BY DEF Restart, RestartStep
<1>3. \A scope \in Scope : Finalize(scope) \in PlainStep
  BY DEF Finalize, Step, PlainStep
<1>4. \A marker \in {"drained", "restarted"}, scope \in Scope, discard \in BOOLEAN :
         Await(marker, scope, discard) \in AwaitStep
  BY DEF Await, AwaitStep
<1>5. \A len \in Nat, from \in Time : Feed(len, from) \in FeedStep
  BY DEF Feed, FeedStep, Scope
<1> QED BY <1>1, <1>2, <1>3, <1>4, <1>5 DEF StepType

LEMMA InputSteps ==
    /\ \A pts \in Nat : [op |-> "bridge", scope |-> "chain", pts |-> pts] \in StepType
    /\ \A from, to \in Nat : [op |-> "plan_gap", scope |-> "plan", from |-> from, to |-> to] \in StepType
    /\ \A pts, end \in Nat : pts <= end => [op |-> "enter", scope |-> "chain", pts |-> pts, end |-> end] \in StepType
    /\ \A from, to, frontier \in Nat :
          [op |-> "input_gap", scope |-> "forward", from |-> from, to |-> to, frontier |-> frontier] \in StepType
<1>1. \A pts \in Nat : [op |-> "bridge", scope |-> "chain", pts |-> pts] \in BridgeStep
  BY DEF BridgeStep, Scope
<1>2. \A from, to \in Nat : [op |-> "plan_gap", scope |-> "plan", from |-> from, to |-> to] \in PlanStep
  BY DEF PlanStep, Scope
<1>3. \A pts, end \in Nat : pts <= end => [op |-> "enter", scope |-> "chain", pts |-> pts, end |-> end] \in EnterStep
  BY DEF EnterStep, Scope
<1>4. \A from, to, frontier \in Nat :
         [op |-> "input_gap", scope |-> "forward", from |-> from, to |-> to, frontier |-> frontier] \in GapStep
  BY DEF GapStep, Scope
<1> QED BY <1>1, <1>2, <1>3, <1>4 DEF StepType

\* A handler of up to four steps.
LEMMA HandlerTypes ==
    ASSUME NEW a \in StepType, NEW b \in StepType, NEW c \in StepType, NEW d \in StepType
    PROVE  /\ <<a>> \in Seq(StepType) /\ <<a, b>> \in Seq(StepType)
           /\ <<a, b, c>> \in Seq(StepType) /\ <<a, b, c, d>> \in Seq(StepType)
OBVIOUS

LEMMA CapsType ==
    ASSUME TypeInv, Caps
    PROVE  TypeInv'
<1>1. /\ ElementOK'
      /\ StateOK'
      /\ CommandsOK'
      /\ evQ' \in Seq(EventType)
      /\ cancel' \in BOOLEAN
      /\ HeldOK(worker)'
      /\ ObservedOK'
  BY DEF TypeInv, Caps, Quiet, ElementOK, element, StateOK, state, CommandsOK, channels, HeldOK, ObservedOK
<1>2. todo' \in Seq(StepType)
  <2>1. todo' = <<Step("ensure_ready", "caps")>> /\ Step("ensure_ready", "caps") \in StepType
    BY StepsMade DEF Caps, Scope
  <2> QED BY <2>1, HandlerTypes
<1> QED BY <1>1, <1>2 DEF TypeInv

LEMMA SegmentType ==
    ASSUME TypeInv, Segment
    PROVE  TypeInv'
<1>1. /\ ElementOK'
      /\ StateOK'
      /\ CommandsOK'
      /\ evQ' \in Seq(EventType)
      /\ cancel' \in BOOLEAN
      /\ HeldOK(worker)'
      /\ ObservedOK'
  BY DEF TypeInv, Segment, Quiet, ElementOK, element, StateOK, state, CommandsOK, channels, HeldOK, ObservedOK
<1>2. todo' \in Seq(StepType)
  <2> DEFINE fin == Finalize("finalize")
             res == Restart("restart", FALSE)
             seg == Step("segment", "forward")
  <2>1. todo' = <<fin, res, seg>>
    BY DEF Segment
  <2>2. fin \in StepType /\ res \in StepType /\ seg \in StepType
    BY StepsMade DEF Scope
  <2> HIDE DEF fin, res, seg
  <2> QED BY <2>1, <2>2, HandlerTypes
<1> QED BY <1>1, <1>2 DEF TypeInv

LEMMA EosType ==
    ASSUME TypeInv, Eos
    PROVE  TypeInv'
<1>1. /\ ElementOK'
      /\ StateOK'
      /\ CommandsOK'
      /\ evQ' \in Seq(EventType)
      /\ cancel' \in BOOLEAN
      /\ HeldOK(worker)'
      /\ ObservedOK'
  BY DEF TypeInv, Eos, Quiet, ElementOK, element, StateOK, state, CommandsOK, channels, HeldOK, ObservedOK
<1>2. todo' \in Seq(StepType)
  <2> DEFINE fin == Finalize("finalize")
             eos == Step("eos", "forward")
  <2>1. todo' = <<fin, eos>>
    BY DEF Eos
  <2>2. fin \in StepType /\ eos \in StepType
    BY StepsMade DEF Scope
  <2> HIDE DEF fin, eos
  <2> QED BY <2>1, <2>2, HandlerTypes
<1> QED BY <1>1, <1>2 DEF TypeInv

LEMMA InputGapType ==
    ASSUME NEW pts \in Nat, NEW end \in Nat, TypeInv, InputGap(pts, end)
    PROVE  TypeInv'
<1>1. /\ ElementOK'
      /\ StateOK'
      /\ CommandsOK'
      /\ evQ' \in Seq(EventType)
      /\ cancel' \in BOOLEAN
      /\ HeldOK(worker)'
      /\ ObservedOK'
  BY DEF TypeInv, InputGap, Silent, Time, ElementOK, element, StateOK, state, CommandsOK, channels, HeldOK, ObservedOK
<1>2. todo' \in Seq(StepType)
  <2> DEFINE fin == Finalize("finalize")
             res == Restart("restart", FALSE)
             plan == [op |-> "plan_gap", scope |-> "plan", from |-> pts, to |-> end]
  <2>1. todo' = <<fin, plan, res>>
    BY DEF InputGap
  <2>2. fin \in StepType /\ plan \in StepType /\ res \in StepType
    BY StepsMade, InputSteps DEF Scope
  <2> HIDE DEF fin, res, plan
  <2> QED BY <2>1, <2>2, HandlerTypes
<1> QED BY <1>1, <1>2 DEF TypeInv

LEMMA ChainType ==
    ASSUME NEW pts \in Nat, NEW len \in Nat, NEW flagged, TypeInv, Chain(pts, len, flagged)
    PROVE  TypeInv'
<1>1. /\ ElementOK'
      /\ StateOK'
      /\ CommandsOK'
      /\ evQ' \in Seq(EventType)
      /\ cancel' \in BOOLEAN
      /\ HeldOK(worker)'
      /\ ObservedOK'
  BY DEF TypeInv, Chain, Silent, Time, ElementOK, element, StateOK, state, CommandsOK, channels, HeldOK, ObservedOK
<1>2. todo' \in Seq(StepType)
  <2> DEFINE fin == Finalize("chain")
             res == Restart("chain", FALSE)
             ens == Step("ensure_ready", "chain")
             bridge == [op |-> "bridge", scope |-> "chain", pts |-> pts]
             enter == [op |-> "enter", scope |-> "chain", pts |-> pts, end |-> pts + len]
  <2>1. \/ todo' = <<fin, bridge, res, enter>>
        \/ todo' = <<enter>>
        \/ todo' = <<ens, enter>>
    BY DEF Chain
  <2>2. pts <= pts + len /\ pts + len \in Nat
    OBVIOUS
  <2>3. /\ fin \in StepType /\ bridge \in StepType /\ res \in StepType
        /\ enter \in StepType /\ ens \in StepType
    BY <2>2, StepsMade, InputSteps DEF Scope
  <2> HIDE DEF fin, res, ens, bridge, enter
  <2> QED BY <2>1, <2>3, HandlerTypes
<1> QED BY <1>1, <1>2 DEF TypeInv

LEMMA FlushStopType ==
    ASSUME TypeInv, FlushStop
    PROVE  TypeInv'
<1>1. /\ ElementOK'
      /\ CommandsOK'
      /\ evQ' \in Seq(EventType)
      /\ HeldOK(worker)'
  BY DEF TypeInv, FlushStop, ElementOK, element, CommandsOK, channels, HeldOK
<1>2. todo' \in Seq(StepType)
  <2> DEFINE res == Restart("restart", TRUE)
             stop == Step("flush_stop", "forward")
  <2>1. todo' = <<res, stop>>
    BY DEF FlushStop
  <2>2. res \in StepType /\ stop \in StepType
    BY StepsMade DEF Scope
  <2> HIDE DEF res, stop
  <2> QED BY <2>1, <2>2, HandlerTypes
<1>3. StateOK'
  <2>1. /\ base' = NoTime /\ outPts' = NoTime /\ nextPts' = NoTime /\ committed' = 0 /\ dropped' = 0
        /\ gateSeen' = 0 /\ ready' = ready /\ gate' \in {"off", "armed"}
    BY DEF FlushStop, ResetTimeline
  <2> QED BY <2>1 DEF TypeInv, StateOK, Time
<1>4. ObservedOK'
  <2>1. inputEnd' = inputEnd /\ edge' = edge /\ gapEnd' = gapEnd /\ stream' = stream + 1
    BY DEF FlushStop, ResetTimeline, Silent
  <2> QED BY <2>1 DEF TypeInv, ObservedOK
<1>5. cancel' \in BOOLEAN
  BY DEF FlushStop
<1> QED BY <1>1, <1>2, <1>3, <1>4, <1>5 DEF TypeInv

-----------------------------------------------------------------------------
\* The steps of a handler keep the types.

LEMMA TodoShrinks ==
    ASSUME todo \in Seq(StepType), todo # <<>>, todo' = Tail(todo) \/ Abandon
    PROVE  todo' \in Seq(StepType)
BY HeadOfTodo, AbandonDrops DEF Dropped

LEMMA NextEvent ==
    ASSUME evQ \in Seq(EventType), evQ # <<>>
    PROVE  Head(evQ) \in EventType /\ Head(evQ) = evQ[1] /\ Tail(evQ) \in Seq(EventType)
BY HeadTailProperties

LEMMA HeadStep ==
    ASSUME TypeInv, NEW op, Doing(op)
    PROVE  Head(todo) \in StepType /\ Head(todo).op = op /\ todo \in Seq(StepType) /\ todo # <<>>
BY HeadOfTodo DEF TypeInv, Doing

\* What a send leaves alone besides.
LEMMA ChannelsKept ==
    ASSUME TypeInv, UNCHANGED channels
    PROVE  CommandsOK' /\ evQ' \in Seq(EventType)
BY DEF TypeInv, channels, CommandsOK

LEMMA DoFinalizeType ==
    ASSUME TypeInv, DoFinalize
    PROVE  TypeInv'
<1>1. /\ ElementOK'
      /\ StateOK'
      /\ cancel' \in BOOLEAN
      /\ HeldOK(worker)'
      /\ ObservedOK'
  BY DEF TypeInv, DoFinalize, Quiet, ElementOK, element, StateOK, state, HeldOK, ObservedOK
<1>2. /\ todo' \in Seq(StepType) /\ CommandsOK' /\ evQ' \in Seq(EventType)
  <2>1. Head(todo) \in StepType /\ todo \in Seq(StepType) /\ todo # <<>>
    BY HeadStep DEF DoFinalize
  <2>2. CASE base = NoTime
    <3>1. todo' = Tail(todo) /\ UNCHANGED channels
      BY <2>2 DEF DoFinalize
    <3> QED BY <2>1, <3>1, TodoShrinks, ChannelsKept
  <2>3. CASE base # NoTime
    <3> DEFINE wait == Await("drained", Head(todo).scope, FALSE)
               cmd == [type |-> "finalize"]
    <3>1. SendOrFail(cmd, <<wait>>)
      BY <2>3 DEF DoFinalize
    <3>2. wait \in StepType
      BY <2>1, StepFields, StepsMade
    <3>3. cmd \in Commands
      BY DEF Commands
    <3> HIDE DEF wait, cmd
    <3>4. <<wait>> \in Seq(StepType)
      BY <3>2, HandlerTypes
    <3> QED BY <2>1, <3>1, <3>3, <3>4, SendTypes DEF TypeInv
  <2> QED BY <2>2, <2>3
<1> QED BY <1>1, <1>2 DEF TypeInv

LEMMA DoRestartType ==
    ASSUME TypeInv, DoRestart
    PROVE  TypeInv'
<1>1. /\ ElementOK'
      /\ StateOK'
      /\ cancel' \in BOOLEAN
      /\ HeldOK(worker)'
      /\ ObservedOK'
  BY DEF TypeInv, DoRestart, Quiet, ElementOK, element, StateOK, state, HeldOK, ObservedOK
<1>2. /\ todo' \in Seq(StepType) /\ CommandsOK' /\ evQ' \in Seq(EventType)
  <2>1. Head(todo) \in StepType /\ Head(todo).op = "restart" /\ todo \in Seq(StepType) /\ todo # <<>>
    BY HeadStep DEF DoRestart
  <2> DEFINE wait == Await("restarted", Head(todo).scope, Head(todo).discard)
             cmd == [type |-> "restart"]
  <2>2. SendOrFail(cmd, <<wait>>)
    BY DEF DoRestart
  <2>3. wait \in StepType
    BY <2>1, StepFields, StepsMade
  <2>4. cmd \in Commands
    BY DEF Commands
  <2> HIDE DEF wait, cmd
  <2>5. <<wait>> \in Seq(StepType)
    BY <2>3, HandlerTypes
  <2> QED BY <2>1, <2>2, <2>4, <2>5, SendTypes DEF TypeInv
<1> QED BY <1>1, <1>2 DEF TypeInv

LEMMA DoFeedType ==
    ASSUME TypeInv, DoFeed
    PROVE  TypeInv'
<1>1. /\ ElementOK'
      /\ cancel' \in BOOLEAN
      /\ HeldOK(worker)'
      /\ ObservedOK'
  BY DEF TypeInv, DoFeed, Quiet, ElementOK, element, HeldOK, ObservedOK
<1>2. /\ todo' \in Seq(StepType) /\ CommandsOK' /\ evQ' \in Seq(EventType)
      /\ dropped' \in Nat
  <2>1. Head(todo) \in StepType /\ Head(todo).op = "feed" /\ todo \in Seq(StepType) /\ todo # <<>>
    BY HeadStep DEF DoFeed
  <2>2. CASE dropped' = dropped + 1 /\ todo' = Tail(todo) /\ UNCHANGED channels
    BY <2>1, <2>2, TodoShrinks, ChannelsKept DEF TypeInv, StateOK
  <2> DEFINE cmd == [type |-> "feed", len |-> Head(todo).len, from |-> Head(todo).from, stream |-> stream]
  <2>3. CASE SendOrFail(cmd, <<>>) /\ dropped' = dropped
    <3>1. cmd \in Commands
      BY <2>1, StepFields DEF Commands, TypeInv, ObservedOK
    <3> HIDE DEF cmd
    <3>2. <<>> \in Seq(StepType)
      OBVIOUS
    <3>3. todo' \in Seq(StepType) /\ CommandsOK' /\ evQ' \in Seq(EventType)
      BY <2>1, <2>3, <3>1, <3>2, SendTypes DEF TypeInv
    <3> QED BY <2>3, <3>3 DEF TypeInv, StateOK
  <2> QED BY <2>2, <2>3 DEF DoFeed
<1>3. StateOK'
  BY <1>2 DEF TypeInv, DoFeed, StateOK
<1> QED BY <1>1, <1>2, <1>3 DEF TypeInv

LEMMA GapType ==
    ASSUME NEW from \in Nat, NEW to \in Nat
    PROVE  <<Gap(from, to)>> \in Seq(Piece)
<1> DEFINE g == Gap(from, to)
<1>1. g \in Piece
  BY DEF Gap, Piece
<1> HIDE DEF g
<1>2. <<g>> \in Seq(Piece)
  BY <1>1
<1> QED BY <1>2 DEF g

LEMMA DoBridgeType ==
    ASSUME TypeInv, DoBridge
    PROVE  TypeInv'
<1>1. /\ ElementOK'
      /\ CommandsOK'
      /\ evQ' \in Seq(EventType)
      /\ cancel' \in BOOLEAN
      /\ HeldOK(worker)'
  BY DEF TypeInv, DoBridge, ElementOK, element, CommandsOK, channels, HeldOK
<1>2. todo' \in Seq(StepType)
  BY HeadStep, TodoShrinks DEF DoBridge
<1>3. /\ StateOK'
      /\ ObservedOK'
  <2> DEFINE pts == Head(todo).pts
  <2>1. pts \in Nat /\ base \in Time /\ outPts \in Time
    BY HeadStep, StepFields DEF DoBridge, TypeInv, StateOK
  <2>2. outPts' \in Time /\ edge' \in Time /\ gapEnd' \in Time
    <3>1. CASE outPts # NoTime /\ pts > outPts /\ outPts' = pts /\ Publish(<<Gap(outPts, pts)>>)
      <4>1. <<Gap(outPts, pts)>> \in Seq(Piece)
        BY <2>1, <3>1, GapType DEF Time
      <4> HIDE DEF pts
      <4> QED BY <2>1, <3>1, <4>1, PublishOK DEF TypeInv, ObservedOK, Time
    <3>2. CASE Silent /\ outPts' = outPts
      BY <3>2 DEF Silent, TypeInv, StateOK, ObservedOK
    <3> QED BY <3>1, <3>2 DEF DoBridge
  <2> QED BY <2>2 DEF DoBridge, TypeInv, StateOK, ObservedOK
<1> QED BY <1>1, <1>2, <1>3 DEF TypeInv

LEMMA WithholdType ==
    ASSUME TypeInv, Withhold
    PROVE  TypeInv'
<1>1. /\ ElementOK'
      /\ CommandsOK'
      /\ evQ' \in Seq(EventType)
      /\ cancel' \in BOOLEAN
      /\ HeldOK(worker)'
  BY DEF TypeInv, Withhold, ElementOK, element, CommandsOK, channels, HeldOK
<1>2. todo' \in Seq(StepType)
  BY HeadStep, TodoShrinks DEF Withhold
<1>3. /\ StateOK'
      /\ ObservedOK'
  <2> DEFINE start == Head(todo).pts
             end == Head(todo).end
             from == IF outPts = NoTime THEN start ELSE outPts
  <2>1. start \in Nat /\ end \in Nat /\ start <= end
    BY HeadStep, StepFields DEF Withhold
  <2>2. from \in Nat
    BY <2>1 DEF TypeInv, StateOK, Time
  <2>3. gateSeen' = gateSeen + (end - start) /\ nextPts' = end
    BY DEF Withhold
  <2>4. outPts' \in Time /\ edge' \in Time /\ gapEnd' \in Time
    <3>1. CASE outPts' = end /\ Publish(<<Gap(from, end)>>)
      <4> HIDE DEF from, end
      <4>1. <<Gap(from, end)>> \in Seq(Piece)
        BY <2>1, <2>2, GapType
      <4> QED BY <2>1, <3>1, <4>1, PublishOK DEF TypeInv, ObservedOK, Time
    <3>2. CASE Silent /\ outPts' = outPts
      BY <3>2 DEF Silent, TypeInv, StateOK, ObservedOK
    <3>3. CASE Silent /\ outPts' = from
      BY <2>2, <3>3 DEF Silent, TypeInv, ObservedOK, Time
    <3> QED BY <3>1, <3>2, <3>3 DEF Withhold
  <2>5. gateSeen' \in Nat /\ nextPts' \in Time
    <3> HIDE DEF start, end
    <3> QED BY <2>1, <2>3 DEF TypeInv, StateOK, Time
  <2> QED BY <2>4, <2>5 DEF Withhold, TypeInv, StateOK, ObservedOK
<1> QED BY <1>1, <1>2, <1>3 DEF TypeInv

\* Audio goes to the model.
LEMMA AdmitType ==
    ASSUME TypeInv, Doing("enter"), NEW at \in Nat, NEW end \in Nat, NEW len \in Nat, NEW pad \in Nat,
           Admit(at, end, len, pad), gate' \in {"off", "armed", "open"}, gateSeen' \in Nat
    PROVE  TypeInv'
<1>1. /\ ElementOK'
      /\ CommandsOK'
      /\ evQ' \in Seq(EventType)
      /\ cancel' \in BOOLEAN
      /\ HeldOK(worker)'
  BY DEF TypeInv, Admit, ElementOK, element, CommandsOK, channels, HeldOK
<1>2. Head(todo) \in StepType /\ todo \in Seq(StepType) /\ todo # <<>>
  BY HeadStep
<1>3. todo' \in Seq(StepType)
  <2> DEFINE head == IF pad > 0 THEN <<Feed(pad, NoTime)>> ELSE <<>>
             feed == Feed(len, at)
             drain == Step("drain", "chain")
  <2>1. todo' = IF len = 0 THEN Tail(todo) ELSE head \o <<feed, drain>>
    BY DEF Admit
  <2>2. head \in Seq(StepType)
    <3> DEFINE prime == Feed(pad, NoTime)
    <3>1. prime \in StepType
      BY StepsMade DEF Time
    <3>2. head = IF pad > 0 THEN <<prime>> ELSE <<>>
      OBVIOUS
    <3> HIDE DEF prime, head
    <3> QED BY <3>1, <3>2
  <2>3. feed \in StepType /\ drain \in StepType
    BY StepsMade DEF Time, Scope
  <2> HIDE DEF head, feed, drain
  <2>4. <<feed, drain>> \in Seq(StepType)
    BY <2>3, HandlerTypes
  <2>5. head \o <<feed, drain>> \in Seq(StepType)
    BY <2>2, <2>4, ConcatProperties
  <2>6. Tail(todo) \in Seq(StepType)
    BY <1>2, HeadTailProperties
  <2> QED BY <2>1, <2>5, <2>6
<1>4. base' \in Time /\ outPts' \in Time /\ edge' \in Time /\ gapEnd' \in Time
  <2>1. base \in Time /\ outPts \in Time /\ edge \in Time /\ gapEnd \in Time
    BY DEF TypeInv, StateOK, ObservedOK
  <2>2. CASE base = NoTime
    <3>1. base' = Anchor(at, pad) /\ outPts' = Later(at, outPts) /\ Publish(OpeningCover(at))
      BY <2>2 DEF Admit
    <3>2. OpeningCover(at) \in Seq(Piece)
      <4>1. CASE outPts = NoTime
        <5>1. <<>> \in Seq(Piece)
          OBVIOUS
        <5> QED BY <4>1, <5>1 DEF OpeningCover
      <4>2. CASE outPts # NoTime
        BY <2>1, <4>2, GapCoverOK DEF OpeningCover, Time
      <4> QED BY <4>1, <4>2
    <3>3. Anchor(at, pad) \in Time /\ Later(at, outPts) \in Time
      BY <2>1 DEF Anchor, Later, Time, NoTime
    <3> QED BY <2>1, <3>1, <3>2, <3>3, PublishOK
  <2>3. CASE base # NoTime
    BY <2>1, <2>3 DEF Admit, Silent
  <2> QED BY <2>2, <2>3
<1>5. StateOK' /\ ObservedOK'
  BY <1>4 DEF Admit, TypeInv, StateOK, ObservedOK, Time
<1> QED BY <1>1, <1>3, <1>5 DEF TypeInv

LEMMA PassThroughType ==
    ASSUME TypeInv, PassThrough
    PROVE  TypeInv'
<1> DEFINE b == Head(todo)
<1>1. Doing("enter") /\ Admit(b.pts, b.end, b.end - b.pts, 0) /\ gate' = gate /\ gateSeen' = gateSeen
  BY DEF PassThrough
<1>2. b.pts \in Nat /\ b.end \in Nat /\ b.pts <= b.end
  BY <1>1, HeadStep, StepFields
<1>3. b.end - b.pts \in Nat
  <2> HIDE DEF b
  <2> QED BY <1>2
<1>4. gate' \in {"off", "armed", "open"} /\ gateSeen' \in Nat
  BY <1>1 DEF TypeInv, StateOK
<1> HIDE DEF b
<1> QED BY <1>1, <1>2, <1>3, <1>4, AdmitType

LEMMA OpenGateType ==
    ASSUME NEW kept \in Nat, TypeInv, OpenGate(kept)
    PROVE  TypeInv'
<1> DEFINE b == Head(todo)
           seen == gateSeen + (b.end - b.pts)
           at == Later(b.end - seen, 0) + (seen - kept)
<1>1. /\ Doing("enter") /\ kept <= seen /\ Admit(at, b.end, kept, Warmup)
      /\ gate' = "open" /\ gateSeen' = seen
  BY DEF OpenGate
<1>2. b.pts \in Nat /\ b.end \in Nat /\ b.pts <= b.end
  BY <1>1, HeadStep, StepFields
<1>3. Warmup \in Nat
  BY TranscriberAssumption
<1> DEFINE bEnd == b.end
           bPts == b.pts
<1>4. seen = gateSeen + (bEnd - bPts) /\ bEnd \in Nat /\ bPts \in Nat /\ bPts <= bEnd /\ gateSeen \in Nat
  BY <1>2 DEF TypeInv, StateOK
<1>5. at = Later(bEnd - seen, 0) + (seen - kept) /\ kept <= seen
  BY <1>1
<1>6. Admit(at, bEnd, kept, Warmup) /\ gateSeen' = seen
  BY <1>1
<1> HIDE DEF b, seen, at, bEnd, bPts
<1>7. seen \in Nat
  BY <1>4
<1>8. at \in Nat
  BY <1>4, <1>5, <1>7 DEF Later
<1>9. gate' \in {"off", "armed", "open"} /\ gateSeen' \in Nat
  BY <1>1, <1>6, <1>7
<1> QED BY <1>1, <1>3, <1>4, <1>6, <1>8, <1>9, AdmitType

LEMMA DoPlanGapType ==
    ASSUME TypeInv, DoPlanGap
    PROVE  TypeInv'
<1>1. /\ ElementOK'
      /\ StateOK'
      /\ CommandsOK'
      /\ evQ' \in Seq(EventType)
      /\ cancel' \in BOOLEAN
      /\ HeldOK(worker)'
      /\ ObservedOK'
  BY DEF TypeInv, DoPlanGap, Quiet, ElementOK, element, StateOK, state, CommandsOK, channels, HeldOK, ObservedOK
<1>2. todo' \in Seq(StepType)
  <2> DEFINE step == Head(todo)
             plan == PlanGap(step.from, step.to, outPts)
             gap == [op |-> "input_gap", scope |-> "forward",
                     from |-> plan.from, to |-> plan.to, frontier |-> plan.frontier]
  <2>1. todo' = Append(Tail(todo), gap)
    BY DEF DoPlanGap
  <2>2. step.from \in Nat /\ step.to \in Nat /\ outPts \in Time
    BY HeadStep, StepFields DEF DoPlanGap, TypeInv, StateOK
  <2>3. plan.from \in Nat /\ plan.to \in Nat /\ plan.frontier \in Nat
    <3> HIDE DEF step
    <3> QED BY <2>2 DEF PlanGap, Later, Time, NoTime
  <2>4. gap \in StepType
    <3> HIDE DEF plan
    <3> QED BY <2>3, InputSteps
  <2>5. Tail(todo) \in Seq(StepType)
    BY HeadStep, HeadTailProperties DEF DoPlanGap
  <2> HIDE DEF gap
  <2> QED BY <2>1, <2>4, <2>5, AppendProperties
<1> QED BY <1>1, <1>2 DEF TypeInv

LEMMA DoInputGapType ==
    ASSUME TypeInv, DoInputGap
    PROVE  TypeInv'
<1>1. /\ ElementOK'
      /\ CommandsOK'
      /\ evQ' \in Seq(EventType)
      /\ cancel' \in BOOLEAN
      /\ HeldOK(worker)'
  BY DEF TypeInv, DoInputGap, ElementOK, element, CommandsOK, channels, HeldOK
<1>2. todo' \in Seq(StepType)
  BY HeadStep, TodoShrinks DEF DoInputGap
<1>3. /\ StateOK'
      /\ ObservedOK'
  <2> DEFINE step == Head(todo)
  <2>1. step.from \in Nat /\ step.to \in Nat /\ step.frontier \in Nat
    BY HeadStep, StepFields DEF DoInputGap
  <2>2. outPts' = step.frontier /\ Publish(GapCover(step.from, step.to))
    BY DEF DoInputGap
  <2> HIDE DEF step
  <2>3. GapCover(step.from, step.to) \in Seq(Piece)
    BY <2>1, GapCoverOK
  <2>4. edge' \in Time /\ gapEnd' \in Time
    BY <2>2, <2>3, PublishOK DEF TypeInv, ObservedOK
  <2>5. outPts' \in Time
    BY <2>1, <2>2 DEF Time
  <2> QED BY <2>4, <2>5 DEF DoInputGap, TypeInv, StateOK, ObservedOK
<1> QED BY <1>1, <1>2, <1>3 DEF TypeInv

LEMMA ForwardSegmentType ==
    ASSUME TypeInv, ForwardSegment
    PROVE  TypeInv'
<1>1. /\ ElementOK'
      /\ StateOK'
      /\ CommandsOK'
      /\ evQ' \in Seq(EventType)
      /\ cancel' \in BOOLEAN
      /\ HeldOK(worker)'
      /\ ObservedOK'
  BY DEF TypeInv, ForwardSegment, Forward, Time, ElementOK, element, StateOK, state, CommandsOK, channels, HeldOK, ObservedOK
<1>2. todo' \in Seq(StepType)
  BY HeadStep, TodoShrinks DEF ForwardSegment, Forward
<1> QED BY <1>1, <1>2 DEF TypeInv

LEMMA ForwardEosType ==
    ASSUME TypeInv, ForwardEos
    PROVE  TypeInv'
<1>1. /\ ElementOK'
      /\ StateOK'
      /\ CommandsOK'
      /\ evQ' \in Seq(EventType)
      /\ cancel' \in BOOLEAN
      /\ HeldOK(worker)'
      /\ ObservedOK'
  BY DEF TypeInv, ForwardEos, Forward, Time, ElementOK, element, StateOK, state, CommandsOK, channels, HeldOK, ObservedOK
<1>2. todo' \in Seq(StepType)
  BY HeadStep, TodoShrinks DEF ForwardEos, Forward
<1> QED BY <1>1, <1>2 DEF TypeInv

LEMMA ForwardFlushStopType ==
    ASSUME TypeInv, ForwardFlushStop
    PROVE  TypeInv'
<1>1. /\ StateOK'
      /\ CommandsOK'
      /\ evQ' \in Seq(EventType)
      /\ cancel' \in BOOLEAN
      /\ HeldOK(worker)'
      /\ ObservedOK'
  BY DEF TypeInv, ForwardFlushStop, Forward, Time, StateOK, state, CommandsOK, channels, HeldOK, ObservedOK
<1>2. ElementOK'
  <2>1. srcFlush' \in BOOLEAN /\ sinkFlush' \in BOOLEAN
    BY DEF ForwardFlushStop
  <2> QED BY <2>1 DEF ForwardFlushStop, Forward, TypeInv, ElementOK
<1>3. todo' \in Seq(StepType)
  BY HeadStep, TodoShrinks DEF ForwardFlushStop, Forward
<1> QED BY <1>1, <1>2, <1>3 DEF TypeInv

-----------------------------------------------------------------------------
\* Taking an event keeps the types.

LEMMA AwaitReadyType ==
    ASSUME TypeInv, AwaitReady
    PROVE  TypeInv'
<1>1. /\ ElementOK'
      /\ CommandsOK'
      /\ cancel' \in BOOLEAN
      /\ HeldOK(worker)'
      /\ ObservedOK'
  BY DEF TypeInv, AwaitReady, Quiet, ElementOK, element, CommandsOK, channels, HeldOK, ObservedOK
<1>2. /\ todo' \in Seq(StepType) /\ evQ' \in Seq(EventType)
      /\ ready' \in BOOLEAN /\ gate' \in {"off", "armed", "open"}
  <2>1. todo \in Seq(StepType) /\ todo # <<>> /\ evQ \in Seq(EventType)
    BY HeadStep DEF AwaitReady, TypeInv
  <2>2. todo' \in Seq(StepType)
    <3>1. todo' = Tail(todo) \/ Abandon \/ todo' = todo
      BY DEF AwaitReady
    <3> QED BY <2>1, <3>1, TodoShrinks
  <2>3. evQ' \in Seq(EventType)
    <3>1. evQ' = evQ \/ (evQ # <<>> /\ evQ' = Tail(evQ))
      BY DEF AwaitReady
    <3> QED BY <2>1, <3>1, NextEvent
  <2>4. ready' \in BOOLEAN
    BY DEF AwaitReady, TypeInv, StateOK
  <2>5. gate' \in {"off", "armed", "open"}
    BY DEF AwaitReady, TypeInv, StateOK
  <2> QED BY <2>2, <2>3, <2>4, <2>5
<1>3. StateOK'
  BY <1>2 DEF AwaitReady, TypeInv, StateOK
<1> QED BY <1>1, <1>2, <1>3 DEF TypeInv

LEMMA SpokenWords ==
    ASSUME NEW ev \in EventType, ev.type = "words"
    PROVE  ev \in SpokenEvent
BY DEF EventType, MarkerEvent, ProgressEvent

LEMMA FrontierNat ==
    ASSUME TypeInv, base # NoTime
    PROVE  base \in Nat /\ Frontier \in Nat
BY DEF TypeInv, StateOK, Time, Frontier

\* Words show audio of one event, and leave the frontier at a buffer's end.
LEMMA TakeWordsShows ==
    ASSUME TypeInv, TakeWords, NEW ev, ev = Head(evQ)
    PROVE  \/ Silent /\ UNCHANGED <<todo, outPts>>
           \/ /\ base # NoTime /\ ev \in SpokenEvent /\ outPts' \in Nat
              /\ \E cover \in Seq(Piece) : ShowsAudioOf(cover, ev) /\ Publish(cover)
              /\ Abandon \/ UNCHANGED todo
<1>1. evQ # <<>> /\ ev.type = "words" /\ ev \in EventType
  BY NextEvent DEF TakeWords, TypeInv
<1>2. ev \in SpokenEvent
  BY <1>1, SpokenWords
<1> DEFINE slots == PlanTimedText(base, Frontier, ev.rows)
           cover == WordsCover(slots, ev)
<1>3. CASE Discards \/ base = NoTime \/ ev.rows = <<>>
  BY <1>3 DEF TakeWords
<1>4. CASE ~(Discards \/ base = NoTime \/ ev.rows = <<>>)
  <2>1. /\ Publish(cover)
        /\ IF srcFlush THEN outPts' = slots[1].end /\ Abandon
           ELSE outPts' = slots[Len(slots)].end /\ UNCHANGED todo
    BY <1>4 DEF TakeWords
  <2>2. base \in Nat /\ Frontier \in Nat
    BY <1>4, FrontierNat
  <2>3. ev.rows \in Seq(Row) /\ ev.rows # <<>>
    BY <1>2, <1>4 DEF SpokenEvent
  <2>4. slots \in Seq(Slot) /\ Len(slots) = Len(ev.rows)
    <3> HIDE DEF slots
    <3>1. slots = PlanTimedText(base, Frontier, ev.rows)
      BY DEF slots
    <3> QED BY <2>2, <2>3, <3>1, PlanTyped
  <2> HIDE DEF slots
  <2>5. cover \in Seq(Piece) /\ ShowsAudioOf(cover, ev)
    BY <1>2, <2>2, <2>4, WordsCoverOK
  <2>6. 1 \in DOMAIN slots /\ Len(slots) \in DOMAIN slots
    BY <2>3, <2>4, EmptySeq
  <2>7. slots[1].end \in Nat /\ slots[Len(slots)].end \in Nat
    <3>1. slots[1] \in Slot /\ slots[Len(slots)] \in Slot
      BY <2>4, <2>6, ElementOfSeq
    <3> QED BY <3>1 DEF Slot
  <2>8. outPts' \in Nat /\ (Abandon \/ UNCHANGED todo)
    BY <2>1, <2>7
  <2> HIDE DEF cover
  <2> QED BY <1>2, <1>4, <2>1, <2>5, <2>8
<1> QED BY <1>3, <1>4

LEMMA TakeWordsType ==
    ASSUME TypeInv, TakeWords
    PROVE  TypeInv'
<1>1. /\ ElementOK'
      /\ CommandsOK'
      /\ cancel' \in BOOLEAN
      /\ HeldOK(worker)'
  BY DEF TypeInv, TakeWords, ElementOK, element, CommandsOK, channels, HeldOK
<1>2. evQ' \in Seq(EventType)
  BY NextEvent DEF TakeWords, TypeInv
<1>3. /\ todo' \in Seq(StepType) /\ outPts' \in Time /\ edge' \in Time /\ gapEnd' \in Time
  <2>1. todo \in Seq(StepType) /\ todo # <<>> /\ outPts \in Time /\ edge \in Time /\ gapEnd \in Time
    BY DEF TakeWords, Waiting, TypeInv, StateOK, ObservedOK
  <2> DEFINE ev == Head(evQ)
  <2>2. CASE Silent /\ UNCHANGED <<todo, outPts>>
    BY <2>1, <2>2 DEF Silent
  <2>3. CASE /\ outPts' \in Nat /\ (Abandon \/ UNCHANGED todo)
             /\ \E cover \in Seq(Piece) : ShowsAudioOf(cover, ev) /\ Publish(cover)
    <3>1. PICK cover \in Seq(Piece) : Publish(cover)
      BY <2>3
    <3>2. edge' \in Time /\ gapEnd' \in Time
      BY <2>1, <3>1, PublishOK
    <3>3. todo' \in Seq(StepType)
      BY <2>1, <2>3, TodoShrinks
    <3> QED BY <2>3, <3>2, <3>3 DEF Time
  <2> HIDE DEF ev
  <2> QED BY <2>2, <2>3, TakeWordsShows DEF ev
<1>4. /\ StateOK'
      /\ ObservedOK'
  BY <1>3 DEF TakeWords, TypeInv, StateOK, ObservedOK
<1> QED BY <1>1, <1>2, <1>3, <1>4 DEF TypeInv

LEMMA TakeProgressType ==
    ASSUME TypeInv, TakeProgress
    PROVE  TypeInv'
<1>1. /\ ElementOK'
      /\ todo' \in Seq(StepType)
      /\ CommandsOK'
      /\ cancel' \in BOOLEAN
      /\ HeldOK(worker)'
  BY DEF TypeInv, TakeProgress, ElementOK, element, CommandsOK, channels, HeldOK
<1>2. evQ' \in Seq(EventType)
  BY NextEvent DEF TakeProgress, TypeInv
<1>3. /\ committed' \in Nat /\ outPts' \in Time /\ edge' \in Time /\ gapEnd' \in Time
  <2>1. outPts \in Time /\ edge \in Time /\ gapEnd \in Time /\ committed \in Nat
    BY DEF TypeInv, StateOK, ObservedOK
  <2> DEFINE ms == Head(evQ).ms
  <2>2. ms \in Nat
    BY NextEvent, EventFields DEF TakeProgress, TypeInv
  <2>3. CASE Silent /\ UNCHANGED <<committed, outPts>>
    BY <2>1, <2>3 DEF Silent
  <2>4. CASE Advance(ms)
    <3> HIDE DEF ms
    <3>1. CASE Silent /\ outPts' = outPts
      BY <2>1, <2>2, <2>4, <3>1 DEF Silent, Advance
    <3>2. CASE base # NoTime /\ outPts' = base + ms /\ Publish(<<Gap(Frontier, base + ms)>>)
      <4>1. base \in Nat /\ Frontier \in Nat
        BY <3>2, FrontierNat
      <4>2. base + ms \in Nat
        BY <2>2, <4>1
      <4>3. <<Gap(Frontier, base + ms)>> \in Seq(Piece)
        BY <4>1, <4>2, GapType
      <4>4. edge' \in Time /\ gapEnd' \in Time
        BY <2>1, <3>2, <4>3, PublishOK
      <4> QED BY <2>2, <2>4, <3>2, <4>2, <4>4 DEF Advance, Time
    <3> QED BY <2>4, <3>1, <3>2 DEF Advance
  <2> QED BY <2>3, <2>4 DEF TakeProgress
<1>4. /\ StateOK'
      /\ ObservedOK'
  BY <1>3 DEF TakeProgress, TypeInv, StateOK, ObservedOK
<1> QED BY <1>1, <1>2, <1>3, <1>4 DEF TypeInv

LEMMA TakeMarkerType ==
    ASSUME TypeInv, TakeMarker
    PROVE  TypeInv'
<1>1. /\ ElementOK'
      /\ CommandsOK'
      /\ cancel' \in BOOLEAN
      /\ HeldOK(worker)'
  BY DEF TypeInv, TakeMarker, ElementOK, element, CommandsOK, channels, HeldOK
<1>2. evQ' \in Seq(EventType)
  BY NextEvent DEF TakeMarker, TypeInv
<1>3. todo' \in Seq(StepType)
  <2>1. todo' = Tail(todo) \/ todo' = todo
    BY DEF TakeMarker
  <2> QED BY <2>1, TodoShrinks DEF TypeInv, TakeMarker, Waiting
<1>4. /\ StateOK'
      /\ ObservedOK'
  <2>1. CASE ResetTimeline
    <3>1. /\ base' = NoTime /\ outPts' = NoTime /\ nextPts' = NoTime /\ committed' = 0
          /\ gateSeen' = 0 /\ gate' \in {"off", "armed"} /\ stream' = stream + 1
      BY <2>1 DEF ResetTimeline
    <3>2. ready' = ready /\ dropped' = dropped /\ inputEnd' = inputEnd /\ edge' = edge /\ gapEnd' = gapEnd
      BY DEF TakeMarker, Silent
    <3>3. StateOK'
      BY <3>1, <3>2 DEF TypeInv, StateOK, Time
    <3>4. ObservedOK'
      BY <3>1, <3>2 DEF TypeInv, ObservedOK
    <3> QED BY <3>3, <3>4
  <2>2. CASE UNCHANGED <<base, outPts, nextPts, committed, gate, gateSeen, stream>>
    BY <2>2 DEF TakeMarker, Silent, TypeInv, StateOK, ObservedOK
  <2> QED BY <2>1, <2>2 DEF TakeMarker
<1> QED BY <1>1, <1>2, <1>3, <1>4 DEF TypeInv

LEMMA TakeErrorType ==
    ASSUME TypeInv, TakeError
    PROVE  TypeInv'
<1>1. /\ ElementOK'
      /\ StateOK'
      /\ CommandsOK'
      /\ cancel' \in BOOLEAN
      /\ HeldOK(worker)'
      /\ ObservedOK'
  BY DEF TypeInv, TakeError, Quiet, ElementOK, element, StateOK, state, CommandsOK, channels, HeldOK, ObservedOK
<1>2. evQ' \in Seq(EventType)
  BY NextEvent DEF TakeError, TypeInv
<1>3. todo' \in Seq(StepType)
  BY TodoShrinks DEF TypeInv, TakeError, Waiting
<1> QED BY <1>1, <1>2, <1>3 DEF TypeInv

LEMMA DrainEndsType ==
    ASSUME TypeInv, DrainEnds
    PROVE  TypeInv'
<1>1. /\ ElementOK'
      /\ StateOK'
      /\ CommandsOK'
      /\ evQ' \in Seq(EventType)
      /\ cancel' \in BOOLEAN
      /\ HeldOK(worker)'
      /\ ObservedOK'
  BY DEF TypeInv, DrainEnds, Quiet, ElementOK, element, StateOK, state, CommandsOK, channels, HeldOK, ObservedOK
<1>2. todo' \in Seq(StepType)
  BY HeadStep, TodoShrinks DEF DrainEnds
<1> QED BY <1>1, <1>2 DEF TypeInv

-----------------------------------------------------------------------------
\* The worker keeps the types.

\* The rows a run commits start in the audio it was given, and end where it is
\* decided at the latest.
LEMMA RowsTyped ==
    ASSUME NEW w, w.decided \in Nat, w.spoken \in Nat, w.heard \in Seq(Tick), NEW to \in Nat,
           NEW rows \in Rows(w, to)
    PROVE  /\ rows \in Seq(Row)
           /\ \A i \in DOMAIN rows : rows[i].t0 < Len(w.heard) /\ rows[i].t1 <= to
<1> DEFINE audio == Len(w.heard)
           Starts == {t \in w.decided .. audio - 1 : w.heard[t + 1].at # NoTime}
           OfLength(n) == [1 .. n -> [t0 : Starts, t1 : w.decided .. to]]
<1>1. audio \in Nat
  OBVIOUS
<1>2. CASE rows = <<>>
  <2>1. rows \in Seq(Row) /\ DOMAIN rows = {}
    BY <1>2
  <2> QED BY <2>1
<1>3. ASSUME NEW n \in Nat, rows \in OfLength(n)
      PROVE  /\ rows \in Seq(Row)
             /\ \A i \in DOMAIN rows : rows[i].t0 < audio /\ rows[i].t1 <= to
  <2>1. \A i \in 1 .. n : rows[i] \in [t0 : Starts, t1 : w.decided .. to]
    BY <1>3
  <2>2. DOMAIN rows = 1 .. n
    BY <1>3
  <2>3. \A i \in 1 .. n : rows[i] \in Row /\ rows[i].t0 < audio /\ rows[i].t1 <= to
    <3> SUFFICES ASSUME NEW i \in 1 .. n
                 PROVE  rows[i] \in Row /\ rows[i].t0 < audio /\ rows[i].t1 <= to
      OBVIOUS
    <3>1. rows[i] \in [t0 : Starts, t1 : w.decided .. to]
      BY <2>1
    <3>2. rows[i].t0 \in w.decided .. audio - 1 /\ rows[i].t1 \in w.decided .. to
      BY <3>1
    <3>3. rows[i].t0 \in Nat /\ rows[i].t0 < audio /\ rows[i].t1 \in Nat /\ rows[i].t1 <= to
      <4> HIDE DEF audio
      <4> QED BY <3>2, <1>1
    <3> QED BY <3>1, <3>3 DEF Row
  <2>4. rows \in [1 .. n -> Row]
    <3>1. rows = [i \in 1 .. n |-> rows[i]]
      BY <1>3
    <3> QED BY <3>1, <2>3
  <2> QED BY <2>2, <2>3, <2>4
<1>4. ASSUME NEW t \in {w.spoken} \cap 0 .. Earlier(audio - 1, to - MinRow), rows = <<[t0 |-> t, t1 |-> to]>>
      PROVE  /\ rows \in Seq(Row)
             /\ \A i \in DOMAIN rows : rows[i].t0 < audio /\ rows[i].t1 <= to
  <2>1. t \in Nat /\ t < audio
    <3>1. MinRow \in Nat /\ t \in Nat /\ t <= Earlier(audio - 1, to - MinRow)
      BY <1>1, <1>4, TranscriberAssumption DEF Earlier
    <3> HIDE DEF audio
    <3> QED BY <1>1, <3>1 DEF Earlier
  <2> DEFINE row == [t0 |-> t, t1 |-> to]
  <2>2. row \in Row /\ row.t0 = t /\ row.t1 = to
    BY <2>1 DEF Row
  <2> HIDE DEF row
  <2>3. rows = <<row>>
    BY <1>4 DEF row
  <2> QED BY <2>1, <2>2, <2>3
<1>5. \/ rows = <<>>
      \/ \E n \in Nat : rows \in OfLength(n)
      \/ \E t \in {w.spoken} \cap 0 .. Earlier(audio - 1, to - MinRow) : rows = <<[t0 |-> t, t1 |-> to]>>
  <2> SUFFICES ASSUME rows # <<>>
               PROVE  \/ \E n \in Nat : rows \in OfLength(n)
                      \/ \E t \in {w.spoken} \cap 0 .. Earlier(audio - 1, to - MinRow) :
                            rows = <<[t0 |-> t, t1 |-> to]>>
    OBVIOUS
  <2> DEFINE All == UNION {OfLength(n) : n \in 1 .. MaxRows}
             Spans == {<<[t0 |-> t, t1 |-> to]>> : t \in {w.spoken} \cap 0 .. Earlier(audio - 1, to - MinRow)}
  <2>1. (Aligned /\ rows \in All) \/ (~Aligned /\ rows \in Spans)
    <3>1. CASE Aligned
      <4>1. rows \in {<<>>} \cup All
        BY <3>1 DEF Rows
      <4> QED BY <3>1, <4>1
    <3>2. CASE ~Aligned
      <4>1. rows \in {<<>>} \cup Spans
        BY <3>2 DEF Rows
      <4> HIDE DEF Spans
      <4> QED BY <3>2, <4>1
    <3> QED BY <3>1, <3>2
  <2>2. CASE rows \in All
    <3> HIDE DEF OfLength
    <3>1. PICK n \in 1 .. MaxRows : rows \in OfLength(n)
      BY <2>2
    <3> QED BY <3>1
  <2>3. CASE rows \in Spans
    BY <2>3
  <2> QED BY <2>1, <2>2, <2>3
<1> HIDE DEF OfLength
<1> QED BY <1>2, <1>3, <1>4, <1>5

LEMMA EventsMade ==
    /\ \A type \in {"ready", "restarted", "drained", "error"} : [type |-> type] \in EventType
    /\ \A ms \in Nat : Progress(ms) \in EventType
<1>1. \A type \in {"ready", "restarted", "drained", "error"} : [type |-> type] \in MarkerEvent
  BY DEF MarkerEvent
<1>2. \A ms \in Nat : Progress(ms) \in ProgressEvent
  BY DEF Progress, ProgressEvent
<1> QED BY <1>1, <1>2 DEF EventType

LEMMA WordsMade ==
    ASSUME NEW w, w.heard \in Seq(Tick), NEW rows \in Seq(Row),
           \A i \in DOMAIN rows : rows[i].t0 < Len(w.heard)
    PROVE  WordsEvent(w, rows) \in EventType
<1>1. WordsEvent(w, rows) \in SpokenEvent
  BY DEF WordsEvent, SpokenEvent
<1> QED BY <1>1 DEF EventType

LEMMA AppendEvent ==
    ASSUME evQ \in Seq(EventType), NEW ev \in EventType, evQ' = Append(evQ, ev)
    PROVE  evQ' \in Seq(EventType)
BY AppendProperties

LEMMA NextCommand ==
    ASSUME CommandsOK, cmdQ # <<>>
    PROVE  /\ Head(cmdQ) \in Commands /\ Head(cmdQ) = cmdQ[1]
           /\ cmdQ' = Tail(cmdQ) => CommandsOK'
<1>1. cmdQ \in Seq(Commands) /\ Len(cmdQ) <= QueueLen /\ QueueLen \in Nat
  BY TranscriberAssumption DEF CommandsOK
<1>2. Head(cmdQ) \in Commands /\ Tail(cmdQ) \in Seq(Commands) /\ Head(cmdQ) = cmdQ[1]
      /\ Len(Tail(cmdQ)) = Len(cmdQ) - 1 /\ Len(cmdQ) \in Nat
  BY <1>1, HeadTailProperties
<1> QED BY <1>1, <1>2 DEF CommandsOK

LEMMA NewWorkerHeld ==
    ASSUME NEW family \in Family
    PROVE  HeldOK(NewWorker(family)) /\ HeldOK([NewWorker(family) EXCEPT !.state = "dead"])
<1> DEFINE none == <<>>
<1>1. none \in Seq(Tick) /\ Len(none) = 0
  OBVIOUS
<1> HIDE DEF none
<1>2. NewWorker(family) = [state |-> "loading", family |-> family,
                           heard |-> none, decided |-> 0, spoken |-> 0, frontier |-> 0]
  BY DEF NewWorker, none
<1>3. NewWorker(family) \in WorkerType /\ NewWorker(family).heard = none
      /\ NewWorker(family).decided = 0 /\ NewWorker(family).spoken = 0
  BY <1>1, <1>2 DEF WorkerType
<1> DEFINE w == NewWorker(family)
<1> HIDE DEF w
<1>4. w \in WorkerType /\ w.heard = none /\ w.decided = 0 /\ w.spoken = 0
  BY <1>3 DEF w
<1>5. HeldOK(w) /\ HeldOK([w EXCEPT !.state = "dead"])
  BY <1>1, <1>4 DEF HeldOK, WorkerType
<1> QED BY <1>5 DEF w

LEMMA WorkerLoadsType ==
    ASSUME TypeInv, WorkerLoads
    PROVE  TypeInv'
<1>1. /\ ElementOK'
      /\ StateOK'
      /\ cancel' \in BOOLEAN
      /\ ObservedOK'
  BY DEF TypeInv, WorkerLoads, WorkerKeeps, Quiet, ElementOK, element, StateOK, state, ObservedOK
<1>2. /\ todo' \in Seq(StepType)
      /\ CommandsOK'
  BY DEF TypeInv, WorkerLoads, WorkerKeeps, Quiet, CommandsOK, channels
<1>3. evQ' \in Seq(EventType)
  <2> DEFINE ev == [type |-> "ready"]
  <2>1. ev \in EventType /\ evQ' = Append(evQ, ev)
    BY EventsMade DEF WorkerLoads
  <2> HIDE DEF ev
  <2> QED BY <2>1, AppendEvent DEF TypeInv
<1>4. HeldOK(worker)'
  <2>1. worker' = [worker EXCEPT !.state = "idle"]
    BY DEF WorkerLoads
  <2> QED BY <2>1 DEF TypeInv, HeldOK, WorkerType
<1> QED BY <1>1, <1>2, <1>3, <1>4 DEF TypeInv

LEMMA WorkerFailsType ==
    ASSUME TypeInv, WorkerFails
    PROVE  TypeInv'
<1>1. /\ ElementOK'
      /\ StateOK'
      /\ cancel' \in BOOLEAN
      /\ ObservedOK'
  BY DEF TypeInv, WorkerFails, WorkerKeeps, Quiet, ElementOK, element, StateOK, state, ObservedOK
<1>2. /\ todo' \in Seq(StepType)
      /\ CommandsOK'
  BY DEF TypeInv, WorkerFails, WorkerKeeps, Quiet, CommandsOK, channels
<1>3. evQ' \in Seq(EventType)
  <2> DEFINE ev == [type |-> "error"]
  <2>1. ev \in EventType /\ evQ' = Append(evQ, ev)
    BY EventsMade DEF WorkerFails
  <2> HIDE DEF ev
  <2> QED BY <2>1, AppendEvent DEF TypeInv
<1>4. HeldOK(worker)'
  <2>1. worker' = [worker EXCEPT !.state = "dead"]
    BY DEF WorkerFails
  <2> QED BY <2>1 DEF TypeInv, HeldOK, WorkerType
<1> QED BY <1>1, <1>2, <1>3, <1>4 DEF TypeInv

LEMMA CommandAhead ==
    ASSUME TypeInv, NEW type, Command(type)
    PROVE  /\ Head(cmdQ) \in Commands /\ Head(cmdQ) = cmdQ[1] /\ Head(cmdQ).type = type
           /\ cmdQ' = Tail(cmdQ) => CommandsOK'
BY NextCommand DEF Command, TypeInv

\* The audio of a command follows what the worker held.
LEMMA FedHeld ==
    ASSUME HeldOK(worker), NEW cmd \in Commands, cmd.type = "feed"
    PROVE  /\ HeldOK(Fed(cmd)) /\ Fed(cmd).decided = worker.decided
           /\ Fed(cmd).spoken = worker.spoken /\ Fed(cmd).frontier = worker.frontier
           /\ Fed(cmd).state = worker.state /\ Fed(cmd).family = worker.family
           /\ Len(Fed(cmd).heard) = Len(worker.heard) + cmd.len
           /\ \A i \in 1 .. Len(worker.heard) : Fed(cmd).heard[i] = worker.heard[i]
           /\ \A i \in Len(worker.heard) + 1 .. Len(worker.heard) + cmd.len :
                 /\ Fed(cmd).heard[i].stream = cmd.stream
                 /\ Fed(cmd).heard[i].at = IF cmd.from = NoTime THEN NoTime
                                           ELSE cmd.from + (i - Len(worker.heard)) - 1
<1>1. cmd.len \in Nat /\ cmd.from \in Time /\ cmd.stream \in Nat
  BY CommandFields
<1> DEFINE tick(i) == [at |-> IF cmd.from = NoTime THEN NoTime ELSE cmd.from + i - 1, stream |-> cmd.stream]
           len == cmd.len
           new == [i \in 1 .. len |-> tick(i)]
<1>2. ASSUME NEW i \in 1 .. len PROVE tick(i) \in Tick /\ tick(i).stream = cmd.stream
  <2>1. (IF cmd.from = NoTime THEN NoTime ELSE cmd.from + i - 1) \in Time
    BY <1>1, <1>2 DEF Time, NoTime
  <2> QED BY <1>1, <2>1 DEF Tick
<1>3. len \in Nat
  BY <1>1
<1>4. /\ new \in Seq(Tick) /\ Len(new) = len
      /\ \A i \in 1 .. len : /\ new[i].stream = cmd.stream
                             /\ new[i].at = IF cmd.from = NoTime THEN NoTime ELSE cmd.from + i - 1
  <2>1. \A i \in 1 .. len : tick(i).at = IF cmd.from = NoTime THEN NoTime ELSE cmd.from + i - 1
    OBVIOUS
  <2> HIDE DEF tick, len
  <2> QED BY <1>2, <1>3, <2>1
<1>5. Fed(cmd) = [worker EXCEPT !.heard = @ \o new]
  BY DEF Fed
<1> HIDE DEF new, len
<1> DEFINE old == worker.heard
           heard == old \o new
<1>6. old \in Seq(Tick) /\ worker \in WorkerType
  BY DEF HeldOK, WorkerType
<1>7. /\ heard \in Seq(Tick) /\ Len(heard) = Len(old) + len
      /\ \A i \in 1 .. Len(old) + len : heard[i] = IF i <= Len(old) THEN old[i] ELSE new[i - Len(old)]
  BY <1>4, <1>6, ConcatProperties
<1>8. Fed(cmd) = [worker EXCEPT !.heard = heard]
  BY <1>5
<1> HIDE DEF heard
<1>9. /\ Fed(cmd) \in WorkerType /\ Fed(cmd).heard = heard /\ Fed(cmd).decided = worker.decided
      /\ Fed(cmd).spoken = worker.spoken /\ Fed(cmd).frontier = worker.frontier
      /\ Fed(cmd).state = worker.state /\ Fed(cmd).family = worker.family
  BY <1>6, <1>7, <1>8 DEF WorkerType
<1>10. Len(old) \in Nat /\ worker.decided <= Len(old) /\ worker.spoken <= worker.decided /\ worker.decided \in Nat
  BY <1>6 DEF HeldOK, WorkerType
<1>11. HeldOK(Fed(cmd))
  <2>1. worker.decided <= Len(heard)
    BY <1>3, <1>7, <1>10
  <2> QED BY <1>9, <1>10, <2>1 DEF HeldOK
<1>12. \A i \in 1 .. Len(old) : heard[i] = old[i]
  BY <1>3, <1>7, <1>10
<1>13. \A i \in Len(old) + 1 .. Len(old) + len :
          /\ heard[i].stream = cmd.stream
          /\ heard[i].at = IF cmd.from = NoTime THEN NoTime ELSE cmd.from + (i - Len(old)) - 1
  <2> SUFFICES ASSUME NEW i \in Len(old) + 1 .. Len(old) + len
               PROVE  /\ heard[i].stream = cmd.stream
                      /\ heard[i].at = IF cmd.from = NoTime THEN NoTime ELSE cmd.from + (i - Len(old)) - 1
    OBVIOUS
  <2>1. i - Len(old) \in 1 .. len /\ i \in 1 .. Len(old) + len /\ ~(i <= Len(old))
    BY <1>3, <1>10
  <2>2. heard[i] = new[i - Len(old)]
    BY <1>7, <2>1
  <2> QED BY <1>4, <2>1, <2>2
<1> QED BY <1>7, <1>9, <1>11, <1>12, <1>13 DEF len

\* A run reports its rows, if any, and the watermark.
RunReports(w, rows, frontier) ==
    evQ' = evQ \o (IF rows = <<>> THEN <<>> ELSE <<WordsEvent(w, rows)>>) \o <<Progress(frontier)>>

LEMMA ReportsTyped ==
    ASSUME evQ \in Seq(EventType), NEW w, w.heard \in Seq(Tick), NEW rows \in Seq(Row),
           \A i \in DOMAIN rows : rows[i].t0 < Len(w.heard), NEW frontier \in Nat,
           RunReports(w, rows, frontier)
    PROVE  evQ' \in Seq(EventType)
<1> DEFINE words == WordsEvent(w, rows)
           front == IF rows = <<>> THEN <<>> ELSE <<words>>
           progress == Progress(frontier)
<1>1. words \in EventType /\ progress \in EventType
  BY WordsMade, EventsMade
<1>2. evQ' = (evQ \o front) \o <<progress>>
  BY DEF RunReports
<1> HIDE DEF words, progress
<1>3. front \in Seq(EventType) /\ <<progress>> \in Seq(EventType)
  BY <1>1
<1> HIDE DEF front
<1>4. evQ \o front \in Seq(EventType)
  BY <1>3, ConcatProperties
<1> QED BY <1>2, <1>3, <1>4, ConcatProperties

LEMMA SpokenBounded ==
    ASSUME NEW w, w.decided \in Nat, w.spoken \in Nat, w.spoken <= w.decided, w.heard \in Seq(Tick),
           NEW to \in Nat, w.decided <= to, NEW rows \in Rows(w, to)
    PROVE  Spoken(w, rows) \in Nat /\ Spoken(w, rows) <= to
<1>1. rows \in Seq(Row) /\ \A i \in DOMAIN rows : rows[i].t0 < Len(w.heard) /\ rows[i].t1 <= to
  BY RowsTyped
<1>2. CASE rows = <<>>
  BY <1>2 DEF Spoken
<1>3. CASE rows # <<>>
  <2>1. Len(rows) \in DOMAIN rows
    BY <1>1, <1>3, EmptySeq
  <2>2. rows[Len(rows)] \in Row /\ rows[Len(rows)].t1 <= to
    BY <1>1, <2>1, ElementOfSeq
  <2> QED BY <1>3, <2>2 DEF Spoken, Row
<1> QED BY <1>2, <1>3

LEMMA WorkerFeedType ==
    ASSUME TypeInv, WorkerFeed
    PROVE  TypeInv'
<1>1. /\ ElementOK'
      /\ todo' \in Seq(StepType)
      /\ StateOK'
      /\ cancel' \in BOOLEAN
      /\ ObservedOK'
  BY DEF TypeInv, WorkerFeed, WorkerKeeps, Quiet, ElementOK, element, StateOK, state, ObservedOK
<1> DEFINE cmd == Head(cmdQ)
           w == Fed(cmd)
<1>2. cmd \in Commands /\ cmd.type = "feed" /\ CommandsOK'
  BY CommandAhead DEF WorkerFeed
<1> HIDE DEF cmd
<1>3. HeldOK(w)
  BY <1>2, FedHeld DEF TypeInv
<1>4. /\ w \in WorkerType /\ w.heard \in Seq(Tick) /\ w.decided \in Nat /\ w.spoken \in Nat
      /\ w.frontier \in Nat /\ w.spoken <= w.decided /\ w.decided <= Len(w.heard)
  BY <1>3 DEF HeldOK, WorkerType
<1>5. CASE UNCHANGED <<worker, evQ>>
  BY <1>1, <1>2, <1>5 DEF TypeInv, HeldOK
<1>6. CASE worker' = w /\ UNCHANGED evQ
  BY <1>1, <1>2, <1>3, <1>6 DEF TypeInv
<1>7. ASSUME NEW to \in w.decided .. Len(w.heard), NEW rows \in Rows(w, to),
             worker' = [w EXCEPT !.decided = to, !.spoken = Spoken(w, rows), !.frontier = Watermark(w, to)],
             RunReports(w, rows, Watermark(w, to))
      PROVE  TypeInv'
  <2> HIDE DEF w
  <2>1. to \in Nat /\ w.decided <= to /\ to <= Len(w.heard)
    BY <1>4, <1>7
  <2>2. rows \in Seq(Row) /\ \A i \in DOMAIN rows : rows[i].t0 < Len(w.heard)
    BY <1>4, <1>7, <2>1, RowsTyped
  <2> DEFINE spoken == Spoken(w, rows)
             frontier == Watermark(w, to)
  <2>3. spoken \in Nat /\ spoken <= to
    BY <1>4, <1>7, <2>1, SpokenBounded
  <2>4. frontier \in Nat
    BY <1>4, <2>1 DEF Watermark, Later
  <2>5. RunReports(w, rows, frontier) /\ worker' = [w EXCEPT !.decided = to, !.spoken = spoken, !.frontier = frontier]
    BY <1>7
  <2> HIDE DEF spoken, frontier
  <2>6. evQ' \in Seq(EventType)
    BY <1>4, <2>2, <2>4, <2>5, ReportsTyped DEF TypeInv
  <2>7. HeldOK(worker')
    BY <1>4, <2>1, <2>3, <2>4, <2>5 DEF HeldOK, WorkerType
  <2> QED BY <1>1, <1>2, <2>6, <2>7 DEF TypeInv
<1>8. \/ UNCHANGED <<worker, evQ>>
      \/ worker' = w /\ UNCHANGED evQ
      \/ \E to \in w.decided .. Len(w.heard) : \E rows \in Rows(w, to) :
            /\ worker' = [w EXCEPT !.decided = to, !.spoken = Spoken(w, rows), !.frontier = Watermark(w, to)]
            /\ RunReports(w, rows, Watermark(w, to))
  <2>1. w = Fed(Head(cmdQ))
    BY DEF cmd
  <2> HIDE DEF w
  <2> QED BY <2>1 DEF WorkerFeed, RunReports
<1> HIDE DEF w
<1> QED BY <1>5, <1>6, <1>7, <1>8

\* What a worker holds after a finalize or a restart.
LEMMA ClearedHeld ==
    ASSUME HeldOK(worker)
    PROVE  HeldOK(FreshStream) /\ HeldOK(Drained) /\ HeldOK([FreshStream EXCEPT !.frontier = worker.frontier])
<1> DEFINE none == <<>>
           len == Len(worker.heard)
<1>1. none \in Seq(Tick) /\ Len(none) = 0
  OBVIOUS
<1>2. FreshStream = [worker EXCEPT !.heard = none, !.decided = 0, !.spoken = 0, !.frontier = 0]
  BY DEF FreshStream
<1>3. len \in Nat
  BY DEF HeldOK, WorkerType
<1>4. Drained = [worker EXCEPT !.decided = len, !.spoken = len]
  BY DEF Drained
<1> HIDE DEF none, len
<1>5. FreshStream \in WorkerType /\ FreshStream.heard = none /\ FreshStream.decided = 0 /\ FreshStream.spoken = 0
  BY <1>1, <1>2 DEF HeldOK, WorkerType
<1>6. HeldOK(FreshStream)
  BY <1>1, <1>5 DEF HeldOK
<1>7. HeldOK(Drained)
  <2>1. /\ Drained \in WorkerType /\ Drained.heard = worker.heard
        /\ Drained.decided = len /\ Drained.spoken = len
    BY <1>3, <1>4 DEF HeldOK, WorkerType
  <2> QED BY <1>3, <2>1 DEF HeldOK, len
<1> DEFINE fresh == FreshStream
<1> HIDE DEF fresh
<1>8. HeldOK([fresh EXCEPT !.frontier = worker.frontier])
  <2>1. fresh \in WorkerType /\ fresh.heard = none /\ fresh.decided = 0 /\ fresh.spoken = 0
    BY <1>5 DEF fresh
  <2>2. worker.frontier \in Nat
    BY DEF HeldOK, WorkerType
  <2> QED BY <1>1, <2>1, <2>2 DEF HeldOK, WorkerType
<1> QED BY <1>6, <1>7, <1>8 DEF fresh

\* A finalize that was not cut short reports its rows, the watermark and its end.
FinalizeReports(rows, audio) ==
    evQ' = evQ \o <<WordsEvent(worker, rows), Progress(audio), [type |-> "drained"]>>

LEMMA WorkerFinalizeType ==
    ASSUME TypeInv, WorkerFinalize
    PROVE  TypeInv'
<1>1. /\ ElementOK'
      /\ todo' \in Seq(StepType)
      /\ StateOK'
      /\ cancel' \in BOOLEAN
      /\ ObservedOK'
  BY DEF TypeInv, WorkerFinalize, WorkerKeeps, Quiet, ElementOK, element, StateOK, state, ObservedOK
<1>2. CommandsOK'
  BY CommandAhead DEF WorkerFinalize
<1>3. HeldOK(worker)'
  <2>1. worker' = FreshStream \/ worker' = Drained
    BY DEF WorkerFinalize
  <2> QED BY <2>1, ClearedHeld DEF TypeInv
<1>4. evQ' \in Seq(EventType)
  <2> DEFINE drained == [type |-> "drained"]
             audio == Len(worker.heard)
  <2>1. drained \in EventType
    BY EventsMade
  <2>2. evQ \in Seq(EventType) /\ HeldOK(worker)
    BY DEF TypeInv
  <2>3. CASE evQ' = Append(evQ, drained)
    <3> HIDE DEF drained
    <3> QED BY <2>1, <2>2, <2>3, AppendEvent
  <2>4. ASSUME NEW rows \in Rows(worker, audio), FinalizeReports(rows, audio)
        PROVE  evQ' \in Seq(EventType)
    <3>1. audio \in Nat /\ worker.heard \in Seq(Tick) /\ worker.decided \in Nat /\ worker.spoken \in Nat
      BY <2>2 DEF HeldOK, WorkerType
    <3>2. rows \in Seq(Row) /\ \A i \in DOMAIN rows : rows[i].t0 < Len(worker.heard)
      BY <2>4, <3>1, RowsTyped
    <3> DEFINE words == WordsEvent(worker, rows)
               progress == Progress(audio)
    <3>3. words \in EventType /\ progress \in EventType
      BY <3>1, <3>2, WordsMade, EventsMade
    <3>4. evQ' = evQ \o <<words, progress, drained>>
      BY <2>4 DEF FinalizeReports
    <3> HIDE DEF words, progress, drained
    <3>5. <<words, progress, drained>> \in Seq(EventType)
      BY <2>1, <3>3
    <3> QED BY <2>2, <3>4, <3>5, ConcatProperties
  <2> QED BY <2>3, <2>4 DEF WorkerFinalize, AbortedDrain, FinalizeReports
<1> QED BY <1>1, <1>2, <1>3, <1>4 DEF TypeInv

LEMMA WorkerRestartType ==
    ASSUME TypeInv, WorkerRestart
    PROVE  TypeInv'
<1>1. /\ ElementOK'
      /\ todo' \in Seq(StepType)
      /\ StateOK'
      /\ cancel' \in BOOLEAN
      /\ ObservedOK'
  BY DEF TypeInv, WorkerRestart, WorkerKeeps, Quiet, ElementOK, element, StateOK, state, ObservedOK
<1>2. CommandsOK'
  BY CommandAhead DEF WorkerRestart
<1>3. HeldOK(worker)'
  <2>1. worker' = FreshStream \/ worker' = [FreshStream EXCEPT !.frontier = worker.frontier]
    BY DEF WorkerRestart
  <2> QED BY <2>1, ClearedHeld DEF TypeInv
<1>4. evQ' \in Seq(EventType)
  <2> DEFINE ev == [type |-> "restarted"]
  <2>1. ev \in EventType /\ evQ' = Append(evQ, ev)
    BY EventsMade DEF WorkerRestart
  <2> HIDE DEF ev
  <2> QED BY <2>1, AppendEvent DEF TypeInv
<1> QED BY <1>1, <1>2, <1>3, <1>4 DEF TypeInv

-----------------------------------------------------------------------------
\* The application keeps the types.

LEMMA FlushStartType ==
    ASSUME TypeInv, FlushStart
    PROVE  TypeInv'
<1>1. /\ ElementOK'
      /\ todo' \in Seq(StepType)
      /\ StateOK'
      /\ CommandsOK'
      /\ evQ' \in Seq(EventType)
      /\ cancel' \in BOOLEAN
      /\ HeldOK(worker)'
      /\ ObservedOK'
  BY DEF TypeInv, FlushStart, Quiet, ElementOK, element, StateOK, state, CommandsOK, channels, HeldOK, ObservedOK
<1> QED BY <1>1 DEF TypeInv

LEMMA ForwardFlushStartType ==
    ASSUME TypeInv, ForwardFlushStart
    PROVE  TypeInv'
<1>1. /\ ElementOK'
      /\ todo' \in Seq(StepType)
      /\ StateOK'
      /\ CommandsOK'
      /\ evQ' \in Seq(EventType)
      /\ cancel' \in BOOLEAN
      /\ HeldOK(worker)'
      /\ ObservedOK'
  BY DEF TypeInv, ForwardFlushStart, Quiet, ElementOK, element, StateOK, state, CommandsOK, channels, HeldOK, ObservedOK
<1> QED BY <1>1 DEF TypeInv

LEMMA PausedToReadyType ==
    ASSUME TypeInv, PausedToReady
    PROVE  TypeInv'
<1>1. /\ ElementOK'
      /\ todo' \in Seq(StepType)
      /\ StateOK'
      /\ CommandsOK'
      /\ evQ' \in Seq(EventType)
      /\ cancel' \in BOOLEAN
      /\ HeldOK(worker)'
      /\ ObservedOK'
  BY DEF TypeInv, PausedToReady, Quiet, ElementOK, element, StateOK, state, CommandsOK, channels, HeldOK, ObservedOK
<1> QED BY <1>1 DEF TypeInv

LEMMA DeactivateSrcType ==
    ASSUME TypeInv, DeactivateSrc
    PROVE  TypeInv'
<1>1. /\ ElementOK'
      /\ todo' \in Seq(StepType)
      /\ StateOK'
      /\ CommandsOK'
      /\ evQ' \in Seq(EventType)
      /\ cancel' \in BOOLEAN
      /\ HeldOK(worker)'
      /\ ObservedOK'
  BY DEF TypeInv, DeactivateSrc, Quiet, ElementOK, element, StateOK, state, CommandsOK, channels, HeldOK, ObservedOK
<1> QED BY <1>1 DEF TypeInv

LEMMA DeactivateSinkType ==
    ASSUME TypeInv, DeactivateSink
    PROVE  TypeInv'
<1>1. /\ ElementOK'
      /\ todo' \in Seq(StepType)
      /\ StateOK'
      /\ CommandsOK'
      /\ evQ' \in Seq(EventType)
      /\ cancel' \in BOOLEAN
      /\ HeldOK(worker)'
      /\ ObservedOK'
  BY DEF TypeInv, DeactivateSink, Quiet, ElementOK, element, StateOK, state, CommandsOK, channels, HeldOK, ObservedOK
<1> QED BY <1>1 DEF TypeInv

LEMMA ReadyToPausedType ==
    ASSUME TypeInv, ReadyToPaused
    PROVE  TypeInv'
<1>1. /\ ElementOK'
      /\ todo' \in Seq(StepType)
      /\ StateOK'
      /\ CommandsOK'
      /\ evQ' \in Seq(EventType)
      /\ cancel' \in BOOLEAN
      /\ HeldOK(worker)'
      /\ ObservedOK'
  BY DEF TypeInv, ReadyToPaused, Time, ElementOK, element, StateOK, state, CommandsOK, channels, HeldOK, ObservedOK
<1> QED BY <1>1 DEF TypeInv

LEMMA ReadyToNullType ==
    ASSUME TypeInv, ReadyToNull
    PROVE  TypeInv'
<1>1. /\ ElementOK'
      /\ todo' \in Seq(StepType)
      /\ cancel' \in BOOLEAN
  BY DEF TypeInv, ReadyToNull, ElementOK, element
<1>2. StateOK'
  BY DEF TypeInv, ReadyToNull, Time, StateOK, state
<1>3. ObservedOK'
  BY DEF ReadyToNull, Silent, TypeInv, ObservedOK
<1>4. /\ CommandsOK' /\ evQ' \in Seq(EventType)
  <2>1. cmdQ' = <<>> /\ evQ' = <<>>
    BY DEF ReadyToNull
  <2>2. <<>> \in Seq(Commands) /\ <<>> \in Seq(EventType) /\ Len(<<>>) = 0
    OBVIOUS
  <2> QED BY <2>1, <2>2, TranscriberAssumption DEF CommandsOK
<1>5. HeldOK(worker)'
  <2>1. worker.family \in Family
    BY DEF TypeInv, HeldOK, WorkerType
  <2> QED BY <2>1, NewWorkerHeld DEF ReadyToNull
<1> QED BY <1>1, <1>2, <1>3, <1>4, <1>5 DEF TypeInv

LEMMA NullToReadyType ==
    ASSUME TypeInv, NullToReady
    PROVE  TypeInv'
<1>1. /\ ElementOK'
      /\ todo' \in Seq(StepType)
      /\ StateOK'
      /\ CommandsOK'
      /\ evQ' \in Seq(EventType)
      /\ cancel' \in BOOLEAN
      /\ ObservedOK'
  BY DEF TypeInv, NullToReady, Quiet, ElementOK, element, StateOK, state, CommandsOK, channels, ObservedOK
<1>2. HeldOK(worker)'
  BY NewWorkerHeld, TranscriberAssumption DEF NullToReady
<1> QED BY <1>1, <1>2 DEF TypeInv

-----------------------------------------------------------------------------
LEMMA InitType == Init => TypeInv
<1> SUFFICES ASSUME Init PROVE TypeInv
  OBVIOUS
<1>1. ElementOK /\ StateOK /\ ObservedOK /\ cancel \in BOOLEAN
  BY DEF Init, ElementOK, StateOK, ObservedOK, Time
<1>2. todo = <<>> /\ cmdQ = <<>> /\ evQ = <<>>
  BY DEF Init
<1>3. <<>> \in Seq(StepType) /\ <<>> \in Seq(Commands) /\ <<>> \in Seq(EventType) /\ Len(<<>>) = 0
  OBVIOUS
<1>4. HeldOK(worker)
  BY NewWorkerHeld, TranscriberAssumption DEF Init
<1> QED BY <1>1, <1>2, <1>3, <1>4, TranscriberAssumption DEF TypeInv, CommandsOK

LEMMA StutterType ==
    ASSUME TypeInv, UNCHANGED vars
    PROVE  TypeInv'
BY DEF TypeInv, vars, element, state, channels, observed, ElementOK, StateOK, CommandsOK, HeldOK, ObservedOK

LEMMA NextType ==
    ASSUME TypeInv, [Next]_vars
    PROVE  TypeInv'
<1>1. CASE Upstream
  <2>1. \A n \in FirstPts .. MaxPts : n \in Nat
    BY TranscriberAssumption
  <2>2. Durations \subseteq Nat
    BY TranscriberAssumption
  <2>3. ASSUME NEW pts \in FirstPts .. MaxPts, NEW end \in FirstPts .. MaxPts, InputGap(pts, end)
        PROVE  TypeInv'
    BY <2>1, <2>3, InputGapType
  <2>4. ASSUME NEW pts \in FirstPts .. MaxPts, NEW len \in Durations, NEW flagged \in BOOLEAN,
               Chain(pts, len, flagged)
        PROVE  TypeInv'
    BY <2>1, <2>2, <2>4, ChainType
  <2> QED BY <1>1, <2>3, <2>4, CapsType, SegmentType, EosType, FlushStopType DEF Upstream
<1>2. CASE Streaming
  <2>1. ASSUME NEW kept \in 1 .. MaxPts, OpenGate(kept) PROVE TypeInv'
    BY <2>1, OpenGateType
  <2> QED BY <1>2, <2>1, DoFinalizeType, DoRestartType, DoFeedType, DoBridgeType, WithholdType,
             PassThroughType, DoPlanGapType, DoInputGapType, ForwardSegmentType, ForwardEosType,
             ForwardFlushStopType, AwaitReadyType, TakeWordsType, TakeProgressType, TakeMarkerType,
             TakeErrorType, DrainEndsType DEF Streaming
<1>3. CASE Worker \/ WorkerFails
  BY <1>3, WorkerLoadsType, WorkerFeedType, WorkerFinalizeType, WorkerRestartType, WorkerFailsType DEF Worker
<1>4. CASE Application
  BY <1>4, FlushStartType, ForwardFlushStartType, PausedToReadyType, DeactivateSrcType,
     DeactivateSinkType, ReadyToPausedType, ReadyToNullType, NullToReadyType DEF Application
<1> QED BY <1>1, <1>2, <1>3, <1>4, StutterType DEF Next

LEMMA TypeInvGivesTypeOK == TypeInv => TypeOK
<1> SUFFICES ASSUME TypeInv PROVE TypeOK
  OBVIOUS
<1>1. \A i \in DOMAIN evQ : IsResult(evQ[i])
  BY EventFields, ElementOfSeq DEF TypeInv
<1>2. /\ worker.state \in {"loading", "idle", "dead"} /\ worker.family \in Family
      /\ worker.heard \in Seq(Tick) /\ worker.decided \in 0 .. Len(worker.heard)
      /\ worker.spoken \in 0 .. worker.decided /\ worker.frontier \in Nat
  <2>1. /\ worker.state \in {"loading", "idle", "dead"} /\ worker.family \in Family
        /\ worker.heard \in Seq(Tick) /\ worker.decided \in Nat /\ worker.spoken \in Nat
        /\ worker.frontier \in Nat /\ worker.decided <= Len(worker.heard) /\ worker.spoken <= worker.decided
    BY DEF TypeInv, HeldOK, WorkerType
  <2> QED BY <2>1
<1>3. ElementOK /\ StateOK /\ CommandsOK /\ ObservedOK /\ cancel \in BOOLEAN
  BY DEF TypeInv
<1> QED BY <1>1, <1>2, <1>3 DEF TypeOK, ElementOK, StateOK, CommandsOK, ObservedOK

\* The element, the channels and the worker hold what they are declared to hold:
\* the command channel never more than its capacity, and never a row that starts
\* outside the audio it was committed for.
THEOREM TypeCorrect == Spec => []TypeOK
<1>1. TypeInv /\ [Next]_vars => TypeInv'
  BY NextType
<1>2. Init => TypeInv
  BY InitType
<1>3. TypeInv => TypeOK
  BY TypeInvGivesTypeOK
<1> QED BY <1>1, <1>2, <1>3, PTL DEF Spec
=============================================================================
