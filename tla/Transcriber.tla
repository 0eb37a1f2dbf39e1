---------------------------- MODULE Transcriber ----------------------------
(***************************************************************************)
(* transcribecpptranscriber: audio in, timed text and GAP events out       *)
(* (transcribe-cpp/src/transcriber/imp.rs and worker.rs).  Three threads   *)
(* meet here: the streaming thread, which holds the sink pad's stream lock *)
(* and runs one handler at a time; the inference worker, behind a bounded  *)
(* command channel and an unbounded event channel; and the application     *)
(* thread, which flushes and changes state without that lock.              *)
(*                                                                         *)
(* A handler is the sequence `todo` of the steps it has still to do.  Each *)
(* step belongs to the call (`scope`) an error in it returns from.         *)
(***************************************************************************)
EXTENDS TimedText, FiniteSets

CONSTANTS
    Families,     \* the model families that may be loaded
    Overrun,      \* "block" or "drop"
    QueueLen,     \* capacity of the command channel
    Threshold,    \* discont_threshold
    Warmup,       \* length of the priming chunk
    Preroll,      \* audio the gate keeps behind the frame that opens it
    Features,     \* what the environment does, see below
    FirstPts, MaxPts, Durations, \* bound: buffers lie in FirstPts .. MaxPts
    MinRow,       \* the shortest row the model commits
    MaxRows,      \* bound: rows committed at once
    MaxStreams    \* bound: streams and flushes

\* "gate": the vad property is on.  "gap", "eos": input events.  "discont":
\* DISCONT flags and forward jumps, "backward": jumps back.  "flush": flushes
\* once caps are negotiated, "earlyflush": before that too.  "stop": state
\* changes.  "fail": native errors.
AllFeatures == {"gate", "gap", "eos", "discont", "backward", "flush", "earlyflush", "stop", "fail"}

\* What tells the families apart: the mode the worker resolves for one, and
\* whether it times its words (aligned is FALSE for timestamp kind "none").
Family == [mode : {"stream", "chunked"}, aligned : BOOLEAN]

ASSUME TranscriberAssumption ==
    /\ Families \subseteq Family
    /\ Overrun \in {"block", "drop"}
    /\ QueueLen \in Nat \ {0}
    /\ Threshold \in Nat /\ Warmup \in Nat /\ Preroll \in Nat
    /\ Features \subseteq AllFeatures
    /\ FirstPts \in Nat /\ MaxPts \in Nat /\ Durations \subseteq Nat
    /\ MinRow \in Nat /\ MaxRows \in Nat /\ MaxStreams \in Nat

VARIABLES
    phase,        \* "null", "ready", "paused" or "stopping" (PausedToReady)
    sinkFlush, srcFlush, \* the pads are flushing or inactive
    due,          \* what upstream must send next: "caps", "segment", or "data"
    todo,         \* the streaming thread's handler
    ready,        \* State.info.is_some()
    base, outPts, committed, nextPts, dropped, \* State
    gate, gateSeen,  \* State.gate, and the samples it saw since it was armed
    cmdQ, evQ,    \* the channels
    cancel,       \* the CancelToken
    worker        \* the inference thread

VARIABLES         \* what an observer has seen; no code state
    inputEnd,     \* end of upstream's last buffer or GAP in this segment
    out,          \* what the last step pushed downstream
    edge,         \* end of the coverage pushed since the last segment or flush
    gapEnd,       \* end of the last GAP of that coverage
    stream        \* how often the timeline was reset

element == <<phase, sinkFlush, srcFlush, due>>
state == <<ready, base, outPts, committed, nextPts, dropped, gate, gateSeen>>
channels == <<cmdQ, evQ>>
observed == <<inputEnd, out, edge, gapEnd, stream>>
vars == <<element, todo, state, channels, cancel, worker, observed>>

-----------------------------------------------------------------------------
Nothing == [event |-> "none", cover |-> <<>>]
Event(kind) == [event |-> kind, cover |-> <<>>]

Gap(from, to) == [kind |-> "gap", start |-> from, end |-> to]

\* A pushed word: besides its buffer, where its row lies on the timeline
\* (planned), where its audio lay (real), and the stream it was fed in.
Word(slot, planned, audio) ==
    [kind |-> "word", start |-> slot.pts, end |-> slot.end,
     planned |-> planned, real |-> audio.at, fedIn |-> audio.stream]

\* What arrives of it downstream: nothing while the src pad is flushing.
Publish(cover) ==
    IF srcFlush \/ cover = <<>> THEN out' = Nothing /\ UNCHANGED <<edge, gapEnd>>
    ELSE /\ out' = [event |-> "none", cover |-> cover]
         /\ edge' = cover[Len(cover)].end
         /\ gapEnd' = LET gaps == {i \in DOMAIN cover : cover[i].kind = "gap"}
                      IN  IF gaps = {} THEN gapEnd
                          ELSE cover[CHOOSE i \in gaps : \A j \in gaps : j <= i].end

GapCover(from, to) == IF to > from THEN <<Gap(from, to)>> ELSE <<>>

Step(op, scope) == [op |-> op, scope |-> scope]
Feed(len, from) == [op |-> "feed", scope |-> "chain", len |-> len, from |-> from]

\* An error returns from the call the step belongs to: its steps come first.
InCall(i) == \A j \in 1 .. i : todo[j].scope = todo[1].scope
Abandon ==
    \E n \in DOMAIN todo :
        /\ InCall(n) /\ (n < Len(todo) => ~InCall(n + 1))
        /\ todo' = SubSeq(todo, n + 1, Len(todo))

NewWorker(family) ==
    [state |-> "loading", family |-> family,
     heard |-> <<>>, decided |-> 0, spoken |-> 0, frontier |-> 0]

Mode == worker.family.mode
Aligned == worker.family.aligned

Init ==
    /\ phase = "paused" /\ sinkFlush = FALSE /\ srcFlush = FALSE /\ due = "caps"
    /\ todo = <<>>
    /\ ready = FALSE /\ base = NoTime /\ outPts = NoTime /\ committed = 0
    /\ nextPts = NoTime /\ dropped = 0 /\ gate = "off" /\ gateSeen = 0
    /\ cmdQ = <<>> /\ evQ = <<>> /\ cancel = FALSE
    /\ \E family \in Families : worker = NewWorker(family)
    /\ inputEnd = NoTime
    /\ out = Nothing /\ edge = NoTime /\ gapEnd = NoTime /\ stream = 0

\* State::reset_timeline.
ResetTimeline ==
    /\ base' = NoTime /\ outPts' = NoTime /\ nextPts' = NoTime /\ committed' = 0
    /\ gate' = IF gate = "off" THEN "off" ELSE "armed"
    /\ gateSeen' = 0
    /\ stream' = stream + 1

-----------------------------------------------------------------------------
\* Handlers start on the streaming thread, one at a time.

Idle == todo = <<>> /\ phase \in {"paused", "stopping"} /\ ~sinkFlush
Quiet == out' = Nothing /\ UNCHANGED <<inputEnd, edge, gapEnd, stream>>
Silent == out' = Nothing /\ UNCHANGED <<edge, gapEnd>>

\* sink_event Caps: ensure_ready.
Caps ==
    /\ Idle /\ due = "caps"
    /\ due' = "segment"
    /\ todo' = <<Step("ensure_ready", "caps")>>
    /\ Quiet
    /\ UNCHANGED <<phase, sinkFlush, srcFlush, state, channels, cancel, worker>>

\* Mutant: what is queued already is taken, and nothing flushed or awaited.
FinalizeQueued(scope) == Step("drain", scope)

Finalize(scope) == Step("finalize", scope)
Restart(scope, discard) == [op |-> "restart", scope |-> scope, discard |-> discard]

\* sink_event Segment.
Segment ==
    /\ Idle /\ due # "caps"
    /\ stream < MaxStreams
    /\ due' = "data"
    /\ todo' = <<Finalize("finalize"), Restart("restart", FALSE), Step("segment", "forward")>>
    /\ Quiet
    /\ UNCHANGED <<phase, sinkFlush, srcFlush, state, channels, cancel, worker>>

\* sink_event Eos and SegmentDone.
Eos ==
    /\ "eos" \in Features
    /\ Idle /\ due = "data"
    /\ due' = "segment"
    /\ todo' = <<Finalize("finalize"), Step("eos", "forward")>>
    /\ Quiet
    /\ UNCHANGED <<phase, sinkFlush, srcFlush, state, channels, cancel, worker>>

\* Where the next input of a segment may start.
Follows(pts, flagged) ==
    /\ FirstPts <= pts
    /\ inputEnd # NoTime =>
          /\ pts < inputEnd => "backward" \in Features
          /\ pts > inputEnd \/ flagged => "discont" \in Features

\* sink_event Gap: the plan is made between finalize and restart.
InputGap(pts, end) ==
    /\ "gap" \in Features
    /\ Idle /\ due = "data"
    /\ stream < MaxStreams
    /\ Follows(pts, FALSE) /\ pts <= end /\ end <= MaxPts
    /\ todo' = <<Finalize("finalize"),
                 [op |-> "plan_gap", scope |-> "plan", from |-> pts, to |-> end],
                 Restart("restart", FALSE)>>
    /\ inputEnd' = end
    /\ Silent
    /\ UNCHANGED <<element, state, channels, cancel, worker, stream>>

\* Mutant: a jump back is not a discontinuity.
DiscontinuousForward(pts, flagged) ==
    nextPts # NoTime /\ (pts > nextPts + Threshold \/ flagged)

Discontinuous(pts, flagged) ==
    nextPts # NoTime /\ (pts > nextPts + Threshold \/ pts + Threshold < nextPts \/ flagged)

\* sink_chain.
Chain(pts, len, flagged) ==
    /\ Idle /\ due = "data"
    /\ Follows(pts, flagged) /\ pts + len <= MaxPts
    /\ LET enter == [op |-> "enter", scope |-> "chain", pts |-> pts, end |-> pts + len]
       IN  IF Discontinuous(pts, flagged)
           THEN /\ stream < MaxStreams
                /\ todo' = <<Finalize("chain"),
                             [op |-> "bridge", scope |-> "chain", pts |-> pts],
                             Restart("chain", FALSE), enter>>
           ELSE todo' = IF ready THEN <<enter>> ELSE <<Step("ensure_ready", "chain"), enter>>
    /\ inputEnd' = pts + len
    /\ Silent
    /\ UNCHANGED <<element, state, channels, cancel, worker, stream>>

\* sink_event FlushStop, which holds the stream lock too.  Restarting throws
\* the results before its marker away.
FlushStop ==
    /\ sinkFlush /\ srcFlush /\ phase # "ready" /\ todo = <<>>
    /\ cancel' = FALSE
    /\ ResetTimeline /\ dropped' = 0
    /\ todo' = <<Restart("restart", TRUE), Step("flush_stop", "forward")>>
    /\ Silent
    /\ UNCHANGED <<element, ready, channels, worker, inputEnd>>

-----------------------------------------------------------------------------
\* The steps of a handler.

Doing(op) == todo # <<>> /\ Head(todo).op = op
Await(marker, scope, discard) ==
    [op |-> "await", scope |-> scope, marker |-> marker, discard |-> discard]

\* Mutant: the channel has no bound.
SendUnbounded(cmd, then) ==
    IF worker.state = "dead" THEN Abandon /\ evQ' = <<>> /\ UNCHANGED cmdQ
    ELSE UNCHANGED evQ /\ cmdQ' = Append(cmdQ, cmd) /\ todo' = then \o Tail(todo)

\* send_cmd: blocks while the channel is full.  Once the worker is gone it
\* fails, and throws its events away up to the reason (worker_died).
SendOrFail(cmd, then) ==
    IF worker.state = "dead" THEN Abandon /\ evQ' = <<>> /\ UNCHANGED cmdQ
    ELSE /\ Len(cmdQ) < QueueLen
         /\ UNCHANGED evQ
         /\ cmdQ' = Append(cmdQ, cmd)
         /\ todo' = then \o Tail(todo)

\* finalize: a stream no audio was given to has nothing to flush.
DoFinalize ==
    /\ Doing("finalize")
    /\ IF base = NoTime THEN todo' = Tail(todo) /\ UNCHANGED channels
       ELSE SendOrFail([type |-> "finalize"], <<Await("drained", Head(todo).scope, FALSE)>>)
    /\ Quiet
    /\ UNCHANGED <<element, state, cancel, worker>>

DoRestart ==
    /\ Doing("restart")
    /\ SendOrFail([type |-> "restart"],
                  <<Await("restarted", Head(todo).scope, Head(todo).discard)>>)
    /\ Quiet
    /\ UNCHANGED <<element, state, cancel, worker>>

\* send_cmd of audio: with overrun=drop a full channel loses the buffer.
DoFeed ==
    /\ Doing("feed")
    /\ IF worker.state # "dead" /\ Overrun = "drop" /\ Len(cmdQ) = QueueLen
       THEN dropped' = dropped + 1 /\ todo' = Tail(todo) /\ UNCHANGED channels
       ELSE /\ SendOrFail([type |-> "feed", len |-> Head(todo).len, from |-> Head(todo).from,
                           stream |-> stream], <<>>)
            /\ UNCHANGED dropped
    /\ Quiet
    /\ UNCHANGED <<element, ready, base, outPts, committed, nextPts, gate, gateSeen,
                   cancel, worker>>

\* bridge_forward_discontinuity.
DoBridge ==
    /\ Doing("bridge")
    /\ todo' = Tail(todo)
    /\ LET pts == Head(todo).pts
       IN  IF Aligned /\ outPts # NoTime /\ pts > outPts
           THEN outPts' = pts /\ Publish(<<Gap(outPts, pts)>>)
           ELSE Silent /\ UNCHANGED outPts
    /\ UNCHANGED <<element, ready, base, committed, nextPts, dropped, gate, gateSeen, channels,
                   cancel, worker, stream, inputEnd>>

\* The gate takes a buffer: withheld, or opened on the last `kept` of the
\* audio it saw.  advance_gate_timeline covers what it withholds.
Withhold ==
    /\ Doing("enter") /\ gate = "armed"
    /\ LET start == Head(todo).pts
           end == Head(todo).end
           from == IF outPts = NoTime THEN start ELSE outPts
       IN  /\ gateSeen' = gateSeen + (end - start)
           /\ nextPts' = end
           /\ IF ~Aligned THEN Silent /\ UNCHANGED outPts
              ELSE IF end < from + Granularity THEN outPts' = from /\ Silent
              ELSE outPts' = end /\ Publish(<<Gap(from, end)>>)
    /\ todo' = Tail(todo)
    /\ UNCHANGED <<element, ready, base, committed, dropped, gate, channels, cancel, worker,
                   stream, inputEnd>>

\* checked_sub: the anchor of the model's clock, never before zero.
Anchor(at, pad) == Later(at - pad, 0)

\* gate_opening_gap.
OpeningCover(at) == IF outPts = NoTime THEN <<>> ELSE GapCover(outPts, at)

\* Audio goes to the model: the first of a stream anchors its timeline.
Admit(at, end, len, pad) ==
    /\ nextPts' = end
    /\ IF base = NoTime
       THEN /\ base' = Anchor(at, pad)
            /\ outPts' = Later(at, outPts)
            /\ Publish(OpeningCover(at))
       ELSE Silent /\ UNCHANGED <<base, outPts>>
    /\ todo' = IF len = 0 THEN Tail(todo)
               ELSE (IF pad > 0 THEN <<Feed(pad, NoTime)>> ELSE <<>>)
                    \o <<Feed(len, at), Step("drain", "chain")>>
    /\ UNCHANGED <<element, ready, committed, dropped, channels, cancel, worker, stream, inputEnd>>

PassThrough ==
    /\ Doing("enter") /\ gate # "armed"
    /\ LET b == Head(todo) IN Admit(b.pts, b.end, b.end - b.pts, 0)
    /\ UNCHANGED <<gate, gateSeen>>

OpenGate(kept) ==
    /\ Doing("enter") /\ gate = "armed"
    /\ LET b == Head(todo)
           seen == gateSeen + (b.end - b.pts)
       IN  /\ kept <= seen /\ kept <= Preroll + (b.end - b.pts)
           /\ Admit(Later(b.end - seen, 0) + (seen - kept), b.end, kept, Warmup)
           /\ gateSeen' = seen
    /\ gate' = "open"

\* The plan for an input GAP is made before the timeline is reset.
DoPlanGap ==
    /\ Doing("plan_gap")
    /\ LET step == Head(todo)
           plan == PlanGap(step.from, step.to, outPts)
       IN  todo' = Append(Tail(todo), [op |-> "input_gap", scope |-> "forward",
                                       from |-> plan.from, to |-> plan.to,
                                       frontier |-> plan.frontier])
    /\ Quiet
    /\ UNCHANGED <<element, state, channels, cancel, worker>>

DoInputGap ==
    /\ Doing("input_gap")
    /\ outPts' = Head(todo).frontier
    /\ Publish(GapCover(Head(todo).from, Head(todo).to))
    /\ todo' = Tail(todo)
    /\ UNCHANGED <<element, ready, base, committed, nextPts, dropped, gate, gateSeen, channels,
                   cancel, worker, stream, inputEnd>>

\* Events forwarded downstream.  A segment and the end of a flush start new
\* coverage.
Forward(kind, passes) ==
    /\ Doing(kind)
    /\ todo' = Tail(todo)
    /\ out' = IF passes THEN Event(kind) ELSE Nothing
    /\ UNCHANGED <<phase, state, channels, cancel, worker, stream>>

ForwardSegment ==
    /\ Forward("segment", ~srcFlush)
    /\ inputEnd' = NoTime /\ edge' = NoTime /\ gapEnd' = NoTime
    /\ UNCHANGED <<sinkFlush, srcFlush, due>>

ForwardEos ==
    /\ Forward("eos", ~srcFlush)
    /\ UNCHANGED <<sinkFlush, srcFlush, due, inputEnd, edge, gapEnd>>

ForwardFlushStop ==
    /\ Forward("flush_stop", phase # "stopping")
    /\ sinkFlush' = FALSE
    /\ srcFlush' = (phase = "stopping")
    /\ due' = IF due = "caps" THEN "caps" ELSE "segment"
    /\ inputEnd' = NoTime /\ edge' = NoTime /\ gapEnd' = NoTime

-----------------------------------------------------------------------------
\* ensure_ready and drain_events: the streaming thread takes the worker's
\* events in order.

Waiting == todo # <<>> /\ Head(todo).op \in {"await", "drain"}
Discards == Head(todo).op = "await" /\ Head(todo).discard

\* ensure_ready: the model's info is awaited once, and arms the gate.
AwaitReady ==
    /\ Doing("ensure_ready")
    /\ IF ready THEN todo' = Tail(todo) /\ UNCHANGED <<ready, gate, evQ>>
       ELSE IF evQ = <<>>
       THEN worker.state = "dead" /\ Abandon /\ UNCHANGED <<ready, gate, evQ>>
       ELSE /\ evQ' = Tail(evQ)
            /\ CASE Head(evQ).type = "ready" ->
                       /\ ready' = TRUE /\ todo' = Tail(todo)
                       /\ gate' = IF Mode = "stream" /\ "gate" \in Features
                                  THEN "armed" ELSE "off"
                 [] Head(evQ).type = "error" -> Abandon /\ UNCHANGED <<ready, gate>>
                 [] OTHER -> UNCHANGED <<ready, gate, todo>>
    /\ Quiet
    /\ UNCHANGED <<element, base, outPts, committed, nextPts, dropped, gateSeen, cmdQ, cancel,
                   worker>>

\* State.out_pts.unwrap_or(base_pts).
Frontier == IF outPts = NoTime THEN base ELSE outPts

\* Each row's buffer, behind the GAP in front of it.
WordsCover(slots, ev) ==
    LET cover[i \in 0 .. Len(slots)] ==
            IF i = 0 THEN <<>>
            ELSE cover[i - 1] \o GapCover(slots[i].from, slots[i].pts)
                 \o <<Word(slots[i], base + ev.rows[i].t0, ev.heard[ev.rows[i].t0 + 1])>>
    IN  cover[Len(slots)]

\* push_words: the first word moves the frontier even if its push fails.
TakeWords ==
    /\ Waiting /\ evQ # <<>> /\ Head(evQ).type = "words"
    /\ evQ' = Tail(evQ)
    /\ LET ev == Head(evQ)
           slots == PlanTimedText(base, Frontier, ev.rows)
       IN  IF Discards \/ base = NoTime \/ ev.rows = <<>>
           THEN Silent /\ UNCHANGED <<todo, outPts>>
           ELSE /\ Publish(WordsCover(slots, ev))
                /\ IF srcFlush THEN outPts' = slots[1].end /\ Abandon
                   ELSE outPts' = slots[Len(slots)].end /\ UNCHANGED todo
    /\ UNCHANGED <<element, ready, base, committed, nextPts, dropped, gate, gateSeen, cmdQ,
                   cancel, worker, stream, inputEnd>>

\* Mutant: the frontier moves although no GAP is published for it.
AdvanceSilently(ms) ==
    committed' = ms /\ outPts' = Later(Frontier, base + ms) /\ Silent

\* Mutant: the GAP starts where the stream does, not at the frontier.
AdvanceFromBase(ms) ==
    /\ committed' = ms
    /\ IF base # NoTime /\ ms >= Granularity
       THEN outPts' = base + ms /\ Publish(<<Gap(base, base + ms)>>)
       ELSE Silent /\ UNCHANGED outPts

\* advance_timeline, to a later committed edge.
Advance(ms) ==
    /\ committed' = ms
    /\ IF base # NoTime /\ base + ms >= Frontier + Granularity
       THEN outPts' = base + ms /\ Publish(<<Gap(Frontier, base + ms)>>)
       ELSE Silent /\ UNCHANGED outPts

\* A family that aligns nothing tiles the timeline with its own buffers.
IgnoresProgress == Discards \/ ~Aligned

TakeProgress ==
    /\ Waiting /\ evQ # <<>> /\ Head(evQ).type = "progress"
    /\ evQ' = Tail(evQ)
    /\ IF IgnoresProgress \/ Head(evQ).ms <= committed
       THEN Silent /\ UNCHANGED <<committed, outPts>>
       ELSE Advance(Head(evQ).ms)
    /\ UNCHANGED <<element, todo, ready, base, nextPts, dropped, gate, gateSeen, cmdQ, cancel,
                   worker, stream, inputEnd>>

\* The markers, and a Ready that nobody waits for any more.
TakeMarker ==
    /\ Waiting /\ evQ # <<>> /\ Head(evQ).type \in {"drained", "restarted", "ready"}
    /\ evQ' = Tail(evQ)
    /\ IF Head(todo).op = "await" /\ Head(todo).marker = Head(evQ).type
       THEN /\ todo' = Tail(todo)
            /\ IF Head(evQ).type = "restarted"
               THEN ResetTimeline
               ELSE UNCHANGED <<base, outPts, nextPts, committed, gate, gateSeen, stream>>
       ELSE UNCHANGED <<todo, base, outPts, nextPts, committed, gate, gateSeen, stream>>
    /\ Silent
    /\ UNCHANGED <<element, ready, dropped, cmdQ, cancel, worker, inputEnd>>

\* An error event, or the worker is gone: the call fails.
TakeError ==
    /\ Waiting
    /\ \/ evQ # <<>> /\ Head(evQ).type = "error" /\ evQ' = Tail(evQ)
       \/ evQ = <<>> /\ worker.state = "dead" /\ UNCHANGED evQ
    /\ Abandon
    /\ Quiet
    /\ UNCHANGED <<element, state, cmdQ, cancel, worker>>

\* drain_events without a marker returns once nothing is queued.
DrainEnds ==
    /\ Doing("drain") /\ evQ = <<>> /\ worker.state # "dead"
    /\ todo' = Tail(todo)
    /\ Quiet
    /\ UNCHANGED <<element, state, channels, cancel, worker>>

Streaming ==
    \/ DoFinalize \/ DoRestart \/ DoFeed \/ DoBridge
    \/ Withhold \/ PassThrough \/ (\E kept \in 1 .. MaxPts : OpenGate(kept))
    \/ DoPlanGap \/ DoInputGap
    \/ ForwardSegment \/ ForwardEos \/ ForwardFlushStop
    \/ AwaitReady \/ TakeWords \/ TakeProgress \/ TakeMarker \/ TakeError \/ DrainEnds

-----------------------------------------------------------------------------
\* The inference worker: each tick of audio it holds, by the time it was at
\* (NoTime for priming silence) and the stream it was fed in (heard), up to
\* where that is decided and up to where rows were committed (spoken), and the
\* watermark it reports (frontier).  The model is external: which rows it
\* commits and how far it is decided are its choice, as long as a later row
\* never starts before the decided edge (CommitTracker::frontier,
\* Window::harvest).

WorkerKeeps == Quiet /\ UNCHANGED <<element, todo, state, cancel>>

Command(type) == worker.state = "idle" /\ cmdQ # <<>> /\ Head(cmdQ).type = type

WorkerLoads ==
    /\ worker.state = "loading"
    /\ evQ' = Append(evQ, [type |-> "ready"])
    /\ worker' = [worker EXCEPT !.state = "idle"]
    /\ WorkerKeeps /\ UNCHANGED cmdQ

\* A native call fails, or a new stream cannot be opened: the reason is the last
\* event.
WorkerFails ==
    /\ "fail" \in Features
    /\ \/ worker.state = "loading"
       \/ worker.state = "idle" /\ Mode = "stream"
       \/ Command("feed") \/ Command("finalize")
    /\ evQ' = Append(evQ, [type |-> "error"])
    /\ worker' = [worker EXCEPT !.state = "dead"]
    /\ WorkerKeeps /\ UNCHANGED cmdQ

\* Rows a run that decides the audio up to `to` may commit: in order, starting
\* inside the audio, not in priming silence, and none before what was decided.
\* Without alignment the new text is one span from the last one's end
\* (take_untimed).
Rows(w, to) ==
    LET audio == Len(w.heard)
        Ordered(rows) ==
            /\ \A i \in DOMAIN rows : rows[i].t0 + MinRow <= rows[i].t1
            /\ \A i \in 2 .. Len(rows) : rows[i - 1].t1 <= rows[i].t0
        Starts == {t \in w.decided .. audio - 1 : w.heard[t + 1].at # NoTime}
        OfLength(n) == [1 .. n -> [t0 : Starts, t1 : w.decided .. to]]
    IN  {<<>>} \cup IF Aligned
                    THEN {rows \in UNION {OfLength(n) : n \in 1 .. MaxRows} : Ordered(rows)}
                    ELSE {<<[t0 |-> t, t1 |-> to]>> :
                             t \in {w.spoken} \cap 0 .. Earlier(audio - 1, to - MinRow)}

Spoken(w, rows) == IF rows = <<>> THEN w.spoken ELSE rows[Len(rows)].t1

WordsEvent(w, rows) == [type |-> "words", rows |-> rows, heard |-> w.heard]
Progress(ms) == [type |-> "progress", ms |-> ms]

\* The worker once it holds the audio of a Feed.
Fed(cmd) ==
    [worker EXCEPT !.heard =
        @ \o [i \in 1 .. cmd.len |->
                   [at |-> IF cmd.from = NoTime THEN NoTime ELSE cmd.from + i - 1,
                    stream |-> cmd.stream]]]

\* Mutant: the row still pending does not hold the watermark back.
WatermarkPastPending(w, to) == Len(w.heard)

\* How far no later row can start: CommitTracker::frontier, Window.frontier_ms.
Watermark(w, to) == Later(w.frontier, to)

\* Feed: a streaming model is given each buffer; a chunked one accumulates
\* audio first, and keeps what an aborted run did not transcribe.
WorkerFeed ==
    /\ Command("feed")
    /\ cmdQ' = Tail(cmdQ)
    /\ LET w == Fed(Head(cmdQ))
       IN  \/ Mode = "stream" /\ cancel /\ UNCHANGED <<worker, evQ>>
           \/ Mode = "chunked" /\ worker' = w /\ UNCHANGED evQ
           \/ /\ ~cancel
              /\ \E to \in w.decided .. Len(w.heard) : \E rows \in Rows(w, to) :
                    LET frontier == Watermark(w, to)
                    IN  /\ worker' = [w EXCEPT !.decided = to, !.spoken = Spoken(w, rows),
                                               !.frontier = frontier]
                        /\ evQ' = evQ \o (IF rows = <<>> THEN <<>> ELSE <<WordsEvent(w, rows)>>)
                                      \o <<Progress(frontier)>>
    /\ WorkerKeeps

\* All audio is accounted for, and its clock goes on.
Drained == [worker EXCEPT !.decided = Len(worker.heard), !.spoken = Len(worker.heard)]

\* Mutant: the clock of the old audio runs on.
FreshStreamKeepsClock == Drained

\* Mutant: the audio held is not thrown away.
FreshStreamKeepsAudio == worker

\* A new native stream, whose clock starts at zero.
FreshStream == [worker EXCEPT !.heard = <<>>, !.decided = 0, !.spoken = 0, !.frontier = 0]

\* Mutant: an aborted finalize is not answered.
AbortedDrainSilent == UNCHANGED evQ

\* An aborted finalize reports nothing but that it is over.
AbortedDrain == evQ' = Append(evQ, [type |-> "drained"])

\* Finalize: everything still held is committed, up to the end of the audio.
\* A streaming model opens a new stream.
WorkerFinalize ==
    /\ Command("finalize")
    /\ cmdQ' = Tail(cmdQ)
    /\ worker' = IF Mode = "stream" THEN FreshStream ELSE Drained
    /\ LET audio == Len(worker.heard)
       IN  IF Mode = "stream" /\ cancel THEN AbortedDrain
           ELSE \E rows \in Rows(worker, audio) :
                  /\ cancel \/ audio = worker.decided => rows = <<>>
                  /\ evQ' = evQ \o <<WordsEvent(worker, rows), Progress(audio),
                                   [type |-> "drained"]>>
    /\ WorkerKeeps

\* Restart of a streaming model replaces the whole stream.  Window::clear keeps
\* frontier_ms.
WorkerRestart ==
    /\ Command("restart")
    /\ cmdQ' = Tail(cmdQ)
    /\ worker' = IF Mode = "stream" THEN FreshStream
                 ELSE [FreshStream EXCEPT !.frontier = worker.frontier]
    /\ evQ' = Append(evQ, [type |-> "restarted"])
    /\ WorkerKeeps

Worker == WorkerLoads \/ WorkerFeed \/ WorkerFinalize \/ WorkerRestart

-----------------------------------------------------------------------------
\* The application thread, which does not take the stream lock.

\* sink_event FlushStart: cancel, then forward.
FlushStart ==
    /\ \/ "flush" \in Features /\ due # "caps"
       \/ "earlyflush" \in Features
    /\ phase = "paused" /\ ~sinkFlush /\ stream < MaxStreams
    /\ sinkFlush' = TRUE /\ cancel' = TRUE
    /\ Quiet
    /\ UNCHANGED <<phase, srcFlush, due, todo, state, channels, worker>>

ForwardFlushStart ==
    /\ sinkFlush /\ ~srcFlush /\ phase = "paused"
    /\ srcFlush' = TRUE
    /\ Quiet
    /\ UNCHANGED <<phase, sinkFlush, due, todo, state, channels, cancel, worker>>

\* change_state PausedToReady cancels, then the pads are deactivated, which
\* waits for the stream lock.
PausedToReady ==
    /\ "stop" \in Features /\ stream < MaxStreams
    /\ phase = "paused"
    /\ phase' = "stopping" /\ cancel' = TRUE
    /\ Quiet
    /\ UNCHANGED <<sinkFlush, srcFlush, due, todo, state, channels, worker>>

DeactivateSrc ==
    /\ phase = "stopping" /\ ~srcFlush
    /\ srcFlush' = TRUE
    /\ Quiet
    /\ UNCHANGED <<phase, sinkFlush, due, todo, state, channels, cancel, worker>>

DeactivateSink ==
    /\ phase = "stopping" /\ srcFlush /\ todo = <<>>
    /\ phase' = "ready" /\ sinkFlush' = FALSE
    /\ Quiet
    /\ UNCHANGED <<srcFlush, due, todo, state, channels, cancel, worker>>

ReadyToPaused ==
    /\ phase = "ready"
    /\ phase' = "paused" /\ srcFlush' = FALSE /\ due' = "caps"
    /\ out' = Nothing /\ inputEnd' = NoTime /\ edge' = NoTime /\ gapEnd' = NoTime
    /\ UNCHANGED <<sinkFlush, todo, state, channels, cancel, worker, stream>>

\* unprepare: the worker is stopped and joined, and the state is dropped.
ReadyToNull ==
    /\ phase = "ready" /\ stream < MaxStreams
    /\ phase' = "null"
    /\ ready' = FALSE /\ base' = NoTime /\ outPts' = NoTime /\ committed' = 0
    /\ nextPts' = NoTime /\ dropped' = 0 /\ gate' = "off" /\ gateSeen' = 0
    /\ cmdQ' = <<>> /\ evQ' = <<>> /\ worker' = [NewWorker(worker.family) EXCEPT !.state = "dead"]
    /\ stream' = stream + 1
    /\ Silent
    /\ UNCHANGED <<sinkFlush, srcFlush, due, todo, cancel, inputEnd>>

\* prepare: a new worker, with a cancel token of its own.
NullToReady ==
    /\ phase = "null"
    /\ phase' = "ready" /\ cancel' = FALSE
    /\ \E family \in Families : worker' = NewWorker(family)
    /\ Quiet
    /\ UNCHANGED <<sinkFlush, srcFlush, due, todo, state, channels>>

-----------------------------------------------------------------------------
Upstream ==
    \/ Caps \/ Segment \/ Eos \/ FlushStop
    \/ \E pts, end \in FirstPts .. MaxPts : InputGap(pts, end)
    \/ \E pts \in FirstPts .. MaxPts, len \in Durations, flagged \in BOOLEAN :
          Chain(pts, len, flagged)

Application ==
    \/ FlushStart \/ ForwardFlushStart
    \/ PausedToReady \/ DeactivateSrc \/ DeactivateSink \/ ReadyToPaused
    \/ ReadyToNull \/ NullToReady

Next == Upstream \/ Streaming \/ Worker \/ WorkerFails \/ Application

Spec == Init /\ [][Next]_vars

\* The streaming thread and the worker run whenever they can; nothing obliges
\* upstream to send or the application to act.
FairSpec == Spec /\ WF_vars(Streaming) /\ WF_vars(Worker)

-----------------------------------------------------------------------------
Time == {NoTime} \cup Nat
Commands == [type : {"feed"}, len : Nat, from : Time, stream : Nat]
            \cup [type : {"finalize", "restart"}]
Tick == [at : Time, stream : Nat]
IsResult(ev) ==
    \/ ev \in [type : {"ready", "restarted", "drained", "error"}]
    \/ ev.type = "progress" /\ ev.ms \in Nat
    \/ /\ ev.type = "words" /\ ev.heard \in Seq(Tick)
       /\ \A i \in DOMAIN ev.rows : ev.rows[i] \in Row /\ ev.rows[i].t0 < Len(ev.heard)

TypeOK ==
    /\ phase \in {"null", "ready", "paused", "stopping"}
    /\ sinkFlush \in BOOLEAN /\ srcFlush \in BOOLEAN
    /\ due \in {"caps", "segment", "data"}
    /\ ready \in BOOLEAN /\ base \in Time /\ outPts \in Time /\ nextPts \in Time
    /\ committed \in Nat /\ dropped \in Nat
    /\ gate \in {"off", "armed", "open"} /\ gateSeen \in Nat
    /\ cmdQ \in Seq(Commands) /\ Len(cmdQ) <= QueueLen
    /\ \A i \in DOMAIN evQ : IsResult(evQ[i])
    /\ cancel \in BOOLEAN
    /\ worker.state \in {"loading", "idle", "dead"} /\ worker.family \in Family
    /\ worker.heard \in Seq(Tick) /\ worker.decided \in 0 .. Len(worker.heard)
    /\ worker.spoken \in 0 .. worker.decided /\ worker.frontier \in Nat
    /\ inputEnd \in Time /\ edge \in Time /\ gapEnd \in Time /\ stream \in Nat

Words(cover) == {cover[i] : i \in {j \in DOMAIN cover : cover[j].kind = "word"}}

\* Where an interval of the cover just pushed has to start.
Expected(cover, i) == IF i = 1 THEN edge ELSE cover[i - 1].end

\* README: "buffers are monotonic and non-overlapping", each with a non-zero
\* duration.  That goes for words and GAPs together, whichever of the four
\* places of the element publishes them.
NeverOverlaps ==
    [][\A i \in DOMAIN out'.cover :
         /\ Expected(out'.cover, i) <= out'.cover[i].start
         /\ out'.cover[i].start < out'.cover[i].end]_vars

\* README: "Initial, internal, and trailing timeline holes become GAP events":
\* within a segment every word and GAP starts where the one before it ended, for
\* every family that times its words.
Contiguous ==
    [][Aligned => \A i \in DOMAIN out'.cover :
                     Expected(out'.cover, i) \in {NoTime, out'.cover[i].start}]_vars

\* A word is placed on the timeline of the stream its audio was fed in: no
\* flush, segment, discontinuity or failed call lets it surface in a later one.
OnItsOwnTimeline == \A w \in Words(out.cover) : w.fedIn = stream

\* advance_timeline: "a gap can never be published over a word that has yet to
\* go out".
GapNeverOverWord == [][\A w \in Words(out'.cover) : gapEnd <= w.planned]_vars

\* vad.rs: "word times still land on the audio they describe", whatever the
\* gate dropped and whatever priming silence the model was given.
OnItsAudio == \A w \in Words(out.cover) : w.planned = w.real

\* At EOS everything the model was given has been covered, up to less than
\* GAP_GRANULARITY, unless a flush or a state change cut it short.
EosDrained ==
    (/\ out.event = "eos" /\ Aligned /\ ~cancel /\ worker.state # "dead" /\ dropped = 0
     /\ base # NoTime /\ inputEnd # NoTime /\ edge # NoTime) =>
        inputEnd < edge + Granularity

\* Every handler returns: whatever is in the channels, the streaming thread and
\* the worker never wait for one another.
HandlerReturns == (todo # <<>>) ~> (todo = <<>>)

-----------------------------------------------------------------------------
\* What the comments promise and the element does not do.

\* "A cancel token fired: the element is flushing and a Restart is already on
\* its way" (worker.rs, Feed).
CancelMeansFlushing == cancel => sinkFlush \/ phase # "paused"

\* "Results produced before the flush are stale; drop them" (FlushStop): once
\* the flush is over, none of them is left in the event channel.
StaleResultsDropped ==
    out.event = "flush_stop" =>
        \A i \in DOMAIN evQ : evQ[i].type # "words" \/ evQ[i].rows = <<>>
=============================================================================
