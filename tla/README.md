# Verification of gst-plugins-darfink

TLA+ models of the caption pipeline of this repository, TLC configurations that
check them on small instances, and proofs checked by TLAPS. Paths below are
relative to `src/`, the root of the repository.

    tlc -workers 2 -config MC_flvsubmux.cfg MCFlvSubMux
    tlapm FlvSubMux_proofs.tla

## 1. The system

Four GStreamer elements. Three form the caption path, the fourth is a source:

    audio --> transcribe-cpp --> textrollup --> flvsubmux(text) --> FLV with captions
    FLV from eflvmux ---------------------> flvsubmux(sink)
    RTMP publisher --> scuffle-rtmp listen source --> FLV

What the caption elements promise each other is *sparse coverage*: timed text
buffers and GAP events tile the timeline, so that the next element never has to
guess whether silence is final or merely late.

| component | state | operations | what makes it correct |
|---|---|---|---|
| transcriber element (`transcribe-cpp/src/transcriber/imp.rs`) | anchor `base_pts`, output frontier `out_pts`, watermark, next expected PTS, VAD gate, `info` | sink chain; events caps, segment, EOS, GAP, flush; state changes; drains worker events | words lie on their own audio; words and GAPs tile; nothing stale after a flush; handlers return |
| inference worker (`worker.rs`) | native stream, audio window, watermark | Feed, Finalize, Restart, Stop; streaming or chunked | each Finalize and Restart answered; watermark never passes a pending row; no word lost or repeated between two windows |
| commit tracker (`commit.rs`) | rows seen, rows released | `take`, `frontier`, settle | no row twice, none lost, in order |
| VAD gate (`vad.rs`) | armed or open, preroll ring, hysteresis | push, open, rearm | cutting the audio into buffers differently changes nothing |
| textrollup (`textrollup/src/rollup/`) | window (done lines, current line), `last_input_end`, GAP frontier, settings | chain, GAP, stream-start, segment, flush-stop, set property, stop | coverage passes through; a clear at its instant; nothing on screen moves |
| flvsubmux (`flvsubmux/src/submux/imp.rs`, `caption.rs`) | media origin and position, loaded text interval, pending transitions, active cue, primed, owed clear | aggregate, segments, flush, EOS, state change | no media before its caption state is known; viewer sees the loaded timeline |
| RTMP listen source (`scuffle-rtmp/src/scufflertmplistensrc/imp.rs`) | flushing and new-stream flags, channel of one, cancel token, ids of publishers, the handler of the live connection | start, unlock, create, stop; accept, publish, media, unpublish, disconnect | start and end events bracket each publisher; stop returns; a lost publisher is withdrawn and the next one accepted |
| RTMP session, chunk reader and writer, handshake, AMF (`scuffle-rtmp/vendor/`) | read and write buffers, chunk headers by id, ack counters | drive, commands, acknowledgement, shutdown | chunk streams never mix; acknowledgements are sent in time; shutdown keeps whole messages |

They interact through GStreamer pads (buffers, GAPs, segments, EOS, flushes),
through two channels between the transcriber's streaming thread and its worker,
and through cancel tokens, state locks and a bounded tokio channel inside the
elements. Hard behaviours, and where they are:

- *interleaving*: FLUSH_START and state changes run on an application thread
  that takes no stream lock, between any two steps of a handler; the worker runs
  freely; `textrollup` copies its settings before it takes its state lock;
- *partial failure*: a handler that fails half way leaves markers and results in
  a channel, or a timeline it has not reset;
- *ordering and boundaries*: coverage, cue transitions and media meet at equal
  times, in nanoseconds on one side and milliseconds on the other;
- *speculation*: the model's text is tentative and cut into rows anew as it grows;
  what is published of it cannot be taken back;
- *progress*: a blocked send, an unanswered Finalize, text queued in front of EOS,
  a stop while the worker waits for a publisher or for room in its channel.

`PROJECT.json` lists the hazards one by one, with their source lines.

## 2. Modules

| module | models |
|---|---|
| `CaptionTimeline` | `caption.rs`: `queue_text`, `drain_ready_ms`, `reset_timeline` as operators on sets of transitions |
| `FlvSubMux` | the aggregator: pad queues, coverage, priming, both EOS, segments, flush, READY to PAUSED |
| `MCFlvSubMux` | symmetry and values for TLC |
| `OrderLemmas` | lemmas about indices and least elements that several proofs use |
| `FlvSubMux_proofs` | theorems about `FlvSubMux`: coverage and types; the caption timeline |
| `TimedText` | `plan_timed_text`, `floor_end`, `plan_gap_after_finalize`, on rows of a model |
| `Transcriber` | the transcriber element, its worker, both channels, the cancel token |
| `Transcriber_proofs`, `TranscriberTimeline_proofs` | theorems about `Transcriber`: types, with lemmas about `TimedText`; the timeline a word lies on, and the audio |
| `MCTranscriber` | instance for TLC |
| `RollupWindow` | `window.rs`: wrapping, freezing, rendering |
| `TextRollup` | the textrollup element and its application thread |
| `TextRollup_proofs` | theorems about `TextRollup`, lemmas about `RollupWindow` |
| `MCTextRollup` | words and geometries for TLC, and the reference wrapping |
| `CommitTracker` | `commit.rs`: which rows of a hypothesis may be published, and the streaming loop that asks |
| `MCCommitTracker` | texts for TLC |
| `ChunkWindow` | `Window` and the chunked loop of `worker.rs`: harvest, trim, watermark |
| `ChunkWindow_proofs` | theorems about `ChunkWindow`: the rows of successive runs, and the watermark |
| `MCChunkWindow` | speech for TLC |
| `VadGate` | `vad.rs`: hysteresis, preroll and release, sample by sample |
| `VadGate_proofs` | theorems about `VadGate` |
| `MCVadGate` | instance for TLC |
| `PublisherLifecycle` | abstract: what downstream may see of publishers |
| `RtmpListenSrc` | the listen source, its worker and the session it drives; implements `PublisherLifecycle` |
| `RtmpListenSrc_proofs` | theorems about `RtmpListenSrc`: types, and the refinement |
| `MCRtmpListenSrc` | instance for TLC |

`FlvSubMux` uses `CaptionTimeline`, `Transcriber` uses `TimedText`, `TextRollup`
uses `RollupWindow`. `CommitTracker`, `ChunkWindow` and `VadGate` stand on their own:
they check the contracts that `Transcriber` takes for granted of its worker, in
either mode, and of its gate.

### FlvSubMux

One action per path through `aggregate`: `ForwardHeader`, `PushMedia` and
`RefuseMedia` for the buffer at the head of the FLV queue, `AwaitText` and
`RefuseText` when its coverage is missing or malformed, `Finish` after FLV EOS.
`FlvSegment`, `TextSegment` and the two EOS events are handled in queue order;
`Flush` and `ReadyToPaused` reset the runtime. The loops that load and consume text
run within one call, so the model finds the index at which they stop (`StopIndex`,
`FinishIndex`) and applies everything before it in that step (`LoadText`). Times are in units of a nanosecond's
role, `UnitsPerMs` of them to a millisecond, so truncation to FLV milliseconds
and saturation at `MaxTimestampMs` are kept. `screen`, `cues`, `orphan` and
`newText` are an observer: an FLV player fed by the output.

### Transcriber

A handler on the streaming thread is a queue `todo` of the steps it has still to
do; each step carries the call (`scope`) an error in it returns from, so a failed
push or send drops exactly the rest of that call. `DoFinalize`, `DoRestart`,
`DoFeed` are the sends; `Await` is `drain_events` with a marker; `TakeWords`,
`TakeProgress`, `TakeMarker`, `TakeError` are its iterations. The worker takes
one command at a time. FLUSH_START sets the cancel token and flushes the pads in
two steps; FLUSH_STOP holds the stream lock as every serialized event does.

The native model is external: which rows it commits, and how far it is decided,
is chosen freely, except that a row never starts in front of the decided edge
(the contract of `CommitTracker::frontier` and `Window::harvest`, checked in
`CommitTracker` and `ChunkWindow`). The family of the model (native stream or chunked, with timed
words or without) is chosen from `Families` whenever a worker is started. Audio is a
sequence of ticks, each remembering the media time and the timeline it was fed
in; `planned`, `real` and `fedIn` of a pushed word are what the properties
compare. Which frames are speech is the environment's choice too: `OpenGate`
keeps any part of what it saw up to the preroll.

Abstractions: a zero discontinuity threshold; no words in priming silence;
a family that reports no progress at all occurs in `CommitTracker` only; a GAP
without duration is left out; `unprepare` is one step, because it joins the worker; the pushes of one
Words event are one step, of which a flush in between lets nothing or all
through downstream while the frontier has moved.

### TextRollup

`Enter` is the start of a handler, which copies the settings; the `Handle...`
actions are what it does under the state lock; `PushNext` pushes one item of its
`Vec<Out>` after the lock is released, and a refused buffer drops the rest as `?`
does. `SetProperty` and `ApplySettings` are the two critical sections of
`set_property`, so a handler may run in between. A word is its width and whether
it ends a sentence. Left out: buffers refused with an error, GAPs without
duration, the latency query, and clear-after changing while playing.

### CommitTracker

The tracker is translated as operators on its record: `AlignUnits` finds the rows
in the text, `TakeTimed` and `TakeUntimed` are the two paths of `take_new`,
`FrontierOf` and `PendingIsSettled` what the loop asks in between. `Feed`,
`Finalize` and `NextStream` are the commands of `run_streaming`. A text is a sequence of
pieces (a part of a word, or punctuation), some with a space in front; the bytes
of `emitted_bytes` become a number of pieces. The model that hears a script is
external: it commits pieces in order, guesses what follows, right or wrong, and
decides audio. What is assumed of it: committed text is only appended to; a word
starts behind the decided edge; a word does not go on once its text has settled
(`HOLDBACK_SETTLE_MS` is long enough for the family, which the comment at
`commit.rs:174` argues for and no code enforces); a "bare" family, whose rows leave
punctuation out, hears an opening mark together with its word. The untimed family
may split a word over two spans, as the code does.

### ChunkWindow

`Gather` and `Infer` are a Feed that leaves a chunk incomplete or completes it,
`Finalize` and `Restart` the other commands; a run may be aborted. `Harvest`
and `Trim` translate the functions of that name; the loop over rows is the recursive
function `Considered`. Buffers are whole milliseconds, so samples count in milliseconds.
The model is external: each run cuts the words it hears into rows anew, may let
a row last until the next one, and reports silence as no row or as one without
text. It is assumed to hear whatever begins in front of the live edge, and to
time what it hears rightly. Audio given up on purpose, by an aborted drain or a
forced trim, is `waived`.

### VadGate

A sample is its place in the stream and whether it is digital silence. `Classify`
is `push`: it joins the rest of the last buffer, scores whole frames up to the
one that opens the gate, and retains or releases. The score of a frame is the
detector's free choice. The reference keeps everything heard since the gate was
armed, so the properties compare the decision on buffers with the one on the whole
stream. `Rearm` is `reset`, with the audio elsewhere.

### RtmpListenSrc

Three threads. The application starts, plays, pauses and stops; `stop` is three
steps, because it drops the receiver, then cancels, then joins. The streaming task
runs `create`, whose loop reads the flushing flag, then waits on the channel.
The worker is where it is (`worker.at`) with the outputs it still has to send
there (`worker.sends`): a handler in the middle of its sends is dropped by
`Shutdown`, the `select!` of `run_with_shutdown`, which does not surround
the flush of the replies. `Result` is the match of `run_worker` on the outcome of
a session. The publisher is external. Only `stop` makes a shutdown graceful, and it
has dropped the receiver by then, so nothing a publisher sends during
`handle_shutdown` can arrive. A message too long for an FLV tag does not occur: the
chunk reader refuses it. Left out: a start that fails, bytes of tags, chunk sizes
and acknowledgements, connect and createStream, which change no state here.

`PublisherLifecycle` is the contract of `scuffle-rtmp/README.md`, "Behaviour",
over three variables: the publisher downstream knows of, the latest one announced,
and the last thing pushed. `Lifecycle` instantiates it with the observer `seen`, and
`BracketsPublishers` is its specification as a property of `RtmpListenSrc`: every
step pushes what the contract allows, or nothing.

## 3. Runs

All runs set `CHECK_DEADLOCK FALSE`: upstream stops at the bound on its input and
the element then has nothing to do. Progress is checked by the liveness properties of
`flvsubmux_ends`, `transcriber_returns`, `rtmplistensrc` and `committracker`.

| run | shows | bounds |
|---|---|---|
| `flvsubmux` | coverage before media, tiling of the loaded timeline, screen equals timeline, nothing leaks over a new segment, cue order, no cue of a millisecond skipped, tags between the media around them | 2 texts, 2 cues, times 0..2 in half milliseconds, queues of one item; large enough for two transitions in one millisecond, expiry on the next cue's start, and a segment in the middle of a cue |
| `flvsubmux_ends` | the stream ends after both EOS, also when one call consumes several intervals | 1 cue, times 0..1, two text items queued |
| `transcriber` | words on their own audio, tiling, GAPs never over a word, EOS drained; native streams with and without timed words, and chunked models without | times 0..3, 6 timelines, command queue of 2, buffers of 0 and 1 tick |
| `transcriber_lossy` | words on their own timeline and in order when flushes come before caps, the state changes, the model fails or audio is dropped, in both modes | times 0..3, 2 timelines, rows of length 0 |
| `transcriber_gate` | gate, preroll and priming chunk leave no hole; the floor tiles | times 1..5, buffers of 0..2, two rows a commit, floor of 2 |
| `transcriber_returns` | every handler returns; jumps both ways, gate, GAPs, state changes and failures together keep words in place | times 1..3, buffers of 1 and 2, 2 timelines, queue of 1 |
| `textrollup` | coverage passes, the clear is neither late nor early, no old text, window equals the wrapped text, nothing moves | times 0..3, 3 words of 2 widths, 1 or 2 a buffer, 3 segments, flushes or stops, clear-after 0 and 1, 3 and 2 columns |
| `rtmplistensrc` | the source implements `PublisherLifecycle`; a publisher that goes is withdrawn downstream and, with keep-listening, the next one is accepted; the worker never ends silently; `stop` returns | 2 connections, 1 media message each, 2 starts |
| `committracker` | whole words, once, in order and all of them; nothing behind a reported edge; the last word is not stranded | texts of up to 4 pieces, settle margin of 2 ticks, audio of 1 or 2 ticks a feed, commits up to tick 4, 2 streams |
| `chunkwindow` | no word lost or repeated however runs cut it, and none behind a watermark | chunk of 2, live edge of 1, window of 4, buffers of 1 or 2, 11 ms of audio, 2 streams |
| `vadgate` | the gate and what it feeds do not depend on how audio is cut; every sample keeps its time | frames of 2 samples, hangover of 2 frames, preroll of 5, buffers of 1 to 3, 10 samples, armed twice |
| `rtmplistensrc_probe` | expects a violation, see section 5 | 2 connections, 1 start |

Two timelines are enough for a stale result: it needs one to be produced in and
one to surface in; `transcriber` adds four more so that abandoned restarts can
pile up. A queue of 1 makes every send block, one of 2 lets a marker lie behind
another command. Two connections are enough for the events of one publisher to
follow those of another, which the channel of one, `create` and the worker can
each still hold. A preroll of 5 samples is neither a multiple of a frame nor of a
buffer, and frames straddle buffers. The texts of `committracker` have a
word in two pieces, a word that begins the next one, the same word twice, and
marks on both sides; the speech of `chunkwindow` has words that touch, words apart
and one that outlasts the window. `MaxCues`, `MaxStreams`, `MaxWords`, `MaxSegments`,
`MaxConnections`, `MaxTags`, `MaxStarts`, `LastCommit`, `MaxFeed`, `MaxBuffer`,
`MaxEnd`, `MaxSamples`, `MaxArms` and the time bounds sit in guards of the environment's actions only.

`mutants` in `PROJECT.json` names, for each property of each run, a plausible bug
that the run detects; they are the definitions marked *Mutant*.

### Fairness

`FlvSubMux!FairSpec` is weak fairness of `Aggregate` and of the serialized
events: `GstAggregator` calls `aggregate` as long as every pad has something
queued or is at EOS. `Transcriber!FairSpec` is weak fairness of the streaming
thread's steps and of the worker: both are threads that only wait on a channel
the other serves. Nothing is assumed about upstream or the application, and a
native failure is never fair. `RtmpListenSrc!FairSpec` is weak fairness of the
streaming task, of the worker and of an application that is in `stop`, and strong
fairness of `Shutdown`: a publisher that keeps sending enables and disables it, but
`select!` polls its branches in random order. No peer need send or close, no
timeout pass, no application act. `CommitTracker!FairSpec` only says that audio keeps
coming; what the model commits of it, and whether, stays free.

## 4. Proofs

Every theorem is about the specification that TLC runs, for every value of its
constants that the module's assumption allows. `TypeCorrect` of each module is
`Spec => []TypeOK`. A property that is not inductive as it stands is proved from a
stronger invariant, which TLC checked on the runs' instances first; each proof
has one lemma per action. `OrderLemmas` holds facts about indices and least
elements that the library states only with operator parameters.

### flvsubmux

- `MediaAlwaysCovered` (`MediaCovered`): media leaves only at an instant covered by
  an interval that was loaded, or after text EOS. The action that pushes media
  trusts that a loaded interval is the buffer at the head of the text queue and has
  been recorded as part of the timeline, which other actions could spoil. Hence
  `CoverageInv`: the queue holds intervals and events (`QueueTypeOK`) and what is
  loaded is at its head (`LoadedAtHead`). Every action that pops the head unloads it,
  and the loops load only what they stop at. That they stop at all, and at the first
  such index, is `StopIndexDefined` and `FinishIndexDefined`.
- `TypeCorrect`: the stamps of output tags need that no transition is later than
  its drain and that stamps saturate; numbering needs that every pending transition
  carries a generation below the next one. Hence `TypeInv`, which adds
  `LoadedAtHead` and `Numbered`.
- `NothingOldLeaks` (`NothingLeaks`): every scheduled transition starts or ends a cue
  of the current timeline (`FromCue`), which says more than that its text is
  one of them: an expiry carries no text, but a cue that follows it does.
- `TimelineAlwaysTiled` (`TimelineTiled`): the cues tile their span up to the text
  frontier, and what is still queued continues it in order (`QueueOrdered`); without
  the queue, the next interval loaded could lie anywhere.
- `TagsStayBetweenMedia` (`TagsBetweenMedia`): while the text timeline lasts, it has
  been loaded beyond the last media, and nothing scheduled lies before that media
  (`AheadOfMedia`): whatever is drained next is stamped behind it.
- `NoCueSkipped` (`CueNeverSkipped`): the texts loaded since the timeline began, in
  the order of their generations, form one schedule (`Schedule`) in which sequence
  numbers order time (`TextsInOrder`, `SeqOrdersTime`). What the element holds is a cut
  through it (`CutInv`): the transitions from some number on are pending, the ones
  before it have been reached, and the active cue is the one they leave (`Stands`).
  Without the order of the schedule an expiry could take down a later cue, and one
  drain could not be told from several. Loading extends the schedule behind the cut
  (`LoadTextCut`), media moves the cut (`CutPush`); a text behind the cut then changes
  what stands at its own stamp, so that it is written (`CutWrites`).
- `ScreenAlwaysMatches` (`ScreenMatchesTimeline`): the cue left by a cut that media has
  reached is what the timeline shows there (`CutShows`), provided that nothing is
  loaded before media reaches its start (`LoadedBehind`), and the viewer sees the
  active cue unless a clear is owed or the cue on screen was lost (`ScreenInv`): where a
  drain writes no tag, its transitions leave the text as it was (`QuietDrain`).
  `CalibratedInv` says that the position is the stamp of the last media.

### transcriber

- `TypeCorrect`: the handler's steps, both channels and the worker. `TypeInv` gives
  each step and each event its fields, which `TypeOK` leaves open for steps: a
  step stays in `todo` while other threads act. The lemmas show that the rows a
  run commits start in its audio (`RowsTyped`), that `PlanTimedText` yields one
  buffer per row (`PlanTyped`), and that the cover pushed for an event shows audio of
  that event only (`WordsCoverOK`). Both are recursive functions; that they exist and
  what they hold at every index is shown with `NatInductionSet`.
- `FlushesKeepTimelines` and `StopsKeepTimelines` (`OnItsOwnTimeline`). The event queue, the audio the worker
  holds and the command queue are read as one pipe (`Pipe`), in the order in which
  the streaming thread will see their effect: a restart is a bar, a finalize and
  audio may put words on screen. The worker only moves items along it, and what is
  asked of a pipe survives whatever is taken out of it (`Keeps`, `ThinKeeps`,
  `WorkerFlow`). `TimelineInv` says where the bars stand. While a stream is anchored
  (`Flowing`), all its words and audio are its own and there is at most one bar:
  behind all the text when it is awaited, in front of it when a handler that
  failed left it, and then the handler's own finalize consumes it first. While a
  flush discards (`Flushed`) there may be two, the second behind everything; once a
  restart was awaited (`Fresh`) no text is left when the next audio comes, unless
  upstream may not send any before another restart (`Ahead`). `HandlerOK` is what
  that needs of the order of a handler's steps. That is an element that is not
  stopped: `"stop"` is not in `Features`. In one that is not flushed (neither
  `"flush"` nor `"earlyflush"`), the token decides (`UnflushedInv`). Until a state change
  sets it, no push fails and every restart sent is awaited, so that at most one bar
  is in the pipe, behind all the text (`Running`). From then on the worker commits
  nothing, and what it had reported stands in front of any bar and belongs to the
  timeline (`Cancelled`), however handlers are cut short and started again, until
  there is a new worker. Where flushes and state changes meet, the property does not
  hold (section 5): between them the two assumptions leave out nothing else.
- `FlushesKeepAudio` and `StopsKeepAudio` (`OnItsAudio`), under the same two
  assumptions. A row's place is computed three times removed from the audio: the
  worker counts ticks from where it began, the thread adds the anchor it computed
  when the first buffer came, and the two never compare. What makes them agree is
  `AudioInv`. While a stream runs and is anchored, the ticks the worker holds, the feeds
  queued behind them (`QueueFollows`) and the ones the handler has still to send
  (`HandlerFollows`) follow one another without a hole, from the anchor to `nextPts`,
  where the next buffer must start (`EntersFollow`); nothing is fed behind a
  finalize. Hence a tick lies where the clock says (`HeldTimed`), and a reported word is
  placed at its tick (`WordsTimed`). `GateFollows` says that what the gate has seen
  lies between the first instant of the stream and `nextPts`, so that the priming
  chunk fits in front of whatever it releases. When the next stream is anchored,
  nothing of the one before may be left in the queue or the worker: that is what the
  invariants of the first two theorems provide (`Orderly`). A state change suspends
  the invariant (`Live`), for the worker then commits nothing more.
  `Seamless` names what the stream must be like, each conjunct where the code gives
  the property up. `overrun=drop` loses buffers without a discontinuity
  (`imp.rs:451`). A `discont-threshold` lets jitter up to it through, on purpose. An
  anchor nearer to zero than the priming chunk saturates (`imp.rs:981`). A model
  that cannot time its words may report one in the silence it was primed with,
  which lies on no audio. Both runs that check `OnItsAudio` are such streams.

### textrollup

- `TypeCorrect`, with what `Freeze`, `Reshape` and `PushWords` preserve: no completed
  line is empty, and there are no more lines than some geometry allows.
- `TextNeverLeaks` (`OnlyCurrentText`): what is in the window, in a handler's copy
  and in the items it still has to push carries words of this timeline
  (`TextInv`); an event that ends it is the only item of its handler.
- `CoverageKept` (`CoveragePreserved`), `ClearsInTime` (`ClearedInTime`),
  `ClearsNoEarlier` (`ClearedNoEarlier`): what a handler makes is one of five shapes
  (`MadeText`, `MadeGap`, `MadeSplit`...), and the items it still has to push continue the
  coverage pushed (`CoverageInv`) and meet the deadline counted from the text shown
  (`ClearInv`). They assume that `blank_span` is not in `Features`: an
  empty buffer with a duration leaves with none, see section 5.

### Inference worker, chunked mode

- `RowsOfRunsAreNew` (`RowsAreNew`), `ProgressBounds` (`NothingBehindFrontier`) and
  `WindowTypeOK` (`TypeOK`), of any speech whose words follow one another, of any
  family, chunk, live edge and longest window. Between commands the window starts
  where the published text ends (`WindowInv`), so that a run hears only what is not
  published. What a run hears are parts of words in order (`HeardWell`); however
  they are cut, the rows tile them (`RowsAreWell`); as rows follow each other, those
  that end in front of the live edge come first, and the first one that does not
  holds the watermark for all behind it (`ConsiderStep`, `SeenUpTo`). `Publishes` says what
  that comes to, for rows, for text without rows, and for silence; `RunEffect` adds
  it to what was published before. Two facts about the past make the invariant
  inductive: what was said in front of the window is published or was given up
  (`CoveredInv`), and what is left of any word begins behind the Progress sent, or the
  window starts behind it (`BehindInv`). `Ascending`, `Considered` and `FlattenSeq`
  are recursive functions; that they exist and what they hold at every index is
  shown with `NatInductionSet`.

### VAD gate

- `TypeCorrect`; `TimelineHolds` (`StandsAtItsTime`); `FirstOnly`
  (`OnlyChoosesTheFirst`). `GateInv` relates the gate to the whole stream. While it is
  closed, the ring is the end of the classified samples, the pending samples are the
  rest, the run is the length of voice they end in, and no frame ended a long
  enough run. Once it is open, the first frame that did is the last one classified,
  and what was fed is the trimmed preroll followed by everything since.

### RTMP listen source

- `TypeCorrect`: the worker is where its connection says, and the bounded channel
  never holds more than its capacity.
- `PublishersBracketed`: `RtmpListenSrc` implements `PublisherLifecycle`. Read from
  downstream to the publisher, the outputs on their way (`create`'s local, the channel,
  the worker's sends) take the lifecycle from one point to the next (`After`), and the
  point they lead to is the one the worker's session expects (`WorkerExpects`).
  It assumes that neither `resume` nor `republish` is in `Features`: section 5 shows
  both break it in the code.

### What stays with TLC

- Every liveness property: fairness and `ENABLED` are outside the prover.
- `NothingMoves` and `WindowIsWrapped` of `TextRollup`, and all of `CommitTracker`: they
  speak of what recursive definitions and folds compute from all the text before
  (`AlignUnits`, the reference wrapping), which is induction over data.
- Of `Transcriber`, `Contiguous`, `NeverOverlaps`, `GapNeverOverWord` and `EosDrained`:
  no proof yet. The first three moreover hold only of the inputs that their runs choose
  (section 5).
- `OnItsAudio` where an element is both flushed and stopped: `transcriber_returns`
  checks it within its bounds. No theorem states it, since the one it would rest on,
  `OnItsOwnTimeline`, does not hold there (section 5).

## 5. Where the code and its documentation disagree

One run expects a violation: `rtmplistensrc_probe`. A peer that closes its connection in
the middle of the handshake leaves `drive_handshake` reading at the end of the
connection (`vendor/scuffle-rtmp/src/session/server/mod.rs:288`), each read
returning nothing and in time, and no publisher is accepted again, although
`scuffle-rtmp/README.md:81` promises that the listener waits for another one.

More were met. They are left out of the passing runs by the constants those
choose, and each can be reproduced from a configuration by changing it as follows
and checking that property alone:

| property | configuration and change | what happens |
|---|---|---|
| `ScreenBelongsToTimeline` | `flvsubmux` | two text segments without media between them lose the clear owed for the first (`submux/imp.rs:650`) |
| `CueNeverDropped` | `flvsubmux`, `UnitsPerMs = 1`, `MaxTimestampMs = 1`, `MaxTime = 3`, `MaxCues = 1` | stamps saturate; a cue coalesces with its own expiry (`caption.rs:146`) |
| `TagAtMediaPosition` | `flvsubmux` | a tag is stamped with its transition's time, not the media position (`flvsubmux/README.md:105`) |
| `GapNeverOverWord` | `transcriber`, `Families <- Timed`, `Features = {"discont"}` | `Cmd::Restart` keeps the chunked watermark, and a GAP is declared over words still to come (`worker.rs:685`) |
| `StaleResultsDropped` | `transcriber`, `Families <- StreamingOnly`, `Features = {"flush"}` | the `Restarted` of an abandoned restart ends the wait of a later flush, whose stale results stay queued (`imp.rs:770`) |
| `HandlerReturns` | `transcriber_returns`, `Features = {"earlyflush"}` | a flush before caps consumes `Ready`, for which `ensure_ready` then waits for ever (`imp.rs:429`) |
| `CancelMeansFlushing` | `transcriber`, `Features = {"stop"}` | the cancel token survives PAUSED-READY-PAUSED (`imp.rs:1914`) |
| `Contiguous` | `transcriber`, `Families <- StreamingOnly`, `Features = {"gate", "discont"}`, `Durations = {2}`, `MaxPts = 5` | the gate opens inside the first buffer after a discontinuity: a hole (`imp.rs:989`) |
| `Contiguous` | `transcriber`, `Families <- StreamingOnly`, `Features = {"gap"}` | a finalized tail under GAP_GRANULARITY stays uncovered in front of an input GAP (`imp.rs:595`) |
| `NeverOverlaps` | `transcriber`, `Families <- StreamingOnly`, `Features = {"discont"}`, `MinRow = 0` | a lengthened last row reaches over a discontinuity (`imp.rs:906`) |
| `OnItsOwnTimeline` | `transcriber`, `Families <- StreamingOnly`, `Features = {"flush", "stop"}`, `MaxPts = 4` | a FLUSH_STOP while the pads are deactivated clears the cancel token (`imp.rs:1079`); restarts abandoned before the pad is active again pile up, and words of one timeline surface in the next |
| `OnItsAudio` | `transcriber_gate`, `FirstPts = 0` | speech before the priming chunk's length is reported late (`imp.rs:981`) |
| `OnItsAudio` | `transcriber`, `Overrun = "drop"`, `QueueLen = 1` | a dropped buffer moves later words earlier (`imp.rs:451`) |
| `GapNeverOverWord` | `transcriber_gate` | a GAP over withheld audio covers preroll that is released later (`imp.rs:618`) |
| `WholeWordsOnce` | `committracker`, `Families = {"merging"}` | rows that merge behind what was published are counted as published: a word is lost (`commit.rs:259`) |
| `RunsAreCapped` | `chunkwindow` | the window is trimmed after a run, so the next gets up to a chunk more than `max_audio_ms` (`worker.rs:655`; README of transcribe-cpp, line 171) |
| `SilenceIsDiscarded` | `chunkwindow` | a row without text, which whisper returns for silence, keeps the silent window growing (`worker.rs:521`; README of transcribe-cpp, line 172) |
| `NothingMoves` | `textrollup`, `Geometries <- LineCounts` | more `lines` while playing bring back a line that had scrolled off (`window.rs:61`) |
| `GeometryApplied` | `textrollup` | stream-start overwrites a geometry set after it copied the settings (`rollup/imp.rs:266`) |
| `CoveragePreserved` | `textrollup`, `Features = {"blank_span"}` | an empty buffer with a duration leaves with none (`rollup/imp.rs:150`) |
| `BracketsPublishers` | `rtmplistensrc`, `Features = {"resume"}` | `create` holds a `PublishStarted` in a local and loses it when it returns Flushing: after PLAYING again, media comes unannounced (`scufflertmplistensrc/imp.rs:498`) |
| `BracketsPublishers` | `rtmplistensrc`, `Features = {"republish"}` | a second publish on a connection overwrites its id, or is rejected, which sends no end for the first (`scufflertmplistensrc/imp.rs:886`, `:690`) |

Also seen, without a property:

- in `textrollup`, an empty buffer behind a hole clears at its own time: that branch
  of `sink_chain` does not look for a missed deadline, so the property about late
  clears speaks of GAPs and text only;
- a "bare" family whose opening mark is committed before it has a row gets its text
  published by `take_untimed`, and again with its row; `HasRows` leaves this out;
- a reset connection that is met by the flush of the replies is an error to a
  source without keep-listening, where the same reset met by a read ends in EOS;
- the flush of the replies is outside the `select!`: a shutdown waits for it for as long
  as the write may take, whatever graceful-shutdown-timeout says;
- `create` never marks a buffer DISCONT, which `scuffle-rtmp/README.md` says of the
  first one after a reconnect.

## 6. Not modelled, and the plan

Not modelled: byte formats (FLV tags, AMF, RTMP handshake), properties without
effect on state, latency queries, plugin registration, compute reports. The RTMP
chunk reader and writer are vendored and run on one thread. `clear-after` is
fixed for a behaviour of `TextRollup`, although it is writable while playing.

Next, in this order:

1. `clear-after` set while playing in `TextRollup`, on an instance of its own.
2. Compositions: `CaptionPipeline` (transcriber output through textrollup into
   flvsubmux: coverage end to end), with `SparseTimeline` (coverage grows
   contiguously, a word is never covered by silence) as the abstraction that
   `Transcriber` and `TextRollup` implement.
3. `RtmpSession` and `ChunkReader`: acknowledgement counter, shutdown in the middle
   of a message, chunk header inheritance and interleaved partial messages.
4. Proofs: `EosDrained` and `Contiguous` of `Transcriber`, the latter for the inputs of
   its run.
