----------------------------- MODULE FlvSubMux -----------------------------
(***************************************************************************)
(* flvsubmux: an aggregator that merges one sparse text pad into a muxed   *)
(* FLV stream (flvsubmux/src/submux/imp.rs).  A media buffer leaves only   *)
(* once a text or GAP interval covers its running time, and the caption    *)
(* transitions it has reached leave just before it.                        *)
(*                                                                         *)
(* The pad queues and the order in which events reach the element belong   *)
(* to GstAggregator and are modelled from what the element relies on: a    *)
(* queue holds buffers and serialized events in order, an event is handled *)
(* when it is at the head, and peek_buffer sees only a buffer at the head. *)
(***************************************************************************)
EXTENDS CaptionTimeline, Sequences

CONSTANTS
    MaxTime,    \* bound: upstream uses running times 0 .. MaxTime
    FlvQueueLen, TextQueueLen, \* bounds: items a pad queue holds before upstream blocks
    MaxCues     \* bound: text buffers loaded since the generations began at 0

ASSUME SubMuxAssumption ==
    /\ MaxTime \in Nat
    /\ FlvQueueLen \in Nat \ {0} /\ TextQueueLen \in Nat \ {0}
    /\ MaxCues \in Nat

VARIABLES
    flvQ, flvEos,    \* the media pad: its queue, and is_eos()
    textQ, textEos,  \* the text pad
    flow,            \* what aggregate last returned, as far as it stops the task
    inputMode, prime, \* settings, fixed while the element runs
    origin, position, lastMedia,       \* State.origin, stream_position_ms, last_media_running_time
    loaded, consumedEnd,               \* current_text.is_some(), consumed_text_end
    nextGen, pending, active,          \* State.caption
    primed, needsClear                 \* State.primed, needs_timeline_clear

VARIABLES            \* what an observer downstream has seen; no code state
    out,             \* what the last step pushed
    screen,          \* the text the viewer sees
    orphan,          \* the viewer sees a cue no state of the element remembers
    cues,            \* intervals loaded since the text timeline or the element restarted
    newText          \* a text segment was handled since the last media push

settings == <<inputMode, prime>>
padVars == <<flvQ, flvEos, textQ, textEos>>
captionVars == <<nextGen, pending, active>>
stateVars == <<origin, position, lastMedia, loaded, consumedEnd, captionVars, primed, needsClear>>
observed == <<screen, orphan, cues, newText>>
vars == <<padVars, flow, settings, stateVars, out, observed>>

-----------------------------------------------------------------------------
\* Option<ClockTime>: None is NoTime.
NoTime == -1
Time == 0 .. MaxTime
TimeOption == Nat \cup {NoTime}

\* A text pad buffer.  "bad" stands for one that breaks the buffer contract:
\* no PTS or duration, not UTF-8, outside its segment, or a segment that is
\* not TIME at rate 1.0.
Interval == [type : {"text"}, start : Nat, end : Nat, text : AnyText]
            \cup [type : {"gap", "bad"}, start : Nat, end : Nat, text : {Blank}]
\* A media pad buffer; "header" has no PTS.
Media == [type : {"media", "header", "bad"}, at : Nat]
Event == [type : {"segment", "eos"}]

Pushed == [type : {"none", "header", "media", "final"}, at : Nat,
           blank : BOOLEAN,  \* an empty cue at the position, ahead of the transitions
           tags : SUBSET [stamp : Nat, text : AnyText]]

Nothing == [type |-> "none", at |-> 0, blank |-> FALSE, tags |-> {}]

BufferAtHead(q, types) == q # <<>> /\ Head(q).type \in types
TextBuffer(item) == item.type \in {"text", "gap", "bad"}

-----------------------------------------------------------------------------
Init ==
    /\ flvQ = <<>> /\ flvEos = FALSE
    /\ textQ = <<>> /\ textEos = FALSE
    /\ flow = "ok"
    /\ inputMode \in {"timed", "replacement"}
    /\ prime \in BOOLEAN
    /\ origin = NoTime /\ position = 0 /\ lastMedia = NoTime
    /\ loaded = FALSE /\ consumedEnd = NoTime
    /\ nextGen = 0 /\ pending = {} /\ active = NoCue
    /\ primed = FALSE /\ needsClear = FALSE
    /\ out = Nothing
    /\ screen = Blank /\ orphan = FALSE /\ cues = {} /\ newText = FALSE

\* State::reset_runtime.
ResetRuntime ==
    /\ origin' = NoTime /\ position' = 0 /\ lastMedia' = NoTime
    /\ loaded' = FALSE /\ consumedEnd' = NoTime
    /\ nextGen' = 0 /\ pending' = {} /\ active' = NoCue
    /\ primed' = FALSE /\ needsClear' = FALSE

-----------------------------------------------------------------------------
\* Upstream: any items in any order, until EOS.

HasRoom(q, bound) == Len(q) < bound /\ ~ \E i \in DOMAIN q : q[i].type = "eos"

TextItems ==
    {i \in [type : {"text"}, start : Time, end : Time, text : AnyText]
           \cup [type : {"gap"}, start : Time, end : Time, text : {Blank}] : i.start <= i.end}
    \cup [type : {"bad"}, start : {0}, end : {0}, text : {Blank}]
    \cup Event

MediaItems == [type : {"media"}, at : Time] \cup [type : {"header", "bad"}, at : {0}] \cup Event

TextArrives(item) ==
    /\ ~textEos
    /\ HasRoom(textQ, TextQueueLen)
    /\ item.type = "text" => nextGen + Len(textQ) < MaxCues
    /\ textQ' = Append(textQ, item)
    /\ out' = Nothing
    /\ UNCHANGED <<flvQ, flvEos, textEos, flow, settings, stateVars, observed>>

MediaArrives(item) ==
    /\ ~flvEos
    /\ HasRoom(flvQ, FlvQueueLen)
    /\ flvQ' = Append(flvQ, item)
    /\ out' = Nothing
    /\ UNCHANGED <<flvEos, textQ, textEos, flow, settings, stateVars, observed>>

-----------------------------------------------------------------------------
\* load_text_interval and consume_text_interval, as the loops that call them
\* run them: the text buffers at the head of the queue are loaded in order
\* until one is refused, or one ends after the given time and so stays.

\* Mutant: only an overlap is refused, a hole is not.
StartOkUncovered(i) ==
    LET previous == IF i = 1 THEN consumedEnd ELSE textQ[i - 1].end
    IN  previous = NoTime \/ textQ[i].start >= previous

StartOk(i) ==
    LET previous == IF i = 1 THEN consumedEnd ELSE textQ[i - 1].end
    IN  previous = NoTime \/ textQ[i].start = previous

\* The checks of load_text_interval; the interval already loaded passed them.
LoadOk(i) ==
    \/ i = 1 /\ loaded
    \/ /\ textQ[i].type # "bad"
       /\ StartOk(i)
       /\ textQ[i].type = "gap" => textQ[i].start < textQ[i].end
       /\ textQ[i].type = "text" =>
             QueueTextOk(textQ[i].start, textQ[i].end, textQ[i].text, inputMode)

BufferAt(i) == i <= Len(textQ) /\ TextBuffer(textQ[i])

\* Mutant: an interval still covers media at its end.
StopsAtClosedEnd(i, time) == ~BufferAt(i) \/ ~LoadOk(i) \/ time <= textQ[i].end

\* Where the loop stops for media at the given time: no buffer, a refused
\* buffer, or a buffer that is not finished yet.
StopsAt(i, time) == ~BufferAt(i) \/ ~LoadOk(i) \/ time < textQ[i].end

StopIndex(time) ==
    CHOOSE i \in 1 .. Len(textQ) + 1 :
        /\ StopsAt(i, time)
        /\ \A j \in 1 .. i - 1 : ~StopsAt(j, time)

\* The buffers loaded by a loop that stops at k, and their generations.
LoadedIndices(k) ==
    {i \in 1 .. Len(textQ) : i <= k /\ BufferAt(i) /\ LoadOk(i) /\ ~(i = 1 /\ loaded)}
TextIndices(k) == {i \in LoadedIndices(k) : textQ[i].type = "text"}
Generation(i) == nextGen + Cardinality({j \in TextIndices(i) : j < i})

NewTransitions(k) ==
    UNION {QueueText(Generation(i), textQ[i].start, textQ[i].end, textQ[i].text, inputMode) :
              i \in TextIndices(k)}

\* The effect of the loop on the state: k - 1 intervals are consumed, and the
\* one at k, if it was loaded, stays at the head of the queue.
LoadText(k) ==
    /\ textQ' = SubSeq(textQ, k, Len(textQ))
    /\ loaded' = (BufferAt(k) /\ LoadOk(k))
    /\ consumedEnd' = IF k = 1 THEN consumedEnd ELSE textQ[k - 1].end
    /\ nextGen' = nextGen + Cardinality(TextIndices(k))
    /\ cues' = cues \cup {textQ[i] : i \in LoadedIndices(k)}

-----------------------------------------------------------------------------
\* aggregate, one disjunct for each way it can end.  pushOk is what
\* finish_buffer_list returns: a failed push is returned, but what the state
\* was changed to stays.

\* What a viewer sees once a list has been pushed: an empty cue first if it
\* holds one, then the cue on screen after its last tag.
Watch(blank, tags, shown, pushOk) ==
    IF ~pushOk THEN UNCHANGED <<screen, orphan>>
    ELSE /\ screen' = IF tags # {} THEN shown ELSE IF blank THEN Blank ELSE screen
         /\ orphan' = (orphan /\ tags = {} /\ ~blank)

\* A buffer without PTS is forwarded as it is.
ForwardHeader(pushOk) ==
    /\ flow = "ok"
    /\ BufferAtHead(flvQ, {"header"})
    /\ flvQ' = Tail(flvQ)
    /\ out' = IF pushOk THEN [Nothing EXCEPT !.type = "header"] ELSE Nothing
    /\ flow' = IF pushOk THEN "ok" ELSE "error"
    /\ UNCHANGED <<flvEos, textQ, textEos, settings, stateVars, observed>>

\* Media out of its segment, or before the last media buffer.
RefuseMedia ==
    /\ flow = "ok"
    /\ BufferAtHead(flvQ, {"media", "bad"})
    /\ Head(flvQ).type = "bad" \/ (lastMedia # NoTime /\ Head(flvQ).at < lastMedia)
    /\ flow' = "error"
    /\ out' = Nothing
    /\ UNCHANGED <<padVars, settings, stateVars, observed>>

AdmissibleMedia ==
    /\ flow = "ok"
    /\ BufferAtHead(flvQ, {"media"})
    /\ lastMedia = NoTime \/ Head(flvQ).at >= lastMedia

Covering(k, time) == BufferAt(k) /\ LoadOk(k) /\ textQ[k].start <= time

\* require_text_coverage finds no covering interval yet: NEED_DATA.
AwaitText ==
    /\ AdmissibleMedia
    /\ LET k == StopIndex(Head(flvQ).at)
       IN  /\ ~BufferAt(k) /\ ~(k > Len(textQ) /\ textEos)
           /\ LoadText(k)
           /\ pending' = pending \cup NewTransitions(k)
    /\ out' = Nothing
    /\ UNCHANGED <<flvQ, flvEos, textEos, flow, settings, origin, position, lastMedia,
                   active, primed, needsClear, screen, orphan, newText>>

\* require_text_coverage meets a refused interval, or one that starts late.
RefuseText ==
    /\ AdmissibleMedia
    /\ LET k == StopIndex(Head(flvQ).at)
       IN  /\ BufferAt(k) /\ ~Covering(k, Head(flvQ).at)
           /\ LoadText(k)
           /\ pending' = pending \cup NewTransitions(k)
    /\ flow' = "error"
    /\ out' = Nothing
    /\ UNCHANGED <<flvQ, flvEos, textEos, settings, origin, position, lastMedia,
                   active, primed, needsClear, screen, orphan, newText>>

\* process_flv_buffer succeeds: calibrate, prime, clear, drain, forward.
PushMedia(pushOk) ==
    /\ AdmissibleMedia
    /\ LET time == Head(flvQ).at
           k == StopIndex(time)
           zero == IF origin = NoTime THEN time ELSE origin
           reachable == pending \cup NewTransitions(k)
           now == StampMs(zero, time)
           tags == DrainTags(zero, active, reachable, now)
           shown == ActiveAfter(zero, active, Reached(zero, reachable, now))
           blank == (prime /\ ~primed) \/ needsClear
       IN  /\ Covering(k, time) \/ (k > Len(textQ) /\ textEos)
           /\ LoadText(k)
           /\ origin' = zero /\ position' = now /\ lastMedia' = time
           /\ pending' = reachable \ Reached(zero, reachable, now)
           /\ active' = shown
           /\ primed' = (primed \/ prime)
           /\ needsClear' = FALSE
           /\ Watch(blank, tags, shown.text, pushOk)
           /\ out' = IF pushOk
                     THEN [type |-> "media", at |-> time, blank |-> blank, tags |-> tags]
                     ELSE Nothing
    /\ flow' = IF pushOk THEN "ok" ELSE "error"
    /\ flvQ' = Tail(flvQ)
    /\ newText' = FALSE
    /\ UNCHANGED <<flvEos, textEos, settings>>

\* Mutant: nothing is popped until the text pad is at EOS.
FinishIndexAfterEos ==
    IF ~textEos THEN 1
    ELSE CHOOSE k \in 1 .. Len(textQ) + 1 :
            /\ ~BufferAt(k) \/ ~LoadOk(k)
            /\ \A j \in 1 .. k - 1 : BufferAt(j) /\ LoadOk(j)

\* The loop of finish_after_flv_eos stops only where there is nothing to load.
FinishIndex ==
    CHOOSE k \in 1 .. Len(textQ) + 1 :
        /\ ~BufferAt(k) \/ ~LoadOk(k)
        /\ \A j \in 1 .. k - 1 : BufferAt(j) /\ LoadOk(j)

\* finish_after_flv_eos: every text buffer at the head is consumed, whatever
\* time it ends at.  Only the text EOS behind them lets the stream end.
Finish(pushOk) ==
    /\ flow = "ok"
    /\ flvEos /\ flvQ = <<>>
    /\ LET last == FinishIndex
           reachable == pending \cup NewTransitions(last)
           refused == BufferAt(last) /\ ~LoadOk(last)
           ended == last > Len(textQ) /\ textEos
           drained == ended /\ origin # NoTime
           tags == IF drained THEN DrainTags(origin, active, reachable, position) ELSE {}
           shown == IF drained
                    THEN ActiveAfter(origin, active, Reached(origin, reachable, position))
                    ELSE active
           sent == ended /\ (pushOk \/ tags = {})
       IN  /\ LoadText(last)
           /\ active' = shown
           /\ pending' = IF ended THEN {} ELSE reachable
           /\ Watch(FALSE, tags, shown.text, sent)
           /\ out' = IF sent
                     THEN [type |-> "final", at |-> 0, blank |-> FALSE, tags |-> tags]
                     ELSE Nothing
           /\ flow' = IF refused \/ (ended /\ ~sent) THEN "error"
                      ELSE IF ended THEN "eos" ELSE "ok"
    /\ UNCHANGED <<flvQ, flvEos, textEos, settings, origin, position, lastMedia,
                   primed, needsClear, newText>>

-----------------------------------------------------------------------------
\* sink_event, once a serialized event is at the head of its queue.

\* A media segment resets everything calibrated from the media timeline.  The
\* viewer keeps what was on screen, and only a prime would erase it.
FlvSegment ==
    /\ flow = "ok"
    /\ BufferAtHead(flvQ, {"segment"})
    /\ flvQ' = Tail(flvQ)
    /\ ResetRuntime
    /\ orphan' = (screen # Blank /\ ~prime)
    /\ cues' = {} /\ newText' = FALSE
    /\ out' = Nothing
    /\ UNCHANGED <<flvEos, textQ, textEos, flow, settings, screen>>

\* Mutant: the transitions still scheduled survive the text segment.
ResetTimelineActiveOnly == active' = NoCue /\ UNCHANGED <<pending, nextGen>>

\* CaptionTimeline::reset_timeline; the generations go on.
ResetTimeline == pending' = {} /\ active' = NoCue /\ UNCHANGED nextGen

\* A text segment starts a new caption timeline and owes a clear for the cue
\* it takes down.
TextSegment ==
    /\ flow = "ok"
    /\ BufferAtHead(textQ, {"segment"})
    /\ textQ' = Tail(textQ)
    /\ loaded' = FALSE /\ consumedEnd' = NoTime
    /\ needsClear' = (active # NoCue)
    /\ ResetTimeline
    /\ orphan' = (orphan \/ (needsClear /\ active = NoCue))
    /\ cues' = {} /\ newText' = TRUE
    /\ out' = Nothing
    /\ UNCHANGED <<flvQ, flvEos, textEos, flow, settings, origin, position, lastMedia,
                   primed, screen>>

FlvEosEvent ==
    /\ flow = "ok"
    /\ BufferAtHead(flvQ, {"eos"})
    /\ flvQ' = Tail(flvQ) /\ flvEos' = TRUE
    /\ out' = Nothing
    /\ UNCHANGED <<textQ, textEos, flow, settings, stateVars, observed>>

TextEosEvent ==
    /\ flow = "ok"
    /\ BufferAtHead(textQ, {"eos"})
    /\ textQ' = Tail(textQ) /\ textEos' = TRUE
    /\ out' = Nothing
    /\ UNCHANGED <<flvQ, flvEos, flow, settings, stateVars, observed>>

\* flush: the parent empties both pads, then the runtime state is reset.
Flush ==
    /\ flvQ' = <<>> /\ flvEos' = FALSE
    /\ textQ' = <<>> /\ textEos' = FALSE
    /\ flow' = "ok"
    /\ ResetRuntime
    /\ orphan' = (screen # Blank /\ ~prime)
    /\ cues' = {} /\ newText' = FALSE
    /\ out' = Nothing
    /\ UNCHANGED <<settings, screen>>

\* change_state ReadyToPaused: as a flush, for a new output stream, and with
\* the settings that could be changed in READY.
ReadyToPaused ==
    /\ flvQ' = <<>> /\ flvEos' = FALSE
    /\ textQ' = <<>> /\ textEos' = FALSE
    /\ flow' = "ok"
    /\ ResetRuntime
    /\ inputMode' \in {"timed", "replacement"} /\ prime' \in BOOLEAN
    /\ out' = Nothing
    /\ screen' = Blank /\ orphan' = FALSE /\ cues' = {} /\ newText' = FALSE

-----------------------------------------------------------------------------
Aggregate ==
    \/ \E pushOk \in BOOLEAN : ForwardHeader(pushOk) \/ PushMedia(pushOk) \/ Finish(pushOk)
    \/ RefuseMedia
    \/ AwaitText
    \/ RefuseText

SinkEvent == FlvSegment \/ TextSegment \/ FlvEosEvent \/ TextEosEvent

Upstream ==
    \/ \E item \in TextItems : TextArrives(item)
    \/ \E item \in MediaItems : MediaArrives(item)

Next == Upstream \/ Aggregate \/ SinkEvent \/ Flush \/ ReadyToPaused

Spec == Init /\ [][Next]_vars

\* GstAggregator's task keeps calling aggregate and handling events; nothing
\* obliges upstream to send, or an application to flush.
FairSpec == Spec /\ WF_vars(Aggregate) /\ WF_vars(SinkEvent)

-----------------------------------------------------------------------------
TypeOK ==
    /\ flvQ \in Seq(Media \cup Event) /\ flvEos \in BOOLEAN
    /\ textQ \in Seq(Interval \cup Event) /\ textEos \in BOOLEAN
    /\ flow \in {"ok", "error", "eos"}
    /\ inputMode \in {"timed", "replacement"} /\ prime \in BOOLEAN
    /\ origin \in TimeOption /\ position \in Nat /\ lastMedia \in TimeOption
    /\ loaded \in BOOLEAN /\ consumedEnd \in TimeOption
    /\ nextGen \in Nat /\ pending \subseteq Transition /\ active \in Cue
    /\ primed \in BOOLEAN /\ needsClear \in BOOLEAN
    /\ out \in Pushed
    /\ screen \in AnyText /\ orphan \in BOOLEAN
    /\ cues \subseteq Interval /\ newText \in BOOLEAN

\* How far the loaded text timeline reaches.
TextFrontier == IF loaded THEN Head(textQ).end ELSE consumedEnd

\* Whatever upstream sends, the intervals the element has loaded tile the text
\* timeline: none overlaps another, and each is followed by the one that starts
\* where it ends, up to the frontier (load_text_interval, consumed_text_end).
TimelineTiled ==
    /\ \A a, b \in cues : a = b \/ a.end <= b.start \/ b.end <= a.start
    /\ \A a \in cues : a.end = TextFrontier \/ \E b \in cues \ {a} : b.start = a.end

\* No media buffer leaves without proven coverage: a loaded interval contains
\* its running time, or the text pad has ended (require_text_coverage).
MediaCovered ==
    out.type = "media" =>
        textEos \/ \E c \in cues : c.start <= out.at /\ out.at < c.end

\* The stamp of the media just pushed is below the point where stamps saturate.
Unsaturated == position < MaxTimestampMs

\* The text the loaded timeline shows at a time: in timed mode the cue that
\* covers it, in replacement mode the last text that started.
TimelineText(time) ==
    LET texts == {c \in cues : c.type = "text" /\ c.start <= time
                               /\ (inputMode = "timed" => time < c.end \/ c.start = c.end)}
    IN  {c.text : c \in {d \in texts : \A e \in texts : e.start <= d.start}}

\* After a media buffer the viewer sees what the text timeline shows at that
\* time, whatever mixture of GAPs, cues, waits, segments and flushes came before.
\* A cue that ends within the media's own millisecond may be gone already, and
\* a cue lost by two text segments in a row (orphan) is excluded.
ScreenMatchesTimeline ==
    (/\ out.type = "media" /\ ~orphan /\ Unsaturated
     /\ \A c \in cues : c.end > lastMedia => StampMs(origin, c.end) > position) =>
        \/ TimelineText(lastMedia) = {} /\ screen = Blank
        \/ screen \in TimelineText(lastMedia)

\* A cue still to be drained when media is pushed leaves as a tag with the
\* cue's own stamp, however far the media cadence jumped over it.  Cues that
\* last less than a millisecond coalesce away, and a text that was already on
\* screen is not written again (README: never clamps, never drops).
NeverSkipped ==
    LET due(c) == c \notin cues \/ \E t \in pending : t.kind = "show" /\ t.at = c.start
        stamp(t) == StampMs(origin', t)
    IN  out'.type = "media" /\ position' < MaxTimestampMs =>
            \A c \in cues' :
                (/\ c.type = "text" /\ c.text # Blank /\ due(c)
                 /\ stamp(c.start) < stamp(c.end) /\ stamp(c.start) <= position') =>
                    \/ [stamp |-> stamp(c.start), text |-> c.text] \in out'.tags
                    \/ \E d \in cues' \ {c} : d.text = c.text /\ d.start <= c.start
CueNeverSkipped == [][NeverSkipped]_vars

\* Caption tags stay between the media around them: none is stamped after the
\* media it precedes, and none before media already sent, unless a new text
\* segment moved the caption timeline.
TagsBetweenMedia ==
    [][out'.type = "media" /\ lastMedia # NoTime /\ ~newText =>
         \A t \in out'.tags : position <= t.stamp /\ t.stamp <= position']_vars

\* Nothing of an older text timeline survives: every scheduled cue and the cue
\* on screen belong to an interval loaded since the last text segment or reset.
NothingLeaks ==
    /\ \A t \in pending : \E c \in cues :
          c.type = "text" /\ t.at = (IF t.kind = "expire" THEN c.end ELSE c.start)
    /\ active # NoCue => \E c \in cues : c.text = active.text

\* When both pads have received EOS, the stream ends: the text buffers queued
\* in front of the text EOS can never strand it (finish_after_flv_eos).
HasEnded(q, eos) == eos \/ \E i \in DOMAIN q : q[i].type = "eos"
BothEnded == flow = "ok" /\ HasEnded(flvQ, flvEos) /\ HasEnded(textQ, textEos)
EndsAfterBothEos == BothEnded ~> ~BothEnded

-----------------------------------------------------------------------------
\* What the README promises and the element does not do.

\* "If a cue was active, the next media buffer carries an explicit clear before
\* new caption state appears": what the viewer sees after a media buffer, with
\* the prime tag on, is always a text of the current timeline.
ScreenBelongsToTimeline ==
    out.type = "media" /\ prime /\ screen # Blank => \E c \in cues : c.text = screen

\* "It never drops a transition because the media cadence skipped its exact
\* boundary": a cue of a millisecond or more that media has reached is written,
\* unless its text was on screen already.
NeverDropped ==
    LET due(c) == c \notin cues \/ \E t \in pending : t.kind = "show" /\ t.at = c.start
    IN  out'.type = "media" =>
            \A c \in cues' :
                (/\ c.type = "text" /\ c.text # Blank /\ due(c)
                 /\ origin' <= c.start /\ c.start <= lastMedia'
                 /\ c.end - c.start >= UnitsPerMs) =>
                    \/ \E t \in out'.tags : t.text = c.text
                    \/ \E d \in cues' \ {c} : d.text = c.text /\ d.start <= c.start
CueNeverDropped == [][NeverDropped]_vars

\* "The output timestamp is the FLV timestamp corresponding to the media
\* position at which the transition becomes ready."
TagAtMediaPosition ==
    out.type = "media" => \A t \in out.tags : t.stamp = position
=============================================================================
