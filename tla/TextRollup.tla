----------------------------- MODULE TextRollup -----------------------------
(***************************************************************************)
(* textrollup: timed words and GAPs in, the whole caption window and GAPs  *)
(* out (textrollup/src/rollup/imp.rs).  The streaming thread runs one      *)
(* handler at a time: it copies the settings, changes the state under its  *)
(* lock, and pushes the result after releasing it.  The application's      *)
(* thread sets properties and changes state in between.                    *)
(***************************************************************************)
EXTENDS RollupWindow, FiniteSets

CONSTANTS
    Words,        \* what words there are: records [width, ends]
    Geometries,   \* the settings [columns, lines, breaks] the application uses
    ClearAfters,  \* the clear-after settings it starts with, 0 for never
    Features,     \* what the environment does, see below
    MaxTime,      \* bound: input lies in 0 .. MaxTime
    MaxBatch,     \* bound: words in one buffer
    MaxWords,     \* bound: words in all
    MaxSegments   \* bound: segments, flushes and state changes

\* "reshape": columns, lines or break-on-sentence are set while playing.
\* "blank": empty buffers without duration, "blank_span": with one.
\* "hole": input does not tile.  "flush", "stop": flushes and state changes.
AllFeatures == {"reshape", "blank", "blank_span", "hole", "flush", "stop"}

ASSUME RollupAssumption ==
    /\ \A w \in Words : w.width \in Nat \ {0} /\ w.ends \in BOOLEAN
    /\ \A g \in Geometries :
          g.columns \in Nat \ {0} /\ g.lines \in Nat \ {0} /\ g.breaks \in BOOLEAN
    /\ ClearAfters \subseteq Nat
    /\ Features \subseteq AllFeatures
    /\ MaxTime \in Nat /\ MaxBatch \in Nat /\ MaxWords \in Nat /\ MaxSegments \in Nat

VARIABLES
    phase,        \* "paused", "stopping" (PausedToReady) or "ready"
    flushing,     \* the pads are flushing
    due,          \* what upstream must send next: "stream_start", "segment", "data"
    geometry, clearAfter, \* Settings
    setting,      \* the copy set_property has still to apply, or NoCopy
    handling,     \* the input being handled with its copy of the settings, or Idle
    toPush,       \* the handler's Out items still to be pushed
    window, lastEnd, frontier \* State

VARIABLES         \* what an observer has seen; no code state
    inputStart, inputEdge, \* upstream's last input in this segment
    spoken,       \* words received
    said,         \* the words received since the window was cleared
    reshaped,     \* the geometry changed below them
    out,          \* what the last step pushed
    edge,         \* end of the coverage pushed since the last segment
    shown,        \* the lines on screen
    shownEnd,     \* end of the buffer that put them there
    firstWord,    \* the first word of this segment
    segments

upstream == <<phase, flushing, due>>
settings == <<geometry, clearAfter, setting>>
state == <<window, lastEnd, frontier>>
sent == <<edge, shown, shownEnd, firstWord>>
text == <<said, reshaped>>
observed == <<inputStart, inputEdge, spoken, text, segments>>
vars == <<upstream, settings, handling, toPush, state, out, sent, observed>>

NoTime == -1
Time == Nat \cup {NoTime}
NoCopy == [columns |-> 0, lines |-> 0, breaks |-> FALSE]
Idle == [input |-> [kind |-> "none"]]

Gap(start, end) == [kind |-> "gap", start |-> start, end |-> end, lines |-> <<>>]
Cue(start, end, lines) == [kind |-> "cue", start |-> start, end |-> end, lines |-> lines]
Event(kind) == [kind |-> kind, start |-> 0, end |-> 0, lines |-> <<>>]
Nothing == Event("none")
Blank(at) == Cue(at, at, <<>>)

FreshWindow(g) == NewWindow(g.columns, g.lines, g.breaks)

Init ==
    /\ phase = "paused" /\ flushing = FALSE /\ due = "stream_start"
    /\ geometry \in Geometries /\ clearAfter \in ClearAfters /\ setting = NoCopy
    /\ handling = Idle /\ toPush = <<>>
    /\ window = FreshWindow(geometry) /\ lastEnd = NoTime /\ frontier = NoTime
    /\ inputStart = NoTime /\ inputEdge = NoTime /\ spoken = 0
    /\ said = <<>> /\ reshaped = FALSE /\ segments = 0
    /\ out = Nothing /\ edge = NoTime /\ shown = <<>> /\ shownEnd = NoTime /\ firstWord = 1

-----------------------------------------------------------------------------
\* Input reaches the element: the handler takes its copy of the settings.

Free == handling = Idle /\ toPush = <<>> /\ phase # "ready"

Enter(input) ==
    /\ handling' = [input |-> input, geometry |-> geometry, clearAfter |-> clearAfter]
    /\ out' = Nothing
    /\ UNCHANGED <<phase, flushing, settings, toPush, state, sent>>

\* Upstream tiles the timeline, unless it leaves holes.
Follows(start) == inputEdge # NoTime => start = inputEdge \/ ("hole" \in Features /\ start > inputEdge)

TextArrives(start, end, words) ==
    /\ Free /\ ~flushing /\ due = "data"
    /\ Follows(start) /\ end <= MaxTime
    /\ IF words = <<>>
       THEN /\ start = end => "blank" \in Features
            /\ start < end => "blank_span" \in Features
       ELSE start < end
    /\ spoken + Len(words) <= MaxWords
    /\ spoken' = spoken + Len(words)
    /\ inputStart' = start /\ inputEdge' = end
    /\ Enter([kind |-> "text", start |-> start, end |-> end,
              words |-> [i \in DOMAIN words |->
                            [width |-> words[i].width, ends |-> words[i].ends,
                             number |-> spoken + i]]])
    /\ UNCHANGED <<due, text, segments>>

GapArrives(start, end) ==
    /\ Free /\ ~flushing /\ due = "data"
    /\ Follows(start) /\ end <= MaxTime /\ start < end
    /\ inputStart' = start /\ inputEdge' = end
    /\ Enter([kind |-> "gap", start |-> start, end |-> end])
    /\ UNCHANGED <<due, spoken, text, segments>>

\* Stream-start, segment and flush-stop.
EventArrives(kind) ==
    /\ Free /\ segments < MaxSegments
    /\ \/ kind = "stream_start" /\ due = "stream_start" /\ ~flushing
       \/ kind = "segment" /\ due \in {"segment", "data"} /\ ~flushing
       \/ kind = "flush_stop" /\ flushing /\ phase = "paused"
    /\ due' = IF kind = "segment" THEN "data"
              ELSE IF due = "stream_start" /\ kind = "flush_stop" THEN due ELSE "segment"
    /\ inputStart' = NoTime /\ inputEdge' = NoTime
    /\ segments' = segments + 1
    /\ Enter([kind |-> kind])
    /\ UNCHANGED <<spoken, text>>

-----------------------------------------------------------------------------
\* The handlers change the state under its lock.

Handling(kind) == handling.input.kind = kind
Handled(items) ==
    /\ handling' = Idle /\ toPush' = items /\ out' = Nothing
    /\ UNCHANGED <<upstream, settings, sent, inputStart, inputEdge, spoken, segments>>

Later(a, b) == IF a > b THEN a ELSE b

\* Mutant: zero is a deadline like any other.
DeadlineOfZero == IF lastEnd = NoTime THEN NoTime ELSE lastEnd + handling.clearAfter

\* clear_deadline, with the settings the handler copied.
Deadline ==
    IF handling.clearAfter = 0 \/ lastEnd = NoTime THEN NoTime ELSE lastEnd + handling.clearAfter

\* Mutant: nobody looks for a clear that was missed.
ClearMissedNever(pts) == FALSE

\* clear_before_word.
ClearMissed(pts) == Deadline # NoTime /\ pts >= Deadline

Forget == said' = <<>> /\ reshaped' = FALSE

\* State::reset_display.
ResetDisplay == window' = Clear(window) /\ lastEnd' = NoTime /\ Forget

\* sink_chain of an empty buffer.
HandleBlank ==
    /\ Handling("text") /\ handling.input.words = <<>>
    /\ ResetDisplay
    /\ UNCHANGED frontier
    /\ Handled(<<Blank(handling.input.start)>>)

\* sink_chain of words: every word is taken, one cue shows the result.
HandleWords ==
    /\ Handling("text") /\ handling.input.words # <<>>
    /\ LET in == handling.input
           missed == ClearMissed(in.start)
           after == PushWords(IF missed THEN Clear(window) ELSE window, in.words)
       IN  /\ window' = after
           /\ said' = (IF missed THEN <<>> ELSE said) \o in.words
           /\ reshaped' = (reshaped /\ ~missed)
           /\ lastEnd' = in.end
           /\ Handled((IF missed THEN <<Blank(Deadline)>> ELSE <<>>)
                      \o <<Cue(in.start, in.end, Render(after))>>)
    /\ UNCHANGED frontier

\* Mutant: the GAP goes on unsplit behind the clear.
SplitGapWhole(start, end, at) == <<Blank(at), Gap(start, end)>>

\* The GAP around a clear: up to it, the clear, and the rest.
SplitGap(start, end, at) ==
    (IF start < at THEN <<Gap(start, at)>> ELSE <<>>)
    \o <<Blank(at)>>
    \o (IF end > at THEN <<Gap(Later(start, at), end)>> ELSE <<>>)

\* handle_gap.
HandleGap ==
    /\ Handling("gap")
    /\ LET start == handling.input.start
           end == handling.input.end
       IN  IF end < frontier THEN Handled(<<>>) /\ UNCHANGED <<state, text>>
           ELSE /\ frontier' = Later(end, frontier)
                /\ IF Deadline = NoTime \/ end < Deadline
                   THEN Handled(<<Gap(start, end)>>) /\ UNCHANGED <<window, lastEnd, text>>
                   ELSE /\ Handled(SplitGap(start, end, Deadline))
                        /\ ResetDisplay

\* Mutant: a segment forgets the deadline but not the words.
ResetTimelineKeepsWords ==
    lastEnd' = NoTime /\ frontier' = NoTime /\ UNCHANGED <<window, text>>

\* State::reset_timeline.
ResetTimeline ==
    ResetDisplay /\ frontier' = NoTime

HandleSegment ==
    /\ Handling("segment")
    /\ ResetTimeline
    /\ Handled(<<Event("segment")>>)

\* State::reset_all.
ResetAll(g) ==
    window' = FreshWindow(g) /\ lastEnd' = NoTime /\ frontier' = NoTime /\ Forget

HandleReset ==
    /\ Handling("stream_start") \/ Handling("flush_stop")
    /\ ResetAll(handling.geometry)
    /\ Handled(<<Event(handling.input.kind)>>)

\* flush: the items leave in order, until a buffer is refused.
PushNext ==
    /\ toPush # <<>>
    /\ LET item == Head(toPush)
           refused == flushing /\ item.kind # "flush_stop"
       IN  /\ toPush' = IF refused /\ item.kind = "cue" THEN <<>> ELSE Tail(toPush)
           /\ out' = IF refused THEN Nothing ELSE item
           /\ flushing' = (flushing /\ item.kind # "flush_stop")
           /\ IF refused THEN UNCHANGED sent
              ELSE CASE item.kind = "gap" ->
                          edge' = item.end /\ UNCHANGED <<shown, shownEnd, firstWord>>
                     [] item.kind = "cue" ->
                          /\ edge' = item.end /\ shown' = item.lines /\ shownEnd' = item.end
                          /\ UNCHANGED firstWord
                     [] OTHER ->
                          /\ edge' = NoTime /\ shown' = <<>> /\ shownEnd' = NoTime
                          /\ firstWord' = spoken + 1
    /\ UNCHANGED <<phase, due, settings, handling, state, observed>>

-----------------------------------------------------------------------------
\* The application: set_property, in two steps, flushes and state changes.

Quiet == out' = Nothing /\ UNCHANGED <<toPush, handling, sent, inputStart, inputEdge, spoken, segments>>

SetProperty(g) ==
    /\ "reshape" \in Features /\ setting = NoCopy
    /\ Cardinality({f \in DOMAIN g : g[f] # geometry[f]}) = 1
    /\ geometry' = g /\ setting' = g
    /\ Quiet /\ UNCHANGED <<upstream, clearAfter, state, text>>

ApplySettings ==
    /\ setting # NoCopy
    /\ window' = Reshape(window, setting.columns, setting.lines, setting.breaks)
    /\ setting' = NoCopy
    /\ reshaped' = (said # <<>>)
    /\ Quiet /\ UNCHANGED <<upstream, geometry, clearAfter, lastEnd, frontier, said>>

FlushStart ==
    /\ "flush" \in Features /\ phase = "paused" /\ ~flushing /\ segments < MaxSegments
    /\ flushing' = TRUE
    /\ Quiet /\ UNCHANGED <<phase, due, settings, state, text>>

\* change_state PausedToReady: reset first, then the pads are deactivated.
PausedToReady ==
    /\ "stop" \in Features /\ phase = "paused" /\ setting = NoCopy /\ segments < MaxSegments
    /\ phase' = "stopping"
    /\ ResetAll(geometry)
    /\ Quiet /\ UNCHANGED <<flushing, due, settings>>

DeactivatePads ==
    /\ phase = "stopping"
    /\ \/ ~flushing /\ flushing' = TRUE /\ UNCHANGED phase
       \/ flushing /\ Free /\ phase' = "ready" /\ UNCHANGED flushing
    /\ Quiet /\ UNCHANGED <<due, settings, state, text>>

ReadyToPaused ==
    /\ phase = "ready"
    /\ phase' = "paused" /\ flushing' = FALSE /\ due' = "stream_start"
    /\ inputStart' = NoTime /\ inputEdge' = NoTime
    /\ out' = Nothing
    /\ edge' = NoTime /\ shown' = <<>> /\ shownEnd' = NoTime /\ firstWord' = spoken + 1
    /\ UNCHANGED <<settings, handling, toPush, state, spoken, text, segments>>

-----------------------------------------------------------------------------
Batches == UNION {[1 .. n -> Words] : n \in 0 .. MaxBatch}

Input ==
    \/ \E start, end \in 0 .. MaxTime : start <= end /\
          (GapArrives(start, end) \/ \E words \in Batches : TextArrives(start, end, words))
    \/ \E kind \in {"stream_start", "segment", "flush_stop"} : EventArrives(kind)

Streaming == HandleBlank \/ HandleWords \/ HandleGap \/ HandleSegment \/ HandleReset \/ PushNext

Application ==
    \/ \E g \in Geometries : SetProperty(g)
    \/ ApplySettings
    \/ FlushStart \/ PausedToReady \/ DeactivatePads \/ ReadyToPaused

Next == Input \/ Streaming \/ Application

Spec == Init /\ [][Next]_vars

-----------------------------------------------------------------------------
Line == Seq([width : Nat, ends : BOOLEAN, number : Nat])

TypeOK ==
    /\ phase \in {"paused", "stopping", "ready"} /\ flushing \in BOOLEAN
    /\ due \in {"stream_start", "segment", "data"}
    /\ geometry \in Geometries /\ clearAfter \in ClearAfters
    /\ setting \in Geometries \cup {NoCopy}
    /\ window.done \in Seq(Line) /\ window.current \in Line
    /\ \A i \in DOMAIN window.done : window.done[i] # <<>>
    /\ \E g \in Geometries : Len(window.done) <= g.lines
    /\ lastEnd \in Time /\ frontier \in Time /\ edge \in Time /\ shownEnd \in Time
    /\ shown \in Seq(Line) /\ said \in Line
    /\ \A i \in DOMAIN toPush : toPush[i].lines \in Seq(Line) /\ toPush[i].start <= toPush[i].end
    /\ inputStart \in Time /\ inputEdge \in Time /\ reshaped \in BOOLEAN
     /\ spoken \in Nat /\ firstWord \in Nat /\ segments \in Nat

\* README: the element preserves "the input buffer's PTS and duration exactly"
\* and full GAP coverage.  Each GAP and cue starts where the coverage before it
\* or the hole in the input ended, a clear is never behind it, and the last item
\* of an input reaches its end.
CoveragePreserved ==
    [][out'.kind \in {"gap", "cue"} /\ edge # NoTime =>
         /\ out'.start < out'.end => out'.start = Later(edge, inputStart)
         /\ out'.start >= edge
         /\ toPush' = <<>> => edge' = inputEdge]_vars

\* README: the clear is published at "last_input_end + clear-after", while the
\* silence is in progress: as long as the element plays, no GAP passes that
\* instant and no text starts behind it with the old text still on screen,
\* whether GAPs, words or nothing came in between.  (An empty buffer behind a
\* hole clears at its own time, which sink_chain does not compare with it.)
ClearedInTime ==
    [][phase = "paused" /\ shown # <<>> /\ clearAfter > 0 /\ out'.kind \in {"gap", "cue"} =>
         /\ out'.kind = "gap" => out'.end <= shownEnd + clearAfter
         /\ out'.lines # <<>> => out'.start < shownEnd + clearAfter]_vars

\* The clear comes at that instant and no earlier, and never with clear-after=0,
\* unless an empty buffer asked for it.
ClearedNoEarlier ==
    [][(out'.kind = "cue" /\ out'.lines = <<>> /\ shown # <<>>) =>
          \/ clearAfter > 0 /\ out'.start = shownEnd + clearAfter
          \/ inputStart = inputEdge /\ out'.start = inputEdge]_vars

\* Words of one line of a cue, by number.
Numbers(line) == {line[i].number : i \in DOMAIN line}

\* README: "Nothing already on screen moves."  A line that shares a word with
\* one on screen is that line, the bottom one perhaps grown, and a line that
\* scrolled off does not come back.
Grown(old, new) == Len(old) <= Len(new) /\ SubSeq(new, 1, Len(old)) = old
NothingMoves ==
    [][out'.kind = "cue" /\ shown # <<>> /\ out'.lines # <<>> =>
         /\ \A i \in DOMAIN shown, j \in DOMAIN out'.lines :
               Numbers(shown[i]) \cap Numbers(out'.lines[j]) # {} =>
                  \/ out'.lines[j] = shown[i]
                  \/ i = Len(shown) /\ Grown(shown[i], out'.lines[j])
         /\ shown[1][1].number <= out'.lines[1][1].number]_vars

\* README: "text from the previous timeline cannot leak into the new one":
\* every word shown was received since the last segment or flush.
OnlyCurrentText ==
    \A i \in DOMAIN shown : \A n \in Numbers(shown[i]) : n >= firstWord

-----------------------------------------------------------------------------
\* What the README promises and the element does not do.

\* "columns, lines and break-on-sentence are writable while playing" and "affect
\* future wrapping": once set_property and the handlers are done, the window
\* has the geometry that was set.
GeometryApplied ==
    handling = Idle /\ setting = NoCopy =>
        /\ window.columns = geometry.columns /\ window.lines = geometry.lines
        /\ window.breaks = geometry.breaks
=============================================================================
