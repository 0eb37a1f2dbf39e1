----------------------------- MODULE ChunkWindow -----------------------------
(***************************************************************************)
(* The sliding window of the chunked mode (Window, run_chunked and infer   *)
(* of transcribe-cpp/src/transcriber/worker.rs): a model without streaming *)
(* is run over the audio since the last text it published, again and       *)
(* again, until its rows end before the live edge.                         *)
(*                                                                         *)
(* Times are milliseconds since the stream began, and buffers are whole    *)
(* milliseconds.  The model is external: it cuts the words it hears into   *)
(* rows anew in each run, may take a row to last until the next one, and   *)
(* hears or misses what has only begun within the live edge.               *)
(***************************************************************************)
EXTENDS Integers, SequencesExt

CONSTANTS
    Scripts,     \* what may be said: sequences of words <<from, to>>
    ChunkMs,     \* chunk-duration
    LiveEdgeMs,  \* live-edge-offset
    MaxMs,       \* max_audio_ms of the family, the longest window
    MaxBuffer,   \* bound: length of a Feed
    MaxEnd,      \* bound: audio of a stream
    MaxStreams   \* bound: streams

\* A word lasts, and the next begins when it has ended.
IsScript(script) ==
    /\ script \in Seq(Nat \X Nat)
    /\ \A k \in DOMAIN script : script[k][1] < script[k][2]
    /\ \A j, k \in DOMAIN script : j < k => script[j][2] <= script[k][1]

\* The element refuses a live edge that is not shorter than the chunk.
ASSUME WindowAssumption ==
    /\ \A script \in Scripts : IsScript(script)
    /\ ChunkMs \in Nat /\ LiveEdgeMs \in Nat /\ LiveEdgeMs < ChunkMs
    /\ MaxMs \in Nat \ {0} /\ MaxBuffer \in Nat \ {0}
    /\ MaxEnd \in Nat /\ MaxStreams \in Nat \ {0}

VARIABLES
    stream,   \* what is said, and whether the model times its rows; no code state
    window,   \* the Window; length is that of its samples
    out,      \* the words published of this stream
    reported, \* the highest Progress of this stream
    waived,   \* how far audio was given up: an aborted drain, a forced trim
    streams   \* counted for the bound

vars == <<stream, window, out, reported, waived, streams>>

-----------------------------------------------------------------------------
\* The model (external).

\* The members of S from 1 to n, in order.
Ascending(S, n) ==
    LET members[k \in 0 .. n] ==
            IF k = 0 THEN <<>>
            ELSE IF k \in S THEN Append(members[k - 1], k) ELSE members[k - 1]
    IN  members[n]

Part(word, w) == [from |-> Max({word[1], w.start}), to |-> Min({word[2], w.start + w.length})]

End(w) == w.start + w.length

\* The parts of words in the window; on a drain all are heard, before it those
\* that begin in front of the live edge, and any of the rest.
Audible(w) == {k \in DOMAIN stream.script : stream.script[k][1] < End(w) /\ stream.script[k][2] > w.start}
Heard(w, drain) ==
    LET certain == {k \in Audible(w) : drain \/ stream.script[k][1] < End(w) - LiveEdgeMs}
        parts(ks) == LET order == Ascending(ks, Len(stream.script))
                     IN  [i \in DOMAIN order |-> Part(stream.script[order[i]], w)]
    IN  {parts(certain \cup more) : more \in SUBSET (Audible(w) \ certain)}

\* Rows, timed from the start of the window: parts cut at some places, each
\* ending with its last part or where the next one begins.
Rows(parts, cuts, lasting, w) ==
    LET ends == Ascending(cuts \cup {Len(parts)}, Len(parts))
        first(i) == IF i = 1 THEN 1 ELSE ends[i - 1] + 1
        next(i) == IF ends[i] = Len(parts) THEN End(w) ELSE parts[ends[i] + 1].from
        row(i) == [parts |-> SubSeq(parts, first(i), ends[i]),
                   t0 |-> parts[first(i)].from - w.start,
                   t1 |-> (IF lasting THEN next(i) ELSE parts[ends[i]].to) - w.start]
    IN  [i \in DOMAIN ends |-> row(i)]

\* What a run may return: text, and rows if the family aligns.  Silence is no
\* row, or one without text ("Whisper returns exactly one of these").
Transcripts(w, drain) ==
    UNION {IF parts = <<>>
           THEN {[text |-> <<>>, rows |-> rows] :
                     rows \in IF stream.timed
                              THEN {<<>>, <<[parts |-> <<>>, t0 |-> 0, t1 |-> w.length]>>}
                              ELSE {<<>>}}
           ELSE IF ~stream.timed THEN {[text |-> parts, rows |-> <<>>]}
           ELSE {[text |-> parts, rows |-> Rows(parts, cuts, lasting, w)] :
                     cuts \in SUBSET (1 .. Len(parts) - 1), lasting \in BOOLEAN}
           : parts \in Heard(w, drain)}

-----------------------------------------------------------------------------
\* The window.

NewWindow == [start |-> 0, length |-> 0, upTo |-> 0, frontier |-> 0, pending |-> 0]

Push(w, ms) == [w EXCEPT !.pending = @ + ms, !.length = @ + ms]

\* Mutant: clear does not take emitted_up_to_ms back.
ClearKeepsUpTo(w, at) == [w EXCEPT !.length = 0, !.start = at, !.pending = 0]

\* clear leaves the frontier as it is.
Clear(w, at) == [w EXCEPT !.length = 0, !.start = at, !.upTo = at, !.pending = 0]

Never == MaxEnd + 1

\* A row: without text, past the cutoff, old, or published.
Consider(seen, row, w, cutoff) ==
    LET t0 == w.start + row.t0
        t1 == Max({w.start + row.t1, t0})
    IN  IF row.parts = <<>> THEN seen
        ELSE IF t1 > cutoff THEN [seen EXCEPT !.withheld = Min({@, t0})]
        ELSE IF t0 < seen.upTo THEN seen
        ELSE [seen EXCEPT !.upTo = t1,
                  !.words = Append(@, [parts |-> row.parts, t0 |-> t0, t1 |-> t1])]

\* Rows one after the other.
Considered(w, rows, cutoff) ==
    LET seen[n \in 0 .. Len(rows)] ==
            IF n = 0 THEN [upTo |-> w.upTo, words |-> <<>>, withheld |-> Never]
            ELSE Consider(seen[n - 1], rows[n], w, cutoff)
    IN  seen[Len(rows)]

\* Mutant: a row that is withheld does not hold the frontier.
LimitAtCutoff(cutoff, withheld) == cutoff

\* How far nothing more is to be published.
Limit(cutoff, withheld) == Min({cutoff, withheld})

Harvest(w, transcript, drain) ==
    LET cutoff == IF drain THEN Never ELSE End(w) - LiveEdgeMs
        seen == Considered(w, transcript.rows, cutoff)
        t0 == Max({w.upTo, w.start})
        t1 == Max({End(w), t0})
        advanced(to) == IF drain THEN w.frontier ELSE Max({w.frontier, to})
    IN  IF transcript.rows # <<>>
        THEN [words |-> seen.words,
              window |-> [w EXCEPT !.upTo = seen.upTo,
                                   !.frontier = advanced(Limit(cutoff, seen.withheld))]]
        ELSE IF transcript.text = <<>>
        THEN [words |-> <<>>,
              window |-> [w EXCEPT !.upTo = IF drain THEN @ ELSE Max({@, cutoff}),
                                   !.frontier = advanced(cutoff)]]
        ELSE IF ~drain THEN [words |-> <<>>, window |-> w]
        ELSE [words |-> <<[parts |-> transcript.text, t0 |-> t0, t1 |-> t1]>>,
              window |-> [w EXCEPT !.upTo = t1]]

\* What a run published goes; beyond MaxMs more goes by force.
Published(w) == Max({w.upTo - w.start, 0})

Forced(w) == Max({w.length - Published(w) - MaxMs, 0})

\* Mutant: a fixed overlap of a millisecond is kept as context.
TrimOverlapping(w) ==
    LET drop == Max({Min({Published(w) + Forced(w), w.length}) - 1, 0})
    IN  IF drop = 0 THEN w
        ELSE [w EXCEPT !.length = @ - drop, !.start = @ + drop, !.upTo = Max({@, w.start + drop})]

Trim(w) ==
    LET drop == Min({Published(w) + Forced(w), w.length})
    IN  IF drop = 0 THEN w
        ELSE [w EXCEPT !.length = @ - drop, !.start = @ + drop, !.upTo = Max({@, w.start + drop})]

-----------------------------------------------------------------------------
\* The commands.

Streams == {[script |-> script, timed |-> timed] : script \in Scripts, timed \in BOOLEAN}

Init ==
    /\ stream \in Streams
    /\ window = NewWindow
    /\ out = <<>> /\ reported = 0 /\ waived = 0 /\ streams = 1

Report(at) == reported' = Max({reported, at})

\* Cmd::Feed of less than a chunk.
Gather(ms) ==
    /\ End(window) + ms <= MaxEnd /\ window.pending + ms < ChunkMs
    /\ window' = Push(window, ms)
    /\ UNCHANGED <<stream, out, reported, waived, streams>>

\* Cmd::Feed that completes one: the words, then the Progress.
Infer(ms) ==
    /\ End(window) + ms <= MaxEnd /\ window.pending + ms >= ChunkMs
    /\ LET pushed == [Push(window, ms) EXCEPT !.pending = 0]
       IN  \E transcript \in Transcripts(pushed, FALSE) :
              LET found == Harvest(pushed, transcript, FALSE)
              IN  /\ window' = Trim(found.window)
                  /\ out' = out \o found.words
                  /\ Report(found.window.frontier)
                  /\ waived' = IF Forced(found.window) > 0 THEN window'.start ELSE waived
    /\ UNCHANGED <<stream, streams>>

\* The cancel token ends the run: the audio waits for the next.
InferAborted(ms) ==
    /\ End(window) + ms <= MaxEnd /\ window.pending + ms >= ChunkMs
    /\ window' = [Push(window, ms) EXCEPT !.pending = 0]
    /\ UNCHANGED <<stream, out, reported, waived, streams>>

\* Cmd::Finalize; an empty window is not run.
Finalize ==
    /\ \E transcript \in IF window.length = 0 THEN {[text |-> <<>>, rows |-> <<>>]}
                         ELSE Transcripts(window, TRUE) :
          LET found == Harvest(window, transcript, TRUE)
          IN  /\ window' = Clear(found.window, End(window))
              /\ out' = out \o found.words
    /\ Report(End(window))
    /\ UNCHANGED <<stream, waived, streams>>

FinalizeAborted ==
    /\ window.length > 0
    /\ window' = Clear(window, End(window))
    /\ Report(End(window))
    /\ waived' = End(window)
    /\ UNCHANGED <<stream, out, streams>>

\* Cmd::Restart: other audio, from zero.
Restart ==
    /\ streams < MaxStreams
    /\ stream' \in Streams
    /\ window' = Clear(window, 0)
    /\ out' = <<>> /\ reported' = 0 /\ waived' = 0
    /\ streams' = streams + 1

Next ==
    \/ \E ms \in 1 .. MaxBuffer : Gather(ms) \/ Infer(ms) \/ InferAborted(ms)
    \/ Finalize \/ FinalizeAborted \/ Restart

Spec == Init /\ [][Next]_vars

-----------------------------------------------------------------------------
\* What was published ends within the window.
TypeOK ==
    /\ window.start \in 0 .. MaxEnd /\ End(window) <= MaxEnd
    /\ window.length \in Nat
    /\ window.upTo \in window.start .. End(window) /\ window.frontier \in 0 .. MaxEnd
    /\ window.pending \in 0 .. ChunkMs - 1
    /\ reported \in 0 .. MaxEnd /\ waived \in 0 .. MaxEnd /\ streams \in 1 .. MaxStreams

\* Comment at Window: "every row a run produces is new by construction".  However
\* each run cuts the same words, no audio is published twice or out of order, a
\* row stands where its words are, and nothing said in front of the window is
\* lost at a seam, unless it was given up.
RowsAreNew ==
    LET parts == FlattenSeq([i \in DOMAIN out |-> out[i].parts])
    IN  /\ \A i \in 1 .. Len(parts) - 1 : parts[i].to <= parts[i + 1].from
        /\ \A i \in DOMAIN out :
              /\ out[i].t0 <= Head(out[i].parts).from /\ out[i].t1 >= Last(out[i].parts).to
              /\ stream.timed => out[i].t0 = Head(out[i].parts).from
        /\ \A k \in DOMAIN stream.script :
              \A ms \in stream.script[k][1] .. stream.script[k][2] - 1 :
                  (waived <= ms /\ ms < window.start)
                      => \E i \in DOMAIN parts : parts[i].from <= ms /\ ms < parts[i].to

\* What is published lies behind the Progress sent before it, as Transcriber
\* takes for granted, and does not overlap.  After a restart the frontier of
\* the stream before is still reported, which Transcriber shows.
NothingBehindFrontier ==
    [][\A i \in DOMAIN out' :
          (streams' = streams /\ i > Len(out)) =>
              /\ streams = 1 /\ stream.timed => out'[i].t0 >= reported
              /\ i > 1 => out'[i].t0 >= out'[i - 1].t1]_vars

\* README.md:171, "Windows are capped at the family's max_audio_ms".
RunsAreCapped ==
    [][\A ms \in 1 .. MaxBuffer : Infer(ms) => window.length + ms <= MaxMs]_vars

\* README.md:172, "a window the model reports as empty is discarded rather than
\* carried forward": the live edge stays.
SilenceIsDiscarded ==
    [][\A ms \in 1 .. MaxBuffer :
          (Infer(ms) /\ Audible(Push(window, ms)) = {}) => window'.length <= LiveEdgeMs]_vars
=============================================================================
