--------------------------- MODULE CommitTracker ----------------------------
(***************************************************************************)
(* CommitTracker (transcribe-cpp/src/transcriber/commit.rs) and the        *)
(* streaming loop of worker.rs that feeds it: which timed rows of a        *)
(* growing, partly tentative hypothesis may be published, and how far the  *)
(* timeline may be closed meanwhile.                                       *)
(*                                                                         *)
(* A text is a sequence of pieces, of which some have a space in front.    *)
(* The model that hears it is external: it commits pieces of a script,     *)
(* append-only, guesses a few more, right or wrong, and reports how far    *)
(* the audio is decided.  Times are in ticks.                              *)
(***************************************************************************)
EXTENDS Integers, SequencesExt

CONSTANTS
    Scripts,      \* what may be said
    Marks,        \* the punctuation among the pieces
    Families,     \* of models: "none" aligns nothing, the rows of "bare" leave
                  \* punctuation out, "merging" makes one row of its first two
                  \* words when the third is heard
    Settle,       \* HOLDBACK_SETTLE_MS, in ticks
    MaxFeed,      \* bound: ticks of audio in a Feed
    LastCommit,   \* bound: the edge after which nothing more is committed
    MaxStreams    \* bound: streams

ASSUME TrackerAssumption ==
    /\ Families \subseteq {"none", "full", "bare", "merging"}
    /\ Settle \in Nat \ {0} /\ MaxFeed \in Nat \ {0}
    /\ LastCommit \in Nat /\ MaxStreams \in Nat \ {0}

VARIABLES
    stream,   \* the native stream: script, family, reports, hyp, committed, grew
    edge,     \* the audio it has decided
    tracker,  \* the CommitTracker
    out,      \* the words published of this stream
    frontier, \* the highest Progress reported in it
    final,    \* it is finalized
    streams   \* counted for the bound

vars == <<stream, edge, tracker, out, frontier, final, streams>>

-----------------------------------------------------------------------------
\* Texts and rows.

Piece(c, sp) == [c |-> c, sp |-> sp]
Misheard == "?"
MaxEdge == LastCommit + Settle + 1
NoRow == [text |-> <<>>, t0 |-> 0, t1 |-> 0]

Pieces(text) == [i \in DOMAIN text |-> text[i].c]

\* A text cut in front of its spaces.
Cut(text) ==
    LET starts == SelectSeq([i \in DOMAIN text |-> i], LAMBDA i : text[i].sp \/ i = 1)
    IN  [k \in DOMAIN starts |->
            SubSeq(text, starts[k], IF k = Len(starts) THEN Len(text) ELSE starts[k + 1] - 1)]

\* The words of a text, punctuation included.
Words(text) == LET cut == Cut(text) IN [k \in DOMAIN cut |-> Pieces(cut[k])]

\* units: the timed rows of a hypothesis, its tokens joined into words.  t is
\* the tick a piece is heard in.
Units(family, hyp) ==
    LET words == Cut(hyp)
        cut == IF family = "merging" /\ Len(words) > 2
               THEN <<words[1] \o words[2]>> \o SubSeq(words, 3, Len(words)) ELSE words
        shown(p) == family # "bare" \/ p.c \notin Marks
        row(word) == [text |-> Pieces(SelectSeq(word, shown)), t0 |-> Head(word).t, t1 |-> Last(word).t + 1]
    IN  IF family = "none" THEN <<>>
        ELSE SelectSeq([k \in DOMAIN cut |-> row(cut[k])], LAMBDA r : r.text # <<>>)

-----------------------------------------------------------------------------
\* align_units: each row is searched behind the one before it; the first that
\* is not found ends the search.  A span is where a row's pieces are.
Found(text, cursor, needle, i) ==
    /\ i > cursor /\ i + Len(needle) - 1 <= Len(text)
    /\ \A j \in DOMAIN needle : text[i + j - 1].c = needle[j] /\ (j > 1 => ~text[i + j - 1].sp)

AlignUnits(text, units) ==
    LET at(cursor, row) == {i \in DOMAIN text : Found(text, cursor, row.text, i)}
        span[k \in 0 .. Len(units)] ==
            IF k = 0 THEN <<0, 0>>
            ELSE LET cursor == span[k - 1][2]
                     places == at(cursor, units[k])
                 IN  IF places = {} THEN <<0, Len(text)>>
                     ELSE <<Min(places), Min(places) + Len(units[k].text) - 1>>
        lost == {k \in DOMAIN units : span[k][1] = 0}
    IN  [k \in 1 .. IF lost = {} THEN Len(units) ELSE Min(lost) - 1 |-> span[k]]

OnlyMarks(pieces) == IF \A i \in DOMAIN pieces : pieces[i].c \in Marks THEN Pieces(pieces) ELSE <<>>

\* canonical_unit_text: the row with the punctuation that touches it.
CanonicalUnitText(text, spans, i, fallback) ==
    IF i > Len(spans) THEN fallback
    ELSE LET first == spans[i][1]
             last == spans[i][2]
             previous == IF i = 1 THEN 0 ELSE spans[i - 1][2]
             next == IF i = Len(spans) THEN Len(text) + 1 ELSE spans[i + 1][1]
             \* From the last space in front, to the first space behind.
             spaces == {j \in previous + 1 .. first : text[j].sp}
             from == IF spaces # {} THEN Max(spaces) ELSE IF i = 1 THEN 1 ELSE first
             gaps == {j \in last + 1 .. next - 1 : text[j].sp}
             to == IF gaps # {} THEN Min(gaps) - 1 ELSE next - 1
         IN  OnlyMarks(SubSeq(text, from, first - 1))
             \o Pieces(SubSeq(text, first, last))
             \o OnlyMarks(SubSeq(text, last + 1, to))

-----------------------------------------------------------------------------
\* The tracker.

NewTracker ==
    [words |-> 0, bytes |-> 0, upTo |-> 0, pending |-> NoRow,
     length |-> 0, growth |-> 0]

\* Mutant: the margin is measured from the end of the waiting row.
SettledSinceRow(tr, at) == at - tr.pending.t1 >= Settle

\* text_has_settled.
TextHasSettled(tr, at) == at - tr.growth >= Settle

\* Mutant: a waiting row is only looked at when the text grows.
NeverReleased(tr, at) == FALSE

PendingIsSettled(tr, at) == tr.pending # NoRow /\ TextHasSettled(tr, at)

\* take_untimed: all that is new, as one span up to the edge.
TakeUntimed(tr, text, at) ==
    LET t1 == IF at > tr.upTo THEN at ELSE tr.upTo
        new == SubSeq(text, tr.bytes + 1, Len(text))
    IN  IF new = <<>> THEN [tracker |-> tr, words |-> <<>>]
        ELSE [tracker |-> [tr EXCEPT !.bytes = Len(text), !.upTo = t1],
              words |-> <<[text |-> Pieces(new), t0 |-> tr.upTo, t1 |-> t1]>>]

\* How many rows are covered: at the end all, before it all found but one,
\* unless that one is the last of the snapshot and has settled.
Covered(tr, aligned, count, at, last) ==
    IF last THEN count
    ELSE IF aligned = 0 THEN 0
    ELSE IF aligned = count /\ at > 0 /\ TextHasSettled(tr, at) THEN aligned ELSE aligned - 1

TakeTimed(tr, text, units, at, last) ==
    LET spans == AlignUnits(text, units)
        covered == Covered(tr, Len(spans), Len(units), at, last)
        start == IF tr.words < covered THEN tr.words ELSE covered
        \* A row the audio is not drained to ends the loop.
        early == {i \in start + 1 .. covered : ~last /\ at > 0 /\ units[i].t1 > at}
        stop == IF early = {} THEN covered ELSE Min(early) - 1
        words == [k \in 1 .. stop - start |->
                    [text |-> CanonicalUnitText(text, spans, start + k, units[start + k].text),
                     t0 |-> units[start + k].t0, t1 |-> units[start + k].t1]]
        taken == IF stop > start THEN stop ELSE tr.words
    IN  [tracker |->
            [tr EXCEPT !.words = taken, !.bytes = Len(text),
                       !.upTo = IF words = <<>> THEN @ ELSE Max({@, Last(words).t1}),
                       !.pending = IF taken < Len(units) THEN units[taken + 1] ELSE NoRow],
         words |-> words]

Take(tr, text, units, at, last) ==
    LET seen == IF Len(text) = tr.length THEN tr
                ELSE [tr EXCEPT !.length = Len(text), !.growth = at]
    IN  IF units = <<>> THEN TakeUntimed(seen, text, at)
        ELSE TakeTimed(seen, text, units, at, last)

\* Mutant: the edge is reported while a row waits.
FrontierAtEdge(tr, at) == at

FrontierOf(tr, at) == IF tr.pending # NoRow THEN Min({at, tr.pending.t0}) ELSE at

-----------------------------------------------------------------------------
\* The stream (external): what it may turn its hypothesis into.

Committed == SubSeq(stream.hyp, 1, stream.committed)

\* Heard after hyp: a word starts where the audio is not decided yet; the end
\* of a growing one may lie behind the edge.
Hear(hyp, p, undecided) ==
    LET after == IF hyp = <<>> THEN -1 ELSE Last(hyp).t
    IN  Append(hyp, [c |-> p.c, sp |-> p.sp,
                     t |-> IF p.sp \/ hyp = <<>> THEN Max({after + 1, undecided}) ELSE after])

\* The pieces of rest heard after hyp, one after the other.
HearAll(hyp, rest, undecided) ==
    LET heard[n \in 0 .. Len(rest)] ==
            IF n = 0 THEN hyp ELSE Hear(heard[n - 1], rest[n], undecided)
    IN  heard[Len(rest)]

\* The next n pieces of the script are committed.
Commits(n) ==
    HearAll(Committed, SubSeq(stream.script, stream.committed + 1, stream.committed + n), edge)

\* What may stand behind the committed pieces, undecided at the edge.
Guesses(hyp, undecided) ==
    {hyp}
    \cup {HearAll(hyp, SubSeq(stream.script, Len(hyp) + 1, n), undecided) :
              n \in Len(hyp) + 1 .. Len(stream.script)}
    \cup {Hear(hyp, Piece(Misheard, sp), undecided) : sp \in BOOLEAN}

\* A family that leaves punctuation out of its rows hears an opening mark
\* together with what it opens.
HasRows(hyp) ==
    stream.family = "bare" =>
        LET cut == Cut(hyp)
        IN  \A k \in DOMAIN cut : \E i \in DOMAIN cut[k] : cut[k][i].c \notin Marks

\* A word does not go on once its text has settled: the margin of the tracker
\* is taken to be long enough for the model family.
MayCommit(n) ==
    /\ stream.committed + n <= Len(stream.script)
    /\ (n > 0 /\ stream.reports /\ edge - stream.grew >= Settle)
           => stream.committed = 0 \/ stream.script[stream.committed + 1].sp

NewStream(script, family, reports) ==
    [script |-> script, family |-> family, reports |-> reports,
     hyp |-> <<>>, committed |-> 0, grew |-> 0]

Streams == {NewStream(script, family, reports) :
               script \in Scripts, family \in Families, reports \in BOOLEAN}

Reported(at) == IF stream.reports THEN at ELSE 0

Init ==
    /\ stream \in Streams
    /\ edge = 0 /\ tracker = NewTracker
    /\ out = <<>> /\ frontier = 0 /\ final = FALSE
    /\ streams = 1

\* Cmd::Feed: audio is decided, n pieces are committed, the rest is guessed.
\* Without new text the tracker is only asked once its row has settled.
Feed(ticks, n) ==
    LET at == edge + ticks
        hyp == Commits(n)
    IN  /\ ~final /\ at <= MaxEdge
        /\ edge' = at
        /\ n > 0 => at <= LastCommit
        /\ MayCommit(n) /\ HasRows(hyp)
        /\ \E guess \in Guesses(hyp, at) :
              /\ HasRows(guess) /\ (at = MaxEdge => guess = hyp)
              /\ stream' = [stream EXCEPT !.hyp = guess, !.committed = @ + n,
                                          !.grew = IF n > 0 THEN at ELSE @]
              /\ IF n > 0 \/ PendingIsSettled(tracker, Reported(at))
                 THEN LET taken == Take(tracker, hyp, Units(stream.family, guess), Reported(at), FALSE)
                      IN  tracker' = taken.tracker /\ out' = out \o taken.words
                 ELSE UNCHANGED <<tracker, out>>
        /\ frontier' = Max({frontier, FrontierOf(tracker', Reported(at))})
        /\ UNCHANGED <<final, streams>>

\* Cmd::Finalize: the model commits what it takes for final, and all goes out.
Finalize(ticks, n) ==
    LET at == edge + ticks
        hyp == Commits(n)
        taken == Take(tracker, hyp, Units(stream.family, hyp), at, TRUE)
    IN  /\ ~final /\ at <= MaxEdge
        /\ edge' = at
        /\ MayCommit(n) /\ HasRows(hyp)
        /\ stream' = [stream EXCEPT !.hyp = hyp, !.committed = @ + n]
        /\ tracker' = taken.tracker /\ out' = out \o taken.words
        /\ final' = TRUE
        /\ UNCHANGED <<frontier, streams>>

\* Mutant: the tracker outlives its stream.
TrackerKept == tracker

\* continue 'stream, after a Finalize or on a Restart.
TrackerOfNextStream == NewTracker

NextStream ==
    /\ streams < MaxStreams
    /\ stream' \in Streams
    /\ edge' = 0 /\ tracker' = TrackerOfNextStream
    /\ out' = <<>> /\ frontier' = 0 /\ final' = FALSE
    /\ streams' = streams + 1

Next ==
    \/ \E ticks \in 1 .. MaxFeed, n \in 0 .. Len(stream.script) : Feed(ticks, n)
    \/ \E ticks \in 0 .. MaxFeed, n \in 0 .. Len(stream.script) : Finalize(ticks, n)
    \/ NextStream

Spec == Init /\ [][Next]_vars

\* Audio keeps coming.
AudioAdvances == ~final /\ edge' \in edge + 1 .. MaxEdge /\ streams' = streams

FairSpec == Spec /\ WF_edge(AudioAdvances)

-----------------------------------------------------------------------------
TypeOK ==
    /\ edge \in 0 .. MaxEdge /\ frontier \in 0 .. MaxEdge
    /\ final \in BOOLEAN /\ streams \in 1 .. MaxStreams
    /\ stream.committed \in 0 .. Len(stream.hyp)
    /\ tracker.words \in 0 .. Len(Words(Committed))
    /\ tracker.bytes \in 0 .. stream.committed /\ tracker.length \in 0 .. stream.committed
    /\ tracker.upTo \in Nat /\ tracker.growth \in 0 .. edge
    /\ \A i \in DOMAIN out : out[i].t0 <= out[i].t1

\* commit.rs, "append-only timed words": what is published are the words of the
\* committed text, whole, with their punctuation, each once and in order,
\* whatever the model guessed meanwhile and however its text grew; take_final
\* leaves none behind.
WholeWordsOnce ==
    LET words == Words(Committed)
        published == FlattenSeq([i \in DOMAIN out |-> out[i].text])
    IN  /\ IsPrefix(published, Pieces(Committed))
        /\ stream.family = "none" => published = Pieces(Committed)
        /\ stream.family \in {"full", "bare"} => \A i \in DOMAIN out : out[i].text = words[i]
        /\ (final /\ stream.family # "none") => Len(out) = Len(words)

\* Nothing is published in front of a Progress the element may have closed the
\* timeline with: the contract Transcriber takes for granted of its worker.  A
\* family that aligns nothing has its Progress ignored: its spans tile.
NothingBehindFrontier ==
    [][\A i \in DOMAIN out' :
          streams' = streams /\ i > Len(out)
              => IF stream.family = "none" THEN out'[i].t0 = tracker.upTo
                 ELSE out'[i].t0 >= frontier]_vars

\* The last word before a pause is not stranded: with audio going on, every
\* word that is committed is published, if the family reports progress.
WordsAreReleased ==
    \A k \in 1 .. 3 :
        (stream.reports /\ stream.family # "none" /\ Len(Words(Committed)) >= k)
            ~> (Len(out) >= k \/ final \/ Len(Words(Committed)) < k)
=============================================================================
