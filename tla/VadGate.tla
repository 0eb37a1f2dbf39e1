------------------------------- MODULE VadGate ------------------------------
(***************************************************************************)
(* The VAD gate (transcribe-cpp/src/transcriber/vad.rs), sample by sample, *)
(* and how the element places what it releases on the timeline (imp.rs,    *)
(* push_samples).  The gate works in frames while audio comes in buffers   *)
(* of any length, and reaches back into buffers long gone.                 *)
(*                                                                         *)
(* The detector is external: it may take any frame for voice.  A sample is *)
(* its place in the stream and whether it is digital silence.              *)
(***************************************************************************)
EXTENDS Integers, Sequences, FiniteSetsExt

CONSTANTS
    FrameLength, \* FRAME, in samples
    Hangover,    \* DEFAULT_HANGOVER_FRAMES
    Preroll,     \* PREROLL_MS, in samples
    MaxBuffer,   \* bound: samples in a buffer
    MaxSamples,  \* bound: samples between two arms
    MaxArms      \* bound: times the gate is armed

ASSUME GateAssumption ==
    /\ FrameLength \in Nat \ {0} /\ Hangover \in Nat \ {0}
    /\ Preroll \in Nat /\ MaxBuffer \in Nat /\ MaxSamples \in Nat /\ MaxArms \in Nat \ {0}

VARIABLES
    gate,   \* the Gate: preroll, pending, seen, voiced_run, open
    next,   \* next_pts: where the next buffer starts, one sample a tick
    fed,    \* what the model is fed, the time the element gives its start, and
            \* skipped_samples
    heard, voiced, \* history since the arm: the samples, the detector's verdicts
    start,  \* history: where the first of them is
    arms    \* counted for the bound

vars == <<gate, next, fed, heard, voiced, start, arms>>

Armed == [preroll |-> <<>>, pending |-> <<>>, seen |-> 0, run |-> 0, open |-> FALSE]
NothingFed == [audio |-> <<>>, at |-> 0, skipped |-> 0]

Init ==
    /\ gate = Armed /\ fed = NothingFed
    /\ next = 0 /\ start = 0
    /\ heard = <<>> /\ voiced = <<>>
    /\ arms = 1

-----------------------------------------------------------------------------
Latest(n, s) == SubSeq(s, IF Len(s) > n THEN Len(s) - n + 1 ELSE 1, Len(s))

\* The samples behind the last whole frame wait for the next buffer.
Remainder(audio, frames) == SubSeq(audio, frames * FrameLength + 1, Len(audio))

\* Mutant: an unvoiced frame does not end the run.
RunGoesOn(run, isVoice) == IF isVoice THEN run + 1 ELSE run

\* voiced_run after a frame.
NextRun(run, isVoice) == IF isVoice THEN run + 1 ELSE 0

\* Mutant: the ring is cut before a frame is added to it.
RetainFrame(preroll, audio, frames) ==
    IF frames = 0 THEN preroll ELSE Latest(Preroll, preroll) \o SubSeq(audio, 1, frames * FrameLength)

\* retain, for each frame classified.
Retained(preroll, audio, frames) == Latest(Preroll, preroll \o SubSeq(audio, 1, frames * FrameLength))

\* open_on: digital silence is trimmed off the front.
Trimmed(audio) ==
    LET sounds == {i \in DOMAIN audio : ~audio[i].silent}
    IN  IF sounds = {} THEN <<>> ELSE SubSeq(audio, Min(sounds), Len(audio))

\* Mutant: what is skipped is counted before the trim.
SkippedUntrimmed(seen, kept, audio) == seen - kept

SkippedSamples(seen, kept, audio) == seen - Len(audio)

\* push, while it is closed.  scores are the verdicts on the frames that become
\* complete; the detector is not asked again once the run is long enough.
Classify(samples, scores) ==
    LET audio == gate.pending \o samples
        run[k \in 0 .. Len(scores)] == IF k = 0 THEN gate.run ELSE NextRun(run[k - 1], scores[k])
        opens == {k \in DOMAIN scores : run[k] >= Hangover}
        frames == IF opens = {} THEN Len(scores) ELSE Min(opens)
        kept == Retained(gate.preroll, audio, frames)
        tail == Remainder(audio, frames)
        seen == gate.seen + Len(samples)
    IN  IF opens = {}
        THEN [gate |-> [gate EXCEPT !.preroll = kept, !.pending = tail, !.seen = seen, !.run = run[frames]],
              asked |-> frames, released |-> <<>>, skipped |-> 0]
        ELSE LET out == Trimmed(kept) \o SubSeq(audio, frames * FrameLength + 1, Len(audio))
             IN  [gate |-> [gate EXCEPT !.preroll = <<>>, !.pending = <<>>, !.seen = seen,
                                        !.run = run[frames], !.open = TRUE],
                  asked |-> frames, released |-> out,
                  skipped |-> SkippedSamples(seen, Len(kept) + Len(tail), out)]

-----------------------------------------------------------------------------
\* A buffer of the element, whose samples are silent or not.
Buffer(silent) == [i \in DOMAIN silent |-> [at |-> next + i - 1, silent |-> silent[i]]]

Withhold(samples, scores) ==
    LET decided == Classify(samples, scores)
    IN  /\ ~gate.open /\ ~decided.gate.open
        /\ gate' = decided.gate
        /\ voiced' = voiced \o scores
        /\ UNCHANGED fed

\* The element takes the instant the gate was armed back from the end of the
\* buffer.
Open(samples, scores) ==
    LET decided == Classify(samples, scores)
        armedAt == next + Len(samples) - (decided.skipped + Len(decided.released))
    IN  /\ ~gate.open /\ decided.gate.open
        /\ gate' = decided.gate
        /\ voiced' = voiced \o SubSeq(scores, 1, decided.asked)
        /\ fed' = [audio |-> decided.released, at |-> armedAt + decided.skipped, skipped |-> decided.skipped]

PassThrough(samples) ==
    /\ gate.open
    /\ fed' = [fed EXCEPT !.audio = @ \o samples]
    /\ UNCHANGED <<gate, voiced>>

Push(silent) ==
    LET samples == Buffer(silent)
        frames == IF gate.open THEN 0 ELSE (Len(gate.pending) + Len(samples)) \div FrameLength
    IN  /\ Len(heard) + Len(samples) <= MaxSamples
        /\ \/ \E scores \in [1 .. frames -> BOOLEAN] : Withhold(samples, scores) \/ Open(samples, scores)
           \/ PassThrough(samples)
        /\ next' = next + Len(samples)
        /\ heard' = heard \o samples
        /\ UNCHANGED <<start, arms>>

\* Gate::reset, by restart: on a discontinuity, a flush or an error: armed again, with the
\* audio elsewhere.
Rearm(jump) ==
    /\ arms < MaxArms
    /\ gate' = Armed /\ fed' = NothingFed
    /\ next' = next + jump /\ start' = next + jump
    /\ heard' = <<>> /\ voiced' = <<>>
    /\ arms' = arms + 1

Next ==
    \/ \E n \in 1 .. MaxBuffer : \E silent \in [1 .. n -> BOOLEAN] : Push(silent)
    \/ \E jump \in {0, 1} : Rearm(jump)

Spec == Init /\ [][Next]_vars

-----------------------------------------------------------------------------
TypeOK ==
    /\ Len(gate.pending) < FrameLength /\ Len(gate.preroll) <= Preroll
    /\ gate.seen \in 0 .. Len(heard) /\ gate.run \in 0 .. Hangover
    /\ gate.open \in BOOLEAN
    /\ next = start + Len(heard)
    /\ arms \in 1 .. MaxArms

\* The frame that opens the gate, of all the frames heard since the arm.
OpeningFrames ==
    {f \in Hangover .. Len(voiced) : \A k \in f - Hangover + 1 .. f : voiced[k]}

\* "It only decides which sample is the first the model sees": however the
\* audio was cut into buffers, the gate is open exactly if a run of frames of
\* the whole stream was voice, and the model is then fed all the stream from the
\* preroll of the first such run on, without the digital silence in front.
OnlyChoosesTheFirst ==
    IF OpeningFrames = {} THEN ~gate.open /\ fed.audio = <<>>
    ELSE LET end == Min(OpeningFrames) * FrameLength
             first == IF end > Preroll THEN end - Preroll + 1 ELSE 1
         IN  /\ gate.open
             /\ fed.audio = Trimmed(SubSeq(heard, first, end)) \o SubSeq(heard, end + 1, Len(heard))

\* "The timeline accounts for every sample": what is fed stands at its own time,
\* skipped_samples behind the arm.
StandsAtItsTime ==
    fed.audio # <<>> =>
        /\ \A i \in DOMAIN fed.audio : fed.audio[i].at = fed.at + i - 1
        /\ fed.at = start + fed.skipped
=============================================================================
