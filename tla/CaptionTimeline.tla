-------------------------- MODULE CaptionTimeline --------------------------
(***************************************************************************)
(* The caption state machine of flvsubmux (flvsubmux/src/caption.rs): text *)
(* intervals become transitions, and a media timestamp reaches them.       *)
(*                                                                         *)
(* Running times are naturals; UnitsPerMs of them make one millisecond, so *)
(* the truncation of ClockTime::mseconds() is modelled.  A cue's text is a *)
(* member of Texts or Blank, the empty string.                             *)
(***************************************************************************)
EXTENDS Integers, FiniteSets

CONSTANTS
    Texts,           \* the non-empty cue texts
    Blank,           \* the empty text
    UnitsPerMs,      \* units of running time in a millisecond
    MaxTimestampMs   \* the largest timestamp a tag can carry (i32::MAX)

ASSUME CaptionAssumption ==
    /\ Blank \notin Texts
    /\ UnitsPerMs \in Nat \ {0}
    /\ MaxTimestampMs \in Nat

AnyText == Texts \cup {Blank}

\* Mutant: no saturation at the origin.
StampMsSigned(origin, time) ==
    LET ms == (time - origin) \div UnitsPerMs
    IN  IF ms < MaxTimestampMs THEN ms ELSE MaxTimestampMs

\* The output timestamp of a running time: relative to the calibrated origin,
\* saturating at both ends.
StampMs(origin, time) ==
    LET ms == IF time > origin THEN (time - origin) \div UnitsPerMs ELSE 0
    IN  IF ms < MaxTimestampMs THEN ms ELSE MaxTimestampMs

\* The cue on screen (ActiveState); NoCue is None.
NoCue == [gen |-> -1, text |-> Blank]
Cue == [gen : Nat, text : Texts] \cup {NoCue}

\* "show" and "clear" set the state; "expire" is Clear { Some(generation) }.
Transition == [at : Nat, seq : Nat, gen : Nat, text : AnyText,
               kind : {"show", "clear", "expire"}]

-----------------------------------------------------------------------------
\* queue_text refuses a cue that would never leave the screen.
QueueTextOk(start, end, text, mode) ==
    mode = "timed" /\ text # Blank => start < end

\* queue_text: the transitions of one text buffer, numbered by its generation.
QueueText(gen, start, end, text, mode) ==
    LET kind == IF text = Blank THEN "clear" ELSE "show"
        first == [at |-> start, seq |-> 2 * gen, gen |-> gen, text |-> text, kind |-> kind]
        expiry == [at |-> end, seq |-> 2 * gen + 1, gen |-> gen, text |-> Blank,
                   kind |-> "expire"]
    IN  {first} \cup {t \in {expiry} : mode = "timed" /\ text # Blank}

-----------------------------------------------------------------------------
\* The order drain_ready_ms applies transitions in: stamp, then sequence.
Precedes(origin, a, b) ==
    \/ StampMs(origin, a.at) < StampMs(origin, b.at)
    \/ StampMs(origin, a.at) = StampMs(origin, b.at) /\ a.seq < b.seq

\* Mutant: a cue's expiry takes down whichever cue is on screen.
ActiveAfterAnyExpiry(origin, active, S) ==
    LET setters == {a \in S : a.kind # "expire"}
        last == CHOOSE a \in setters : \A b \in setters \ {a} : Precedes(origin, b, a)
    IN  IF setters = {} THEN active
        ELSE IF last.kind # "show" \/ \E a \in S : a.kind = "expire" THEN NoCue
        ELSE [gen |-> last.gen, text |-> last.text]

\* The cue on screen after the transitions S are applied in order.  Only the
\* last "show" or "clear" counts, and a cue's own expiry always comes after it.
ActiveAfter(origin, active, S) ==
    LET setters == {a \in S : a.kind # "expire"}
        last == CHOOSE a \in setters : \A b \in setters \ {a} : Precedes(origin, b, a)
        base == IF setters = {} THEN active
                ELSE IF last.kind = "show" THEN [gen |-> last.gen, text |-> last.text]
                ELSE NoCue
    IN  IF \E a \in S : a.kind = "expire" /\ a.gen = base.gen THEN NoCue ELSE base

\* Mutant: transitions are written one position early.
ReachedEarly(origin, pending, position) ==
    {a \in pending : StampMs(origin, a.at) <= position + 1}

\* The transitions a media position has reached.
Reached(origin, pending, position) ==
    {a \in pending : StampMs(origin, a.at) <= position}

\* Mutant: only the state at the media position is written.
DrainTagsLatest(origin, active, pending, position) ==
    LET shown == ActiveAfter(origin, active, Reached(origin, pending, position)).text
    IN  IF shown = active.text THEN {} ELSE {[stamp |-> position, text |-> shown]}

\* drain_ready_ms: one tag for each stamp at which the visible text changes.
\* Transitions of one stamp coalesce.
DrainTags(origin, active, pending, position) ==
    LET reached == Reached(origin, pending, position)
        upTo(m) == ActiveAfter(origin, active, {a \in reached : StampMs(origin, a.at) <= m}).text
        before(m) == ActiveAfter(origin, active, {a \in reached : StampMs(origin, a.at) < m}).text
        stamps == {StampMs(origin, a.at) : a \in reached}
    IN  {[stamp |-> m, text |-> upTo(m)] : m \in {s \in stamps : upTo(s) # before(s)}}
=============================================================================
