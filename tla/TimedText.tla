----------------------------- MODULE TimedText -----------------------------
(***************************************************************************)
(* The timing arithmetic of the transcriber element, free of threads       *)
(* (transcribe-cpp/src/transcriber/imp.rs): where a word's buffer starts   *)
(* and ends, and which GAP has to stand in front of it.  Times are running *)
(* times in ticks; NoTime is None.                                         *)
(***************************************************************************)
EXTENDS Integers, Sequences

CONSTANTS
    MinWord,      \* MIN_BUFFER_DURATION, in ticks
    Granularity   \* GAP_GRANULARITY, in ticks

ASSUME TimedTextAssumption ==
    /\ MinWord \in Nat \ {0}
    /\ Granularity \in Nat \ {0}

NoTime == -1
Later(a, b) == IF a > b THEN a ELSE b
Earlier(a, b) == IF a < b THEN a ELSE b

\* A committed row, in ticks of the model's stream.
Row == [t0 : Nat, t1 : Nat]

\* floor_end: a row too short to show is lengthened, up to the next word if
\* that one starts later.
FloorEnd(pts, end, next) ==
    IF end >= pts + MinWord THEN end
    ELSE IF next > pts THEN Earlier(pts + MinWord, next) ELSE pts + MinWord

\* Mutant: no GAP stands in front of a word.
PlanTimedTextUngapped(base, outPts, rows) ==
    LET end[i \in 0 .. Len(rows)] ==
            IF i = 0 THEN outPts ELSE Later(base + rows[i].t1, end[i - 1])
    IN  [i \in DOMAIN rows |->
            LET pts == Later(base + rows[i].t0, end[i - 1])
            IN  [from |-> pts, pts |-> pts, end |-> Later(end[i], pts + MinWord)]]

\* plan_timed_text: for each row its buffer [pts, end), and the coverage it
\* follows: a GAP fills [from, pts) if that is not empty.
PlanTimedText(base, outPts, rows) ==
    LET next(i) == IF i < Len(rows) THEN base + rows[i + 1].t0 ELSE NoTime
        end[i \in 0 .. Len(rows)] ==
            IF i = 0 THEN outPts
            ELSE LET pts == Later(base + rows[i].t0, end[i - 1])
                 IN  FloorEnd(pts, Later(base + rows[i].t1, pts), next(i))
    IN  [i \in DOMAIN rows |->
            [from |-> end[i - 1], pts |-> Later(base + rows[i].t0, end[i - 1]), end |-> end[i]]]

\* Mutant: the tail starts where the input GAP does.
PlanGapUntrimmed(start, end, frontier) ==
    [from |-> start, to |-> end, frontier |-> Later(end, frontier)]

\* plan_gap_after_finalize: the part of an input GAP not covered yet, and the
\* frontier of the restarted stream.  Empty when from >= to.
PlanGap(start, end, frontier) ==
    [from |-> Later(start, frontier), to |-> end, frontier |-> Later(end, frontier)]
=============================================================================
