---------------------------- MODULE RollupWindow ----------------------------
(***************************************************************************)
(* The roll-up window of textrollup (textrollup/src/rollup/window.rs):     *)
(* completed lines are frozen, only the bottom line grows.                 *)
(*                                                                         *)
(* A word is a record with its display width and whether it ends a         *)
(* sentence; a line is a sequence of words.                                *)
(***************************************************************************)
EXTENDS Integers, Sequences

LineWidth(line) ==
    LET upTo[i \in 0 .. Len(line)] == IF i = 0 THEN 0 ELSE upTo[i - 1] + line[i].width
    IN  upTo[Len(line)] + Len(line) - 1

LastLines(lines, n) == SubSeq(lines, IF Len(lines) > n THEN Len(lines) - n + 1 ELSE 1, Len(lines))

NewWindow(columns, lines, breaks) ==
    [columns |-> columns, lines |-> lines, breaks |-> breaks, done |-> <<>>, current |-> <<>>]

Clear(w) == [w EXCEPT !.done = <<>>, !.current = <<>>]

\* set_columns, set_lines and set_break_on_sentence: no line is touched.
Reshape(w, columns, lines, breaks) ==
    [w EXCEPT !.columns = columns, !.lines = lines, !.breaks = breaks]

\* Mutant: lines that scrolled off are kept.
FreezeUntrimmed(w) ==
    IF w.current = <<>> THEN w
    ELSE [w EXCEPT !.done = Append(@, w.current), !.current = <<>>]

\* freeze_current: the bottom line is complete.
Freeze(w) ==
    IF w.current = <<>> THEN w
    ELSE [w EXCEPT !.done = LastLines(Append(@, w.current), w.lines), !.current = <<>>]

Render(w) == LastLines(w.done \o (IF w.current = <<>> THEN <<>> ELSE <<w.current>>), w.lines)

\* Mutant: a line that overflows hands its last word down as well.
PushWordRebalancing(w, word) ==
    LET stays == Len(w.current) - 1
    IN  IF w.current # <<>> /\ LineWidth(Append(w.current, word)) > w.columns
        THEN [Freeze([w EXCEPT !.current = SubSeq(@, 1, stays)]) EXCEPT
                !.current = <<w.current[stays + 1], word>>]
        ELSE [w EXCEPT !.current = Append(@, word)]

\* Mutant: the blank between two words takes no column.
PushWordTight(w, word) ==
    LET room == IF w.current # <<>> /\ LineWidth(w.current) + word.width > w.columns
                THEN Freeze(w) ELSE w
        grown == [room EXCEPT !.current = Append(@, word)]
    IN  IF w.breaks /\ word.ends THEN Freeze(grown) ELSE grown

\* push_word: a word that does not fit starts a new line, and one that ends a
\* sentence completes its own.
PushWord(w, word) ==
    LET full == w.current # <<>> /\ LineWidth(Append(w.current, word)) > w.columns
        room == IF full THEN Freeze(w) ELSE w
        grown == [room EXCEPT !.current = Append(@, word)]
    IN  IF w.breaks /\ word.ends THEN Freeze(grown) ELSE grown

PushWords(w, words) ==
    LET after[i \in 0 .. Len(words)] == IF i = 0 THEN w ELSE PushWord(after[i - 1], words[i])
    IN  after[Len(words)]
=============================================================================
