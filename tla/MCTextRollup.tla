---------------------------- MODULE MCTextRollup ----------------------------
(***************************************************************************)
(* Small instances of TextRollup, and the reference its window is compared *)
(* with.                                                                   *)
(***************************************************************************)
EXTENDS TextRollup, SequencesExt, TLC

Short == [width |-> 1, ends |-> FALSE]
Long == [width |-> 2, ends |-> FALSE]
Final == [width |-> 1, ends |-> TRUE]
SomeWords == {Short, Long, Final}

Narrow == [columns |-> 3, lines |-> 2, breaks |-> TRUE]
Settings == {Narrow, [Narrow EXCEPT !.columns = 2]}
LineCounts == {Narrow, [Narrow EXCEPT !.lines = 1]}

\* The words that start a line when a text is wrapped as a whole.
IsWrapping(starts, words, g) ==
    \A i \in DOMAIN words :
       i \in starts <=>
          \/ i = 1
          \/ g.breaks /\ words[i - 1].ends
          \/ LineWidth(SubSeq(words, Max({s \in starts : s < i}), i)) > g.columns

Wrapped(words, g) ==
    LET starts == CHOOSE S \in SUBSET DOMAIN words :
                     (words # <<>> => 1 \in S) /\ IsWrapping(S, words, g)
        order == SetToSortSeq(starts, <)
        stop(i) == IF i = Len(order) THEN Len(words) ELSE order[i + 1] - 1
    IN  [i \in DOMAIN order |-> SubSeq(words, order[i], stop(i))]

\* What the window shows is the end of the text received since the last clear,
\* wrapped as a whole: no word is lost, none is doubled, and what freeze_current
\* threw away had scrolled off (Window::render).  The geometry must not have
\* changed below that text.
WindowIsWrapped ==
    ~reshaped => Render(window) = LastLines(Wrapped(said, window), window.lines)
=============================================================================
