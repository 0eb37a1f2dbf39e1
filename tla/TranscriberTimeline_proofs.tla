--------------------- MODULE TranscriberTimeline_proofs ----------------------
(***************************************************************************)
(* A word lies on the timeline its audio was fed in (OnItsOwnTimeline),    *)
(* however flushes or state changes, discontinuities, failed calls and     *)
(* lost buffers fall between the streaming thread and the worker.  What    *)
(* the worker owes the thread is read as one pipe: its events, the audio   *)
(* it holds, and the commands still queued, in the order in which the      *)
(* thread will see their effect.                                           *)
(*                                                                         *)
(* The second half, from Live on: in a stream that loses nothing, a word   *)
(* also lies on the very audio it was recognised in (OnItsAudio).          *)
(***************************************************************************)
EXTENDS Transcriber_proofs

\* An item of the pipe: "bar" is a restart, "end" a finalize, and "text" what
\* may put words on screen.
Lives(w) == w.state # "dead"
Shown(ev) == ev.type = "words" /\ ev.rows # <<>>
EventKind(ev) ==
    IF ev.type = "restarted" THEN "bar" ELSE IF ev.type = "drained" THEN "end"
    ELSE IF Shown(ev) THEN "text" ELSE "none"
CommandKind(c) == IF c.type = "restart" THEN "bar" ELSE IF c.type = "finalize" THEN "end" ELSE "text"
HeldKind(w) == IF w.heard = <<>> THEN "none" ELSE "text"
Items(evs, cmds, w) == Len(evs) + (IF Lives(w) THEN 1 + Len(cmds) ELSE 0)
PipeOf(evs, cmds, w) ==
    [i \in 1 .. Items(evs, cmds, w) |->
        IF i <= Len(evs) THEN EventKind(evs[i])
        ELSE IF i = Len(evs) + 1 THEN HeldKind(w)
        ELSE CommandKind(cmds[i - Len(evs) - 1])]
Alive == Lives(worker)
PipeLen == Items(evQ, cmdQ, worker)
Pipe == PipeOf(evQ, cmdQ, worker)

\* A finalize may yet report words.
IsText(kind) == kind \in {"text", "end"}
NoBar(p) == \A a \in DOMAIN p : p[a] # "bar"
One(p) == \A a, b \in DOMAIN p : p[a] = "bar" /\ p[b] = "bar" => a = b
Two(p) == \A a, b, c \in DOMAIN p :
             p[a] = "bar" /\ p[b] = "bar" /\ p[c] = "bar" => a = b \/ b = c \/ a = c
NoEnd(p) == \A a \in DOMAIN p : p[a] # "end"
OneEnd(p) == \A a, b \in DOMAIN p : p[a] = "end" /\ p[b] = "end" => a = b
Empty(p) == \A a \in DOMAIN p : ~IsText(p[a])
\* All text lies in front of every restart; of the last of two; behind.
Sealed(p) == \A a, b \in DOMAIN p : p[a] = "bar" /\ IsText(p[b]) => b < a
LastSeals(p) == \A a, b, c \in DOMAIN p :
                   a < b /\ p[a] = "bar" /\ p[b] = "bar" /\ IsText(p[c]) => c < b
FrontFree(p) == \A a, b \in DOMAIN p : p[a] = "bar" /\ IsText(p[b]) => a < b

\* Queued words and the audio held belong to the timeline.
ShowsCurrent(ev) == \A r \in DOMAIN ev.rows : ev.heard[ev.rows[r].t0 + 1].stream = stream
WordsCurrent == \A i \in DOMAIN evQ : evQ[i].type = "words" => ShowsCurrent(evQ[i])
HeldCurrent ==
    Alive => /\ \A k \in DOMAIN worker.heard : worker.heard[k].stream = stream
             /\ \A k \in DOMAIN cmdQ : cmdQ[k].type = "feed" => cmdQ[k].stream = stream

\* What the handler has still to do.
Restarting(s) == s.op = "restart" \/ (s.op = "await" /\ s.marker = "restarted")
Ending(s) == s.op = "finalize" \/ (s.op = "await" /\ s.marker = "drained")
RestartDue == \E i \in DOMAIN todo : Restarting(todo[i])
EndDue == \E i \in DOMAIN todo : Ending(todo[i])
AwaitsRestart == todo # <<>> /\ todo[1].op = "await" /\ todo[1].marker = "restarted"
AwaitsDrained == todo # <<>> /\ todo[1].op = "await" /\ todo[1].marker = "drained"
Discarding == \E i \in DOMAIN todo : Restarting(todo[i]) /\ todo[i].discard
Has(op) == \E i \in DOMAIN todo : todo[i].op = op

\* A handler ends the stream first, then restarts, then goes on; audio is fed
\* to an anchored stream; the restart of a flush is all that its handler does
\* before it ends the flush.
HandlerOK ==
    /\ \A i \in DOMAIN todo : i > 1 => todo[i].op \notin {"finalize", "await", "ensure_ready"}
    /\ \A i, j \in DOMAIN todo : i < j /\ Restarting(todo[j]) =>
          todo[i].op \in {"finalize", "bridge", "plan_gap"} \/ Ending(todo[i])
    /\ Has("feed") => base # NoTime /\ ~RestartDue
    /\ Has("enter") => due = "data" /\ ~Has("segment") /\ ~Has("flush_stop")
    /\ Has("flush_stop") \/ Discarding =>
          /\ base = NoTime /\ sinkFlush
          /\ \A i \in DOMAIN todo : todo[i].op = "flush_stop" <=> i = Len(todo)
          /\ \A i \in DOMAIN todo : i < Len(todo) => Restarting(todo[i]) /\ todo[i].discard

\* The worker's last word, and what a parked element has left.
ErrorLast == \A i \in DOMAIN evQ : evQ[i].type = "error" => i = Len(evQ) /\ ~Alive
Parked ==
    /\ phase \in {"ready", "null"} => todo = <<>> /\ ~sinkFlush
    /\ phase = "null" => evQ = <<>> /\ cmdQ = <<>> /\ ~Alive /\ base = NoTime
HandlerInv == HandlerOK /\ ErrorLast /\ Parked
-----------------------------------------------------------------------------
\* The handler.

LEMMA DroppedItems ==
    ASSUME todo \in Seq(StepType), NEW n \in Nat \ {0}, Dropped(n)
    PROVE  /\ \A i \in DOMAIN todo' : /\ n + i \in DOMAIN todo /\ todo'[i] = todo[n + i] /\ n + i > 1
                                      /\ i = Len(todo') <=> n + i = Len(todo)
           /\ \A i, j \in DOMAIN todo' : i < j => n + i < n + j
<1>1. /\ Len(todo) \in Nat /\ Len(todo') = Len(todo) - n /\ n <= Len(todo)
      /\ DOMAIN todo' = 1 .. Len(todo') /\ DOMAIN todo = 1 .. Len(todo)
      /\ \A i \in 1 .. Len(todo') : todo'[i] = todo[n + i]
  BY DEF Dropped
<1>2. ASSUME NEW i \in DOMAIN todo'
      PROVE  /\ n + i \in DOMAIN todo /\ todo'[i] = todo[n + i] /\ n + i > 1
             /\ i = Len(todo') <=> n + i = Len(todo)
  <2> DEFINE old == Len(todo)
             new == Len(todo')
  <2>1. old \in Nat /\ new = old - n /\ n <= old /\ i \in 1 .. new
    BY <1>1
  <2>2. todo'[i] = todo[n + i]
    BY <1>1
  <2>3. DOMAIN todo = 1 .. old
    BY <1>1
  <2> HIDE DEF old, new
  <2>4. n + i \in 1 .. old /\ n + i > 1 /\ (i = new <=> n + i = old)
    BY <2>1
  <2> QED BY <2>2, <2>3, <2>4 DEF old, new
<1>3. \A i, j \in DOMAIN todo' : i < j => n + i < n + j
  BY <1>1
<1> QED BY <1>2, <1>3

\* What the steps left are, the steps were.
LEMMA DroppedDue ==
    ASSUME TypeInv, HandlerOK, NEW n \in Nat \ {0}, Dropped(n)
    PROVE  /\ RestartDue' => RestartDue
           /\ Discarding' => Discarding
           /\ ~EndDue' /\ ~AwaitsRestart' /\ ~AwaitsDrained'
<1>1. \A i \in DOMAIN todo' : n + i \in DOMAIN todo /\ todo'[i] = todo[n + i] /\ n + i > 1
  BY DroppedItems DEF TypeInv
<1>2. RestartDue' => RestartDue
  BY <1>1 DEF RestartDue
<1>3. Discarding' => Discarding
  BY <1>1 DEF Discarding
<1>4. \A i \in DOMAIN todo' : todo'[i].op \notin {"finalize", "await"}
  BY <1>1 DEF HandlerOK
<1>5. ~EndDue'
  BY <1>4 DEF EndDue, Ending
<1>6. todo' # <<>> => 1 \in DOMAIN todo'
  <2>1. todo' \in Seq(StepType)
    BY DEF Dropped
  <2> QED BY <2>1, EmptySeq
<1> QED BY <1>2, <1>3, <1>4, <1>5, <1>6 DEF AwaitsRestart, AwaitsDrained

LEMMA DroppedHas ==
    ASSUME TypeInv, NEW n \in Nat \ {0}, Dropped(n), NEW op, ~Has(op)
    PROVE  ~Has(op)'
<1>1. \A i \in DOMAIN todo' : n + i \in DOMAIN todo /\ todo'[i] = todo[n + i]
  BY DroppedItems DEF TypeInv
<1> QED BY <1>1 DEF Has

LEMMA DropHandler ==
    ASSUME TypeInv, HandlerOK, NEW n \in Nat \ {0}, Dropped(n), due' = due, sinkFlush' = sinkFlush,
           base' = base \/ (base' = NoTime /\ ~Has("feed"))
    PROVE  HandlerOK'
<1>1. /\ \A i \in DOMAIN todo' : /\ n + i \in DOMAIN todo /\ todo'[i] = todo[n + i] /\ n + i > 1
                                 /\ i = Len(todo') <=> n + i = Len(todo)
      /\ \A i, j \in DOMAIN todo' : i < j => n + i < n + j
  BY DroppedItems DEF TypeInv
<1>2. \A i \in DOMAIN todo' : i > 1 => todo'[i].op \notin {"finalize", "await", "ensure_ready"}
  BY <1>1 DEF HandlerOK
<1>3. \A i, j \in DOMAIN todo' : i < j /\ Restarting(todo'[j]) =>
         todo'[i].op \in {"finalize", "bridge", "plan_gap"} \/ Ending(todo'[i])
  BY <1>1 DEF HandlerOK
<1>4. (Has("feed") => base # NoTime /\ ~RestartDue)'
  <2>1. ~Has("feed") => ~Has("feed")'
    BY DroppedHas
  <2> QED BY <2>1, DroppedDue DEF HandlerOK
<1>5. (Has("enter") => due = "data" /\ ~Has("segment") /\ ~Has("flush_stop"))'
  <2>1. /\ ~Has("enter") => ~Has("enter")'
        /\ ~Has("segment") => ~Has("segment")'
        /\ ~Has("flush_stop") => ~Has("flush_stop")'
    BY DroppedHas
  <2> QED BY <2>1 DEF HandlerOK
<1>6. ASSUME (Has("flush_stop") \/ Discarding)'
      PROVE  /\ base' = NoTime /\ sinkFlush'
             /\ \A i \in DOMAIN todo' : todo'[i].op = "flush_stop" <=> i = Len(todo')
             /\ \A i \in DOMAIN todo' : i < Len(todo') => Restarting(todo'[i]) /\ todo'[i].discard
  <2>1. Has("flush_stop") \/ Discarding
    BY <1>6, DroppedHas, DroppedDue
  <2>2. /\ base = NoTime /\ sinkFlush
        /\ \A i \in DOMAIN todo : todo[i].op = "flush_stop" <=> i = Len(todo)
        /\ \A i \in DOMAIN todo : i < Len(todo) => Restarting(todo[i]) /\ todo[i].discard
    BY <2>1 DEF HandlerOK
  <2>3. \A i \in DOMAIN todo' : i < Len(todo') => n + i < Len(todo)
    BY DEF Dropped, TypeInv
  <2> QED BY <1>1, <2>2, <2>3
<1> QED BY <1>2, <1>3, <1>4, <1>5, <1>6 DEF HandlerOK

LEMMA SameHandler ==
    ASSUME TypeInv, HandlerOK, todo' = todo, base' = base, due' = due, sinkFlush \in BOOLEAN,
           sinkFlush => sinkFlush'
    PROVE  HandlerOK'
<1>1. /\ Has("feed")' = Has("feed") /\ Has("enter")' = Has("enter") /\ Has("segment")' = Has("segment")
      /\ Has("flush_stop")' = Has("flush_stop") /\ RestartDue' = RestartDue /\ Discarding' = Discarding
  BY DEF Has, RestartDue, Discarding
<1> QED BY <1>1 DEF HandlerOK

LEMMA EmptyHandler ==
    ASSUME todo' = <<>>
    PROVE  /\ HandlerOK' /\ ~RestartDue' /\ ~EndDue' /\ ~Discarding' /\ ~AwaitsRestart' /\ ~AwaitsDrained'
           /\ \A op : ~Has(op)'
<1>1. DOMAIN todo' = {}
  OBVIOUS
<1> QED BY <1>1 DEF HandlerOK, Has, RestartDue, EndDue, Discarding, AwaitsRestart, AwaitsDrained

\* A send that succeeds has its answer to wait for.
LEMMA SentItems ==
    ASSUME TypeInv, todo # <<>>, NEW wait \in StepType, todo' = <<wait>> \o Tail(todo)
    PROVE  /\ Len(todo') = Len(todo) /\ DOMAIN todo' = DOMAIN todo /\ DOMAIN todo = 1 .. Len(todo)
           /\ 1 \in DOMAIN todo /\ todo'[1] = wait /\ todo' # <<>>
           /\ \A i \in DOMAIN todo : i # 1 => todo'[i] = todo[i]
<1>1. /\ Tail(todo) \in Seq(StepType) /\ Len(Tail(todo)) = Len(todo) - 1
      /\ \A i \in 1 .. Len(todo) - 1 : Tail(todo)[i] = todo[i + 1]
      /\ Len(todo) \in Nat \ {0}
  BY HeadTailProperties, EmptySeq DEF TypeInv
<1> DEFINE one == <<wait>>
           rest == Tail(todo)
           all == one \o rest
<1>2. one \in Seq(StepType) /\ Len(one) = 1 /\ one[1] = wait
  OBVIOUS
<1> HIDE DEF one, rest
<1>3. /\ all \in Seq(StepType) /\ Len(all) = Len(one) + Len(rest)
      /\ \A i \in 1 .. Len(one) + Len(rest) : all[i] = IF i <= Len(one) THEN one[i] ELSE rest[i - Len(one)]
  BY <1>1, <1>2, ConcatProperties DEF rest
<1>4. todo' = all
  BY DEF one, rest
<1> HIDE DEF all
<1>5. Len(all) = Len(todo) /\ all[1] = wait
  BY <1>1, <1>2, <1>3 DEF rest
<1>6. ASSUME NEW i \in 1 .. Len(todo), i # 1 PROVE all[i] = todo[i]
  <2>1. all[i] = rest[i - 1] /\ i - 1 \in 1 .. Len(todo) - 1
    BY <1>1, <1>2, <1>3, <1>6 DEF rest
  <2>2. rest[i - 1] = todo[(i - 1) + 1]
    BY <1>1, <2>1 DEF rest
  <2>3. (i - 1) + 1 = i
    OBVIOUS
  <2> QED BY <2>1, <2>2, <2>3
<1>7. DOMAIN all = 1 .. Len(todo) /\ DOMAIN todo = 1 .. Len(todo)
  <2>1. all \in Seq(StepType) /\ todo \in Seq(StepType)
    BY <1>3 DEF TypeInv
  <2>2. DOMAIN all = 1 .. Len(all) /\ DOMAIN todo = 1 .. Len(todo)
    BY <2>1
  <2> QED BY <1>5, <2>2
<1>8. all # <<>>
  BY <1>1, <1>3, <1>5, EmptySeq
<1> QED BY <1>1, <1>4, <1>5, <1>6, <1>7, <1>8

\* The step at the head of a handler that is sent, and what replaces it.
Answers(wait, step) ==
    \/ step.op = "finalize" /\ wait.op = "await" /\ wait.marker = "drained"
    \/ step.op = "restart" /\ wait.op = "await" /\ wait.marker = "restarted" /\ wait.discard = step.discard

LEMMA SentDue ==
    ASSUME TypeInv, todo # <<>>, NEW wait \in StepType, todo' = <<wait>> \o Tail(todo),
           Answers(wait, todo[1])
    PROVE  /\ RestartDue' <=> RestartDue
           /\ EndDue' <=> EndDue
           /\ Discarding' <=> Discarding
           /\ \A op : op \notin {"finalize", "restart", "await"} => (Has(op)' <=> Has(op))
           /\ AwaitsRestart' <=> todo[1].op = "restart"
           /\ AwaitsDrained' <=> todo[1].op = "finalize"
<1>1. /\ DOMAIN todo' = DOMAIN todo /\ todo' # <<>>
      /\ 1 \in DOMAIN todo /\ todo'[1] = wait
      /\ \A i \in DOMAIN todo : i # 1 => todo'[i] = todo[i]
  BY SentItems
<1>2. \A i \in DOMAIN todo : /\ Restarting(todo'[i]) <=> Restarting(todo[i])
                             /\ Ending(todo'[i]) <=> Ending(todo[i])
                             /\ Restarting(todo[i]) => (todo'[i].discard <=> todo[i].discard)
  BY <1>1 DEF Answers, Restarting, Ending
<1>3. \A op : op \notin {"finalize", "restart", "await"} =>
         \A i \in DOMAIN todo : todo'[i].op = op <=> todo[i].op = op
  BY <1>1 DEF Answers
<1>4. RestartDue' <=> RestartDue
  BY <1>1, <1>2 DEF RestartDue
<1>5. EndDue' <=> EndDue
  BY <1>1, <1>2 DEF EndDue
<1>6. Discarding' <=> Discarding
  BY <1>1, <1>2 DEF Discarding
<1>7. \A op : op \notin {"finalize", "restart", "await"} => (Has(op)' <=> Has(op))
  BY <1>1, <1>3 DEF Has
<1>8. /\ AwaitsRestart' <=> todo[1].op = "restart"
      /\ AwaitsDrained' <=> todo[1].op = "finalize"
  BY <1>1 DEF AwaitsRestart, AwaitsDrained, Answers
<1> QED BY <1>4, <1>5, <1>6, <1>7, <1>8

LEMMA SentHandler ==
    ASSUME TypeInv, HandlerOK, todo # <<>>, NEW wait \in StepType, todo' = <<wait>> \o Tail(todo),
           Answers(wait, todo[1]), base' = base, due' = due, sinkFlush' = sinkFlush
    PROVE  HandlerOK'
<1>1. /\ Len(todo') = Len(todo) /\ DOMAIN todo' = DOMAIN todo /\ DOMAIN todo = 1 .. Len(todo)
      /\ 1 \in DOMAIN todo /\ todo'[1] = wait
      /\ \A i \in DOMAIN todo : i # 1 => todo'[i] = todo[i]
  BY SentItems
<1>2. \A i \in DOMAIN todo' : i > 1 => todo'[i].op \notin {"finalize", "await", "ensure_ready"}
  BY <1>1 DEF HandlerOK
<1>3. \A i, j \in DOMAIN todo' : i < j /\ Restarting(todo'[j]) =>
         todo'[i].op \in {"finalize", "bridge", "plan_gap"} \/ Ending(todo'[i])
  <2> SUFFICES ASSUME NEW i \in DOMAIN todo, NEW j \in DOMAIN todo, i < j, Restarting(todo'[j])
               PROVE  todo'[i].op \in {"finalize", "bridge", "plan_gap"} \/ Ending(todo'[i])
    BY <1>1
  <2>1. j # 1 /\ todo'[j] = todo[j]
    BY <1>1
  <2>2. todo[i].op \in {"finalize", "bridge", "plan_gap"} \/ Ending(todo[i])
    BY <2>1 DEF HandlerOK
  <2> QED BY <1>1, <2>2 DEF Answers, Ending
<1>4. /\ RestartDue' <=> RestartDue
      /\ Discarding' <=> Discarding
      /\ Has("feed")' <=> Has("feed")
      /\ Has("enter")' <=> Has("enter")
      /\ Has("segment")' <=> Has("segment")
      /\ Has("flush_stop")' <=> Has("flush_stop")
  BY SentDue
<1>5. ASSUME Has("flush_stop") \/ Discarding
      PROVE  /\ \A i \in DOMAIN todo' : todo'[i].op = "flush_stop" <=> i = Len(todo')
             /\ \A i \in DOMAIN todo' : i < Len(todo') => Restarting(todo'[i]) /\ todo'[i].discard
  <2>1. /\ \A i \in DOMAIN todo : todo[i].op = "flush_stop" <=> i = Len(todo)
        /\ \A i \in DOMAIN todo : i < Len(todo) => Restarting(todo[i]) /\ todo[i].discard
    BY <1>5 DEF HandlerOK
  <2> QED BY <1>1, <2>1 DEF Answers, Restarting
<1> QED BY <1>2, <1>3, <1>4, <1>5 DEF HandlerOK

\* A handler that starts: a flush's, one that may end the stream and restart it,
\* and one that does neither.
Starts(h, at) ==
    /\ \A i \in DOMAIN h : /\ h[i].op \notin {"feed", "await", "flush_stop"}
                           /\ i > 1 => h[i].op \notin {"finalize", "ensure_ready"}
                           /\ h[i].op = "restart" => ~h[i].discard
                           /\ h[i].op = "enter" => at = "data"
    /\ \A i, j \in DOMAIN h :
          /\ i < j /\ h[j].op = "restart" => h[i].op \in {"finalize", "bridge", "plan_gap"}
          /\ h[j].op = "restart" => h[1].op = "finalize"
          /\ ~(h[i].op = "enter" /\ h[j].op = "segment")

LEMMA HandlerStarts ==
    ASSUME todo' \in Seq(StepType), Starts(todo', due')
    PROVE  /\ HandlerOK' /\ ~Discarding' /\ ~Has("flush_stop")' /\ ~AwaitsRestart' /\ ~AwaitsDrained'
           /\ RestartDue' => EndDue'
<1>1. ~Has("feed")' /\ ~Has("flush_stop")'
  BY DEF Starts, Has
<1>2. ~Discarding'
  BY DEF Starts, Discarding, Restarting
<1>3. (Has("enter") => due = "data" /\ ~Has("segment"))'
  BY DEF Starts, Has
<1>4. \A i \in DOMAIN todo' : i > 1 => todo'[i].op \notin {"finalize", "await", "ensure_ready"}
  BY DEF Starts
<1>5. \A i, j \in DOMAIN todo' : i < j /\ Restarting(todo'[j]) =>
         todo'[i].op \in {"finalize", "bridge", "plan_gap"} \/ Ending(todo'[i])
  BY DEF Restarting, Starts
<1>6. ~AwaitsRestart' /\ ~AwaitsDrained'
  <2> SUFFICES ASSUME todo' # <<>>, todo'[1].op = "await" PROVE FALSE
    BY DEF AwaitsRestart, AwaitsDrained
  <2>1. 1 \in DOMAIN todo'
    BY EmptySeq
  <2> QED BY <2>1 DEF Starts
<1>7. RestartDue' => EndDue'
  <2> SUFFICES ASSUME NEW j \in DOMAIN todo', Restarting(todo'[j]) PROVE EndDue'
    BY DEF RestartDue
  <2>1. 1 \in DOMAIN todo'
    BY EmptySeq
  <2>2. todo'[1].op = "finalize"
    BY DEF Starts, Restarting
  <2> QED BY <2>1, <2>2 DEF EndDue, Ending
<1> QED BY <1>1, <1>2, <1>3, <1>4, <1>5, <1>6, <1>7 DEF HandlerOK

Begins ==
    /\ HandlerOK' /\ ~Discarding' /\ ~Has("flush_stop")' /\ ~AwaitsRestart' /\ ~AwaitsDrained'
    /\ RestartDue' => EndDue'

LEMMA StepOps ==
    /\ \A op, scope : Step(op, scope).op = op
    /\ \A scope : Finalize(scope).op = "finalize"
    /\ \A scope, discard : Restart(scope, discard).op = "restart" /\ Restart(scope, discard).discard = discard
BY DEF Step, Finalize, Restart

LEMMA CapsBegins ==
    ASSUME TypeInv, Caps
    PROVE  Begins
<1> DEFINE ens == Step("ensure_ready", "caps")
<1>1. todo' = <<ens>>
  BY DEF Caps
<1>2. /\ ens.op = "ensure_ready"
  BY StepOps
<1>3. todo' \in Seq(StepType)
  BY CapsType DEF TypeInv
<1> HIDE DEF ens
<1>4. DOMAIN todo' = 1 .. 1 /\ todo'[1] = ens
  BY <1>1
<1>5. \A i \in DOMAIN todo' : i = 1
  BY <1>4
<1>6. Starts(todo', due')
  BY <1>4, <1>5, <1>2 DEF Starts
<1> QED BY <1>6, <1>3, HandlerStarts DEF Begins

LEMMA SegmentBegins ==
    ASSUME TypeInv, Segment
    PROVE  Begins
<1> DEFINE fin == Finalize("finalize")
           res == Restart("restart", FALSE)
           seg == Step("segment", "forward")
<1>1. todo' = <<fin, res, seg>>
  BY DEF Segment
<1>2. /\ fin.op = "finalize"
      /\ res.op = "restart"
      /\ seg.op = "segment"
      /\ ~res.discard
  BY StepOps
<1>3. todo' \in Seq(StepType)
  BY SegmentType DEF TypeInv
<1> HIDE DEF fin, res, seg
<1>4. DOMAIN todo' = 1 .. 3 /\ todo'[1] = fin /\ todo'[2] = res /\ todo'[3] = seg
  BY <1>1
<1>5. \A i \in DOMAIN todo' : i = 1 \/ i = 2 \/ i = 3
  BY <1>4
<1>6. Starts(todo', due')
  BY <1>4, <1>5, <1>2 DEF Starts
<1> QED BY <1>6, <1>3, HandlerStarts DEF Begins

LEMMA EosBegins ==
    ASSUME TypeInv, Eos
    PROVE  Begins
<1> DEFINE fin == Finalize("finalize")
           eos == Step("eos", "forward")
<1>1. todo' = <<fin, eos>>
  BY DEF Eos
<1>2. /\ fin.op = "finalize"
      /\ eos.op = "eos"
  BY StepOps
<1>3. todo' \in Seq(StepType)
  BY EosType DEF TypeInv
<1> HIDE DEF fin, eos
<1>4. DOMAIN todo' = 1 .. 2 /\ todo'[1] = fin /\ todo'[2] = eos
  BY <1>1
<1>5. \A i \in DOMAIN todo' : i = 1 \/ i = 2
  BY <1>4
<1>6. Starts(todo', due')
  BY <1>4, <1>5, <1>2 DEF Starts
<1> QED BY <1>6, <1>3, HandlerStarts DEF Begins

LEMMA InputGapBegins ==
    ASSUME NEW pts \in Nat, NEW end \in Nat, TypeInv, InputGap(pts, end)
    PROVE  Begins
<1> DEFINE fin == Finalize("finalize")
           plan == [op |-> "plan_gap", scope |-> "plan", from |-> pts, to |-> end]
           res == Restart("restart", FALSE)
<1>1. todo' = <<fin, plan, res>>
  BY DEF InputGap
<1>2. /\ fin.op = "finalize"
      /\ plan.op = "plan_gap"
      /\ res.op = "restart"
      /\ ~res.discard
  BY StepOps
<1>3. todo' \in Seq(StepType)
  BY InputGapType DEF TypeInv
<1> HIDE DEF fin, plan, res
<1>4. DOMAIN todo' = 1 .. 3 /\ todo'[1] = fin /\ todo'[2] = plan /\ todo'[3] = res
  BY <1>1
<1>5. \A i \in DOMAIN todo' : i = 1 \/ i = 2 \/ i = 3
  BY <1>4
<1>6. Starts(todo', due')
  BY <1>4, <1>5, <1>2 DEF Starts
<1> QED BY <1>6, <1>3, HandlerStarts DEF Begins

LEMMA ChainBegins ==
    ASSUME NEW pts \in Nat, NEW len \in Nat, NEW flagged, TypeInv, Chain(pts, len, flagged)
    PROVE  Begins
<1> DEFINE fin == Finalize("chain")
           bridge == [op |-> "bridge", scope |-> "chain", pts |-> pts]
           res == Restart("chain", FALSE)
           enter == [op |-> "enter", scope |-> "chain", pts |-> pts, end |-> pts + len]
           ens == Step("ensure_ready", "chain")
<1>1. \/ todo' = <<fin, bridge, res, enter>>
      \/ todo' = <<enter>>
      \/ todo' = <<ens, enter>>
  BY DEF Chain
<1>2. /\ fin.op = "finalize"
      /\ bridge.op = "bridge"
      /\ res.op = "restart"
      /\ enter.op = "enter"
      /\ ens.op = "ensure_ready"
      /\ ~res.discard
  BY StepOps
<1>3. todo' \in Seq(StepType)
  BY ChainType DEF TypeInv
<1>4. due' = "data"
  BY DEF Chain, element
<1> HIDE DEF fin, bridge, res, enter, ens
<1>5. CASE todo' = <<fin, bridge, res, enter>>
  <2>1. DOMAIN todo' = 1 .. 4 /\ todo'[1] = fin /\ todo'[2] = bridge /\ todo'[3] = res /\ todo'[4] = enter
    BY <1>5
  <2>2. \A i \in DOMAIN todo' : i = 1 \/ i = 2 \/ i = 3 \/ i = 4
    BY <2>1
  <2>3. Starts(todo', due')
    BY <2>1, <2>2, <1>2, <1>4 DEF Starts
  <2> QED BY <2>3, <1>3, HandlerStarts DEF Begins
<1>6. CASE todo' = <<enter>>
  <2>1. DOMAIN todo' = 1 .. 1 /\ todo'[1] = enter
    BY <1>6
  <2>2. \A i \in DOMAIN todo' : i = 1
    BY <2>1
  <2>3. Starts(todo', due')
    BY <2>1, <2>2, <1>2, <1>4 DEF Starts
  <2> QED BY <2>3, <1>3, HandlerStarts DEF Begins
<1>7. CASE todo' = <<ens, enter>>
  <2>1. DOMAIN todo' = 1 .. 2 /\ todo'[1] = ens /\ todo'[2] = enter
    BY <1>7
  <2>2. \A i \in DOMAIN todo' : i = 1 \/ i = 2
    BY <2>1
  <2>3. Starts(todo', due')
    BY <2>1, <2>2, <1>2, <1>4 DEF Starts
  <2> QED BY <2>3, <1>3, HandlerStarts DEF Begins
<1> QED BY <1>1, <1>5, <1>6, <1>7

LEMMA FlushStopBegins ==
    ASSUME TypeInv, FlushStop
    PROVE  HandlerOK' /\ Discarding' /\ Has("flush_stop")' /\ ~AwaitsRestart' /\ base' = NoTime
<1> DEFINE res == Restart("restart", TRUE)
           stop == Step("flush_stop", "forward")
<1>1. todo' = <<res, stop>> /\ base' = NoTime /\ sinkFlush'
  BY DEF FlushStop, ResetTimeline, element
<1>2. res.op = "restart" /\ res.discard = TRUE /\ stop.op = "flush_stop"
  BY StepOps
<1> HIDE DEF res, stop
<1>3. /\ DOMAIN todo' = 1 .. 2 /\ todo'[1] = res /\ todo'[2] = stop /\ Len(todo') = 2
  BY <1>1
<1>4. Discarding' /\ Has("flush_stop")' /\ ~Has("feed")' /\ ~Has("enter")' /\ ~AwaitsRestart'
  BY <1>2, <1>3 DEF Discarding, Has, Restarting, AwaitsRestart
<1>5. \A i \in DOMAIN todo' : i = 1 \/ i = 2
  BY <1>3
<1>6. \A i, j \in DOMAIN todo' : i < j /\ Restarting(todo'[j]) => FALSE
  BY <1>2, <1>3, <1>5 DEF Restarting
<1>7. \A i \in DOMAIN todo' : /\ i > 1 => todo'[i].op \notin {"finalize", "await", "ensure_ready"}
                              /\ todo'[i].op = "flush_stop" <=> i = Len(todo')
                              /\ i < Len(todo') => Restarting(todo'[i]) /\ todo'[i].discard
  BY <1>2, <1>3, <1>5 DEF Restarting
<1> QED BY <1>1, <1>4, <1>6, <1>7 DEF HandlerOK

-----------------------------------------------------------------------------
\* The pipe.

\* Each item of q that matters comes from one of p that is no less, in order,
\* and no restart or finalize is there twice.
Thins(q, p, m) ==
    /\ \A i \in DOMAIN q : q[i] # "none" =>
          /\ m[i] \in DOMAIN p
          /\ q[i] = "bar" => p[m[i]] = "bar"
          /\ q[i] = "end" => p[m[i]] = "end"
          /\ IsText(q[i]) => IsText(p[m[i]])
    /\ \A i, j \in DOMAIN q : i < j /\ q[i] # "none" /\ q[j] # "none" =>
          /\ m[i] <= m[j]
          /\ q[i] = "bar" /\ q[j] = "bar" => m[i] < m[j]
          /\ q[i] = "end" /\ q[j] = "end" => m[i] < m[j]

\* Nothing the proofs ask of a pipe is lost when items are.
Keeps(q, p) ==
    /\ NoBar(p) => NoBar(q)
    /\ One(p) => One(q)
    /\ Two(p) => Two(q)
    /\ NoEnd(p) => NoEnd(q)
    /\ OneEnd(p) => OneEnd(q)
    /\ Empty(p) => Empty(q)
    /\ Sealed(p) => Sealed(q)
    /\ LastSeals(p) => LastSeals(q)
    /\ FrontFree(p) => FrontFree(q)

LEMMA ThinKeeps ==
    ASSUME NEW q, NEW p, NEW m, NEW k \in Nat, NEW n \in Nat, DOMAIN q = 1 .. k, DOMAIN p = 1 .. n,
           Thins(q, p, m)
    PROVE  Keeps(q, p)
<1>1. /\ \A i \in 1 .. k : q[i] = "bar" => m[i] \in 1 .. n /\ p[m[i]] = "bar"
      /\ \A i \in 1 .. k : q[i] = "end" => m[i] \in 1 .. n /\ p[m[i]] = "end"
      /\ \A i \in 1 .. k : IsText(q[i]) => m[i] \in 1 .. n /\ IsText(p[m[i]])
  BY DEF Thins, IsText
<1>2. \A i, j \in 1 .. k :
         /\ i < j /\ q[i] = "bar" /\ q[j] = "bar" => m[i] < m[j]
         /\ i < j /\ q[i] = "end" /\ q[j] = "end" => m[i] < m[j]
         /\ i < j /\ q[i] = "bar" /\ IsText(q[j]) => m[i] <= m[j]
         /\ i < j /\ IsText(q[i]) /\ q[j] = "bar" => m[i] <= m[j]
  BY DEF Thins, IsText
<1>3. \A i \in 1 .. k : q[i] = "bar" => ~IsText(q[i])
  BY DEF IsText
<1>4. NoBar(p) => NoBar(q)
  BY <1>1 DEF NoBar
<1>5. \A i, j \in 1 .. k : /\ q[i] = "bar" /\ q[j] = "bar" /\ m[i] = m[j] => i = j
                           /\ q[i] = "end" /\ q[j] = "end" /\ m[i] = m[j] => i = j
  <2> SUFFICES ASSUME NEW i \in 1 .. k, NEW j \in 1 .. k, m[i] = m[j], i < j,
                      \/ q[i] = "bar" /\ q[j] = "bar"
                      \/ q[i] = "end" /\ q[j] = "end"
               PROVE  FALSE
    OBVIOUS
  <2>1. m[i] < m[j] /\ m[i] \in Int /\ m[j] \in Int
    BY <1>1, <1>2
  <2> QED BY <2>1
<1>6. One(p) => One(q)
  BY <1>1, <1>5 DEF One
<1>7. Two(p) => Two(q)
  BY <1>1, <1>5 DEF Two
<1>8. NoEnd(p) => NoEnd(q)
  BY <1>1 DEF NoEnd
<1>9. OneEnd(p) => OneEnd(q)
  BY <1>1, <1>5 DEF OneEnd
<1>10. Empty(p) => Empty(q)
  BY <1>1 DEF Empty
\* An item of text and a restart keep their order.
<1>11. \A a, b \in 1 .. k : q[a] = "bar" /\ IsText(q[b]) =>
          /\ m[b] < m[a] => b < a
          /\ m[a] < m[b] => a < b
  <2> SUFFICES ASSUME NEW a \in 1 .. k, NEW b \in 1 .. k, q[a] = "bar", IsText(q[b])
               PROVE  (m[b] < m[a] => b < a) /\ (m[a] < m[b] => a < b)
    OBVIOUS
  <2>1. m[a] \in Int /\ m[b] \in Int /\ a # b
    BY <1>1, <1>3
  <2>2. (a < b => m[a] <= m[b]) /\ (b < a => m[b] <= m[a])
    BY <1>2
  <2> QED BY <2>1, <2>2
<1>12. Sealed(p) => Sealed(q)
  BY <1>1, <1>11 DEF Sealed
<1>13. FrontFree(p) => FrontFree(q)
  BY <1>1, <1>11 DEF FrontFree
<1>14. LastSeals(p) => LastSeals(q)
  <2> SUFFICES ASSUME LastSeals(p), NEW a \in 1 .. k, NEW b \in 1 .. k, NEW c \in 1 .. k,
                      a < b, q[a] = "bar", q[b] = "bar", IsText(q[c])
               PROVE  c < b
    BY DEF LastSeals
  <2>1. m[a] < m[b]
    BY <1>2
  <2>2. m[c] < m[b]
    BY <1>1, <2>1 DEF LastSeals
  <2> QED BY <1>11, <2>2
<1> QED BY <1>4, <1>6, <1>7, <1>8, <1>9, <1>10, <1>12, <1>13, <1>14 DEF Keeps

\* What a command adds.
Grown(q, p, n, kind) ==
    /\ DOMAIN p = 1 .. n /\ DOMAIN q = 1 .. n + 1
    /\ \A i \in 1 .. n : q[i] = p[i]
    /\ q[n + 1] = kind

LEMMA GrownItems ==
    ASSUME NEW q, NEW p, NEW n \in Nat, NEW kind, Grown(q, p, n, kind)
    PROVE  \A a \in DOMAIN q : /\ (a \in DOMAIN p /\ q[a] = p[a] /\ a <= n) \/ (a = n + 1 /\ q[a] = kind)
                               /\ a \in Nat /\ a <= n + 1
<1>1. \A a \in 1 .. n + 1 : a \in 1 .. n \/ a = n + 1
  OBVIOUS
<1> QED BY <1>1 DEF Grown

LEMMA GrownByBar ==
    ASSUME NEW q, NEW p, NEW n \in Nat, Grown(q, p, n, "bar")
    PROVE  /\ NoBar(p) => One(q) /\ Sealed(q)
           /\ One(p) => Two(q) /\ LastSeals(q)
           /\ Sealed(p) => Sealed(q)
           /\ Empty(p) => Empty(q)
           /\ NoEnd(p) => NoEnd(q)
<1>1. \A a \in DOMAIN q : /\ (a \in DOMAIN p /\ q[a] = p[a] /\ a <= n) \/ (a = n + 1 /\ q[a] = "bar")
                          /\ a \in Nat /\ a <= n + 1
  BY GrownItems
<1>2. ~IsText("bar")
  BY DEF IsText
<1>3. \A b \in DOMAIN q : IsText(q[b]) => b \in DOMAIN p /\ q[b] = p[b] /\ b < n + 1
  BY <1>1, <1>2
<1>4. NoBar(p) => One(q)
  BY <1>1 DEF NoBar, One
<1>5. Sealed(p) => Sealed(q)
  BY <1>1, <1>3 DEF Sealed
<1>6. NoBar(p) => Sealed(p)
  BY DEF NoBar, Sealed
<1>7. One(p) => Two(q)
  BY <1>1 DEF One, Two
<1>8. One(p) => LastSeals(q)
  <2> SUFFICES ASSUME One(p), NEW a \in DOMAIN q, NEW b \in DOMAIN q, NEW c \in DOMAIN q,
                      a < b, q[a] = "bar", q[b] = "bar", IsText(q[c])
               PROVE  c < b
    BY DEF LastSeals
  <2>1. b = n + 1
    <3> SUFFICES ASSUME b # n + 1 PROVE FALSE
      OBVIOUS
    <3>1. b \in DOMAIN p /\ q[b] = p[b] /\ b <= n
      BY <1>1
    <3>2. a # n + 1
      BY <1>1, <3>1
    <3>3. a \in DOMAIN p /\ q[a] = p[a]
      BY <1>1, <3>2
    <3>4. a = b
      BY <3>1, <3>3 DEF One
    <3> QED BY <1>1, <3>4
  <2> QED BY <1>3, <2>1
<1>9. Empty(p) => Empty(q)
  BY <1>3 DEF Empty
<1>10. NoEnd(p) => NoEnd(q)
  BY <1>1 DEF NoEnd
<1> QED BY <1>4, <1>5, <1>6, <1>7, <1>8, <1>9, <1>10

LEMMA GrownByText ==
    ASSUME NEW q, NEW p, NEW n \in Nat, NEW kind, kind \in {"text", "end"}, Grown(q, p, n, kind)
    PROVE  /\ NoBar(p) => NoBar(q)
           /\ One(p) => One(q)
           /\ FrontFree(p) => FrontFree(q)
           /\ NoEnd(p) => OneEnd(q)
           /\ kind = "text" /\ NoEnd(p) => NoEnd(q)
<1>1. \A a \in DOMAIN q : /\ (a \in DOMAIN p /\ q[a] = p[a] /\ a <= n) \/ (a = n + 1 /\ q[a] = kind)
                          /\ a \in Nat /\ a <= n + 1
  BY GrownItems
<1>2. \A a \in DOMAIN q : q[a] = "bar" => a \in DOMAIN p /\ q[a] = p[a] /\ a <= n
  BY <1>1
<1>3. NoBar(p) => NoBar(q)
  BY <1>2 DEF NoBar
<1>4. One(p) => One(q)
  BY <1>2 DEF One
<1>5. FrontFree(p) => FrontFree(q)
  <2> SUFFICES ASSUME FrontFree(p), NEW a \in DOMAIN q, NEW b \in DOMAIN q, q[a] = "bar", IsText(q[b])
               PROVE  a < b
    BY DEF FrontFree
  <2>1. a \in DOMAIN p /\ q[a] = p[a] /\ a <= n /\ a \in Nat
    BY <1>1, <1>2
  <2>2. CASE b = n + 1
    BY <2>1, <2>2
  <2>3. CASE b # n + 1
    <3>1. b \in DOMAIN p /\ q[b] = p[b]
      BY <1>1, <2>3
    <3> QED BY <2>1, <3>1 DEF FrontFree
  <2> QED BY <2>2, <2>3
<1>6. NoEnd(p) => OneEnd(q)
  BY <1>1 DEF NoEnd, OneEnd
<1>7. kind = "text" /\ NoEnd(p) => NoEnd(q)
  BY <1>1 DEF NoEnd
<1> QED BY <1>3, <1>4, <1>5, <1>6, <1>7

\* The pipe's items, by where they come from.
LEMMA PipeItems ==
    ASSUME NEW evs \in Seq(EventType), NEW cmds \in Seq(Commands), NEW w,
           NEW p, p = PipeOf(evs, cmds, w), NEW n, n = Items(evs, cmds, w)
    PROVE  /\ Len(evs) \in Nat /\ Len(cmds) \in Nat /\ n \in Nat /\ DOMAIN p = 1 .. n
           /\ n = IF Lives(w) THEN Len(evs) + 1 + Len(cmds) ELSE Len(evs)
           /\ \A i \in 1 .. Len(evs) : i \in 1 .. n /\ p[i] = EventKind(evs[i])
           /\ Lives(w) => /\ Len(evs) + 1 \in 1 .. n /\ p[Len(evs) + 1] = HeldKind(w)
                          /\ \A i \in 1 .. Len(cmds) :
                                /\ Len(evs) + 1 + i \in 1 .. n
                                /\ p[Len(evs) + 1 + i] = CommandKind(cmds[i])
           /\ \A i \in 1 .. n : \/ i \in 1 .. Len(evs)
                                \/ Lives(w) /\ i = Len(evs) + 1
                                \/ Lives(w) /\ \E j \in 1 .. Len(cmds) : i = Len(evs) + 1 + j
<1> DEFINE E == Len(evs)
           C == Len(cmds)
           N == Items(evs, cmds, w)
           kind(i) == IF i <= E THEN EventKind(evs[i])
                      ELSE IF i = E + 1 THEN HeldKind(w) ELSE CommandKind(cmds[i - E - 1])
<1>1. E \in Nat /\ C \in Nat
  OBVIOUS
<1>2. N = IF Lives(w) THEN E + 1 + C ELSE E
  BY <1>1 DEF Items
<1>3. p = [i \in 1 .. N |-> kind(i)]
  BY DEF PipeOf
<1>4. \A i \in 1 .. N : p[i] = kind(i)
  <2> HIDE DEF N, kind
  <2> QED BY <1>3
<1>5. DOMAIN p = 1 .. N
  BY <1>3
<1> HIDE DEF N
<1>6. N \in Nat
  <2> HIDE DEF E, C
  <2> QED BY <1>1, <1>2
<1>7. \A i \in 1 .. E : i \in 1 .. N /\ kind(i) = EventKind(evs[i])
  <2>1. \A i \in 1 .. E : i \in 1 .. N /\ i <= E
    <3> HIDE DEF E, C
    <3> QED BY <1>1, <1>2
  <2> QED BY <2>1
<1>8. Lives(w) => /\ E + 1 \in 1 .. N /\ kind(E + 1) = HeldKind(w)
                  /\ \A i \in 1 .. C : E + 1 + i \in 1 .. N /\ kind(E + 1 + i) = CommandKind(cmds[i])
  <2> SUFFICES ASSUME Lives(w)
               PROVE  /\ E + 1 \in 1 .. N /\ kind(E + 1) = HeldKind(w)
                      /\ \A i \in 1 .. C : E + 1 + i \in 1 .. N /\ kind(E + 1 + i) = CommandKind(cmds[i])
    OBVIOUS
  <2>1. /\ E + 1 \in 1 .. N /\ ~(E + 1 <= E)
        /\ \A i \in 1 .. C : E + 1 + i \in 1 .. N /\ ~(E + 1 + i <= E) /\ E + 1 + i # E + 1 /\ E + 1 + i - E - 1 = i
    <3> HIDE DEF E, C
    <3> QED BY <1>1, <1>2
  <2> HIDE DEF E, C
  <2>2. kind(E + 1) = HeldKind(w)
    BY <2>1
  <2>3. ASSUME NEW i \in 1 .. C PROVE kind(E + 1 + i) = CommandKind(cmds[i])
    <3> DEFINE j == E + 1 + i
               k == j - E - 1
    <3>1. ~(j <= E) /\ j # E + 1 /\ k = i
      BY <1>1, <2>1
    <3>2. kind(j) = IF j <= E THEN EventKind(evs[j]) ELSE IF j = E + 1 THEN HeldKind(w) ELSE CommandKind(cmds[k])
      OBVIOUS
    <3> HIDE DEF j, k, kind
    <3>3. kind(j) = CommandKind(cmds[k])
      BY <3>1, <3>2
    <3> QED BY <3>1, <3>3 DEF j
  <2> HIDE DEF kind
  <2> QED BY <2>1, <2>2, <2>3
<1>9. \A i \in 1 .. N : \/ i \in 1 .. E
                        \/ Lives(w) /\ i = E + 1
                        \/ Lives(w) /\ \E j \in 1 .. C : i = E + 1 + j
  <2> HIDE DEF E, C
  <2> SUFFICES ASSUME NEW i \in 1 .. N, i \notin 1 .. E, i # E + 1
               PROVE  Lives(w) /\ \E j \in 1 .. C : i = E + 1 + j
    BY <1>1, <1>2
  <2>1. Lives(w) /\ i - E - 1 \in 1 .. C /\ i = E + 1 + (i - E - 1)
    BY <1>1, <1>2
  <2> QED BY <2>1
<1>10. \A i \in 1 .. E : p[i] = EventKind(evs[i])
  BY <1>4, <1>7
<1>11. Lives(w) => p[E + 1] = HeldKind(w) /\ \A i \in 1 .. C : p[E + 1 + i] = CommandKind(cmds[i])
  BY <1>4, <1>8
<1> HIDE DEF kind
<1> QED BY <1>1, <1>2, <1>5, <1>6, <1>7, <1>8, <1>9, <1>10, <1>11 DEF N

\* The channels and the audio held, as they stay.
LEMMA PipeKept ==
    ASSUME evQ' = evQ, cmdQ' = cmdQ, worker' = worker
    PROVE  Pipe' = Pipe /\ PipeLen' = PipeLen /\ Keeps(Pipe', Pipe)
BY DEF Pipe, PipeLen, Keeps

LEMMA PipeNow ==
    ASSUME TypeInv
    PROVE  evQ \in Seq(EventType) /\ cmdQ \in Seq(Commands) /\ PipeLen \in Nat /\ DOMAIN Pipe = 1 .. PipeLen
<1>1. evQ \in Seq(EventType) /\ cmdQ \in Seq(Commands)
  BY DEF TypeInv, CommandsOK
<1> QED BY <1>1, PipeItems DEF Pipe, PipeLen

LEMMA PipeNext ==
    ASSUME TypeInv'
    PROVE  evQ' \in Seq(EventType) /\ cmdQ' \in Seq(Commands) /\ PipeLen' \in Nat /\ DOMAIN Pipe' = 1 .. PipeLen'
<1>1. evQ' \in Seq(EventType) /\ cmdQ' \in Seq(Commands)
  BY DEF TypeInv, CommandsOK
<1>2. Pipe' = PipeOf(evQ', cmdQ', worker') /\ PipeLen' = Items(evQ', cmdQ', worker')
  BY DEF Pipe, PipeLen
<1> QED BY <1>1, <1>2, PipeItems

\* Taking an event.
LEMMA EventTaken ==
    ASSUME TypeInv, TypeInv', evQ # <<>>, evQ' = Tail(evQ), cmdQ' = cmdQ, worker' = worker
    PROVE  /\ PipeLen \in Nat \ {0} /\ PipeLen' = PipeLen - 1 /\ 1 \in 1 .. PipeLen
           /\ DOMAIN Pipe = 1 .. PipeLen /\ DOMAIN Pipe' = 1 .. PipeLen - 1
           /\ Pipe[1] = EventKind(Head(evQ))
           /\ \A i \in 1 .. PipeLen - 1 : i + 1 \in 1 .. PipeLen /\ Pipe'[i] = Pipe[i + 1]
           /\ Keeps(Pipe', Pipe)
<1> DEFINE E == Len(evQ)
           C == Len(cmdQ)
           N == PipeLen
           p == Pipe
           evs == Tail(evQ)
<1>1. evQ \in Seq(EventType) /\ cmdQ \in Seq(Commands) /\ evQ' = evs /\ evs \in Seq(EventType)
  BY PipeNow, PipeNext
<1>2. /\ E \in Nat \ {0} /\ Len(evs) = E - 1 /\ \A i \in 1 .. E - 1 : evs[i] = evQ[i + 1]
      /\ Head(evQ) = evQ[1]
  <2>1. E \in Nat \ {0} /\ Head(evQ) = evQ[1]
    BY <1>1, EmptySeq
  <2>2. Len(evs) = E - 1 /\ \A i \in 1 .. E - 1 : evs[i] = evQ[i + 1]
    BY <1>1, <2>1
  <2> QED BY <2>1, <2>2
<1>3. p = PipeOf(evQ, cmdQ, worker) /\ N = Items(evQ, cmdQ, worker)
  BY DEF Pipe, PipeLen
<1> DEFINE q == Pipe'
           M == PipeLen'
<1>4. q = PipeOf(evs, cmdQ, worker) /\ M = Items(evs, cmdQ, worker)
  BY DEF Pipe, PipeLen
<1> HIDE DEF p, q, N, M, evs
<1>5. /\ C \in Nat /\ N \in Nat /\ DOMAIN p = 1 .. N
      /\ N = IF Lives(worker) THEN E + 1 + C ELSE E
      /\ \A i \in 1 .. E : i \in 1 .. N /\ p[i] = EventKind(evQ[i])
      /\ Lives(worker) => /\ E + 1 \in 1 .. N /\ p[E + 1] = HeldKind(worker)
                          /\ \A i \in 1 .. C : E + 1 + i \in 1 .. N /\ p[E + 1 + i] = CommandKind(cmdQ[i])
  <2> DEFINE old == evQ
             cmds == cmdQ
  <2>1. old \in Seq(EventType) /\ cmds \in Seq(Commands) /\ p = PipeOf(old, cmds, worker) /\ N = Items(old, cmds, worker)
    BY <1>1, <1>3
  <2> HIDE DEF old, cmds, E, C
  <2>2. /\ Len(cmds) \in Nat /\ N \in Nat /\ DOMAIN p = 1 .. N
        /\ N = IF Lives(worker) THEN Len(old) + 1 + Len(cmds) ELSE Len(old)
        /\ \A i \in 1 .. Len(old) : i \in 1 .. N /\ p[i] = EventKind(old[i])
        /\ Lives(worker) => /\ Len(old) + 1 \in 1 .. N /\ p[Len(old) + 1] = HeldKind(worker)
                            /\ \A i \in 1 .. Len(cmds) :
                                  Len(old) + 1 + i \in 1 .. N /\ p[Len(old) + 1 + i] = CommandKind(cmds[i])
    BY <2>1, PipeItems
  <2>3. Len(old) = E /\ Len(cmds) = C /\ old = evQ /\ cmds = cmdQ
    BY DEF old, cmds, E, C
  <2> QED BY <2>2, <2>3
<1>6. /\ M \in Nat /\ DOMAIN q = 1 .. M
      /\ M = IF Lives(worker) THEN E - 1 + 1 + C ELSE E - 1
      /\ \A i \in 1 .. E - 1 : i \in 1 .. M /\ q[i] = EventKind(evs[i])
      /\ Lives(worker) => /\ E - 1 + 1 \in 1 .. M /\ q[E - 1 + 1] = HeldKind(worker)
                          /\ \A i \in 1 .. C : E - 1 + 1 + i \in 1 .. M /\ q[E - 1 + 1 + i] = CommandKind(cmdQ[i])
      /\ \A i \in 1 .. M : \/ i \in 1 .. E - 1
                           \/ Lives(worker) /\ i = E - 1 + 1
                           \/ Lives(worker) /\ \E j \in 1 .. C : i = E - 1 + 1 + j
  <2> DEFINE cmds == cmdQ
  <2>1. Len(evs) = E - 1 /\ Len(cmds) = C /\ cmds = cmdQ
    BY <1>2
  <2>2. /\ evs \in Seq(EventType) /\ cmds \in Seq(Commands)
        /\ q = PipeOf(evs, cmds, worker) /\ M = Items(evs, cmds, worker)
    BY <1>1, <1>4
  <2> HIDE DEF E, C, cmds
  <2>3. /\ M \in Nat /\ DOMAIN q = 1 .. M
        /\ M = IF Lives(worker) THEN Len(evs) + 1 + Len(cmds) ELSE Len(evs)
        /\ \A i \in 1 .. Len(evs) : i \in 1 .. M /\ q[i] = EventKind(evs[i])
        /\ Lives(worker) => /\ Len(evs) + 1 \in 1 .. M /\ q[Len(evs) + 1] = HeldKind(worker)
                            /\ \A i \in 1 .. Len(cmds) :
                                  Len(evs) + 1 + i \in 1 .. M /\ q[Len(evs) + 1 + i] = CommandKind(cmds[i])
        /\ \A i \in 1 .. M : \/ i \in 1 .. Len(evs)
                             \/ Lives(worker) /\ i = Len(evs) + 1
                             \/ Lives(worker) /\ \E j \in 1 .. Len(cmds) : i = Len(evs) + 1 + j
    BY <2>2, PipeItems
  <2> QED BY <2>1, <2>3
<1> HIDE DEF E, C
<1>7. M = N - 1 /\ N \in Nat \ {0} /\ 1 \in 1 .. N /\ 1 \in 1 .. E
  BY <1>2, <1>5, <1>6
<1>8. p[1] = EventKind(Head(evQ))
  BY <1>2, <1>5, <1>7
<1>9. ASSUME NEW i \in 1 .. M PROVE i + 1 \in 1 .. N /\ q[i] = p[i + 1]
  <2>1. i + 1 \in 1 .. N
    BY <1>7
  <2>2. CASE i \in 1 .. E - 1
    <3>1. i + 1 \in 1 .. E
      BY <1>2, <2>2
    <3> QED BY <1>2, <1>5, <1>6, <2>1, <2>2, <3>1
  <2>3. CASE Lives(worker) /\ i = E - 1 + 1
    <3>1. i = E
      BY <1>2, <2>3
    <3> QED BY <1>5, <1>6, <2>1, <2>3, <3>1
  <2>4. ASSUME Lives(worker), NEW j \in 1 .. C, i = E - 1 + 1 + j PROVE q[i] = p[i + 1]
    <3>1. i + 1 = E + 1 + j
      BY <1>2, <1>5, <2>4
    <3>2. q[i] = CommandKind(cmdQ[j])
      BY <1>6, <2>4
    <3>3. p[E + 1 + j] = CommandKind(cmdQ[j])
      BY <1>5, <2>4
    <3> QED BY <3>1, <3>2, <3>3
  <2> QED BY <1>6, <2>1, <2>2, <2>3, <2>4
<1>10. Keeps(q, p)
  <2> DEFINE m == [i \in 1 .. M |-> i + 1]
  <2>1. \A i \in 1 .. M : m[i] = i + 1 /\ m[i] \in 1 .. N /\ q[i] = p[m[i]]
    BY <1>9
  <2> HIDE DEF m
  <2>2. \A i, j \in 1 .. M : i < j => m[i] < m[j] /\ m[i] <= m[j]
    BY <2>1
  <2>3. Thins(q, p, m)
    BY <1>5, <1>6, <2>1, <2>2 DEF Thins
  <2> QED BY <1>5, <1>6, <2>3, ThinKeeps
<1>11. /\ M = N - 1 /\ DOMAIN q = 1 .. N - 1
       /\ \A i \in 1 .. N - 1 : i + 1 \in 1 .. N /\ q[i] = p[i + 1]
  BY <1>6, <1>7, <1>9
<1> QED BY <1>5, <1>7, <1>8, <1>10, <1>11 DEF p, q, N, M

\* Without a worker and without events nothing is owed.
LEMMA PipeStopped ==
    ASSUME TypeInv', evQ' = <<>>, ~Alive'
    PROVE  /\ PipeLen' = 0 /\ DOMAIN Pipe' = {}
           /\ \A i \in DOMAIN evQ' : FALSE
           /\ NoBar(Pipe') /\ One(Pipe') /\ Two(Pipe') /\ NoEnd(Pipe') /\ OneEnd(Pipe') /\ Empty(Pipe')
           /\ Sealed(Pipe') /\ LastSeals(Pipe') /\ FrontFree(Pipe')
<1>1. PipeLen' = 0 /\ DOMAIN Pipe' = 1 .. PipeLen'
  <2>1. PipeLen' = Items(evQ', cmdQ', worker') /\ ~Lives(worker')
    BY DEF PipeLen, Alive
  <2>2. Len(evQ') = 0
    OBVIOUS
  <2> QED BY <2>1, <2>2, PipeNext DEF Items
<1>2. DOMAIN Pipe' = {} /\ DOMAIN evQ' = {}
  BY <1>1
<1> QED BY <1>1, <1>2 DEF NoBar, One, Two, NoEnd, OneEnd, Empty, Sealed, LastSeals, FrontFree

\* A command joins the end.
LEMMA CommandSent ==
    ASSUME TypeInv, TypeInv', Alive, evQ' = evQ, worker' = worker, NEW cmd \in Commands, cmdQ' = Append(cmdQ, cmd)
    PROVE  Grown(Pipe', Pipe, PipeLen, CommandKind(cmd)) /\ PipeLen \in Nat
<1> DEFINE E == Len(evQ)
           C == Len(cmdQ)
           N == PipeLen
           M == PipeLen'
           p == Pipe
           q == Pipe'
           old == evQ
           cmds == cmdQ
           more == Append(cmdQ, cmd)
<1>1. /\ old \in Seq(EventType) /\ cmds \in Seq(Commands) /\ more \in Seq(Commands)
      /\ Len(more) = C + 1 /\ Len(cmds) = C /\ Len(old) = E /\ C \in Nat /\ E \in Nat
      /\ \A i \in 1 .. C : more[i] = cmds[i]
      /\ more[C + 1] = cmd
  BY PipeNow, AppendProperties
<1>2. p = PipeOf(old, cmds, worker) /\ N = Items(old, cmds, worker) /\ Lives(worker)
  BY DEF Pipe, PipeLen, Alive
<1>3. q = PipeOf(old, more, worker) /\ M = Items(old, more, worker)
  BY DEF Pipe, PipeLen
<1> HIDE DEF p, q, N, M, old, cmds, more, E, C
<1>4. /\ N \in Nat /\ DOMAIN p = 1 .. N /\ N = Len(old) + 1 + Len(cmds)
      /\ \A i \in 1 .. Len(old) : p[i] = EventKind(old[i])
      /\ p[Len(old) + 1] = HeldKind(worker)
      /\ \A i \in 1 .. Len(cmds) : p[Len(old) + 1 + i] = CommandKind(cmds[i])
      /\ \A i \in 1 .. N : \/ i \in 1 .. Len(old)
                           \/ i = Len(old) + 1
                           \/ \E j \in 1 .. Len(cmds) : i = Len(old) + 1 + j
  <2>1. old \in Seq(EventType) /\ cmds \in Seq(Commands)
    BY <1>1
  <2> QED BY <2>1, <1>2, PipeItems
<1>5. /\ M \in Nat /\ DOMAIN q = 1 .. M /\ M = Len(old) + 1 + Len(more)
      /\ \A i \in 1 .. Len(old) : q[i] = EventKind(old[i])
      /\ q[Len(old) + 1] = HeldKind(worker)
      /\ \A i \in 1 .. Len(more) : q[Len(old) + 1 + i] = CommandKind(more[i])
  <2>1. old \in Seq(EventType) /\ more \in Seq(Commands) /\ Lives(worker)
    BY <1>1, <1>2
  <2> QED BY <2>1, <1>3, PipeItems
<1>6. N = E + 1 + C /\ M = N + 1
  BY <1>1, <1>4, <1>5
<1>7. q[N + 1] = CommandKind(cmd)
  <2>1. C + 1 \in 1 .. C + 1 /\ N + 1 = E + 1 + (C + 1)
    BY <1>1, <1>6
  <2>2. q[E + 1 + (C + 1)] = CommandKind(more[C + 1])
    BY <1>1, <1>5, <2>1
  <2> QED BY <1>1, <2>1, <2>2
<1>8. ASSUME NEW i \in 1 .. N PROVE q[i] = p[i]
  <2>1. CASE i \in 1 .. Len(old)
    BY <1>4, <1>5, <2>1
  <2>2. CASE i = Len(old) + 1
    BY <1>4, <1>5, <2>2
  <2>3. ASSUME NEW j \in 1 .. Len(cmds), i = Len(old) + 1 + j PROVE q[i] = p[i]
    <3>1. j \in 1 .. Len(more) /\ more[j] = cmds[j]
      BY <1>1
    <3> QED BY <1>4, <1>5, <2>3, <3>1
  <2> QED BY <1>4, <2>1, <2>2, <2>3
<1>9. Grown(q, p, N, CommandKind(cmd))
  BY <1>4, <1>5, <1>6, <1>7, <1>8 DEF Grown
<1> QED BY <1>4, <1>9 DEF p, q, N

\* What a command leaves behind when the worker has done with it.
LEMMA CommandDone ==
    ASSUME TypeInv, TypeInv', Alive, Alive', cmdQ # <<>>, cmdQ' = Tail(cmdQ),
           NEW new \in Seq(EventType), evQ' = evQ \o new,
           NEW k, k = CommandKind(cmdQ[1]),
           \A i \in DOMAIN new : EventKind(new[i]) \in {"none", k} \/ (EventKind(new[i]) = "text" /\ IsText(k)),
           \A i, j \in DOMAIN new : EventKind(new[i]) = EventKind(new[j]) => i = j \/ EventKind(new[i]) \notin {"bar", "end"},
           HeldKind(worker') = "none" \/ IsText(k)
    PROVE  Keeps(Pipe', Pipe)
<1> DEFINE E == Len(evQ)
           C == Len(cmdQ)
           K == Len(new)
           N == PipeLen
           M == PipeLen'
           p == Pipe
           q == Pipe'
           old == evQ
           cmds == cmdQ
           evs == evQ \o new
           rest == Tail(cmdQ)
           w == worker'
<1>1. /\ old \in Seq(EventType) /\ cmds \in Seq(Commands) /\ new \in Seq(EventType)
      /\ evs \in Seq(EventType) /\ rest \in Seq(Commands)
      /\ E \in Nat /\ K \in Nat /\ C \in Nat \ {0} /\ Len(old) = E /\ Len(cmds) = C
  BY PipeNow, PipeNext, EmptySeq
<1>2. /\ Len(evs) = E + K
      /\ \A i \in 1 .. E + K : evs[i] = IF i <= E THEN old[i] ELSE new[i - E]
  BY <1>1, ConcatProperties
<1>3. Len(rest) = C - 1 /\ \A i \in 1 .. C - 1 : rest[i] = cmds[i + 1]
  BY <1>1, HeadTailProperties
<1>4. p = PipeOf(old, cmds, worker) /\ N = Items(old, cmds, worker) /\ Lives(worker)
  BY DEF Pipe, PipeLen, Alive
<1>5. q = PipeOf(evs, rest, w) /\ M = Items(evs, rest, w) /\ Lives(w)
  BY DEF Pipe, PipeLen, Alive
<1>6. /\ k = CommandKind(cmds[1])
      /\ \A i \in 1 .. K : EventKind(new[i]) \in {"none", k} \/ (EventKind(new[i]) = "text" /\ IsText(k))
      /\ \A i, j \in 1 .. K : EventKind(new[i]) = EventKind(new[j]) => i = j \/ EventKind(new[i]) \notin {"bar", "end"}
      /\ HeldKind(w) = "none" \/ (HeldKind(w) = "text" /\ IsText(k))
  BY <1>1 DEF HeldKind
<1> HIDE DEF p, q, N, M, old, cmds, evs, rest, w, E, C, K
<1>7. /\ N \in Nat /\ DOMAIN p = 1 .. N /\ N = Len(old) + 1 + Len(cmds)
      /\ \A i \in 1 .. Len(old) : p[i] = EventKind(old[i])
      /\ \A i \in 1 .. Len(cmds) : p[Len(old) + 1 + i] = CommandKind(cmds[i])
  <2>1. old \in Seq(EventType) /\ cmds \in Seq(Commands)
    BY <1>1
  <2> QED BY <2>1, <1>4, PipeItems
<1>8. /\ M \in Nat /\ DOMAIN q = 1 .. M
      /\ \A i \in 1 .. Len(evs) : q[i] = EventKind(evs[i])
      /\ q[Len(evs) + 1] = HeldKind(w)
      /\ \A i \in 1 .. Len(rest) : q[Len(evs) + 1 + i] = CommandKind(rest[i])
      /\ \A i \in 1 .. M : \/ i \in 1 .. Len(evs)
                           \/ i = Len(evs) + 1
                           \/ \E j \in 1 .. Len(rest) : i = Len(evs) + 1 + j
  <2>1. evs \in Seq(EventType) /\ rest \in Seq(Commands)
    BY <1>1
  <2> QED BY <2>1, <1>5, PipeItems
<1>9. /\ N = E + 1 + C /\ E + 2 \in 1 .. N
      /\ p[E + 2] = k
  <2>1. N = E + 1 + C /\ E + 2 \in 1 .. N /\ 1 \in 1 .. C /\ E + 1 + 1 = E + 2
    BY <1>1, <1>7
  <2>2. p[E + 1 + 1] = CommandKind(cmds[1])
    BY <1>1, <1>7, <2>1
  <2> QED BY <1>6, <2>1, <2>2
\* Where an item comes from: an event, the command, a later command.
<1> DEFINE m == [i \in 1 .. M |-> IF i <= E THEN i ELSE IF i <= E + K + 1 THEN E + 2 ELSE i - K + 1]
<1>10. \A i \in 1 .. M : m[i] = IF i <= E THEN i ELSE IF i <= E + K + 1 THEN E + 2 ELSE i - K + 1
  OBVIOUS
<1> HIDE DEF m
<1>11. ASSUME NEW i \in 1 .. M, i <= E PROVE m[i] \in 1 .. N /\ q[i] = p[m[i]] /\ m[i] = i
  <2>1. i \in 1 .. E /\ i \in 1 .. E + K /\ i \in 1 .. N /\ m[i] = i
    BY <1>1, <1>9, <1>10, <1>11
  <2>2. q[i] = EventKind(evs[i]) /\ evs[i] = old[i]
    BY <1>2, <1>8, <1>11, <2>1
  <2>3. p[i] = EventKind(old[i])
    BY <1>1, <1>7, <2>1
  <2> QED BY <2>1, <2>2, <2>3
<1>12. ASSUME NEW i \in 1 .. M, E < i, i <= E + K + 1
       PROVE  /\ m[i] = E + 2
              /\ q[i] \in {"none", k} \/ (q[i] = "text" /\ IsText(k))
              /\ \A j \in 1 .. M : i < j /\ j <= E + K + 1 /\ q[i] = q[j] => q[i] \notin {"bar", "end"}
  <2>1. m[i] = E + 2
    BY <1>1, <1>10, <1>12
  <2>2. \A j \in 1 .. M : E < j /\ j <= E + K => q[j] = EventKind(new[j - E]) /\ j - E \in 1 .. K
    <3> SUFFICES ASSUME NEW j \in 1 .. M, E < j, j <= E + K
                 PROVE  q[j] = EventKind(new[j - E]) /\ j - E \in 1 .. K
      OBVIOUS
    <3>1. j \in 1 .. E + K /\ j - E \in 1 .. K /\ ~(j <= E)
      BY <1>1
    <3>2. evs[j] = new[j - E]
      BY <1>2, <3>1
    <3>3. q[j] = EventKind(evs[j])
      BY <1>2, <1>8, <3>1
    <3> QED BY <3>1, <3>2, <3>3
  <2>3. q[E + K + 1] = HeldKind(w)
    BY <1>2, <1>8
  <2>4. CASE i <= E + K
    <3>1. q[i] = EventKind(new[i - E]) /\ i - E \in 1 .. K
      BY <1>12, <2>2, <2>4
    <3>2. ASSUME NEW j \in 1 .. M, i < j, j <= E + K + 1, q[i] = q[j] PROVE q[i] \notin {"bar", "end"}
      <4>1. CASE j <= E + K
        <5>1. q[j] = EventKind(new[j - E]) /\ j - E \in 1 .. K /\ i - E # j - E
          BY <1>1, <1>12, <2>2, <3>2, <4>1
        <5> QED BY <1>6, <3>1, <3>2, <5>1
      <4>2. CASE ~(j <= E + K)
        <5>1. j = E + K + 1
          BY <1>1, <3>2, <4>2
        <5> QED BY <1>6, <2>3, <3>2, <5>1
      <4> QED BY <4>1, <4>2
    <3> QED BY <1>6, <2>1, <3>1, <3>2
  <2>5. CASE ~(i <= E + K)
    <3>1. i = E + K + 1 /\ \A j \in 1 .. M : ~(i < j /\ j <= E + K + 1)
      BY <1>1, <1>12, <2>5
    <3> QED BY <1>6, <2>1, <2>3, <3>1
  <2> QED BY <2>4, <2>5
<1>13. ASSUME NEW i \in 1 .. M, ~(i <= E + K + 1) PROVE m[i] \in 1 .. N /\ q[i] = p[m[i]] /\ m[i] = i - K + 1 /\ E + 2 < m[i]
  <2>1. m[i] = i - K + 1
    BY <1>1, <1>10, <1>13
  <2>2. PICK j \in 1 .. Len(rest) : i = Len(evs) + 1 + j
    BY <1>1, <1>2, <1>8, <1>13
  <2>3. i = E + K + 1 + j /\ j \in 1 .. C - 1
    BY <1>2, <1>3, <2>2
  <2>4. q[i] = CommandKind(cmds[j + 1])
    <3>1. q[Len(evs) + 1 + j] = CommandKind(rest[j])
      BY <1>8
    <3> QED BY <1>3, <2>2, <2>3, <3>1
  <2>5. j + 1 \in 1 .. C /\ m[i] = E + 1 + (j + 1) /\ m[i] \in 1 .. N /\ E + 2 < m[i]
    BY <1>1, <1>9, <2>1, <2>3
  <2>6. p[E + 1 + (j + 1)] = CommandKind(cmds[j + 1])
    BY <1>1, <1>7, <2>5
  <2> QED BY <2>1, <2>4, <2>5, <2>6
<1>14. Thins(q, p, m)
  <2>1. ASSUME NEW i \in 1 .. M, q[i] # "none"
        PROVE  /\ m[i] \in 1 .. N
               /\ q[i] = "bar" => p[m[i]] = "bar"
               /\ q[i] = "end" => p[m[i]] = "end"
               /\ IsText(q[i]) => IsText(p[m[i]])
    <3>1. CASE i <= E
      BY <1>11, <3>1
    <3>2. CASE E < i /\ i <= E + K + 1
      <4>1. m[i] = E + 2 /\ (q[i] = k \/ (q[i] = "text" /\ IsText(k)))
        BY <1>12, <2>1, <3>2
      <4> QED BY <1>9, <4>1
    <3>3. CASE ~(i <= E + K + 1)
      BY <1>13, <3>3
    <3> QED BY <1>1, <3>1, <3>2, <3>3
  <2>2. ASSUME NEW i \in 1 .. M, NEW j \in 1 .. M, i < j
        PROVE  m[i] <= m[j] /\ (m[i] < m[j] \/ (E < i /\ j <= E + K + 1))
    <3>1. /\ m[i] = IF i <= E THEN i ELSE IF i <= E + K + 1 THEN E + 2 ELSE i - K + 1
          /\ m[j] = IF j <= E THEN j ELSE IF j <= E + K + 1 THEN E + 2 ELSE j - K + 1
      BY <1>10
    <3> QED BY <1>1, <2>2, <3>1
  <2>3. ASSUME NEW i \in 1 .. M, NEW j \in 1 .. M, i < j, q[i] = q[j], q[i] \in {"bar", "end"}
        PROVE  m[i] < m[j]
    <3>1. ~(E < i /\ j <= E + K + 1)
      <4> SUFFICES ASSUME E < i, j <= E + K + 1 PROVE FALSE
        OBVIOUS
      <4>1. i <= E + K + 1
        BY <1>1, <2>3
      <4> QED BY <1>12, <2>3, <4>1
    <3> QED BY <2>2, <2>3, <3>1
  <2> QED BY <1>7, <1>8, <2>1, <2>2, <2>3 DEF Thins
<1>15. Keeps(q, p)
  BY <1>7, <1>8, <1>14, ThinKeeps
<1> QED BY <1>15 DEF p, q

-----------------------------------------------------------------------------
\* What the worker's steps do to the pipe, and to what is current.

LEMMA ReportedCurrent ==
    ASSUME TypeInv, NEW new \in Seq(EventType), evQ' = evQ \o new, stream' = stream,
           \A i \in DOMAIN new : new[i].type = "words" => ShowsCurrent(new[i]),
           WordsCurrent
    PROVE  WordsCurrent'
<1> DEFINE evs == evQ \o new
           E == Len(evQ)
           K == Len(new)
<1>1. /\ E \in Nat /\ K \in Nat /\ DOMAIN evs = 1 .. E + K
      /\ \A i \in 1 .. E + K : evs[i] = IF i <= E THEN evQ[i] ELSE new[i - E]
      /\ evQ' = evs
  BY PipeNow, ConcatProperties
<1>2. (\A i \in 1 .. E : evQ[i].type = "words" => ShowsCurrent(evQ[i])) /\ DOMAIN new = 1 .. K
  BY PipeNow DEF WordsCurrent
<1>3. \A ev : ShowsCurrent(ev)' = \A r \in DOMAIN ev.rows : ev.heard[ev.rows[r].t0 + 1].stream = stream
  BY DEF ShowsCurrent
<1> HIDE DEF evs, E, K
<1>4. \A i \in 1 .. E + K : evs[i].type = "words" => ShowsCurrent(evs[i])
  <2> SUFFICES ASSUME NEW i \in 1 .. E + K, evs[i].type = "words" PROVE ShowsCurrent(evs[i])
    OBVIOUS
  <2>1. CASE i <= E
    <3>1. i \in 1 .. E /\ evs[i] = evQ[i]
      BY <1>1, <2>1
    <3> QED BY <1>2, <3>1
  <2>2. CASE ~(i <= E)
    <3>1. i - E \in 1 .. K /\ evs[i] = new[i - E]
      BY <1>1, <2>2
    <3> QED BY <1>2, <3>1
  <2> QED BY <2>1, <2>2
<1>5. \A i \in DOMAIN evQ' : evQ'[i].type = "words" =>
         \A r \in DOMAIN evQ'[i].rows : evQ'[i].heard[evQ'[i].rows[r].t0 + 1].stream = stream'
  BY <1>1, <1>4 DEF ShowsCurrent
<1> QED BY <1>5 DEF WordsCurrent, ShowsCurrent

LEMMA ReportedErrors ==
    ASSUME TypeInv, NEW new \in Seq(EventType), evQ' = evQ \o new,
           \A i \in DOMAIN new : new[i].type # "error", ErrorLast, Alive
    PROVE  ErrorLast'
<1> DEFINE evs == evQ \o new
           E == Len(evQ)
           K == Len(new)
<1>1. /\ E \in Nat /\ K \in Nat /\ DOMAIN evs = 1 .. E + K
      /\ \A i \in 1 .. E + K : evs[i] = IF i <= E THEN evQ[i] ELSE new[i - E]
      /\ evQ' = evs
  BY PipeNow, ConcatProperties
<1>2. (\A i \in 1 .. E : evQ[i].type # "error") /\ DOMAIN new = 1 .. K
  BY PipeNow DEF ErrorLast
<1> HIDE DEF evs, E, K
<1>3. \A i \in 1 .. E + K : evs[i].type # "error"
  <2> SUFFICES ASSUME NEW i \in 1 .. E + K PROVE evs[i].type # "error"
    OBVIOUS
  <2>1. CASE i <= E
    <3>1. i \in 1 .. E /\ evs[i] = evQ[i]
      BY <1>1, <2>1
    <3> QED BY <1>2, <3>1
  <2>2. CASE ~(i <= E)
    <3>1. i - E \in 1 .. K /\ evs[i] = new[i - E]
      BY <1>1, <2>2
    <3> QED BY <1>2, <3>1
  <2> QED BY <2>1, <2>2
<1> QED BY <1>1, <1>3 DEF ErrorLast

\* Words of audio that is all of the current stream.
LEMMA CurrentWords ==
    ASSUME NEW ev \in EventType, ev.type = "words", \A k \in DOMAIN ev.heard : ev.heard[k].stream = stream
    PROVE  ShowsCurrent(ev)
<1>1. ev.rows \in Seq(Row) /\ ev.heard \in Seq(Tick) /\ \A i \in DOMAIN ev.rows : ev.rows[i].t0 < Len(ev.heard)
  BY EventFields
<1>2. ASSUME NEW r \in DOMAIN ev.rows PROVE ev.rows[r].t0 + 1 \in DOMAIN ev.heard
  <2>1. ev.rows[r] \in Row
    BY <1>1, ElementOfSeq
  <2> DEFINE t == ev.rows[r].t0
             n == Len(ev.heard)
  <2>2. t \in Nat /\ t < n /\ n \in Nat /\ DOMAIN ev.heard = 1 .. n
    BY <1>1, <2>1 DEF Row
  <2> HIDE DEF t, n
  <2>3. t + 1 \in 1 .. n
    BY <2>2
  <2> QED BY <2>2, <2>3 DEF t
<1> QED BY <1>2 DEF ShowsCurrent

LEMMA WorkerKeepsAll ==
    ASSUME WorkerKeeps
    PROVE  /\ todo' = todo /\ base' = base /\ stream' = stream /\ due' = due /\ cancel' = cancel
           /\ phase' = phase /\ sinkFlush' = sinkFlush /\ srcFlush' = srcFlush /\ out' = Nothing
BY DEF WorkerKeeps, Quiet, element, state

\* What the worker reports.
Reports(new) ==
    /\ new \in Seq(EventType) /\ evQ' = evQ \o new
    /\ \A i \in DOMAIN new : new[i].type # "error"

LEMMA FeedReports ==
    ASSUME TypeInv, WorkerFeed
    PROVE  \E new : /\ Reports(new)
                    /\ \A i \in DOMAIN new : /\ EventKind(new[i]) \in {"none", "text"}
                                             /\ new[i].type = "words" => new[i].heard = worker'.heard
                                             /\ new[i].type = "words" => ~cancel /\ \E to \in Nat : new[i].rows \in Rows(Fed(Head(cmdQ)), to)
<1> DEFINE cmd == Head(cmdQ)
           w == Fed(cmd)
<1>1. cmd \in Commands /\ cmd.type = "feed"
  BY CommandAhead DEF WorkerFeed
<1> HIDE DEF cmd
<1>2. HeldOK(w)
  BY <1>1, FedHeld DEF TypeInv
<1>3. /\ w \in WorkerType /\ w.heard \in Seq(Tick) /\ w.decided \in Nat /\ w.spoken \in Nat
      /\ w.frontier \in Nat /\ w.decided <= Len(w.heard)
  BY <1>2 DEF HeldOK, WorkerType
<1>4. CASE evQ' = evQ
  <2>1. <<>> \in Seq(EventType) /\ evQ \o <<>> = evQ /\ DOMAIN <<>> = {}
    BY PipeNow, ConcatEmptySeq
  <2> DEFINE new == <<>>
  <2>2. Reports(new) /\ DOMAIN new = {}
    BY <1>4, <2>1 DEF Reports
  <2> HIDE DEF new
  <2> QED BY <2>2
<1>5. ASSUME NEW to \in w.decided .. Len(w.heard), NEW rows \in Rows(w, to),
             worker' = [w EXCEPT !.decided = to, !.spoken = Spoken(w, rows), !.frontier = Watermark(w, to)],
             RunReports(w, rows, Watermark(w, to)), ~cancel
      PROVE  \E new : /\ Reports(new)
                      /\ \A i \in DOMAIN new : /\ EventKind(new[i]) \in {"none", "text"}
                                               /\ new[i].type = "words" => new[i].heard = worker'.heard
                                               /\ new[i].type = "words" => ~cancel /\ \E t \in Nat : new[i].rows \in Rows(w, t)
  <2> DEFINE words == WordsEvent(w, rows)
             front == IF rows = <<>> THEN <<>> ELSE <<words>>
             frontier == Watermark(w, to)
             progress == Progress(frontier)
             last == <<progress>>
  <2>1. to \in Nat /\ w.decided <= to /\ to <= Len(w.heard)
    BY <1>3, <1>5
  <2>2. rows \in Seq(Row) /\ \A i \in DOMAIN rows : rows[i].t0 < Len(w.heard)
    <3> HIDE DEF w
    <3> QED BY <1>3, <1>5, <2>1, RowsTyped
  <2>3. frontier \in Nat
    <3> HIDE DEF w
    <3> QED BY <1>3, <2>1 DEF Watermark, Later
  <2>4. worker'.heard = w.heard
    <3> HIDE DEF w
    <3> QED BY <1>3, <1>5 DEF WorkerType
  <2>5. words \in EventType /\ words.type = "words" /\ words.heard = w.heard /\ words.rows \in Rows(w, to)
    <3> HIDE DEF w
    <3>1. words \in EventType
      BY <1>3, <2>2, WordsMade
    <3> QED BY <1>5, <3>1 DEF WordsEvent
  <2> HIDE DEF frontier, w
  <2>6. progress \in EventType /\ progress.type = "progress"
    BY <2>3, EventsMade DEF Progress
  <2>7. evQ' = (evQ \o front) \o last
    BY <1>5 DEF RunReports, frontier
  <2> HIDE DEF words, progress
  <2>8. /\ front \in Seq(EventType) /\ last \in Seq(EventType) /\ Len(last) = 1 /\ last[1] = progress
        /\ \A i \in DOMAIN front : front[i] = words
    BY <2>5, <2>6
  <2> HIDE DEF front, last
  <2> DEFINE new == front \o last
  <2>9. evQ' = evQ \o new
    <3> DEFINE queue == evQ
    <3>1. queue \in Seq(EventType)
      BY PipeNow
    <3> HIDE DEF queue, new
    <3>2. (queue \o front) \o last = queue \o (front \o last)
      BY <2>8, <3>1, ConcatAssociative
    <3> QED BY <2>7, <3>2 DEF queue, new
  <2>10. /\ new \in Seq(EventType) /\ DOMAIN new = 1 .. Len(front) + 1
         /\ \A i \in 1 .. Len(front) + 1 : new[i] = IF i <= Len(front) THEN front[i] ELSE last[i - Len(front)]
    <3>1. /\ new \in Seq(EventType) /\ Len(new) = Len(front) + Len(last)
          /\ \A i \in 1 .. Len(front) + Len(last) : new[i] = IF i <= Len(front) THEN front[i] ELSE last[i - Len(front)]
      BY <2>8, ConcatProperties
    <3>2. DOMAIN new = 1 .. Len(new)
      <4> HIDE DEF new
      <4> QED BY <3>1
    <3> HIDE DEF new
    <3> QED BY <2>8, <3>1, <3>2
  <2> HIDE DEF new
  <2>11. \A i \in DOMAIN new : new[i] = words \/ new[i] = progress
    <3> SUFFICES ASSUME NEW i \in 1 .. Len(front) + 1 PROVE new[i] = words \/ new[i] = progress
      BY <2>10
    <3>1. Len(front) \in Nat /\ DOMAIN front = 1 .. Len(front)
      BY <2>8
    <3>2. CASE i <= Len(front)
      <4>1. i \in DOMAIN front /\ new[i] = front[i]
        BY <2>10, <3>1, <3>2
      <4> QED BY <2>8, <4>1
    <3>3. CASE ~(i <= Len(front))
      <4>1. i - Len(front) = 1
        BY <3>1, <3>3
      <4> QED BY <2>8, <2>10, <3>3, <4>1
    <3> QED BY <3>2, <3>3
  <2>12. EventKind(words) \in {"none", "text"} /\ EventKind(progress) \in {"none", "text"}
    BY <2>5, <2>6 DEF EventKind
  <2>13. Reports(new)
    BY <2>5, <2>6, <2>9, <2>10, <2>11 DEF Reports
  <2>14. \A i \in DOMAIN new : EventKind(new[i]) \in {"none", "text"} /\ (new[i].type = "words" => new[i].heard = worker'.heard)
    BY <2>4, <2>5, <2>6, <2>11, <2>12
  <2>15. \A i \in DOMAIN new : new[i].type = "words" => ~cancel /\ \E t \in Nat : new[i].rows \in Rows(w, t)
    BY <1>5, <2>1, <2>5, <2>6, <2>11
  <2> QED BY <2>13, <2>14, <2>15
<1>6. \/ evQ' = evQ
      \/ \E to \in w.decided .. Len(w.heard) : \E rows \in Rows(w, to) :
            /\ worker' = [w EXCEPT !.decided = to, !.spoken = Spoken(w, rows), !.frontier = Watermark(w, to)]
            /\ RunReports(w, rows, Watermark(w, to)) /\ ~cancel
  <2>1. w = Fed(Head(cmdQ))
    BY DEF cmd
  <2> HIDE DEF w
  <2> QED BY <2>1 DEF WorkerFeed, RunReports
<1>7. w = Fed(Head(cmdQ))
  BY DEF cmd
<1> HIDE DEF w
<1> QED BY <1>4, <1>5, <1>6, <1>7

\* An end of the worker's stream reports what it held, and one marker.
LEMMA EndReports ==
    ASSUME TypeInv, WorkerFinalize
    PROVE  \E new : /\ Reports(new)
                    /\ \A i \in DOMAIN new : /\ EventKind(new[i]) \in {"none", "text", "end"}
                                             /\ new[i].type = "words" => new[i].heard = worker.heard
                                             /\ new[i].type = "words" => \E to \in Nat : new[i].rows \in Rows(worker, to)
                    /\ \A i, j \in DOMAIN new : EventKind(new[i]) = "end" /\ EventKind(new[j]) = "end" => i = j
                    /\ cancel => \A i \in DOMAIN new : ~Shown(new[i])
<1> DEFINE drained == [type |-> "drained"]
           audio == Len(worker.heard)
<1>1. drained \in EventType /\ drained.type = "drained"
  BY EventsMade
<1>2. EventKind(drained) = "end"
  BY DEF EventKind
<1>3. evQ \in Seq(EventType) /\ HeldOK(worker)
  BY DEF TypeInv
<1>4. CASE evQ' = Append(evQ, drained)
  <2> DEFINE new == <<drained>>
  <2> HIDE DEF drained
  <2>1. new \in Seq(EventType) /\ DOMAIN new = 1 .. 1 /\ new[1] = drained
    BY <1>1
  <2>2. evQ' = evQ \o new
    BY <1>1, <1>3, <1>4, AppendIsConcat
  <2> HIDE DEF new
  <2>3. \A i \in DOMAIN new : i = 1
    BY <2>1
  <2>4. Reports(new)
    BY <1>1, <2>1, <2>2, <2>3 DEF Reports
  <2>5. \A i \in DOMAIN new : ~Shown(new[i])
    BY <1>1, <2>1, <2>3 DEF Shown
  <2> QED BY <1>1, <1>2, <2>1, <2>3, <2>4, <2>5
<1>5. ASSUME NEW rows \in Rows(worker, audio), FinalizeReports(rows, audio), cancel => rows = <<>>
      PROVE  \E new : /\ Reports(new)
                      /\ \A i \in DOMAIN new : /\ EventKind(new[i]) \in {"none", "text", "end"}
                                               /\ new[i].type = "words" => new[i].heard = worker.heard
                                               /\ new[i].type = "words" => \E to \in Nat : new[i].rows \in Rows(worker, to)
                      /\ \A i, j \in DOMAIN new : EventKind(new[i]) = "end" /\ EventKind(new[j]) = "end" => i = j
                      /\ cancel => \A i \in DOMAIN new : ~Shown(new[i])
  <2>1. audio \in Nat /\ worker.heard \in Seq(Tick) /\ worker.decided \in Nat /\ worker.spoken \in Nat
    BY <1>3 DEF HeldOK, WorkerType
  <2>2. rows \in Seq(Row) /\ \A i \in DOMAIN rows : rows[i].t0 < Len(worker.heard)
    BY <1>5, <2>1, RowsTyped
  <2> DEFINE words == WordsEvent(worker, rows)
             progress == Progress(audio)
             new == <<words, progress, drained>>
  <2>3. words \in EventType /\ progress \in EventType
    BY <2>1, <2>2, WordsMade, EventsMade
  <2>4. words.type = "words" /\ words.heard = worker.heard /\ progress.type = "progress"
    BY DEF WordsEvent, Progress
  <2>5. EventKind(words) \in {"none", "text"} /\ EventKind(progress) = "none"
    BY <2>4 DEF EventKind, Shown
  <2>6. evQ' = evQ \o new /\ (cancel => rows = <<>>) /\ words.rows = rows
    BY <1>5 DEF FinalizeReports, WordsEvent
  <2> HIDE DEF words, progress, drained
  <2>7. new \in Seq(EventType) /\ DOMAIN new = 1 .. 3 /\ new[1] = words /\ new[2] = progress /\ new[3] = drained
    BY <1>1, <2>3
  <2> HIDE DEF new
  <2>8. \A i \in DOMAIN new : i = 1 \/ i = 2 \/ i = 3
    BY <2>7
  <2>9. Reports(new)
    BY <1>1, <2>4, <2>6, <2>7, <2>8 DEF Reports
  <2>10. \A i \in DOMAIN new : /\ EventKind(new[i]) \in {"none", "text", "end"}
                               /\ new[i].type = "words" => new[i].heard = worker.heard
                               /\ EventKind(new[i]) = "end" => i = 3
    BY <1>1, <1>2, <2>4, <2>5, <2>7, <2>8
  <2>11. cancel => \A i \in DOMAIN new : ~Shown(new[i])
    BY <1>1, <2>4, <2>6, <2>7, <2>8 DEF Shown
  <2>12. \A i \in DOMAIN new : new[i].type = "words" => \E to \in Nat : new[i].rows \in Rows(worker, to)
    BY <1>1, <1>5, <2>1, <2>4, <2>6, <2>7, <2>8
  <2> QED BY <2>9, <2>10, <2>11, <2>12
<1>6. \/ evQ' = Append(evQ, drained)
      \/ \E rows \in Rows(worker, audio) : FinalizeReports(rows, audio) /\ (cancel => rows = <<>>)
  BY DEF WorkerFinalize, AbortedDrain, FinalizeReports
<1> HIDE DEF drained, audio
<1> QED BY <1>4, <1>5, <1>6

LEMMA RestartReports ==
    ASSUME TypeInv, WorkerRestart
    PROVE  \E new : /\ Reports(new)
                    /\ \A i \in DOMAIN new : EventKind(new[i]) = "bar" /\ new[i].type # "words" /\ i = 1
<1> DEFINE ev == [type |-> "restarted"]
           new == <<ev>>
<1>1. ev \in EventType /\ ev.type = "restarted" /\ evQ' = Append(evQ, ev)
  BY EventsMade DEF WorkerRestart
<1>2. EventKind(ev) = "bar"
  BY DEF EventKind
<1> HIDE DEF ev
<1>3. new \in Seq(EventType) /\ DOMAIN new = 1 .. 1 /\ new[1] = ev
  BY <1>1
<1>4. evQ' = evQ \o new
  BY <1>1, PipeNow, AppendIsConcat
<1> HIDE DEF new
<1>5. \A i \in DOMAIN new : i = 1
  BY <1>3
<1>6. Reports(new)
  BY <1>1, <1>3, <1>4, <1>5 DEF Reports
<1> QED BY <1>1, <1>2, <1>3, <1>5, <1>6

LEMMA LaterCommands ==
    ASSUME TypeInv, cmdQ # <<>>, cmdQ' = Tail(cmdQ)
    PROVE  1 \in DOMAIN cmdQ /\ \A k \in DOMAIN cmdQ' : k + 1 \in DOMAIN cmdQ /\ cmdQ'[k] = cmdQ[k + 1]
<1> DEFINE cmds == cmdQ
           rest == Tail(cmdQ)
           C == Len(cmds)
<1>1. cmds \in Seq(Commands) /\ cmds # <<>>
  BY PipeNow
<1>2. rest \in Seq(Commands) /\ C \in Nat \ {0} /\ Len(rest) = C - 1 /\ \A k \in 1 .. C - 1 : rest[k] = cmds[k + 1]
  BY <1>1, HeadTailProperties, EmptySeq
<1>3. DOMAIN cmds = 1 .. C
  BY <1>1
<1> HIDE DEF rest, cmds, C
<1>4. DOMAIN rest = 1 .. C - 1
  BY <1>2
<1>5. 1 \in 1 .. C /\ \A k \in 1 .. C - 1 : k + 1 \in 1 .. C
  BY <1>2
<1> QED BY <1>2, <1>3, <1>4, <1>5 DEF rest, cmds

\* Audio keeps the stream it was fed in.
LEMMA FedCurrent ==
    ASSUME TypeInv, HeldCurrent, Command("feed")
    PROVE  \A k \in DOMAIN Fed(Head(cmdQ)).heard : Fed(Head(cmdQ)).heard[k].stream = stream
<1> DEFINE cmd == Head(cmdQ)
           w == Fed(cmd)
           n == Len(worker.heard)
           len == cmd.len
<1>1. cmd \in Commands /\ cmd = cmdQ[1] /\ cmd.type = "feed"
  BY CommandAhead
<1>2. 1 \in DOMAIN cmdQ
  BY PipeNow, EmptySeq DEF Command
<1>3. cmd.stream = stream /\ \A k \in DOMAIN worker.heard : worker.heard[k].stream = stream
  BY <1>1, <1>2 DEF HeldCurrent, Alive, Lives, Command
<1> HIDE DEF cmd
<1>4. /\ HeldOK(w) /\ Len(w.heard) = n + len
      /\ \A i \in 1 .. n : w.heard[i] = worker.heard[i]
      /\ \A i \in n + 1 .. n + len : w.heard[i].stream = cmd.stream
  BY <1>1, FedHeld DEF TypeInv
<1>5. w.heard \in Seq(Tick) /\ worker.heard \in Seq(Tick) /\ n \in Nat /\ len \in Nat
  BY <1>1, <1>4, CommandFields DEF HeldOK, WorkerType, TypeInv
<1>6. DOMAIN w.heard = 1 .. n + len /\ DOMAIN worker.heard = 1 .. n
  <2> HIDE DEF w
  <2> QED BY <1>4, <1>5
<1> HIDE DEF n, len, w
<1>7. \A k \in 1 .. n + len : k \in 1 .. n \/ k \in n + 1 .. n + len
  BY <1>5
<1>8. \A k \in DOMAIN w.heard : w.heard[k].stream = stream
  BY <1>3, <1>4, <1>6, <1>7
<1> QED BY <1>8 DEF w, cmd

LEMMA FeedFlow ==
    ASSUME TypeInv, TypeInv', ErrorLast, WorkerFeed
    PROVE  Keeps(Pipe', Pipe) /\ ErrorLast' /\ (WordsCurrent /\ HeldCurrent => WordsCurrent' /\ HeldCurrent')
<1> DEFINE w == Fed(Head(cmdQ))
<1>1. /\ Head(cmdQ) \in Commands /\ Head(cmdQ) = cmdQ[1] /\ Head(cmdQ).type = "feed"
      /\ Command("feed") /\ cmdQ # <<>> /\ cmdQ' = Tail(cmdQ) /\ worker.state = "idle" /\ WorkerKeeps
  BY CommandAhead DEF WorkerFeed, Command
<1>2. w.state = "idle"
  BY <1>1, FedHeld DEF TypeInv
<1>3. w \in WorkerType
  BY <1>1, FedHeld DEF TypeInv, HeldOK
<1>4. worker' = worker \/ (worker'.state = "idle" /\ worker'.heard = w.heard)
  <2> HIDE DEF w
  <2>1. \/ worker' = worker
        \/ worker' = w
        \/ \E to, rows : worker' = [w EXCEPT !.decided = to, !.spoken = Spoken(w, rows), !.frontier = Watermark(w, to)]
    BY DEF WorkerFeed, w
  <2> QED BY <1>2, <1>3, <2>1 DEF WorkerType
<1>5. PICK new : /\ Reports(new)
                 /\ \A i \in DOMAIN new : /\ EventKind(new[i]) \in {"none", "text"}
                                          /\ new[i].type = "words" => new[i].heard = worker'.heard
  BY FeedReports
<1>6. Alive /\ Alive'
  BY <1>1, <1>4 DEF Alive, Lives
<1>7. Keeps(Pipe', Pipe)
  <2> DEFINE k == CommandKind(cmdQ[1])
  <2>1. k = "text"
    BY <1>1 DEF CommandKind
  <2> HIDE DEF k
  <2>2. new \in Seq(EventType) /\ evQ' = evQ \o new
    BY <1>5 DEF Reports
  <2>3. /\ \A i \in DOMAIN new : EventKind(new[i]) \in {"none", k} \/ (EventKind(new[i]) = "text" /\ IsText(k))
        /\ \A i, j \in DOMAIN new : EventKind(new[i]) = EventKind(new[j]) => i = j \/ EventKind(new[i]) \notin {"bar", "end"}
        /\ HeldKind(worker') = "none" \/ IsText(k)
    BY <1>5, <2>1 DEF IsText
  <2> QED BY <1>1, <1>6, <2>2, <2>3, CommandDone DEF k
<1>8. ErrorLast'
  BY <1>5, <1>6, ReportedErrors DEF Reports
<1>9. ASSUME WordsCurrent, HeldCurrent PROVE WordsCurrent' /\ HeldCurrent'
  <2>1. stream' = stream
    BY <1>1, WorkerKeepsAll
  <2>2. \A k \in DOMAIN worker'.heard : worker'.heard[k].stream = stream
    <3>1. \A k \in DOMAIN w.heard : w.heard[k].stream = stream
      BY <1>1, <1>9, FedCurrent
    <3>2. \A k \in DOMAIN worker.heard : worker.heard[k].stream = stream
      BY <1>6, <1>9 DEF HeldCurrent
    <3> HIDE DEF w
    <3> QED BY <1>4, <3>1, <3>2
  <2>3. HeldCurrent'
    <3>1. \A k \in DOMAIN cmdQ' : cmdQ'[k].type = "feed" => cmdQ'[k].stream = stream
      BY <1>1, <1>6, <1>9, LaterCommands DEF HeldCurrent
    <3> QED BY <2>1, <2>2, <3>1 DEF HeldCurrent
  <2>4. \A i \in DOMAIN new : new[i].type = "words" => ShowsCurrent(new[i])
    <3> SUFFICES ASSUME NEW i \in DOMAIN new, new[i].type = "words" PROVE ShowsCurrent(new[i])
      OBVIOUS
    <3>1. new[i] \in EventType
      BY <1>5, ElementOfSeq DEF Reports
    <3>2. new[i].heard = worker'.heard
      BY <1>5
    <3> QED BY <2>2, <3>1, <3>2, CurrentWords
  <2> QED BY <1>5, <1>9, <2>1, <2>3, <2>4, ReportedCurrent DEF Reports
<1> QED BY <1>7, <1>8, <1>9

LEMMA FinalizeFlow ==
    ASSUME TypeInv, TypeInv', ErrorLast, WorkerFinalize
    PROVE  Keeps(Pipe', Pipe) /\ ErrorLast' /\ (WordsCurrent /\ HeldCurrent => WordsCurrent' /\ HeldCurrent')
<1>1. /\ Head(cmdQ) \in Commands /\ Head(cmdQ) = cmdQ[1] /\ Head(cmdQ).type = "finalize"
      /\ cmdQ # <<>> /\ cmdQ' = Tail(cmdQ) /\ worker.state = "idle" /\ WorkerKeeps
  BY CommandAhead DEF WorkerFinalize, Command
<1>2. worker'.state = "idle" /\ (worker'.heard = <<>> \/ worker'.heard = worker.heard)
  <2>1. worker' = FreshStream \/ worker' = Drained
    BY DEF WorkerFinalize
  <2> QED BY <1>1, <2>1 DEF FreshStream, Drained, TypeInv, HeldOK, WorkerType
<1>3. PICK new : /\ Reports(new)
                 /\ \A i \in DOMAIN new : /\ EventKind(new[i]) \in {"none", "text", "end"}
                                          /\ new[i].type = "words" => new[i].heard = worker.heard
                 /\ \A i, j \in DOMAIN new : EventKind(new[i]) = "end" /\ EventKind(new[j]) = "end" => i = j
  BY EndReports
<1>4. Alive /\ Alive'
  BY <1>1, <1>2 DEF Alive, Lives
<1>5. Keeps(Pipe', Pipe)
  <2> DEFINE k == CommandKind(cmdQ[1])
  <2>1. k = "end"
    BY <1>1 DEF CommandKind
  <2> HIDE DEF k
  <2>2. new \in Seq(EventType) /\ evQ' = evQ \o new
    BY <1>3 DEF Reports
  <2>3. /\ \A i \in DOMAIN new : EventKind(new[i]) \in {"none", k} \/ (EventKind(new[i]) = "text" /\ IsText(k))
        /\ \A i, j \in DOMAIN new : EventKind(new[i]) = EventKind(new[j]) => i = j \/ EventKind(new[i]) \notin {"bar", "end"}
        /\ HeldKind(worker') = "none" \/ IsText(k)
    BY <1>3, <2>1 DEF IsText
  <2> QED BY <1>1, <1>4, <2>2, <2>3, CommandDone DEF k
<1>6. ErrorLast'
  BY <1>3, <1>4, ReportedErrors DEF Reports
<1>7. ASSUME WordsCurrent, HeldCurrent PROVE WordsCurrent' /\ HeldCurrent'
  <2>1. stream' = stream
    BY <1>1, WorkerKeepsAll
  <2>2. \A k \in DOMAIN worker.heard : worker.heard[k].stream = stream
    BY <1>4, <1>7 DEF HeldCurrent
  <2>3. HeldCurrent'
    <3>1. \A k \in DOMAIN cmdQ' : cmdQ'[k].type = "feed" => cmdQ'[k].stream = stream
      BY <1>1, <1>4, <1>7, LaterCommands DEF HeldCurrent
    <3>2. \A k \in DOMAIN worker'.heard : worker'.heard[k].stream = stream
      BY <1>2, <2>2
    <3> QED BY <2>1, <3>1, <3>2 DEF HeldCurrent
  <2>4. \A i \in DOMAIN new : new[i].type = "words" => ShowsCurrent(new[i])
    <3> SUFFICES ASSUME NEW i \in DOMAIN new, new[i].type = "words" PROVE ShowsCurrent(new[i])
      OBVIOUS
    <3>1. new[i] \in EventType
      BY <1>3, ElementOfSeq DEF Reports
    <3>2. new[i].heard = worker.heard
      BY <1>3
    <3> QED BY <2>2, <3>1, <3>2, CurrentWords
  <2> QED BY <1>3, <1>7, <2>1, <2>3, <2>4, ReportedCurrent DEF Reports
<1> QED BY <1>5, <1>6, <1>7

LEMMA RestartFlow ==
    ASSUME TypeInv, TypeInv', ErrorLast, WorkerRestart
    PROVE  Keeps(Pipe', Pipe) /\ ErrorLast' /\ (WordsCurrent /\ HeldCurrent => WordsCurrent' /\ HeldCurrent')
<1>1. /\ Head(cmdQ) \in Commands /\ Head(cmdQ) = cmdQ[1] /\ Head(cmdQ).type = "restart"
      /\ cmdQ # <<>> /\ cmdQ' = Tail(cmdQ) /\ worker.state = "idle" /\ WorkerKeeps
  BY CommandAhead DEF WorkerRestart, Command
<1>2. worker'.state = "idle" /\ worker'.heard = <<>>
  <2> DEFINE fresh == FreshStream
  <2>1. fresh.state = "idle" /\ fresh.heard = <<>> /\ fresh \in WorkerType
    BY <1>1, ClearedHeld DEF FreshStream, TypeInv, HeldOK, WorkerType
  <2>2. worker' = fresh \/ worker' = [fresh EXCEPT !.frontier = worker.frontier]
    BY DEF WorkerRestart
  <2> HIDE DEF fresh
  <2> QED BY <2>1, <2>2 DEF WorkerType
<1>3. PICK new : /\ Reports(new)
                 /\ \A i \in DOMAIN new : EventKind(new[i]) = "bar" /\ new[i].type # "words" /\ i = 1
  BY RestartReports
<1>4. Alive /\ Alive'
  BY <1>1, <1>2 DEF Alive, Lives
<1>5. Keeps(Pipe', Pipe)
  <2> DEFINE k == CommandKind(cmdQ[1])
  <2>1. k = "bar"
    BY <1>1 DEF CommandKind
  <2> HIDE DEF k
  <2>2. new \in Seq(EventType) /\ evQ' = evQ \o new
    BY <1>3 DEF Reports
  <2>3. /\ \A i \in DOMAIN new : EventKind(new[i]) \in {"none", k} \/ (EventKind(new[i]) = "text" /\ IsText(k))
        /\ \A i, j \in DOMAIN new : EventKind(new[i]) = EventKind(new[j]) => i = j \/ EventKind(new[i]) \notin {"bar", "end"}
        /\ HeldKind(worker') = "none" \/ IsText(k)
    BY <1>2, <1>3, <2>1 DEF HeldKind
  <2> QED BY <1>1, <1>4, <2>2, <2>3, CommandDone DEF k
<1>6. ErrorLast'
  BY <1>3, <1>4, ReportedErrors DEF Reports
<1>7. ASSUME WordsCurrent, HeldCurrent PROVE WordsCurrent' /\ HeldCurrent'
  <2>1. stream' = stream
    BY <1>1, WorkerKeepsAll
  <2>2. HeldCurrent'
    <3>1. \A k \in DOMAIN cmdQ' : cmdQ'[k].type = "feed" => cmdQ'[k].stream = stream
      BY <1>1, <1>4, <1>7, LaterCommands DEF HeldCurrent
    <3>2. \A k \in DOMAIN worker'.heard : worker'.heard[k].stream = stream
      BY <1>2
    <3> QED BY <2>1, <3>1, <3>2 DEF HeldCurrent
  <2> QED BY <1>3, <1>7, <2>1, <2>2, ReportedCurrent DEF Reports
<1> QED BY <1>5, <1>6, <1>7

\* An event that is neither text nor a marker of the streaming thread's.
LEMMA EventAdded ==
    ASSUME TypeInv, TypeInv', Alive, NEW ev \in EventType, EventKind(ev) = "none", evQ' = Append(evQ, ev),
           cmdQ' = cmdQ, worker'.heard = worker.heard
    PROVE  Keeps(Pipe', Pipe)
<1> DEFINE E == Len(evQ)
           C == Len(cmdQ)
           N == PipeLen
           M == PipeLen'
           p == Pipe
           q == Pipe'
           old == evQ
           cmds == cmdQ
           evs == Append(evQ, ev)
           v == worker
           w == worker'
<1>1. /\ old \in Seq(EventType) /\ cmds \in Seq(Commands) /\ evs \in Seq(EventType)
      /\ E \in Nat /\ C \in Nat /\ Len(old) = E /\ Len(cmds) = C
      /\ Len(evs) = E + 1 /\ evs[E + 1] = ev /\ \A i \in 1 .. E : evs[i] = old[i]
  BY PipeNow, AppendProperties
<1>2. p = PipeOf(old, cmds, v) /\ N = Items(old, cmds, v) /\ Lives(v)
  BY DEF Pipe, PipeLen, Alive
<1>3. q = PipeOf(evs, cmds, w) /\ M = Items(evs, cmds, w)
  BY DEF Pipe, PipeLen
<1>4. HeldKind(w) = HeldKind(v)
  BY DEF HeldKind
<1> HIDE DEF p, q, N, M, old, cmds, evs, v, w, E, C
<1>5. /\ N \in Nat /\ DOMAIN p = 1 .. N /\ N = Len(old) + 1 + Len(cmds)
      /\ \A i \in 1 .. Len(old) : p[i] = EventKind(old[i])
      /\ p[Len(old) + 1] = HeldKind(v)
      /\ \A i \in 1 .. Len(cmds) : p[Len(old) + 1 + i] = CommandKind(cmds[i])
  <2>1. old \in Seq(EventType) /\ cmds \in Seq(Commands)
    BY <1>1
  <2> QED BY <2>1, <1>2, PipeItems
<1>6. /\ M \in Nat /\ DOMAIN q = 1 .. M
      /\ \A i \in 1 .. Len(evs) : i \in 1 .. M /\ q[i] = EventKind(evs[i])
      /\ Lives(w) => /\ Len(evs) + 1 \in 1 .. M /\ q[Len(evs) + 1] = HeldKind(w)
                     /\ \A i \in 1 .. Len(cmds) :
                           Len(evs) + 1 + i \in 1 .. M /\ q[Len(evs) + 1 + i] = CommandKind(cmds[i])
      /\ \A i \in 1 .. M : \/ i \in 1 .. Len(evs)
                           \/ Lives(w) /\ i = Len(evs) + 1
                           \/ Lives(w) /\ \E j \in 1 .. Len(cmds) : i = Len(evs) + 1 + j
  <2>1. evs \in Seq(EventType) /\ cmds \in Seq(Commands)
    BY <1>1
  <2> QED BY <2>1, <1>3, PipeItems
<1> DEFINE m == [i \in 1 .. M |-> IF i <= E + 1 THEN i ELSE i - 1]
<1>7. \A i \in 1 .. M : m[i] = IF i <= E + 1 THEN i ELSE i - 1
  OBVIOUS
<1> HIDE DEF m
<1>8. ASSUME NEW i \in 1 .. M, q[i] # "none" PROVE m[i] \in 1 .. N /\ p[m[i]] = q[i] /\ i # E + 1
  <2>1. E + 1 \in 1 .. E + 1 /\ q[E + 1] = EventKind(evs[E + 1])
    BY <1>1, <1>6
  <2>2. i # E + 1
    BY <1>1, <1>8, <2>1
  <2>3. CASE i \in 1 .. Len(evs)
    <3>1. i \in 1 .. E /\ m[i] = i /\ i \in 1 .. N
      BY <1>1, <1>5, <1>7, <2>2, <2>3
    <3>2. q[i] = EventKind(evs[i]) /\ p[i] = EventKind(old[i]) /\ evs[i] = old[i]
      BY <1>1, <1>5, <1>6, <2>3, <3>1
    <3> QED BY <2>2, <3>1, <3>2
  <2>4. CASE Lives(w) /\ i = Len(evs) + 1
    <3>1. m[i] = E + 1 /\ E + 1 \in 1 .. N
      BY <1>1, <1>5, <1>7, <2>4
    <3> QED BY <1>1, <1>4, <1>5, <1>6, <2>2, <2>4, <3>1
  <2>5. ASSUME Lives(w), NEW j \in 1 .. Len(cmds), i = Len(evs) + 1 + j PROVE m[i] \in 1 .. N /\ p[m[i]] = q[i]
    <3>1. m[i] = E + 1 + j /\ E + 1 + j \in 1 .. N
      BY <1>1, <1>5, <1>7, <2>5
    <3>2. q[i] = CommandKind(cmds[j])
      BY <1>6, <2>5
    <3>3. p[E + 1 + j] = CommandKind(cmds[j])
      BY <1>1, <1>5
    <3> QED BY <3>1, <3>2, <3>3
  <2> QED BY <1>6, <2>2, <2>3, <2>4, <2>5
<1>9. \A i, j \in 1 .. M : i < j /\ i # E + 1 /\ j # E + 1 => m[i] < m[j] /\ m[i] <= m[j]
  BY <1>1, <1>7
<1>10. Thins(q, p, m)
  BY <1>5, <1>6, <1>8, <1>9 DEF Thins
<1>11. Keeps(q, p)
  BY <1>5, <1>6, <1>10, ThinKeeps
<1> QED BY <1>11 DEF p, q

LEMMA LoadsFlow ==
    ASSUME TypeInv, TypeInv', ErrorLast, WorkerLoads
    PROVE  Keeps(Pipe', Pipe) /\ ErrorLast' /\ (WordsCurrent /\ HeldCurrent => WordsCurrent' /\ HeldCurrent')
<1> DEFINE ev == [type |-> "ready"]
           new == <<ev>>
<1>1. ev \in EventType /\ ev.type = "ready" /\ evQ' = Append(evQ, ev)
  BY EventsMade DEF WorkerLoads
<1>2. EventKind(ev) = "none"
  BY DEF EventKind, Shown
<1> HIDE DEF ev
<1>3. /\ worker.state = "loading" /\ worker'.state = "idle" /\ worker'.heard = worker.heard /\ cmdQ' = cmdQ
      /\ WorkerKeeps
  BY DEF WorkerLoads, TypeInv, HeldOK, WorkerType
<1>4. Alive /\ Alive'
  BY <1>3 DEF Alive, Lives
<1>5. new \in Seq(EventType) /\ DOMAIN new = 1 .. 1 /\ new[1] = ev
  BY <1>1
<1>6. evQ' = evQ \o new
  BY <1>1, PipeNow, AppendIsConcat
<1> HIDE DEF new
<1>7. \A i \in DOMAIN new : new[i] = ev
  BY <1>5
<1>8. Keeps(Pipe', Pipe)
  BY <1>1, <1>2, <1>3, <1>4, EventAdded
<1>9. ErrorLast'
  BY <1>1, <1>4, <1>5, <1>6, <1>7, ReportedErrors
<1>10. ASSUME WordsCurrent, HeldCurrent PROVE WordsCurrent' /\ HeldCurrent'
  <2>1. stream' = stream
    BY <1>3, WorkerKeepsAll
  <2>2. HeldCurrent'
    BY <1>3, <1>4, <1>10, <2>1 DEF HeldCurrent
  <2> QED BY <1>1, <1>5, <1>6, <1>7, <1>10, <2>1, <2>2, ReportedCurrent
<1> QED BY <1>8, <1>9, <1>10

LEMMA FailsFlow ==
    ASSUME TypeInv, TypeInv', ErrorLast, WorkerFails
    PROVE  Keeps(Pipe', Pipe) /\ ErrorLast' /\ (WordsCurrent /\ HeldCurrent => WordsCurrent' /\ HeldCurrent')
<1> DEFINE ev == [type |-> "error"]
           new == <<ev>>
<1>1. ev \in EventType /\ ev.type = "error" /\ evQ' = Append(evQ, ev)
  BY EventsMade DEF WorkerFails
<1>2. EventKind(ev) = "none"
  BY DEF EventKind, Shown
<1> HIDE DEF ev
<1>3. worker.state # "dead" /\ worker'.state = "dead" /\ worker'.heard = worker.heard /\ cmdQ' = cmdQ /\ WorkerKeeps
  BY DEF WorkerFails, Command, TypeInv, HeldOK, WorkerType
<1>4. Alive /\ ~Alive'
  BY <1>3 DEF Alive, Lives
<1>5. new \in Seq(EventType) /\ DOMAIN new = 1 .. 1 /\ new[1] = ev
  BY <1>1
<1>6. evQ' = evQ \o new
  BY <1>1, PipeNow, AppendIsConcat
<1> HIDE DEF new
<1>7. \A i \in DOMAIN new : new[i] = ev
  BY <1>5
<1>8. Keeps(Pipe', Pipe)
  BY <1>1, <1>2, <1>3, <1>4, EventAdded
<1>9. ErrorLast'
  <2> DEFINE evs == Append(evQ, ev)
             E == Len(evQ)
  <2>1. /\ evs \in Seq(EventType) /\ E \in Nat /\ Len(evs) = E + 1
        /\ \A i \in 1 .. E : evs[i] = evQ[i] /\ evQ[i].type # "error"
    BY <1>1, <1>4, PipeNow, AppendProperties DEF ErrorLast
  <2>2. evQ' = evs
    BY <1>1
  <2>3. DOMAIN evs = 1 .. Len(evs)
    BY <2>1
  <2> HIDE DEF evs, E
  <2>4. \A i \in DOMAIN evs : evs[i].type = "error" => i = Len(evs)
    BY <2>1, <2>3
  <2> QED BY <1>4, <2>2, <2>4 DEF ErrorLast
<1>10. ASSUME WordsCurrent, HeldCurrent PROVE WordsCurrent' /\ HeldCurrent'
  <2>1. stream' = stream
    BY <1>3, WorkerKeepsAll
  <2>2. HeldCurrent'
    BY <1>4 DEF HeldCurrent
  <2> QED BY <1>1, <1>5, <1>6, <1>7, <1>10, <2>1, <2>2, ReportedCurrent
<1> QED BY <1>8, <1>9, <1>10

\* Whatever the worker does, no text overtakes a restart.
LEMMA WorkerFlow ==
    ASSUME TypeInv, TypeInv', ErrorLast, Worker \/ WorkerFails
    PROVE  /\ Keeps(Pipe', Pipe) /\ ErrorLast'
           /\ WordsCurrent /\ HeldCurrent => WordsCurrent' /\ HeldCurrent'
           /\ WorkerKeeps
<1>1. WorkerKeeps
  BY DEF Worker, WorkerLoads, WorkerFeed, WorkerFinalize, WorkerRestart, WorkerFails
<1> QED BY <1>1, LoadsFlow, FeedFlow, FinalizeFlow, RestartFlow, FailsFlow DEF Worker

-----------------------------------------------------------------------------
\* Where text and restarts stand in the pipe.  What has ended when the thread
\* starts no new timeline: upstream sends no audio, or a flush goes on.
Ahead == Has("flush_stop") \/ due # "data" \/ (Has("segment") /\ RestartDue)

\* A stream is under way: its words, its audio, and at most one restart, which
\* is awaited, or is not there yet, or is left by a handler that failed, with
\* all the text behind it.
Flowing ==
    base # NoTime =>
        /\ WordsCurrent /\ HeldCurrent /\ One(Pipe)
        /\ \/ AwaitsRestart /\ Sealed(Pipe)
           \/ RestartDue /\ ~EndDue /\ NoBar(Pipe)
           \/ sinkFlush /\ ~RestartDue /\ ~EndDue
           \/ /\ RestartDue => EndDue
              /\ FrontFree(Pipe)
              /\ IF AwaitsDrained THEN OneEnd(Pipe) ELSE NoEnd(Pipe)

\* A flush discards what lies in front of its own restart.
Flushed ==
    base = NoTime /\ Discarding =>
        IF AwaitsRestart THEN Two(Pipe) /\ LastSeals(Pipe) ELSE One(Pipe)

\* Otherwise no text is behind a restart, and none is left when audio comes.
Fresh ==
    base = NoTime /\ ~Discarding =>
        /\ Sealed(Pipe) /\ (IF AwaitsRestart THEN Two(Pipe) ELSE One(Pipe))
        /\ Empty(Pipe) \/ Ahead

\* A step that changes none of that.
LEMMA SameFlow ==
    ASSUME Flowing, Flushed, Fresh, base' = base, sinkFlush => sinkFlush', Keeps(Pipe', Pipe),
           WordsCurrent /\ HeldCurrent => WordsCurrent' /\ HeldCurrent',
           RestartDue' <=> RestartDue, AwaitsRestart' <=> AwaitsRestart,
           base = NoTime \/ ((EndDue' <=> EndDue) /\ (AwaitsDrained' <=> AwaitsDrained)),
           Discarding' <=> Discarding, Ahead => Ahead'
    PROVE  Flowing' /\ Flushed' /\ Fresh'
<1>1. Flowing'
  <2> SUFFICES ASSUME base # NoTime PROVE Flowing'
    BY DEF Flowing
  <2>1. WordsCurrent' /\ HeldCurrent' /\ One(Pipe')
    BY DEF Flowing, Keeps
  <2>2. \/ AwaitsRestart /\ Sealed(Pipe)
        \/ RestartDue /\ ~EndDue /\ NoBar(Pipe)
        \/ sinkFlush /\ ~RestartDue /\ ~EndDue
        \/ /\ RestartDue => EndDue
           /\ FrontFree(Pipe)
           /\ IF AwaitsDrained THEN OneEnd(Pipe) ELSE NoEnd(Pipe)
    BY DEF Flowing
  <2>3. \/ AwaitsRestart' /\ Sealed(Pipe')
        \/ RestartDue' /\ ~EndDue' /\ NoBar(Pipe')
        \/ sinkFlush' /\ ~RestartDue' /\ ~EndDue'
        \/ /\ RestartDue' => EndDue'
           /\ FrontFree(Pipe')
           /\ IF AwaitsDrained' THEN OneEnd(Pipe') ELSE NoEnd(Pipe')
    BY <2>2 DEF Keeps
  <2> QED BY <2>1, <2>3 DEF Flowing
<1>2. Flushed'
  BY DEF Flushed, Keeps
<1>3. Fresh'
  BY DEF Fresh, Keeps
<1> QED BY <1>1, <1>2, <1>3

\* A call that failed because the worker is gone leaves nothing behind.
LEMMA EmptiedFlow ==
    ASSUME TypeInv, TypeInv', HandlerOK, NEW n \in Nat \ {0}, Dropped(n), evQ' = <<>>, ~Alive'
    PROVE  Flowing' /\ Flushed' /\ Fresh'
<1>1. ~EndDue' /\ ~AwaitsRestart' /\ ~AwaitsDrained'
  BY DroppedDue
<1>2. /\ \A i \in DOMAIN evQ' : FALSE
      /\ NoBar(Pipe') /\ One(Pipe') /\ Two(Pipe') /\ NoEnd(Pipe') /\ OneEnd(Pipe') /\ Empty(Pipe')
      /\ Sealed(Pipe') /\ LastSeals(Pipe') /\ FrontFree(Pipe')
  BY PipeStopped
<1>3. WordsCurrent' /\ HeldCurrent'
  BY <1>2 DEF WordsCurrent, HeldCurrent
<1>4. Flowing'
  BY <1>1, <1>2, <1>3 DEF Flowing
<1>5. Flushed' /\ Fresh'
  BY <1>1, <1>2 DEF Flushed, Fresh
<1> QED BY <1>4, <1>5

\* What the head of a handler says of the rest.
LEMMA HeadDue ==
    ASSUME TypeInv, HandlerOK, todo # <<>>
    PROVE  /\ ~Ending(todo[1]) => ~EndDue /\ ~AwaitsDrained
           /\ ~Restarting(todo[1]) => ~AwaitsRestart
           /\ Restarting(todo[1]) \/ todo[1].op \notin {"finalize", "bridge", "plan_gap", "await"} =>
                 \A j \in DOMAIN todo : Restarting(todo[j]) => j = 1
           /\ ~Restarting(todo[1]) /\ todo[1].op # "flush_stop" => ~Discarding /\ ~Has("flush_stop")
           /\ todo[1].op = "flush_stop" => Len(todo) = 1
           /\ 1 \in DOMAIN todo /\ Head(todo) = todo[1] /\ todo[1] \in StepType
<1>1. 1 \in DOMAIN todo /\ Len(todo) \in Nat \ {0} /\ DOMAIN todo = 1 .. Len(todo) /\ Head(todo) = todo[1]
      /\ todo[1] \in StepType
  BY HeadOfTodo DEF TypeInv
<1> DEFINE n == Len(todo)
           D == DOMAIN todo
<1>2. 1 \in D /\ n \in Nat \ {0} /\ D = 1 .. n
  BY <1>1
<1> HIDE DEF n, D
<1>3. \A i \in D : i # 1 => i > 1 /\ 1 < i
  BY <1>2
<1>4. 1 = n \/ 1 < n
  BY <1>2
<1>5. ~Ending(todo[1]) => ~EndDue /\ ~AwaitsDrained
  <2> SUFFICES ASSUME ~Ending(todo[1]) PROVE ~EndDue /\ ~AwaitsDrained
    OBVIOUS
  <2>1. ~AwaitsDrained
    BY DEF AwaitsDrained, Ending
  <2>2. \A i \in D : ~Ending(todo[i])
    BY <1>3 DEF HandlerOK, Ending, D
  <2> QED BY <2>1, <2>2 DEF EndDue, D
<1>6. ~Restarting(todo[1]) => ~AwaitsRestart
  BY DEF AwaitsRestart, Restarting
<1>7. ASSUME Restarting(todo[1]) \/ todo[1].op \notin {"finalize", "bridge", "plan_gap", "await"},
             NEW j \in DOMAIN todo, Restarting(todo[j]), j # 1
      PROVE  FALSE
  <2>1. 1 < j
    BY <1>3, <1>7 DEF D
  <2>2. todo[1].op \in {"finalize", "bridge", "plan_gap"} \/ Ending(todo[1])
    BY <1>1, <1>7, <2>1 DEF HandlerOK
  <2> QED BY <1>1, <1>7, <2>2, StepFields DEF Restarting, Ending
<1>8. ASSUME Has("flush_stop") \/ Discarding
      PROVE  /\ todo[1].op = "flush_stop" => n = 1
             /\ Restarting(todo[1]) \/ todo[1].op = "flush_stop"
  <2>1. /\ \A i \in DOMAIN todo : todo[i].op = "flush_stop" <=> i = Len(todo)
        /\ \A i \in DOMAIN todo : i < Len(todo) => Restarting(todo[i]) /\ todo[i].discard
    BY <1>8 DEF HandlerOK
  <2>2. (todo[1].op = "flush_stop" <=> 1 = n) /\ (1 < n => Restarting(todo[1]))
    BY <1>1, <2>1 DEF n
  <2> QED BY <1>4, <2>2
<1>9. todo[1].op = "flush_stop" => Has("flush_stop")
  BY <1>1 DEF Has
<1> QED BY <1>1, <1>5, <1>6, <1>7, <1>8, <1>9 DEF n

LEMMA StepDone ==
    ASSUME TypeInv, todo # <<>>, todo' = Tail(todo)
    PROVE  /\ Dropped(1)
           /\ ~Restarting(todo[1]) => (RestartDue' <=> RestartDue)
           /\ \A op : todo[1].op # op => (Has(op)' <=> Has(op))
<1>1. Dropped(1) /\ DOMAIN todo = 1 .. Len(todo) /\ Len(todo) \in Nat \ {0}
  BY HeadOfTodo DEF TypeInv
<1>2. \A i \in DOMAIN todo' : 1 + i \in DOMAIN todo /\ todo'[i] = todo[1 + i]
  BY <1>1, DroppedItems DEF TypeInv
<1>3. \A j \in DOMAIN todo : j # 1 => \E i \in DOMAIN todo' : todo'[i] = todo[j]
  <2> SUFFICES ASSUME NEW j \in DOMAIN todo, j # 1 PROVE \E i \in DOMAIN todo' : todo'[i] = todo[j]
    OBVIOUS
  <2> DEFINE i == j - 1
             n == Len(todo)
  <2>1. DOMAIN todo' = 1 .. n - 1 /\ todo' \in Seq(StepType) /\ \A k \in 1 .. Len(todo') : todo'[k] = todo[1 + k]
    BY <1>1 DEF Dropped
  <2>2. Len(todo') = n - 1
    BY <1>1 DEF Dropped
  <2>3. n \in Nat \ {0} /\ j \in 1 .. n
    BY <1>1
  <2> HIDE DEF n
  <2>4. i \in 1 .. n - 1 /\ 1 + i = j
    BY <2>3
  <2> HIDE DEF i
  <2>5. todo'[i] = todo[1 + i]
    BY <2>1, <2>2, <2>4
  <2> QED BY <2>1, <2>4, <2>5
<1>4. ~Restarting(todo[1]) => (RestartDue' <=> RestartDue)
  BY <1>2, <1>3 DEF RestartDue
<1>5. \A op : todo[1].op # op => (Has(op)' <=> Has(op))
  BY <1>2, <1>3 DEF Has
<1> QED BY <1>1, <1>4, <1>5

\* A step that neither ends nor restarts the stream.
LEMMA PlainFlow ==
    ASSUME TypeInv, TypeInv', HandlerOK, Flowing, Flushed, Fresh,
           todo # <<>>, todo' = Tail(todo), ~Restarting(todo[1]), todo[1].op # "flush_stop",
           Ending(todo[1]) => base = NoTime,
           base' = base, due' = due, sinkFlush' = sinkFlush, Keeps(Pipe', Pipe),
           WordsCurrent /\ HeldCurrent => WordsCurrent' /\ HeldCurrent'
    PROVE  HandlerOK' /\ Flowing' /\ Flushed' /\ Fresh'
<1>1. /\ Dropped(1)
      /\ RestartDue' <=> RestartDue
      /\ \A op : todo[1].op # op => (Has(op)' <=> Has(op))
  BY StepDone
<1>2. /\ Ending(todo[1]) \/ (~EndDue /\ ~AwaitsDrained)
      /\ ~AwaitsRestart /\ ~Discarding /\ ~Has("flush_stop")
      /\ 1 \in DOMAIN todo /\ todo[1] \in StepType
  BY HeadDue
<1>3. ~EndDue' /\ ~AwaitsRestart' /\ ~AwaitsDrained' /\ (Discarding' => Discarding)
  BY <1>1, DroppedDue
<1>4. Ahead => Ahead'
  <2> SUFFICES ASSUME Has("segment"), RestartDue PROVE Has("segment")' /\ RestartDue'
    BY <1>2 DEF Ahead
  <2>1. todo[1].op # "segment"
    <3> SUFFICES ASSUME todo[1].op = "segment" PROVE FALSE
      OBVIOUS
    <3>1. \A j \in DOMAIN todo : Restarting(todo[j]) => j = 1
      BY HeadDue
    <3> QED BY <3>1 DEF RestartDue
  <2> QED BY <1>1, <2>1
<1>5. HandlerOK'
  BY <1>1, DropHandler
<1>6. Flowing' /\ Flushed' /\ Fresh'
  BY <1>1, <1>2, <1>3, <1>4, SameFlow
<1> QED BY <1>5, <1>6

\* A step of no handler: what is left to do stays.
LEMMA OtherFlow ==
    ASSUME TypeInv, HandlerOK, Flowing, Flushed, Fresh,
           todo' = todo, base' = base, due' = due, sinkFlush => sinkFlush', Keeps(Pipe', Pipe),
           WordsCurrent /\ HeldCurrent => WordsCurrent' /\ HeldCurrent'
    PROVE  HandlerOK' /\ Flowing' /\ Flushed' /\ Fresh'
<1>1. /\ RestartDue' <=> RestartDue
      /\ EndDue' <=> EndDue
      /\ AwaitsRestart' <=> AwaitsRestart
      /\ AwaitsDrained' <=> AwaitsDrained
      /\ Discarding' <=> Discarding
      /\ Ahead <=> Ahead'
  BY DEF RestartDue, EndDue, AwaitsRestart, AwaitsDrained, Discarding, Ahead, Has
<1>2. HandlerOK'
  BY SameHandler DEF TypeInv, ElementOK
<1>3. Flowing' /\ Flushed' /\ Fresh'
  BY <1>1, SameFlow
<1> QED BY <1>2, <1>3

\* What stays current when the channels do, and when an event is taken.
LEMMA ChannelsCurrent ==
    ASSUME evQ' = evQ, cmdQ' = cmdQ, worker' = worker, stream' = stream
    PROVE  /\ WordsCurrent => WordsCurrent'
           /\ WordsCurrent /\ HeldCurrent => WordsCurrent' /\ HeldCurrent'
           /\ Keeps(Pipe', Pipe)
           /\ ErrorLast => ErrorLast'
<1>1. WordsCurrent => WordsCurrent'
  BY DEF WordsCurrent, ShowsCurrent
<1>2. HeldCurrent => HeldCurrent'
  BY DEF HeldCurrent, Alive
<1>3. ErrorLast => ErrorLast'
  BY DEF ErrorLast, Alive
<1> QED BY <1>1, <1>2, <1>3, PipeKept

LEMMA TakenCurrent ==
    ASSUME TypeInv, evQ # <<>>, evQ' = Tail(evQ), cmdQ' = cmdQ, worker' = worker
    PROVE  /\ stream' = stream /\ WordsCurrent => WordsCurrent'
           /\ stream' = stream /\ WordsCurrent /\ HeldCurrent => WordsCurrent' /\ HeldCurrent'
           /\ ErrorLast => ErrorLast'
<1> DEFINE old == evQ
           evs == Tail(evQ)
           E == Len(old)
<1>1. old \in Seq(EventType) /\ old # <<>>
  BY PipeNow
<1>2. evs \in Seq(EventType) /\ E \in Nat \ {0} /\ Len(evs) = E - 1 /\ \A i \in 1 .. E - 1 : evs[i] = old[i + 1]
  BY <1>1, HeadTailProperties, EmptySeq
<1>3. DOMAIN old = 1 .. E
  BY <1>1
<1> HIDE DEF evs, old, E
<1>4. /\ \A i \in DOMAIN evs : i + 1 \in DOMAIN old /\ evs[i] = old[i + 1]
      /\ \A i \in DOMAIN evs : i + 1 = Len(old) => i = Len(evs)
  <2>1. DOMAIN evs = 1 .. E - 1
    BY <1>2
  <2> QED BY <1>2, <1>3, <2>1 DEF E
<1>5. ASSUME stream' = stream, WordsCurrent PROVE WordsCurrent'
  <2>1. \A i \in DOMAIN evs : evs[i].type = "words" => ShowsCurrent(evs[i])
    BY <1>4, <1>5 DEF WordsCurrent, old
  <2> QED BY <1>5, <2>1 DEF WordsCurrent, ShowsCurrent, evs
<1>6. ASSUME stream' = stream, HeldCurrent PROVE HeldCurrent'
  BY <1>6 DEF HeldCurrent, Alive
<1>7. ASSUME ErrorLast PROVE ErrorLast'
  <2>1. \A i \in DOMAIN evs : evs[i].type = "error" => i = Len(evs) /\ ~Alive
    BY <1>4, <1>7 DEF ErrorLast, old
  <2> QED BY <2>1 DEF ErrorLast, Alive, evs
<1> QED BY <1>5, <1>6, <1>7

-----------------------------------------------------------------------------
\* Sending to the worker.
Piped == HandlerOK /\ ErrorLast /\ Flowing /\ Flushed /\ Fresh

\* The call fails, and what the worker left is thrown away.
LEMMA FailedCall ==
    ASSUME TypeInv, TypeInv', Piped, Abandon, evQ' = <<>>, ~Alive, worker' = worker,
           base' = base, due' = due, sinkFlush' = sinkFlush
    PROVE  Piped'
<1>1. PICK n \in 1 .. Len(todo) : Dropped(n)
  BY AbandonDrops DEF TypeInv
<1>2. n \in Nat \ {0}
  BY <1>1, HeadOfTodo DEF TypeInv
<1>3. HandlerOK'
  BY <1>1, <1>2, DropHandler DEF Piped
<1>4. ~Alive'
  BY DEF Alive
<1>5. Flowing' /\ Flushed' /\ Fresh'
  BY <1>1, <1>2, <1>4, EmptiedFlow DEF Piped
<1>6. ErrorLast'
  BY DEF ErrorLast
<1> QED BY <1>3, <1>5, <1>6 DEF Piped

LEMMA SentErrors ==
    ASSUME ErrorLast, evQ' = evQ, worker' = worker
    PROVE  ErrorLast'
BY DEF ErrorLast, Alive

\* A command that feeds no audio of another stream.
LEMMA SentCurrent ==
    ASSUME TypeInv, evQ' = evQ, worker' = worker, stream' = stream, NEW cmd \in Commands,
           cmdQ' = Append(cmdQ, cmd), cmd.type = "feed" => cmd.stream = stream
    PROVE  WordsCurrent /\ HeldCurrent => WordsCurrent' /\ HeldCurrent'
<1> DEFINE cmds == cmdQ
           more == Append(cmdQ, cmd)
           C == Len(cmds)
<1>1. /\ cmds \in Seq(Commands) /\ more \in Seq(Commands) /\ C \in Nat /\ Len(more) = C + 1
      /\ more[C + 1] = cmd /\ \A i \in 1 .. C : more[i] = cmds[i]
  BY PipeNow, AppendProperties
<1>2. DOMAIN cmds = 1 .. C
  BY <1>1
<1> HIDE DEF cmds, more, C
<1>3. \A k \in DOMAIN more : (k \in DOMAIN cmds /\ more[k] = cmds[k]) \/ more[k] = cmd
  <2>1. DOMAIN more = 1 .. C + 1
    BY <1>1
  <2>2. \A k \in 1 .. C + 1 : k \in 1 .. C \/ k = C + 1
    BY <1>1
  <2> QED BY <1>1, <1>2, <2>1, <2>2
<1>4. ASSUME HeldCurrent PROVE HeldCurrent'
  <2>1. Alive => \A k \in DOMAIN more : more[k].type = "feed" => more[k].stream = stream
    BY <1>3, <1>4 DEF HeldCurrent, cmds
  <2> QED BY <1>4, <2>1 DEF HeldCurrent, Alive, more
<1>5. WordsCurrent => WordsCurrent'
  BY DEF WordsCurrent, ShowsCurrent
<1> QED BY <1>4, <1>5

LEMMA DoFinalizeFlow ==
    ASSUME TypeInv, TypeInv', Piped, DoFinalize
    PROVE  Piped'
<1>1. /\ todo # <<>> /\ todo[1].op = "finalize" /\ todo[1] \in StepType /\ Head(todo) = todo[1]
      /\ base' = base /\ stream' = stream /\ due' = due /\ sinkFlush' = sinkFlush /\ worker' = worker
  BY HeadDue DEF DoFinalize, Doing, Quiet, element, state, Piped
<1>2. Ending(todo[1]) /\ ~Restarting(todo[1])
  BY <1>1 DEF Ending, Restarting
<1>3. CASE base = NoTime
  <2>1. todo' = Tail(todo) /\ evQ' = evQ /\ cmdQ' = cmdQ
    BY <1>3 DEF DoFinalize, channels
  <2>2. /\ WordsCurrent /\ HeldCurrent => WordsCurrent' /\ HeldCurrent'
        /\ Keeps(Pipe', Pipe) /\ ErrorLast'
    BY <1>1, <2>1, ChannelsCurrent DEF Piped
  <2> QED BY <1>1, <1>2, <1>3, <2>1, <2>2, PlainFlow DEF Piped
<1> DEFINE wait == Await("drained", Head(todo).scope, FALSE)
           cmd == [type |-> "finalize"]
<1>4. base # NoTime => SendOrFail(cmd, <<wait>>)
  BY DEF DoFinalize
<1>5. wait \in StepType /\ wait.op = "await" /\ wait.marker = "drained"
  BY <1>1, StepFields, StepsMade DEF Await
<1>6. cmd \in Commands /\ cmd.type = "finalize" /\ CommandKind(cmd) = "end"
  BY DEF Commands, CommandKind
<1> HIDE DEF wait, cmd
<1>7. CASE base # NoTime /\ worker.state = "dead"
  <2>1. Abandon /\ evQ' = <<>> /\ ~Alive
    BY <1>4, <1>7 DEF SendOrFail, Alive, Lives
  <2> QED BY <1>1, <2>1, FailedCall
<1>8. CASE base # NoTime /\ worker.state # "dead"
  <2>1. evQ' = evQ /\ cmdQ' = Append(cmdQ, cmd) /\ todo' = <<wait>> \o Tail(todo) /\ Alive
    BY <1>4, <1>8 DEF SendOrFail, Alive, Lives
  <2>2. Answers(wait, todo[1])
    BY <1>1, <1>5 DEF Answers
  <2>3. HandlerOK'
    BY <1>1, <1>5, <2>1, <2>2, SentHandler DEF Piped
  <2>4. Grown(Pipe', Pipe, PipeLen, "end") /\ PipeLen \in Nat
    BY <1>1, <1>6, <2>1, CommandSent
  <2>5. /\ One(Pipe) => One(Pipe')
        /\ FrontFree(Pipe) => FrontFree(Pipe')
        /\ NoEnd(Pipe) => OneEnd(Pipe')
    BY <2>4, GrownByText
  <2>6. (RestartDue' <=> RestartDue) /\ EndDue' /\ AwaitsDrained'
    <3>1. EndDue
      BY <1>1, <1>2, HeadDue DEF EndDue, Piped
    <3> QED BY <1>1, <1>5, <2>1, <2>2, <3>1, SentDue
  <2>7. ~AwaitsRestart /\ ~AwaitsDrained /\ EndDue
    BY <1>1, <1>2, HeadDue DEF AwaitsRestart, AwaitsDrained, EndDue, Piped
  <2>8. WordsCurrent /\ HeldCurrent /\ One(Pipe) /\ FrontFree(Pipe) /\ NoEnd(Pipe)
    BY <1>8, <2>7 DEF Flowing, Piped
  <2>9. WordsCurrent' /\ HeldCurrent'
    BY <1>1, <1>6, <2>1, <2>8, SentCurrent
  <2>10. Flowing'
    BY <2>5, <2>6, <2>8, <2>9 DEF Flowing
  <2>11. Flushed' /\ Fresh'
    BY <1>1, <1>8 DEF Flushed, Fresh
  <2>12. ErrorLast'
    BY <1>1, <2>1, SentErrors DEF Piped
  <2> QED BY <2>3, <2>10, <2>11, <2>12 DEF Piped
<1> QED BY <1>3, <1>7, <1>8

LEMMA DoRestartFlow ==
    ASSUME TypeInv, TypeInv', Piped, DoRestart
    PROVE  Piped'
<1>1. /\ todo # <<>> /\ todo[1].op = "restart" /\ todo[1] \in StepType /\ Head(todo) = todo[1]
      /\ base' = base /\ stream' = stream /\ due' = due /\ sinkFlush' = sinkFlush /\ worker' = worker
  BY HeadDue DEF DoRestart, Doing, Quiet, element, state, Piped
<1>2. ~Ending(todo[1]) /\ Restarting(todo[1])
  BY <1>1 DEF Ending, Restarting
<1> DEFINE wait == Await("restarted", Head(todo).scope, Head(todo).discard)
           cmd == [type |-> "restart"]
<1>4. SendOrFail(cmd, <<wait>>)
  BY DEF DoRestart
<1>5. wait \in StepType /\ wait.op = "await" /\ wait.marker = "restarted" /\ wait.discard = todo[1].discard
  BY <1>1, StepFields, StepsMade DEF Await
<1>6. cmd \in Commands /\ cmd.type = "restart" /\ CommandKind(cmd) = "bar"
  BY DEF Commands, CommandKind
<1> HIDE DEF wait, cmd
<1>7. CASE worker.state = "dead"
  <2>1. Abandon /\ evQ' = <<>> /\ ~Alive
    BY <1>4, <1>7 DEF SendOrFail, Alive, Lives
  <2> QED BY <1>1, <2>1, FailedCall
<1>8. CASE worker.state # "dead"
  <2>1. evQ' = evQ /\ cmdQ' = Append(cmdQ, cmd) /\ todo' = <<wait>> \o Tail(todo) /\ Alive
    BY <1>4, <1>8 DEF SendOrFail, Alive, Lives
  <2>2. Answers(wait, todo[1])
    BY <1>1, <1>5 DEF Answers
  <2>3. HandlerOK'
    BY <1>1, <1>5, <2>1, <2>2, SentHandler DEF Piped
  <2>4. Grown(Pipe', Pipe, PipeLen, "bar") /\ PipeLen \in Nat
    BY <1>1, <1>6, <2>1, CommandSent
  <2>5. /\ NoBar(Pipe) => One(Pipe') /\ Sealed(Pipe')
        /\ One(Pipe) => Two(Pipe') /\ LastSeals(Pipe')
        /\ Sealed(Pipe) => Sealed(Pipe')
        /\ Empty(Pipe) => Empty(Pipe')
    BY <2>4, GrownByBar
  <2>6. /\ RestartDue' <=> RestartDue
        /\ Discarding' <=> Discarding
        /\ AwaitsRestart'
        /\ Has("segment")' <=> Has("segment")
        /\ Has("flush_stop")' <=> Has("flush_stop")
    BY <1>1, <1>5, <2>1, <2>2, SentDue
  <2>7. ~AwaitsRestart /\ ~AwaitsDrained /\ ~EndDue /\ RestartDue
    BY <1>1, <1>2, HeadDue DEF AwaitsRestart, AwaitsDrained, RestartDue, Piped
  <2>8. Flowing'
    <3> SUFFICES ASSUME base # NoTime PROVE Flowing'
      BY <1>1 DEF Flowing
    <3>1. WordsCurrent /\ HeldCurrent /\ NoBar(Pipe)
      BY <2>7 DEF Flowing, Piped
    <3>2. WordsCurrent' /\ HeldCurrent'
      BY <1>1, <1>6, <2>1, <3>1, SentCurrent
    <3> QED BY <2>5, <2>6, <3>1, <3>2 DEF Flowing
  <2>9. Flushed'
    BY <1>1, <2>5, <2>6, <2>7 DEF Flushed, Piped
  <2>10. Ahead => Ahead'
    BY <1>1, <2>6 DEF Ahead
  <2>11. Fresh'
    BY <1>1, <2>5, <2>6, <2>7, <2>10 DEF Fresh, Piped
  <2>12. ErrorLast'
    BY <1>1, <2>1, SentErrors DEF Piped
  <2> QED BY <2>3, <2>8, <2>9, <2>11, <2>12 DEF Piped
<1> QED BY <1>7, <1>8

LEMMA DoFeedFlow ==
    ASSUME TypeInv, TypeInv', Piped, DoFeed
    PROVE  Piped'
<1>1. /\ todo # <<>> /\ todo[1].op = "feed" /\ todo[1] \in StepType /\ Head(todo) = todo[1] /\ 1 \in DOMAIN todo
      /\ base' = base /\ stream' = stream /\ due' = due /\ sinkFlush' = sinkFlush /\ worker' = worker
  BY HeadDue DEF DoFeed, Doing, Quiet, element, Piped
<1>2. ~Ending(todo[1]) /\ ~Restarting(todo[1])
  BY <1>1 DEF Ending, Restarting
<1> DEFINE cmd == [type |-> "feed", len |-> Head(todo).len, from |-> Head(todo).from, stream |-> stream]
<1>3. \/ todo' = Tail(todo) /\ UNCHANGED channels
      \/ SendOrFail(cmd, <<>>)
  BY DEF DoFeed
<1>4. cmd \in Commands /\ cmd.type = "feed" /\ CommandKind(cmd) = "text" /\ cmd.stream = stream
  BY <1>1, StepFields DEF Commands, CommandKind, TypeInv, ObservedOK
<1> HIDE DEF cmd
<1>5. CASE todo' = Tail(todo) /\ UNCHANGED channels
  <2>1. evQ' = evQ /\ cmdQ' = cmdQ
    BY <1>5 DEF channels
  <2>2. /\ WordsCurrent /\ HeldCurrent => WordsCurrent' /\ HeldCurrent'
        /\ Keeps(Pipe', Pipe) /\ ErrorLast'
    BY <1>1, <2>1, ChannelsCurrent DEF Piped
  <2> QED BY <1>1, <1>2, <1>5, <2>2, PlainFlow DEF Piped
<1>6. CASE SendOrFail(cmd, <<>>) /\ worker.state = "dead"
  <2>1. Abandon /\ evQ' = <<>> /\ ~Alive
    BY <1>6 DEF SendOrFail, Alive, Lives
  <2> QED BY <1>1, <2>1, FailedCall
<1>7. CASE SendOrFail(cmd, <<>>) /\ worker.state # "dead"
  <2>1. evQ' = evQ /\ cmdQ' = Append(cmdQ, cmd) /\ todo' = <<>> \o Tail(todo) /\ Alive
    BY <1>7 DEF SendOrFail, Alive, Lives
  <2>2. todo' = Tail(todo)
    <3>1. Tail(todo) \in Seq(StepType)
      BY <1>1, HeadTailProperties DEF TypeInv
    <3> QED BY <2>1, <3>1, ConcatEmptySeq
  <2>3. Dropped(1) /\ (RestartDue' <=> RestartDue)
    BY <1>1, <1>2, <2>2, StepDone
  <2>4. HandlerOK'
    BY <1>1, <2>3, DropHandler DEF Piped
  <2>5. Grown(Pipe', Pipe, PipeLen, "text") /\ PipeLen \in Nat
    BY <1>1, <1>4, <2>1, CommandSent
  <2>6. /\ One(Pipe) => One(Pipe')
        /\ FrontFree(Pipe) => FrontFree(Pipe')
        /\ NoEnd(Pipe) => NoEnd(Pipe')
    BY <2>5, GrownByText
  <2>7. base # NoTime /\ ~RestartDue
    BY <1>1 DEF Piped, HandlerOK, Has
  <2>8. ~EndDue /\ ~AwaitsDrained /\ ~AwaitsRestart
    BY <1>1, <1>2, HeadDue DEF Piped
  <2>9. ~EndDue' /\ ~AwaitsRestart' /\ ~AwaitsDrained'
    BY <2>3, DroppedDue DEF Piped
  <2>10. WordsCurrent /\ HeldCurrent /\ One(Pipe) /\ (sinkFlush \/ (FrontFree(Pipe) /\ NoEnd(Pipe)))
    BY <2>7, <2>8 DEF Flowing, Piped
  <2>11. WordsCurrent' /\ HeldCurrent'
    BY <1>1, <1>4, <2>1, <2>10, SentCurrent
  <2>12. Flowing'
    BY <1>1, <2>3, <2>6, <2>7, <2>9, <2>10, <2>11 DEF Flowing
  <2>13. Flushed' /\ Fresh'
    BY <1>1, <2>7 DEF Flushed, Fresh
  <2>14. ErrorLast'
    BY <1>1, <2>1, SentErrors DEF Piped
  <2> QED BY <2>4, <2>12, <2>13, <2>14 DEF Piped
<1> QED BY <1>3, <1>5, <1>6, <1>7

-----------------------------------------------------------------------------
\* Steps that leave the channels alone.

LEMMA ForwardFlow ==
    ASSUME TypeInv, TypeInv', Piped, todo # <<>>, todo' = Tail(todo),
           todo[1].op \notin {"finalize", "restart", "await", "flush_stop"},
           evQ' = evQ, cmdQ' = cmdQ, worker' = worker, stream' = stream,
           base' = base, due' = due, sinkFlush' = sinkFlush
    PROVE  Piped'
<1>1. ~Ending(todo[1]) /\ ~Restarting(todo[1])
  BY DEF Ending, Restarting
<1>2. /\ WordsCurrent /\ HeldCurrent => WordsCurrent' /\ HeldCurrent'
      /\ Keeps(Pipe', Pipe) /\ ErrorLast'
  BY ChannelsCurrent DEF Piped
<1> QED BY <1>1, <1>2, PlainFlow DEF Piped

LEMMA QuietSteps ==
    ASSUME TypeInv, TypeInv', Piped,
           DoBridge \/ Withhold \/ DoInputGap \/ ForwardSegment \/ ForwardEos \/ DrainEnds
    PROVE  Piped'
<1>1. /\ todo # <<>> /\ Head(todo).op \in {"bridge", "enter", "input_gap", "segment", "eos", "drain"}
      /\ todo' = Tail(todo)
  BY DEF DoBridge, Withhold, DoInputGap, ForwardSegment, ForwardEos, Forward, DrainEnds, Doing
<1>2. evQ' = evQ /\ cmdQ' = cmdQ /\ worker' = worker
  BY DEF DoBridge, Withhold, DoInputGap, ForwardSegment, ForwardEos, Forward, DrainEnds, channels
<1>3. stream' = stream /\ base' = base
  BY DEF DoBridge, Withhold, DoInputGap, ForwardSegment, ForwardEos, Forward, DrainEnds, state, Quiet
<1>4. due' = due /\ sinkFlush' = sinkFlush
  BY DEF DoBridge, Withhold, DoInputGap, ForwardSegment, ForwardEos, DrainEnds, element
<1>5. Head(todo) = todo[1]
  BY <1>1, HeadOfTodo DEF TypeInv
<1> QED BY <1>1, <1>2, <1>3, <1>4, <1>5, ForwardFlow

\* The end of a flush: what upstream must send next is not audio.
LEMMA FlushStopEnds ==
    ASSUME TypeInv, TypeInv', Piped, ForwardFlushStop
    PROVE  Piped'
<1>1. /\ todo # <<>> /\ todo[1].op = "flush_stop" /\ todo' = Tail(todo) /\ due' # "data"
      /\ base' = base /\ stream' = stream /\ evQ' = evQ /\ cmdQ' = cmdQ /\ worker' = worker
      /\ 1 \in DOMAIN todo /\ Len(todo) = 1
  BY HeadDue DEF ForwardFlushStop, Forward, Doing, state, channels, Piped
<1>2. todo' = <<>>
  <2>1. todo' \in Seq(StepType) /\ Len(todo') = Len(todo) - 1
    BY <1>1, HeadOfTodo DEF TypeInv, Dropped
  <2>2. Len(todo') = 0
    BY <1>1, <2>1
  <2> QED BY <2>1, <2>2, EmptySeq
<1>3. HandlerOK' /\ ~Discarding' /\ ~AwaitsRestart'
  BY <1>2, EmptyHandler
<1>4. base = NoTime
  BY <1>1 DEF Piped, HandlerOK, Has
<1>5. ~Discarding /\ ~AwaitsRestart
  <2>1. ~Restarting(todo[1])
    BY <1>1 DEF Restarting
  <2>2. \A i \in DOMAIN todo : i = 1
    BY <1>1 DEF TypeInv
  <2> QED BY <2>1, <2>2, HeadDue, <1>1 DEF Discarding, Piped
<1>6. Keeps(Pipe', Pipe) /\ ErrorLast'
  BY <1>1, ChannelsCurrent DEF Piped
<1>7. Sealed(Pipe') /\ One(Pipe')
  BY <1>4, <1>5, <1>6 DEF Fresh, Piped, Keeps
<1>8. Flowing' /\ Flushed' /\ Fresh'
  BY <1>1, <1>3, <1>4, <1>7 DEF Flowing, Flushed, Fresh, Ahead
<1> QED BY <1>3, <1>6, <1>8 DEF Piped

\* A planned GAP joins the end of its handler.
LEMMA PlanGapHandler ==
    ASSUME TypeInv, HandlerOK, DoPlanGap
    PROVE  /\ todo # <<>> /\ stream' = stream /\ base' = base /\ due' = due /\ sinkFlush' = sinkFlush
           /\ evQ' = evQ /\ cmdQ' = cmdQ /\ worker' = worker /\ cancel' = cancel
           /\ ~EndDue /\ ~AwaitsDrained /\ ~AwaitsRestart /\ ~Discarding /\ ~Has("flush_stop")
           /\ ~EndDue' /\ ~AwaitsDrained' /\ ~AwaitsRestart'
           /\ RestartDue' <=> RestartDue
           /\ Discarding' => Discarding
           /\ Has("segment") => Has("segment")'
           /\ HandlerOK'
           /\ todo[1].op = "plan_gap"
           /\ \A i \in DOMAIN todo' : todo'[i].op # "input_gap" => i + 1 \in DOMAIN todo /\ todo'[i] = todo[i + 1]
<1>1. /\ todo # <<>> /\ todo[1].op = "plan_gap" /\ Head(todo) = todo[1] /\ 1 \in DOMAIN todo
      /\ base' = base /\ stream' = stream /\ due' = due /\ sinkFlush' = sinkFlush
      /\ evQ' = evQ /\ cmdQ' = cmdQ /\ worker' = worker /\ cancel' = cancel
  BY HeadDue DEF DoPlanGap, Doing, Quiet, element, state, channels
<1>2. ~Ending(todo[1]) /\ ~Restarting(todo[1])
  BY <1>1 DEF Ending, Restarting
<1> DEFINE plan == PlanGap(Head(todo).from, Head(todo).to, outPts)
           gap == [op |-> "input_gap", scope |-> "forward",
                   from |-> plan.from, to |-> plan.to, frontier |-> plan.frontier]
           rest == Tail(todo)
           n == Len(todo)
           now == Append(rest, gap)
           old == todo
<1>3. todo' = now
  BY DEF DoPlanGap
<1>4. gap.op = "input_gap"
  OBVIOUS
<1> HIDE DEF gap
<1>5. /\ rest \in Seq(StepType) /\ n \in Nat \ {0} /\ Len(rest) = n - 1
      /\ \A i \in 1 .. n - 1 : rest[i] = old[i + 1]
      /\ DOMAIN old = 1 .. n
  BY <1>1, HeadTailProperties, EmptySeq DEF TypeInv
<1> HIDE DEF rest
<1>6. Len(now) = n /\ DOMAIN now = 1 .. n /\ now[n] = gap /\ \A i \in 1 .. n - 1 : now[i] = rest[i]
  <2>1. n = Len(rest) + 1 /\ Len(rest) \in Nat
    BY <1>5
  <2> HIDE DEF n
  <2> DEFINE S == {gap} \cup StepType
  <2>2. /\ now \in Seq(S) /\ Len(now) = Len(rest) + 1 /\ now[Len(rest) + 1] = gap
        /\ \A i \in 1 .. Len(rest) : now[i] = rest[i]
    <3>1. rest \in Seq(S) /\ gap \in S
      BY <1>5
    <3> HIDE DEF S
    <3> QED BY <3>1, AppendProperties
  <2> HIDE DEF S, now
  <2>3. DOMAIN now = 1 .. Len(now)
    BY <2>2
  <2>4. Len(rest) = n - 1
    BY <1>5
  <2> QED BY <2>1, <2>2, <2>3, <2>4
<1> HIDE DEF n, now, old
<1>7. ASSUME NEW i \in DOMAIN now, now[i].op # "input_gap"
      PROVE  i + 1 \in DOMAIN old /\ now[i] = old[i + 1] /\ i + 1 > 1 /\ i \in 1 .. n - 1
  <2>1. i \in 1 .. n /\ i # n
    BY <1>4, <1>6, <1>7
  <2>2. i \in 1 .. n - 1 /\ i + 1 \in 1 .. n /\ i + 1 > 1
    BY <1>5, <2>1
  <2> QED BY <1>5, <1>6, <2>2
<1>8. ASSUME NEW j \in DOMAIN old, j # 1 PROVE \E i \in DOMAIN now : now[i] = old[j]
  <2>1. j - 1 \in 1 .. n - 1 /\ j - 1 \in 1 .. n /\ (j - 1) + 1 = j
    BY <1>5, <1>8
  <2>2. now[j - 1] = old[(j - 1) + 1]
    BY <1>5, <1>6, <2>1
  <2> QED BY <1>6, <2>1, <2>2
<1>9. ~EndDue /\ ~AwaitsDrained /\ ~AwaitsRestart /\ ~Discarding /\ ~Has("flush_stop")
  BY <1>1, <1>2, HeadDue
<1>10. \A i \in DOMAIN old : i > 1 => old[i].op \notin {"finalize", "await", "ensure_ready"}
  BY DEF HandlerOK, old
<1>11. \A i \in DOMAIN now : now[i].op \notin {"finalize", "await", "ensure_ready"}
  BY <1>7, <1>10
<1>12. /\ RestartDue' <=> RestartDue
       /\ Discarding' => Discarding
       /\ \A op : op # "input_gap" => (Has(op)' => Has(op))
       /\ Has("segment") => Has("segment")'
  <2>1. \A i \in DOMAIN now : Restarting(now[i]) => now[i].op # "input_gap"
    BY DEF Restarting
  <2>2. RestartDue' <=> RestartDue
    BY <1>2, <1>3, <1>7, <1>8, <2>1 DEF RestartDue, old
  <2>3. Discarding' => Discarding
    BY <1>3, <1>7, <2>1 DEF Discarding, old
  <2>4. \A op : op # "input_gap" => (Has(op)' => Has(op))
    BY <1>3, <1>7 DEF Has, old
  <2>5. Has("segment") => Has("segment")'
    BY <1>1, <1>3, <1>8 DEF Has, old
  <2> QED BY <2>2, <2>3, <2>4, <2>5
<1>13. ~EndDue' /\ ~AwaitsDrained' /\ ~AwaitsRestart'
  <2>1. 1 \in DOMAIN now
    BY <1>5, <1>6
  <2> QED BY <1>3, <1>11, <2>1 DEF EndDue, Ending, AwaitsDrained, AwaitsRestart
<1>14. HandlerOK'
  <2>1. \A i, j \in DOMAIN now : i < j /\ Restarting(now[j]) =>
           now[i].op \in {"finalize", "bridge", "plan_gap"} \/ Ending(now[i])
    <3> SUFFICES ASSUME NEW i \in DOMAIN now, NEW j \in DOMAIN now, i < j, Restarting(now[j])
                 PROVE  now[i].op \in {"finalize", "bridge", "plan_gap"} \/ Ending(now[i])
      OBVIOUS
    <3>1. j + 1 \in DOMAIN old /\ now[j] = old[j + 1] /\ j \in 1 .. n - 1
      BY <1>7 DEF Restarting
    <3>2. i \in 1 .. n - 1 /\ i + 1 < j + 1 /\ i + 1 \in 1 .. n
      BY <1>5, <1>6, <3>1
    <3>3. now[i] = old[i + 1] /\ i + 1 \in DOMAIN old
      BY <1>5, <1>6, <3>2
    <3> QED BY <3>1, <3>2, <3>3 DEF HandlerOK, old
  <2>2. (Has("feed") => base # NoTime /\ ~RestartDue)'
    BY <1>1, <1>12 DEF HandlerOK
  <2>3. (Has("enter") => due = "data" /\ ~Has("segment") /\ ~Has("flush_stop"))'
    BY <1>1, <1>12 DEF HandlerOK
  <2>4. ~Has("flush_stop")' /\ ~Discarding'
    BY <1>9, <1>12
  <2> QED BY <1>3, <1>11, <2>1, <2>2, <2>3, <2>4 DEF HandlerOK
<1>15. \A i \in DOMAIN todo' : todo'[i].op # "input_gap" => i + 1 \in DOMAIN todo /\ todo'[i] = todo[i + 1]
  BY <1>3, <1>7 DEF old
<1> QED BY <1>1, <1>9, <1>12, <1>13, <1>14, <1>15

LEMMA DoPlanGapFlow ==
    ASSUME TypeInv, Piped, DoPlanGap
    PROVE  Piped'
<1>1. /\ todo # <<>> /\ stream' = stream /\ base' = base /\ due' = due /\ sinkFlush' = sinkFlush
      /\ evQ' = evQ /\ cmdQ' = cmdQ /\ worker' = worker
      /\ ~EndDue /\ ~AwaitsDrained /\ ~AwaitsRestart /\ ~Discarding /\ ~Has("flush_stop")
      /\ ~EndDue' /\ ~AwaitsDrained' /\ ~AwaitsRestart'
      /\ RestartDue' <=> RestartDue
      /\ Discarding' => Discarding
      /\ Has("segment") => Has("segment")'
      /\ HandlerOK'
  BY PlanGapHandler DEF Piped
<1>2. /\ WordsCurrent /\ HeldCurrent => WordsCurrent' /\ HeldCurrent'
      /\ Keeps(Pipe', Pipe) /\ ErrorLast'
  BY <1>1, ChannelsCurrent DEF Piped
<1>3. Ahead => Ahead'
  BY <1>1 DEF Ahead
<1>4. Flowing' /\ Flushed' /\ Fresh'
  BY <1>1, <1>2, <1>3, SameFlow DEF Piped
<1> QED BY <1>1, <1>2, <1>4 DEF Piped

-----------------------------------------------------------------------------
\* Audio goes to the model.

LEMMA EmptyCurrent ==
    ASSUME TypeInv, Empty(Pipe)
    PROVE  WordsCurrent /\ HeldCurrent /\ FrontFree(Pipe) /\ NoEnd(Pipe)
<1> DEFINE p == Pipe
           N == PipeLen
           evs == evQ
           cmds == cmdQ
           w == worker
<1>1. evs \in Seq(EventType) /\ cmds \in Seq(Commands)
  BY PipeNow
<1>2. p = PipeOf(evs, cmds, w) /\ N = Items(evs, cmds, w)
  BY DEF Pipe, PipeLen
<1>3. DOMAIN evs = 1 .. Len(evs) /\ DOMAIN cmds = 1 .. Len(cmds)
  BY <1>1
<1>4. Empty(p)
  OBVIOUS
<1> HIDE DEF p, N, evs, cmds, w
<1>5. /\ DOMAIN p = 1 .. N
      /\ \A i \in 1 .. Len(evs) : i \in 1 .. N /\ p[i] = EventKind(evs[i])
      /\ Lives(w) => /\ Len(evs) + 1 \in 1 .. N /\ p[Len(evs) + 1] = HeldKind(w)
                     /\ \A i \in 1 .. Len(cmds) :
                           Len(evs) + 1 + i \in 1 .. N /\ p[Len(evs) + 1 + i] = CommandKind(cmds[i])
  BY <1>1, <1>2, PipeItems
<1>6. \A i \in 1 .. Len(evs) : ~IsText(EventKind(evs[i]))
  BY <1>4, <1>5 DEF Empty
<1>7. Lives(w) => ~IsText(HeldKind(w)) /\ \A i \in 1 .. Len(cmds) : ~IsText(CommandKind(cmds[i]))
  BY <1>4, <1>5 DEF Empty
<1>8. WordsCurrent
  <2> SUFFICES ASSUME NEW i \in DOMAIN evs, evs[i].type = "words" PROVE ShowsCurrent(evs[i])
    BY DEF WordsCurrent, evs
  <2>1. ~Shown(evs[i])
    BY <1>3, <1>6 DEF EventKind, IsText
  <2>2. evs[i].rows = <<>>
    BY <2>1 DEF Shown
  <2> QED BY <2>2 DEF ShowsCurrent
<1>9. HeldCurrent
  <2> SUFFICES ASSUME Lives(w)
               PROVE  /\ \A k \in DOMAIN w.heard : w.heard[k].stream = stream
                      /\ \A k \in DOMAIN cmds : cmds[k].type = "feed" => cmds[k].stream = stream
    BY DEF HeldCurrent, Alive, w, cmds
  <2>1. w.heard = <<>>
    BY <1>7 DEF HeldKind, IsText
  <2>2. \A k \in DOMAIN cmds : cmds[k].type # "feed"
    BY <1>3, <1>7 DEF CommandKind, IsText
  <2> QED BY <2>1, <2>2
<1>10. FrontFree(Pipe) /\ NoEnd(Pipe)
  BY DEF Empty, FrontFree, NoEnd, IsText
<1> QED BY <1>8, <1>9, <1>10

LEMMA AdmitHandler ==
    ASSUME TypeInv, TypeInv', HandlerOK, Doing("enter"), NEW at \in Nat, NEW end, NEW len \in Nat, NEW pad \in Nat,
           Admit(at, end, len, pad)
    PROVE  /\ todo # <<>> /\ todo[1].op = "enter"
           /\ stream' = stream /\ due' = due /\ sinkFlush' = sinkFlush /\ cancel' = cancel
           /\ evQ' = evQ /\ cmdQ' = cmdQ /\ worker' = worker
           /\ ~EndDue /\ ~AwaitsDrained /\ ~AwaitsRestart /\ ~Discarding /\ ~RestartDue /\ ~Ahead
           /\ base' # NoTime /\ (base # NoTime => base' = base)
           /\ HandlerOK' /\ ~RestartDue' /\ ~Discarding'
           /\ ~EndDue' /\ ~AwaitsRestart' /\ ~AwaitsDrained'
<1>1. /\ todo # <<>> /\ todo[1].op = "enter" /\ Head(todo) = todo[1] /\ 1 \in DOMAIN todo
      /\ stream' = stream /\ due' = due /\ sinkFlush' = sinkFlush /\ cancel' = cancel
      /\ evQ' = evQ /\ cmdQ' = cmdQ /\ worker' = worker
  BY HeadDue DEF Admit, Doing, element, channels
<1>2. ~Ending(todo[1]) /\ ~Restarting(todo[1])
  BY <1>1 DEF Ending, Restarting
<1>3. /\ ~EndDue /\ ~AwaitsDrained /\ ~AwaitsRestart /\ ~Discarding /\ ~Has("flush_stop")
      /\ \A j \in DOMAIN todo : Restarting(todo[j]) => j = 1
  BY <1>1, <1>2, HeadDue
<1>4. ~RestartDue
  BY <1>2, <1>3 DEF RestartDue
<1>5. due = "data" /\ ~Has("segment")
  BY <1>1 DEF HandlerOK, Has
<1>6. ~Ahead
  BY <1>3, <1>5 DEF Ahead
<1>7. base' # NoTime /\ (base # NoTime => base' = base)
  BY DEF Admit, Anchor, Later, NoTime
\* What is left to do.
<1>8. \/ todo' = Tail(todo)
      \/ todo' # <<>> /\ \A i \in DOMAIN todo' : todo'[i].op \in {"feed", "drain"}
  <2> DEFINE prime == Feed(pad, NoTime)
             feed == Feed(len, at)
             drain == Step("drain", "chain")
             head == IF pad > 0 THEN <<prime>> ELSE <<>>
             tail == <<feed, drain>>
             S == {s \in StepType : s.op \in {"feed", "drain"}}
  <2>1. prime \in S /\ feed \in S /\ drain \in S
    BY StepsMade DEF Time, Scope, Feed, Step
  <2>2. todo' = IF len = 0 THEN Tail(todo) ELSE head \o tail
    BY DEF Admit
  <2> HIDE DEF prime, feed, drain, S
  <2>3. head \in Seq(S) /\ tail \in Seq(S) /\ Len(tail) = 2
    <3>1. tail \in Seq(S) /\ Len(tail) = 2
      BY <2>1
    <3>2. <<prime>> \in Seq(S)
      BY <2>1
    <3>3. <<>> \in Seq(S)
      OBVIOUS
    <3> HIDE DEF tail
    <3> QED BY <3>1, <3>2, <3>3
  <2> HIDE DEF head, tail
  <2>4. head \o tail \in Seq(S) /\ Len(head \o tail) = Len(head) + 2 /\ Len(head) \in Nat
    <3>1. head \o tail \in Seq(S) /\ Len(head \o tail) = Len(head) + Len(tail)
      BY <2>3, ConcatProperties
    <3>2. Len(head) \in Nat
      BY <2>3
    <3> QED BY <2>3, <3>1, <3>2
  <2> DEFINE all == head \o tail
  <2>5. all \in Seq(S) /\ Len(all) # 0
    BY <2>4
  <2> HIDE DEF all
  <2>6. all # <<>> /\ \A i \in DOMAIN all : all[i] \in S
    BY <2>5, ElementOfSeq
  <2>7. \A i \in DOMAIN all : all[i].op \in {"feed", "drain"}
    BY <2>6 DEF S
  <2> QED BY <2>2, <2>6, <2>7 DEF all
<1>9. /\ HandlerOK' /\ ~RestartDue' /\ ~Discarding' /\ ~Has("flush_stop")'
      /\ ~EndDue' /\ ~AwaitsRestart' /\ ~AwaitsDrained'
  <2>1. CASE todo' = Tail(todo)
    <3>1. /\ Dropped(1) /\ ~RestartDue'
          /\ \A op : todo[1].op # op => (Has(op)' <=> Has(op))
      BY <1>1, <1>2, <1>4, <2>1, StepDone
    <3>2. ~Discarding' /\ ~EndDue' /\ ~AwaitsRestart' /\ ~AwaitsDrained' /\ ~Has("flush_stop")'
      BY <1>1, <1>3, <3>1, DroppedDue
    <3>3. /\ \A i \in DOMAIN todo' : /\ 1 + i \in DOMAIN todo /\ todo'[i] = todo[1 + i] /\ 1 + i > 1
          /\ \A i, j \in DOMAIN todo' : i < j => 1 + i < 1 + j
      BY <3>1, DroppedItems DEF TypeInv
    <3>4. \A i \in DOMAIN todo' : i > 1 => todo'[i].op \notin {"finalize", "await", "ensure_ready"}
      BY <3>3 DEF HandlerOK
    <3>5. \A i, j \in DOMAIN todo' : i < j /\ Restarting(todo'[j]) =>
             todo'[i].op \in {"finalize", "bridge", "plan_gap"} \/ Ending(todo'[i])
      BY <3>1 DEF RestartDue
    <3>6. (Has("enter") => due = "data" /\ ~Has("segment") /\ ~Has("flush_stop"))'
      BY <1>1, <1>5, <3>1, <3>2
    <3> QED BY <1>7, <3>1, <3>2, <3>4, <3>5, <3>6 DEF HandlerOK
  <2>2. CASE todo' # <<>> /\ \A i \in DOMAIN todo' : todo'[i].op \in {"feed", "drain"}
    <3>1. /\ ~RestartDue' /\ ~Discarding' /\ ~EndDue'
          /\ ~Has("flush_stop")' /\ ~Has("enter")'
      BY <2>2 DEF RestartDue, Discarding, EndDue, Restarting, Ending, Has
    <3>2. 1 \in DOMAIN todo'
      BY <2>2, EmptySeq DEF TypeInv
    <3>3. ~AwaitsRestart' /\ ~AwaitsDrained'
      BY <2>2, <3>2 DEF AwaitsRestart, AwaitsDrained
    <3>4. /\ \A i \in DOMAIN todo' : i > 1 => todo'[i].op \notin {"finalize", "await", "ensure_ready"}
          /\ \A i, j \in DOMAIN todo' : i < j /\ Restarting(todo'[j]) =>
                todo'[i].op \in {"finalize", "bridge", "plan_gap"} \/ Ending(todo'[i])
      BY <2>2, <3>1 DEF RestartDue
    <3> QED BY <1>7, <3>1, <3>3, <3>4 DEF HandlerOK
  <2> QED BY <1>8, <2>1, <2>2
<1> QED BY <1>1, <1>3, <1>4, <1>6, <1>7, <1>9

LEMMA AdmitFlow ==
    ASSUME TypeInv, TypeInv', Piped, Doing("enter"), NEW at \in Nat, NEW end, NEW len \in Nat, NEW pad \in Nat,
           Admit(at, end, len, pad)
    PROVE  Piped'
<1>1. /\ stream' = stream /\ due' = due /\ sinkFlush' = sinkFlush
      /\ evQ' = evQ /\ cmdQ' = cmdQ /\ worker' = worker
      /\ ~EndDue /\ ~AwaitsDrained /\ ~AwaitsRestart /\ ~Discarding /\ ~RestartDue /\ ~Ahead
      /\ base' # NoTime /\ (base # NoTime => base' = base)
      /\ HandlerOK' /\ ~RestartDue' /\ ~Discarding'
      /\ ~EndDue' /\ ~AwaitsRestart' /\ ~AwaitsDrained'
  BY AdmitHandler DEF Piped
<1>2. /\ WordsCurrent /\ HeldCurrent => WordsCurrent' /\ HeldCurrent'
      /\ Keeps(Pipe', Pipe) /\ ErrorLast'
  BY <1>1, ChannelsCurrent DEF Piped
<1>3. CASE base = NoTime
  <2>1. One(Pipe) /\ Empty(Pipe)
    BY <1>1, <1>3 DEF Fresh, Piped
  <2>2. WordsCurrent /\ HeldCurrent /\ FrontFree(Pipe) /\ NoEnd(Pipe)
    BY <2>1, EmptyCurrent
  <2>3. WordsCurrent' /\ HeldCurrent' /\ One(Pipe') /\ FrontFree(Pipe') /\ NoEnd(Pipe')
    BY <1>2, <2>1, <2>2 DEF Keeps
  <2>4. Flowing'
    BY <1>1, <2>3 DEF Flowing
  <2>5. Flushed' /\ Fresh'
    BY <1>1 DEF Flushed, Fresh
  <2> QED BY <1>1, <1>2, <2>4, <2>5 DEF Piped
<1>4. CASE base # NoTime
  <2>1. Flowing' /\ Flushed' /\ Fresh'
    BY <1>1, <1>2, <1>4, SameFlow DEF Piped
  <2> QED BY <1>1, <1>2, <2>1 DEF Piped
<1> QED BY <1>3, <1>4

\* A buffer the gate lets pass, and the audio it kept when it opens.
LEMMA PassThroughAdmits ==
    ASSUME TypeInv, PassThrough
    PROVE  \E at, len \in Nat : \E end : Doing("enter") /\ Admit(at, end, len, 0)
<1> DEFINE b == Head(todo)
           bEnd == b.end
           len == b.end - b.pts
           at == b.pts
<1>1. Doing("enter") /\ Admit(at, bEnd, len, 0)
  BY DEF PassThrough
<1>2. b.pts \in Nat /\ b.end \in Nat /\ b.pts <= b.end
  BY <1>1, HeadStep, StepFields
<1>3. at \in Nat /\ len \in Nat
  <2> HIDE DEF b
  <2> QED BY <1>2
<1> HIDE DEF b, bEnd, len, at
<1> QED BY <1>1, <1>3

LEMMA OpenGateAdmits ==
    ASSUME NEW kept \in Nat, TypeInv, OpenGate(kept)
    PROVE  \E at \in Nat : \E end : Doing("enter") /\ Admit(at, end, kept, Warmup)
<1> DEFINE b == Head(todo)
           seen == gateSeen + (b.end - b.pts)
           at == Later(b.end - seen, 0) + (seen - kept)
           bEnd == b.end
           bPts == b.pts
<1>1. Doing("enter") /\ kept <= seen /\ Admit(at, bEnd, kept, Warmup)
  BY DEF OpenGate
<1>2. b.pts \in Nat /\ b.end \in Nat /\ b.pts <= b.end
  BY <1>1, HeadStep, StepFields
<1>3. seen = gateSeen + (bEnd - bPts) /\ bEnd \in Nat /\ bPts \in Nat /\ bPts <= bEnd /\ gateSeen \in Nat
  BY <1>2 DEF TypeInv, StateOK
<1>4. at = Later(bEnd - seen, 0) + (seen - kept)
  OBVIOUS
<1> HIDE DEF b, seen, at, bEnd, bPts
<1>5. at \in Nat
  BY <1>1, <1>3, <1>4 DEF Later
<1> QED BY <1>1, <1>5

LEMMA PassThroughFlow ==
    ASSUME TypeInv, TypeInv', Piped, PassThrough
    PROVE  Piped'
<1>1. \E at, len \in Nat : \E end : Doing("enter") /\ Admit(at, end, len, 0)
  BY PassThroughAdmits
<1> QED BY <1>1, AdmitFlow

LEMMA OpenGateFlow ==
    ASSUME NEW kept \in Nat, TypeInv, TypeInv', Piped, OpenGate(kept)
    PROVE  Piped'
<1>1. \E at \in Nat : \E end : Doing("enter") /\ Admit(at, end, kept, Warmup)
  BY OpenGateAdmits
<1>2. Warmup \in Nat
  BY TranscriberAssumption
<1> QED BY <1>1, <1>2, AdmitFlow

-----------------------------------------------------------------------------
\* The thread takes the worker's events.

LEMMA TakeProgressFlow ==
    ASSUME TypeInv, TypeInv', Piped, TakeProgress
    PROVE  Piped'
<1>1. /\ evQ # <<>> /\ evQ' = Tail(evQ) /\ cmdQ' = cmdQ /\ worker' = worker /\ stream' = stream
      /\ todo' = todo /\ base' = base /\ due' = due /\ sinkFlush' = sinkFlush
  BY DEF TakeProgress, element
<1>2. Keeps(Pipe', Pipe)
  BY <1>1, EventTaken
<1>3. /\ WordsCurrent /\ HeldCurrent => WordsCurrent' /\ HeldCurrent'
      /\ ErrorLast'
  BY <1>1, TakenCurrent DEF Piped
<1> QED BY <1>1, <1>2, <1>3, OtherFlow DEF Piped

\* A step that takes an event nobody waits for in particular.
LEMMA TakenFlow ==
    ASSUME TypeInv, TypeInv', Piped, evQ # <<>>, evQ' = Tail(evQ), cmdQ' = cmdQ, worker' = worker, stream' = stream,
           base' = base, due' = due, sinkFlush' = sinkFlush,
           \/ todo' = todo
           \/ /\ todo # <<>> /\ todo' = Tail(todo) /\ ~Restarting(todo[1])
              /\ todo[1].op # "flush_stop" /\ (Ending(todo[1]) => base = NoTime)
    PROVE  Piped'
<1>1. Keeps(Pipe', Pipe)
  BY EventTaken
<1>2. /\ WordsCurrent /\ HeldCurrent => WordsCurrent' /\ HeldCurrent'
      /\ ErrorLast'
  BY TakenCurrent DEF Piped
<1> QED BY <1>1, <1>2, OtherFlow, PlainFlow DEF Piped

\* A stream has ended: none of its words is still to come.
LEMMA DrainedFlow ==
    ASSUME TypeInv, TypeInv', Piped, todo # <<>>, todo[1].op = "await", todo[1].marker = "drained",
           todo' = Tail(todo), evQ # <<>>, Head(evQ).type = "drained", evQ' = Tail(evQ),
           cmdQ' = cmdQ, worker' = worker, stream' = stream, base' = base, due' = due, sinkFlush' = sinkFlush
    PROVE  Piped'
<1>1. Ending(todo[1]) /\ ~Restarting(todo[1])
  BY DEF Ending, Restarting
<1>2. CASE base = NoTime
  BY <1>1, <1>2, TakenFlow
<1>3. CASE base # NoTime
  <2>1. /\ Dropped(1) /\ (RestartDue' <=> RestartDue)
    BY <1>1, StepDone
  <2>2. ~EndDue' /\ ~AwaitsRestart' /\ ~AwaitsDrained'
    BY <2>1, DroppedDue DEF Piped
  <2>3. EndDue /\ AwaitsDrained /\ ~AwaitsRestart
    BY <1>1, HeadDue DEF Piped, EndDue, AwaitsDrained
  <2>4. WordsCurrent /\ HeldCurrent /\ One(Pipe) /\ FrontFree(Pipe) /\ OneEnd(Pipe)
    BY <1>3, <2>3 DEF Piped, Flowing
  <2>5. /\ 1 \in DOMAIN Pipe
        /\ \A i \in DOMAIN Pipe' : i + 1 \in DOMAIN Pipe /\ i + 1 # 1 /\ ~(i + 1 < 1) /\ Pipe'[i] = Pipe[i + 1]
        /\ Pipe[1] = "end" /\ Keeps(Pipe', Pipe)
    <3> DEFINE n == PipeLen
    <3>1. /\ n \in Nat \ {0} /\ DOMAIN Pipe = 1 .. n /\ DOMAIN Pipe' = 1 .. n - 1 /\ 1 \in 1 .. n
          /\ Pipe[1] = EventKind(Head(evQ)) /\ Keeps(Pipe', Pipe)
          /\ \A i \in 1 .. n - 1 : i + 1 \in 1 .. n /\ Pipe'[i] = Pipe[i + 1]
      BY EventTaken
    <3> HIDE DEF n
    <3>2. Pipe[1] = "end"
      BY <3>1 DEF EventKind
    <3>3. \A i \in 1 .. n - 1 : i + 1 # 1 /\ ~(i + 1 < 1)
      BY <3>1
    <3> QED BY <3>1, <3>2, <3>3
  <2>6. NoEnd(Pipe')
    BY <2>4, <2>5 DEF OneEnd, NoEnd
  <2>7. NoBar(Pipe')
    BY <2>4, <2>5 DEF FrontFree, NoBar, IsText
  <2>8. /\ WordsCurrent' /\ HeldCurrent' /\ ErrorLast'
        /\ One(Pipe') /\ FrontFree(Pipe')
    BY <2>4, <2>5, TakenCurrent DEF Piped, Keeps
  <2>9. Flowing'
    BY <2>2, <2>6, <2>7, <2>8 DEF Flowing
  <2>10. Flushed' /\ Fresh'
    BY <1>3 DEF Flushed, Fresh
  <2>11. HandlerOK'
    BY <2>1, DropHandler DEF Piped
  <2> QED BY <2>8, <2>9, <2>10, <2>11 DEF Piped
<1> QED BY <1>2, <1>3

\* The worker has restarted: a new timeline, which nothing of the old one
\* reaches.
LEMMA RestartedFlow ==
    ASSUME TypeInv, TypeInv', Piped, todo # <<>>, todo[1].op = "await", todo[1].marker = "restarted",
           todo' = Tail(todo), evQ # <<>>, Head(evQ).type = "restarted", evQ' = Tail(evQ),
           cmdQ' = cmdQ, worker' = worker, base' = NoTime, due' = due, sinkFlush' = sinkFlush
    PROVE  Piped'
<1>1. Restarting(todo[1]) /\ ~Ending(todo[1]) /\ 1 \in DOMAIN todo
  BY HeadDue DEF Restarting, Ending, Piped
<1>2. /\ RestartDue /\ AwaitsRestart /\ ~EndDue
      /\ \A j \in DOMAIN todo : Restarting(todo[j]) => j = 1
  BY <1>1, HeadDue DEF Piped, RestartDue, AwaitsRestart
<1>3. Dropped(1) /\ \A op : op # "await" => (Has(op)' <=> Has(op))
  BY StepDone
<1>4. ~RestartDue' /\ ~Discarding'
  <2>1. \A i \in DOMAIN todo' : 1 + i \in DOMAIN todo /\ todo'[i] = todo[1 + i] /\ 1 + i > 1
    BY <1>3, DroppedItems DEF TypeInv
  <2>2. \A i \in DOMAIN todo' : ~Restarting(todo'[i])
    BY <1>2, <2>1
  <2> QED BY <2>2 DEF RestartDue, Discarding
<1>5. ~AwaitsRestart' /\ ~EndDue'
  BY <1>3, DroppedDue DEF Piped
<1>6. HandlerOK'
  <2>1. ~Has("feed")
    BY <1>2 DEF Piped, HandlerOK
  <2> QED BY <1>3, <2>1, DropHandler DEF Piped
<1>7. /\ 1 \in DOMAIN Pipe /\ Pipe[1] = "bar" /\ Keeps(Pipe', Pipe)
      /\ \A i \in DOMAIN Pipe' : i \in Int /\ i + 1 \in DOMAIN Pipe /\ 1 < i + 1 /\ Pipe'[i] = Pipe[i + 1]
      /\ \A i \in DOMAIN Pipe : ~(i < 1)
  <2> DEFINE n == PipeLen
  <2>1. /\ n \in Nat \ {0} /\ DOMAIN Pipe = 1 .. n /\ DOMAIN Pipe' = 1 .. n - 1 /\ 1 \in 1 .. n
        /\ Pipe[1] = EventKind(Head(evQ)) /\ Keeps(Pipe', Pipe)
        /\ \A i \in 1 .. n - 1 : i + 1 \in 1 .. n /\ Pipe'[i] = Pipe[i + 1]
    BY EventTaken
  <2> HIDE DEF n
  <2>2. Pipe[1] = "bar"
    BY <2>1 DEF EventKind
  <2>3. /\ \A i \in 1 .. n - 1 : i \in Int /\ 1 < i + 1
        /\ \A i \in 1 .. n : ~(i < 1)
    BY <2>1
  <2> QED BY <2>1, <2>2, <2>3
<1>8. ErrorLast'
  BY TakenCurrent DEF Piped
<1>9. Sealed(Pipe) => Empty(Pipe)
  BY <1>7 DEF Sealed, Empty
<1>10. Two(Pipe) => One(Pipe')
  <2> SUFFICES ASSUME Two(Pipe), NEW a \in DOMAIN Pipe', NEW b \in DOMAIN Pipe', Pipe'[a] = "bar", Pipe'[b] = "bar"
               PROVE  a = b
    BY DEF One
  <2>1. a + 1 = 1 \/ a + 1 = b + 1 \/ 1 = b + 1
    BY <1>7 DEF Two
  <2> QED BY <1>7, <2>1
<1>11. LastSeals(Pipe) => Sealed(Pipe')
  <2> SUFFICES ASSUME LastSeals(Pipe), NEW a \in DOMAIN Pipe', NEW b \in DOMAIN Pipe', Pipe'[a] = "bar", IsText(Pipe'[b])
               PROVE  b < a
    BY DEF Sealed
  <2>1. b + 1 < a + 1
    BY <1>7 DEF LastSeals
  <2> QED BY <1>7, <2>1
<1>12. Sealed(Pipe') /\ One(Pipe') /\ (Empty(Pipe') \/ Ahead')
  <2>1. CASE base # NoTime
    <3>1. Sealed(Pipe) /\ One(Pipe)
      BY <1>2, <1>7, <2>1 DEF Piped, Flowing, NoBar
    <3> QED BY <1>7, <1>9, <3>1 DEF Keeps
  <2>2. CASE base = NoTime /\ Discarding
    <3>1. Two(Pipe) /\ LastSeals(Pipe)
      BY <1>2, <2>2 DEF Piped, Flushed
    <3>2. \A i \in DOMAIN todo : todo[i].op = "flush_stop" <=> i = Len(todo)
      BY <2>2 DEF Piped, HandlerOK
    <3>3. Len(todo) \in DOMAIN todo
      BY EmptySeq DEF TypeInv
    <3>4. Has("flush_stop")
      BY <3>2, <3>3 DEF Has
    <3>5. Ahead'
      BY <1>3, <3>4 DEF Ahead
    <3> QED BY <1>10, <1>11, <3>1, <3>5
  <2>3. CASE base = NoTime /\ ~Discarding
    <3>1. Sealed(Pipe) /\ Two(Pipe)
      BY <1>2, <2>3 DEF Piped, Fresh
    <3> QED BY <1>7, <1>9, <1>10, <3>1 DEF Keeps
  <2> QED BY <2>1, <2>2, <2>3
<1>13. Flowing' /\ Flushed' /\ Fresh'
  BY <1>4, <1>5, <1>12 DEF Flowing, Flushed, Fresh
<1> QED BY <1>6, <1>8, <1>13 DEF Piped

LEMMA TakeMarkerFlow ==
    ASSUME TypeInv, TypeInv', Piped, TakeMarker
    PROVE  Piped'
<1>1. /\ evQ # <<>> /\ evQ' = Tail(evQ) /\ cmdQ' = cmdQ /\ worker' = worker
      /\ due' = due /\ sinkFlush' = sinkFlush
      /\ todo # <<>> /\ Head(todo) = todo[1] /\ todo[1] \in StepType
  BY HeadDue DEF TakeMarker, Waiting, element, Piped
<1> DEFINE awaited == Head(todo).op = "await" /\ Head(todo).marker = Head(evQ).type
<1>2. CASE ~awaited
  <2>1. todo' = todo /\ base' = base /\ stream' = stream
    BY <1>2 DEF TakeMarker
  <2> QED BY <1>1, <2>1, TakenFlow
<1>3. CASE awaited
  <2>1. todo' = Tail(todo) /\ todo[1].op = "await" /\ todo[1].marker = Head(evQ).type
    BY <1>1, <1>3 DEF TakeMarker
  <2>2. todo[1].marker \in {"drained", "restarted"}
    BY <1>1, <2>1, StepFields
  <2>3. CASE Head(evQ).type = "drained"
    <3>1. base' = base /\ stream' = stream
      BY <1>3, <2>3 DEF TakeMarker
    <3> QED BY <1>1, <2>1, <2>3, <3>1, DrainedFlow
  <2>4. CASE Head(evQ).type = "restarted"
    <3>1. base' = NoTime
      BY <1>3, <2>4 DEF TakeMarker, ResetTimeline
    <3> QED BY <1>1, <2>1, <2>4, <3>1, RestartedFlow
  <2> QED BY <2>1, <2>2, <2>3, <2>4
<1> QED BY <1>2, <1>3

\* A push that fails because the src pad is flushing ends the call.
LEMMA TakeWordsFlow ==
    ASSUME TypeInv, TypeInv', Piped, srcFlush => sinkFlush, TakeWords
    PROVE  Piped'
<1>1. /\ evQ # <<>> /\ evQ' = Tail(evQ) /\ cmdQ' = cmdQ /\ worker' = worker /\ stream' = stream
      /\ base' = base /\ due' = due /\ sinkFlush' = sinkFlush /\ Head(evQ).type = "words"
  BY DEF TakeWords, element
<1>2. CASE todo' = todo
  BY <1>1, <1>2, TakenFlow
<1>3. ASSUME todo' # todo
      PROVE  Piped'
  <2>1. base # NoTime /\ Head(evQ).rows # <<>> /\ srcFlush /\ Abandon
    BY <1>3 DEF TakeWords
  <2>2. PICK n \in 1 .. Len(todo) : Dropped(n)
    BY <2>1, AbandonDrops DEF TypeInv
  <2>3. n \in Nat \ {0} /\ todo # <<>>
    BY <2>2 DEF TakeWords, Waiting
  <2>4. (RestartDue' => RestartDue) /\ ~EndDue' /\ ~AwaitsRestart' /\ ~AwaitsDrained'
    BY <2>2, <2>3, DroppedDue DEF Piped
  <2>5. AwaitsRestart => ~RestartDue'
    <3> SUFFICES ASSUME AwaitsRestart PROVE ~RestartDue'
      OBVIOUS
    <3>1. \A j \in DOMAIN todo : Restarting(todo[j]) => j = 1
      BY <2>3, HeadDue DEF Piped, AwaitsRestart, Restarting
    <3>2. \A i \in DOMAIN todo' : n + i \in DOMAIN todo /\ todo'[i] = todo[n + i] /\ n + i > 1
      BY <2>2, <2>3, DroppedItems DEF TypeInv
    <3>3. \A i \in DOMAIN todo' : ~Restarting(todo'[i])
      BY <3>1, <3>2
    <3> QED BY <3>3 DEF RestartDue
  <2>6. /\ 1 \in DOMAIN Pipe /\ IsText(Pipe[1]) /\ Keeps(Pipe', Pipe)
        /\ \A i \in DOMAIN Pipe : ~(i < 1)
    <3> DEFINE n0 == PipeLen
    <3>1. /\ n0 \in Nat \ {0} /\ DOMAIN Pipe = 1 .. n0 /\ 1 \in 1 .. n0
          /\ Pipe[1] = EventKind(Head(evQ)) /\ Keeps(Pipe', Pipe)
      BY <1>1, EventTaken
    <3> HIDE DEF n0
    <3>2. IsText(Pipe[1])
      BY <1>1, <2>1, <3>1 DEF EventKind, Shown, IsText
    <3>3. \A i \in 1 .. n0 : ~(i < 1)
      BY <3>1
    <3> QED BY <3>1, <3>2, <3>3
  <2>7. FrontFree(Pipe) => NoBar(Pipe)
    BY <2>6 DEF FrontFree, NoBar
  <2>8. WordsCurrent /\ HeldCurrent /\ One(Pipe) /\ (RestartDue' => NoBar(Pipe))
    BY <2>1, <2>4, <2>5, <2>7 DEF Piped, Flowing
  <2>9. WordsCurrent' /\ HeldCurrent' /\ ErrorLast' /\ One(Pipe') /\ (RestartDue' => NoBar(Pipe'))
    BY <1>1, <2>6, <2>8, TakenCurrent DEF Piped, Keeps
  <2>10. Flowing'
    BY <1>1, <2>1, <2>4, <2>9 DEF Flowing
  <2>11. Flushed' /\ Fresh'
    BY <1>1, <2>1 DEF Flushed, Fresh
  <2>12. HandlerOK'
    BY <1>1, <2>2, <2>3, DropHandler DEF Piped
  <2> QED BY <2>9, <2>10, <2>11, <2>12 DEF Piped
<1> QED BY <1>2, <1>3

\* The worker's last event is why it is gone: a call that takes it fails.
LEMMA LastError ==
    ASSUME TypeInv, ErrorLast, evQ # <<>>, Head(evQ).type = "error", evQ' = Tail(evQ)
    PROVE  evQ' = <<>> /\ ~Alive
<1> DEFINE old == evQ
           E == Len(evQ)
<1>1. old \in Seq(EventType) /\ old # <<>> /\ DOMAIN old = 1 .. E
  BY DEF TypeInv
<1>2. E \in Nat \ {0} /\ Head(old) = old[1]
  BY <1>1, EmptySeq
<1>3. 1 \in DOMAIN old /\ evQ[1].type = "error"
  BY <1>1, <1>2
<1>4. E = 1 /\ ~Alive
  BY <1>3 DEF ErrorLast
<1>5. Tail(old) \in Seq(EventType) /\ Len(Tail(old)) = 0
  <2>1. Tail(old) \in Seq(EventType) /\ Len(Tail(old)) = E - 1
    BY <1>1, HeadTailProperties
  <2> QED BY <1>4, <2>1
<1> QED BY <1>4, <1>5, EmptySeq

LEMMA TakenError ==
    ASSUME TypeInv, TypeInv', Piped, evQ # <<>>, Head(evQ).type = "error", evQ' = Tail(evQ), Abandon,
           worker' = worker, base' = base, due' = due, sinkFlush' = sinkFlush
    PROVE  Piped'
<1>1. evQ' = <<>> /\ ~Alive
  BY LastError DEF Piped
<1> QED BY <1>1, FailedCall

LEMMA TakeErrorFlow ==
    ASSUME TypeInv, TypeInv', Piped, TakeError
    PROVE  Piped'
<1>1. /\ Abandon /\ worker' = worker /\ base' = base /\ due' = due /\ sinkFlush' = sinkFlush
      /\ \/ evQ # <<>> /\ Head(evQ).type = "error" /\ evQ' = Tail(evQ)
         \/ evQ = <<>> /\ worker.state = "dead" /\ evQ' = evQ
  BY DEF TakeError, state, element
<1>2. CASE evQ # <<>> /\ Head(evQ).type = "error" /\ evQ' = Tail(evQ)
  BY <1>1, <1>2, TakenError
<1>3. CASE evQ = <<>> /\ worker.state = "dead" /\ evQ' = evQ
  <2>1. ~Alive /\ evQ' = <<>>
    BY <1>3 DEF Alive, Lives
  <2> QED BY <1>1, <2>1, FailedCall
<1> QED BY <1>1, <1>2, <1>3

LEMMA AwaitReadyFlow ==
    ASSUME TypeInv, TypeInv', Piped, AwaitReady
    PROVE  Piped'
<1>1. /\ todo # <<>> /\ todo[1].op = "ensure_ready"
      /\ cmdQ' = cmdQ /\ worker' = worker /\ stream' = stream
      /\ base' = base /\ due' = due /\ sinkFlush' = sinkFlush
  BY HeadDue DEF AwaitReady, Doing, Quiet, element, Piped
<1>2. ~Restarting(todo[1]) /\ ~Ending(todo[1])
  BY <1>1 DEF Restarting, Ending
<1>3. CASE ready
  <2>1. todo' = Tail(todo) /\ evQ' = evQ
    BY <1>3 DEF AwaitReady
  <2> QED BY <1>1, <2>1, ForwardFlow
<1>4. CASE ~ready /\ evQ = <<>>
  <2>1. Abandon /\ evQ' = <<>> /\ ~Alive
    BY <1>4 DEF AwaitReady, Alive, Lives
  <2> QED BY <1>1, <2>1, FailedCall
<1>5. CASE ~ready /\ evQ # <<>>
  <2>1. evQ' = Tail(evQ)
    BY <1>5 DEF AwaitReady
  <2>2. CASE Head(evQ).type = "ready"
    <3>1. todo' = Tail(todo)
      BY <1>5, <2>2 DEF AwaitReady
    <3> QED BY <1>1, <1>2, <1>5, <2>1, <3>1, TakenFlow
  <2>3. CASE Head(evQ).type = "error"
    <3>1. Abandon
      BY <1>5, <2>3 DEF AwaitReady
    <3> QED BY <1>1, <1>5, <2>1, <2>3, <3>1, TakenError
  <2>4. CASE Head(evQ).type \notin {"ready", "error"}
    <3>1. todo' = todo
      BY <1>5, <2>4 DEF AwaitReady
    <3> QED BY <1>1, <1>5, <2>1, <3>1, TakenFlow
  <2> QED BY <2>2, <2>3, <2>4
<1> QED BY <1>3, <1>4, <1>5

-----------------------------------------------------------------------------
\* A handler starts.

LEMMA IdleDue ==
    ASSUME todo = <<>>
    PROVE  /\ ~RestartDue /\ ~EndDue /\ ~Discarding /\ ~AwaitsRestart /\ ~AwaitsDrained
           /\ \A op : ~Has(op)
<1>1. DOMAIN todo = {}
  OBVIOUS
<1> QED BY <1>1 DEF Has, RestartDue, EndDue, Discarding, AwaitsRestart, AwaitsDrained

LEMMA BeginsFlow ==
    ASSUME TypeInv, Piped, todo = <<>>, ~sinkFlush, Begins, due # "data" => Ahead',
           base' = base, stream' = stream, evQ' = evQ, cmdQ' = cmdQ, worker' = worker
    PROVE  Piped'
<1>1. /\ ~RestartDue /\ ~EndDue /\ ~Discarding /\ ~AwaitsRestart /\ ~AwaitsDrained
      /\ ~Has("flush_stop") /\ ~Has("segment")
  BY IdleDue
<1>2. /\ WordsCurrent /\ HeldCurrent => WordsCurrent' /\ HeldCurrent'
      /\ Keeps(Pipe', Pipe) /\ ErrorLast'
  BY ChannelsCurrent DEF Piped
<1>3. Flowing'
  <2> SUFFICES ASSUME base # NoTime PROVE Flowing'
    BY DEF Flowing
  <2>1. WordsCurrent /\ HeldCurrent /\ One(Pipe) /\ FrontFree(Pipe) /\ NoEnd(Pipe)
    BY <1>1 DEF Piped, Flowing
  <2>2. WordsCurrent' /\ HeldCurrent' /\ One(Pipe') /\ FrontFree(Pipe') /\ NoEnd(Pipe')
    BY <1>2, <2>1 DEF Keeps
  <2> QED BY <2>2 DEF Flowing, Begins
<1>4. Flushed'
  BY DEF Flushed, Begins
<1>5. Fresh'
  <2> SUFFICES ASSUME base = NoTime PROVE Fresh'
    BY DEF Fresh
  <2>1. Sealed(Pipe) /\ One(Pipe) /\ (Empty(Pipe) \/ due # "data")
    BY <1>1 DEF Piped, Fresh, Ahead
  <2>2. Sealed(Pipe') /\ One(Pipe') /\ (Empty(Pipe') \/ Ahead')
    BY <1>2, <2>1 DEF Keeps
  <2> QED BY <2>2 DEF Fresh, Begins
<1> QED BY <1>2, <1>3, <1>4, <1>5 DEF Piped, Begins

LEMMA CapsFlow ==
    ASSUME TypeInv, Piped, Caps
    PROVE  Piped'
<1>1. /\ todo = <<>> /\ ~sinkFlush /\ due' = "segment"
      /\ base' = base /\ stream' = stream /\ evQ' = evQ /\ cmdQ' = cmdQ /\ worker' = worker
  BY DEF Caps, Idle, Quiet, state, channels
<1>2. Ahead'
  BY <1>1 DEF Ahead
<1> QED BY <1>1, <1>2, CapsBegins, BeginsFlow

\* A segment ends the stream and restarts the worker before audio comes.
LEMMA SegmentFlow ==
    ASSUME TypeInv, Piped, Segment
    PROVE  Piped'
<1>1. /\ todo = <<>> /\ ~sinkFlush
      /\ base' = base /\ stream' = stream /\ evQ' = evQ /\ cmdQ' = cmdQ /\ worker' = worker
  BY DEF Segment, Idle, Quiet, state, channels
<1>2. Ahead'
  <2> DEFINE fin == Finalize("finalize")
             res == Restart("restart", FALSE)
             seg == Step("segment", "forward")
  <2>1. todo' = <<fin, res, seg>> /\ res.op = "restart" /\ seg.op = "segment"
    BY StepOps DEF Segment
  <2> HIDE DEF fin, res, seg
  <2>2. DOMAIN todo' = 1 .. 3 /\ todo'[2] = res /\ todo'[3] = seg
    BY <2>1
  <2>3. 2 \in DOMAIN todo' /\ 3 \in DOMAIN todo'
    BY <2>2
  <2>4. Has("segment")' /\ RestartDue'
    BY <2>1, <2>2, <2>3 DEF Has, RestartDue, Restarting
  <2> QED BY <2>4 DEF Ahead
<1> QED BY <1>1, <1>2, SegmentBegins, BeginsFlow

LEMMA EosFlow ==
    ASSUME TypeInv, Piped, Eos
    PROVE  Piped'
<1>1. /\ todo = <<>> /\ ~sinkFlush /\ due = "data"
      /\ base' = base /\ stream' = stream /\ evQ' = evQ /\ cmdQ' = cmdQ /\ worker' = worker
  BY DEF Eos, Idle, Quiet, state, channels
<1> QED BY <1>1, EosBegins, BeginsFlow

LEMMA InputGapFlow ==
    ASSUME TypeInv, Piped, NEW pts \in Nat, NEW end \in Nat, InputGap(pts, end)
    PROVE  Piped'
<1>1. /\ todo = <<>> /\ ~sinkFlush /\ due = "data"
      /\ base' = base /\ stream' = stream /\ evQ' = evQ /\ cmdQ' = cmdQ /\ worker' = worker
  BY DEF InputGap, Idle, Quiet, state, channels
<1> QED BY <1>1, InputGapBegins, BeginsFlow

LEMMA ChainFlow ==
    ASSUME TypeInv, Piped, NEW pts \in Nat, NEW len \in Nat, NEW flagged \in BOOLEAN,
           Chain(pts, len, flagged)
    PROVE  Piped'
<1>1. /\ todo = <<>> /\ ~sinkFlush /\ due = "data"
      /\ base' = base /\ stream' = stream /\ evQ' = evQ /\ cmdQ' = cmdQ /\ worker' = worker
  BY DEF Chain, Idle, Quiet, state, channels
<1> QED BY <1>1, ChainBegins, BeginsFlow

\* A flush abandons the stream where it is.
LEMMA FlushStopFlow ==
    ASSUME TypeInv, Piped, FlushStop
    PROVE  Piped'
<1>1. /\ todo = <<>> /\ base' = NoTime /\ evQ' = evQ /\ cmdQ' = cmdQ /\ worker' = worker
  BY DEF FlushStop, ResetTimeline, channels
<1>2. ~Discarding /\ ~AwaitsRestart
  BY <1>1, IdleDue
<1>3. HandlerOK' /\ Discarding' /\ ~AwaitsRestart'
  BY FlushStopBegins
<1>4. One(Pipe)
  BY <1>2 DEF Piped, Flowing, Fresh
<1>5. ErrorLast' /\ One(Pipe')
  BY <1>1, <1>4, PipeKept, SentErrors DEF Piped
<1>6. Flowing' /\ Flushed' /\ Fresh'
  BY <1>1, <1>3, <1>5 DEF Flowing, Flushed, Fresh
<1> QED BY <1>3, <1>5, <1>6 DEF Piped

-----------------------------------------------------------------------------
\* What a step pushes.

LEMMA NothingPushed ==
    ASSUME out' = Nothing \/ \E kind : out' = Event(kind)
    PROVE  OnItsOwnTimeline'
<1>1. out'.cover = <<>>
  BY DEF Nothing, Event
<1>2. Words(out'.cover) = {}
  BY <1>1 DEF Words
<1> QED BY <1>2 DEF OnItsOwnTimeline

LEMMA GapsPushed ==
    ASSUME NEW cover, \A i \in DOMAIN cover : cover[i].kind = "gap", Publish(cover)
    PROVE  OnItsOwnTimeline'
<1>1. out' = Nothing \/ out'.cover = cover
  BY DEF Publish
<1>2. CASE out'.cover = cover
  <2>1. Words(out'.cover) = {}
    BY <1>2 DEF Words
  <2> QED BY <2>1 DEF OnItsOwnTimeline
<1> QED BY <1>1, <1>2, NothingPushed

LEMMA GapsMade ==
    /\ \A from, to : \A i \in DOMAIN <<Gap(from, to)>> : <<Gap(from, to)>>[i].kind = "gap"
    /\ \A from, to : \A i \in DOMAIN GapCover(from, to) : GapCover(from, to)[i].kind = "gap"
    /\ \A at : \A i \in DOMAIN OpeningCover(at) : OpeningCover(at)[i].kind = "gap"
<1>1. ASSUME NEW from, NEW to
      PROVE  \A i \in DOMAIN <<Gap(from, to)>> : <<Gap(from, to)>>[i].kind = "gap"
  <2> DEFINE g == Gap(from, to)
  <2>1. g.kind = "gap"
    BY DEF Gap
  <2> HIDE DEF g
  <2>2. DOMAIN <<g>> = 1 .. 1 /\ <<g>>[1] = g
    OBVIOUS
  <2>3. \A i \in DOMAIN <<g>> : <<g>>[i].kind = "gap"
    BY <2>1, <2>2
  <2> QED BY <2>3 DEF g
<1>2. DOMAIN <<>> = {}
  OBVIOUS
<1>3. ASSUME NEW from, NEW to
      PROVE  \A i \in DOMAIN GapCover(from, to) : GapCover(from, to)[i].kind = "gap"
  <2>1. CASE to > from
    <3>1. GapCover(from, to) = <<Gap(from, to)>>
      BY <2>1 DEF GapCover
    <3> QED BY <1>1, <3>1
  <2>2. CASE ~(to > from)
    <3>1. GapCover(from, to) = <<>>
      BY <2>2 DEF GapCover
    <3> QED BY <1>2, <3>1
  <2> QED BY <2>1, <2>2
<1>4. ASSUME NEW at
      PROVE  \A i \in DOMAIN OpeningCover(at) : OpeningCover(at)[i].kind = "gap"
  <2>1. CASE outPts = NoTime
    <3>1. OpeningCover(at) = <<>>
      BY <2>1 DEF OpeningCover
    <3> QED BY <1>2, <3>1
  <2>2. CASE outPts # NoTime
    <3>1. OpeningCover(at) = GapCover(outPts, at)
      BY <2>2 DEF OpeningCover
    <3> QED BY <1>3, <3>1
  <2> QED BY <2>1, <2>2
<1> QED BY <1>1, <1>3, <1>4

\* Words come out on the timeline their audio was fed in.
LEMMA WordsPushed ==
    ASSUME TypeInv, base # NoTime => WordsCurrent, TakeWords
    PROVE  OnItsOwnTimeline'
<1> DEFINE ev == Head(evQ)
<1>1. CASE Silent
  BY <1>1, NothingPushed DEF Silent
<1>2. ASSUME base # NoTime, ev \in SpokenEvent, NEW cover \in Seq(Piece), ShowsAudioOf(cover, ev), Publish(cover)
      PROVE  OnItsOwnTimeline'
  <2>1. WordsCurrent
    BY <1>2
  <2>2. evQ \in Seq(EventType) /\ evQ # <<>> /\ evQ[1].type = "words" /\ ev = evQ[1] /\ 1 \in DOMAIN evQ
    <3>1. evQ \in Seq(EventType) /\ evQ # <<>> /\ Head(evQ).type = "words"
      BY DEF TypeInv, TakeWords
    <3> QED BY <3>1, NextEvent, EmptySeq
  <2>3. ShowsCurrent(ev)
    BY <2>1, <2>2 DEF WordsCurrent
  <2> HIDE DEF ev
  <2>4. \A i \in DOMAIN cover : cover[i].kind = "word" => cover[i].fedIn = stream
    BY <1>2, <2>3 DEF ShowsAudioOf, ShowsRow, ShowsTick, ShowsCurrent
  <2>5. stream' = stream
    BY DEF TakeWords
  <2>6. out' = Nothing \/ out'.cover = cover
    BY <1>2 DEF Publish
  <2>7. CASE out'.cover = cover
    <3>1. \A w \in Words(out'.cover) : w.fedIn = stream'
      BY <2>4, <2>5, <2>7 DEF Words
    <3> QED BY <3>1 DEF OnItsOwnTimeline
  <2> QED BY <2>6, <2>7, NothingPushed
<1>3. \/ Silent /\ UNCHANGED <<todo, outPts>>
      \/ /\ base # NoTime /\ ev \in SpokenEvent /\ outPts' \in Nat
         /\ \E cover \in Seq(Piece) : ShowsAudioOf(cover, ev) /\ Publish(cover)
         /\ Abandon \/ UNCHANGED todo
  <2> DEFINE head == ev
  <2>1. head = Head(evQ)
    OBVIOUS
  <2> HIDE DEF head
  <2> QED BY <2>1, TakeWordsShows DEF head
<1> HIDE DEF ev
<1> QED BY <1>1, <1>2, <1>3

\* Everything else that reaches downstream is a GAP or an event.
LEMMA UpstreamPushes ==
    ASSUME Upstream
    PROVE  OnItsOwnTimeline'
<1>1. out' = Nothing
  BY DEF Upstream, Caps, Segment, Eos, FlushStop, InputGap, Chain, Quiet, Silent
<1> QED BY <1>1, NothingPushed

LEMMA StreamingPushes ==
    ASSUME TypeInv, base # NoTime => WordsCurrent, Streaming
    PROVE  OnItsOwnTimeline'
<1>1. CASE DoFinalize \/ DoRestart \/ DoFeed \/ DoPlanGap \/ AwaitReady \/ TakeMarker \/ TakeError \/ DrainEnds
  <2>1. out' = Nothing
    BY <1>1 DEF DoFinalize, DoRestart, DoFeed, DoPlanGap, AwaitReady, TakeMarker, TakeError, DrainEnds,
                Quiet, Silent
  <2> QED BY <2>1, NothingPushed
<1>2. CASE DoBridge
  <2>1. out' = Nothing \/ \E from, to : Publish(<<Gap(from, to)>>)
    BY <1>2 DEF DoBridge, Silent
  <2> QED BY <2>1, NothingPushed, GapsPushed, GapsMade
<1>3. CASE Withhold
  <2>1. out' = Nothing \/ \E from, to : Publish(<<Gap(from, to)>>)
    BY <1>3 DEF Withhold, Silent
  <2> QED BY <2>1, NothingPushed, GapsPushed, GapsMade
<1>4. CASE PassThrough \/ \E kept \in 1 .. MaxPts : OpenGate(kept)
  <2>1. \E at, end, len, pad : Admit(at, end, len, pad)
    BY <1>4 DEF PassThrough, OpenGate
  <2>2. out' = Nothing \/ \E at : Publish(OpeningCover(at))
    BY <2>1 DEF Admit, Silent
  <2> QED BY <2>2, NothingPushed, GapsPushed, GapsMade
<1>5. CASE DoInputGap
  <2>1. \E from, to : Publish(GapCover(from, to))
    BY <1>5 DEF DoInputGap
  <2> QED BY <2>1, GapsPushed, GapsMade
<1>6. CASE ForwardSegment \/ ForwardEos \/ ForwardFlushStop
  <2>1. out' = Nothing \/ \E kind : out' = Event(kind)
    BY <1>6 DEF ForwardSegment, ForwardEos, ForwardFlushStop, Forward
  <2> QED BY <2>1, NothingPushed
<1>7. CASE TakeProgress
  <2>1. out' = Nothing \/ \E from, to : Publish(<<Gap(from, to)>>)
    BY <1>7 DEF TakeProgress, Advance, Silent
  <2> QED BY <2>1, NothingPushed, GapsPushed, GapsMade
<1>8. CASE TakeWords
  BY <1>8, WordsPushed
<1> QED BY <1>1, <1>2, <1>3, <1>4, <1>5, <1>6, <1>7, <1>8 DEF Streaming

-----------------------------------------------------------------------------
\* An element that is never stopped: its src pad only flushes after its sink pad.
Playing == phase = "paused" /\ (srcFlush => sinkFlush)
TimelineInv == Playing /\ Piped /\ OnItsOwnTimeline

LEMMA UpstreamFlow ==
    ASSUME TypeInv, Playing, Piped, Upstream
    PROVE  Playing' /\ Piped'
<1>1. \A n \in FirstPts .. MaxPts : n \in Nat
  BY TranscriberAssumption
<1>2. Durations \subseteq Nat
  BY TranscriberAssumption
<1>3. ASSUME NEW pts \in FirstPts .. MaxPts, NEW end \in FirstPts .. MaxPts, InputGap(pts, end)
      PROVE  Piped'
  BY <1>1, <1>3, InputGapFlow
<1>4. ASSUME NEW pts \in FirstPts .. MaxPts, NEW len \in Durations, NEW flagged \in BOOLEAN,
             Chain(pts, len, flagged)
      PROVE  Piped'
  BY <1>1, <1>2, <1>4, ChainFlow
<1>5. Piped'
  BY <1>3, <1>4, CapsFlow, SegmentFlow, EosFlow, FlushStopFlow DEF Upstream
<1>6. phase' = phase /\ srcFlush' = srcFlush /\ sinkFlush' = sinkFlush
  BY DEF Upstream, Caps, Segment, Eos, FlushStop, InputGap, Chain, element
<1> QED BY <1>5, <1>6 DEF Playing

LEMMA StreamingFlow ==
    ASSUME TypeInv, TypeInv', Playing, Piped, Streaming
    PROVE  Playing' /\ Piped'
<1>1. ASSUME NEW kept \in 1 .. MaxPts, OpenGate(kept) PROVE Piped'
  <2>1. kept \in Nat
    BY TranscriberAssumption
  <2> QED BY <1>1, <2>1, OpenGateFlow
<1>2. Piped'
  BY <1>1, DoFinalizeFlow, DoRestartFlow, DoFeedFlow, QuietSteps, PassThroughFlow, DoPlanGapFlow,
     FlushStopEnds, AwaitReadyFlow, TakeWordsFlow, TakeProgressFlow, TakeMarkerFlow, TakeErrorFlow
     DEF Streaming, Playing
<1>3. CASE ForwardFlushStop
  <2>1. phase' = phase /\ srcFlush' = (phase = "stopping")
    BY <1>3 DEF ForwardFlushStop, Forward
  <2> QED BY <1>2, <2>1 DEF Playing
<1>4. CASE ~ForwardFlushStop
  <2>1. phase' = phase /\ srcFlush' = srcFlush /\ sinkFlush' = sinkFlush
    BY <1>4 DEF Streaming, DoFinalize, DoRestart, DoFeed, DoBridge, Withhold, PassThrough, OpenGate, Admit,
                DoPlanGap, DoInputGap, ForwardSegment, ForwardEos, Forward, AwaitReady, TakeWords,
                TakeProgress, TakeMarker, TakeError, DrainEnds, element
  <2> QED BY <1>2, <2>1 DEF Playing
<1> QED BY <1>3, <1>4

LEMMA WorkerStepFlow ==
    ASSUME TypeInv, TypeInv', Playing, Piped, Worker \/ WorkerFails
    PROVE  Playing' /\ Piped' /\ OnItsOwnTimeline'
<1>1. /\ Keeps(Pipe', Pipe) /\ ErrorLast' /\ WorkerKeeps
      /\ WordsCurrent /\ HeldCurrent => WordsCurrent' /\ HeldCurrent'
  BY WorkerFlow DEF Piped
<1>2. /\ todo' = todo /\ base' = base /\ due' = due /\ out' = Nothing
      /\ phase' = phase /\ sinkFlush' = sinkFlush /\ srcFlush' = srcFlush
  BY <1>1, WorkerKeepsAll
<1>3. Piped'
  BY <1>1, <1>2, OtherFlow DEF Piped
<1> QED BY <1>2, <1>3, NothingPushed DEF Playing

\* The application flushes at any time; it does not stop the element here.
LEMMA ApplicationFlow ==
    ASSUME TypeInv, "stop" \notin Features, Playing, Piped, Application
    PROVE  Playing' /\ Piped' /\ OnItsOwnTimeline'
<1>1. FlushStart \/ ForwardFlushStart
  BY DEF Application, PausedToReady, DeactivateSrc, DeactivateSink, ReadyToPaused, ReadyToNull, NullToReady,
         Playing
<1>2. /\ todo' = todo /\ base' = base /\ due' = due /\ stream' = stream /\ out' = Nothing
      /\ evQ' = evQ /\ cmdQ' = cmdQ /\ worker' = worker
      /\ phase' = phase /\ sinkFlush' /\ (srcFlush' => sinkFlush')
  BY <1>1 DEF FlushStart, ForwardFlushStart, Quiet, state, channels, Playing, TypeInv, ElementOK
<1>3. /\ WordsCurrent /\ HeldCurrent => WordsCurrent' /\ HeldCurrent'
      /\ Keeps(Pipe', Pipe) /\ ErrorLast'
  BY <1>2, ChannelsCurrent DEF Piped
<1>4. Piped'
  BY <1>2, <1>3, OtherFlow DEF Piped
<1> QED BY <1>2, <1>4, NothingPushed DEF Playing

LEMMA StutterFlow ==
    ASSUME TypeInv, TimelineInv, UNCHANGED vars
    PROVE  TimelineInv'
<1>1. /\ todo' = todo /\ base' = base /\ due' = due /\ stream' = stream /\ out' = out
      /\ evQ' = evQ /\ cmdQ' = cmdQ /\ worker' = worker
      /\ phase' = phase /\ sinkFlush' = sinkFlush /\ srcFlush' = srcFlush
  BY DEF vars, element, state, channels, observed
<1>2. /\ WordsCurrent /\ HeldCurrent => WordsCurrent' /\ HeldCurrent'
      /\ Keeps(Pipe', Pipe) /\ ErrorLast'
  BY <1>1, ChannelsCurrent DEF TimelineInv, Piped
<1>3. Piped'
  BY <1>1, <1>2, OtherFlow DEF TimelineInv, Piped
<1> QED BY <1>1, <1>3 DEF TimelineInv, Playing, OnItsOwnTimeline

LEMMA NextFlow ==
    ASSUME "stop" \notin Features, TypeInv, TypeInv', TimelineInv, [Next]_vars
    PROVE  TimelineInv'
<1>1. CASE Upstream
  BY <1>1, UpstreamFlow, UpstreamPushes DEF TimelineInv
<1>2. CASE Streaming
  <2>1. base # NoTime => WordsCurrent
    BY DEF TimelineInv, Piped, Flowing
  <2> QED BY <1>2, <2>1, StreamingFlow, StreamingPushes DEF TimelineInv
<1>3. CASE Worker \/ WorkerFails
  BY <1>3, WorkerStepFlow DEF TimelineInv
<1>4. CASE Application
  BY <1>4, ApplicationFlow DEF TimelineInv
<1> QED BY <1>1, <1>2, <1>3, <1>4, StutterFlow DEF Next

\* Nothing is queued, and the worker has heard nothing.
LEMMA FreshPipe ==
    ASSUME NEW evs \in Seq(EventType), NEW cmds \in Seq(Commands), NEW w
    PROVE  Len(evs) = 0 /\ Len(cmds) = 0 /\ w.heard = <<>> =>
              \A i \in DOMAIN PipeOf(evs, cmds, w) : PipeOf(evs, cmds, w)[i] = "none"
<1> DEFINE p == PipeOf(evs, cmds, w)
           n == Items(evs, cmds, w)
<1>1. p = PipeOf(evs, cmds, w) /\ n = Items(evs, cmds, w)
  OBVIOUS
<1> HIDE DEF p, n
<1>2. /\ DOMAIN p = 1 .. n
      /\ Lives(w) => p[Len(evs) + 1] = HeldKind(w)
      /\ \A i \in 1 .. n : \/ i \in 1 .. Len(evs)
                           \/ Lives(w) /\ i = Len(evs) + 1
                           \/ Lives(w) /\ \E j \in 1 .. Len(cmds) : i = Len(evs) + 1 + j
  BY <1>1, PipeItems
<1>3. Len(evs) = 0 /\ Len(cmds) = 0 /\ w.heard = <<>> => \A i \in DOMAIN p : p[i] = "none"
  BY <1>2 DEF HeldKind
<1> QED BY <1>3 DEF p

LEMMA InitFlow == Init => TimelineInv
<1> SUFFICES ASSUME Init PROVE TimelineInv
  OBVIOUS
<1>1. /\ todo = <<>> /\ base = NoTime /\ evQ = <<>> /\ cmdQ = <<>> /\ out = Nothing /\ due = "caps"
      /\ phase = "paused" /\ srcFlush = FALSE
      /\ worker.heard = <<>>
  BY DEF Init, NewWorker
<1>2. TypeInv
  BY InitType
<1>3. /\ ~RestartDue /\ ~EndDue /\ ~Discarding /\ ~AwaitsRestart /\ ~AwaitsDrained
      /\ \A op : ~Has(op)
  BY <1>1, IdleDue
<1>4. DOMAIN todo = {} /\ DOMAIN evQ = {}
  BY <1>1
<1>5. HandlerOK /\ ErrorLast
  BY <1>3, <1>4 DEF HandlerOK, ErrorLast
<1>6. \A i \in DOMAIN Pipe : Pipe[i] = "none"
  <2>1. evQ \in Seq(EventType) /\ cmdQ \in Seq(Commands) /\ Len(evQ) = 0 /\ Len(cmdQ) = 0
    BY <1>1
  <2> QED BY <1>1, <2>1, FreshPipe DEF Pipe
<1>7. Sealed(Pipe) /\ One(Pipe)
  BY <1>6 DEF Sealed, One
<1>8. Flowing /\ Flushed /\ Fresh
  BY <1>1, <1>3, <1>7 DEF Flowing, Flushed, Fresh, Ahead
<1>9. OnItsOwnTimeline
  <2>1. out.cover = <<>>
    BY <1>1 DEF Nothing
  <2>2. Words(out.cover) = {}
    BY <2>1 DEF Words
  <2> QED BY <2>2 DEF OnItsOwnTimeline
<1> QED BY <1>1, <1>5, <1>8, <1>9 DEF TimelineInv, Playing, Piped

\* The element is not stopped: a word is placed on the timeline of the stream
\* its audio was fed in, whatever flushes, segments, discontinuities, lost
\* buffers and failed calls come between the feed and the push.
THEOREM FlushesKeepTimelines ==
    ASSUME "stop" \notin Features
    PROVE  Spec => []OnItsOwnTimeline
<1>1. TypeInv /\ TimelineInv /\ [Next]_vars => TypeInv' /\ TimelineInv'
  BY NextType, NextFlow
<1>2. Init => TypeInv /\ TimelineInv
  BY InitType, InitFlow
<1>3. TypeInv /\ TimelineInv => OnItsOwnTimeline
  BY DEF TimelineInv
<1> QED BY <1>1, <1>2, <1>3, PTL DEF Spec

-----------------------------------------------------------------------------
\* An element that is never flushed.  What cancels is a state change, and the
\* cancel token then stays set until there is a new worker: until the token is
\* set the pipe is as orderly as could be, and afterwards the worker commits
\* nothing more.
InOrder(evs) == \A i, j \in DOMAIN evs : evs[i].type = "restarted" /\ Shown(evs[j]) => j < i
NoneShown(evs) == \A i \in DOMAIN evs : ~Shown(evs[i])
Running ==
    ~cancel =>
        /\ One(Pipe) /\ (AwaitsRestart \/ NoBar(Pipe))
        /\ IF base = NoTime THEN Empty(Pipe) ELSE WordsCurrent /\ HeldCurrent /\ Sealed(Pipe)
Cancelled ==
    cancel => InOrder(evQ) /\ IF base = NoTime THEN NoneShown(evQ) ELSE WordsCurrent
Settled == HandlerOK /\ ErrorLast /\ Running /\ Cancelled

\* Words nobody shows are of no timeline.
LEMMA NoneCurrent ==
    ASSUME TypeInv, NoneShown(evQ)
    PROVE  WordsCurrent
<1>1. \A i \in DOMAIN evQ : evQ[i].type = "words" => evQ[i].rows = <<>>
  BY DEF NoneShown, Shown
<1> QED BY <1>1 DEF WordsCurrent, ShowsCurrent

\* The events in front of the pipe are ordered as it is.
LEMMA EventsOrdered ==
    ASSUME TypeInv
    PROVE  /\ Sealed(Pipe) => InOrder(evQ)
           /\ Empty(Pipe) => NoneShown(evQ)
<1> DEFINE evs == evQ
           cmds == cmdQ
           w == worker
           p == Pipe
           n == PipeLen
<1>1. evs \in Seq(EventType) /\ cmds \in Seq(Commands)
  BY PipeNow
<1>2. p = PipeOf(evs, cmds, w) /\ n = Items(evs, cmds, w)
  BY DEF Pipe, PipeLen
<1>3. DOMAIN evs = 1 .. Len(evs)
  BY <1>1
<1> HIDE DEF evs, cmds, w, p, n
<1>4. DOMAIN p = 1 .. n /\ \A i \in 1 .. Len(evs) : i \in 1 .. n /\ p[i] = EventKind(evs[i])
  BY <1>1, <1>2, PipeItems
<1>5. \A i \in DOMAIN evs : /\ i \in DOMAIN p
                            /\ evs[i].type = "restarted" => p[i] = "bar"
                            /\ Shown(evs[i]) => IsText(p[i])
  BY <1>3, <1>4 DEF EventKind, IsText, Shown
<1>6. Sealed(p) => InOrder(evs)
  BY <1>5 DEF Sealed, InOrder
<1>7. Empty(p) => NoneShown(evs)
  BY <1>5 DEF Empty, NoneShown
<1> QED BY <1>6, <1>7 DEF p, evs

\* Taking an event, and restarting with one.
LEMMA TakenOrder ==
    ASSUME TypeInv, evQ # <<>>, evQ' = Tail(evQ)
    PROVE  /\ InOrder(evQ) => InOrder(evQ')
           /\ NoneShown(evQ) => NoneShown(evQ')
           /\ InOrder(evQ) /\ Head(evQ).type = "restarted" => NoneShown(evQ')
<1> DEFINE old == evQ
           evs == Tail(evQ)
           E == Len(old)
<1>1. old \in Seq(EventType) /\ old # <<>>
  BY PipeNow
<1>2. /\ evs \in Seq(EventType) /\ E \in Nat \ {0} /\ Len(evs) = E - 1 /\ \A i \in 1 .. E - 1 : evs[i] = old[i + 1]
      /\ Head(old) = old[1]
  BY <1>1, HeadTailProperties, EmptySeq
<1>3. DOMAIN old = 1 .. E /\ DOMAIN evs = 1 .. Len(evs)
  BY <1>1, <1>2
<1>4. evQ' = evs
  OBVIOUS
<1> HIDE DEF evs, old, E
<1>5. /\ 1 \in DOMAIN old
      /\ \A i \in DOMAIN evs : i \in Int /\ i + 1 \in DOMAIN old /\ evs[i] = old[i + 1] /\ ~(i + 1 < 1)
  BY <1>2, <1>3
<1>6. InOrder(old) => InOrder(evs)
  <2> SUFFICES ASSUME InOrder(old), NEW i \in DOMAIN evs, NEW j \in DOMAIN evs,
                      evs[i].type = "restarted", Shown(evs[j])
               PROVE  j < i
    BY DEF InOrder
  <2>1. j + 1 < i + 1
    BY <1>5 DEF InOrder
  <2> QED BY <1>5, <2>1
<1>7. NoneShown(old) => NoneShown(evs)
  BY <1>5 DEF NoneShown
<1>8. InOrder(old) /\ old[1].type = "restarted" => NoneShown(evs)
  BY <1>5 DEF InOrder, NoneShown
<1> QED BY <1>2, <1>4, <1>6, <1>7, <1>8 DEF old

\* A step that changes none of that.
LEMMA SteadyStep ==
    ASSUME Running, Cancelled, cancel' = cancel, base' = base, Keeps(Pipe', Pipe),
           WordsCurrent => WordsCurrent',
           WordsCurrent /\ HeldCurrent => WordsCurrent' /\ HeldCurrent',
           InOrder(evQ) => InOrder(evQ'), NoneShown(evQ) => NoneShown(evQ'),
           AwaitsRestart => AwaitsRestart'
    PROVE  Running' /\ Cancelled'
<1>1. Running'
  BY DEF Running, Keeps
<1>2. Cancelled'
  BY DEF Cancelled
<1> QED BY <1>1, <1>2

LEMMA SteadyChannels ==
    ASSUME TypeInv, Settled, cancel' = cancel, base' = base, stream' = stream,
           evQ' = evQ, cmdQ' = cmdQ, worker' = worker, AwaitsRestart => AwaitsRestart', HandlerOK'
    PROVE  Settled'
<1>1. /\ WordsCurrent => WordsCurrent'
      /\ WordsCurrent /\ HeldCurrent => WordsCurrent' /\ HeldCurrent'
      /\ Keeps(Pipe', Pipe) /\ ErrorLast'
  BY ChannelsCurrent DEF Settled
<1> QED BY <1>1, SteadyStep DEF Settled

\* Without events and without a worker nothing can go wrong.
LEMMA EmptiedStep ==
    ASSUME TypeInv', evQ' = <<>>, ~Alive', HandlerOK'
    PROVE  Settled'
<1>1. /\ \A i \in DOMAIN evQ' : FALSE
      /\ NoBar(Pipe') /\ One(Pipe') /\ Empty(Pipe') /\ Sealed(Pipe')
  BY PipeStopped
<1>2. WordsCurrent' /\ HeldCurrent' /\ ErrorLast'
  BY <1>1 DEF WordsCurrent, HeldCurrent, ErrorLast
<1>3. InOrder(evQ') /\ NoneShown(evQ')
  BY <1>1 DEF InOrder, NoneShown
<1> QED BY <1>1, <1>2, <1>3 DEF Settled, Running, Cancelled

LEMMA FailedStep ==
    ASSUME TypeInv, TypeInv', Settled, Abandon, evQ' = <<>>, ~Alive, worker' = worker,
           base' = base, due' = due, sinkFlush' = sinkFlush
    PROVE  Settled'
<1>1. PICK n \in 1 .. Len(todo) : Dropped(n)
  BY AbandonDrops DEF TypeInv
<1>2. n \in Nat \ {0}
  BY <1>1, HeadOfTodo DEF TypeInv
<1>3. HandlerOK' /\ ~Alive'
  BY <1>1, <1>2, DropHandler DEF Settled, Alive
<1> QED BY <1>3, EmptiedStep

LEMMA SteadyTaken ==
    ASSUME TypeInv, TypeInv', Settled, evQ # <<>>, evQ' = Tail(evQ), cmdQ' = cmdQ, worker' = worker,
           stream' = stream, base' = base, cancel' = cancel, AwaitsRestart => AwaitsRestart', HandlerOK'
    PROVE  Settled'
<1>1. Keeps(Pipe', Pipe)
  BY EventTaken
<1>2. /\ WordsCurrent => WordsCurrent'
      /\ WordsCurrent /\ HeldCurrent => WordsCurrent' /\ HeldCurrent'
      /\ ErrorLast'
  BY TakenCurrent DEF Settled
<1>3. /\ InOrder(evQ) => InOrder(evQ')
      /\ NoneShown(evQ) => NoneShown(evQ')
  BY TakenOrder
<1> QED BY <1>1, <1>2, <1>3, SteadyStep DEF Settled

\* A step done that is not a restart.
LEMMA TailHandler ==
    ASSUME TypeInv, HandlerOK, todo # <<>>, todo' = Tail(todo), ~Restarting(todo[1]),
           base' = base, due' = due, sinkFlush' = sinkFlush
    PROVE  HandlerOK' /\ ~AwaitsRestart
<1>1. Dropped(1)
  BY StepDone
<1> QED BY <1>1, DropHandler, HeadDue

\* Audio, or the end of a stream, is sent behind everything else.
LEMMA SentStep ==
    ASSUME TypeInv, TypeInv', Settled, ~AwaitsRestart, HandlerOK', Alive, base # NoTime, base' = base,
           evQ' = evQ, worker' = worker, stream' = stream, cancel' = cancel, NEW cmd \in Commands,
           cmdQ' = Append(cmdQ, cmd), cmd.type = "feed" => cmd.stream = stream,
           CommandKind(cmd) \in {"text", "end"}
    PROVE  Settled'
<1>1. Grown(Pipe', Pipe, PipeLen, CommandKind(cmd)) /\ PipeLen \in Nat
  BY CommandSent
<1>2. NoBar(Pipe) => NoBar(Pipe')
  BY <1>1, GrownByText
<1>3. WordsCurrent /\ HeldCurrent => WordsCurrent' /\ HeldCurrent'
  BY SentCurrent
<1>4. NoBar(Pipe') => One(Pipe') /\ Sealed(Pipe')
  BY DEF NoBar, One, Sealed
<1>5. Running'
  BY <1>2, <1>3, <1>4 DEF Settled, Running
<1>6. Cancelled'
  BY DEF Settled, Cancelled, WordsCurrent, ShowsCurrent
<1>7. ErrorLast'
  BY SentErrors DEF Settled
<1> QED BY <1>5, <1>6, <1>7 DEF Settled

LEMMA DoFinalizeStep ==
    ASSUME TypeInv, TypeInv', Settled, DoFinalize
    PROVE  Settled'
<1>1. /\ todo # <<>> /\ todo[1].op = "finalize" /\ todo[1] \in StepType /\ Head(todo) = todo[1]
      /\ base' = base /\ stream' = stream /\ due' = due /\ sinkFlush' = sinkFlush /\ worker' = worker
      /\ cancel' = cancel
  BY HeadDue DEF DoFinalize, Doing, Quiet, element, state, Settled
<1>2. ~Restarting(todo[1])
  BY <1>1 DEF Restarting
<1>3. CASE base = NoTime
  <2>1. todo' = Tail(todo) /\ evQ' = evQ /\ cmdQ' = cmdQ
    BY <1>3 DEF DoFinalize, channels
  <2>2. HandlerOK' /\ ~AwaitsRestart
    BY <1>1, <1>2, <2>1, TailHandler DEF Settled
  <2> QED BY <1>1, <2>1, <2>2, SteadyChannels
<1> DEFINE wait == Await("drained", Head(todo).scope, FALSE)
           cmd == [type |-> "finalize"]
<1>4. base # NoTime => SendOrFail(cmd, <<wait>>)
  BY DEF DoFinalize
<1>5. wait \in StepType /\ wait.op = "await" /\ wait.marker = "drained"
  BY <1>1, StepFields, StepsMade DEF Await
<1>6. cmd \in Commands /\ cmd.type = "finalize" /\ CommandKind(cmd) = "end"
  BY DEF Commands, CommandKind
<1> HIDE DEF wait, cmd
<1>7. CASE base # NoTime /\ worker.state = "dead"
  <2>1. Abandon /\ evQ' = <<>> /\ ~Alive
    BY <1>4, <1>7 DEF SendOrFail, Alive, Lives
  <2> QED BY <1>1, <2>1, FailedStep
<1>8. CASE base # NoTime /\ worker.state # "dead"
  <2>1. evQ' = evQ /\ cmdQ' = Append(cmdQ, cmd) /\ todo' = <<wait>> \o Tail(todo) /\ Alive
    BY <1>4, <1>8 DEF SendOrFail, Alive, Lives
  <2>2. Answers(wait, todo[1])
    BY <1>1, <1>5 DEF Answers
  <2>3. HandlerOK'
    BY <1>1, <1>5, <2>1, <2>2, SentHandler DEF Settled
  <2>4. ~AwaitsRestart
    BY <1>1, <1>2, HeadDue DEF Settled
  <2> QED BY <1>1, <1>6, <1>8, <2>1, <2>3, <2>4, SentStep
<1> QED BY <1>3, <1>7, <1>8

LEMMA DoFeedStep ==
    ASSUME TypeInv, TypeInv', Settled, DoFeed
    PROVE  Settled'
<1>1. /\ todo # <<>> /\ todo[1].op = "feed" /\ todo[1] \in StepType /\ Head(todo) = todo[1] /\ 1 \in DOMAIN todo
      /\ base' = base /\ stream' = stream /\ due' = due /\ sinkFlush' = sinkFlush /\ worker' = worker
      /\ cancel' = cancel
  BY HeadDue DEF DoFeed, Doing, Quiet, element, Settled
<1>2. ~Restarting(todo[1])
  BY <1>1 DEF Restarting
<1> DEFINE cmd == [type |-> "feed", len |-> Head(todo).len, from |-> Head(todo).from, stream |-> stream]
<1>3. \/ todo' = Tail(todo) /\ UNCHANGED channels
      \/ SendOrFail(cmd, <<>>)
  BY DEF DoFeed
<1>4. cmd \in Commands /\ cmd.type = "feed" /\ CommandKind(cmd) = "text" /\ cmd.stream = stream
  BY <1>1, StepFields DEF Commands, CommandKind, TypeInv, ObservedOK
<1> HIDE DEF cmd
<1>5. CASE todo' = Tail(todo) /\ UNCHANGED channels
  <2>1. evQ' = evQ /\ cmdQ' = cmdQ
    BY <1>5 DEF channels
  <2>2. HandlerOK' /\ ~AwaitsRestart
    BY <1>1, <1>2, <1>5, TailHandler DEF Settled
  <2> QED BY <1>1, <2>1, <2>2, SteadyChannels
<1>6. CASE SendOrFail(cmd, <<>>) /\ worker.state = "dead"
  <2>1. Abandon /\ evQ' = <<>> /\ ~Alive
    BY <1>6 DEF SendOrFail, Alive, Lives
  <2> QED BY <1>1, <2>1, FailedStep
<1>7. CASE SendOrFail(cmd, <<>>) /\ worker.state # "dead"
  <2>1. evQ' = evQ /\ cmdQ' = Append(cmdQ, cmd) /\ todo' = <<>> \o Tail(todo) /\ Alive
    BY <1>7 DEF SendOrFail, Alive, Lives
  <2>2. todo' = Tail(todo)
    <3>1. Tail(todo) \in Seq(StepType)
      BY <1>1, HeadTailProperties DEF TypeInv
    <3> QED BY <2>1, <3>1, ConcatEmptySeq
  <2>3. HandlerOK' /\ ~AwaitsRestart
    BY <1>1, <1>2, <2>2, TailHandler DEF Settled
  <2>4. base # NoTime
    BY <1>1 DEF Settled, HandlerOK, Has
  <2> QED BY <1>1, <1>4, <2>1, <2>3, <2>4, SentStep
<1> QED BY <1>3, <1>5, <1>6, <1>7

\* At most one restart is under way, and it is sent behind all the words.
LEMMA DoRestartStep ==
    ASSUME TypeInv, TypeInv', Settled, DoRestart
    PROVE  Settled'
<1>1. /\ todo # <<>> /\ todo[1].op = "restart" /\ todo[1] \in StepType /\ Head(todo) = todo[1]
      /\ base' = base /\ stream' = stream /\ due' = due /\ sinkFlush' = sinkFlush /\ worker' = worker
      /\ cancel' = cancel
  BY HeadDue DEF DoRestart, Doing, Quiet, element, state, Settled
<1> DEFINE wait == Await("restarted", Head(todo).scope, Head(todo).discard)
           cmd == [type |-> "restart"]
<1>4. SendOrFail(cmd, <<wait>>)
  BY DEF DoRestart
<1>5. wait \in StepType /\ wait.op = "await" /\ wait.marker = "restarted" /\ wait.discard = todo[1].discard
  BY <1>1, StepFields, StepsMade DEF Await
<1>6. cmd \in Commands /\ cmd.type = "restart" /\ CommandKind(cmd) = "bar"
  BY DEF Commands, CommandKind
<1> HIDE DEF wait, cmd
<1>7. CASE worker.state = "dead"
  <2>1. Abandon /\ evQ' = <<>> /\ ~Alive
    BY <1>4, <1>7 DEF SendOrFail, Alive, Lives
  <2> QED BY <1>1, <2>1, FailedStep
<1>8. CASE worker.state # "dead"
  <2>1. evQ' = evQ /\ cmdQ' = Append(cmdQ, cmd) /\ todo' = <<wait>> \o Tail(todo) /\ Alive
    BY <1>4, <1>8 DEF SendOrFail, Alive, Lives
  <2>2. Answers(wait, todo[1])
    BY <1>1, <1>5 DEF Answers
  <2>3. HandlerOK'
    BY <1>1, <1>5, <2>1, <2>2, SentHandler DEF Settled
  <2>4. Grown(Pipe', Pipe, PipeLen, "bar") /\ PipeLen \in Nat
    BY <1>1, <1>6, <2>1, CommandSent
  <2>5. /\ NoBar(Pipe) => One(Pipe') /\ Sealed(Pipe')
        /\ Empty(Pipe) => Empty(Pipe')
    BY <2>4, GrownByBar
  <2>6. AwaitsRestart'
    BY <1>1, <1>5, <2>1, <2>2, SentDue
  <2>7. ~AwaitsRestart
    BY <1>1 DEF AwaitsRestart
  <2>8. WordsCurrent /\ HeldCurrent => WordsCurrent' /\ HeldCurrent'
    BY <1>1, <1>6, <2>1, SentCurrent
  <2>9. Running'
    BY <1>1, <2>5, <2>6, <2>7, <2>8 DEF Settled, Running
  <2>10. Cancelled'
    BY <1>1, <2>1 DEF Settled, Cancelled, WordsCurrent, ShowsCurrent
  <2>11. ErrorLast'
    BY <1>1, <2>1, SentErrors DEF Settled
  <2> QED BY <2>3, <2>9, <2>10, <2>11 DEF Settled
<1> QED BY <1>7, <1>8

LEMMA TailSteps ==
    ASSUME TypeInv, Settled,
           DoBridge \/ Withhold \/ DoInputGap \/ ForwardSegment \/ ForwardEos \/ DrainEnds
    PROVE  Settled'
<1>1. /\ todo # <<>> /\ Head(todo).op \in {"bridge", "enter", "input_gap", "segment", "eos", "drain"}
      /\ todo' = Tail(todo)
  BY DEF DoBridge, Withhold, DoInputGap, ForwardSegment, ForwardEos, Forward, DrainEnds, Doing
<1>2. evQ' = evQ /\ cmdQ' = cmdQ /\ worker' = worker /\ cancel' = cancel
  BY DEF DoBridge, Withhold, DoInputGap, ForwardSegment, ForwardEos, Forward, DrainEnds, channels
<1>3. stream' = stream /\ base' = base
  BY DEF DoBridge, Withhold, DoInputGap, ForwardSegment, ForwardEos, Forward, DrainEnds, state, Quiet
<1>4. due' = due /\ sinkFlush' = sinkFlush
  BY DEF DoBridge, Withhold, DoInputGap, ForwardSegment, ForwardEos, DrainEnds, element
<1>5. Head(todo) = todo[1]
  BY <1>1, HeadOfTodo DEF TypeInv
<1>6. ~Restarting(todo[1])
  BY <1>1, <1>5 DEF Restarting
<1>7. HandlerOK' /\ ~AwaitsRestart
  BY <1>1, <1>3, <1>4, <1>6, TailHandler DEF Settled
<1> QED BY <1>2, <1>3, <1>7, SteadyChannels

LEMMA PlanGapStep ==
    ASSUME TypeInv, Settled, DoPlanGap
    PROVE  Settled'
<1>1. /\ stream' = stream /\ base' = base /\ cancel' = cancel /\ HandlerOK' /\ ~AwaitsRestart
      /\ evQ' = evQ /\ cmdQ' = cmdQ /\ worker' = worker
  BY PlanGapHandler DEF Settled
<1> QED BY <1>1, SteadyChannels

\* A timeline is anchored when there is no word left of the one before.
LEMMA AdmitStep ==
    ASSUME TypeInv, TypeInv', Settled, Doing("enter"), NEW at \in Nat, NEW end, NEW len \in Nat, NEW pad \in Nat,
           Admit(at, end, len, pad)
    PROVE  Settled'
<1>1. /\ stream' = stream /\ cancel' = cancel /\ base' # NoTime /\ (base # NoTime => base' = base)
      /\ evQ' = evQ /\ cmdQ' = cmdQ /\ worker' = worker /\ HandlerOK' /\ ~AwaitsRestart
  BY AdmitHandler DEF Settled
<1>2. CASE base # NoTime
  BY <1>1, <1>2, SteadyChannels
<1>3. CASE base = NoTime
  <2>1. /\ WordsCurrent => WordsCurrent'
        /\ WordsCurrent /\ HeldCurrent => WordsCurrent' /\ HeldCurrent'
        /\ Keeps(Pipe', Pipe) /\ ErrorLast'
    BY <1>1, ChannelsCurrent DEF Settled
  <2>2. NoBar(Pipe') => One(Pipe') /\ Sealed(Pipe')
    BY DEF NoBar, One, Sealed
  <2>3. ~cancel => NoBar(Pipe) /\ WordsCurrent /\ HeldCurrent
    BY <1>1, <1>3, EmptyCurrent DEF Settled, Running
  <2>4. Running'
    BY <1>1, <2>1, <2>2, <2>3 DEF Running, Keeps
  <2>5. cancel => InOrder(evQ) /\ WordsCurrent
    BY <1>3, NoneCurrent DEF Settled, Cancelled
  <2>6. Cancelled'
    BY <1>1, <2>1, <2>5 DEF Cancelled
  <2> QED BY <1>1, <2>1, <2>4, <2>6 DEF Settled
<1> QED BY <1>2, <1>3

LEMMA PassThroughStep ==
    ASSUME TypeInv, TypeInv', Settled, PassThrough
    PROVE  Settled'
<1>1. \E at, len \in Nat : \E end : Doing("enter") /\ Admit(at, end, len, 0)
  BY PassThroughAdmits
<1> QED BY <1>1, AdmitStep

LEMMA OpenGateStep ==
    ASSUME NEW kept \in Nat, TypeInv, TypeInv', Settled, OpenGate(kept)
    PROVE  Settled'
<1>1. \E at \in Nat : \E end : Doing("enter") /\ Admit(at, end, kept, Warmup)
  BY OpenGateAdmits
<1>2. Warmup \in Nat
  BY TranscriberAssumption
<1> QED BY <1>1, <1>2, AdmitStep

LEMMA TakeProgressStep ==
    ASSUME TypeInv, TypeInv', Settled, TakeProgress
    PROVE  Settled'
<1>1. /\ evQ # <<>> /\ evQ' = Tail(evQ) /\ cmdQ' = cmdQ /\ worker' = worker /\ stream' = stream
      /\ todo' = todo /\ base' = base /\ due' = due /\ sinkFlush' = sinkFlush /\ cancel' = cancel
  BY DEF TakeProgress, element
<1>2. HandlerOK'
  BY <1>1, SameHandler DEF Settled, TypeInv, ElementOK
<1>3. AwaitsRestart => AwaitsRestart'
  BY <1>1 DEF AwaitsRestart
<1> QED BY <1>1, <1>2, <1>3, SteadyTaken

\* The worker has restarted: no word and no other restart is left.
LEMMA RestartedStep ==
    ASSUME TypeInv, TypeInv', Settled, todo # <<>>, todo[1].op = "await", todo[1].marker = "restarted",
           todo' = Tail(todo), evQ # <<>>, Head(evQ).type = "restarted", evQ' = Tail(evQ),
           cmdQ' = cmdQ, worker' = worker, base' = NoTime, due' = due, sinkFlush' = sinkFlush, cancel' = cancel
    PROVE  Settled'
<1>1. Restarting(todo[1]) /\ 1 \in DOMAIN todo /\ AwaitsRestart
  BY HeadDue DEF Restarting, AwaitsRestart, Settled
<1>2. Dropped(1)
  BY StepDone
<1>3. HandlerOK'
  <2>1. RestartDue
    BY <1>1 DEF RestartDue
  <2>2. ~Has("feed")
    BY <2>1 DEF Settled, HandlerOK
  <2> QED BY <1>2, <2>2, DropHandler DEF Settled
<1>4. /\ 1 \in DOMAIN Pipe /\ Pipe[1] = "bar" /\ Keeps(Pipe', Pipe)
      /\ \A i \in DOMAIN Pipe' : i + 1 \in DOMAIN Pipe /\ i + 1 # 1 /\ Pipe'[i] = Pipe[i + 1]
      /\ \A i \in DOMAIN Pipe : ~(i < 1)
  <2> DEFINE n == PipeLen
  <2>1. /\ n \in Nat \ {0} /\ DOMAIN Pipe = 1 .. n /\ DOMAIN Pipe' = 1 .. n - 1 /\ 1 \in 1 .. n
        /\ Pipe[1] = EventKind(Head(evQ)) /\ Keeps(Pipe', Pipe)
        /\ \A i \in 1 .. n - 1 : i + 1 \in 1 .. n /\ Pipe'[i] = Pipe[i + 1]
    BY EventTaken
  <2> HIDE DEF n
  <2>2. Pipe[1] = "bar"
    BY <2>1 DEF EventKind
  <2>3. /\ \A i \in 1 .. n - 1 : i + 1 # 1
        /\ \A i \in 1 .. n : ~(i < 1)
    BY <2>1
  <2> QED BY <2>1, <2>2, <2>3
<1>5. One(Pipe) => NoBar(Pipe')
  BY <1>4 DEF One, NoBar
<1>6. Sealed(Pipe) => Empty(Pipe)
  BY <1>4 DEF Sealed, Empty
<1>7. NoBar(Pipe') => One(Pipe')
  BY DEF NoBar, One
<1>8. Running'
  BY <1>4, <1>5, <1>6, <1>7 DEF Settled, Running, Keeps
<1>9. Cancelled'
  BY TakenOrder DEF Settled, Cancelled
<1>10. ErrorLast'
  BY TakenCurrent DEF Settled
<1> QED BY <1>3, <1>8, <1>9, <1>10 DEF Settled

LEMMA TakeMarkerStep ==
    ASSUME TypeInv, TypeInv', Settled, TakeMarker
    PROVE  Settled'
<1>1. /\ evQ # <<>> /\ evQ' = Tail(evQ) /\ cmdQ' = cmdQ /\ worker' = worker
      /\ due' = due /\ sinkFlush' = sinkFlush /\ cancel' = cancel
      /\ todo # <<>> /\ Head(todo) = todo[1] /\ todo[1] \in StepType
  BY HeadDue DEF TakeMarker, Waiting, element, Settled
<1> DEFINE awaited == Head(todo).op = "await" /\ Head(todo).marker = Head(evQ).type
<1>2. CASE ~awaited
  <2>1. todo' = todo /\ base' = base /\ stream' = stream
    BY <1>2 DEF TakeMarker
  <2>2. HandlerOK'
    BY <1>1, <2>1, SameHandler DEF Settled, TypeInv, ElementOK
  <2>3. AwaitsRestart => AwaitsRestart'
    BY <2>1 DEF AwaitsRestart
  <2> QED BY <1>1, <2>1, <2>2, <2>3, SteadyTaken
<1>3. CASE awaited
  <2>1. todo' = Tail(todo) /\ todo[1].op = "await" /\ todo[1].marker = Head(evQ).type
    BY <1>1, <1>3 DEF TakeMarker
  <2>2. todo[1].marker \in {"drained", "restarted"}
    BY <1>1, <2>1, StepFields
  <2>3. CASE Head(evQ).type = "drained"
    <3>1. base' = base /\ stream' = stream
      BY <1>3, <2>3 DEF TakeMarker
    <3>2. ~Restarting(todo[1])
      BY <2>1, <2>3 DEF Restarting
    <3>3. HandlerOK' /\ ~AwaitsRestart
      BY <1>1, <2>1, <3>1, <3>2, TailHandler DEF Settled
    <3> QED BY <1>1, <3>1, <3>3, SteadyTaken
  <2>4. CASE Head(evQ).type = "restarted"
    <3>1. base' = NoTime
      BY <1>3, <2>4 DEF TakeMarker, ResetTimeline
    <3> QED BY <1>1, <2>1, <2>4, <3>1, RestartedStep
  <2> QED BY <2>1, <2>2, <2>3, <2>4
<1> QED BY <1>2, <1>3

\* The src pad flushes only once the element is cancelled.
LEMMA TakeWordsStep ==
    ASSUME TypeInv, TypeInv', Settled, srcFlush => cancel, TakeWords
    PROVE  Settled'
<1>1. /\ evQ # <<>> /\ evQ' = Tail(evQ) /\ cmdQ' = cmdQ /\ worker' = worker /\ stream' = stream
      /\ base' = base /\ due' = due /\ sinkFlush' = sinkFlush /\ cancel' = cancel
  BY DEF TakeWords, element
<1>2. CASE todo' = todo
  <2>1. HandlerOK'
    BY <1>1, <1>2, SameHandler DEF Settled, TypeInv, ElementOK
  <2>2. AwaitsRestart => AwaitsRestart'
    BY <1>2 DEF AwaitsRestart
  <2> QED BY <1>1, <2>1, <2>2, SteadyTaken
<1>3. CASE todo' # todo
  <2>1. srcFlush /\ Abandon
    BY <1>3 DEF TakeWords
  <2>2. PICK n \in 1 .. Len(todo) : Dropped(n)
    BY <2>1, AbandonDrops DEF TypeInv
  <2>3. n \in Nat \ {0}
    BY <2>2, HeadOfTodo DEF TypeInv
  <2>4. HandlerOK'
    BY <1>1, <2>2, <2>3, DropHandler DEF Settled
  <2>5. Running'
    BY <1>1, <2>1 DEF Running
  <2>6. (WordsCurrent => WordsCurrent') /\ ErrorLast'
    BY <1>1, TakenCurrent DEF Settled
  <2>7. Cancelled'
    BY <1>1, <2>6, TakenOrder DEF Settled, Cancelled
  <2> QED BY <2>4, <2>5, <2>6, <2>7 DEF Settled
<1> QED BY <1>2, <1>3

LEMMA FailureTaken ==
    ASSUME TypeInv, TypeInv', Settled, evQ # <<>>, Head(evQ).type = "error", evQ' = Tail(evQ), Abandon,
           worker' = worker, base' = base, due' = due, sinkFlush' = sinkFlush
    PROVE  Settled'
<1>1. evQ' = <<>> /\ ~Alive
  BY LastError DEF Settled
<1> QED BY <1>1, FailedStep

LEMMA TakeErrorStep ==
    ASSUME TypeInv, TypeInv', Settled, TakeError
    PROVE  Settled'
<1>1. /\ Abandon /\ worker' = worker /\ base' = base /\ due' = due /\ sinkFlush' = sinkFlush
      /\ \/ evQ # <<>> /\ Head(evQ).type = "error" /\ evQ' = Tail(evQ)
         \/ evQ = <<>> /\ worker.state = "dead" /\ evQ' = evQ
  BY DEF TakeError, state, element
<1>2. CASE evQ # <<>> /\ Head(evQ).type = "error" /\ evQ' = Tail(evQ)
  BY <1>1, <1>2, FailureTaken
<1>3. CASE evQ = <<>> /\ worker.state = "dead" /\ evQ' = evQ
  <2>1. ~Alive /\ evQ' = <<>>
    BY <1>3 DEF Alive, Lives
  <2> QED BY <1>1, <2>1, FailedStep
<1> QED BY <1>1, <1>2, <1>3

LEMMA AwaitReadyStep ==
    ASSUME TypeInv, TypeInv', Settled, AwaitReady
    PROVE  Settled'
<1>1. /\ todo # <<>> /\ todo[1].op = "ensure_ready"
      /\ cmdQ' = cmdQ /\ worker' = worker /\ stream' = stream
      /\ base' = base /\ due' = due /\ sinkFlush' = sinkFlush /\ cancel' = cancel
  BY HeadDue DEF AwaitReady, Doing, Quiet, element, Settled
<1>2. ~Restarting(todo[1])
  BY <1>1 DEF Restarting
<1>3. todo' = Tail(todo) => HandlerOK' /\ ~AwaitsRestart
  BY <1>1, <1>2, TailHandler DEF Settled
<1>4. CASE ready
  <2>1. todo' = Tail(todo) /\ evQ' = evQ
    BY <1>4 DEF AwaitReady
  <2> QED BY <1>1, <1>3, <2>1, SteadyChannels
<1>5. CASE ~ready /\ evQ = <<>>
  <2>1. Abandon /\ evQ' = <<>> /\ ~Alive
    BY <1>5 DEF AwaitReady, Alive, Lives
  <2> QED BY <1>1, <2>1, FailedStep
<1>6. CASE ~ready /\ evQ # <<>>
  <2>1. evQ' = Tail(evQ)
    BY <1>6 DEF AwaitReady
  <2>2. CASE Head(evQ).type = "ready"
    <3>1. todo' = Tail(todo)
      BY <1>6, <2>2 DEF AwaitReady
    <3> QED BY <1>1, <1>3, <1>6, <2>1, <3>1, SteadyTaken
  <2>3. CASE Head(evQ).type = "error"
    <3>1. Abandon
      BY <1>6, <2>3 DEF AwaitReady
    <3> QED BY <1>1, <1>6, <2>1, <2>3, <3>1, FailureTaken
  <2>4. CASE Head(evQ).type \notin {"ready", "error"}
    <3>1. todo' = todo
      BY <1>6, <2>4 DEF AwaitReady
    <3>2. HandlerOK'
      BY <1>1, <3>1, SameHandler DEF Settled, TypeInv, ElementOK
    <3>3. ~AwaitsRestart
      BY <1>1 DEF AwaitsRestart
    <3> QED BY <1>1, <1>6, <2>1, <3>2, <3>3, SteadyTaken
  <2> QED BY <2>2, <2>3, <2>4
<1> QED BY <1>4, <1>5, <1>6

-----------------------------------------------------------------------------
\* An element that is never flushed: its src pad flushes while it stops.
Unflushed ==
    /\ ~sinkFlush
    /\ phase = "paused" => ~srcFlush
    /\ phase = "stopping" => cancel
    /\ phase \in {"ready", "null"} => todo = <<>>
    /\ phase = "null" => evQ = <<>> /\ cmdQ = <<>> /\ ~Alive /\ base = NoTime

\* No handler ends a flush.
LEMMA NoFlushEnds ==
    ASSUME TypeInv, HandlerOK, ~sinkFlush
    PROVE  ~ForwardFlushStop /\ ~FlushStop
<1>1. ~Has("flush_stop")
  BY DEF HandlerOK
<1>2. ForwardFlushStop => Has("flush_stop")
  BY HeadDue DEF ForwardFlushStop, Forward, Doing, Has
<1> QED BY <1>1, <1>2 DEF FlushStop

LEMMA StreamingStep ==
    ASSUME TypeInv, TypeInv', Unflushed, Settled, Streaming
    PROVE  Unflushed' /\ Settled'
<1>1. ~ForwardFlushStop
  BY NoFlushEnds DEF Unflushed, Settled
<1>2. /\ phase' = phase /\ srcFlush' = srcFlush /\ sinkFlush' = sinkFlush /\ cancel' = cancel
      /\ todo # <<>>
  BY <1>1 DEF Streaming, DoFinalize, DoRestart, DoFeed, DoBridge, Withhold, PassThrough, OpenGate, Admit,
              DoPlanGap, DoInputGap, ForwardSegment, ForwardEos, Forward, AwaitReady, TakeWords,
              TakeProgress, TakeMarker, TakeError, DrainEnds, element, Doing, Waiting
<1>3. phase \in {"paused", "stopping"}
  BY <1>2 DEF Unflushed, TypeInv, ElementOK
<1>4. srcFlush => cancel
  BY <1>3 DEF Unflushed
<1>5. ASSUME NEW kept \in 1 .. MaxPts, OpenGate(kept) PROVE Settled'
  <2>1. kept \in Nat
    BY TranscriberAssumption
  <2> QED BY <1>5, <2>1, OpenGateStep
<1>6. Settled'
  BY <1>1, <1>4, <1>5, DoFinalizeStep, DoRestartStep, DoFeedStep, TailSteps, PassThroughStep, PlanGapStep,
     AwaitReadyStep, TakeWordsStep, TakeProgressStep, TakeMarkerStep, TakeErrorStep
     DEF Streaming
<1>7. Unflushed'
  BY <1>2, <1>3 DEF Unflushed
<1> QED BY <1>6, <1>7

LEMMA UpstreamStep ==
    ASSUME TypeInv, Unflushed, Settled, Upstream
    PROVE  Unflushed' /\ Settled'
<1>1. ~FlushStop
  BY NoFlushEnds DEF Unflushed, Settled
<1>2. \A n \in FirstPts .. MaxPts : n \in Nat
  BY TranscriberAssumption
<1>3. Durations \subseteq Nat
  BY TranscriberAssumption
<1>4. ASSUME NEW pts \in FirstPts .. MaxPts, NEW end \in FirstPts .. MaxPts, InputGap(pts, end)
      PROVE  HandlerOK'
  BY <1>2, <1>4, InputGapBegins DEF Begins
<1>5. ASSUME NEW pts \in FirstPts .. MaxPts, NEW len \in Durations, NEW flagged \in BOOLEAN,
             Chain(pts, len, flagged)
      PROVE  HandlerOK'
  BY <1>2, <1>3, <1>5, ChainBegins DEF Begins
<1>6. HandlerOK'
  BY <1>1, <1>4, <1>5, CapsBegins, SegmentBegins, EosBegins DEF Upstream, Begins
<1>7. /\ todo = <<>> /\ phase \in {"paused", "stopping"} /\ cancel' = cancel /\ base' = base /\ stream' = stream
      /\ evQ' = evQ /\ cmdQ' = cmdQ /\ worker' = worker
      /\ phase' = phase /\ srcFlush' = srcFlush /\ sinkFlush' = sinkFlush
  BY <1>1 DEF Upstream, Caps, Segment, Eos, InputGap, Chain, Idle, Quiet, element, state, channels
<1>8. ~AwaitsRestart
  BY <1>7, IdleDue
<1>9. Settled'
  BY <1>6, <1>7, <1>8, SteadyChannels
<1>10. Unflushed'
  BY <1>7 DEF Unflushed
<1> QED BY <1>9, <1>10

-----------------------------------------------------------------------------
\* The worker, once it is cancelled, shows nothing more.

LEMMA HiddenAdded ==
    ASSUME TypeInv, NEW new \in Seq(EventType), evQ' = evQ \o new, \A i \in DOMAIN new : ~Shown(new[i]),
           stream' = stream
    PROVE  /\ InOrder(evQ) => InOrder(evQ')
           /\ NoneShown(evQ) => NoneShown(evQ')
           /\ WordsCurrent => WordsCurrent'
<1> DEFINE old == evQ
           evs == evQ \o new
           E == Len(old)
           K == Len(new)
<1>1. /\ E \in Nat /\ K \in Nat /\ DOMAIN evs = 1 .. E + K
      /\ \A i \in 1 .. E + K : evs[i] = IF i <= E THEN old[i] ELSE new[i - E]
      /\ evQ' = evs
  BY PipeNow, ConcatProperties
<1>2. DOMAIN new = 1 .. K /\ DOMAIN old = 1 .. E
  BY PipeNow
<1> HIDE DEF old, evs, E, K
<1>3. \A i \in DOMAIN evs : /\ i \in Int
                            /\ (i \in DOMAIN old /\ evs[i] = old[i]) \/ (E < i /\ ~Shown(evs[i]))
  <2> SUFFICES ASSUME NEW i \in 1 .. E + K
               PROVE  i \in Int /\ ((i \in 1 .. E /\ evs[i] = old[i]) \/ (E < i /\ ~Shown(evs[i])))
    BY <1>1, <1>2
  <2>1. CASE i <= E
    BY <1>1, <2>1
  <2>2. CASE ~(i <= E)
    <3>1. i - E \in 1 .. K /\ evs[i] = new[i - E] /\ E < i
      BY <1>1, <2>2
    <3> QED BY <1>2, <3>1
  <2> QED BY <2>1, <2>2
<1>4. InOrder(old) => InOrder(evs)
  <2> SUFFICES ASSUME InOrder(old), NEW i \in DOMAIN evs, NEW j \in DOMAIN evs,
                      evs[i].type = "restarted", Shown(evs[j])
               PROVE  j < i
    BY DEF InOrder
  <2>1. j \in DOMAIN old /\ evs[j] = old[j]
    BY <1>3
  <2>2. CASE i \in DOMAIN old /\ evs[i] = old[i]
    BY <2>1, <2>2 DEF InOrder
  <2>3. CASE E < i
    <3>1. j \in 1 .. E /\ i \in Int
      BY <1>2, <1>3, <2>1
    <3> QED BY <1>1, <2>3, <3>1
  <2> QED BY <1>3, <2>2, <2>3
<1>5. NoneShown(old) => NoneShown(evs)
  BY <1>3 DEF NoneShown
<1>6. \A i \in DOMAIN new : new[i].type = "words" => ShowsCurrent(new[i])
  <2>1. \A i \in DOMAIN new : new[i].type = "words" => new[i].rows = <<>>
    BY DEF Shown
  <2> QED BY <2>1 DEF ShowsCurrent
<1>7. WordsCurrent => WordsCurrent'
  BY <1>6, ReportedCurrent
<1> QED BY <1>1, <1>4, <1>5, <1>7 DEF old

LEMMA CancelledReports ==
    ASSUME TypeInv, cancel, Worker \/ WorkerFails
    PROVE  evQ' = evQ \/ \E new \in Seq(EventType) : evQ' = evQ \o new /\ \A i \in DOMAIN new : ~Shown(new[i])
<1>1. ASSUME NEW ev \in EventType, ev.type # "words", evQ' = Append(evQ, ev)
      PROVE  \E new \in Seq(EventType) : evQ' = evQ \o new /\ \A i \in DOMAIN new : ~Shown(new[i])
  <2> DEFINE new == <<ev>>
  <2>1. new \in Seq(EventType) /\ DOMAIN new = 1 .. 1 /\ new[1] = ev
    OBVIOUS
  <2>2. evQ' = evQ \o new
    BY <1>1, PipeNow, AppendIsConcat
  <2> HIDE DEF new
  <2>3. \A i \in DOMAIN new : new[i] = ev
    BY <2>1
  <2>4. \A i \in DOMAIN new : ~Shown(new[i])
    BY <1>1, <2>3 DEF Shown
  <2> QED BY <2>1, <2>2, <2>4
<1>2. CASE WorkerLoads
  <2> DEFINE ev == [type |-> "ready"]
  <2>1. ev \in EventType /\ ev.type # "words" /\ evQ' = Append(evQ, ev)
    BY <1>2, EventsMade DEF WorkerLoads
  <2> HIDE DEF ev
  <2> QED BY <1>1, <2>1
<1>3. CASE WorkerFails
  <2> DEFINE ev == [type |-> "error"]
  <2>1. ev \in EventType /\ ev.type # "words" /\ evQ' = Append(evQ, ev)
    BY <1>3, EventsMade DEF WorkerFails
  <2> HIDE DEF ev
  <2> QED BY <1>1, <2>1
<1>4. CASE WorkerRestart
  <2> DEFINE ev == [type |-> "restarted"]
  <2>1. ev \in EventType /\ ev.type # "words" /\ evQ' = Append(evQ, ev)
    BY <1>4, EventsMade DEF WorkerRestart
  <2> HIDE DEF ev
  <2> QED BY <1>1, <2>1
<1>5. CASE WorkerFinalize
  BY <1>5, EndReports DEF Reports
<1>6. CASE WorkerFeed
  BY <1>6 DEF WorkerFeed
<1> QED BY <1>2, <1>3, <1>4, <1>5, <1>6 DEF Worker

LEMMA WorkerStep ==
    ASSUME TypeInv, TypeInv', Unflushed, Settled, Worker \/ WorkerFails
    PROVE  Unflushed' /\ Settled' /\ OnItsOwnTimeline'
<1>1. /\ Keeps(Pipe', Pipe) /\ ErrorLast' /\ WorkerKeeps
      /\ WordsCurrent /\ HeldCurrent => WordsCurrent' /\ HeldCurrent'
  BY WorkerFlow DEF Settled
<1>2. /\ todo' = todo /\ base' = base /\ due' = due /\ out' = Nothing /\ stream' = stream /\ cancel' = cancel
      /\ phase' = phase /\ sinkFlush' = sinkFlush /\ srcFlush' = srcFlush
  BY <1>1, WorkerKeepsAll
<1>3. HandlerOK'
  BY <1>2, SameHandler DEF Settled, TypeInv, ElementOK
<1>4. AwaitsRestart => AwaitsRestart'
  BY <1>2 DEF AwaitsRestart
<1>5. Running'
  BY <1>1, <1>2, <1>4 DEF Settled, Running, Keeps
<1>6. Cancelled'
  <2> SUFFICES ASSUME cancel PROVE Cancelled'
    BY <1>2 DEF Cancelled
  <2>1. CASE evQ' = evQ
    BY <1>2, <2>1 DEF Settled, Cancelled, WordsCurrent, ShowsCurrent
  <2>2. CASE evQ' # evQ
    <3>1. PICK new \in Seq(EventType) : evQ' = evQ \o new /\ \A i \in DOMAIN new : ~Shown(new[i])
      BY <2>2, CancelledReports
    <3>2. /\ InOrder(evQ) => InOrder(evQ')
          /\ NoneShown(evQ) => NoneShown(evQ')
          /\ WordsCurrent => WordsCurrent'
      BY <1>2, <3>1, HiddenAdded
    <3> QED BY <1>2, <3>2 DEF Settled, Cancelled
  <2> QED BY <2>1, <2>2
<1>7. phase # "null"
  <2>1. Alive
    BY DEF Worker, WorkerLoads, WorkerFeed, WorkerFinalize, WorkerRestart, WorkerFails, Command, Alive, Lives
  <2> QED BY <2>1 DEF Unflushed
<1>8. Unflushed'
  BY <1>2, <1>7 DEF Unflushed
<1> QED BY <1>1, <1>2, <1>3, <1>5, <1>6, <1>8, NothingPushed DEF Settled

-----------------------------------------------------------------------------
\* The application stops the element and starts it again.
UnflushedInv == Unflushed /\ Settled /\ OnItsOwnTimeline

LEMMA PausedToReadyStep ==
    ASSUME TypeInv, Unflushed, Settled, PausedToReady
    PROVE  Unflushed' /\ Settled'
<1>1. /\ todo' = todo /\ base' = base /\ due' = due /\ stream' = stream /\ sinkFlush' = sinkFlush
      /\ evQ' = evQ /\ cmdQ' = cmdQ /\ worker' = worker
      /\ phase' = "stopping" /\ cancel' = TRUE
  BY DEF PausedToReady, Quiet, state, channels
<1>2. HandlerOK'
  BY <1>1, SameHandler DEF Settled, TypeInv, ElementOK
<1>3. (WordsCurrent => WordsCurrent') /\ ErrorLast'
  BY <1>1, ChannelsCurrent DEF Settled
<1>4. NoneShown(evQ) => InOrder(evQ)
  BY DEF NoneShown, InOrder
<1>5. InOrder(evQ) /\ IF base = NoTime THEN NoneShown(evQ) ELSE WordsCurrent
  BY <1>4, EventsOrdered DEF Settled, Running, Cancelled
<1>6. Running' /\ Cancelled'
  BY <1>1, <1>3, <1>5 DEF Running, Cancelled
<1>7. Unflushed'
  BY <1>1 DEF Unflushed
<1> QED BY <1>2, <1>3, <1>6, <1>7 DEF Settled

LEMMA PadsStep ==
    ASSUME TypeInv, Unflushed, Settled, DeactivateSrc \/ DeactivateSink \/ ReadyToPaused
    PROVE  Unflushed' /\ Settled'
<1>1. /\ todo' = todo /\ base' = base /\ stream' = stream /\ cancel' = cancel
      /\ evQ' = evQ /\ cmdQ' = cmdQ /\ worker' = worker
  BY DEF DeactivateSrc, DeactivateSink, ReadyToPaused, Quiet, state, channels
<1>2. HandlerOK'
  <2>1. CASE DeactivateSrc \/ DeactivateSink
    <3>1. due' = due /\ sinkFlush' = sinkFlush
      BY <2>1 DEF DeactivateSrc, DeactivateSink, Unflushed, TypeInv, ElementOK
    <3> QED BY <1>1, <3>1, SameHandler DEF Settled, TypeInv, ElementOK
  <2>2. CASE ReadyToPaused
    <3>1. todo' = <<>>
      BY <1>1, <2>2 DEF ReadyToPaused, Unflushed
    <3> QED BY <3>1, EmptyHandler
  <2> QED BY <2>1, <2>2
<1>3. AwaitsRestart => AwaitsRestart'
  BY <1>1 DEF AwaitsRestart
<1>4. Settled'
  BY <1>1, <1>2, <1>3, SteadyChannels
<1>5. Unflushed'
  BY <1>1 DEF DeactivateSrc, DeactivateSink, ReadyToPaused, Unflushed
<1> QED BY <1>4, <1>5

LEMMA ReadyToNullStep ==
    ASSUME TypeInv', Unflushed, ReadyToNull
    PROVE  Unflushed' /\ Settled'
<1>1. /\ todo' = <<>> /\ evQ' = <<>> /\ cmdQ' = <<>> /\ base' = NoTime /\ sinkFlush' = sinkFlush /\ phase' = "null"
      /\ worker' = [NewWorker(worker.family) EXCEPT !.state = "dead"]
  BY DEF ReadyToNull, Unflushed
<1>2. ~Alive'
  BY <1>1 DEF NewWorker, Alive, Lives
<1>3. HandlerOK'
  BY <1>1, EmptyHandler
<1>4. Settled'
  BY <1>1, <1>2, <1>3, EmptiedStep
<1>5. Unflushed'
  BY <1>1, <1>2 DEF Unflushed
<1> QED BY <1>4, <1>5

\* A new worker, with a token of its own, behind empty channels.
LEMMA NullToReadyStep ==
    ASSUME TypeInv', Unflushed, NullToReady
    PROVE  Unflushed' /\ Settled'
<1>1. /\ todo' = <<>> /\ evQ' = <<>> /\ cmdQ' = <<>> /\ base' = NoTime /\ sinkFlush' = sinkFlush /\ phase' = "ready"
      /\ cancel' = FALSE /\ worker'.heard = <<>>
  BY DEF NullToReady, NewWorker, Quiet, state, channels, Unflushed
<1>2. HandlerOK'
  BY <1>1, EmptyHandler
<1>3. DOMAIN evQ' = {}
  BY <1>1
<1>4. ErrorLast'
  BY <1>3 DEF ErrorLast
<1>5. \A i \in DOMAIN Pipe' : Pipe'[i] = "none"
  <2>1. evQ' \in Seq(EventType) /\ cmdQ' \in Seq(Commands) /\ Len(evQ') = 0 /\ Len(cmdQ') = 0
    BY <1>1
  <2> QED BY <1>1, <2>1, FreshPipe DEF Pipe
<1>6. NoBar(Pipe') /\ One(Pipe') /\ Empty(Pipe')
  BY <1>5 DEF NoBar, One, Empty, IsText
<1>7. Running' /\ Cancelled'
  BY <1>1, <1>6 DEF Running, Cancelled
<1>8. Unflushed'
  BY <1>1 DEF Unflushed
<1> QED BY <1>2, <1>4, <1>7, <1>8 DEF Settled

LEMMA ApplicationStep ==
    ASSUME Features \cap {"flush", "earlyflush"} = {}, TypeInv, TypeInv', Unflushed, Settled, Application
    PROVE  Unflushed' /\ Settled' /\ OnItsOwnTimeline'
<1>1. ~FlushStart /\ ~ForwardFlushStart
  BY DEF FlushStart, ForwardFlushStart, Unflushed
<1>2. Unflushed' /\ Settled'
  BY <1>1, PausedToReadyStep, PadsStep, ReadyToNullStep, NullToReadyStep DEF Application
<1>3. out' = Nothing
  BY <1>1 DEF Application, PausedToReady, DeactivateSrc, DeactivateSink, ReadyToPaused, ReadyToNull, NullToReady,
              Quiet, Silent
<1> QED BY <1>2, <1>3, NothingPushed

LEMMA StutterStep ==
    ASSUME TypeInv, UnflushedInv, UNCHANGED vars
    PROVE  UnflushedInv'
<1>1. /\ todo' = todo /\ base' = base /\ due' = due /\ stream' = stream /\ out' = out /\ cancel' = cancel
      /\ evQ' = evQ /\ cmdQ' = cmdQ /\ worker' = worker
      /\ phase' = phase /\ sinkFlush' = sinkFlush /\ srcFlush' = srcFlush
  BY DEF vars, element, state, channels, observed
<1>2. HandlerOK'
  BY <1>1, SameHandler DEF UnflushedInv, Settled, TypeInv, ElementOK
<1>3. AwaitsRestart => AwaitsRestart'
  BY <1>1 DEF AwaitsRestart
<1>4. Settled'
  BY <1>1, <1>2, <1>3, SteadyChannels DEF UnflushedInv
<1>5. Unflushed'
  BY <1>1 DEF UnflushedInv, Unflushed, Alive
<1> QED BY <1>1, <1>4, <1>5 DEF UnflushedInv, OnItsOwnTimeline

LEMMA NextStep ==
    ASSUME Features \cap {"flush", "earlyflush"} = {}, TypeInv, TypeInv', UnflushedInv, [Next]_vars
    PROVE  UnflushedInv'
<1>1. base # NoTime => WordsCurrent
  BY DEF UnflushedInv, Settled, Running, Cancelled
<1>2. CASE Upstream
  BY <1>2, UpstreamStep, UpstreamPushes DEF UnflushedInv
<1>3. CASE Streaming
  BY <1>1, <1>3, StreamingStep, StreamingPushes DEF UnflushedInv
<1>4. CASE Worker \/ WorkerFails
  BY <1>4, WorkerStep DEF UnflushedInv
<1>5. CASE Application
  BY <1>5, ApplicationStep DEF UnflushedInv
<1> QED BY <1>2, <1>3, <1>4, <1>5, StutterStep DEF Next

LEMMA InitStep == Init => UnflushedInv
<1> SUFFICES ASSUME Init PROVE UnflushedInv
  OBVIOUS
<1>1. /\ todo = <<>> /\ base = NoTime /\ evQ = <<>> /\ cmdQ = <<>>
      /\ phase = "paused" /\ srcFlush = FALSE /\ sinkFlush = FALSE /\ cancel = FALSE
      /\ worker.heard = <<>>
  BY DEF Init, NewWorker
<1>2. HandlerOK /\ ErrorLast /\ OnItsOwnTimeline
  BY InitFlow DEF TimelineInv, Piped
<1>3. \A i \in DOMAIN Pipe : Pipe[i] = "none"
  <2>1. evQ \in Seq(EventType) /\ cmdQ \in Seq(Commands) /\ Len(evQ) = 0 /\ Len(cmdQ) = 0
    BY <1>1
  <2> QED BY <1>1, <2>1, FreshPipe DEF Pipe
<1>4. NoBar(Pipe) /\ One(Pipe) /\ Empty(Pipe)
  BY <1>3 DEF NoBar, One, Empty, IsText
<1>5. Running /\ Cancelled
  BY <1>1, <1>4 DEF Running, Cancelled
<1> QED BY <1>1, <1>2, <1>5 DEF UnflushedInv, Unflushed, Settled

\* The element is not flushed: nor does a word get onto a timeline that is not
\* its own when the element is stopped in the middle of a handler, and started
\* again with the worker it had or with a new one.
THEOREM StopsKeepTimelines ==
    ASSUME Features \cap {"flush", "earlyflush"} = {}
    PROVE  Spec => []OnItsOwnTimeline
<1>1. TypeInv /\ UnflushedInv /\ [Next]_vars => TypeInv' /\ UnflushedInv'
  BY NextType, NextStep
<1>2. Init => TypeInv /\ UnflushedInv
  BY InitType, InitStep
<1>3. TypeInv /\ UnflushedInv => OnItsOwnTimeline
  BY DEF UnflushedInv
<1> QED BY <1>1, <1>2, <1>3, PTL DEF Spec

-----------------------------------------------------------------------------
\* Where the audio lies that the model was given.  In a stream that runs, the
\* ticks the worker holds, the feeds queued behind them and the ones the handler
\* has still to send follow one another without a hole, from the anchor up to
\* where the next buffer must start.
Live == Alive /\ ~cancel

\* Where a feed begins and ends on the timeline: priming audio at the anchor.
Begin(f) == IF f.from = NoTime THEN base ELSE f.from
End(f) == Begin(f) + f.len
NoFeed(from, to) == \A k \in from .. to : cmdQ[k].type # "feed"

\* The audio handed over ends at x.
EndsAt(x) ==
    \/ NoFeed(1, Len(cmdQ)) /\ x = base + Len(worker.heard)
    \/ \E j \in 1 .. Len(cmdQ) : cmdQ[j].type = "feed" /\ NoFeed(j + 1, Len(cmdQ)) /\ x = End(cmdQ[j])

\* The queue: the first feed follows what is held, and each the one before it;
\* none is behind a finalize.
QueueFollows ==
    /\ \A j \in 1 .. Len(cmdQ) :
          cmdQ[j].type = "feed" /\ NoFeed(1, j - 1) => Begin(cmdQ[j]) = base + Len(worker.heard)
    /\ \A i, j \in 1 .. Len(cmdQ) :
          i < j /\ cmdQ[i].type = "feed" /\ cmdQ[j].type = "feed" /\ NoFeed(i + 1, j - 1) => Begin(cmdQ[j]) = End(cmdQ[i])
    /\ \A i, j \in 1 .. Len(cmdQ) : i < j /\ cmdQ[i].type = "finalize" => cmdQ[j].type # "feed"

\* A stream that goes on: upstream sends audio, and nothing is due that ends it.
Open == due = "data" /\ ~RestartDue

HandlerFollows ==
    /\ \A i \in DOMAIN todo : todo[i].op = "feed" => Open /\ i \in {1, 2} /\ todo[1].op = "feed"
    /\ Has("feed") =>
          /\ EndsAt(Begin(todo[1]))
          /\ IF Len(todo) > 1 /\ todo[2].op = "feed"
             THEN Begin(todo[2]) = End(todo[1]) /\ End(todo[2]) = nextPts
             ELSE End(todo[1]) = nextPts
    /\ Open /\ ~Has("feed") => EndsAt(nextPts)
    /\ Open => ~Has("finalize") /\ \A i \in DOMAIN cmdQ : cmdQ[i].type # "finalize"

\* The ticks held of this stream lie where the model's clock says.
HeldTimed == \A k \in DOMAIN worker.heard :
    worker.heard[k].stream = stream /\ worker.heard[k].at # NoTime
        => worker.heard[k].at = base + k - 1

\* A buffer that waits continues the audio in front of it.
EntersFollow ==
    \A i \in DOMAIN todo : todo[i].op = "enter" =>
        /\ i = Len(todo)
        /\ todo[i].pts >= FirstPts
        /\ RestartDue \/ nextPts = NoTime \/ todo[i].pts = nextPts
        /\ ready \/ todo[1].op = "ensure_ready"

GateFollows ==
    /\ IF nextPts = NoTime THEN gateSeen = 0 ELSE nextPts - gateSeen >= FirstPts
    /\ gate = "armed" \/ ~ready => base = NoTime
    /\ ~ready => nextPts = NoTime

LiveInv ==
    Live => /\ HeldTimed /\ EntersFollow /\ GateFollows
            /\ base # NoTime => QueueFollows /\ HandlerFollows

\* Audio is tagged with the stream it was fed in, and of none yet to come.
Tagged(s) == IF base = NoTime THEN s < stream ELSE s <= stream
TagsKept ==
    /\ \A k \in DOMAIN worker.heard : Tagged(worker.heard[k].stream)
    /\ \A k \in DOMAIN cmdQ : cmdQ[k].type = "feed" => Tagged(cmdQ[k].stream)
    /\ \A i \in DOMAIN evQ : Shown(evQ[i]) =>
          \A k \in DOMAIN evQ[i].heard : Tagged(evQ[i].heard[k].stream)

RowTimed(ev, r) ==
    LET tick == ev.heard[ev.rows[r].t0 + 1]
    IN  /\ tick.at # NoTime
        /\ tick.stream = stream => tick.at = base + ev.rows[r].t0
WordsTimed == \A i \in DOMAIN evQ : Shown(evQ[i]) => \A r \in DOMAIN evQ[i].rows : RowTimed(evQ[i], r)

\* Priming audio is only given to models that time their words.
Primed ==
    /\ worker.family \in Families
    /\ gate # "off" => Mode = "stream" /\ "gate" \in Features
    /\ ~Aligned =>
          /\ \A i \in DOMAIN todo : todo[i].op = "feed" => todo[i].from # NoTime
          /\ \A i \in DOMAIN cmdQ : cmdQ[i].type = "feed" => cmdQ[i].from # NoTime
          /\ \A k \in DOMAIN worker.heard : worker.heard[k].at # NoTime

\* A flush that goes on has thrown the anchor away, and an element that was
\* unprepared has nothing left.
FlushRests == sinkFlush /\ ~cancel => base = NoTime /\ ~Has("enter")
NullRests == phase = "null" => nextPts = NoTime /\ gateSeen = 0 /\ gate = "off"

\* A planned GAP comes with no buffer.
PlansAlone == Has("plan_gap") => ~Has("enter")

AudioInv == FlushRests /\ NullRests /\ PlansAlone /\ Primed /\ TagsKept /\ WordsTimed /\ LiveInv

-----------------------------------------------------------------------------
\* Tags.

\* What is left of the events.
Left == \A i \in DOMAIN evQ' : \E j \in DOMAIN evQ : evQ'[i] = evQ[j]

LEMMA EventsLeft ==
    ASSUME TypeInv, evQ' = evQ \/ (evQ # <<>> /\ evQ' = Tail(evQ)) \/ evQ' = <<>>
    PROVE  Left
<1>1. evQ \in Seq(EventType)
  BY DEF TypeInv
<1>2. CASE evQ' = evQ
  BY <1>2 DEF Left
<1>3. CASE evQ # <<>> /\ evQ' = Tail(evQ)
  <2>1. \A i \in DOMAIN evQ' : i + 1 \in DOMAIN evQ /\ evQ'[i] = evQ[i + 1]
    BY <1>1, <1>3
  <2> QED BY <2>1 DEF Left
<1>4. CASE evQ' = <<>>
  BY <1>4 DEF Left
<1> QED BY <1>2, <1>3, <1>4

LEMMA TickFields ==
    ASSUME NEW heard \in Seq(Tick), NEW k \in DOMAIN heard
    PROVE  heard[k] \in Tick /\ heard[k].stream \in Nat /\ heard[k].at \in Time
<1>1. heard[k] \in Tick
  BY ElementOfSeq
<1> QED BY <1>1 DEF Tick

\* A row is of a tick that was heard.
LEMMA RowHeard ==
    ASSUME TypeInv, NEW i \in DOMAIN evQ, Shown(evQ[i]), NEW r \in DOMAIN evQ[i].rows
    PROVE  /\ evQ[i].rows[r].t0 \in Nat /\ evQ[i].rows[r].t0 + 1 \in DOMAIN evQ[i].heard
           /\ evQ[i].heard[evQ[i].rows[r].t0 + 1] \in Tick
<1>1. evQ[i] \in EventType /\ evQ[i].type = "words"
  BY ElementOfSeq DEF TypeInv, Shown
<1>2. /\ evQ[i].rows \in Seq(Row) /\ evQ[i].heard \in Seq(Tick)
      /\ evQ[i].rows[r].t0 < Len(evQ[i].heard)
  BY <1>1, EventFields
<1>3. evQ[i].rows[r] \in Row
  BY <1>2, ElementOfSeq
<1>4. evQ[i].rows[r].t0 \in Nat
  BY <1>3 DEF Row
<1> QED BY <1>2, <1>4, ElementOfSeq

\* A step that leaves the stream and its anchor alone.
LEMMA SameTags ==
    ASSUME worker'.heard = worker.heard, cmdQ' = cmdQ, stream' = stream, base' = base, Left
    PROVE  (TagsKept => TagsKept') /\ (WordsTimed => WordsTimed')
<1>1. TagsKept => TagsKept'
  BY DEF TagsKept, Tagged, Left
<1>2. WordsTimed => WordsTimed'
  BY DEF WordsTimed, RowTimed, Left
<1> QED BY <1>1, <1>2

\* A stream is anchored: none of its audio is anywhere yet.
LEMMA AnchoredTags ==
    ASSUME TypeInv, TagsKept, WordsTimed, worker' = worker, cmdQ' = cmdQ, evQ' = evQ, stream' = stream,
           base = NoTime
    PROVE  TagsKept' /\ WordsTimed' /\ HeldTimed'
<1>1. stream \in Nat
  BY DEF TypeInv, ObservedOK
<1>2. \A s \in Nat : Tagged(s) => s < stream /\ Tagged(s)'
  BY <1>1 DEF Tagged
<1>3. \A k \in DOMAIN worker.heard : worker.heard[k].stream \in Nat
  <2>1. worker.heard \in Seq(Tick)
    BY DEF TypeInv, HeldOK, WorkerType
  <2> QED BY <2>1, TickFields
<1>4. \A k \in DOMAIN cmdQ : cmdQ[k].type = "feed" => cmdQ[k].stream \in Nat
  <2>1. \A k \in DOMAIN cmdQ : cmdQ[k] \in Commands
    BY ElementOfSeq DEF TypeInv, CommandsOK
  <2> QED BY <2>1, CommandFields
<1>5. \A i \in DOMAIN evQ : Shown(evQ[i]) => \A k \in DOMAIN evQ[i].heard : evQ[i].heard[k].stream \in Nat
  <2> SUFFICES ASSUME NEW i \in DOMAIN evQ, Shown(evQ[i]), NEW k \in DOMAIN evQ[i].heard
               PROVE  evQ[i].heard[k].stream \in Nat
    OBVIOUS
  <2>1. evQ[i] \in EventType /\ evQ[i].type = "words"
    BY ElementOfSeq DEF TypeInv, Shown
  <2>2. evQ[i].heard \in Seq(Tick)
    BY <2>1, EventFields
  <2> QED BY <2>2, TickFields
<1>6. TagsKept'
  BY <1>2, <1>3, <1>4, <1>5 DEF TagsKept
<1>7. HeldTimed'
  <2>1. \A k \in DOMAIN worker.heard : worker.heard[k].stream # stream
    BY <1>1, <1>2, <1>3 DEF TagsKept
  <2> QED BY <2>1 DEF HeldTimed
<1>8. WordsTimed'
  <2> SUFFICES ASSUME NEW i \in DOMAIN evQ, Shown(evQ[i]), NEW r \in DOMAIN evQ[i].rows
               PROVE  RowTimed(evQ[i], r)'
    BY DEF WordsTimed
  <2>1. evQ[i].rows[r].t0 + 1 \in DOMAIN evQ[i].heard
    BY RowHeard
  <2>2. evQ[i].heard[evQ[i].rows[r].t0 + 1].stream # stream
    BY <1>1, <1>2, <1>5, <2>1 DEF TagsKept
  <2>3. evQ[i].heard[evQ[i].rows[r].t0 + 1].at # NoTime
    BY DEF WordsTimed, RowTimed
  <2> QED BY <2>2, <2>3 DEF RowTimed
<1> QED BY <1>6, <1>7, <1>8

\* The timeline is reset: all there is belongs to the past.
LEMMA PastTags ==
    ASSUME TypeInv, TagsKept, WordsTimed, stream' = stream + 1, base' = NoTime, Left,
           worker' = worker \/ worker'.heard = <<>>, cmdQ' = cmdQ \/ cmdQ' = <<>>
    PROVE  TagsKept' /\ WordsTimed' /\ HeldTimed'
<1>1. stream \in Nat
  BY DEF TypeInv, ObservedOK
<1>2. \A s \in Nat : Tagged(s) => s < stream'
  BY <1>1 DEF Tagged
<1>3. \A k \in DOMAIN worker'.heard : worker'.heard[k].stream < stream'
  <2>1. \A k \in DOMAIN worker.heard : worker.heard[k].stream < stream'
    <3>1. worker.heard \in Seq(Tick)
      BY DEF TypeInv, HeldOK, WorkerType
    <3>2. \A k \in DOMAIN worker.heard : worker.heard[k].stream \in Nat
      BY <3>1, TickFields
    <3> QED BY <1>2, <3>2 DEF TagsKept
  <2>2. CASE worker'.heard = <<>>
    BY <2>2
  <2> QED BY <2>1, <2>2
<1>4. \A k \in DOMAIN cmdQ' : cmdQ'[k].type = "feed" => cmdQ'[k].stream < stream'
  <2>1. \A k \in DOMAIN cmdQ : cmdQ[k].type = "feed" => cmdQ[k].stream \in Nat
    <3>1. \A k \in DOMAIN cmdQ : cmdQ[k] \in Commands
      BY ElementOfSeq DEF TypeInv, CommandsOK
    <3> QED BY <3>1, CommandFields
  <2>2. \A k \in DOMAIN cmdQ : cmdQ[k].type = "feed" => cmdQ[k].stream < stream'
    BY <1>2, <2>1 DEF TagsKept
  <2>3. CASE cmdQ' = <<>>
    BY <2>3
  <2> QED BY <2>2, <2>3
<1>5. \A i \in DOMAIN evQ : Shown(evQ[i]) =>
         \A k \in DOMAIN evQ[i].heard : evQ[i].heard[k].stream < stream'
  <2> SUFFICES ASSUME NEW i \in DOMAIN evQ, Shown(evQ[i]), NEW k \in DOMAIN evQ[i].heard
               PROVE  evQ[i].heard[k].stream < stream'
    OBVIOUS
  <2>1. evQ[i] \in EventType /\ evQ[i].type = "words"
    BY ElementOfSeq DEF TypeInv, Shown
  <2>2. evQ[i].heard \in Seq(Tick)
    BY <2>1, EventFields
  <2>3. evQ[i].heard[k].stream \in Nat
    BY <2>2, TickFields
  <2> QED BY <1>2, <2>3 DEF TagsKept
<1>6. TagsKept'
  BY <1>3, <1>4, <1>5 DEF TagsKept, Tagged, Left
<1>7. HeldTimed'
  BY <1>1, <1>3 DEF HeldTimed
<1>8. \A i \in DOMAIN evQ : Shown(evQ[i]) =>
         \A r \in DOMAIN evQ[i].rows :
             /\ evQ[i].heard[evQ[i].rows[r].t0 + 1].at # NoTime
             /\ evQ[i].heard[evQ[i].rows[r].t0 + 1].stream # stream'
  <2> SUFFICES ASSUME NEW i \in DOMAIN evQ, Shown(evQ[i]), NEW r \in DOMAIN evQ[i].rows
               PROVE  /\ evQ[i].heard[evQ[i].rows[r].t0 + 1].at # NoTime
                      /\ evQ[i].heard[evQ[i].rows[r].t0 + 1].stream # stream'
    OBVIOUS
  <2>1. evQ[i].rows[r].t0 + 1 \in DOMAIN evQ[i].heard /\ evQ[i].heard[evQ[i].rows[r].t0 + 1] \in Tick
    BY RowHeard
  <2>2. evQ[i].heard[evQ[i].rows[r].t0 + 1].stream # stream'
    <3>1. evQ[i].heard[evQ[i].rows[r].t0 + 1].stream \in Nat
      BY <2>1 DEF Tick
    <3> QED BY <1>1, <1>5, <2>1, <3>1
  <2> QED BY <2>2 DEF WordsTimed, RowTimed
<1>9. WordsTimed'
  BY <1>8 DEF WordsTimed, Left, RowTimed
<1> QED BY <1>6, <1>7, <1>9

-----------------------------------------------------------------------------
\* What the two invariants of OnItsOwnTimeline offer: a push only fails when a
\* cancelled stream is shut off; a stream is anchored on an empty worker; and one
\* that lives is only restarted when it is over or before it began.
Restarts(k) == cmdQ[k].type = "restart"
Orderly ==
    /\ HandlerOK /\ ErrorLast
    /\ todo # <<>> /\ srcFlush /\ ~cancel => base = NoTime
    /\ Live /\ base = NoTime /\ todo # <<>> /\ todo[1].op = "enter" =>
          worker.heard = <<>> /\ \A k \in 1 .. Len(cmdQ) : Restarts(k)
    /\ Live /\ base # NoTime /\ Len(cmdQ) > 0 /\ Restarts(1) =>
          \/ worker.heard = <<>>
          \/ ~Open /\ \A k \in 1 .. Len(cmdQ) : cmdQ[k].type # "feed"
    /\ phase \in {"ready", "null"} => todo = <<>>
    /\ phase = "null" => evQ = <<>> /\ cmdQ = <<>> /\ base = NoTime

\* The pipe behind the events.
LEMMA PipeView ==
    ASSUME TypeInv, Alive
    PROVE  /\ Len(evQ) \in Nat /\ Len(cmdQ) \in Nat
           /\ Len(evQ) + 1 \in DOMAIN Pipe /\ Pipe[Len(evQ) + 1] = HeldKind(worker)
           /\ \A k \in 1 .. Len(cmdQ) : /\ Len(evQ) + 1 + k \in DOMAIN Pipe
                                        /\ Pipe[Len(evQ) + 1 + k] = CommandKind(cmdQ[k])
                                        /\ cmdQ[k].type \in {"feed", "finalize", "restart"}
<1> DEFINE p == Pipe
           n == PipeLen
<1>1. evQ \in Seq(EventType) /\ cmdQ \in Seq(Commands)
  BY PipeNow
<1>2. p = PipeOf(evQ, cmdQ, worker) /\ n = Items(evQ, cmdQ, worker)
  BY DEF Pipe, PipeLen
<1>3. \A k \in 1 .. Len(cmdQ) : cmdQ[k].type \in {"feed", "finalize", "restart"}
  <2>1. \A k \in 1 .. Len(cmdQ) : cmdQ[k] \in Commands
    BY <1>1
  <2> QED BY <2>1, CommandFields
<1> HIDE DEF p, n
<1>4. /\ Len(evQ) \in Nat /\ Len(cmdQ) \in Nat /\ DOMAIN p = 1 .. n
      /\ Len(evQ) + 1 \in 1 .. n /\ p[Len(evQ) + 1] = HeldKind(worker)
      /\ \A k \in 1 .. Len(cmdQ) : Len(evQ) + 1 + k \in 1 .. n /\ p[Len(evQ) + 1 + k] = CommandKind(cmdQ[k])
  BY <1>1, <1>2, PipeItems DEF Alive
<1> QED BY <1>3, <1>4 DEF p

LEMMA PipeEmpty ==
    ASSUME TypeInv, Alive, Empty(Pipe)
    PROVE  worker.heard = <<>> /\ \A k \in 1 .. Len(cmdQ) : Restarts(k)
<1>1. worker.heard = <<>>
  BY PipeView DEF Empty, IsText, HeldKind
<1>2. \A k \in 1 .. Len(cmdQ) : Restarts(k)
  BY PipeView DEF Empty, IsText, CommandKind, Restarts
<1> QED BY <1>1, <1>2

LEMMA RestartAhead ==
    ASSUME TypeInv, Alive, Len(cmdQ) > 0, Restarts(1)
    PROVE  /\ ~NoBar(Pipe)
           /\ FrontFree(Pipe) => worker.heard = <<>>
           /\ Sealed(Pipe) => \A k \in 1 .. Len(cmdQ) : cmdQ[k].type # "feed"
<1> DEFINE b == Len(evQ) + 2
<1>1. /\ 1 \in 1 .. Len(cmdQ) /\ Len(evQ) \in Nat /\ Len(cmdQ) \in Nat
      /\ Len(evQ) + 1 + 1 \in DOMAIN Pipe /\ Pipe[Len(evQ) + 1 + 1] = CommandKind(cmdQ[1])
  <2>1. Len(evQ) \in Nat /\ Len(cmdQ) \in Nat
    BY PipeView
  <2>2. 1 \in 1 .. Len(cmdQ)
    BY <2>1
  <2> QED BY <2>1, <2>2, PipeView
<1>2. b \in DOMAIN Pipe /\ Pipe[b] = "bar"
  BY <1>1 DEF CommandKind, Restarts
<1>3. FrontFree(Pipe) => worker.heard = <<>>
  <2>1. Len(evQ) + 1 \in DOMAIN Pipe /\ Pipe[Len(evQ) + 1] = HeldKind(worker)
    BY PipeView
  <2> QED BY <1>1, <1>2, <2>1 DEF FrontFree, HeldKind, IsText
<1>4. Sealed(Pipe) => \A k \in 1 .. Len(cmdQ) : cmdQ[k].type # "feed"
  <2> SUFFICES ASSUME Sealed(Pipe), NEW k \in 1 .. Len(cmdQ), cmdQ[k].type = "feed" PROVE FALSE
    OBVIOUS
  <2>1. k # 1
    BY DEF Restarts
  <2>2. Len(evQ) + 1 + k \in DOMAIN Pipe /\ Pipe[Len(evQ) + 1 + k] = "text"
    BY PipeView DEF CommandKind
  <2>3. Len(evQ) + 1 + k < b
    BY <1>2, <2>2 DEF Sealed, IsText
  <2> QED BY <1>1, <2>1, <2>3
<1> QED BY <1>2, <1>3, <1>4 DEF NoBar

LEMMA TimelineOrderly ==
    ASSUME TypeInv, TimelineInv, FlushRests
    PROVE  Orderly
<1>1. HandlerOK /\ ErrorLast /\ Flowing /\ Fresh /\ phase = "paused" /\ (srcFlush => sinkFlush)
  BY DEF TimelineInv, Piped, Playing
<1>2. srcFlush /\ ~cancel => base = NoTime
  BY <1>1 DEF FlushRests
<1>3. ASSUME Live, base = NoTime, todo # <<>>, todo[1].op = "enter"
      PROVE  worker.heard = <<>> /\ \A k \in 1 .. Len(cmdQ) : Restarts(k)
  <2>1. ~Ending(todo[1]) /\ ~Restarting(todo[1]) /\ 1 \in DOMAIN todo
    BY <1>1, <1>3, HeadDue DEF Ending, Restarting
  <2>2. ~Discarding /\ ~Has("flush_stop")
    BY <1>1, <1>3, <2>1, HeadDue
  <2>3. due = "data" /\ ~Has("segment")
    BY <1>1, <1>3, <2>1 DEF HandlerOK, Has
  <2>4. Empty(Pipe)
    BY <1>1, <1>3, <2>2, <2>3 DEF Fresh, Ahead
  <2> QED BY <1>3, <2>4, PipeEmpty DEF Live
<1>4. ASSUME Live, base # NoTime, Len(cmdQ) > 0, Restarts(1)
      PROVE  \/ worker.heard = <<>>
             \/ ~Open /\ \A k \in 1 .. Len(cmdQ) : cmdQ[k].type # "feed"
  <2>1. ~sinkFlush
    BY <1>4 DEF FlushRests, Live
  <2>2. ~NoBar(Pipe)
    BY <1>4, RestartAhead DEF Live
  <2>3. (AwaitsRestart /\ Sealed(Pipe)) \/ FrontFree(Pipe)
    BY <1>1, <1>4, <2>1, <2>2 DEF Flowing
  <2>4. AwaitsRestart => RestartDue
    <3>1. todo # <<>> => 1 \in DOMAIN todo
      BY EmptySeq DEF TypeInv
    <3> QED BY <3>1 DEF AwaitsRestart, RestartDue, Restarting
  <2> QED BY <1>4, <2>3, <2>4, RestartAhead DEF Live, Open
<1> QED BY <1>1, <1>2, <1>3, <1>4 DEF Orderly

LEMMA UnflushedOrderly ==
    ASSUME TypeInv, UnflushedInv
    PROVE  Orderly
<1>1. HandlerOK /\ ErrorLast /\ Running /\ Unflushed
  BY DEF UnflushedInv, Settled
<1>2. todo # <<>> /\ srcFlush /\ ~cancel => base = NoTime
  BY <1>1 DEF Unflushed, TypeInv, ElementOK
<1>3. ASSUME Live, base = NoTime
      PROVE  worker.heard = <<>> /\ \A k \in 1 .. Len(cmdQ) : Restarts(k)
  BY <1>1, <1>3, PipeEmpty DEF Live, Running
<1>4. ASSUME Live, base # NoTime, Len(cmdQ) > 0, Restarts(1)
      PROVE  ~Open /\ \A k \in 1 .. Len(cmdQ) : cmdQ[k].type # "feed"
  <2>1. ~NoBar(Pipe) /\ Sealed(Pipe) /\ AwaitsRestart
    BY <1>1, <1>4, RestartAhead DEF Live, Running
  <2>2. RestartDue
    <3>1. todo # <<>> => 1 \in DOMAIN todo
      BY EmptySeq DEF TypeInv
    <3> QED BY <2>1, <3>1 DEF AwaitsRestart, RestartDue, Restarting
  <2> QED BY <1>4, <2>1, <2>2, RestartAhead DEF Live, Open
<1>5. phase \in {"ready", "null"} => todo = <<>>
  BY <1>1 DEF Unflushed
<1>6. phase = "null" => evQ = <<>> /\ cmdQ = <<>> /\ base = NoTime
  BY <1>1 DEF Unflushed
<1> QED BY <1>1, <1>2, <1>3, <1>4, <1>5, <1>6 DEF Orderly

-----------------------------------------------------------------------------
\* Steps that give the model nothing and take nothing from it.

\* What is left to do of audio was to do before.
Shrinks == \A i \in DOMAIN todo' :
    todo'[i].op \in {"feed", "enter", "plan_gap"} => \E j \in DOMAIN todo : todo'[i] = todo[j]

LEMMA SamePrimed ==
    ASSUME Primed, worker' = worker, cmdQ' = cmdQ, gate' = gate \/ (gate' # "off" => gate # "off"), Shrinks
    PROVE  Primed'
BY DEF Primed, Shrinks, Mode, Aligned

Clock == <<worker, cmdQ, base, nextPts, gateSeen, stream, cancel, due>>
Unmoved == UNCHANGED <<Clock, gate, ready, sinkFlush, phase>>

LEMMA UnmovedAudio ==
    ASSUME AudioInv, Unmoved, Left, Shrinks, LiveInv'
    PROVE  AudioInv'
<1>1. /\ worker' = worker /\ cmdQ' = cmdQ /\ base' = base /\ nextPts' = nextPts /\ gateSeen' = gateSeen
      /\ stream' = stream /\ cancel' = cancel /\ gate' = gate /\ sinkFlush' = sinkFlush /\ phase' = phase
  BY DEF Unmoved, Clock
<1>2. Primed'
  BY <1>1, SamePrimed DEF AudioInv
<1>3. TagsKept' /\ WordsTimed'
  BY <1>1, SameTags DEF AudioInv
<1>4. Has("enter")' => Has("enter")
  BY DEF Shrinks, Has
<1>5. FlushRests' /\ NullRests'
  BY <1>1, <1>4 DEF AudioInv, FlushRests, NullRests
<1>6. PlansAlone'
  <2>1. Has("plan_gap")' => Has("plan_gap")
    BY DEF Shrinks, Has
  <2> QED BY <1>4, <2>1 DEF AudioInv, PlansAlone
<1> QED BY <1>2, <1>3, <1>5, <1>6 DEF AudioInv

\* The channel and the clock are as they were.
LEMMA SameClock ==
    ASSUME UNCHANGED Clock
    PROVE  /\ Live' <=> Live
           /\ HeldTimed' <=> HeldTimed
           /\ QueueFollows' <=> QueueFollows
           /\ \A x : EndsAt(x)' <=> EndsAt(x)
           /\ \A f : Begin(f)' = Begin(f) /\ End(f)' = End(f)
<1>1. /\ worker' = worker /\ cmdQ' = cmdQ /\ base' = base /\ stream' = stream /\ cancel' = cancel
  BY DEF Clock
<1>2. Live' <=> Live
  BY <1>1 DEF Live, Alive
<1>3. HeldTimed' <=> HeldTimed
  BY <1>1 DEF HeldTimed
<1>4. \A f : Begin(f)' = Begin(f) /\ End(f)' = End(f)
  BY <1>1 DEF Begin, End
<1>5. QueueFollows' <=> QueueFollows
  BY <1>1 DEF QueueFollows, NoFeed, Begin, End
<1>6. \A x : EndsAt(x)' <=> EndsAt(x)
  BY <1>1 DEF EndsAt, NoFeed, Begin, End
<1> QED BY <1>2, <1>3, <1>4, <1>5, <1>6

LEMMA SameLive ==
    ASSUME LiveInv, UNCHANGED Clock, todo' = todo, gate' = gate, ready' = ready
    PROVE  LiveInv'
<1>1. /\ base' = base /\ nextPts' = nextPts /\ gateSeen' = gateSeen /\ due' = due /\ cmdQ' = cmdQ
  BY DEF Clock
<1>2. GateFollows' <=> GateFollows
  BY <1>1 DEF GateFollows
<1>3. EntersFollow' <=> EntersFollow
  BY <1>1 DEF EntersFollow, RestartDue
<1>4. HandlerFollows' <=> HandlerFollows
  BY <1>1, SameClock DEF HandlerFollows, Open, RestartDue, Has
<1> QED BY <1>1, <1>2, <1>3, <1>4, SameClock DEF LiveInv

\* The handler goes on, with a step that is not audio.
GoesOn ==
    /\ todo # <<>> /\ todo[1].op # "feed"
    /\ \A i \in DOMAIN todo' : todo'[i].op \in {"enter", "finalize", "feed"} =>
          /\ i + 1 \in DOMAIN todo /\ todo'[i] = todo[i + 1]
          /\ todo'[i].op = "enter" /\ i + 1 = Len(todo) => i = Len(todo')
    /\ RestartDue => RestartDue'

LEMMA GoesOnLive ==
    ASSUME TypeInv, HandlerOK, LiveInv, UNCHANGED Clock, GoesOn, GateFollows => GateFollows',
           ready => ready', todo[1].op = "ensure_ready" => ready'
    PROVE  LiveInv'
<1>1. /\ base' = base /\ nextPts' = nextPts /\ gateSeen' = gateSeen /\ due' = due /\ cmdQ' = cmdQ
  BY DEF Clock
<1> SUFFICES ASSUME Live' PROVE LiveInv'
  BY DEF LiveInv
<1>2. /\ Live /\ HeldTimed /\ EntersFollow /\ GateFollows
      /\ base # NoTime => QueueFollows /\ HandlerFollows
  BY SameClock DEF LiveInv
<1>3. HeldTimed' /\ GateFollows' /\ (base # NoTime => QueueFollows')
  BY <1>2, SameClock
<1>4. EntersFollow'
  <2> SUFFICES ASSUME NEW i \in DOMAIN todo', todo'[i].op = "enter"
               PROVE  /\ i = Len(todo')
                      /\ todo'[i].pts >= FirstPts
                      /\ RestartDue' \/ nextPts' = NoTime \/ todo'[i].pts = nextPts'
                      /\ ready' \/ todo'[1].op = "ensure_ready"
    BY DEF EntersFollow
  <2>1. i + 1 \in DOMAIN todo /\ todo'[i] = todo[i + 1] /\ (i + 1 = Len(todo) => i = Len(todo'))
    BY DEF GoesOn
  <2>2. /\ i + 1 = Len(todo) /\ todo[i + 1].pts >= FirstPts
        /\ RestartDue \/ nextPts = NoTime \/ todo[i + 1].pts = nextPts
        /\ ready \/ todo[1].op = "ensure_ready"
    BY <1>2, <2>1 DEF EntersFollow
  <2> QED BY <1>1, <2>1, <2>2 DEF GoesOn
<1>5. ASSUME base # NoTime PROVE HandlerFollows'
  <2>1. HandlerFollows
    BY <1>2, <1>5
  <2>2. ~Has("feed") /\ ~Has("feed")'
    BY <2>1 DEF HandlerFollows, GoesOn, Has
  <2>3. Open' => Open
    BY <1>1 DEF Open, GoesOn
  <2>4. Has("finalize")' => Has("finalize")
    BY DEF GoesOn, Has
  <2>5. \A i \in DOMAIN todo' : todo'[i].op # "feed"
    BY <2>2 DEF Has
  <2> QED BY <1>1, <2>1, <2>2, <2>3, <2>4, <2>5, SameClock DEF HandlerFollows
<1> QED BY <1>1, <1>3, <1>4, <1>5 DEF LiveInv

LEMMA DroppedShrinks ==
    ASSUME TypeInv, NEW n \in Nat \ {0}, Dropped(n)
    PROVE  Shrinks
<1>1. \A i \in DOMAIN todo' : n + i \in DOMAIN todo /\ todo'[i] = todo[n + i]
  BY DroppedItems DEF TypeInv
<1> QED BY <1>1 DEF Shrinks

LEMMA AbandonShrinks ==
    ASSUME TypeInv, Abandon
    PROVE  Shrinks
<1>1. PICK n \in 1 .. Len(todo) : Dropped(n)
  BY AbandonDrops DEF TypeInv
<1>2. n \in Nat \ {0}
  BY <1>1, HeadOfTodo DEF TypeInv
<1> QED BY <1>1, <1>2, DroppedShrinks

\* A call is only abandoned when the worker is gone or the stream cancelled.
LEMMA AbandonedAudio ==
    ASSUME TypeInv, AudioInv, Abandon, Unmoved, Left, ~Live
    PROVE  AudioInv'
<1>1. ~Live'
  BY SameClock DEF Unmoved
<1>2. LiveInv'
  BY <1>1 DEF LiveInv
<1> QED BY <1>2, AbandonShrinks, UnmovedAudio

LEMMA TailGoesOn ==
    ASSUME TypeInv, todo # <<>>, todo[1].op # "feed", ~Restarting(todo[1]), todo' = Tail(todo)
    PROVE  GoesOn /\ Shrinks
<1>1. Dropped(1) /\ (RestartDue' <=> RestartDue)
  BY StepDone
<1>2. \A i \in DOMAIN todo' : 1 + i \in DOMAIN todo /\ todo'[i] = todo[1 + i] /\ (i = Len(todo') <=> 1 + i = Len(todo))
  BY <1>1, DroppedItems DEF TypeInv
<1>3. \A i \in DOMAIN todo' : 1 + i = i + 1
  <2>1. DOMAIN todo' \subseteq Nat
    BY <1>1 DEF Dropped
  <2> QED BY <2>1
<1>4. \A i \in DOMAIN todo' : i + 1 \in DOMAIN todo /\ todo'[i] = todo[i + 1] /\ (i + 1 = Len(todo) => i = Len(todo'))
  BY <1>2, <1>3
<1>5. GoesOn
  BY <1>1, <1>4 DEF GoesOn
<1> QED BY <1>1, <1>5, DroppedShrinks

LEMMA TailAudio ==
    ASSUME TypeInv, Orderly, AudioInv, Unmoved, Left, todo # <<>>, todo[1].op \notin {"feed", "ensure_ready"},
           ~Restarting(todo[1]), todo' = Tail(todo)
    PROVE  AudioInv'
<1>1. GoesOn /\ Shrinks
  BY TailGoesOn
<1>2. GateFollows => GateFollows'
  BY DEF GateFollows, Unmoved, Clock
<1>3. LiveInv'
  BY <1>1, <1>2, GoesOnLive DEF Unmoved, Orderly, AudioInv
<1> QED BY <1>1, <1>3, UnmovedAudio

LEMMA SameTodoAudio ==
    ASSUME AudioInv, Unmoved, Left, todo' = todo
    PROVE  AudioInv'
<1>1. Shrinks
  BY DEF Shrinks
<1>2. LiveInv'
  BY SameLive DEF Unmoved, AudioInv
<1> QED BY <1>1, <1>2, UnmovedAudio

LEMMA QuietAudio ==
    ASSUME TypeInv, Orderly, AudioInv, DoBridge \/ DoInputGap \/ ForwardSegment \/ ForwardEos \/ DrainEnds
    PROVE  AudioInv'
<1>1. /\ todo # <<>> /\ Head(todo).op \in {"bridge", "input_gap", "segment", "eos", "drain"}
      /\ todo' = Tail(todo)
  BY DEF DoBridge, DoInputGap, ForwardSegment, ForwardEos, Forward, DrainEnds, Doing
<1>2. Head(todo) = todo[1]
  BY <1>1, HeadOfTodo DEF TypeInv
<1>3. evQ' = evQ /\ cmdQ' = cmdQ /\ worker' = worker /\ cancel' = cancel
  BY DEF DoBridge, DoInputGap, ForwardSegment, ForwardEos, Forward, DrainEnds, channels
<1>4. /\ stream' = stream /\ base' = base /\ nextPts' = nextPts /\ gate' = gate /\ gateSeen' = gateSeen
      /\ ready' = ready
  BY DEF DoBridge, DoInputGap, ForwardSegment, ForwardEos, Forward, DrainEnds, state, Quiet
<1>5. due' = due /\ sinkFlush' = sinkFlush /\ phase' = phase
  BY DEF DoBridge, DoInputGap, ForwardSegment, ForwardEos, Forward, DrainEnds, element
<1>6. Unmoved
  BY <1>3, <1>4, <1>5 DEF Unmoved, Clock
<1>7. Left
  BY <1>3, EventsLeft
<1>8. ~Restarting(todo[1])
  BY <1>1, <1>2 DEF Restarting
<1> QED BY <1>1, <1>2, <1>6, <1>7, <1>8, TailAudio

LEMMA TakeProgressAudio ==
    ASSUME TypeInv, AudioInv, TakeProgress
    PROVE  AudioInv'
<1>1. /\ evQ # <<>> /\ evQ' = Tail(evQ) /\ todo' = todo
      /\ Unmoved
  BY DEF TakeProgress, element, Unmoved, Clock
<1> QED BY <1>1, EventsLeft, SameTodoAudio

LEMMA TakeWordsAudio ==
    ASSUME TypeInv, Orderly, AudioInv, TakeWords
    PROVE  AudioInv'
<1>1. evQ # <<>> /\ evQ' = Tail(evQ) /\ Unmoved /\ todo # <<>>
  BY DEF TakeWords, element, Unmoved, Clock, Waiting
<1>2. Left
  BY <1>1, EventsLeft
<1>3. todo' = todo \/ (Abandon /\ srcFlush /\ base # NoTime)
  BY DEF TakeWords
<1>4. CASE todo' = todo
  BY <1>1, <1>2, <1>4, SameTodoAudio
<1>5. CASE Abandon /\ srcFlush /\ base # NoTime
  <2>1. ~Live
    BY <1>1, <1>5 DEF Orderly, Live
  <2> QED BY <1>1, <1>2, <1>5, <2>1, AbandonedAudio
<1> QED BY <1>3, <1>4, <1>5

LEMMA TakeErrorAudio ==
    ASSUME TypeInv, Orderly, AudioInv, TakeError
    PROVE  AudioInv'
<1>1. Abandon /\ Unmoved
  BY DEF TakeError, Quiet, element, state, Unmoved, Clock
<1>2. CASE evQ # <<>> /\ Head(evQ).type = "error" /\ evQ' = Tail(evQ)
  <2>1. ~Live
    BY <1>2, LastError DEF Orderly, Live
  <2> QED BY <1>1, <1>2, <2>1, EventsLeft, AbandonedAudio
<1>3. CASE evQ = <<>> /\ worker.state = "dead" /\ evQ' = evQ
  <2>1. ~Live
    BY <1>3 DEF Live, Alive, Lives
  <2> QED BY <1>1, <1>3, <2>1, EventsLeft, AbandonedAudio
<1> QED BY <1>2, <1>3 DEF TakeError

LEMMA AwaitReadyAudio ==
    ASSUME TypeInv, Orderly, AudioInv, AwaitReady
    PROVE  AudioInv'
<1>1. /\ todo # <<>> /\ todo[1].op = "ensure_ready"
      /\ UNCHANGED Clock /\ sinkFlush' = sinkFlush /\ phase' = phase
  BY HeadDue DEF AwaitReady, Doing, Quiet, element, Orderly, Clock
<1>2. ~Restarting(todo[1])
  BY <1>1 DEF Restarting
<1>3. CASE ready
  <2>1. todo' = Tail(todo) /\ evQ' = evQ /\ ready' = ready /\ gate' = gate
    BY <1>3 DEF AwaitReady
  <2>2. GoesOn /\ Shrinks
    BY <1>1, <1>2, <2>1, TailGoesOn
  <2>3. GateFollows => GateFollows'
    BY <1>1, <2>1 DEF GateFollows, Clock
  <2>4. LiveInv'
    BY <1>1, <1>3, <2>1, <2>2, <2>3, GoesOnLive DEF Orderly, AudioInv
  <2> QED BY <1>1, <2>1, <2>2, <2>4, EventsLeft, UnmovedAudio DEF Unmoved
<1>4. CASE ~ready /\ evQ = <<>>
  <2>1. Abandon /\ evQ' = evQ /\ ~Alive /\ ready' = ready /\ gate' = gate
    BY <1>4 DEF AwaitReady, Alive, Lives
  <2> QED BY <1>1, <2>1, EventsLeft, AbandonedAudio DEF Live, Unmoved
<1>5. CASE ~ready /\ evQ # <<>>
  <2>1. evQ' = Tail(evQ)
    BY <1>5 DEF AwaitReady
  <2>2. Left
    BY <1>5, <2>1, EventsLeft
  <2>3. CASE Head(evQ).type = "ready"
    <3>1. /\ todo' = Tail(todo) /\ ready'
          /\ gate' # "off" => Mode = "stream" /\ "gate" \in Features
      BY <1>5, <2>3 DEF AwaitReady
    <3>2. GoesOn /\ Shrinks
      BY <1>1, <1>2, <3>1, TailGoesOn
    <3>3. GateFollows => GateFollows'
      BY <1>1, <1>5, <3>1 DEF GateFollows, Clock
    <3>4. LiveInv'
      BY <1>1, <3>1, <3>2, <3>3, GoesOnLive DEF Orderly, AudioInv
    <3>5. worker' = worker /\ cmdQ' = cmdQ /\ base' = base /\ stream' = stream /\ cancel' = cancel
      BY <1>1 DEF Clock
    <3>6. Primed'
      BY <3>1, <3>2, <3>5 DEF Primed, Shrinks, Mode, Aligned, AudioInv
    <3>7. TagsKept' /\ WordsTimed'
      BY <2>2, <3>5, SameTags DEF AudioInv
    <3>8. FlushRests'
      <4>1. Has("enter")' => Has("enter")
        BY <3>2 DEF Shrinks, Has
      <4> QED BY <1>1, <3>5, <4>1 DEF FlushRests, AudioInv
    <3>9. NullRests'
      BY <1>1 DEF NullRests, Orderly
    <3>10. PlansAlone'
      BY <3>2 DEF Shrinks, Has, PlansAlone, AudioInv
    <3> QED BY <3>4, <3>6, <3>7, <3>8, <3>9, <3>10 DEF AudioInv
  <2>4. CASE Head(evQ).type = "error"
    <3>1. Abandon /\ ready' = ready /\ gate' = gate
      BY <1>5, <2>4 DEF AwaitReady
    <3>2. ~Live
      BY <1>5, <2>1, <2>4, LastError DEF Orderly, Live
    <3> QED BY <1>1, <2>2, <3>1, <3>2, AbandonedAudio DEF Unmoved
  <2>5. CASE Head(evQ).type \notin {"ready", "error"}
    <3>1. todo' = todo /\ ready' = ready /\ gate' = gate
      BY <1>5, <2>5 DEF AwaitReady
    <3> QED BY <1>1, <2>2, <3>1, SameTodoAudio DEF Unmoved
  <2> QED BY <2>3, <2>4, <2>5
<1> QED BY <1>3, <1>4, <1>5

LEMMA DoPlanGapAudio ==
    ASSUME TypeInv, Orderly, AudioInv, DoPlanGap
    PROVE  AudioInv'
<1>1. /\ todo # <<>> /\ todo[1].op = "plan_gap" /\ 1 \in DOMAIN todo
      /\ \A i \in DOMAIN todo' : todo'[i].op # "input_gap" => i + 1 \in DOMAIN todo /\ todo'[i] = todo[i + 1]
      /\ RestartDue => RestartDue'
  BY PlanGapHandler, HeadDue DEF Orderly
<1>2. Unmoved /\ evQ' = evQ
  BY DEF DoPlanGap, Quiet, element, state, channels, Unmoved, Clock
<1>3. ~Has("enter")
  BY <1>1 DEF AudioInv, PlansAlone, Has
<1>4. Shrinks
  BY <1>1 DEF Shrinks
<1>5. GoesOn
  BY <1>1, <1>3 DEF GoesOn, Has
<1>6. GateFollows => GateFollows'
  BY <1>2 DEF GateFollows, Unmoved, Clock
<1>7. LiveInv'
  BY <1>1, <1>2, <1>5, <1>6, GoesOnLive DEF Unmoved, Orderly, AudioInv
<1> QED BY <1>2, <1>4, <1>7, EventsLeft, UnmovedAudio

\* The application: a cancelled stream is not followed any more.
LEMMA CancelledAudio ==
    ASSUME TypeInv, AudioInv, FlushStart \/ PausedToReady
    PROVE  AudioInv'
<1>1. /\ worker' = worker /\ cmdQ' = cmdQ /\ evQ' = evQ /\ todo' = todo /\ cancel'
      /\ base' = base /\ nextPts' = nextPts /\ gate' = gate /\ gateSeen' = gateSeen /\ stream' = stream
      /\ phase' # "null"
  BY DEF FlushStart, PausedToReady, Quiet, state, channels
<1>2. ~Live' /\ Shrinks
  BY <1>1 DEF Live, Shrinks
<1>3. Primed'
  BY <1>1, <1>2, SamePrimed DEF AudioInv
<1>4. TagsKept' /\ WordsTimed'
  BY <1>1, EventsLeft, SameTags DEF AudioInv
<1>5. FlushRests' /\ NullRests' /\ PlansAlone'
  BY <1>1 DEF FlushRests, NullRests, PlansAlone, AudioInv, Has
<1>6. LiveInv'
  BY <1>2 DEF LiveInv
<1> QED BY <1>3, <1>4, <1>5, <1>6 DEF AudioInv

\* The pads close, and open again.
LEMMA PadsAudio ==
    ASSUME TypeInv, Orderly, AudioInv, ForwardFlushStart \/ DeactivateSrc \/ DeactivateSink \/ ReadyToPaused
    PROVE  AudioInv'
<1>1. /\ worker' = worker /\ cmdQ' = cmdQ /\ evQ' = evQ /\ todo' = todo /\ cancel' = cancel
      /\ base' = base /\ nextPts' = nextPts /\ gate' = gate /\ gateSeen' = gateSeen /\ stream' = stream
      /\ ready' = ready /\ (phase' = "null" => phase = "null") /\ (sinkFlush' => sinkFlush)
      /\ due' = due \/ (phase = "ready" /\ due' = "caps")
  BY DEF ForwardFlushStart, DeactivateSrc, DeactivateSink, ReadyToPaused, Quiet, state, channels, TypeInv, ElementOK
<1>2. Shrinks
  BY <1>1 DEF Shrinks
<1>3. Primed'
  BY <1>1, <1>2, SamePrimed DEF AudioInv
<1>4. TagsKept' /\ WordsTimed'
  BY <1>1, EventsLeft, SameTags DEF AudioInv
<1>5. FlushRests' /\ NullRests' /\ PlansAlone'
  BY <1>1 DEF FlushRests, NullRests, PlansAlone, AudioInv, Has
<1>6. LiveInv'
  <2>1. CASE due' = due
    <3>1. UNCHANGED Clock
      BY <1>1, <2>1 DEF Clock
    <3> QED BY <1>1, <3>1, SameLive DEF AudioInv
  <2>2. CASE phase = "ready" /\ due' = "caps"
    <3> SUFFICES ASSUME Live' PROVE LiveInv'
      BY DEF LiveInv
    <3>1. todo = <<>> /\ ~Open'
      BY <2>2 DEF Orderly, Open
    <3>2. Live /\ HeldTimed /\ GateFollows /\ (base # NoTime => QueueFollows)
      BY <1>1 DEF Live, Alive, AudioInv, LiveInv
    <3>3. HeldTimed' /\ GateFollows' /\ (base # NoTime => QueueFollows')
      BY <1>1, <3>2 DEF HeldTimed, GateFollows, QueueFollows, NoFeed, Begin, End
    <3>4. EntersFollow' /\ HandlerFollows'
      BY <1>1, <3>1 DEF EntersFollow, HandlerFollows, Has
    <3> QED BY <1>1, <3>3, <3>4 DEF LiveInv
  <2> QED BY <1>1, <2>1, <2>2
<1> QED BY <1>3, <1>4, <1>5, <1>6 DEF AudioInv

\* The element is unprepared, and prepared again.
LEMMA ReadyToNullAudio ==
    ASSUME TypeInv, Orderly, AudioInv, ReadyToNull
    PROVE  AudioInv'
<1>1. /\ phase = "ready" /\ worker'.state = "dead" /\ worker'.heard = <<>> /\ worker'.family = worker.family
      /\ cmdQ' = <<>> /\ evQ' = <<>> /\ todo' = todo /\ base' = NoTime /\ nextPts' = NoTime
      /\ gate' = "off" /\ gateSeen' = 0
      /\ ~Live'
  BY DEF ReadyToNull, NewWorker, Live, Alive, Lives
<1>2. todo = <<>>
  BY <1>1 DEF Orderly
<1>3. FlushRests' /\ NullRests' /\ PlansAlone'
  BY <1>1, <1>2 DEF FlushRests, NullRests, PlansAlone, Has
<1>4. Primed'
  BY <1>1, <1>2 DEF Primed, AudioInv
<1>5. TagsKept' /\ WordsTimed' /\ LiveInv'
  BY <1>1 DEF TagsKept, WordsTimed, LiveInv
<1> QED BY <1>3, <1>4, <1>5 DEF AudioInv

LEMMA NullToReadyAudio ==
    ASSUME TypeInv, Orderly, AudioInv, NullToReady
    PROVE  AudioInv'
<1>1. /\ phase = "null" /\ phase' = "ready" /\ worker'.heard = <<>> /\ worker'.family \in Families
      /\ cmdQ' = cmdQ /\ evQ' = evQ /\ todo' = todo /\ base' = base /\ nextPts' = nextPts
      /\ gate' = gate /\ gateSeen' = gateSeen /\ ready' = ready
  BY DEF NullToReady, NewWorker, Quiet, state, channels
<1>2. /\ todo = <<>> /\ cmdQ = <<>> /\ evQ = <<>> /\ base = NoTime
      /\ nextPts = NoTime /\ gateSeen = 0 /\ gate = "off"
  BY <1>1 DEF Orderly, AudioInv, NullRests
<1>3. FlushRests' /\ NullRests' /\ PlansAlone'
  BY <1>1, <1>2 DEF FlushRests, NullRests, PlansAlone, Has
<1>4. Primed'
  BY <1>1, <1>2 DEF Primed
<1>5. TagsKept' /\ WordsTimed'
  BY <1>1, <1>2 DEF TagsKept, WordsTimed
<1>6. LiveInv'
  <2>1. HeldTimed' /\ EntersFollow'
    BY <1>1, <1>2 DEF HeldTimed, EntersFollow
  <2>2. GateFollows'
    BY <1>1, <1>2 DEF GateFollows
  <2> QED BY <1>1, <1>2, <2>1, <2>2 DEF LiveInv
<1> QED BY <1>3, <1>4, <1>5, <1>6 DEF AudioInv

\* The timeline is reset: by the answer to a restart, and by a flush.
LEMMA ResetAudio ==
    ASSUME TypeInv, Orderly, AudioInv, ResetTimeline, todo # <<>>, Restarting(todo[1]), todo' = Tail(todo),
           Left, worker' = worker, cmdQ' = cmdQ, cancel' = cancel, ready' = ready, UNCHANGED element
    PROVE  AudioInv'
<1>1. Dropped(1) /\ 1 \in Nat \ {0} /\ DOMAIN todo' \subseteq Nat
  BY StepDone DEF Dropped
<1>2. /\ \A i \in DOMAIN todo' : 1 + i \in DOMAIN todo /\ todo'[i] = todo[1 + i] /\ (i = Len(todo') <=> 1 + i = Len(todo))
      /\ Shrinks
  BY <1>1, DroppedItems, DroppedShrinks DEF TypeInv
<1>3. stream' = stream + 1 /\ base' = NoTime /\ nextPts' = NoTime /\ gateSeen' = 0 /\ (gate' # "off" => gate # "off")
  BY DEF ResetTimeline
<1>4. TagsKept' /\ WordsTimed' /\ HeldTimed'
  BY <1>3, PastTags DEF AudioInv
<1>5. Primed'
  BY <1>2, <1>3, SamePrimed DEF AudioInv
<1>6. FlushRests' /\ NullRests' /\ PlansAlone'
  <2>1. (Has("enter")' => Has("enter")) /\ (Has("plan_gap")' => Has("plan_gap"))
    BY <1>2 DEF Shrinks, Has
  <2>2. phase # "null"
    BY DEF Orderly
  <2> QED BY <1>3, <2>1, <2>2 DEF FlushRests, NullRests, PlansAlone, AudioInv, element
<1>7. ASSUME Live' PROVE EntersFollow' /\ GateFollows'
  <2>1. EntersFollow
    BY <1>7 DEF Live, Alive, AudioInv, LiveInv
  <2>2. todo[1].op # "ensure_ready"
    BY DEF Restarting
  <2>3. EntersFollow'
    BY <1>2, <1>3, <2>1, <2>2 DEF EntersFollow
  <2> QED BY <1>3, <2>3 DEF GateFollows
<1>8. LiveInv'
  BY <1>3, <1>4, <1>7 DEF LiveInv
<1> QED BY <1>4, <1>5, <1>6, <1>8 DEF AudioInv

LEMMA TakeMarkerAudio ==
    ASSUME TypeInv, Orderly, AudioInv, TakeMarker
    PROVE  AudioInv'
<1>1. /\ todo # <<>> /\ evQ # <<>> /\ evQ' = Tail(evQ) /\ worker' = worker /\ cmdQ' = cmdQ /\ cancel' = cancel
      /\ ready' = ready /\ UNCHANGED element
  BY DEF TakeMarker, Waiting
<1>2. Left
  BY <1>1, EventsLeft
<1>3. Head(todo) = todo[1]
  BY <1>1, HeadDue DEF Orderly
<1>4. CASE UNCHANGED <<todo, base, outPts, nextPts, committed, gate, gateSeen, stream>>
  <2>1. Unmoved
    BY <1>1, <1>4 DEF Unmoved, Clock, element
  <2> QED BY <1>2, <1>4, <2>1, SameTodoAudio
<1>5. CASE Head(todo).op = "await" /\ Head(todo).marker = "restarted" /\ todo' = Tail(todo) /\ ResetTimeline
  <2>1. Restarting(todo[1])
    BY <1>3, <1>5 DEF Restarting
  <2> QED BY <1>1, <1>2, <1>5, <2>1, ResetAudio
<1>6. CASE /\ Head(todo).op = "await" /\ Head(todo).marker # "restarted" /\ todo' = Tail(todo)
           /\ UNCHANGED <<base, outPts, nextPts, committed, gate, gateSeen, stream>>
  <2>1. Unmoved
    BY <1>1, <1>6 DEF Unmoved, Clock, element
  <2>2. ~Restarting(todo[1]) /\ todo[1].op = "await"
    BY <1>3, <1>6 DEF Restarting
  <2> QED BY <1>1, <1>2, <1>6, <2>1, <2>2, TailAudio
<1> QED BY <1>4, <1>5, <1>6 DEF TakeMarker

LEMMA FlushStopAudio ==
    ASSUME TypeInv, AudioInv, FlushStop
    PROVE  AudioInv'
<1>1. /\ stream' = stream + 1 /\ base' = NoTime /\ nextPts' = NoTime /\ gateSeen' = 0
      /\ gate' # "off" => gate # "off"
      /\ evQ' = evQ /\ worker' = worker /\ cmdQ' = cmdQ /\ phase' = phase
  BY DEF FlushStop, ResetTimeline, channels, element
<1>2. \A i \in DOMAIN todo' : todo'[i].op \in {"restart", "flush_stop"}
  <2>1. todo' = <<Restart("restart", TRUE), Step("flush_stop", "forward")>>
    BY DEF FlushStop
  <2> QED BY <2>1 DEF Restart, Step
<1>3. Shrinks /\ ~Has("enter")' /\ ~Has("plan_gap")'
  BY <1>2 DEF Shrinks, Has
<1>4. TagsKept' /\ WordsTimed' /\ HeldTimed'
  BY <1>1, EventsLeft, PastTags DEF AudioInv
<1>5. Primed'
  BY <1>1, <1>3, SamePrimed DEF AudioInv
<1>6. FlushRests' /\ NullRests' /\ PlansAlone'
  BY <1>1, <1>3 DEF FlushRests, NullRests, PlansAlone, AudioInv
<1>7. EntersFollow' /\ GateFollows'
  BY <1>1, <1>2 DEF EntersFollow, GateFollows
<1>8. LiveInv'
  BY <1>1, <1>4, <1>7 DEF LiveInv
<1> QED BY <1>4, <1>5, <1>6, <1>8 DEF AudioInv

LEMMA ForwardFlushStopAudio ==
    ASSUME TypeInv, Orderly, AudioInv, ForwardFlushStop
    PROVE  AudioInv'
<1>1. /\ todo # <<>> /\ todo[1].op = "flush_stop" /\ todo' = Tail(todo) /\ sinkFlush' = FALSE /\ 1 \in DOMAIN todo
      /\ evQ' = evQ /\ worker' = worker /\ cmdQ' = cmdQ /\ cancel' = cancel /\ stream' = stream /\ base' = base
      /\ nextPts' = nextPts /\ gate' = gate /\ gateSeen' = gateSeen /\ ready' = ready /\ phase' = phase
  BY HeadDue DEF ForwardFlushStop, Forward, Doing, channels, state, Orderly
<1>2. base = NoTime /\ ~Has("enter")
  BY <1>1 DEF Orderly, HandlerOK, Has
<1>3. Shrinks
  BY <1>1, StepDone, DroppedShrinks
<1>4. TagsKept' /\ WordsTimed'
  BY <1>1, EventsLeft, SameTags DEF AudioInv
<1>5. Primed'
  BY <1>1, <1>3, SamePrimed DEF AudioInv
<1>6. ~Has("enter")'
  BY <1>2, <1>3 DEF Shrinks, Has
<1>7. FlushRests' /\ NullRests' /\ PlansAlone'
  BY <1>1, <1>6 DEF FlushRests, NullRests, PlansAlone, AudioInv
<1>8. LiveInv'
  <2> SUFFICES ASSUME Live' PROVE LiveInv'
    BY DEF LiveInv
  <2>1. HeldTimed /\ GateFollows
    BY <1>1 DEF Live, Alive, AudioInv, LiveInv
  <2>2. HeldTimed' /\ GateFollows'
    BY <1>1, <2>1 DEF HeldTimed, GateFollows
  <2>3. EntersFollow'
    BY <1>6 DEF EntersFollow, Has
  <2> QED BY <1>1, <1>2, <2>2, <2>3 DEF LiveInv
<1> QED BY <1>4, <1>5, <1>7, <1>8 DEF AudioInv

\* A command joins the queue.
LEMMA Appended ==
    ASSUME TypeInv, NEW cmd \in Commands, cmdQ' = Append(cmdQ, cmd)
    PROVE  /\ Len(cmdQ) \in Nat /\ Len(cmdQ') = Len(cmdQ) + 1 /\ cmdQ'[Len(cmdQ) + 1] = cmd
           /\ \A k \in 1 .. Len(cmdQ) : cmdQ'[k] = cmdQ[k]
           /\ DOMAIN cmdQ = 1 .. Len(cmdQ) /\ DOMAIN cmdQ' = 1 .. Len(cmdQ) + 1
<1> DEFINE C == Len(cmdQ)
<1>1. /\ cmdQ \in Seq(Commands) /\ cmdQ' \in Seq(Commands) /\ C \in Nat /\ Len(cmdQ') = C + 1
      /\ cmdQ'[C + 1] = cmd /\ \A i \in 1 .. C : cmdQ'[i] = cmdQ[i]
  BY PipeNow, AppendProperties
<1>2. DOMAIN cmdQ = 1 .. C /\ DOMAIN cmdQ' = 1 .. Len(cmdQ')
  BY <1>1
<1> QED BY <1>1, <1>2

LEMMA MarkerQueued ==
    ASSUME TypeInv, NEW cmd \in Commands, cmdQ' = Append(cmdQ, cmd), cmd.type # "feed",
           worker' = worker, base' = base, QueueFollows
    PROVE  QueueFollows'
<1> DEFINE q == cmdQ
           r == cmdQ'
           C == Len(cmdQ)
           held == base + Len(worker.heard)
           B(f) == IF f.from = NoTime THEN base ELSE f.from
<1>1. /\ C \in Nat /\ Len(r) = C + 1 /\ r[C + 1] = cmd
      /\ \A k \in 1 .. C : r[k] = q[k]
  BY Appended
<1>2. /\ \A j \in 1 .. C : q[j].type = "feed" /\ (\A k \in 1 .. j - 1 : q[k].type # "feed") => B(q[j]) = held
      /\ \A i, j \in 1 .. C : i < j /\ q[i].type = "feed" /\ q[j].type = "feed"
                              /\ (\A k \in i + 1 .. j - 1 : q[k].type # "feed") => B(q[j]) = B(q[i]) + q[i].len
      /\ \A i, j \in 1 .. C : i < j /\ q[i].type = "finalize" => q[j].type # "feed"
  BY DEF QueueFollows, NoFeed, Begin, End
<1> HIDE DEF q, r, C, held, B
<1>3. \A j \in 1 .. C + 1 : r[j].type = "feed" => j \in 1 .. C /\ r[j] = q[j]
  BY <1>1
<1>4. \A j \in 1 .. C : \A k \in 1 .. j - 1 : k \in 1 .. C /\ r[k] = q[k]
  BY <1>1
<1>5. \A i, j \in 1 .. C : \A k \in i + 1 .. j - 1 : k \in 1 .. C /\ r[k] = q[k]
  BY <1>1
<1>6. \A j \in 1 .. C + 1 : r[j].type = "feed" /\ (\A k \in 1 .. j - 1 : r[k].type # "feed") => B(r[j]) = held
  <2> SUFFICES ASSUME NEW j \in 1 .. C + 1, r[j].type = "feed", \A k \in 1 .. j - 1 : r[k].type # "feed"
               PROVE  B(r[j]) = held
    OBVIOUS
  <2>1. j \in 1 .. C /\ r[j] = q[j]
    BY <1>3
  <2>2. \A k \in 1 .. j - 1 : q[k].type # "feed"
    BY <1>4, <2>1
  <2> QED BY <1>2, <2>1, <2>2
<1>7. \A i, j \in 1 .. C + 1 : i < j /\ r[i].type = "feed" /\ r[j].type = "feed"
                              /\ (\A k \in i + 1 .. j - 1 : r[k].type # "feed") => B(r[j]) = B(r[i]) + r[i].len
  <2> SUFFICES ASSUME NEW i \in 1 .. C + 1, NEW j \in 1 .. C + 1, i < j, r[i].type = "feed", r[j].type = "feed",
                      \A k \in i + 1 .. j - 1 : r[k].type # "feed"
               PROVE  B(r[j]) = B(r[i]) + r[i].len
    OBVIOUS
  <2>1. i \in 1 .. C /\ j \in 1 .. C /\ r[i] = q[i] /\ r[j] = q[j]
    BY <1>3
  <2>2. \A k \in i + 1 .. j - 1 : q[k].type # "feed"
    BY <1>5, <2>1
  <2> QED BY <1>2, <2>1, <2>2
<1>8. \A i, j \in 1 .. C + 1 : i < j /\ r[i].type = "finalize" => r[j].type # "feed"
  <2> SUFFICES ASSUME NEW i \in 1 .. C + 1, NEW j \in 1 .. C + 1, i < j, r[i].type = "finalize", r[j].type = "feed"
               PROVE  FALSE
    OBVIOUS
  <2>1. j \in 1 .. C /\ r[j] = q[j]
    BY <1>3
  <2>2. i \in 1 .. C
    BY <1>1, <2>1
  <2>3. r[i] = q[i]
    BY <1>1, <2>2
  <2> QED BY <1>2, <2>1, <2>2, <2>3
<1> QED
  <2>1. \A j \in 1 .. Len(cmdQ') :
          cmdQ'[j].type = "feed" /\ NoFeed(1, j - 1)' => (Begin(cmdQ[j]) = base + Len(worker.heard))'
    <3> SUFFICES ASSUME NEW j \in 1 .. Len(cmdQ'), cmdQ'[j].type = "feed", NoFeed(1, j - 1)'
                 PROVE  (Begin(cmdQ[j]) = base + Len(worker.heard))'
      OBVIOUS
    <3>1. j \in 1 .. C + 1
      BY <1>1 DEF r
    <3>2. \A k \in 1 .. j - 1 : r[k].type # "feed"
      BY DEF NoFeed, r
    <3>3. B(r[j]) = held
      BY <1>6, <3>1, <3>2 DEF r
    <3> QED BY <3>3 DEF Begin, held, r, B
  <2>2. \A i, j \in 1 .. Len(cmdQ') :
          i < j /\ cmdQ'[i].type = "feed" /\ cmdQ'[j].type = "feed" /\ NoFeed(i + 1, j - 1)'
          => (Begin(cmdQ[j]) = End(cmdQ[i]))'
    <3> SUFFICES ASSUME NEW i \in 1 .. Len(cmdQ'), NEW j \in 1 .. Len(cmdQ'), i < j,
                        cmdQ'[i].type = "feed", cmdQ'[j].type = "feed", NoFeed(i + 1, j - 1)'
                 PROVE  (Begin(cmdQ[j]) = End(cmdQ[i]))'
      OBVIOUS
    <3>1. i \in 1 .. C + 1 /\ j \in 1 .. C + 1
      BY <1>1 DEF r
    <3>2. \A k \in i + 1 .. j - 1 : r[k].type # "feed"
      BY DEF NoFeed, r
    <3>3. B(r[j]) = B(r[i]) + r[i].len
      BY <1>7, <3>1, <3>2 DEF r
    <3> QED BY <3>3 DEF Begin, End, r, B
  <2>3. \A i, j \in 1 .. Len(cmdQ') : i < j /\ cmdQ'[i].type = "finalize" => cmdQ'[j].type # "feed"
    BY <1>1, <1>8 DEF r, C
  <2> QED BY <2>1, <2>2, <2>3 DEF QueueFollows

\* Where a feed is not concerned, commands tell the tags nothing.
LEMMA MarkerTags ==
    ASSUME TypeInv, TagsKept, WordsTimed, NEW cmd \in Commands, cmd.type # "feed", cmdQ' = Append(cmdQ, cmd),
           evQ' = evQ, worker' = worker, stream' = stream, base' = base
    PROVE  TagsKept' /\ WordsTimed'
<1>1. \A k \in DOMAIN cmdQ' : cmdQ'[k].type = "feed" => k \in DOMAIN cmdQ /\ cmdQ'[k] = cmdQ[k]
  BY Appended
<1> QED BY <1>1 DEF TagsKept, Tagged, WordsTimed, RowTimed

\* The handler asks for the end of the stream, or for a restart.
LEMMA AskedAudio ==
    ASSUME TypeInv, Orderly, AudioInv, Alive, todo # <<>>,
           NEW wait \in StepType, todo' = <<wait>> \o Tail(todo), Answers(wait, todo[1]),
           NEW cmd \in Commands, cmd.type # "feed", cmdQ' = Append(cmdQ, cmd), evQ' = evQ,
           todo[1].op = "restart" \/ (todo[1].op = "finalize" /\ base # NoTime),
           cmd.type = "finalize" => todo[1].op = "finalize",
           UNCHANGED <<element, state, cancel, worker, stream>>
    PROVE  AudioInv'
<1>1. /\ worker' = worker /\ base' = base /\ nextPts' = nextPts /\ gate' = gate /\ gateSeen' = gateSeen /\ ready' = ready
      /\ stream' = stream /\ cancel' = cancel /\ due' = due /\ sinkFlush' = sinkFlush /\ phase' = phase
  BY DEF element, state
<1>2. /\ Len(todo') = Len(todo) /\ DOMAIN todo' = DOMAIN todo /\ 1 \in DOMAIN todo /\ todo'[1] = wait
      /\ \A i \in DOMAIN todo : i # 1 => todo'[i] = todo[i]
      /\ wait.op = "await"
  BY SentItems DEF Answers
<1>3. /\ RestartDue' <=> RestartDue
      /\ \A op : op \notin {"finalize", "restart", "await"} => (Has(op)' <=> Has(op))
  BY SentDue
<1>4. Shrinks
  BY <1>2 DEF Shrinks
<1>5. TagsKept' /\ WordsTimed'
  BY <1>1, MarkerTags DEF AudioInv
<1>6. Primed'
  <2>1. \A k \in DOMAIN cmdQ' : cmdQ'[k].type = "feed" => k \in DOMAIN cmdQ /\ cmdQ'[k] = cmdQ[k]
    BY Appended
  <2> QED BY <1>1, <1>4, <2>1 DEF Primed, Shrinks, Mode, Aligned, AudioInv
<1>7. FlushRests' /\ NullRests' /\ PlansAlone'
  BY <1>1, <1>3 DEF FlushRests, NullRests, PlansAlone, AudioInv
<1>8. LiveInv'
  <2> SUFFICES ASSUME Live' PROVE LiveInv'
    BY DEF LiveInv
  <2>1. /\ Live /\ HeldTimed /\ EntersFollow /\ GateFollows
        /\ base # NoTime => QueueFollows /\ HandlerFollows
    BY <1>1 DEF Live, Alive, AudioInv, LiveInv
  <2>2. HeldTimed' /\ GateFollows'
    BY <1>1, <2>1 DEF HeldTimed, GateFollows
  <2>3. EntersFollow'
    <3> SUFFICES ASSUME NEW i \in DOMAIN todo', todo'[i].op = "enter"
                 PROVE  /\ i = Len(todo') /\ todo'[i].pts >= FirstPts
                        /\ RestartDue' \/ nextPts' = NoTime \/ todo'[i].pts = nextPts'
                        /\ ready' \/ todo'[1].op = "ensure_ready"
      BY DEF EntersFollow
    <3>1. i \in DOMAIN todo /\ todo'[i] = todo[i]
      BY <1>2
    <3>2. /\ i = Len(todo) /\ todo[i].pts >= FirstPts
          /\ RestartDue \/ nextPts = NoTime \/ todo[i].pts = nextPts
          /\ ready \/ todo[1].op = "ensure_ready"
      BY <2>1, <3>1 DEF EntersFollow
    <3> QED BY <1>1, <1>2, <1>3, <3>1, <3>2
  <2>4. ASSUME base # NoTime PROVE QueueFollows' /\ HandlerFollows'
    <3>1. QueueFollows'
      BY <1>1, <2>1, <2>4, MarkerQueued
    <3>2. ~Open
      <4>1. todo[1].op = "finalize" => Has("finalize")
        BY <1>2 DEF Has
      <4>2. todo[1].op = "restart" => RestartDue
        BY <1>2 DEF RestartDue, Restarting
      <4> QED BY <2>1, <2>4, <4>1, <4>2 DEF HandlerFollows, Open
    <3>3. ~Open' /\ ~Has("feed")'
      BY <1>1, <1>3, <2>1, <2>4, <3>2 DEF HandlerFollows, Open, Has
    <3> QED BY <3>1, <3>3 DEF HandlerFollows, Has
  <2> QED BY <1>1, <2>2, <2>3, <2>4 DEF LiveInv
<1> QED BY <1>5, <1>6, <1>7, <1>8 DEF AudioInv

LEMMA DoFinalizeAudio ==
    ASSUME TypeInv, Orderly, AudioInv, DoFinalize
    PROVE  AudioInv'
<1>1. /\ todo # <<>> /\ todo[1].op = "finalize" /\ todo[1] \in StepType /\ Head(todo) = todo[1]
      /\ UNCHANGED <<element, state, cancel, worker, stream>>
  BY HeadDue DEF DoFinalize, Doing, Quiet, Orderly
<1>2. ~Restarting(todo[1])
  BY <1>1 DEF Restarting
<1>3. CASE base = NoTime
  <2>1. todo' = Tail(todo) /\ evQ' = evQ /\ cmdQ' = cmdQ
    BY <1>3 DEF DoFinalize, channels
  <2>2. Unmoved
    BY <1>1, <2>1 DEF Unmoved, Clock, element, state
  <2> QED BY <1>1, <1>2, <2>1, <2>2, EventsLeft, TailAudio
<1> DEFINE wait == Await("drained", Head(todo).scope, FALSE)
           cmd == [type |-> "finalize"]
<1>4. base # NoTime => SendOrFail(cmd, <<wait>>)
  BY DEF DoFinalize
<1>5. wait \in StepType /\ wait.op = "await" /\ wait.marker = "drained"
  BY <1>1, StepFields, StepsMade DEF Await
<1>6. cmd \in Commands /\ cmd.type = "finalize"
  BY DEF Commands
<1> HIDE DEF wait, cmd
<1>7. CASE base # NoTime /\ worker.state = "dead"
  <2>1. Abandon /\ evQ' = <<>> /\ cmdQ' = cmdQ /\ ~Live
    BY <1>4, <1>7 DEF SendOrFail, Live, Alive, Lives
  <2>2. Unmoved
    BY <1>1, <2>1 DEF Unmoved, Clock, element, state
  <2> QED BY <2>1, <2>2, EventsLeft, AbandonedAudio
<1>8. CASE base # NoTime /\ worker.state # "dead"
  <2>1. evQ' = evQ /\ cmdQ' = Append(cmdQ, cmd) /\ todo' = <<wait>> \o Tail(todo) /\ Alive
    BY <1>4, <1>8 DEF SendOrFail, Alive, Lives
  <2>2. Answers(wait, todo[1])
    BY <1>1, <1>5 DEF Answers
  <2> QED BY <1>1, <1>5, <1>6, <1>8, <2>1, <2>2, AskedAudio
<1> QED BY <1>3, <1>7, <1>8

LEMMA DoRestartAudio ==
    ASSUME TypeInv, Orderly, AudioInv, DoRestart
    PROVE  AudioInv'
<1>1. /\ todo # <<>> /\ todo[1].op = "restart" /\ todo[1] \in StepType /\ Head(todo) = todo[1]
      /\ UNCHANGED <<element, state, cancel, worker, stream>>
  BY HeadDue DEF DoRestart, Doing, Quiet, Orderly
<1> DEFINE wait == Await("restarted", Head(todo).scope, Head(todo).discard)
           cmd == [type |-> "restart"]
<1>2. SendOrFail(cmd, <<wait>>)
  BY DEF DoRestart
<1>3. wait \in StepType /\ wait.op = "await" /\ wait.marker = "restarted" /\ wait.discard = todo[1].discard
  BY <1>1, StepFields, StepsMade DEF Await
<1>4. cmd \in Commands /\ cmd.type = "restart"
  BY DEF Commands
<1> HIDE DEF wait, cmd
<1>5. CASE worker.state = "dead"
  <2>1. Abandon /\ evQ' = <<>> /\ cmdQ' = cmdQ /\ ~Live
    BY <1>2, <1>5 DEF SendOrFail, Live, Alive, Lives
  <2>2. Unmoved
    BY <1>1, <2>1 DEF Unmoved, Clock, element, state
  <2> QED BY <2>1, <2>2, EventsLeft, AbandonedAudio
<1>6. CASE worker.state # "dead"
  <2>1. evQ' = evQ /\ cmdQ' = Append(cmdQ, cmd) /\ todo' = <<wait>> \o Tail(todo) /\ Alive
    BY <1>2, <1>6 DEF SendOrFail, Alive, Lives
  <2>2. Answers(wait, todo[1])
    BY <1>1, <1>3 DEF Answers
  <2> QED BY <1>1, <1>3, <1>4, <2>1, <2>2, AskedAudio
<1> QED BY <1>5, <1>6

-----------------------------------------------------------------------------
\* A handler starts.

LEMMA StartAudio ==
    ASSUME TypeInv, AudioInv, Idle,
           UNCHANGED <<phase, sinkFlush, srcFlush, state, channels, cancel, worker, stream>>,
           ~Has("feed")', PlansAlone', Live /\ EntersFollow /\ GateFollows => EntersFollow',
           Open' => Open /\ ~Has("finalize")',
           ~Aligned => \A i \in DOMAIN todo' : todo'[i].op # "feed"
    PROVE  AudioInv'
<1>1. /\ worker' = worker /\ cmdQ' = cmdQ /\ evQ' = evQ /\ cancel' = cancel /\ stream' = stream /\ base' = base
      /\ nextPts' = nextPts /\ gate' = gate /\ gateSeen' = gateSeen /\ ready' = ready
      /\ todo = <<>> /\ ~sinkFlush' /\ phase' # "null"
  BY DEF state, channels, Idle
<1>2. TagsKept' /\ WordsTimed'
  BY <1>1, EventsLeft, SameTags DEF AudioInv
<1>3. Primed'
  BY <1>1 DEF Primed, AudioInv, Mode, Aligned
<1>4. FlushRests' /\ NullRests'
  BY <1>1 DEF FlushRests, NullRests
<1>5. LiveInv'
  <2> SUFFICES ASSUME Live' PROVE LiveInv'
    BY DEF LiveInv
  <2>1. /\ Live /\ HeldTimed /\ EntersFollow /\ GateFollows
        /\ base # NoTime => QueueFollows /\ HandlerFollows
    BY <1>1 DEF Live, Alive, AudioInv, LiveInv
  <2>2. HeldTimed' /\ GateFollows' /\ (base # NoTime => QueueFollows')
    BY <1>1, <2>1 DEF HeldTimed, GateFollows, QueueFollows, NoFeed, Begin, End
  <2>3. ASSUME base # NoTime PROVE HandlerFollows'
    <3>1. ~Has("feed")
      BY <1>1 DEF Has
    <3>2. Open => EndsAt(nextPts) /\ \A i \in DOMAIN cmdQ : cmdQ[i].type # "finalize"
      BY <2>1, <2>3, <3>1 DEF HandlerFollows
    <3>3. EndsAt(nextPts) => EndsAt(nextPts)'
      BY <1>1 DEF EndsAt, NoFeed, End, Begin
    <3> QED BY <1>1, <3>2, <3>3 DEF HandlerFollows, Has
  <2> QED BY <1>1, <2>1, <2>2, <2>3 DEF LiveInv
<1> QED BY <1>2, <1>3, <1>4, <1>5 DEF AudioInv

LEMMA CapsAudio ==
    ASSUME TypeInv, AudioInv, Caps
    PROVE  AudioInv'
<1>1. todo' = <<Step("ensure_ready", "caps")>> /\ ~Open'
  BY DEF Caps, Open
<1>2. \A i \in DOMAIN todo' : todo'[i].op = "ensure_ready"
  BY <1>1 DEF Step
<1>3. ~Has("feed")' /\ PlansAlone' /\ EntersFollow'
  BY <1>2 DEF Has, PlansAlone, EntersFollow
<1>4. Idle /\ UNCHANGED <<phase, sinkFlush, srcFlush, state, channels, cancel, worker, stream>>
  BY DEF Caps, Quiet
<1> QED BY <1>1, <1>2, <1>3, <1>4, StartAudio

\* A handler that ends the stream, or restarts it, and gives it nothing.
LEMMA EndingAudio ==
    ASSUME TypeInv, AudioInv, Idle,
           UNCHANGED <<phase, sinkFlush, srcFlush, state, channels, cancel, worker, stream>>,
           \A i \in DOMAIN todo' : todo'[i].op \notin {"feed", "enter"}, ~Open'
    PROVE  AudioInv'
<1>1. ~Has("feed")' /\ PlansAlone' /\ EntersFollow'
  BY DEF Has, PlansAlone, EntersFollow
<1> QED BY <1>1, StartAudio

LEMMA SegmentAudio ==
    ASSUME TypeInv, AudioInv, Segment
    PROVE  AudioInv'
<1> DEFINE fin == Finalize("finalize")
           res == Restart("restart", FALSE)
           seg == Step("segment", "forward")
<1>1. todo' = <<fin, res, seg>>
  BY DEF Segment
<1>2. fin.op = "finalize" /\ res.op = "restart" /\ seg.op = "segment"
  BY StepOps
<1> HIDE DEF fin, res, seg
<1>3. DOMAIN todo' = 1 .. 3 /\ todo'[1] = fin /\ todo'[2] = res /\ todo'[3] = seg
  BY <1>1
<1>4. \A i \in DOMAIN todo' : i = 1 \/ i = 2 \/ i = 3
  BY <1>3
<1>5. \A i \in DOMAIN todo' : todo'[i].op \notin {"feed", "enter"}
  BY <1>2, <1>3, <1>4
<1>6. RestartDue'
  BY <1>2, <1>3 DEF RestartDue, Restarting
<1>7. Idle /\ UNCHANGED <<phase, sinkFlush, srcFlush, state, channels, cancel, worker, stream>>
  BY DEF Segment, Quiet
<1> QED BY <1>5, <1>6, <1>7, EndingAudio DEF Open

LEMMA EosAudio ==
    ASSUME TypeInv, AudioInv, Eos
    PROVE  AudioInv'
<1> DEFINE fin == Finalize("finalize")
           eos == Step("eos", "forward")
<1>1. todo' = <<fin, eos>> /\ ~Open'
  BY DEF Eos, Open
<1>2. fin.op = "finalize" /\ eos.op = "eos"
  BY StepOps
<1> HIDE DEF fin, eos
<1>3. DOMAIN todo' = 1 .. 2 /\ todo'[1] = fin /\ todo'[2] = eos
  BY <1>1
<1>4. \A i \in DOMAIN todo' : i = 1 \/ i = 2
  BY <1>3
<1>5. \A i \in DOMAIN todo' : todo'[i].op \notin {"feed", "enter"}
  BY <1>2, <1>3, <1>4
<1>6. Idle /\ UNCHANGED <<phase, sinkFlush, srcFlush, state, channels, cancel, worker, stream>>
  BY DEF Eos, Quiet
<1> QED BY <1>1, <1>5, <1>6, EndingAudio

LEMMA InputGapAudio ==
    ASSUME NEW pts \in Nat, NEW end \in Nat, TypeInv, AudioInv, InputGap(pts, end)
    PROVE  AudioInv'
<1> DEFINE fin == Finalize("finalize")
           plan == [op |-> "plan_gap", scope |-> "plan", from |-> pts, to |-> end]
           res == Restart("restart", FALSE)
<1>1. todo' = <<fin, plan, res>>
  BY DEF InputGap
<1>2. fin.op = "finalize" /\ plan.op = "plan_gap" /\ res.op = "restart"
  BY StepOps
<1> HIDE DEF fin, plan, res
<1>3. DOMAIN todo' = 1 .. 3 /\ todo'[1] = fin /\ todo'[2] = plan /\ todo'[3] = res
  BY <1>1
<1>4. \A i \in DOMAIN todo' : i = 1 \/ i = 2 \/ i = 3
  BY <1>3
<1>5. \A i \in DOMAIN todo' : todo'[i].op \notin {"feed", "enter"}
  BY <1>2, <1>3, <1>4
<1>6. RestartDue'
  BY <1>2, <1>3 DEF RestartDue, Restarting
<1>7. Idle /\ UNCHANGED <<phase, sinkFlush, srcFlush, state, channels, cancel, worker, stream>>
  BY DEF InputGap, Silent, element
<1> QED BY <1>5, <1>6, <1>7, EndingAudio DEF Open

\* A buffer that lies where the one before it ended, within no tolerance.
LEMMA ChainAudio ==
    ASSUME NEW pts \in Nat, NEW len \in Nat, NEW flagged, TypeInv, AudioInv, Chain(pts, len, flagged), Threshold = 0
    PROVE  AudioInv'
<1> DEFINE fin == Finalize("chain")
           bridge == [op |-> "bridge", scope |-> "chain", pts |-> pts]
           res == Restart("chain", FALSE)
           enter == [op |-> "enter", scope |-> "chain", pts |-> pts, end |-> pts + len]
           ens == Step("ensure_ready", "chain")
<1>1. \/ Discontinuous(pts, flagged) /\ todo' = <<fin, bridge, res, enter>>
      \/ ~Discontinuous(pts, flagged) /\ ready /\ todo' = <<enter>>
      \/ ~Discontinuous(pts, flagged) /\ todo' = <<ens, enter>>
  BY DEF Chain
<1>2. fin.op = "finalize" /\ bridge.op = "bridge" /\ res.op = "restart" /\ enter.op = "enter" /\ ens.op = "ensure_ready"
  BY StepOps
<1>3. enter.pts = pts /\ FirstPts <= pts
  BY DEF Chain, Follows
<1>4. /\ Idle /\ UNCHANGED <<phase, sinkFlush, srcFlush, state, channels, cancel, worker, stream>>
      /\ todo = <<>> /\ due = "data" /\ due' = due /\ ready' = ready /\ nextPts' = nextPts
  BY DEF Chain, Silent, Idle, element, state
<1>5. FirstPts \in Nat /\ nextPts \in Time
  BY TranscriberAssumption DEF TypeInv, StateOK
<1>6. pts >= FirstPts
  BY <1>3, <1>5
<1>7. ~Discontinuous(pts, flagged) => nextPts = NoTime \/ pts = nextPts
  BY <1>5 DEF Discontinuous, Time
<1>8. Discontinuous(pts, flagged) => nextPts # NoTime
  BY DEF Discontinuous
<1>9. Open
  BY <1>4 DEF Open, RestartDue
<1> HIDE DEF fin, bridge, res, enter, ens
<1>10. CASE Discontinuous(pts, flagged) /\ todo' = <<fin, bridge, res, enter>>
  <2>1. /\ DOMAIN todo' = 1 .. 4 /\ Len(todo') = 4
        /\ todo'[1] = fin /\ todo'[2] = bridge /\ todo'[3] = res /\ todo'[4] = enter
    BY <1>10
  <2>2. \A i \in DOMAIN todo' : i = 1 \/ i = 2 \/ i = 3 \/ i = 4
    BY <2>1
  <2>3. RestartDue'
    BY <1>2, <2>1 DEF RestartDue, Restarting
  <2>4. ~Has("feed")' /\ ~Has("plan_gap")'
    BY <1>2, <2>1, <2>2 DEF Has
  <2>5. Live /\ EntersFollow /\ GateFollows => EntersFollow'
    <3> SUFFICES ASSUME GateFollows PROVE EntersFollow'
      OBVIOUS
    <3>1. ready'
      BY <1>4, <1>8, <1>10 DEF GateFollows
    <3> QED BY <1>2, <1>3, <1>6, <2>1, <2>2, <2>3, <3>1 DEF EntersFollow
  <2> QED BY <1>4, <2>3, <2>4, <2>5, StartAudio DEF Open, PlansAlone, Has
<1>11. CASE ~Discontinuous(pts, flagged) /\ ready /\ todo' = <<enter>>
  <2>1. DOMAIN todo' = 1 .. 1 /\ todo'[1] = enter /\ Len(todo') = 1
    BY <1>11
  <2>2. \A i \in DOMAIN todo' : i = 1
    BY <2>1
  <2>3. ~Has("feed")' /\ ~Has("plan_gap")' /\ ~Has("finalize")'
    BY <1>2, <2>1, <2>2 DEF Has
  <2>4. EntersFollow'
    BY <1>2, <1>3, <1>4, <1>6, <1>7, <1>11, <2>1, <2>2 DEF EntersFollow
  <2> QED BY <1>4, <1>9, <2>3, <2>4, StartAudio DEF PlansAlone, Has
<1>12. CASE ~Discontinuous(pts, flagged) /\ todo' = <<ens, enter>>
  <2>1. DOMAIN todo' = 1 .. 2 /\ todo'[1] = ens /\ todo'[2] = enter /\ Len(todo') = 2
    BY <1>12
  <2>2. \A i \in DOMAIN todo' : i = 1 \/ i = 2
    BY <2>1
  <2>3. ~Has("feed")' /\ ~Has("plan_gap")' /\ ~Has("finalize")'
    BY <1>2, <2>1, <2>2 DEF Has
  <2>4. EntersFollow'
    BY <1>2, <1>3, <1>4, <1>6, <1>7, <1>12, <2>1, <2>2 DEF EntersFollow
  <2> QED BY <1>4, <1>9, <2>3, <2>4, StartAudio DEF PlansAlone, Has
<1> QED BY <1>1, <1>10, <1>11, <1>12

-----------------------------------------------------------------------------
\* Audio is handed over.

LEMMA TailItems ==
    ASSUME TypeInv, todo # <<>>, todo' = Tail(todo)
    PROVE  /\ \A i \in DOMAIN todo' : i + 1 \in DOMAIN todo /\ todo'[i] = todo[i + 1] /\ (i = Len(todo') <=> i + 1 = Len(todo))
           /\ DOMAIN todo' = 1 .. Len(todo) - 1 /\ DOMAIN todo = 1 .. Len(todo) /\ Len(todo) \in Nat \ {0}
           /\ Len(todo') = Len(todo) - 1
<1>1. Dropped(1)
  BY StepDone
<1>2. \A i \in DOMAIN todo' : 1 + i \in DOMAIN todo /\ todo'[i] = todo[1 + i] /\ (i = Len(todo') <=> 1 + i = Len(todo))
  BY <1>1, DroppedItems DEF TypeInv
<1>3. /\ DOMAIN todo' = 1 .. Len(todo) - 1 /\ DOMAIN todo = 1 .. Len(todo) /\ Len(todo) \in Nat \ {0}
      /\ Len(todo') = Len(todo) - 1
  BY <1>1, HeadOfTodo DEF Dropped, TypeInv
<1>4. \A i \in DOMAIN todo' : 1 + i = i + 1
  BY <1>3
<1> QED BY <1>2, <1>3, <1>4

LEMMA FeedQueued ==
    ASSUME TypeInv, NEW cmd \in Commands, cmdQ' = Append(cmdQ, cmd), cmd.type = "feed",
           worker' = worker, base' = base, QueueFollows, EndsAt(Begin(cmd)),
           \A i \in DOMAIN cmdQ : cmdQ[i].type # "finalize", NEW x, x = End(cmd)
    PROVE  QueueFollows' /\ EndsAt(x)'
<1> DEFINE q == cmdQ
           r == cmdQ'
           C == Len(cmdQ)
           held == base + Len(worker.heard)
           B(f) == IF f.from = NoTime THEN base ELSE f.from
<1>1. /\ C \in Nat /\ Len(r) = C + 1 /\ r[C + 1] = cmd
      /\ \A k \in 1 .. C : r[k] = q[k]
      /\ DOMAIN q = 1 .. C
  BY Appended
<1>2. /\ \A j \in 1 .. C : q[j].type = "feed" /\ (\A k \in 1 .. j - 1 : q[k].type # "feed") => B(q[j]) = held
      /\ \A i, j \in 1 .. C : i < j /\ q[i].type = "feed" /\ q[j].type = "feed"
                              /\ (\A k \in i + 1 .. j - 1 : q[k].type # "feed") => B(q[j]) = B(q[i]) + q[i].len
  BY DEF QueueFollows, NoFeed, Begin, End
<1>3. \/ (\A k \in 1 .. C : q[k].type # "feed") /\ B(cmd) = held
      \/ \E j \in 1 .. C : q[j].type = "feed" /\ (\A k \in j + 1 .. C : q[k].type # "feed") /\ B(cmd) = B(q[j]) + q[j].len
  BY DEF EndsAt, NoFeed, Begin, End
<1>4. \A k \in 1 .. C : q[k].type # "finalize"
  BY <1>1
<1>12. x = B(cmd) + cmd.len
  BY DEF End, Begin
<1> HIDE DEF q, r, C, held, B
<1>5. \A j \in 1 .. C + 1 : (j \in 1 .. C /\ r[j] = q[j]) \/ (j = C + 1 /\ r[j] = cmd)
  BY <1>1
<1>6. \A j \in 1 .. C + 1 : \A k \in 1 .. j - 1 : k \in 1 .. C /\ r[k] = q[k]
  BY <1>1
<1>7. \A j \in 1 .. C + 1 : r[j].type = "feed" /\ (\A k \in 1 .. j - 1 : r[k].type # "feed") => B(r[j]) = held
  <2> SUFFICES ASSUME NEW j \in 1 .. C + 1, r[j].type = "feed", \A k \in 1 .. j - 1 : r[k].type # "feed"
               PROVE  B(r[j]) = held
    OBVIOUS
  <2>1. \A k \in 1 .. j - 1 : q[k].type # "feed"
    BY <1>6
  <2>2. CASE j \in 1 .. C /\ r[j] = q[j]
    BY <1>2, <2>1, <2>2
  <2>3. CASE j = C + 1 /\ r[j] = cmd
    <3>1. \A k \in 1 .. C : q[k].type # "feed"
      BY <1>1, <2>1, <2>3
    <3> QED BY <1>3, <2>3, <3>1
  <2> QED BY <1>5, <2>2, <2>3
<1>8. \A i, j \in 1 .. C + 1 : i < j /\ r[i].type = "feed" /\ r[j].type = "feed"
                              /\ (\A k \in i + 1 .. j - 1 : r[k].type # "feed") => B(r[j]) = B(r[i]) + r[i].len
  <2> SUFFICES ASSUME NEW i \in 1 .. C + 1, NEW j \in 1 .. C + 1, i < j, r[i].type = "feed", r[j].type = "feed",
                      \A k \in i + 1 .. j - 1 : r[k].type # "feed"
               PROVE  B(r[j]) = B(r[i]) + r[i].len
    OBVIOUS
  <2>1. i \in 1 .. C /\ r[i] = q[i]
    BY <1>1
  <2>2. \A k \in i + 1 .. j - 1 : q[k].type # "feed"
    <3>1. \A k \in i + 1 .. j - 1 : k \in 1 .. j - 1
      BY <1>1
    <3> QED BY <1>6, <3>1
  <2>3. CASE j \in 1 .. C /\ r[j] = q[j]
    BY <1>2, <2>1, <2>2, <2>3
  <2>4. CASE j = C + 1 /\ r[j] = cmd
    <3>1. PICK m \in 1 .. C : q[m].type = "feed" /\ (\A k \in m + 1 .. C : q[k].type # "feed") /\ B(cmd) = B(q[m]) + q[m].len
      BY <1>3, <2>1
    <3>2. \A k \in i + 1 .. C : q[k].type # "feed"
      BY <1>1, <2>2, <2>4
    <3>3. ~(m < i) /\ ~(i < m)
      <4>1. m < i => i \in m + 1 .. C
        BY <1>1, <2>1
      <4>2. i < m => m \in i + 1 .. C
        BY <1>1, <2>1
      <4> QED BY <2>1, <3>1, <3>2, <4>1, <4>2
    <3>4. m = i
      BY <1>1, <2>1, <3>3
    <3> QED BY <2>1, <2>4, <3>1, <3>4
  <2> QED BY <1>5, <2>3, <2>4
<1>9. \A i, j \in 1 .. C + 1 : i < j /\ r[i].type = "finalize" => r[j].type # "feed"
  BY <1>1, <1>4
<1>10. QueueFollows'
  <2>1. \A j \in 1 .. Len(cmdQ') :
          cmdQ'[j].type = "feed" /\ NoFeed(1, j - 1)' => (Begin(cmdQ[j]) = base + Len(worker.heard))'
    <3> SUFFICES ASSUME NEW j \in 1 .. Len(cmdQ'), cmdQ'[j].type = "feed", NoFeed(1, j - 1)'
                 PROVE  (Begin(cmdQ[j]) = base + Len(worker.heard))'
      OBVIOUS
    <3>1. j \in 1 .. C + 1
      BY <1>1 DEF r
    <3>2. \A k \in 1 .. j - 1 : r[k].type # "feed"
      BY DEF NoFeed, r
    <3>3. B(r[j]) = held
      BY <1>7, <3>1, <3>2 DEF r
    <3> QED BY <3>3 DEF Begin, held, r, B
  <2>2. \A i, j \in 1 .. Len(cmdQ') :
          i < j /\ cmdQ'[i].type = "feed" /\ cmdQ'[j].type = "feed" /\ NoFeed(i + 1, j - 1)'
          => (Begin(cmdQ[j]) = End(cmdQ[i]))'
    <3> SUFFICES ASSUME NEW i \in 1 .. Len(cmdQ'), NEW j \in 1 .. Len(cmdQ'), i < j,
                        cmdQ'[i].type = "feed", cmdQ'[j].type = "feed", NoFeed(i + 1, j - 1)'
                 PROVE  (Begin(cmdQ[j]) = End(cmdQ[i]))'
      OBVIOUS
    <3>1. i \in 1 .. C + 1 /\ j \in 1 .. C + 1
      BY <1>1 DEF r
    <3>2. \A k \in i + 1 .. j - 1 : r[k].type # "feed"
      BY DEF NoFeed, r
    <3>3. B(r[j]) = B(r[i]) + r[i].len
      BY <1>8, <3>1, <3>2 DEF r
    <3> QED BY <3>3 DEF Begin, End, r, B
  <2>3. \A i, j \in 1 .. Len(cmdQ') : i < j /\ cmdQ'[i].type = "finalize" => cmdQ'[j].type # "feed"
    BY <1>1, <1>9 DEF r, C
  <2> QED BY <2>1, <2>2, <2>3 DEF QueueFollows
<1>11. EndsAt(x)'
  <2>1. PICK n \in Nat : n = C + 1
    BY <1>1
  <2>2. n \in 1 .. Len(cmdQ') /\ Len(cmdQ') = n /\ cmdQ'[n] = cmd
    BY <1>1, <2>1 DEF r
  <2>3. NoFeed(n + 1, Len(cmdQ))'
    BY <2>1, <2>2 DEF NoFeed
  <2>4. End(cmdQ[n])' = x
    BY <1>12, <2>2 DEF End, Begin, B
  <2> QED BY <2>2, <2>3, <2>4 DEF EndsAt
<1> QED BY <1>10, <1>11

LEMMA DoFeedAudio ==
    ASSUME TypeInv, Orderly, AudioInv, DoFeed, Overrun = "block"
    PROVE  AudioInv'
<1>1. /\ todo # <<>> /\ todo[1].op = "feed" /\ todo[1] \in StepType /\ Head(todo) = todo[1] /\ 1 \in DOMAIN todo
      /\ worker' = worker /\ base' = base /\ nextPts' = nextPts /\ gate' = gate /\ gateSeen' = gateSeen /\ ready' = ready
      /\ stream' = stream /\ cancel' = cancel /\ UNCHANGED element
  BY HeadDue DEF DoFeed, Doing, Quiet, Orderly
<1> DEFINE cmd == [type |-> "feed", len |-> Head(todo).len, from |-> Head(todo).from, stream |-> stream]
<1>2. SendOrFail(cmd, <<>>)
  BY DEF DoFeed
<1>3. /\ cmd \in Commands /\ cmd.type = "feed" /\ cmd.from = todo[1].from /\ cmd.len = todo[1].len
      /\ cmd.stream = stream
  BY <1>1, StepFields DEF Commands, TypeInv, ObservedOK
<1> HIDE DEF cmd
<1>4. CASE worker.state = "dead"
  <2>1. Abandon /\ evQ' = <<>> /\ cmdQ' = cmdQ /\ ~Live
    BY <1>2, <1>4 DEF SendOrFail, Live, Alive, Lives
  <2>2. Unmoved
    BY <1>1, <2>1 DEF Unmoved, Clock, element
  <2> QED BY <2>1, <2>2, EventsLeft, AbandonedAudio
<1>5. CASE worker.state # "dead"
  <2>1. evQ' = evQ /\ cmdQ' = Append(cmdQ, cmd) /\ todo' = Tail(todo)
    <3>1. Tail(todo) \in Seq(StepType)
      BY <1>1, HeadTailProperties DEF TypeInv
    <3>2. todo' = <<>> \o Tail(todo)
      BY <1>2, <1>5 DEF SendOrFail
    <3> QED BY <1>2, <1>5, <3>1, <3>2 DEF SendOrFail
  <2>2. ~Restarting(todo[1])
    BY <1>1 DEF Restarting
  <2>3. (RestartDue' <=> RestartDue) /\ (Has("finalize")' <=> Has("finalize")) /\ (Has("enter")' <=> Has("enter"))
    BY <1>1, <2>1, <2>2, StepDone
  <2>4. Shrinks
    BY <1>1, <2>1, StepDone, DroppedShrinks
  <2>5. base # NoTime
    BY <1>1 DEF Orderly, HandlerOK, Has
  <2>6. \A k \in DOMAIN cmdQ' : (k \in DOMAIN cmdQ /\ cmdQ'[k] = cmdQ[k]) \/ cmdQ'[k] = cmd
    <3>1. /\ Len(cmdQ) \in Nat /\ cmdQ'[Len(cmdQ) + 1] = cmd
          /\ \A k \in 1 .. Len(cmdQ) : cmdQ'[k] = cmdQ[k]
          /\ DOMAIN cmdQ = 1 .. Len(cmdQ) /\ DOMAIN cmdQ' = 1 .. Len(cmdQ) + 1
      BY <1>3, <2>1, Appended
    <3>2. \A k \in 1 .. Len(cmdQ) + 1 : k \in 1 .. Len(cmdQ) \/ k = Len(cmdQ) + 1
      BY <3>1
    <3> QED BY <3>1, <3>2
  <2>7. TagsKept' /\ WordsTimed'
    <3>1. Tagged(stream)
      BY <2>5 DEF Tagged, TypeInv, ObservedOK
    <3>2. TagsKept'
      BY <1>1, <1>3, <2>1, <2>6, <3>1 DEF TagsKept, Tagged, AudioInv
    <3>3. WordsTimed'
      BY <1>1, <2>1 DEF WordsTimed, RowTimed, AudioInv
    <3> QED BY <3>2, <3>3
  <2>8. Primed'
    BY <1>1, <1>3, <2>4, <2>6 DEF Primed, Shrinks, Mode, Aligned, AudioInv
  <2>9. FlushRests' /\ NullRests' /\ PlansAlone'
    <3>1. Has("plan_gap")' => Has("plan_gap")
      BY <2>4 DEF Shrinks, Has
    <3> QED BY <1>1, <2>3, <3>1 DEF FlushRests, NullRests, PlansAlone, AudioInv, element
  <2>10. LiveInv'
    <3> SUFFICES ASSUME Live' PROVE LiveInv'
      BY DEF LiveInv
    <3>1. /\ HeldTimed /\ EntersFollow /\ GateFollows
          /\ QueueFollows /\ HandlerFollows
      BY <1>1, <2>5 DEF Live, Alive, AudioInv, LiveInv
    <3>2. HeldTimed' /\ GateFollows'
      BY <1>1, <3>1 DEF HeldTimed, GateFollows
    <3>3. \A i \in DOMAIN todo' : i + 1 \in DOMAIN todo /\ todo'[i] = todo[i + 1] /\ (i = Len(todo') <=> i + 1 = Len(todo))
      BY <1>1, <2>1, TailItems
    <3>4. EntersFollow'
      <4> SUFFICES ASSUME NEW i \in DOMAIN todo', todo'[i].op = "enter"
                   PROVE  /\ i = Len(todo') /\ todo'[i].pts >= FirstPts
                          /\ RestartDue' \/ nextPts' = NoTime \/ todo'[i].pts = nextPts'
                          /\ ready' \/ todo'[1].op = "ensure_ready"
        BY DEF EntersFollow
      <4>1. i + 1 \in DOMAIN todo /\ todo'[i] = todo[i + 1] /\ (i = Len(todo') <=> i + 1 = Len(todo))
        BY <3>3
      <4>2. /\ i + 1 = Len(todo) /\ todo[i + 1].pts >= FirstPts
            /\ RestartDue \/ nextPts = NoTime \/ todo[i + 1].pts = nextPts
            /\ ready \/ todo[1].op = "ensure_ready"
        BY <3>1, <4>1 DEF EntersFollow
      <4> QED BY <1>1, <2>3, <4>1, <4>2
    <3>5. /\ Open /\ Has("feed") /\ EndsAt(Begin(todo[1])) /\ ~Has("finalize")
          /\ \A i \in DOMAIN cmdQ : cmdQ[i].type # "finalize"
      <4>1. Open /\ Has("feed")
        BY <1>1, <3>1 DEF HandlerFollows, Has
      <4> QED BY <3>1, <4>1 DEF HandlerFollows
    <3>6. Open'
      BY <1>1, <2>3, <3>5 DEF Open, element
    <3>7. Begin(cmd) = Begin(todo[1]) /\ End(cmd) = End(todo[1])
      BY <1>3 DEF Begin, End
    <3>8. PICK x : x = End(todo[1])
      OBVIOUS
    <3>9. EndsAt(Begin(cmd))
      BY <3>5, <3>7
    <3>10. QueueFollows' /\ EndsAt(x)'
      <4>1. x = End(cmd) /\ \A i \in DOMAIN cmdQ : cmdQ[i].type # "finalize"
        BY <3>5, <3>7, <3>8
      <4>2. QueueFollows
        BY <3>1
      <4> QED BY <1>1, <1>3, <2>1, <3>9, <4>1, <4>2, FeedQueued
    <3>11. \A i \in DOMAIN todo' : todo'[i].op = "feed" => i = 1 /\ todo'[1] = todo[2] /\ Len(todo) > 1 /\ todo[2].op = "feed"
      <4> SUFFICES ASSUME NEW i \in DOMAIN todo', todo'[i].op = "feed"
                   PROVE  i = 1 /\ todo'[1] = todo[2] /\ Len(todo) > 1 /\ todo[2].op = "feed"
        OBVIOUS
      <4>1. i + 1 \in DOMAIN todo /\ todo'[i] = todo[i + 1]
        BY <3>3
      <4>2. i + 1 \in {1, 2}
        BY <3>1, <4>1 DEF HandlerFollows
      <4>3. i \in 1 .. Len(todo) - 1 /\ Len(todo) \in Nat
        BY <1>1, <2>1, TailItems
      <4>4. i = 1 /\ Len(todo) > 1
        BY <4>2, <4>3
      <4> QED BY <4>1, <4>4
    <3>12. HandlerFollows'
      <4>1. CASE Has("feed")'
        <5>1. /\ todo'[1] = todo[2] /\ Len(todo) > 1 /\ todo[2].op = "feed"
              /\ \A i \in DOMAIN todo' : todo'[i].op = "feed" => i = 1 /\ todo'[1].op = "feed"
          BY <3>11, <4>1 DEF Has
        <5>2. Begin(todo[2]) = End(todo[1]) /\ End(todo[2]) = nextPts
          BY <3>1, <3>5, <5>1 DEF HandlerFollows
        <5>3. Begin(todo[1])' = x /\ End(todo[1])' = nextPts'
          BY <1>1, <3>8, <5>1, <5>2 DEF Begin, End
        <5>7. EndsAt(Begin(todo[1]))'
          BY <3>10, <5>3 DEF EndsAt
        <5>4. ~(Len(todo') > 1 /\ todo'[2].op = "feed")
          <6>1. todo' \in Seq(StepType)
            BY <2>1, <1>1, HeadTailProperties DEF TypeInv
          <6>2. Len(todo') > 1 => 2 \in DOMAIN todo'
            BY <6>1
          <6> QED BY <5>1, <6>2
        <5>6. \A i \in DOMAIN cmdQ' : cmdQ'[i].type # "finalize"
          BY <1>3, <2>6, <3>5
        <5> QED BY <2>3, <3>5, <3>6, <4>1, <5>1, <5>3, <5>4, <5>6, <5>7 DEF HandlerFollows
      <4>2. CASE ~Has("feed")'
        <5>1. ~(Len(todo) > 1 /\ todo[2].op = "feed")
          <6>1. Len(todo) > 1 => 1 \in DOMAIN todo'
            BY <1>1, <2>1, TailItems
          <6>2. 1 \in DOMAIN todo' => todo'[1] = todo[1 + 1]
            BY <3>3
          <6> QED BY <4>2, <6>1, <6>2 DEF Has
        <5>2. End(todo[1]) = nextPts
          BY <3>1, <3>5, <5>1 DEF HandlerFollows
        <5>3. EndsAt(nextPts)'
          BY <1>1, <3>8, <3>10, <5>2 DEF EndsAt
        <5>4. \A i \in DOMAIN cmdQ' : cmdQ'[i].type # "finalize"
          BY <1>3, <2>6, <3>5
        <5> QED BY <2>3, <3>5, <4>2, <5>3, <5>4 DEF HandlerFollows, Has
      <4> QED BY <4>1, <4>2
    <3> QED BY <3>2, <3>4, <3>10, <3>12 DEF LiveInv
  <2> QED BY <2>7, <2>8, <2>9, <2>10 DEF AudioInv
<1> QED BY <1>4, <1>5

\* A buffer that reaches the gate, or passes it, is all its handler has left, and
\* goes on where the audio before it ended.
LEMMA EnterAudio ==
    ASSUME TypeInv, Orderly, AudioInv, Live, Doing("enter")
    PROVE  /\ Len(todo) = 1 /\ Tail(todo) = <<>> /\ ready /\ ~RestartDue /\ ~Has("feed") /\ ~Has("finalize") /\ due = "data"
           /\ todo[1].pts \in Nat /\ todo[1].end \in Nat /\ todo[1].pts <= todo[1].end
           /\ FirstPts \in Nat /\ gateSeen \in Nat /\ todo[1].pts - gateSeen >= FirstPts
           /\ base # NoTime => EndsAt(todo[1].pts) /\ \A i \in DOMAIN cmdQ : cmdQ[i].type # "finalize"
<1>1. /\ todo # <<>> /\ todo[1].op = "enter" /\ Head(todo) = todo[1] /\ 1 \in DOMAIN todo /\ todo[1] \in StepType
  BY HeadDue DEF Doing, Orderly
<1>2. todo[1].pts \in Nat /\ todo[1].end \in Nat /\ todo[1].pts <= todo[1].end
  BY <1>1, StepFields
<1>3. HeldTimed /\ EntersFollow /\ GateFollows /\ (base # NoTime => QueueFollows /\ HandlerFollows)
  BY DEF AudioInv, LiveInv
<1>4. /\ 1 = Len(todo) /\ todo[1].pts >= FirstPts /\ ready
      /\ RestartDue \/ nextPts = NoTime \/ todo[1].pts = nextPts
  BY <1>1, <1>3 DEF EntersFollow
<1>5. \A i \in DOMAIN todo : i = 1
  BY <1>4 DEF TypeInv
<1>6. ~RestartDue /\ ~Has("feed") /\ ~Has("finalize")
  BY <1>1, <1>5 DEF RestartDue, Restarting, Has
<1>7. due = "data"
  BY <1>1 DEF Orderly, HandlerOK, Has
<1>8. Tail(todo) = <<>>
  <2>1. Tail(todo) \in Seq(StepType) /\ Len(Tail(todo)) = Len(todo) - 1
    BY <1>1, HeadTailProperties DEF TypeInv
  <2> QED BY <1>4, <2>1, EmptySeq
<1>9. FirstPts \in Nat /\ gateSeen \in Nat /\ nextPts \in Time
  BY TranscriberAssumption DEF TypeInv, StateOK
<1>10. todo[1].pts - gateSeen >= FirstPts
  <2>1. IF nextPts = NoTime THEN gateSeen = 0 ELSE nextPts - gateSeen >= FirstPts
    BY <1>3 DEF GateFollows
  <2>2. nextPts = NoTime \/ todo[1].pts = nextPts
    BY <1>4, <1>6
  <2> QED BY <1>2, <1>4, <1>9, <2>1, <2>2
<1>11. ASSUME base # NoTime
       PROVE  EndsAt(todo[1].pts) /\ \A i \in DOMAIN cmdQ : cmdQ[i].type # "finalize"
  <2>1. Open
    BY <1>6, <1>7 DEF Open
  <2>2. EndsAt(nextPts) /\ \A i \in DOMAIN cmdQ : cmdQ[i].type # "finalize"
    BY <1>3, <1>6, <1>11, <2>1 DEF HandlerFollows
  <2>3. nextPts # NoTime
    <3>1. base \in Nat /\ Len(worker.heard) \in Nat
      <4>1. worker.heard \in Seq(Tick)
        BY DEF TypeInv, HeldOK, WorkerType
      <4> QED BY <1>11, <4>1 DEF TypeInv, StateOK, Time
    <3>2. CASE nextPts = base + Len(worker.heard)
      BY <3>1, <3>2 DEF NoTime
    <3>3. CASE \E j \in 1 .. Len(cmdQ) : cmdQ[j].type = "feed" /\ nextPts = End(cmdQ[j])
      <4>1. PICK j \in 1 .. Len(cmdQ) : cmdQ[j].type = "feed" /\ nextPts = End(cmdQ[j])
        BY <3>3
      <4>2. cmdQ[j] \in Commands
        BY PipeNow
      <4>3. cmdQ[j].len \in Nat /\ cmdQ[j].from \in Time
        BY <4>1, <4>2, CommandFields
      <4>4. Begin(cmdQ[j]) \in Nat
        BY <3>1, <4>3 DEF Begin, Time
      <4> QED BY <4>1, <4>3, <4>4 DEF End, NoTime
    <3> QED BY <2>2, <3>2, <3>3 DEF EndsAt
  <2>4. todo[1].pts = nextPts
    BY <1>4, <1>6, <2>3
  <2> QED BY <2>2, <2>4
<1> QED BY <1>2, <1>4, <1>6, <1>7, <1>8, <1>9, <1>10, <1>11

LEMMA WithholdAudio ==
    ASSUME TypeInv, Orderly, AudioInv, Withhold
    PROVE  AudioInv'
<1>1. /\ Doing("enter") /\ gate = "armed" /\ todo' = Tail(todo) /\ todo # <<>> /\ Head(todo) = todo[1]
      /\ worker' = worker /\ cmdQ' = cmdQ /\ evQ' = evQ /\ base' = base /\ gate' = gate /\ ready' = ready
      /\ stream' = stream /\ cancel' = cancel /\ UNCHANGED element
      /\ nextPts' = todo[1].end /\ gateSeen' = gateSeen + (todo[1].end - todo[1].pts)
  BY HeadDue DEF Withhold, Doing, channels, Orderly
<1>2. Shrinks
  BY <1>1, StepDone, DroppedShrinks
<1>3. TagsKept' /\ WordsTimed'
  BY <1>1, EventsLeft, SameTags DEF AudioInv
<1>4. Primed'
  BY <1>1, <1>2, SamePrimed DEF AudioInv
<1>5. FlushRests' /\ NullRests' /\ PlansAlone'
  <2>1. (Has("enter")' => Has("enter")) /\ (Has("plan_gap")' => Has("plan_gap"))
    BY <1>2 DEF Shrinks, Has
  <2>2. phase # "null"
    BY <1>1 DEF Orderly
  <2> QED BY <1>1, <2>1, <2>2 DEF FlushRests, NullRests, PlansAlone, AudioInv, element
<1>6. LiveInv'
  <2> SUFFICES ASSUME Live' PROVE LiveInv'
    BY DEF LiveInv
  <2>1. Live /\ HeldTimed /\ GateFollows
    BY <1>1 DEF Live, Alive, AudioInv, LiveInv
  <2>2. base = NoTime
    BY <1>1, <2>1 DEF GateFollows
  <2>3. /\ Tail(todo) = <<>> /\ ready /\ todo[1].pts \in Nat /\ todo[1].end \in Nat /\ todo[1].pts <= todo[1].end
        /\ FirstPts \in Nat /\ gateSeen \in Nat /\ todo[1].pts - gateSeen >= FirstPts
    BY <1>1, <2>1, EnterAudio
  <2>4. HeldTimed'
    BY <1>1, <2>1 DEF HeldTimed
  <2>5. EntersFollow'
    BY <1>1, <2>3 DEF EntersFollow
  <2>6. nextPts' # NoTime /\ nextPts' - gateSeen' >= FirstPts
    <3> DEFINE p == todo[1].pts
               e == todo[1].end
               n == nextPts'
               s == gateSeen'
    <3>1. p \in Nat /\ e \in Nat /\ p - gateSeen >= FirstPts /\ n = e /\ s = gateSeen + (e - p) /\ gateSeen \in Nat /\ FirstPts \in Nat
      BY <1>1, <2>3
    <3> HIDE DEF p, e, n, s
    <3>2. n # NoTime /\ n - s >= FirstPts
      BY <3>1 DEF NoTime
    <3> QED BY <3>2 DEF n, s
  <2>7. GateFollows'
    BY <1>1, <2>2, <2>3, <2>6 DEF GateFollows
  <2> QED BY <1>1, <2>2, <2>4, <2>5, <2>7 DEF LiveInv
<1> QED BY <1>3, <1>4, <1>5, <1>6 DEF AudioInv

\* What is left to do of a buffer that is admitted.
LEMMA AdmitShape ==
    ASSUME NEW at, NEW end, NEW len \in Nat, NEW pad \in Nat, Admit(at, end, len, pad)
    PROVE  \/ len = 0 /\ todo' = Tail(todo)
           \/ /\ len > 0 /\ pad = 0 /\ DOMAIN todo' = 1 .. 2 /\ Len(todo') = 2
              /\ todo'[1].op = "feed" /\ todo'[1].len = len /\ todo'[1].from = at /\ todo'[2].op = "drain"
           \/ /\ len > 0 /\ pad > 0 /\ DOMAIN todo' = 1 .. 3 /\ Len(todo') = 3
              /\ todo'[1].op = "feed" /\ todo'[1].len = pad /\ todo'[1].from = NoTime
              /\ todo'[2].op = "feed" /\ todo'[2].len = len /\ todo'[2].from = at /\ todo'[3].op = "drain"
<1> DEFINE prime == Feed(pad, NoTime)
           feed == Feed(len, at)
           drain == Step("drain", "chain")
<1>1. todo' = IF len = 0 THEN Tail(todo) ELSE (IF pad > 0 THEN <<prime>> ELSE <<>>) \o <<feed, drain>>
  BY DEF Admit
<1>2. /\ prime.op = "feed" /\ prime.len = pad /\ prime.from = NoTime
      /\ feed.op = "feed" /\ feed.len = len /\ feed.from = at /\ drain.op = "drain"
  BY DEF Feed, Step
<1> HIDE DEF prime, feed, drain
<1>3. CASE len = 0
  BY <1>1, <1>3
<1>4. CASE len # 0 /\ pad = 0
  <2>1. todo' = <<feed, drain>>
    <3>1. todo' = <<>> \o <<feed, drain>>
      BY <1>1, <1>4
    <3> QED BY <3>1
  <2>2. DOMAIN todo' = 1 .. 2 /\ Len(todo') = 2 /\ todo'[1] = feed /\ todo'[2] = drain
    BY <2>1
  <2> QED BY <1>2, <1>4, <2>2
<1>5. CASE len # 0 /\ pad # 0
  <2> DEFINE S == {prime, feed, drain}
             one == <<prime>>
             two == <<feed, drain>>
             all == one \o two
  <2>1. /\ one \in Seq(S) /\ Len(one) = 1 /\ one[1] = prime
        /\ two \in Seq(S) /\ Len(two) = 2 /\ two[1] = feed /\ two[2] = drain
    OBVIOUS
  <2> HIDE DEF S, one, two
  <2>2. all \in Seq(S) /\ Len(all) = 3 /\ \A i \in 1 .. 3 : all[i] = IF i <= 1 THEN one[i] ELSE two[i - 1]
    <3>1. /\ all \in Seq(S) /\ Len(all) = Len(one) + Len(two)
          /\ \A i \in 1 .. Len(one) + Len(two) : all[i] = IF i <= Len(one) THEN one[i] ELSE two[i - Len(one)]
      BY <2>1, ConcatProperties
    <3> QED BY <2>1, <3>1
  <2>3. todo' = all
    BY <1>1, <1>5 DEF one, two
  <2> HIDE DEF all
  <2>4. all[1] = prime /\ all[2] = feed /\ all[3] = drain
    BY <2>1, <2>2
  <2>5. DOMAIN todo' = 1 .. 3 /\ Len(todo') = 3 /\ todo'[1] = prime /\ todo'[2] = feed /\ todo'[3] = drain
    BY <2>2, <2>3, <2>4
  <2> QED BY <1>2, <1>5, <2>5
<1> QED BY <1>3, <1>4, <1>5

\* The handler that feeds a buffer, where the queue has brought the audio.
LEMMA AdmittedHandler ==
    ASSUME TypeInv, Orderly, AudioInv, Live, Doing("enter"), NEW at \in Nat, NEW end \in Nat, NEW len \in Nat, NEW pad \in Nat,
           Admit(at, end, len, pad), at + len = end,
           EndsAt(IF pad > 0 /\ len > 0 THEN base ELSE at)', pad > 0 => base' + pad = at,
           base' \in Nat, \A i \in DOMAIN cmdQ : cmdQ[i].type # "finalize"
    PROVE  HandlerFollows' /\ EntersFollow'
<1>1. /\ Tail(todo) = <<>> /\ ~RestartDue /\ due = "data"
      /\ due' = due /\ cmdQ' = cmdQ /\ nextPts' = end
  BY EnterAudio DEF Admit, element, channels
<1>2. at # NoTime /\ base' # NoTime
  BY DEF NoTime
<1>3. CASE len = 0 /\ todo' = Tail(todo)
  <2>1. ~Has("feed")' /\ ~Has("finalize")' /\ EntersFollow' /\ \A i \in DOMAIN todo' : FALSE
    BY <1>1, <1>3 DEF Has, EntersFollow
  <2>2. at = nextPts'
    BY <1>1, <1>3
  <2>3. EndsAt(at)'
    BY <1>3
  <2>4. EndsAt(nextPts)'
    BY <2>2, <2>3 DEF EndsAt
  <2> QED BY <1>1, <2>1, <2>4 DEF HandlerFollows
<1>4. CASE /\ len > 0 /\ pad = 0 /\ DOMAIN todo' = 1 .. 2 /\ Len(todo') = 2
           /\ todo'[1].op = "feed" /\ todo'[1].len = len /\ todo'[1].from = at /\ todo'[2].op = "drain"
  <2>1. \A i \in DOMAIN todo' : i = 1 \/ i = 2
    BY <1>4
  <2>2. 1 \in DOMAIN todo' /\ 2 \in DOMAIN todo'
    BY <1>4
  <2>3. ~RestartDue' /\ ~Has("finalize")' /\ EntersFollow' /\ Has("feed")'
    BY <1>4, <2>1, <2>2 DEF RestartDue, Restarting, Has, EntersFollow
  <2>4. Open'
    BY <1>1, <2>3 DEF Open
  <2>5. Begin(todo[1])' = at /\ End(todo[1])' = nextPts'
    BY <1>1, <1>2, <1>4 DEF Begin, End
  <2>6. EndsAt(at)'
    BY <1>4
  <2>7. EndsAt(Begin(todo[1]))'
    BY <2>5, <2>6 DEF EndsAt
  <2> QED BY <1>1, <1>4, <2>1, <2>2, <2>3, <2>4, <2>5, <2>7 DEF HandlerFollows
<1>5. CASE /\ len > 0 /\ pad > 0 /\ DOMAIN todo' = 1 .. 3 /\ Len(todo') = 3
           /\ todo'[1].op = "feed" /\ todo'[1].len = pad /\ todo'[1].from = NoTime
           /\ todo'[2].op = "feed" /\ todo'[2].len = len /\ todo'[2].from = at /\ todo'[3].op = "drain"
  <2>1. \A i \in DOMAIN todo' : i = 1 \/ i = 2 \/ i = 3
    BY <1>5
  <2>2. 1 \in DOMAIN todo' /\ 2 \in DOMAIN todo' /\ 3 \in DOMAIN todo'
    BY <1>5
  <2>3. ~RestartDue' /\ ~Has("finalize")' /\ EntersFollow' /\ Has("feed")'
    BY <1>5, <2>1, <2>2 DEF RestartDue, Restarting, Has, EntersFollow
  <2>4. Open'
    BY <1>1, <2>3 DEF Open
  <2>5. Begin(todo[1])' = base' /\ End(todo[1])' = at /\ Begin(todo[2])' = at /\ End(todo[2])' = nextPts'
    BY <1>1, <1>2, <1>5 DEF Begin, End
  <2>6. EndsAt(base)'
    BY <1>5
  <2>7. EndsAt(Begin(todo[1]))'
    BY <2>5, <2>6 DEF EndsAt
  <2>8. (Begin(todo[2]) = End(todo[1]) /\ End(todo[2]) = nextPts)' /\ Len(todo') > 1
    BY <1>5, <2>5
  <2>9. \A i \in DOMAIN todo' : todo'[i].op = "feed" => i \in {1, 2} /\ todo'[1].op = "feed"
    BY <1>5, <2>1
  <2>10. \A i \in DOMAIN cmdQ' : cmdQ'[i].type # "finalize"
    BY <1>1
  <2> QED BY <1>5, <2>3, <2>4, <2>7, <2>8, <2>9, <2>10 DEF HandlerFollows
<1> QED BY <1>3, <1>4, <1>5, AdmitShape

\* What an admitted buffer changes whether or not the stream lives.
LEMMA AdmitKept ==
    ASSUME TypeInv, TypeInv', Orderly, AudioInv, Doing("enter"), NEW at \in Nat, NEW end \in Nat, NEW len \in Nat,
           NEW pad \in Nat, Admit(at, end, len, pad), gate' # "off" => gate # "off", pad > 0 => Aligned
    PROVE  /\ FlushRests' /\ NullRests' /\ PlansAlone' /\ Primed' /\ TagsKept' /\ WordsTimed'
           /\ worker' = worker /\ cmdQ' = cmdQ /\ stream' = stream /\ cancel' = cancel /\ ready' = ready
           /\ nextPts' = end /\ base' \in Nat
           /\ HeldTimed => HeldTimed'
           /\ base # NoTime => base' = base
           /\ base = NoTime => base' = Anchor(at, pad) /\ HeldTimed'
<1>1. /\ todo # <<>> /\ stream' = stream /\ sinkFlush' = sinkFlush /\ cancel' = cancel
      /\ evQ' = evQ /\ cmdQ' = cmdQ /\ worker' = worker /\ (base # NoTime => base' = base) /\ base' # NoTime
  BY AdmitHandler DEF Orderly
<1>2. nextPts' = end /\ ready' = ready /\ phase' = phase /\ (base = NoTime => base' = Anchor(at, pad))
  BY DEF Admit, element
<1>3. \A i \in DOMAIN todo' : \/ \E j \in DOMAIN todo : todo'[i] = todo[j]
                              \/ todo'[i].op = "drain"
                              \/ todo'[i].op = "feed" /\ (todo'[i].from # NoTime \/ pad > 0)
  <2>1. at # NoTime
    BY DEF NoTime
  <2>2. CASE todo' = Tail(todo)
    BY <1>1, <2>2, TailItems
  <2>3. CASE /\ DOMAIN todo' = 1 .. 2
             /\ todo'[1].op = "feed" /\ todo'[1].len = len /\ todo'[1].from = at /\ todo'[2].op = "drain"
    <3>1. \A i \in DOMAIN todo' : i = 1 \/ i = 2
      BY <2>3
    <3> QED BY <2>1, <2>3, <3>1
  <2>4. CASE /\ pad > 0 /\ DOMAIN todo' = 1 .. 3
             /\ todo'[1].op = "feed" /\ todo'[2].op = "feed" /\ todo'[3].op = "drain"
    <3>1. \A i \in DOMAIN todo' : i = 1 \/ i = 2 \/ i = 3
      BY <2>4
    <3> QED BY <2>4, <3>1
  <2> QED BY <2>2, <2>3, <2>4, AdmitShape
<1>4. (Has("enter")' => Has("enter")) /\ (Has("plan_gap")' => Has("plan_gap"))
  BY <1>3 DEF Has
<1>5. Has("enter") /\ phase # "null"
  <2>1. 1 \in DOMAIN todo /\ todo[1].op = "enter"
    BY HeadDue, <1>1 DEF Doing, Orderly
  <2> QED BY <1>1, <2>1 DEF Has, Orderly
<1>6. FlushRests' /\ NullRests' /\ PlansAlone'
  BY <1>1, <1>2, <1>4, <1>5 DEF FlushRests, NullRests, PlansAlone, AudioInv
<1>7. Primed'
  <2>1. Primed
    BY DEF AudioInv
  <2>2. ~Aligned' => \A i \in DOMAIN todo' : todo'[i].op = "feed" => todo'[i].from # NoTime
    BY <1>1, <1>3, <2>1 DEF Primed, Aligned
  <2> QED BY <1>1, <2>1, <2>2 DEF Primed, Mode, Aligned
<1>8. TagsKept' /\ WordsTimed'
  <2>1. CASE base = NoTime
    BY <1>1, <2>1, AnchoredTags DEF AudioInv
  <2>2. CASE base # NoTime
    BY <1>1, <2>2, EventsLeft, SameTags DEF AudioInv
  <2> QED BY <2>1, <2>2
<1>9. base = NoTime => HeldTimed'
  BY <1>1, AnchoredTags DEF AudioInv
<1>10. base # NoTime /\ HeldTimed => HeldTimed'
  BY <1>1 DEF HeldTimed
<1>11. base' \in Nat
  BY <1>1 DEF TypeInv, StateOK, Time
<1> QED BY <1>1, <1>2, <1>6, <1>7, <1>8, <1>9, <1>10, <1>11

\* A stream begins: there is no audio of it yet.
LEMMA AnchoredQueue ==
    ASSUME TypeInv, TypeInv', Orderly, Live, base = NoTime, Doing("enter"), worker' = worker, cmdQ' = cmdQ, base' \in Nat,
           NEW x, x = base'
    PROVE  QueueFollows' /\ EndsAt(x)' /\ \A i \in DOMAIN cmdQ : cmdQ[i].type # "finalize"
<1>1. todo # <<>> /\ todo[1].op = "enter"
  BY HeadDue DEF Doing, Orderly
<1>2. worker.heard = <<>> /\ \A k \in 1 .. Len(cmdQ) : cmdQ[k].type = "restart"
  BY <1>1 DEF Orderly, Restarts
<1>3. QueueFollows'
  BY <1>2 DEF QueueFollows
<1>4. Len(worker'.heard) = 0
  BY <1>2
<1>5. x = base' + Len(worker'.heard)
  <2> DEFINE n == Len(worker'.heard)
             b == base'
  <2>1. b \in Nat /\ n = 0 /\ x = b
    BY <1>4
  <2> HIDE DEF n, b
  <2>2. x = b + n
    BY <2>1
  <2> QED BY <2>2 DEF n, b
<1>6. NoFeed(1, Len(cmdQ))'
  BY <1>2 DEF NoFeed
<1>7. EndsAt(x)'
  BY <1>5, <1>6 DEF EndsAt
<1>8. DOMAIN cmdQ = 1 .. Len(cmdQ)
  BY PipeNow
<1> QED BY <1>2, <1>3, <1>7, <1>8

\* The audio that is admitted: where it starts, given how much the gate has seen.
LEMMA AdmitAudio ==
    ASSUME TypeInv, TypeInv', Orderly, AudioInv, Doing("enter"), NEW at \in Nat, NEW end \in Nat, NEW len \in Nat,
           NEW pad \in Nat, Admit(at, end, len, pad), gate' # "off" => gate # "off", pad > 0 => Aligned,
           gate' # "armed",
           Live => /\ at + len = end /\ end - gateSeen' >= FirstPts
                   /\ base = NoTime => len > 0 \/ pad = 0
                   /\ base = NoTime => at >= pad
                   /\ base # NoTime => at = todo[1].pts /\ pad = 0
    PROVE  AudioInv'
<1>1. /\ FlushRests' /\ NullRests' /\ PlansAlone' /\ Primed' /\ TagsKept' /\ WordsTimed'
      /\ worker' = worker /\ cmdQ' = cmdQ /\ stream' = stream /\ cancel' = cancel /\ ready' = ready
      /\ nextPts' = end /\ base' \in Nat
      /\ HeldTimed => HeldTimed'
      /\ base # NoTime => base' = base
      /\ base = NoTime => base' = Anchor(at, pad) /\ HeldTimed'
  BY AdmitKept
<1>2. LiveInv'
  <2> SUFFICES ASSUME Live' PROVE LiveInv'
    BY DEF LiveInv
  <2>1. Live /\ HeldTimed /\ (base # NoTime => QueueFollows)
    BY <1>1 DEF Live, Alive, AudioInv, LiveInv
  <2>2. ready /\ (base # NoTime => EndsAt(todo[1].pts) /\ \A i \in DOMAIN cmdQ : cmdQ[i].type # "finalize")
    BY <2>1, EnterAudio
  <2>3. nextPts' # NoTime /\ base' # NoTime
    BY <1>1 DEF NoTime
  <2>4. GateFollows'
    BY <1>1, <2>1, <2>2, <2>3 DEF GateFollows
  <2>5. CASE base = NoTime
    <3>1. base' + pad = at
      <4>1. at >= pad
        BY <2>1, <2>5
      <4> QED BY <1>1, <2>5, <4>1 DEF Anchor, Later
    <3>2. PICK x : x = base'
      OBVIOUS
    <3>3. QueueFollows' /\ EndsAt(x)' /\ \A i \in DOMAIN cmdQ : cmdQ[i].type # "finalize"
      BY <1>1, <2>1, <2>5, <3>2, AnchoredQueue
    <3>4. (IF pad > 0 /\ len > 0 THEN base' ELSE at) = x
      BY <1>1, <2>1, <2>5, <3>1, <3>2
    <3>5. EndsAt(IF pad > 0 /\ len > 0 THEN base ELSE at)'
      BY <3>3, <3>4 DEF EndsAt
    <3>6. HandlerFollows' /\ EntersFollow'
      BY <1>1, <2>1, <3>1, <3>3, <3>5, AdmittedHandler
    <3> QED BY <1>1, <2>4, <2>5, <3>3, <3>6 DEF LiveInv
  <2>6. CASE base # NoTime
    <3>1. QueueFollows'
      BY <1>1, <2>1, <2>6 DEF QueueFollows, NoFeed, Begin, End
    <3>2. PICK x : x = todo[1].pts
      OBVIOUS
    <3>3. EndsAt(x)
      BY <2>2, <2>6, <3>2
    <3>4. EndsAt(x)'
      BY <1>1, <2>6, <3>3 DEF EndsAt, NoFeed, Begin, End
    <3>5. (IF pad > 0 /\ len > 0 THEN base' ELSE at) = x /\ ~(pad > 0)
      BY <2>1, <2>6, <3>2
    <3>6. EndsAt(IF pad > 0 /\ len > 0 THEN base ELSE at)'
      BY <3>4, <3>5 DEF EndsAt
    <3>7. HandlerFollows' /\ EntersFollow'
      BY <1>1, <2>1, <2>2, <2>6, <3>5, <3>6, AdmittedHandler
    <3> QED BY <1>1, <2>1, <2>4, <2>6, <3>1, <3>7 DEF LiveInv
  <2> QED BY <2>5, <2>6
<1> QED BY <1>1, <1>2 DEF AudioInv

LEMMA PassThroughAudio ==
    ASSUME TypeInv, TypeInv', Orderly, AudioInv, PassThrough
    PROVE  AudioInv'
<1> DEFINE pts == todo[1].pts
           end == todo[1].end
           len == end - pts
<1>1. /\ Doing("enter") /\ gate # "armed" /\ Head(todo) = todo[1] /\ todo[1] \in StepType /\ todo[1].op = "enter"
      /\ gate' = gate /\ gateSeen' = gateSeen
  BY HeadDue DEF PassThrough, Doing, Orderly
<1>2. Admit(pts, end, len, 0)
  BY <1>1 DEF PassThrough
<1>3. pts \in Nat /\ end \in Nat /\ pts <= end
  BY <1>1, StepFields
<1>4. Live => pts - gateSeen >= FirstPts /\ FirstPts \in Nat /\ gateSeen \in Nat
  BY <1>1, EnterAudio
<1>5. pts = todo[1].pts
  OBVIOUS
<1> HIDE DEF pts, end
<1>6. len \in Nat /\ pts + len = end
  BY <1>3
<1>7. Live => end - gateSeen' >= FirstPts
  BY <1>1, <1>3, <1>4
<1>8. pts >= 0 /\ 0 \in Nat
  BY <1>3
<1> HIDE DEF len
<1> QED BY <1>1, <1>2, <1>3, <1>5, <1>6, <1>7, <1>8, AdmitAudio

\* The gate opens: the anchor lies behind the silence in front of what it kept.
LEMMA OpenGateAudio ==
    ASSUME NEW kept \in 1 .. MaxPts, TypeInv, TypeInv', Orderly, AudioInv, OpenGate(kept),
           Warmup <= FirstPts,
           "gate" \in Features => \A f \in Families : f.mode = "stream" => f.aligned
    PROVE  AudioInv'
<1> DEFINE pts == todo[1].pts
           end == todo[1].end
           seen == gateSeen + (end - pts)
           at == Later(end - seen, 0) + (seen - kept)
<1>1. /\ Doing("enter") /\ gate = "armed" /\ Head(todo) = todo[1] /\ todo[1] \in StepType /\ todo[1].op = "enter"
      /\ gate' = "open"
  BY HeadDue DEF OpenGate, Doing, Orderly
<1>2. Admit(at, end, kept, Warmup) /\ gateSeen' = seen /\ kept <= seen
  BY <1>1 DEF OpenGate
<1>3. pts \in Nat /\ end \in Nat /\ pts <= end /\ gateSeen \in Nat
  BY <1>1, StepFields DEF TypeInv, StateOK
<1>4. Live => pts - gateSeen >= FirstPts
  BY <1>1, EnterAudio
<1>5. FirstPts \in Nat /\ Warmup \in Nat /\ kept \in Nat /\ kept > 0
  BY TranscriberAssumption
<1>6. Live => base = NoTime
  BY <1>1 DEF AudioInv, LiveInv, GateFollows
<1>7. Aligned
  <2>1. worker.family \in Families /\ Mode = "stream" /\ "gate" \in Features
    BY <1>1 DEF AudioInv, Primed
  <2> QED BY <2>1 DEF Mode, Aligned
<1> HIDE DEF pts, end
<1>8. seen \in Nat /\ end - seen = pts - gateSeen
  BY <1>3
<1> HIDE DEF seen
<1>9. at \in Nat
  BY <1>2, <1>3, <1>5, <1>8 DEF Later
<1>10. Live => end - seen >= FirstPts
  BY <1>4, <1>8
<1>11. Live => at + kept = end /\ at >= Warmup
  BY <1>2, <1>3, <1>5, <1>8, <1>10 DEF Later
<1>12. Live => end - gateSeen' >= FirstPts
  BY <1>2, <1>10
<1> HIDE DEF at
<1> QED BY <1>1, <1>2, <1>3, <1>5, <1>6, <1>7, <1>9, <1>11, <1>12, AdmitAudio

-----------------------------------------------------------------------------
\* The worker.

\* A row is of a tick that has a time, where priming audio is only given to
\* models that time their words.
LEMMA RowsAudible ==
    ASSUME NEW w, w.decided \in Nat, w.spoken \in Nat, w.heard \in Seq(Tick), NEW to \in Nat,
           NEW rows \in Rows(w, to), ~Aligned => \A k \in DOMAIN w.heard : w.heard[k].at # NoTime
    PROVE  \A r \in DOMAIN rows : /\ rows[r].t0 + 1 \in DOMAIN w.heard
                                  /\ w.heard[rows[r].t0 + 1].at # NoTime
<1> DEFINE audio == Len(w.heard)
           Audible == {t \in w.decided .. audio - 1 : w.heard[t + 1].at # NoTime}
           OfLength(n) == [1 .. n -> [t0 : Audible, t1 : w.decided .. to]]
           All == UNION {OfLength(n) : n \in 1 .. MaxRows}
<1>1. rows \in Seq(Row) /\ \A i \in DOMAIN rows : rows[i].t0 < Len(w.heard)
  BY RowsTyped
<1>2. \A r \in DOMAIN rows : rows[r].t0 + 1 \in DOMAIN w.heard
  <2> SUFFICES ASSUME NEW r \in DOMAIN rows PROVE rows[r].t0 + 1 \in DOMAIN w.heard
    OBVIOUS
  <2>1. rows[r] \in Row
    BY <1>1, ElementOfSeq
  <2> DEFINE t == rows[r].t0
             n == Len(w.heard)
  <2>2. t \in Nat /\ t < n /\ n \in Nat /\ DOMAIN w.heard = 1 .. n
    BY <1>1, <2>1 DEF Row
  <2> HIDE DEF t, n
  <2>3. t + 1 \in 1 .. n
    BY <2>2
  <2> QED BY <2>2, <2>3 DEF t
<1>3. CASE ~Aligned
  BY <1>2, <1>3
<1>4. ASSUME Aligned, NEW r \in DOMAIN rows PROVE w.heard[rows[r].t0 + 1].at # NoTime
  <2>1. rows \in {<<>>} \cup All
    BY <1>4 DEF Rows
  <2>2. rows \in All
    <3>1. rows # <<>>
      BY <1>4
    <3> HIDE DEF All
    <3> QED BY <2>1, <3>1
  <2>3. PICK n \in 1 .. MaxRows : rows \in OfLength(n)
    <3> HIDE DEF OfLength
    <3> QED BY <2>2
  <2>4. r \in 1 .. n
    BY <1>4, <2>3
  <2>5. rows[r] \in [t0 : Audible, t1 : w.decided .. to]
    BY <2>3, <2>4
  <2>6. rows[r].t0 \in Audible
    <3> HIDE DEF Audible
    <3> QED BY <2>5
  <2> QED BY <2>6
<1> QED BY <1>2, <1>3, <1>4

\* What an event shows, and of which streams.
EventTimed(ev) ==
    Shown(ev) => /\ \A k \in DOMAIN ev.heard : Tagged(ev.heard[k].stream)
                 /\ \A r \in DOMAIN ev.rows : RowTimed(ev, r)

LEMMA ReportedTimed ==
    ASSUME TypeInv, NEW new \in Seq(EventType), evQ' = evQ \o new, stream' = stream, base' = base, TagsKept, WordsTimed,
           \A i \in DOMAIN new : EventTimed(new[i])
    PROVE  /\ WordsTimed'
           /\ \A i \in DOMAIN evQ' : Shown(evQ'[i]) =>
                \A k \in DOMAIN evQ'[i].heard : Tagged(evQ'[i].heard[k].stream)
<1> DEFINE evs == evQ \o new
           E == Len(evQ)
           K == Len(new)
<1>1. /\ E \in Nat /\ K \in Nat /\ DOMAIN evs = 1 .. E + K
      /\ \A i \in 1 .. E + K : evs[i] = IF i <= E THEN evQ[i] ELSE new[i - E]
      /\ evQ' = evs
  BY PipeNow, ConcatProperties
<1>2. (\A i \in 1 .. E : EventTimed(evQ[i])) /\ DOMAIN new = 1 .. K
  BY PipeNow DEF TagsKept, WordsTimed, EventTimed
<1> HIDE DEF evs, E, K
<1>3. \A i \in 1 .. E + K : EventTimed(evs[i])
  <2> SUFFICES ASSUME NEW i \in 1 .. E + K PROVE EventTimed(evs[i])
    OBVIOUS
  <2>1. CASE i <= E
    <3>1. i \in 1 .. E /\ evs[i] = evQ[i]
      BY <1>1, <2>1
    <3> QED BY <1>2, <3>1
  <2>2. CASE ~(i <= E)
    <3>1. i - E \in 1 .. K /\ evs[i] = new[i - E]
      BY <1>1, <2>2
    <3> QED BY <1>2, <3>1
  <2> QED BY <2>1, <2>2
<1>4. \A i \in DOMAIN evQ' : EventTimed(evQ'[i])
  BY <1>1, <1>3
<1>5. WordsTimed'
  BY <1>4 DEF WordsTimed, EventTimed, RowTimed
<1>6. \A i \in DOMAIN evQ' : Shown(evQ'[i]) =>
        \A k \in DOMAIN evQ'[i].heard : Tagged(evQ'[i].heard[k].stream)
  BY <1>4 DEF EventTimed
<1> QED BY <1>5, <1>6

\* A command is taken: the audio behind it follows what is held then.
LEMMA QueueShifts ==
    ASSUME TypeInv, cmdQ # <<>>, cmdQ' = Tail(cmdQ), base' = base, QueueFollows,
           cmdQ[1].type = "feed" => base' + Len(worker'.heard) = End(cmdQ[1]),
           cmdQ[1].type # "feed" => Len(worker'.heard) = Len(worker.heard)
    PROVE  QueueFollows' /\ \A x : EndsAt(x) => EndsAt(x)'
<1> DEFINE q == cmdQ
           r == cmdQ'
           C == Len(cmdQ)
           held == base + Len(worker.heard)
           next == base' + Len(worker'.heard)
           B(f) == IF f.from = NoTime THEN base ELSE f.from
<1>1. C \in Nat \ {0} /\ Len(r) = C - 1 /\ \A k \in 1 .. C - 1 : r[k] = q[k + 1]
  <2>1. cmdQ \in Seq(Commands)
    BY PipeNow
  <2> QED BY <2>1, HeadTailProperties, EmptySeq
<1>2. /\ \A j \in 1 .. C : q[j].type = "feed" /\ (\A k \in 1 .. j - 1 : q[k].type # "feed") => B(q[j]) = held
      /\ \A i, j \in 1 .. C : i < j /\ q[i].type = "feed" /\ q[j].type = "feed"
                              /\ (\A k \in i + 1 .. j - 1 : q[k].type # "feed") => B(q[j]) = B(q[i]) + q[i].len
      /\ \A i, j \in 1 .. C : i < j /\ q[i].type = "finalize" => q[j].type # "feed"
  BY DEF QueueFollows, NoFeed, Begin, End
<1>3. (q[1].type = "feed" => next = B(q[1]) + q[1].len) /\ (q[1].type # "feed" => next = held)
  BY DEF End, Begin
<1>4. \A x : EndsAt(x) <=> \/ (\A k \in 1 .. C : q[k].type # "feed") /\ x = held
                           \/ \E j \in 1 .. C : q[j].type = "feed" /\ (\A k \in j + 1 .. C : q[k].type # "feed")
                                                /\ x = B(q[j]) + q[j].len
  BY DEF EndsAt, NoFeed, Begin, End
<1>5. \A x : EndsAt(x)' <=> \/ (\A k \in 1 .. Len(r) : r[k].type # "feed") /\ x = next
                            \/ \E j \in 1 .. Len(r) : r[j].type = "feed" /\ (\A k \in j + 1 .. Len(r) : r[k].type # "feed")
                                                     /\ x = B(r[j]) + r[j].len
  BY DEF EndsAt, NoFeed, Begin, End
<1>6. QueueFollows' <=>
      /\ \A j \in 1 .. Len(r) : r[j].type = "feed" /\ (\A k \in 1 .. j - 1 : r[k].type # "feed") => B(r[j]) = next
      /\ \A i, j \in 1 .. Len(r) : i < j /\ r[i].type = "feed" /\ r[j].type = "feed"
                                   /\ (\A k \in i + 1 .. j - 1 : r[k].type # "feed") => B(r[j]) = B(r[i]) + r[i].len
      /\ \A i, j \in 1 .. Len(r) : i < j /\ r[i].type = "finalize" => r[j].type # "feed"
  BY DEF QueueFollows, NoFeed, Begin, End
<1> HIDE DEF q, r, C, held, next, B
\* No audio between two places stays so where they are one nearer.
<1>7. ASSUME NEW a \in Nat \ {0}, NEW b \in Int, b <= C - 1, \A k \in a .. b : r[k].type # "feed"
      PROVE  \A k \in a + 1 .. b + 1 : q[k].type # "feed"
  <2> SUFFICES ASSUME NEW k \in a + 1 .. b + 1 PROVE q[k].type # "feed"
    OBVIOUS
  <2>1. k - 1 \in a .. b /\ k - 1 \in 1 .. C - 1 /\ (k - 1) + 1 = k
    BY <1>1, <1>7
  <2> QED BY <1>1, <1>7, <2>1
<1>8. ASSUME NEW j \in 1 .. C - 1, r[j].type = "feed", \A k \in 1 .. j - 1 : r[k].type # "feed"
      PROVE  B(r[j]) = next
  <2>1. j + 1 \in 1 .. C /\ 1 \in 1 .. C /\ r[j] = q[j + 1] /\ 1 < j + 1 /\ j - 1 \in Int /\ j - 1 <= C - 1
        /\ (j - 1) + 1 = j /\ (j + 1) - 1 = j
    BY <1>1
  <2>2. \A k \in 1 + 1 .. j : q[k].type # "feed"
    <3>1. \A k \in 1 + 1 .. (j - 1) + 1 : q[k].type # "feed"
      <4>1. 1 \in Nat \ {0}
        OBVIOUS
      <4> QED BY <1>7, <1>8, <2>1, <4>1
    <3> QED BY <2>1, <3>1
  <2>3. CASE q[1].type = "feed"
    BY <1>2, <1>3, <1>8, <2>1, <2>2, <2>3
  <2>4. CASE q[1].type # "feed"
    <3>1. \A k \in 1 .. j : q[k].type # "feed"
      <4>1. \A k \in 1 .. j : k = 1 \/ k \in 1 + 1 .. j
        BY <2>1
      <4> QED BY <2>2, <2>4, <4>1
    <3> QED BY <1>2, <1>3, <1>8, <2>1, <2>4, <3>1
  <2> QED BY <2>3, <2>4
<1>9. ASSUME NEW i \in 1 .. C - 1, NEW j \in 1 .. C - 1, i < j, r[i].type = "feed", r[j].type = "feed",
             \A k \in i + 1 .. j - 1 : r[k].type # "feed"
      PROVE  B(r[j]) = B(r[i]) + r[i].len
  <2>1. /\ i + 1 \in 1 .. C /\ j + 1 \in 1 .. C /\ r[i] = q[i + 1] /\ r[j] = q[j + 1] /\ i + 1 < j + 1
        /\ i + 1 \in Nat \ {0} /\ j - 1 \in Int /\ j - 1 <= C - 1 /\ (j - 1) + 1 = (j + 1) - 1
    BY <1>1, <1>9
  <2>2. \A k \in (i + 1) + 1 .. (j + 1) - 1 : q[k].type # "feed"
    BY <1>7, <1>9, <2>1
  <2> QED BY <1>2, <1>9, <2>1, <2>2
<1>10. ASSUME NEW i \in 1 .. C - 1, NEW j \in 1 .. C - 1, i < j, r[i].type = "finalize"
       PROVE  r[j].type # "feed"
  <2>1. i + 1 \in 1 .. C /\ j + 1 \in 1 .. C /\ r[i] = q[i + 1] /\ r[j] = q[j + 1] /\ i + 1 < j + 1
    BY <1>1, <1>10
  <2> QED BY <1>2, <1>10, <2>1
<1>11. QueueFollows'
  <2>1. Len(r) = C - 1
    BY <1>1
  <2> QED BY <1>6, <1>8, <1>9, <1>10, <2>1
<1>12. ASSUME NEW x, \A k \in 1 .. C : q[k].type # "feed", x = held PROVE EndsAt(x)'
  <2>1. x = next
    BY <1>1, <1>3, <1>12
  <2>2. \A k \in 1 .. Len(r) : r[k].type # "feed"
    BY <1>1, <1>12
  <2> QED BY <1>5, <2>1, <2>2
<1>13. ASSUME NEW x, NEW j \in 1 .. C, q[j].type = "feed", \A k \in j + 1 .. C : q[k].type # "feed",
              x = B(q[j]) + q[j].len
       PROVE  EndsAt(x)'
  <2>1. CASE j = 1
    <3>1. x = next
      BY <1>3, <1>13, <2>1
    <3>2. \A k \in 1 .. Len(r) : r[k].type # "feed"
      BY <1>1, <1>13, <2>1
    <3> QED BY <1>5, <3>1, <3>2
  <2>2. CASE j # 1
    <3>1. j - 1 \in 1 .. Len(r) /\ r[j - 1] = q[j]
      <4>1. j - 1 \in 1 .. C - 1 /\ (j - 1) + 1 = j
        BY <1>1, <2>2
      <4> QED BY <1>1, <4>1
    <3>2. \A k \in (j - 1) + 1 .. Len(r) : r[k].type # "feed"
      <4> SUFFICES ASSUME NEW k \in (j - 1) + 1 .. Len(r) PROVE r[k].type # "feed"
        OBVIOUS
      <4>1. k \in 1 .. C - 1 /\ k + 1 \in j + 1 .. C
        BY <1>1
      <4> QED BY <1>1, <1>13, <4>1
    <3> QED BY <1>5, <1>13, <3>1, <3>2
  <2> QED BY <2>1, <2>2
<1> QED BY <1>4, <1>11, <1>12, <1>13

\* A command the worker is done with, in a stream that lives.
LEMMA CommandDoneLive ==
    ASSUME TypeInv, LiveInv, WorkerKeeps, cmdQ # <<>>, cmdQ' = Tail(cmdQ), Live, HeldTimed',
           base # NoTime =>
             \/ /\ cmdQ[1].type = "feed" => base' + Len(worker'.heard) = End(cmdQ[1])
                /\ cmdQ[1].type # "feed" => Len(worker'.heard) = Len(worker.heard)
             \/ ~Open /\ \A k \in 1 .. Len(cmdQ) : cmdQ[k].type # "feed"
    PROVE  LiveInv'
<1>1. /\ todo' = todo /\ base' = base /\ due' = due /\ ready' = ready /\ gate' = gate
      /\ nextPts' = nextPts /\ gateSeen' = gateSeen
  BY DEF WorkerKeeps, element, state
<1>2. EntersFollow /\ GateFollows /\ (base # NoTime => QueueFollows /\ HandlerFollows)
  BY DEF LiveInv
<1>3. EntersFollow' /\ GateFollows'
  BY <1>1, <1>2 DEF EntersFollow, GateFollows, RestartDue
<1>4. (Open' <=> Open) /\ (Has("feed")' <=> Has("feed")) /\ (Has("finalize")' <=> Has("finalize"))
  BY <1>1 DEF Open, RestartDue, Has
<1>5. /\ \A k \in 1 .. Len(cmdQ') : k + 1 \in 1 .. Len(cmdQ) /\ cmdQ'[k] = cmdQ[k + 1]
      /\ DOMAIN cmdQ = 1 .. Len(cmdQ) /\ DOMAIN cmdQ' = 1 .. Len(cmdQ')
  <2>1. cmdQ \in Seq(Commands) /\ Tail(cmdQ) \in Seq(Commands)
    BY PipeNow, HeadTailProperties
  <2>2. DOMAIN cmdQ = 1 .. Len(cmdQ) /\ DOMAIN cmdQ' = 1 .. Len(cmdQ')
    BY <2>1
  <2> QED BY <2>2, LaterCommands
<1>6. CASE base # NoTime /\ ~Open /\ \A k \in 1 .. Len(cmdQ) : cmdQ[k].type # "feed"
  <2>1. \A k \in 1 .. Len(cmdQ') : cmdQ'[k].type # "feed"
    BY <1>5, <1>6
  <2>2. QueueFollows'
    BY <2>1 DEF QueueFollows
  <2>3. ~Has("feed") /\ \A i \in DOMAIN todo : todo[i].op # "feed"
    BY <1>2, <1>6 DEF HandlerFollows, Has
  <2>4. HandlerFollows'
    BY <1>1, <1>4, <1>6, <2>3 DEF HandlerFollows
  <2> QED BY <1>1, <1>3, <2>2, <2>4 DEF LiveInv
<1>7. CASE /\ base # NoTime
           /\ cmdQ[1].type = "feed" => base' + Len(worker'.heard) = End(cmdQ[1])
           /\ cmdQ[1].type # "feed" => Len(worker'.heard) = Len(worker.heard)
  <2>1. QueueFollows' /\ \A x : EndsAt(x) => EndsAt(x)'
    BY <1>1, <1>2, <1>7, QueueShifts
  <2>2. Has("feed") => EndsAt(Begin(todo[1]))'
    <3> SUFFICES ASSUME Has("feed") PROVE EndsAt(Begin(todo[1]))'
      OBVIOUS
    <3>1. PICK x : x = Begin(todo[1])
      OBVIOUS
    <3>2. EndsAt(x)
      BY <1>2, <1>7, <3>1 DEF HandlerFollows
    <3>3. EndsAt(x)'
      BY <2>1, <3>2
    <3>4. Begin(todo[1])' = x
      BY <1>1, <3>1 DEF Begin
    <3> QED BY <3>3, <3>4 DEF EndsAt
  <2>3. Open /\ ~Has("feed") => EndsAt(nextPts)'
    <3> SUFFICES ASSUME Open, ~Has("feed") PROVE EndsAt(nextPts)'
      OBVIOUS
    <3>1. PICK x : x = nextPts
      OBVIOUS
    <3>2. EndsAt(x)
      BY <1>2, <1>7, <3>1 DEF HandlerFollows
    <3>3. EndsAt(x)'
      BY <2>1, <3>2
    <3>4. nextPts' = x
      BY <1>1, <3>1
    <3> QED BY <3>3, <3>4 DEF EndsAt
  <2>4. \A i \in DOMAIN todo : todo[i].op = "feed" => Open /\ i \in {1, 2} /\ todo[1].op = "feed"
    BY <1>2, <1>7 DEF HandlerFollows
  <2>5. Has("feed") => IF Len(todo) > 1 /\ todo[2].op = "feed"
                       THEN Begin(todo[2]) = End(todo[1]) /\ End(todo[2]) = nextPts
                       ELSE End(todo[1]) = nextPts
    BY <1>2, <1>7 DEF HandlerFollows
  <2>6. Open => ~Has("finalize") /\ \A i \in DOMAIN cmdQ' : cmdQ'[i].type # "finalize"
    <3>1. Open => ~Has("finalize") /\ \A i \in DOMAIN cmdQ : cmdQ[i].type # "finalize"
      BY <1>2, <1>7 DEF HandlerFollows
    <3> QED BY <1>5, <3>1
  <2>7. (Has("feed") => IF Len(todo) > 1 /\ todo[2].op = "feed"
                        THEN Begin(todo[2]) = End(todo[1]) /\ End(todo[2]) = nextPts
                        ELSE End(todo[1]) = nextPts)'
    BY <1>1, <1>4, <2>5 DEF Begin, End
  <2>8. HandlerFollows'
    BY <1>1, <1>4, <2>2, <2>3, <2>4, <2>6, <2>7 DEF HandlerFollows
  <2> QED BY <1>1, <1>3, <2>1, <2>8 DEF LiveInv
<1>8. CASE base = NoTime
  BY <1>1, <1>3, <1>8 DEF LiveInv
<1> QED BY <1>6, <1>7, <1>8

\* What every step of the worker leaves alone.
LEMMA WorkerKept ==
    ASSUME TypeInv, AudioInv, WorkerKeeps, worker'.family = worker.family,
           cmdQ' = cmdQ \/ (cmdQ # <<>> /\ cmdQ' = Tail(cmdQ)),
           \A k \in DOMAIN worker'.heard : /\ Tagged(worker'.heard[k].stream)
                                           /\ ~Aligned => worker'.heard[k].at # NoTime,
           NEW new \in Seq(EventType), evQ' = evQ \o new, \A i \in DOMAIN new : EventTimed(new[i]), LiveInv'
    PROVE  AudioInv'
<1>1. /\ todo' = todo /\ base' = base /\ stream' = stream /\ cancel' = cancel /\ phase' = phase
      /\ sinkFlush' = sinkFlush /\ gate' = gate /\ nextPts' = nextPts /\ gateSeen' = gateSeen
  BY DEF WorkerKeeps, Quiet, element, state
<1>2. \A k \in DOMAIN cmdQ' : \E j \in DOMAIN cmdQ : cmdQ'[k] = cmdQ[j]
  BY LaterCommands
<1>3. FlushRests' /\ NullRests' /\ PlansAlone'
  BY <1>1 DEF FlushRests, NullRests, PlansAlone, Has, AudioInv
<1>4. Primed'
  BY <1>1, <1>2 DEF Primed, Mode, Aligned, AudioInv
<1>5. /\ WordsTimed'
      /\ \A i \in DOMAIN evQ' : Shown(evQ'[i]) =>
           \A k \in DOMAIN evQ'[i].heard : Tagged(evQ'[i].heard[k].stream)
  BY <1>1, ReportedTimed DEF AudioInv
<1>6. TagsKept'
  BY <1>1, <1>2, <1>5 DEF TagsKept, Tagged, AudioInv
<1> QED BY <1>3, <1>4, <1>5, <1>6 DEF AudioInv

\* An event that shows nothing.
LEMMA MarkerTimed ==
    ASSUME NEW ev \in EventType, ev.type # "words"
    PROVE  /\ <<ev>> \in Seq(EventType) /\ \A i \in DOMAIN <<ev>> : EventTimed(<<ev>>[i])
           /\ evQ \in Seq(EventType) => Append(evQ, ev) = evQ \o <<ev>>
<1> DEFINE new == <<ev>>
<1>1. new \in Seq(EventType) /\ DOMAIN new = 1 .. 1 /\ new[1] = ev
  OBVIOUS
<1>2. evQ \in Seq(EventType) => Append(evQ, ev) = evQ \o new
  BY AppendIsConcat
<1> HIDE DEF new
<1>3. \A i \in DOMAIN new : i = 1
  BY <1>1
<1>4. \A i \in DOMAIN new : EventTimed(new[i])
  BY <1>1, <1>3 DEF EventTimed, Shown
<1> QED BY <1>1, <1>2, <1>4 DEF new

LEMMA WorkerLoadsAudio ==
    ASSUME TypeInv, AudioInv, WorkerLoads
    PROVE  AudioInv'
<1> DEFINE ev == [type |-> "ready"]
<1>1. /\ worker'.heard = worker.heard /\ worker'.family = worker.family /\ cmdQ' = cmdQ /\ WorkerKeeps
      /\ evQ' = Append(evQ, ev) /\ worker.state = "loading"
  BY DEF WorkerLoads, TypeInv, HeldOK, WorkerType
<1>2. ev \in EventType /\ ev.type # "words"
  BY EventsMade
<1> HIDE DEF ev
<1> DEFINE new == <<ev>>
<1>3. new \in Seq(EventType) /\ evQ' = evQ \o new /\ \A i \in DOMAIN new : EventTimed(new[i])
  BY <1>1, <1>2, PipeNow, MarkerTimed
<1> HIDE DEF new
<1>4. \A k \in DOMAIN worker.heard : Tagged(worker.heard[k].stream) /\ (~Aligned => worker.heard[k].at # NoTime)
  BY DEF AudioInv, TagsKept, Primed
<1>5. LiveInv'
  <2> SUFFICES ASSUME Live' PROVE LiveInv'
    BY DEF LiveInv
  <2>1. /\ todo' = todo /\ base' = base /\ due' = due /\ ready' = ready /\ gate' = gate /\ stream' = stream
        /\ nextPts' = nextPts /\ gateSeen' = gateSeen /\ cancel' = cancel
    BY <1>1 DEF WorkerKeeps, Quiet, element, state
  <2>2. Live
    BY <1>1, <2>1 DEF Live, Alive, Lives
  <2>3. HeldTimed /\ EntersFollow /\ GateFollows /\ (base # NoTime => QueueFollows /\ HandlerFollows)
    BY <2>2 DEF AudioInv, LiveInv
  <2>4. HeldTimed' /\ EntersFollow' /\ GateFollows'
    BY <1>1, <2>1, <2>3 DEF HeldTimed, EntersFollow, GateFollows, RestartDue
  <2>5. \A x : EndsAt(x)' <=> EndsAt(x)
    BY <1>1, <2>1 DEF EndsAt, NoFeed, Begin, End
  <2>6. base # NoTime => QueueFollows' /\ HandlerFollows'
    <3>1. QueueFollows' <=> QueueFollows
      BY <1>1, <2>1 DEF QueueFollows, NoFeed, Begin, End
    <3>2. HandlerFollows' <=> HandlerFollows
      BY <1>1, <2>1 DEF HandlerFollows, Open, RestartDue, Has, EndsAt, NoFeed, Begin, End
    <3> QED BY <2>3, <3>1, <3>2
  <2> QED BY <2>1, <2>4, <2>6 DEF LiveInv
<1> QED BY <1>1, <1>3, <1>4, <1>5, WorkerKept

LEMMA WorkerFailsAudio ==
    ASSUME TypeInv, AudioInv, WorkerFails
    PROVE  AudioInv'
<1> DEFINE ev == [type |-> "error"]
<1>1. /\ worker'.heard = worker.heard /\ worker'.family = worker.family /\ cmdQ' = cmdQ /\ WorkerKeeps
      /\ evQ' = Append(evQ, ev) /\ worker'.state = "dead"
  BY DEF WorkerFails, TypeInv, HeldOK, WorkerType
<1>2. ev \in EventType /\ ev.type # "words"
  BY EventsMade
<1> HIDE DEF ev
<1> DEFINE new == <<ev>>
<1>3. new \in Seq(EventType) /\ evQ' = evQ \o new /\ \A i \in DOMAIN new : EventTimed(new[i])
  BY <1>1, <1>2, PipeNow, MarkerTimed
<1> HIDE DEF new
<1>4. \A k \in DOMAIN worker.heard : Tagged(worker.heard[k].stream) /\ (~Aligned => worker.heard[k].at # NoTime)
  BY DEF AudioInv, TagsKept, Primed
<1>5. LiveInv'
  BY <1>1 DEF LiveInv, Live, Alive, Lives
<1> QED BY <1>1, <1>3, <1>4, <1>5, WorkerKept

\* The worker takes the audio of a feed: it lies where the queue had it.
LEMMA FedAudio ==
    ASSUME TypeInv, AudioInv, WorkerFeed
    PROVE  LET cmd == Head(cmdQ)
               w == Fed(cmd)
           IN  /\ cmd = cmdQ[1] /\ cmd.type = "feed" /\ HeldOK(w) /\ w.family = worker.family /\ w.state = worker.state
               /\ \A k \in DOMAIN w.heard : /\ Tagged(w.heard[k].stream)
                                            /\ ~Aligned => w.heard[k].at # NoTime
                                            /\ Live /\ w.heard[k].stream = stream /\ w.heard[k].at # NoTime
                                                 => w.heard[k].at = base + k - 1
               /\ Live /\ base # NoTime => base + Len(w.heard) = End(cmd)
<1> DEFINE cmd == Head(cmdQ)
           w == Fed(cmd)
           n == Len(worker.heard)
           len == cmd.len
<1>1. cmd \in Commands /\ cmd = cmdQ[1] /\ cmd.type = "feed" /\ cmdQ # <<>>
  BY CommandAhead DEF WorkerFeed, Command
<1>2. 1 \in DOMAIN cmdQ /\ 1 \in 1 .. Len(cmdQ)
  BY <1>1, PipeNow, EmptySeq
<1>3. Tagged(cmd.stream) /\ (~Aligned => cmd.from # NoTime)
  BY <1>1, <1>2 DEF AudioInv, TagsKept, Primed
<1>4. len \in Nat /\ cmd.from \in Time /\ cmd.stream \in Nat /\ stream \in Nat /\ base \in Time
  BY <1>1, CommandFields DEF TypeInv, ObservedOK, StateOK
<1>5. Live /\ base # NoTime => Begin(cmd) = base + n
  <2>1. NoFeed(1, 1 - 1)
    BY DEF NoFeed
  <2> QED BY <1>1, <1>2, <2>1 DEF AudioInv, LiveInv, QueueFollows
<1> HIDE DEF cmd
<1>6. /\ HeldOK(w) /\ Len(w.heard) = n + len /\ w.family = worker.family /\ w.state = worker.state
      /\ \A i \in 1 .. n : w.heard[i] = worker.heard[i]
      /\ \A i \in n + 1 .. n + len :
            /\ w.heard[i].stream = cmd.stream
            /\ w.heard[i].at = IF cmd.from = NoTime THEN NoTime ELSE cmd.from + (i - n) - 1
  BY <1>1, FedHeld DEF TypeInv
<1>7. w.heard \in Seq(Tick) /\ worker.heard \in Seq(Tick) /\ n \in Nat
  BY <1>6 DEF HeldOK, WorkerType, TypeInv
<1>8. DOMAIN w.heard = 1 .. n + len /\ DOMAIN worker.heard = 1 .. n
  <2> HIDE DEF w
  <2> QED BY <1>6, <1>7
<1> HIDE DEF n, len, w
<1>9. \A k \in 1 .. n + len : k \in 1 .. n \/ k \in n + 1 .. n + len
  BY <1>4, <1>7
<1>10. ASSUME NEW k \in 1 .. n
       PROVE  /\ Tagged(w.heard[k].stream)
              /\ ~Aligned => w.heard[k].at # NoTime
              /\ Live /\ w.heard[k].stream = stream /\ w.heard[k].at # NoTime => w.heard[k].at = base + k - 1
  BY <1>6, <1>8 DEF AudioInv, TagsKept, Primed, LiveInv, HeldTimed
<1>11. ASSUME NEW k \in n + 1 .. n + len
       PROVE  /\ Tagged(w.heard[k].stream)
              /\ ~Aligned => w.heard[k].at # NoTime
              /\ Live /\ w.heard[k].stream = stream /\ w.heard[k].at # NoTime => w.heard[k].at = base + k - 1
  <2>1. /\ w.heard[k].stream = cmd.stream
        /\ w.heard[k].at = IF cmd.from = NoTime THEN NoTime ELSE cmd.from + (k - n) - 1
    BY <1>6, <1>11
  <2>2. ~Aligned => w.heard[k].at # NoTime
    <3> SUFFICES ASSUME ~Aligned PROVE w.heard[k].at # NoTime
      OBVIOUS
    <3> DEFINE f == cmd.from
               a == w.heard[k].at
    <3>1. f \in Nat /\ a = f + (k - n) - 1
      BY <1>3, <1>4, <2>1 DEF Time
    <3>2. k - n \in Nat \ {0}
      BY <1>4, <1>7
    <3> HIDE DEF f, a
    <3>3. a # NoTime
      BY <3>1, <3>2 DEF NoTime
    <3> QED BY <3>3 DEF a
  <2>3. ASSUME Live, cmd.stream = stream, w.heard[k].at # NoTime PROVE w.heard[k].at = base + k - 1
    <3>1. base # NoTime
      BY <1>3, <1>4, <2>3 DEF Tagged
    <3>2. cmd.from # NoTime
      BY <2>1, <2>3
    <3>3. cmd.from = base + n
      BY <1>5, <2>3, <3>1, <3>2 DEF Begin
    <3> DEFINE f == cmd.from
    <3>4. f = base + n /\ w.heard[k].at = f + (k - n) - 1 /\ base \in Nat /\ k \in Nat
      BY <1>4, <1>7, <2>1, <3>1, <3>2, <3>3 DEF Time
    <3> HIDE DEF f
    <3> QED BY <1>7, <3>4
  <2> QED BY <1>3, <2>1, <2>2, <2>3
<1>12. Live /\ base # NoTime => base + Len(w.heard) = End(cmd)
  <2> SUFFICES ASSUME Live, base # NoTime PROVE base + Len(w.heard) = End(cmd)
    OBVIOUS
  <2>1. Begin(cmd) = base + n /\ End(cmd) = Begin(cmd) + len
    BY <1>5 DEF End, len
  <2>2. base \in Nat /\ Len(w.heard) = n + len
    BY <1>4, <1>6 DEF Time
  <2> QED BY <1>4, <1>7, <2>1, <2>2
<1>13. \A k \in DOMAIN w.heard :
          /\ Tagged(w.heard[k].stream)
          /\ ~Aligned => w.heard[k].at # NoTime
          /\ Live /\ w.heard[k].stream = stream /\ w.heard[k].at # NoTime => w.heard[k].at = base + k - 1
  BY <1>8, <1>9, <1>10, <1>11
<1> QED BY <1>1, <1>6, <1>12, <1>13 DEF w, cmd

\* Rows of audio that lies where the clock says are on their audio.
LEMMA ShownTimed ==
    ASSUME NEW w, HeldOK(w), NEW ev \in EventType, ev.type = "words", ev.heard = w.heard,
           NEW to \in Nat, ev.rows \in Rows(w, to), base \in Time,
           \A k \in DOMAIN w.heard : /\ Tagged(w.heard[k].stream)
                                     /\ ~Aligned => w.heard[k].at # NoTime
                                     /\ w.heard[k].stream = stream /\ w.heard[k].at # NoTime
                                          => w.heard[k].at = base + k - 1
    PROVE  EventTimed(ev)
<1>1. w.heard \in Seq(Tick) /\ w.decided \in Nat /\ w.spoken \in Nat
  BY DEF HeldOK, WorkerType
<1>2. \A r \in DOMAIN ev.rows : /\ ev.rows[r].t0 + 1 \in DOMAIN w.heard
                                /\ w.heard[ev.rows[r].t0 + 1].at # NoTime
  BY <1>1, RowsAudible
<1>3. ASSUME NEW r \in DOMAIN ev.rows PROVE RowTimed(ev, r)
  <2> DEFINE t == ev.rows[r].t0
             tick == w.heard[t + 1]
  <2>1. ev.rows[r] \in Row
    <3>1. ev.rows \in Seq(Row)
      BY EventFields
    <3> QED BY <3>1, ElementOfSeq
  <2>2. t \in Nat
    BY <2>1 DEF Row
  <2>3. tick.at # NoTime /\ (tick.stream = stream => tick.at = base + (t + 1) - 1)
    BY <1>2
  <2>4. base + (t + 1) - 1 = base + t
    <3> HIDE DEF t
    <3> QED BY <2>2 DEF Time, NoTime
  <2>5. tick = ev.heard[t + 1]
    OBVIOUS
  <2> HIDE DEF tick
  <2> QED BY <2>3, <2>4, <2>5 DEF RowTimed
<1> QED BY <1>3 DEF EventTimed

LEMMA WorkerFeedAudio ==
    ASSUME TypeInv, AudioInv, WorkerFeed
    PROVE  AudioInv'
<1> DEFINE cmd == Head(cmdQ)
           w == Fed(cmd)
<1>1. /\ cmd = cmdQ[1] /\ cmd.type = "feed" /\ HeldOK(w) /\ w.family = worker.family /\ w.state = worker.state
      /\ \A k \in DOMAIN w.heard : /\ Tagged(w.heard[k].stream)
                                   /\ ~Aligned => w.heard[k].at # NoTime
                                   /\ Live /\ w.heard[k].stream = stream /\ w.heard[k].at # NoTime
                                        => w.heard[k].at = base + k - 1
      /\ Live /\ base # NoTime => base + Len(w.heard) = End(cmd)
  BY FedAudio
<1>2. /\ WorkerKeeps /\ cmdQ # <<>> /\ cmdQ' = Tail(cmdQ) /\ worker.state = "idle"
      /\ base' = base /\ stream' = stream /\ cancel' = cancel
  BY DEF WorkerFeed, Command, WorkerKeeps, Quiet, state
<1>3. PICK new : /\ Reports(new)
                 /\ \A i \in DOMAIN new :
                       /\ new[i].type = "words" => new[i].heard = worker'.heard
                       /\ new[i].type = "words" => ~cancel /\ \E to \in Nat : new[i].rows \in Rows(w, to)
  BY FeedReports
<1>4. \/ worker' = worker /\ cancel /\ evQ' = evQ
      \/ worker' = w /\ evQ' = evQ
      \/ ~cancel /\ \E to, spoken, frontier : worker' = [w EXCEPT !.decided = to, !.spoken = spoken, !.frontier = frontier]
  BY DEF WorkerFeed
<1> HIDE DEF w
<1>5. worker' = worker \/ (worker'.heard = w.heard /\ worker'.family = w.family /\ worker'.state = w.state)
  BY <1>1, <1>4 DEF HeldOK, WorkerType
<1>6. cancel \/ (worker'.heard = w.heard /\ worker'.state = w.state)
  BY <1>1, <1>4 DEF HeldOK, WorkerType
<1>7. worker'.family = worker.family
  BY <1>1, <1>5
<1>8. \A k \in DOMAIN worker'.heard : /\ Tagged(worker'.heard[k].stream)
                                      /\ ~Aligned => worker'.heard[k].at # NoTime
  BY <1>1, <1>5 DEF AudioInv, TagsKept, Primed
<1>9. ASSUME NEW i \in DOMAIN new PROVE EventTimed(new[i])
  <2>1. CASE new[i].type = "words"
    <3>1. ~cancel /\ new[i].heard = w.heard /\ new[i] \in EventType /\ \E to \in Nat : new[i].rows \in Rows(w, to)
      <4>1. new[i] \in EventType
        BY <1>3, ElementOfSeq DEF Reports
      <4> QED BY <1>3, <1>6, <2>1, <4>1
    <3>2. PICK to \in Nat : new[i].rows \in Rows(w, to)
      BY <3>1
    <3>3. Live
      BY <1>2, <3>1 DEF Live, Alive, Lives
    <3>4. base \in Time
      BY DEF TypeInv, StateOK
    <3>5. PICK ev : ev = new[i]
      OBVIOUS
    <3>6. EventTimed(ev)
      <4>1. ev \in EventType /\ ev.type = "words" /\ ev.heard = w.heard /\ ev.rows \in Rows(w, to)
        BY <2>1, <3>1, <3>2, <3>5
      <4> QED BY <1>1, <3>3, <3>4, <4>1, ShownTimed
    <3> QED BY <3>5, <3>6
  <2>2. CASE new[i].type # "words"
    BY <2>2 DEF EventTimed, Shown
  <2> QED BY <2>1, <2>2
<1>10. LiveInv'
  <2> SUFFICES ASSUME Live' PROVE LiveInv'
    BY DEF LiveInv
  <2>1. Live /\ worker'.heard = w.heard
    BY <1>2, <1>6 DEF Live, Alive, Lives
  <2>2. HeldTimed'
    <3>1. \A k \in DOMAIN w.heard : w.heard[k].stream = stream /\ w.heard[k].at # NoTime => w.heard[k].at = base + k - 1
      BY <1>1, <2>1
    <3> QED BY <1>2, <2>1, <3>1 DEF HeldTimed
  <2>3. base # NoTime => base' + Len(worker'.heard) = End(cmdQ[1]) /\ cmdQ[1].type = "feed"
    BY <1>1, <1>2, <2>1
  <2> QED BY <1>2, <2>1, <2>2, <2>3, CommandDoneLive DEF AudioInv
<1> QED BY <1>2, <1>3, <1>7, <1>8, <1>9, <1>10, WorkerKept DEF Reports

\* The worker ends a stream, and reports what it held.
LEMMA WorkerFinalizeAudio ==
    ASSUME TypeInv, AudioInv, WorkerFinalize
    PROVE  AudioInv'
<1>1. /\ WorkerKeeps /\ cmdQ # <<>> /\ cmdQ' = Tail(cmdQ) /\ worker.state = "idle"
      /\ Head(cmdQ) = cmdQ[1] /\ cmdQ[1].type = "finalize"
      /\ base' = base /\ stream' = stream /\ cancel' = cancel
  BY CommandAhead DEF WorkerFinalize, Command, WorkerKeeps, Quiet, state
<1>2. worker'.state = "idle" /\ worker'.family = worker.family /\ (worker'.heard = <<>> \/ worker'.heard = worker.heard)
  <2>1. worker' = FreshStream \/ worker' = Drained
    BY DEF WorkerFinalize
  <2> QED BY <1>1, <2>1 DEF FreshStream, Drained, TypeInv, HeldOK, WorkerType
<1>3. \A k \in DOMAIN worker.heard : /\ Tagged(worker.heard[k].stream)
                                     /\ ~Aligned => worker.heard[k].at # NoTime
                                     /\ Live /\ worker.heard[k].stream = stream /\ worker.heard[k].at # NoTime
                                          => worker.heard[k].at = base + k - 1
  BY DEF AudioInv, TagsKept, Primed, LiveInv, HeldTimed
<1>4. PICK new : /\ Reports(new)
                 /\ \A i \in DOMAIN new :
                       /\ new[i].type = "words" => new[i].heard = worker.heard
                       /\ new[i].type = "words" => \E to \in Nat : new[i].rows \in Rows(worker, to)
                 /\ cancel => \A i \in DOMAIN new : ~Shown(new[i])
  BY EndReports
<1>5. ASSUME NEW i \in DOMAIN new PROVE EventTimed(new[i])
  <2>1. CASE Shown(new[i])
    <3>1. Live
      BY <1>1, <1>4, <2>1 DEF Live, Alive, Lives
    <3>2. PICK to \in Nat : new[i].rows \in Rows(worker, to)
      BY <1>4, <2>1 DEF Shown
    <3>3. base \in Time /\ HeldOK(worker)
      BY DEF TypeInv, StateOK
    <3>4. PICK ev : ev = new[i]
      OBVIOUS
    <3>5. PICK w : w = worker
      OBVIOUS
    <3>6. ev \in EventType /\ ev.type = "words" /\ ev.heard = w.heard /\ ev.rows \in Rows(w, to)
      <4>1. new[i] \in EventType
        BY <1>4, ElementOfSeq DEF Reports
      <4> QED BY <1>4, <2>1, <3>2, <3>4, <3>5, <4>1 DEF Shown
    <3>7. EventTimed(ev)
      BY <1>3, <3>1, <3>3, <3>5, <3>6, ShownTimed
    <3> QED BY <3>4, <3>7
  <2>2. CASE ~Shown(new[i])
    BY <2>2 DEF EventTimed
  <2> QED BY <2>1, <2>2
<1>6. \A k \in DOMAIN worker'.heard : /\ Tagged(worker'.heard[k].stream)
                                      /\ ~Aligned => worker'.heard[k].at # NoTime
  BY <1>2, <1>3
<1>7. LiveInv'
  <2> SUFFICES ASSUME Live' PROVE LiveInv'
    BY DEF LiveInv
  <2>1. Live
    BY <1>1 DEF Live, Alive, Lives
  <2>2. HeldTimed'
    BY <1>1, <1>2, <1>3, <2>1 DEF HeldTimed
  <2>3. base # NoTime => ~Open /\ \A k \in 1 .. Len(cmdQ) : cmdQ[k].type # "feed"
    <3> SUFFICES ASSUME base # NoTime PROVE ~Open /\ \A k \in 1 .. Len(cmdQ) : cmdQ[k].type # "feed"
      OBVIOUS
    <3>1. 1 \in DOMAIN cmdQ /\ Len(cmdQ) \in Nat /\ DOMAIN cmdQ = 1 .. Len(cmdQ)
      BY <1>1, PipeNow, EmptySeq
    <3>2. QueueFollows /\ HandlerFollows
      BY <2>1 DEF AudioInv, LiveInv
    <3>3. ~Open
      BY <1>1, <3>1, <3>2 DEF HandlerFollows
    <3>4. \A k \in 1 .. Len(cmdQ) : k = 1 \/ 1 < k
      BY <3>1
    <3> QED BY <1>1, <3>1, <3>2, <3>3, <3>4 DEF QueueFollows
  <2> QED BY <1>1, <2>1, <2>2, <2>3, CommandDoneLive DEF AudioInv
<1> QED BY <1>1, <1>2, <1>4, <1>5, <1>6, <1>7, WorkerKept DEF Reports

\* The worker begins a new stream.
LEMMA WorkerRestartAudio ==
    ASSUME TypeInv, Orderly, AudioInv, WorkerRestart
    PROVE  AudioInv'
<1>1. /\ WorkerKeeps /\ cmdQ # <<>> /\ cmdQ' = Tail(cmdQ) /\ worker.state = "idle"
      /\ Head(cmdQ) = cmdQ[1] /\ cmdQ[1].type = "restart"
      /\ base' = base /\ stream' = stream /\ cancel' = cancel
  BY CommandAhead DEF WorkerRestart, Command, WorkerKeeps, Quiet, state
<1>2. worker'.state = "idle" /\ worker'.family = worker.family /\ worker'.heard = <<>>
  <2>1. FreshStream \in WorkerType
    BY ClearedHeld DEF HeldOK, TypeInv
  <2>2. FreshStream.state = "idle" /\ FreshStream.family = worker.family /\ FreshStream.heard = <<>>
    BY <1>1 DEF FreshStream, TypeInv, HeldOK, WorkerType
  <2> DEFINE fresh == FreshStream
  <2> HIDE DEF fresh
  <2>3. worker' = fresh \/ worker' = [fresh EXCEPT !.frontier = worker.frontier]
    BY DEF WorkerRestart, fresh
  <2> QED BY <2>1, <2>2, <2>3 DEF fresh, WorkerType
<1>3. PICK new : Reports(new) /\ \A i \in DOMAIN new : new[i].type # "words"
  BY RestartReports
<1>4. \A i \in DOMAIN new : EventTimed(new[i])
  BY <1>3 DEF EventTimed, Shown
<1>5. LiveInv'
  <2> SUFFICES ASSUME Live' PROVE LiveInv'
    BY DEF LiveInv
  <2>1. Live
    BY <1>1 DEF Live, Alive, Lives
  <2>2. HeldTimed'
    BY <1>2 DEF HeldTimed
  <2>3. base # NoTime => worker.heard = <<>> \/ (~Open /\ \A k \in 1 .. Len(cmdQ) : cmdQ[k].type # "feed")
    <3>1. Len(cmdQ) > 0
      BY <1>1, PipeNow, EmptySeq
    <3> QED BY <1>1, <2>1, <3>1 DEF Orderly, Restarts
  <2> QED BY <1>1, <1>2, <2>1, <2>2, <2>3, CommandDoneLive DEF AudioInv
<1> QED BY <1>1, <1>2, <1>3, <1>4, <1>5, WorkerKept DEF Reports

-----------------------------------------------------------------------------
\* Words come out on their audio.

LEMMA NoWordsPushed ==
    ASSUME out' = Nothing \/ (\E kind : out' = Event(kind))
             \/ (\E cover : (\A i \in DOMAIN cover : cover[i].kind = "gap") /\ Publish(cover))
    PROVE  OnItsAudio'
<1>1. \/ out'.cover = <<>>
      \/ \A i \in DOMAIN out'.cover : out'.cover[i].kind = "gap"
  BY DEF Nothing, Event, Publish
<1>2. Words(out'.cover) = {}
  BY <1>1 DEF Words
<1> QED BY <1>2 DEF OnItsAudio

LEMMA WordsOnAudio ==
    ASSUME TypeInv, base # NoTime => WordsCurrent, WordsTimed, TakeWords
    PROVE  OnItsAudio'
<1> DEFINE ev == Head(evQ)
<1>1. CASE Silent
  BY <1>1, NoWordsPushed DEF Silent
<1>2. ASSUME base # NoTime, ev \in SpokenEvent, NEW cover \in Seq(Piece), ShowsAudioOf(cover, ev), Publish(cover)
      PROVE  OnItsAudio'
  <2>1. WordsCurrent
    BY <1>2
  <2>2. evQ \in Seq(EventType) /\ evQ # <<>> /\ evQ[1].type = "words" /\ ev = evQ[1] /\ 1 \in DOMAIN evQ
    <3>1. evQ \in Seq(EventType) /\ evQ # <<>> /\ Head(evQ).type = "words"
      BY DEF TypeInv, TakeWords
    <3> QED BY <3>1, NextEvent, EmptySeq
  <2>3. ShowsCurrent(ev)
    BY <2>1, <2>2 DEF WordsCurrent
  <2>4. \A r \in DOMAIN ev.rows : RowTimed(ev, r)
    <3>1. (\E r \in DOMAIN ev.rows : TRUE) => ev.rows # <<>>
      OBVIOUS
    <3> QED BY <2>2, <3>1 DEF WordsTimed, Shown
  <2> HIDE DEF ev
  <2>5. \A i \in DOMAIN cover : cover[i].kind = "word" => cover[i].planned = cover[i].real
    <3> SUFFICES ASSUME NEW i \in DOMAIN cover, cover[i].kind = "word" PROVE cover[i].planned = cover[i].real
      OBVIOUS
    <3>1. PICK r \in DOMAIN ev.rows : ShowsRow(cover[i], ev, r)
      BY <1>2 DEF ShowsAudioOf
    <3> DEFINE tick == ev.heard[ev.rows[r].t0 + 1]
    <3>2. tick.stream = stream
      BY <2>3 DEF ShowsCurrent
    <3>3. tick.at = base + ev.rows[r].t0
      BY <2>4, <3>2 DEF RowTimed
    <3> QED BY <3>1, <3>3 DEF ShowsRow, ShowsTick
  <2>6. out' = Nothing \/ out'.cover = cover
    BY <1>2 DEF Publish
  <2>7. CASE out'.cover = cover
    <3>1. \A w \in Words(out'.cover) : w.planned = w.real
      BY <2>5, <2>7 DEF Words
    <3> QED BY <3>1 DEF OnItsAudio
  <2> QED BY <2>6, <2>7, NoWordsPushed
<1>3. \/ Silent /\ UNCHANGED <<todo, outPts>>
      \/ /\ base # NoTime /\ ev \in SpokenEvent /\ outPts' \in Nat
         /\ \E cover \in Seq(Piece) : ShowsAudioOf(cover, ev) /\ Publish(cover)
         /\ Abandon \/ UNCHANGED todo
  <2> DEFINE head == ev
  <2>1. head = Head(evQ)
    OBVIOUS
  <2> HIDE DEF head
  <2> QED BY <2>1, TakeWordsShows DEF head
<1> HIDE DEF ev
<1> QED BY <1>1, <1>2, <1>3

\* Nothing else pushes words.
LEMMA PushesOnAudio ==
    ASSUME TypeInv, base # NoTime => WordsCurrent, WordsTimed, OnItsAudio, [Next]_vars
    PROVE  OnItsAudio'
<1>1. CASE Upstream
  <2>1. out' = Nothing
    BY <1>1 DEF Upstream, Caps, Segment, Eos, FlushStop, InputGap, Chain, Quiet, Silent
  <2> QED BY <2>1, NoWordsPushed
<1>2. CASE DoFinalize \/ DoRestart \/ DoFeed \/ DoPlanGap \/ AwaitReady \/ TakeMarker \/ TakeError \/ DrainEnds
  <2>1. out' = Nothing
    BY <1>2 DEF DoFinalize, DoRestart, DoFeed, DoPlanGap, AwaitReady, TakeMarker, TakeError, DrainEnds,
                Quiet, Silent
  <2> QED BY <2>1, NoWordsPushed
<1>3. CASE DoBridge \/ Withhold \/ TakeProgress
  <2>1. out' = Nothing \/ \E from, to : Publish(<<Gap(from, to)>>)
    BY <1>3 DEF DoBridge, Withhold, TakeProgress, Advance, Silent
  <2> QED BY <2>1, NoWordsPushed, GapsMade
<1>4. CASE PassThrough \/ \E kept \in 1 .. MaxPts : OpenGate(kept)
  <2>1. \E at, end, len, pad : Admit(at, end, len, pad)
    BY <1>4 DEF PassThrough, OpenGate
  <2>2. out' = Nothing \/ \E at : Publish(OpeningCover(at))
    BY <2>1 DEF Admit, Silent
  <2> QED BY <2>2, NoWordsPushed, GapsMade
<1>5. CASE DoInputGap
  <2>1. \E from, to : Publish(GapCover(from, to))
    BY <1>5 DEF DoInputGap
  <2> QED BY <2>1, NoWordsPushed, GapsMade
<1>6. CASE ForwardSegment \/ ForwardEos \/ ForwardFlushStop
  <2>1. out' = Nothing \/ \E kind : out' = Event(kind)
    BY <1>6 DEF ForwardSegment, ForwardEos, ForwardFlushStop, Forward
  <2> QED BY <2>1, NoWordsPushed
<1>7. CASE TakeWords
  BY <1>7, WordsOnAudio
<1>8. CASE Worker \/ WorkerFails
  <2>1. out' = Nothing
    BY <1>8 DEF Worker, WorkerLoads, WorkerFeed, WorkerFinalize, WorkerRestart, WorkerFails, WorkerKeeps, Quiet
  <2> QED BY <2>1, NoWordsPushed
<1>9. CASE Application
  <2>1. out' = Nothing
    BY <1>9 DEF Application, FlushStart, ForwardFlushStart, PausedToReady, DeactivateSrc, DeactivateSink,
                ReadyToPaused, ReadyToNull, NullToReady, Quiet, Silent
  <2> QED BY <2>1, NoWordsPushed
<1>10. CASE UNCHANGED vars
  BY <1>10 DEF vars, observed, OnItsAudio
<1> QED BY <1>1, <1>2, <1>3, <1>4, <1>5, <1>6, <1>7, <1>8, <1>9, <1>10 DEF Next, Streaming

-----------------------------------------------------------------------------
\* What the audio of a stream that lives needs to lie where the clock says: no
\* buffer is lost to a full channel, a jump in the timestamps is a discontinuity,
\* the priming chunk fits in front of the first buffer, and only a model that
\* times its words is given one.
Seamless ==
    /\ Overrun = "block" /\ Threshold = 0 /\ Warmup <= FirstPts
    /\ "gate" \in Features => \A f \in Families : f.mode = "stream" => f.aligned

LEMMA UpstreamAudio ==
    ASSUME Seamless, TypeInv, AudioInv, Upstream
    PROVE  AudioInv'
<1>1. \A n \in FirstPts .. MaxPts : n \in Nat
  BY TranscriberAssumption
<1>2. Durations \subseteq Nat
  BY TranscriberAssumption
<1>3. ASSUME NEW pts \in FirstPts .. MaxPts, NEW end \in FirstPts .. MaxPts, InputGap(pts, end)
      PROVE  AudioInv'
  BY <1>1, <1>3, InputGapAudio
<1>4. ASSUME NEW pts \in FirstPts .. MaxPts, NEW len \in Durations, NEW flagged \in BOOLEAN,
             Chain(pts, len, flagged)
      PROVE  AudioInv'
  BY <1>1, <1>2, <1>4, ChainAudio DEF Seamless
<1> QED BY <1>3, <1>4, CapsAudio, SegmentAudio, EosAudio, FlushStopAudio DEF Upstream

LEMMA StreamingAudio ==
    ASSUME Seamless, TypeInv, TypeInv', Orderly, AudioInv, Streaming
    PROVE  AudioInv'
<1>1. ASSUME NEW kept \in 1 .. MaxPts, OpenGate(kept) PROVE AudioInv'
  BY <1>1, OpenGateAudio DEF Seamless
<1>2. DoFeed => AudioInv'
  BY DoFeedAudio DEF Seamless
<1> QED BY <1>1, <1>2, DoFinalizeAudio, DoRestartAudio, QuietAudio, WithholdAudio, PassThroughAudio, DoPlanGapAudio,
           ForwardFlushStopAudio, AwaitReadyAudio, TakeWordsAudio, TakeProgressAudio, TakeMarkerAudio, TakeErrorAudio
           DEF Streaming

LEMMA NextAudio ==
    ASSUME Seamless, TypeInv, TypeInv', Orderly, AudioInv, [Next]_vars
    PROVE  AudioInv'
<1>1. CASE Worker \/ WorkerFails
  BY <1>1, WorkerLoadsAudio, WorkerFailsAudio, WorkerFeedAudio, WorkerFinalizeAudio, WorkerRestartAudio DEF Worker
<1>2. CASE Application
  BY <1>2, CancelledAudio, PadsAudio, ReadyToNullAudio, NullToReadyAudio DEF Application
<1>3. CASE UNCHANGED vars
  <2>1. Unmoved /\ evQ' = evQ /\ todo' = todo
    BY <1>3 DEF vars, element, state, channels, observed, Unmoved, Clock
  <2>2. Left
    BY <2>1, EventsLeft
  <2> QED BY <2>1, <2>2, SameTodoAudio
<1> QED BY <1>1, <1>2, <1>3, UpstreamAudio, StreamingAudio DEF Next

LEMMA InitAudio == Init => AudioInv /\ OnItsAudio
<1> SUFFICES ASSUME Init PROVE AudioInv /\ OnItsAudio
  OBVIOUS
<1>1. /\ todo = <<>> /\ base = NoTime /\ evQ = <<>> /\ cmdQ = <<>> /\ out = Nothing /\ nextPts = NoTime
      /\ phase = "paused" /\ sinkFlush = FALSE /\ gate = "off" /\ gateSeen = 0
      /\ \E family \in Families : worker = NewWorker(family)
  BY DEF Init
<1>2. worker.heard = <<>> /\ worker.family \in Families
  BY <1>1 DEF NewWorker
<1>3. DOMAIN todo = {} /\ DOMAIN evQ = {} /\ DOMAIN cmdQ = {} /\ DOMAIN worker.heard = {}
  BY <1>1, <1>2
<1>4. \A op : ~Has(op)
  BY <1>3 DEF Has
<1>5. FlushRests /\ NullRests /\ PlansAlone /\ Primed
  BY <1>1, <1>2, <1>3, <1>4 DEF FlushRests, NullRests, PlansAlone, Primed
<1>6. TagsKept /\ WordsTimed
  BY <1>3 DEF TagsKept, WordsTimed
<1>7. LiveInv
  BY <1>1, <1>3 DEF LiveInv, HeldTimed, EntersFollow, GateFollows
<1>8. OnItsAudio
  <2>1. out.cover = <<>>
    BY <1>1 DEF Nothing
  <2>2. Words(out.cover) = {}
    BY <2>1 DEF Words
  <2> QED BY <2>2 DEF OnItsAudio
<1> QED BY <1>5, <1>6, <1>7, <1>8 DEF AudioInv

\* The element is not stopped: a published word lies on the audio it was
\* recognised in, whatever the gate withheld, whatever silence the model was
\* primed with, and whatever flushes, segments, discontinuities and failed
\* calls came in between.
THEOREM FlushesKeepAudio ==
    ASSUME "stop" \notin Features, Seamless
    PROVE  Spec => []OnItsAudio
<1> DEFINE Inv == TypeInv /\ TimelineInv /\ AudioInv /\ OnItsAudio
<1>1. Inv /\ [Next]_vars => Inv'
  <2> SUFFICES ASSUME Inv, [Next]_vars PROVE Inv'
    OBVIOUS
  <2>1. TypeInv' /\ TimelineInv'
    BY NextType, NextFlow
  <2>2. Orderly
    BY TimelineOrderly DEF AudioInv
  <2>3. AudioInv'
    BY <2>1, <2>2, NextAudio
  <2>4. base # NoTime => WordsCurrent
    BY DEF TimelineInv, Piped, Flowing
  <2>5. OnItsAudio'
    BY <2>4, PushesOnAudio DEF AudioInv
  <2> QED BY <2>1, <2>3, <2>5
<1>2. Init => Inv
  BY InitType, InitFlow, InitAudio
<1>3. Inv => OnItsAudio
  OBVIOUS
<1> HIDE DEF Inv
<1> QED BY <1>1, <1>2, <1>3, PTL DEF Spec

\* The element is not flushed: so does a word of an element that is stopped in
\* the middle of a handler and started again, with the worker it had or with a
\* new one.
THEOREM StopsKeepAudio ==
    ASSUME Features \cap {"flush", "earlyflush"} = {}, Seamless
    PROVE  Spec => []OnItsAudio
<1> DEFINE Inv == TypeInv /\ UnflushedInv /\ AudioInv /\ OnItsAudio
<1>1. Inv /\ [Next]_vars => Inv'
  <2> SUFFICES ASSUME Inv, [Next]_vars PROVE Inv'
    OBVIOUS
  <2>1. TypeInv' /\ UnflushedInv'
    BY NextType, NextStep
  <2>2. Orderly
    BY UnflushedOrderly
  <2>3. AudioInv'
    BY <2>1, <2>2, NextAudio
  <2>4. base # NoTime => WordsCurrent
    BY DEF UnflushedInv, Settled, Running, Cancelled
  <2>5. OnItsAudio'
    BY <2>4, PushesOnAudio DEF AudioInv
  <2> QED BY <2>1, <2>3, <2>5
<1>2. Init => Inv
  BY InitType, InitStep, InitAudio
<1>3. Inv => OnItsAudio
  OBVIOUS
<1> HIDE DEF Inv
<1> QED BY <1>1, <1>2, <1>3, PTL DEF Spec

=============================================================================
