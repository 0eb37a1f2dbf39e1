------------------------ MODULE RtmpListenSrc_proofs ------------------------
(***************************************************************************)
(* What is proved of scufflertmplistensrc for every number of connections, *)
(* starts and media messages: its variables keep their types, and what     *)
(* downstream sees implements PublisherLifecycle.                          *)
(***************************************************************************)
EXTENDS RtmpListenSrc, SequenceTheorems, TLAPS

\* The outputs on their way downstream, one after the other, take it from one
\* point of the lifecycle to the next.  id is the latest publisher announced.
Point(at, id) == [at |-> at, id |-> id]
Broken == Point("broken", 0)
Over == Point("over", 0)

After(point, item) ==
    CASE point.at \in {"over", "broken"} \/ item.kind \in {"warning", "wake", "cancel"} -> point
      [] /\ point.at = "idle" /\ item.kind = "started"
         /\ item.of > point.id /\ item.of \in Ids -> Point("announced", item.of)
      [] /\ point.at = "announced" /\ item.kind = "data"
         /\ item.data = "header" /\ item.of = point.id -> Point("live", point.id)
      [] /\ point.at = "live" /\ item.kind = "data"
         /\ item.data = "tag" /\ item.of = point.id -> point
      [] /\ point.at = "live" /\ item.kind = "ended" /\ item.of = point.id -> Point("idle", point.id)
      [] point.at = "idle" /\ item.kind \in {"eos", "error"} -> Over
      [] OTHER -> Broken

\* No handler and no report sends more than three.
AfterAll(point, items) ==
    LET first == IF Len(items) >= 1 THEN After(point, items[1]) ELSE point
        second == IF Len(items) >= 2 THEN After(first, items[2]) ELSE first
    IN  IF Len(items) >= 3 THEN After(second, items[3]) ELSE second

\* Where downstream and create's pending_publish_start are, where the channel
\* takes them, and where what the worker still sends takes them.
TaskPoint ==
    IF task.started # 0 THEN Point("announced", task.started)
    ELSE IF seen.live # 0 THEN Point("live", seen.live)
    ELSE Point("idle", seen.last)
QueuePoint == IF queue = <<>> THEN TaskPoint ELSE After(TaskPoint, queue[1])
LastPoint == AfterAll(QueuePoint, worker.sends)

\* Create may still be called in this run of the element.
Active == task.at \in {"new", "between", "check", "receive"} /\ ~ReceiverGone

InSession == worker.at \in {"handshake", "drive", "process", "flush", "closing", "result"}

\* Where the worker takes downstream to be.
WorkerExpects ==
    IF InSession /\ session.current # 0 THEN LastPoint = Point("live", session.current)
    ELSE IF worker.at = "report" /\ worker.then = "ended" THEN LastPoint = Over
    ELSE LastPoint = Point("idle", LastPoint.id) /\ LastPoint.id < nextId

\* The session agrees with what it has sent, and a worker that has ended, or is
\* about to, has said why.
SessionAgrees ==
    /\ worker.at # "ended"
    /\ InSession => /\ session.header <=> session.current # 0
                    /\ session.publishing => session.current # 0
                    /\ session.rejected => worker.at = "result" /\ session.current = 0

SendsWhere ==
    /\ Len(worker.sends) <= 3
    /\ worker.sends # <<>> => worker.at \in {"process", "report"}
    /\ worker.at = "report" => worker.then \in {"accept", "ended"}
    /\ \A i \in DOMAIN worker.sends : worker.sends[i].kind = "cancel" => i = Len(worker.sends)

\* What create keeps, and what it has seen.
TaskAgrees ==
    /\ seen.out.push # "finish"
    /\ seen.live # 0 => seen.last = seen.live
    /\ task.started # 0 => task.at \in {"check", "receive"}
    /\ task.started # 0 => seen.live = 0 /\ task.started > seen.last /\ task.started \in Ids
    /\ newStream <=> seen.live = 0 /\ seen.last # 0

SeenType ==
    /\ seen = [live |-> seen.live, last |-> seen.last, out |-> seen.out]
    /\ seen.live \in Nat /\ seen.last \in Nat

\* stop takes the receiver only once the task has been joined.
StopWaits == ReceiverGone => task.at \in {"new", "paused", "ended"}

\* The worker may be cut short only once it has said that it is over.
CancelSaid ==
    /\ cancel => QueuePoint = Over
    /\ (\E i \in DOMAIN worker.sends : worker.sends[i].kind = "cancel") => LastPoint = Over
WorkerAgrees == LastPoint = Over \/ (WorkerExpects /\ SessionAgrees)

\* While create may be called, what is on its way keeps the lifecycle.
Flow == TaskAgrees /\ CancelSaid /\ WorkerAgrees

PipelineInv == SendsWhere /\ StopWaits /\ (Active => Flow)

-----------------------------------------------------------------------------
\* Type correctness.
Sendable == Outputs \cup [kind : {"cancel"}]
TypeInv == TypeOK /\ SeenType

\* TypeOK in parts that an action changes together.
FlagsOK ==
    /\ element \in {"stopped", "paused", "playing", "flushing", "taken", "joining"}
    /\ settings \in [keep : BOOLEAN, graceful : BOOLEAN]
    /\ flushing \in BOOLEAN /\ newStream \in BOOLEAN
    /\ cancel \in BOOLEAN /\ graceful \in BOOLEAN
    /\ conn \in {"none", "open", "closed", "reset"}
    /\ starts \in Nat /\ connections \in Nat
TaskOK == task \in [at : {"new", "between", "check", "receive", "paused", "ended"}, started : Nat]
QueueOK == queue \in Seq(Outputs) /\ Len(queue) <= QueueCapacity
WorkerOK == worker \in [at : Places, sends : Seq(Sendable), then : Places]
Sessions(n) ==
    [current : 0 .. n - 1, header : BOOLEAN, publishing : BOOLEAN, rejected : BOOLEAN,
     tags : Nat, result : {"none", "clean", "open", "lost", "error"}]
SessionOK == nextId \in Nat \ {0} /\ session \in Sessions(nextId)

\* The outputs the worker makes.
LEMMA OutputTypes ==
    /\ \A kind \in {"warning", "error", "eos", "wake"} : Output(kind) \in Outputs
    /\ Output("cancel") \in Sendable
    /\ \A id \in Nat, data \in {"header", "tag"} : Data(data, id) \in Outputs
    /\ \A id \in Nat \ {0} : PublishStarted(id) \in Outputs
    /\ \A id \in Nat \ {0}, reason \in Lifecycle!Reasons : PublishEnded(id, reason) \in Outputs
  BY DEF Output, Data, PublishStarted, PublishEnded, Outputs, Sendable

\* The channel holds one output at most, and whoever adds to it looks first.
LEMMA WakeType ==
    ASSUME queue \in Seq(Outputs), Len(queue) <= QueueCapacity, Wake
    PROVE  queue' \in Seq(Outputs) /\ Len(queue') <= QueueCapacity
<1>1. Output("wake") \in Outputs
  BY OutputTypes
<1> QED BY <1>1 DEF Wake, QueueCapacity

LEMMA TypeParts ==
    /\ TypeInv => FlagsOK /\ TaskOK /\ QueueOK /\ WorkerOK /\ SessionOK /\ SeenType
    /\ FlagsOK' /\ TaskOK' /\ QueueOK' /\ WorkerOK' /\ SessionOK' /\ SeenType' => TypeInv'
<1>1. TypeInv => FlagsOK /\ TaskOK /\ QueueOK /\ WorkerOK /\ SessionOK /\ SeenType
  BY DEF TypeInv, TypeOK, FlagsOK, TaskOK, QueueOK, WorkerOK, SessionOK, Sessions, Sendable
<1>2. FlagsOK' /\ TaskOK' /\ QueueOK' /\ WorkerOK' /\ SessionOK' /\ SeenType' => TypeInv'
  BY DEF TypeInv, TypeOK, FlagsOK, TaskOK, QueueOK, WorkerOK, SessionOK, Sessions, Sendable
<1> QED BY <1>1, <1>2

LEMMA ApplicationType ==
    ASSUME TypeInv, Application \/ Stopping
    PROVE  TypeInv'
<1>0. FlagsOK /\ TaskOK /\ QueueOK /\ WorkerOK /\ SessionOK /\ SeenType
  BY TypeParts
<1>1. ASSUME NEW keep \in BOOLEAN, NEW wait \in BOOLEAN, Start(keep, wait) PROVE TypeInv'
  <2>5. settings' \in [keep : BOOLEAN, graceful : BOOLEAN]
    BY <1>1, Zenon DEF Start
  <2>6. starts' \in Nat /\ connections' \in Nat
    BY <1>0, <1>1 DEF Start, FlagsOK
  <2>1. FlagsOK'
    BY <1>1, <2>5, <2>6 DEF Start, FlagsOK
  <2>4. TaskOK'
    BY <1>1 DEF Start, TaskOK, NewTask
  <2>2. QueueOK' /\ WorkerOK'
    BY <1>1 DEF Start, At, Places, QueueOK, WorkerOK, QueueCapacity
  <2>3. SessionOK' /\ SeenType'
    BY <1>1 DEF Start, NewSession, SessionOK, Sessions, Unseen, SeenType
  <2> QED BY <2>1, <2>2, <2>3, <2>4, TypeParts
<1>2. ASSUME Play PROVE TypeInv'
  <2>1. FlagsOK' /\ TaskOK'
    BY <1>0, <1>2 DEF Play, FlagsOK, TaskOK, NewTask, tokens, peer
  <2>2. QueueOK' /\ WorkerOK' /\ SessionOK' /\ SeenType'
    BY <1>0, <1>2 DEF Play, QueueOK, WorkerOK, SessionOK, SeenType
  <2> QED BY <2>1, <2>2, TypeParts
<1>3. ASSUME Pause \/ Deactivate PROVE TypeInv'
  <2>1. FlagsOK' /\ TaskOK'
    BY <1>0, <1>3 DEF Pause, Deactivate, FlagsOK, TaskOK, tokens, peer
  <2>2. QueueOK'
    BY <1>0, <1>3, WakeType DEF Pause, Deactivate, QueueOK
  <2>3. WorkerOK' /\ SessionOK' /\ SeenType'
    BY <1>0, <1>3 DEF Pause, Deactivate, WorkerOK, SessionOK, SeenType
  <2> QED BY <2>1, <2>2, <2>3, TypeParts
<1>4. ASSUME Stopping PROVE TypeInv'
  <2>1. FlagsOK' /\ TaskOK'
    BY <1>0, <1>4 DEF Stopping, StopTakes, StopCancels, StopJoins, FlagsOK, TaskOK,
                      tokens, flags, peer
  <2>2. QueueOK'
    <3>1. queue' = <<>> \/ queue' = queue
      BY <1>4 DEF Stopping, StopTakes, StopCancels, StopJoins
    <3>2. <<>> \in Seq(Outputs) /\ Len(<<>>) <= QueueCapacity
      BY DEF QueueCapacity
    <3> QED BY <1>0, <3>1, <3>2 DEF QueueOK
  <2>3. UNCHANGED <<worker, nextId, session, seen>>
    BY <1>4 DEF Stopping, StopTakes, StopCancels, StopJoins
  <2>4. WorkerOK' /\ SessionOK' /\ SeenType'
    BY <1>0, <2>3 DEF WorkerOK, SessionOK, SeenType
  <2> QED BY <2>1, <2>2, <2>4, TypeParts
<1> QED BY <1>1, <1>2, <1>3, <1>4 DEF Application

LEMMA CreateType ==
    ASSUME TypeInv, Create
    PROVE  TypeInv'
<1>0. FlagsOK /\ TaskOK /\ QueueOK /\ WorkerOK /\ SessionOK /\ SeenType
  BY TypeParts
<1>1. WorkerOK' /\ SessionOK'
  BY <1>0 DEF Create, CreateEnters, TaskPauses, CreateChecks, PollTimesOut, TakeStarted, TakeData,
     TakeEnded, TakeOther, TakeFinish, TaskKeeps, WorkerOK, SessionOK
<1>2. CASE CreateEnters \/ TaskPauses \/ CreateChecks \/ PollTimesOut
  <2>1. FlagsOK' /\ TaskOK' /\ QueueOK' /\ SeenType'
    BY <1>0, <1>2 DEF CreateEnters, TaskPauses, CreateChecks, PollTimesOut, TaskKeeps, NewTask,
       FlagsOK, TaskOK, QueueOK, SeenType, app, tokens, peer
  <2> QED BY <1>1, <2>1, TypeParts
<1>3. CASE TakeStarted \/ TakeData \/ TakeEnded \/ TakeOther \/ TakeFinish
  <2>1. queue # <<>> /\ queue' = Tail(queue) /\ Head(queue) \in Outputs
    BY <1>0, <1>3 DEF TakeStarted, TakeData, TakeEnded, TakeOther, TakeFinish, Receives, QueueOK
  <2>2. QueueOK'
    BY <1>0, <2>1 DEF QueueOK, QueueCapacity
  <2>3. FlagsOK'
    BY <1>0, <1>3 DEF TakeStarted, TakeData, TakeEnded, TakeOther, TakeFinish, TaskKeeps,
       NewStreamPushed, FlagsOK, app, tokens, peer
  <2>4. TaskOK'
    <3>1. TakeStarted => Head(queue).of \in Nat
      BY <2>1 DEF TakeStarted, Receives, Outputs
    <3> QED BY <1>0, <1>3, <3>1 DEF TakeStarted, TakeData, TakeEnded, TakeOther, TakeFinish,
               NewTask, TaskOK
  <2>5. SeenType'
    <3>1. CASE TakeStarted \/ TakeOther
      BY <1>0, <3>1 DEF TakeStarted, TakeOther, SeenType
    <3>2. CASE TakeData
      BY <1>0, <3>2 DEF TakeData, SeenType, TaskOK
    <3>3. CASE TakeEnded
      BY <1>0, <3>3, Zenon DEF TakeEnded, SeenType
    <3>4. CASE TakeFinish
      BY <1>0, <3>4 DEF TakeFinish, SeenType
    <3> QED BY <1>3, <3>1, <3>2, <3>3, <3>4
  <2> QED BY <1>1, <2>2, <2>3, <2>4, <2>5, TypeParts
<1> QED BY <1>2, <1>3 DEF Create

\* What the worker puts into its sends.
LEMMA SendsType ==
    ASSUME SessionOK
    PROVE  /\ \A reason \in Lifecycle!Reasons : PublishEnd(reason) \in Seq(Sendable)
           /\ \A id \in Nat : Header(id) \in Seq(Sendable)
           /\ \A kind \in {"warning", "error", "eos", "cancel"} : <<Output(kind)>> \in Seq(Sendable)
           /\ <<Output("warning"), Output("eos")>> \in Seq(Sendable)
           /\ <<Output("error"), Output("cancel")>> \in Seq(Sendable)
           /\ <<Data("tag", session.current)>> \in Seq(Sendable)
           /\ <<PublishStarted(nextId)>> \in Seq(Sendable)
           /\ \A s, t \in Seq(Sendable) : s \o t \in Seq(Sendable)
           /\ <<>> \in Seq(Sendable)
<1>1. session.current \in Nat /\ nextId \in Nat \ {0}
  BY DEF SessionOK, Sessions
<1>2. Outputs \subseteq Sendable
  BY DEF Sendable
<1>3. \A kind \in {"warning", "error", "eos", "cancel"} : Output(kind) \in Sendable
  BY <1>2, OutputTypes
<1>4. \A id \in Nat : Data("header", id) \in Sendable /\ Data("tag", id) \in Sendable
  BY <1>2, OutputTypes
<1>5. \A reason \in Lifecycle!Reasons : PublishEnd(reason) \in Seq(Sendable)
  <2> SUFFICES ASSUME NEW reason \in Lifecycle!Reasons PROVE PublishEnd(reason) \in Seq(Sendable)
    OBVIOUS
  <2>1. session.current # 0 => PublishEnded(session.current, reason) \in Sendable
    BY <1>1, <1>2, OutputTypes
  <2> QED BY <2>1 DEF PublishEnd
<1>6. \A id \in Nat : Header(id) \in Seq(Sendable)
  BY <1>4 DEF Header
<1>7. PublishStarted(nextId) \in Sendable
  BY <1>1, <1>2, OutputTypes
<1> HIDE DEF Sendable, Outputs, Output, Data, PublishStarted, PublishEnd, Header
<1> QED BY <1>1, <1>3, <1>4, <1>5, <1>6, <1>7

LEMMA SendingType ==
    ASSUME WorkerOK, SessionOK
    PROVE  /\ \A place \in Places : At(place) \in [at : Places, sends : Seq(Sendable), then : Places]
           /\ \A place, then \in Places, sends \in Seq(Sendable) :
                 Sending(place, sends, then) \in [at : Places, sends : Seq(Sendable), then : Places]
           /\ "none" \in Places
  BY SendsType DEF At, Sending, Places

\* What handlers and the end of a session make of it.
LEMMA SessionUpdates ==
    ASSUME SessionOK
    PROVE  /\ \A result \in {"clean", "open", "lost", "error"} :
                 [session EXCEPT !.result = result] \in Sessions(nextId)
           /\ \A publishing \in BOOLEAN :
                 [session EXCEPT !.publishing = publishing] \in Sessions(nextId)
           /\ [session EXCEPT !.rejected = TRUE, !.result = "error"] \in Sessions(nextId)
           /\ [session EXCEPT !.header = TRUE, !.tags = @ + 1] \in Sessions(nextId)
           /\ [session EXCEPT !.current = nextId, !.header = TRUE, !.publishing = TRUE]
                 \in Sessions(nextId + 1)
           /\ NewSession \in Sessions(nextId)
<1>1. /\ session.current \in 0 .. nextId - 1 /\ nextId \in Nat \ {0} /\ session.tags \in Nat
      /\ session = [current |-> session.current, header |-> session.header,
                    publishing |-> session.publishing, rejected |-> session.rejected,
                    tags |-> session.tags, result |-> session.result]
      /\ session.header \in BOOLEAN /\ session.publishing \in BOOLEAN
      /\ session.rejected \in BOOLEAN
      /\ session.result \in {"none", "clean", "open", "lost", "error"}
  BY DEF SessionOK, Sessions
<1>2. \A result \in {"clean", "open", "lost", "error"} :
        [session EXCEPT !.result = result] \in Sessions(nextId)
  BY DEF SessionOK, Sessions
<1>3. \A publishing \in BOOLEAN : [session EXCEPT !.publishing = publishing] \in Sessions(nextId)
  BY Zenon DEF SessionOK, Sessions
<1>4. [session EXCEPT !.rejected = TRUE, !.result = "error"] \in Sessions(nextId)
  BY DEF SessionOK, Sessions
<1>5. [session EXCEPT !.header = TRUE, !.tags = @ + 1] \in Sessions(nextId)
  <2>1. session.tags + 1 \in Nat
    BY <1>1
  <2> QED BY <2>1 DEF SessionOK, Sessions
<1>6. [session EXCEPT !.current = nextId, !.header = TRUE, !.publishing = TRUE]
         \in Sessions(nextId + 1)
  <2>1. nextId \in 0 .. (nextId + 1) - 1 /\ 0 .. nextId - 1 \subseteq 0 .. (nextId + 1) - 1
    BY <1>1
  <2>2. session \in Sessions(nextId + 1)
    BY <2>1 DEF SessionOK, Sessions
  <2> QED BY <2>1, <2>2 DEF Sessions
<1>7. NewSession \in Sessions(nextId)
  BY <1>1 DEF NewSession, Sessions
<1> QED BY <1>2, <1>3, <1>4, <1>5, <1>6, <1>7

\* Actions of the worker that leave everything to it but the channel and the
\* session.
LEMMA WorkerType ==
    ASSUME TypeInv, Worker
    PROVE  TypeInv'
<1>0. FlagsOK /\ TaskOK /\ QueueOK /\ WorkerOK /\ SessionOK /\ SeenType
  BY TypeParts
<1>1. TaskOK' /\ SeenType'
  BY <1>0 DEF Worker, Send, SendFails, HandlerCancels, Reported, AcceptCancelled, HandshakeReset,
     HandshakeShutdown, ReadEnds, Processed, Flush, Shutdown, Closes, Result, WorkerOnly,
     WorkerKeeps, TaskOK, SeenType
<1>2. CASE Send
  <2>1. Head(worker.sends) \in Sendable /\ Head(worker.sends).kind # "cancel"
        /\ Tail(worker.sends) \in Seq(Sendable)
    BY <1>0, <1>2 DEF Send, WorkerOK
  <2>2. Head(worker.sends) \in Outputs
    BY <2>1 DEF Sendable
  <2>3. QueueOK'
    BY <1>0, <1>2, <2>2 DEF Send, QueueOK, QueueCapacity
  <2>4. WorkerOK'
    BY <1>0, <1>2, <2>1 DEF Send, WorkerOK
  <2>5. FlagsOK' /\ SessionOK'
    BY <1>0, <1>2 DEF Send, WorkerKeeps, FlagsOK, SessionOK, app, flags, tokens, peer
  <2> QED BY <1>1, <2>3, <2>4, <2>5, TypeParts
<1>3. CASE SendFails \/ HandlerCancels \/ Reported
  <2>1. QueueOK' /\ SessionOK'
    BY <1>0, <1>3 DEF SendFails, HandlerCancels, Reported, QueueOK, SessionOK
  <2>2. FlagsOK'
    BY <1>0, <1>3 DEF SendFails, HandlerCancels, Reported, WorkerKeeps, FlagsOK, app, flags,
       tokens, peer
  <2>3. WorkerOK'
    <3>1. CASE SendFails
      <4>1. CancelLeft(worker.sends) \in Seq(Sendable)
        BY <1>0, SendsType DEF CancelLeft
      <4>2. "ended" \in Places
        BY DEF Places
      <4> QED BY <1>0, <3>1, <4>1, <4>2, SendingType DEF SendFails, WorkerOK
    <3>2. CASE HandlerCancels
      <4>1. Tail(worker.sends) \in Seq(Sendable)
        BY <1>0, <3>2 DEF HandlerCancels, WorkerOK
      <4> QED BY <1>0, <3>2, <4>1 DEF HandlerCancels, WorkerOK
    <3>3. CASE Reported
      BY <1>0, <3>3, SendingType DEF Reported, WorkerOK
    <3> QED BY <1>3, <3>1, <3>2, <3>3
  <2> QED BY <1>1, <2>1, <2>2, <2>3, TypeParts
<1>4. CASE AcceptCancelled \/ HandshakeReset \/ HandshakeShutdown \/ ReadEnds \/ Processed
           \/ Flush \/ Shutdown \/ Closes
  <2>1. QueueOK'
    BY <1>0, <1>4 DEF AcceptCancelled, HandshakeReset, HandshakeShutdown, ReadEnds, Processed,
       Flush, Shutdown, Closes, WorkerOnly, QueueOK
  <2>2. FlagsOK'
    BY <1>0, <1>4 DEF AcceptCancelled, HandshakeReset, HandshakeShutdown, ReadEnds, Processed,
       Flush, Shutdown, Closes, Ends, WorkerOnly, WorkerKeeps, FlagsOK, app, flags, tokens, peer
  <2>3. WorkerOK'
    <3>1. \E place \in Places : worker' = At(place)
      BY <1>4 DEF AcceptCancelled, HandshakeReset, HandshakeShutdown, ReadEnds, Processed,
         Flush, Shutdown, Closes, Ends, Goes, Places
    <3> QED BY <1>0, <3>1, SendingType DEF WorkerOK
  <2>4. SessionOK'
    <3>1. /\ nextId' = nextId
          /\ session' = session \/ \E result \in {"clean", "open", "lost", "error"} :
                                      session' = [session EXCEPT !.result = result]
      BY <1>4 DEF AcceptCancelled, HandshakeReset, HandshakeShutdown, ReadEnds, Processed,
         Flush, Shutdown, Closes, Ends, WorkerOnly
    <3> QED BY <1>0, <3>1, SessionUpdates DEF SessionOK
  <2> QED BY <1>1, <2>1, <2>2, <2>3, <2>4, TypeParts
<1>5. CASE Result
  <2>1. QueueOK' /\ SessionOK' /\ FlagsOK'
    BY <1>0, <1>5 DEF Result, WorkerOnly, WorkerKeeps, QueueOK, SessionOK, FlagsOK, app, flags,
       tokens, peer
  <2>2. WorkerOK'
    <3>1. \/ worker' = At("accept")
          \/ \E then \in {"accept", "ended"}, sends \in Seq(Sendable) :
                worker' = Sending("report", sends, then)
      <4>1. \A reason \in {"unpublished", "disconnect", "error"} :
               PublishEnd(reason) \in Seq(Sendable)
        BY <1>0, SendsType DEF Lifecycle!Reasons
      <4>2. \A kind \in {"warning", "error", "eos"}, reason \in {"unpublished", "disconnect", "error"} :
               PublishEnd(reason) \o <<Output(kind)>> \in Seq(Sendable)
        BY <1>0, <4>1, SendsType
      <4>3. PublishEnd("disconnect") \o <<Output("warning"), Output("eos")>> \in Seq(Sendable)
        BY <1>0, <4>1, SendsType
      <4> HIDE DEF Sendable
      <4> QED BY <1>5, <4>1, <4>2, <4>3 DEF Result, Goes, OnClean, OnOpen, OnLost, OnError, Report
    <3>2. {"accept", "ended", "report"} \subseteq Places
      BY DEF Places
    <3> HIDE DEF Places
    <3> QED BY <1>0, <3>1, <3>2, SendingType DEF WorkerOK
  <2> QED BY <1>1, <2>1, <2>2, TypeParts
<1> QED BY <1>2, <1>3, <1>4, <1>5 DEF Worker

LEMMA PublisherType ==
    ASSUME TypeInv, Publisher \/ PeerCloses \/ PeerResets
    PROVE  TypeInv'
<1>0. FlagsOK /\ TaskOK /\ QueueOK /\ WorkerOK /\ SessionOK /\ SeenType
  BY TypeParts
<1>1. TaskOK' /\ SeenType' /\ QueueOK'
  BY <1>0 DEF Publisher, Accept, AcceptFails, HandshakeDone, HandshakeFails, Read, ReadTimesOut,
     PublishAccepted, PublishRejected, Media, DeleteStream, BadMessage, FlushFails, PeerCloses,
     PeerResets, WorkerOnly, WorkerKeeps, TaskOK, SeenType, QueueOK
<1>2. FlagsOK'
  <2>1. /\ UNCHANGED <<element, settings, flushing, newStream, cancel, graceful, starts>>
        /\ connections' = connections \/ connections' = connections + 1
    BY DEF Publisher, Accept, AcceptFails, HandshakeDone, HandshakeFails, Read, ReadTimesOut,
     PublishAccepted, PublishRejected, Media, DeleteStream, BadMessage, FlushFails, PeerCloses,
     PeerResets, Ends, WorkerOnly, WorkerKeeps, app, flags, tokens, peer
  <2>2. conn' \in {conn, "none", "open", "closed", "reset"}
    BY DEF Publisher, Accept, AcceptFails, HandshakeDone, HandshakeFails, Read, ReadTimesOut,
     PublishAccepted, PublishRejected, Media, DeleteStream, BadMessage, FlushFails, PeerCloses,
     PeerResets, Ends, peer
  <2> QED BY <1>0, <2>1, <2>2 DEF FlagsOK
<1>3. CASE PeerCloses \/ PeerResets
  <2>1. WorkerOK' /\ SessionOK'
    BY <1>0, <1>3 DEF PeerCloses, PeerResets, WorkerOK, SessionOK
  <2> QED BY <1>1, <1>2, <2>1, TypeParts
<1>4. CASE Accept \/ HandshakeDone \/ HandshakeFails \/ Read \/ ReadTimesOut \/ DeleteStream
           \/ BadMessage \/ FlushFails
  <2>1. WorkerOK'
    <3>1. \E place \in Places : worker' = At(place) \/ worker' = worker
      BY <1>4 DEF Accept, HandshakeDone, HandshakeFails, Read, ReadTimesOut, DeleteStream,
         BadMessage, FlushFails, Ends, Goes, Places
    <3> QED BY <1>0, <3>1, SendingType DEF WorkerOK
  <2>2. nextId' = nextId
    BY <1>4 DEF Accept, HandshakeDone, HandshakeFails, Read, ReadTimesOut, DeleteStream,
       BadMessage, FlushFails, WorkerOnly
  <2>3. \/ session' \in {session, NewSession, [session EXCEPT !.publishing = FALSE]}
        \/ \E result \in {"clean", "open", "lost", "error"} :
              session' = [session EXCEPT !.result = result]
    BY <1>4 DEF Accept, HandshakeDone, HandshakeFails, Read, ReadTimesOut, DeleteStream,
       BadMessage, FlushFails, Ends
  <2>4. SessionOK'
    BY <1>0, <2>2, <2>3, SessionUpdates DEF SessionOK
  <2> QED BY <1>1, <1>2, <2>1, <2>4, TypeParts
<1>5. CASE AcceptFails
  <2>1. WorkerOK'
    <3>1. {"report", "ended"} \subseteq Places /\ <<Output("error")>> \in Seq(Sendable)
      BY <1>0, SendsType DEF Places
    <3>2. worker' = Sending("report", <<Output("error")>>, "ended")
      BY <1>5 DEF AcceptFails
    <3> HIDE DEF Places, Sendable
    <3> QED BY <1>0, <3>1, <3>2, SendingType DEF WorkerOK
  <2>2. SessionOK'
    BY <1>0, <1>5 DEF AcceptFails, WorkerOnly, SessionOK
  <2> QED BY <1>1, <1>2, <2>1, <2>2, TypeParts
<1>6. CASE PublishAccepted
  <2>1. WorkerOK'
    <3>1. "process" \in Places /\ <<PublishStarted(nextId)>> \o Header(nextId) \in Seq(Sendable)
      <4>1. nextId \in Nat
        BY <1>0 DEF SessionOK
      <4> QED BY <1>0, <4>1, SendsType DEF Places
    <3>2. worker' = Sending("process", <<PublishStarted(nextId)>> \o Header(nextId), "none")
      BY <1>6 DEF PublishAccepted
    <3> HIDE DEF Places, Sendable
    <3> QED BY <1>0, <3>1, <3>2, SendingType DEF WorkerOK
  <2>2. SessionOK'
    BY <1>0, <1>6, SessionUpdates DEF PublishAccepted, SessionOK
  <2> QED BY <1>1, <1>2, <2>1, <2>2, TypeParts
<1>7. CASE PublishRejected
  <2>1. WorkerOK'
    <3>1. {"process", "result"} \subseteq Places
          /\ <<Output("error"), Output("cancel")>> \in Seq(Sendable)
      BY <1>0, SendsType DEF Places
    <3>2. \/ worker' = At("result")
          \/ worker' = Sending("process", <<Output("error"), Output("cancel")>>, "none")
      BY <1>7 DEF PublishRejected, Goes
    <3> HIDE DEF Places, Sendable
    <3>3. CASE worker' = At("result")
      BY <1>0, <3>1, <3>3, SendingType DEF WorkerOK
    <3>4. CASE worker' = Sending("process", <<Output("error"), Output("cancel")>>, "none")
      BY <1>0, <3>1, <3>4, SendingType DEF WorkerOK
    <3> QED BY <3>2, <3>3, <3>4
  <2>2. SessionOK'
    <3>1. nextId' = nextId
          /\ session' \in {[session EXCEPT !.rejected = TRUE, !.result = "error"],
                           [session EXCEPT !.publishing = TRUE]}
      BY <1>7 DEF PublishRejected, WorkerOnly
    <3> QED BY <1>0, <3>1, SessionUpdates DEF SessionOK
  <2> QED BY <1>1, <1>2, <2>1, <2>2, TypeParts
<1>8. CASE Media
  <2>1. WorkerOK'
    <3>1. "process" \in Places /\ session.current \in Nat
          /\ Header(session.current) \o <<Data("tag", session.current)>> \in Seq(Sendable)
      <4>1. session.current \in Nat
        BY <1>0 DEF SessionOK, Sessions
      <4> QED BY <1>0, <4>1, SendsType DEF Places
    <3>2. worker' = Sending("process", Header(session.current) \o <<Data("tag", session.current)>>,
                            "none")
      BY <1>8 DEF Media
    <3> HIDE DEF Places, Sendable
    <3> QED BY <1>0, <3>1, <3>2, SendingType DEF WorkerOK
  <2>2. SessionOK'
    BY <1>0, <1>8, SessionUpdates DEF Media, WorkerOnly, SessionOK
  <2> QED BY <1>1, <1>2, <2>1, <2>2, TypeParts
<1> QED BY <1>3, <1>4, <1>5, <1>6, <1>7, <1>8 DEF Publisher

LEMMA TypeInit == Init => TypeInv
<1> SUFFICES ASSUME Init PROVE TypeInv
  OBVIOUS
<1>1. FlagsOK /\ TaskOK /\ SeenType
  BY DEF Init, FlagsOK, TaskOK, SeenType, NewTask, Unseen
<1>2. WorkerOK /\ QueueOK
  <2>1. <<>> \in Seq(Sendable) /\ <<>> \in Seq(Outputs)
    OBVIOUS
  <2> QED BY <2>1 DEF Init, WorkerOK, QueueOK, QueueCapacity, At, Places
<1>3. SessionOK
  BY DEF Init, SessionOK, Sessions, NewSession
<1> QED BY <1>1, <1>2, <1>3
    DEF TypeInv, TypeOK, FlagsOK, TaskOK, QueueOK, WorkerOK, SessionOK, Sessions, Sendable

LEMMA TypeStep == TypeInv /\ [Next]_vars => TypeInv'
<1> SUFFICES ASSUME TypeInv, [Next]_vars PROVE TypeInv'
  OBVIOUS
<1>1. CASE UNCHANGED vars
  <2>1. FlagsOK /\ TaskOK /\ QueueOK /\ WorkerOK /\ SessionOK /\ SeenType
    BY TypeParts
  <2>2. FlagsOK' /\ TaskOK' /\ QueueOK' /\ WorkerOK' /\ SessionOK' /\ SeenType'
    BY <1>1, <2>1 DEF vars, app, flags, tokens, peer, FlagsOK, TaskOK, QueueOK, WorkerOK,
       SessionOK, SeenType
  <2> QED BY <2>2, TypeParts
<1> QED BY <1>1, ApplicationType, CreateType, WorkerType, PublisherType DEF Next

\* Whatever the publisher, the application and the network do, every variable
\* keeps its type: the channel never holds more than OUTPUT_QUEUE_CAPACITY, and
\* a session publishes an id that PublishIds has handed out.
THEOREM TypeCorrect == Spec => []TypeOK
<1>1. TypeInv => TypeOK
  BY DEF TypeInv
<1> QED BY <1>1, TypeInit, TypeStep, PTL DEF Spec
-----------------------------------------------------------------------------
\* The lifecycle of a publisher.

\* What each output makes of the point the outputs before it lead to.
LEMMA AfterSilent ==
    \A point : /\ After(point, Output("warning")) = point
               /\ After(point, Output("wake")) = point
               /\ After(point, Output("cancel")) = point
  BY DEF After, Output

LEMMA AfterFixed == \A item : After(Over, item) = Over /\ After(Broken, item) = Broken
  BY DEF After, Point, Over, Broken

LEMMA AfterOutput ==
    /\ \A was, id :
          id > was /\ id \in Ids => After(Point("idle", was), PublishStarted(id)) = Point("announced", id)
    /\ \A id : After(Point("announced", id), Data("header", id)) = Point("live", id)
    /\ \A id : After(Point("live", id), Data("tag", id)) = Point("live", id)
    /\ \A id, reason : After(Point("live", id), PublishEnded(id, reason)) = Point("idle", id)
    /\ \A id : /\ After(Point("idle", id), Output("eos")) = Over
                /\ After(Point("idle", id), Output("error")) = Over
  BY DEF After, Point, Over, Broken, Output, Data, PublishStarted, PublishEnded

\* After folded over the at most three outputs of a handler.
LEMMA AfterNone == \A point : AfterAll(point, <<>>) = point
  BY DEF AfterAll
LEMMA AfterOne == \A point, a : AfterAll(point, <<a>>) = After(point, a)
  BY DEF AfterAll
LEMMA AfterTwo == \A point, a, b : AfterAll(point, <<a, b>>) = After(After(point, a), b)
  BY DEF AfterAll
LEMMA AfterThree ==
    \A point, a, b, c : AfterAll(point, <<a, b, c>>) = After(After(After(point, a), b), c)
  BY DEF AfterAll

LEMMA TwoOutputs ==
    ASSUME NEW a, NEW b
    PROVE  <<a>> \o <<b>> = <<a, b>>
<1> DEFINE S == {a, b}
<1>1. <<a>> \in Seq(S) /\ <<b>> \in Seq(S) /\ <<a, b>> \in Seq(S)
  OBVIOUS
<1>2. /\ <<a>> \o <<b>> \in Seq(S)
      /\ Len(<<a>> \o <<b>>) = 2
      /\ (<<a>> \o <<b>>)[1] = a /\ (<<a>> \o <<b>>)[2] = b
  OBVIOUS
<1>3. Len(<<a, b>>) = 2 /\ <<a, b>>[1] = a /\ <<a, b>>[2] = b
  OBVIOUS
<1>4. \A i \in 1 .. Len(<<a>> \o <<b>>) : (<<a>> \o <<b>>)[i] = <<a, b>>[i]
  <2>1. \A i \in 1 .. 2 : i = 1 \/ i = 2
    OBVIOUS
  <2> QED BY <1>2, <1>3, <2>1
<1>5. Len(<<a>> \o <<b>>) = Len(<<a, b>>)
  BY <1>2, <1>3
<1> HIDE DEF S
<1> QED BY <1>1, <1>2, <1>4, <1>5, SeqEqual

LEMMA ThreeOutputs ==
    ASSUME NEW a, NEW b, NEW c
    PROVE  <<a>> \o <<b, c>> = <<a, b, c>>
<1> DEFINE S == {a, b, c}
           joined == <<a>> \o <<b, c>>
<1>1. <<a>> \in Seq(S) /\ <<b, c>> \in Seq(S) /\ <<a, b, c>> \in Seq(S)
  OBVIOUS
<1>2. joined \in Seq(S) /\ Len(joined) = 3
  OBVIOUS
<1>3. joined[1] = a /\ joined[2] = b /\ joined[3] = c
  OBVIOUS
<1>4. Len(<<a, b, c>>) = 3 /\ <<a, b, c>>[1] = a /\ <<a, b, c>>[2] = b /\ <<a, b, c>>[3] = c
  OBVIOUS
<1> HIDE DEF S, joined
<1>5. \A i \in 1 .. Len(joined) : joined[i] = <<a, b, c>>[i]
  <2>1. \A i \in 1 .. 3 : i = 1 \/ i = 2 \/ i = 3
    OBVIOUS
  <2> QED BY <1>2, <1>3, <1>4, <2>1
<1>6. joined = <<a, b, c>>
  BY <1>1, <1>2, <1>4, <1>5, SeqEqual
<1> QED BY <1>6 DEF joined

LEMMA AfterAllFirst ==
    ASSUME NEW point, NEW sends \in Seq(Sendable), sends # <<>>, Len(sends) <= 3
    PROVE  AfterAll(point, sends) = AfterAll(After(point, Head(sends)), Tail(sends))
<1> HIDE DEF After, Sendable
<1>1. Len(sends) = 1 \/ Len(sends) = 2 \/ Len(sends) = 3
  <2>1. Len(sends) \in Nat /\ Len(sends) # 0
    OBVIOUS
  <2>2. \A n \in Nat : n <= 3 /\ n # 0 => n = 1 \/ n = 2 \/ n = 3
    OBVIOUS
  <2> QED BY <2>1, <2>2
<1>2. Head(sends) = sends[1] /\ Len(Tail(sends)) = Len(sends) - 1
  OBVIOUS
<1>3. /\ Len(sends) \in {2, 3} => Tail(sends)[1] = sends[2]
      /\ Len(sends) = 3 => Tail(sends)[2] = sends[3]
  OBVIOUS
<1> DEFINE tail == Tail(sends)
<1>4. CASE Len(sends) = 1
  <2>1. AfterAll(point, sends) = After(point, sends[1])
    BY <1>4 DEF AfterAll
  <2>2. Len(tail) = 0
    BY <1>2, <1>4
  <2>3. AfterAll(After(point, sends[1]), tail) = After(point, sends[1])
    <3> HIDE DEF tail
    <3> QED BY <2>2 DEF AfterAll
  <2> QED BY <1>2, <2>1, <2>3
<1>5. CASE Len(sends) = 2
  <2>1. AfterAll(point, sends) = After(After(point, sends[1]), sends[2])
    BY <1>5 DEF AfterAll
  <2>2. tail[1] = sends[2] /\ Len(tail) = 1
    <3>1. Len(tail) = 1
      BY <1>2, <1>5
    <3>2. tail[1] = sends[2]
      BY <1>3, <1>5
    <3> QED BY <3>1, <3>2
  <2>3. AfterAll(After(point, sends[1]), tail) = After(After(point, sends[1]), sends[2])
    <3> HIDE DEF tail
    <3> QED BY <2>2 DEF AfterAll
  <2> QED BY <1>2, <2>1, <2>3
<1>6. CASE Len(sends) = 3
  <2>1. AfterAll(point, sends) = After(After(After(point, sends[1]), sends[2]), sends[3])
    BY <1>6 DEF AfterAll
  <2>2. tail[1] = sends[2] /\ tail[2] = sends[3] /\ Len(tail) = 2
    BY <1>2, <1>3, <1>6
  <2>3. AfterAll(After(point, sends[1]), tail) = After(After(After(point, sends[1]), sends[2]), sends[3])
    <3> HIDE DEF tail
    <3> QED BY <2>2 DEF AfterAll
  <2> QED BY <1>2, <2>1, <2>3
<1> QED BY <1>1, <1>4, <1>5, <1>6

\* What is over, or broken, remains so.
LEMMA AfterAllFixed ==
    ASSUME NEW sends
    PROVE  AfterAll(Over, sends) = Over /\ AfterAll(Broken, sends) = Broken
<1> HIDE DEF After, Over, Broken
<1> QED BY AfterFixed DEF AfterAll
\* What an action that touches neither the channel nor the task leaves as it is.
LEMMA PointsKept ==
    ASSUME UNCHANGED <<task, newStream, seen, queue>>
    PROVE  /\ QueuePoint' = QueuePoint
           /\ LastPoint' = AfterAll(QueuePoint, worker'.sends)
           /\ TaskAgrees => TaskAgrees'
<1>1. TaskPoint' = TaskPoint
  BY DEF TaskPoint
<1>2. QueuePoint' = QueuePoint
  BY <1>1 DEF QueuePoint
<1>3. TaskAgrees => TaskAgrees'
  BY DEF TaskAgrees
<1> QED BY <1>2, <1>3 DEF LastPoint

\* An output out of place would never be made up for.
LEMMA NotBroken == Flow => QueuePoint # Broken
<1> SUFFICES ASSUME Flow, QueuePoint = Broken PROVE FALSE
  OBVIOUS
<1>1. LastPoint = Broken
  BY AfterAllFixed DEF LastPoint
<1>2. Broken.at = "broken" /\ Over.at = "over" /\ \A id : Point("live", id).at = "live" /\ Point("idle", id).at = "idle"
  BY DEF Broken, Over, Point
<1>3. LastPoint # Over /\ \A id : LastPoint # Point("live", id)
  BY <1>1, <1>2
<1> QED BY <1>1, <1>2, <1>3 DEF Flow, WorkerAgrees, WorkerExpects

\* Once the channel holds the end, it does not matter what the worker does.
LEMMA OverFlow ==
    ASSUME Flow, QueuePoint = Over, UNCHANGED <<task, newStream, seen, queue>>
    PROVE  Flow'
<1>1. QueuePoint' = Over /\ LastPoint' = Over /\ TaskAgrees'
  BY PointsKept, AfterAllFixed DEF Flow
<1> QED BY <1>1 DEF Flow, CancelSaid, WorkerAgrees

\* Where the worker stands with nothing to send.
LEMMA IdleWorker ==
    ASSUME Flow, worker.sends = <<>>, QueuePoint # Over
    PROVE  LastPoint = QueuePoint /\ ~cancel /\ TaskAgrees /\ WorkerExpects /\ SessionAgrees
  BY AfterNone, AfterOne, AfterTwo DEF Flow, CancelSaid, WorkerAgrees, LastPoint

\* The worker goes from one place of a session to another.
LEMMA PlaceFlow ==
    ASSUME Flow, worker.sends = <<>>, worker'.sends = <<>>,
           UNCHANGED <<task, newStream, seen, queue, cancel, nextId>>,
           InSession, InSession', worker.at # "result",
           session'.current = session.current, session'.header = session.header,
           session'.publishing => session.publishing,
           session'.rejected => session.rejected \/ (worker'.at = "result" /\ session.current = 0)
    PROVE  Flow'
<1>1. CASE QueuePoint = Over
  BY <1>1, OverFlow
<1>2. CASE QueuePoint # Over
  <2>1. LastPoint = QueuePoint /\ ~cancel /\ TaskAgrees /\ WorkerExpects /\ SessionAgrees
    BY <1>2, IdleWorker
  <2>2. TaskAgrees' /\ LastPoint' = LastPoint
    BY <2>1, PointsKept, AfterNone, AfterOne, AfterTwo
  <2>3. WorkerExpects'
    BY <2>1, <2>2 DEF WorkerExpects, InSession
  <2>4. SessionAgrees'
    BY <2>1 DEF SessionAgrees, InSession
  <2>5. CancelSaid'
    <3>1. DOMAIN worker'.sends = {} /\ ~cancel'
      BY <2>1
    <3> QED BY <3>1, Zenon DEF CancelSaid
  <2> QED BY <2>2, <2>3, <2>4, <2>5 DEF Flow, WorkerAgrees
<1> QED BY <1>1, <1>2
\* What a channel with one output in it, or none, adds to the task's point.
LEMMA QueueNext ==
    /\ queue = <<>> => QueuePoint = TaskPoint
    /\ \A item : queue = <<item>> => QueuePoint = After(TaskPoint, item)
    /\ queue' = <<>> => QueuePoint' = TaskPoint'
    /\ \A item : queue' = <<item>> => QueuePoint' = After(TaskPoint', item)
    /\ queue' = queue /\ TaskPoint' = TaskPoint => QueuePoint' = QueuePoint
<1> HIDE DEF After, TaskPoint
<1> QED BY DEF QueuePoint

\* The channel holds one output or none.
LEMMA QueueShape ==
    ASSUME QueueOK
    PROVE  queue = <<>> \/ (Len(queue) = 1 /\ queue = <<Head(queue)>> /\ Tail(queue) = <<>>)
<1> HIDE DEF Outputs
<1>1. queue \in Seq(Outputs) /\ Len(queue) <= 1
  BY DEF QueueOK, QueueCapacity
<1>2. queue # <<>> => Len(queue) = 1
  <2>1. queue # <<>> => Len(queue) \in Nat /\ Len(queue) # 0
    BY <1>1
  <2>2. \A n \in Nat : n <= 1 /\ n # 0 => n = 1
    OBVIOUS
  <2> QED BY <1>1, <2>1, <2>2
<1>3. Len(queue) = 1 => queue = <<Head(queue)>>
  BY <1>1
<1>4. Len(queue) = 1 => Tail(queue) = <<>>
  <2> SUFFICES ASSUME Len(queue) = 1 PROVE Tail(queue) = <<>>
    OBVIOUS
  <2>1. queue # <<>>
    OBVIOUS
  <2>2. Tail(queue) \in Seq(Outputs) /\ Len(Tail(queue)) = 0
    BY <1>1, <2>1
  <2> QED BY <2>2, EmptySeq
<1> QED BY <1>2, <1>3, <1>4

LEMMA WakeMakes ==
    ASSUME QueueOK, Wake
    PROVE  queue' = queue \/ (queue = <<>> /\ queue' = <<Output("wake")>>)
<1> HIDE DEF Output
<1>1. CASE queue = <<>>
  BY <1>1 DEF Wake, QueueCapacity
<1>2. CASE Len(queue) = 1
  BY <1>2 DEF Wake, QueueCapacity
<1> QED BY <1>1, <1>2, QueueShape

LEMMA ApplicationFlow ==
    ASSUME TypeInv, PipelineInv, Features \cap {"resume", "republish"} = {},
           Application \/ Stopping, Active'
    PROVE  Flow'
<1>1. ASSUME NEW keep \in BOOLEAN, NEW wait \in BOOLEAN, Start(keep, wait) PROVE Flow'
  <2>1. TaskAgrees'
    BY <1>1 DEF Start, TaskAgrees, NewTask, Unseen, Lifecycle!Nothing
  <2>2. TaskPoint' = Point("idle", 0)
    BY <1>1 DEF Start, TaskPoint, NewTask, Unseen
  <2>3. LastPoint' = Point("idle", 0)
    BY <1>1, <2>2, AfterNone, AfterOne, AfterTwo DEF Start, At, QueuePoint, LastPoint
  <2>4. CancelSaid'
    <3>1. DOMAIN worker'.sends = {} /\ ~cancel'
      BY <1>1 DEF Start, At
    <3> QED BY <3>1, Zenon DEF CancelSaid
  <2>5. WorkerExpects' /\ SessionAgrees'
    BY <1>1, <2>3 DEF Start, At, WorkerExpects, SessionAgrees, InSession, Point
  <2> QED BY <2>1, <2>4, <2>5 DEF Flow, WorkerAgrees
<1>2. ASSUME Play \/ Pause \/ Deactivate PROVE Flow'
  <2>1. Active /\ Flow
    BY <1>2 DEF Play, Pause, Deactivate, Active, ReceiverGone, PipelineInv
  <2>2. task'.started = task.started /\ (task' = task \/ task.started = 0)
    <3>1. CASE Play
      <4>1. task.at = "new"
        BY <3>1 DEF Play
      <4>2. task.started = 0
        BY <2>1, <4>1 DEF Flow, TaskAgrees
      <4> QED BY <3>1, <4>2 DEF Play, NewTask
    <3>2. CASE Pause \/ Deactivate
      BY <3>2 DEF Pause, Deactivate
    <3> QED BY <1>2, <3>1, <3>2
  <2>3. UNCHANGED <<newStream, seen, worker, session, nextId, cancel>>
    BY <1>2 DEF Play, Pause, Deactivate, tokens
  <2>4. TaskAgrees' /\ TaskPoint' = TaskPoint
    BY <2>1, <2>2, <2>3 DEF Flow, TaskAgrees, TaskPoint
  <2>5. queue' = queue \/ (queue = <<>> /\ queue' = <<Output("wake")>>)
    <3>1. QueueOK
      BY TypeParts
    <3>2. CASE Pause \/ Deactivate
      BY <3>1, <3>2, WakeMakes DEF Pause, Deactivate
    <3>3. CASE Play
      BY <3>3 DEF Play
    <3> QED BY <1>2, <3>2, <3>3
  <2>6. QueuePoint' = QueuePoint
    <3>1. After(TaskPoint, Output("wake")) = TaskPoint
      BY AfterSilent
    <3> HIDE DEF After, Output, TaskPoint, QueuePoint
    <3> QED BY <2>4, <2>5, <3>1, QueueNext
  <2>7. LastPoint' = LastPoint
    BY <2>3, <2>6 DEF LastPoint
  <2>8. CancelSaid' /\ WorkerAgrees'
    BY <2>1, <2>3, <2>6, <2>7
       DEF Flow, CancelSaid, WorkerAgrees, WorkerExpects, SessionAgrees, InSession
  <2> QED BY <2>4, <2>8 DEF Flow
<1>3. ASSUME Stopping PROVE FALSE
  BY <1>3 DEF Stopping, StopTakes, StopCancels, StopJoins, Active, ReceiverGone
<1> QED BY <1>1, <1>2, <1>3 DEF Application
\* What the head of the channel is, if it is in its place.
LEMMA TakenInPlace ==
    ASSUME QueueOK, queue # <<>>, QueuePoint # Broken, TaskAgrees,
           NEW item, item = Head(queue)
    PROVE  /\ item.kind = "started" =>
                 /\ item.of > seen.last /\ item.of \in Ids /\ task.started = 0 /\ seen.live = 0
                 /\ QueuePoint = Point("announced", item.of)
           /\ item.kind = "data" /\ task.started # 0 =>
                 /\ item.data = "header" /\ item.of = task.started
                 /\ QueuePoint = Point("live", task.started)
           /\ item.kind = "data" /\ task.started = 0 =>
                 /\ item.data = "tag" /\ seen.live # 0 /\ item.of = seen.live
                 /\ QueuePoint = Point("live", seen.live)
           /\ item.kind = "ended" =>
                 /\ task.started = 0 /\ seen.live # 0 /\ item.of = seen.live
                 /\ item.reason \in Lifecycle!Reasons
                 /\ QueuePoint = Point("idle", seen.live)
           /\ item.kind \in {"warning", "wake"} => QueuePoint = TaskPoint
           /\ item.kind \in {"eos", "error"} => task.started = 0 /\ seen.live = 0
<1>1. queue = <<item>> /\ item \in Outputs
  BY QueueShape DEF QueueOK
<1>2. QueuePoint = After(TaskPoint, item)
  BY <1>1, QueueNext
<1>3. Point("announced", task.started).at = "announced" /\ Point("announced", task.started).id = task.started
  BY DEF Point
<1>4. /\ TaskPoint.at \notin {"over", "broken"}
      /\ TaskPoint.at = "idle" => task.started = 0 /\ seen.live = 0 /\ TaskPoint.id = seen.last
      /\ TaskPoint.at = "announced" => task.started # 0 /\ TaskPoint.id = task.started
      /\ TaskPoint.at = "live" =>
            task.started = 0 /\ seen.live # 0 /\ TaskPoint.id = seen.live /\ TaskPoint = Point("live", seen.live)
  BY DEF TaskPoint, Point
<1>5. item.kind = "ended" => item.reason \in Lifecycle!Reasons
  BY <1>1 DEF Outputs
<1> HIDE DEF TaskPoint, Outputs
<1>6. CASE item.kind = "started"
  <2>1. TaskPoint.at = "idle" /\ item.of > TaskPoint.id /\ item.of \in Ids
        /\ QueuePoint = Point("announced", item.of)
    BY <1>2, <1>4, <1>6 DEF After
  <2> QED BY <1>4, <1>6, <2>1
<1>7. CASE item.kind = "data"
  <2>1. \/ /\ TaskPoint.at = "announced" /\ item.data = "header" /\ item.of = TaskPoint.id
           /\ QueuePoint = Point("live", TaskPoint.id)
        \/ /\ TaskPoint.at = "live" /\ item.data = "tag" /\ item.of = TaskPoint.id
           /\ QueuePoint = TaskPoint
    BY <1>2, <1>4, <1>7 DEF After
  <2> QED BY <1>4, <1>7, <2>1
<1>8. CASE item.kind = "ended"
  <2>1. TaskPoint.at = "live" /\ item.of = TaskPoint.id /\ QueuePoint = Point("idle", TaskPoint.id)
    BY <1>2, <1>4, <1>8 DEF After
  <2> QED BY <1>4, <1>5, <1>8, <2>1
<1>9. CASE item.kind \in {"warning", "wake"}
  BY <1>2, <1>9 DEF After
<1>10. CASE item.kind \in {"eos", "error"}
  <2>1. TaskPoint.at = "idle"
    BY <1>2, <1>4, <1>10 DEF After
  <2> QED BY <1>4, <1>10, <2>1
<1>11. item.kind \in {"started", "data", "ended", "warning", "wake", "eos", "error"}
  BY <1>1 DEF Outputs
<1> QED BY <1>6, <1>7, <1>8, <1>9, <1>10, <1>11

LEMMA CreateFlow ==
    ASSUME TypeInv, PipelineInv, Create
    PROVE  Active /\ (Active' => Flow')
<1>0. QueueOK /\ TaskOK /\ SeenType /\ SessionOK
  BY TypeParts
<1>1. UNCHANGED <<element, cancel, nextId, worker, session>>
  BY DEF Create, CreateEnters, TaskPauses, CreateChecks, PollTimesOut, TakeStarted, TakeData,
     TakeEnded, TakeOther, TakeFinish, TaskKeeps, app, tokens
<1>2. Active
  BY DEF PipelineInv, StopWaits, Create, CreateEnters, TaskPauses, CreateChecks, PollTimesOut,
     TakeStarted, TakeData, TakeEnded, TakeOther, TakeFinish, Receives, Active
<1>3. Flow /\ TaskAgrees /\ QueuePoint # Broken
  BY <1>2, NotBroken DEF PipelineInv, Flow
<1>4. ASSUME QueuePoint' = QueuePoint, TaskAgrees' PROVE Flow'
  <2>1. LastPoint' = LastPoint
    BY <1>1, <1>4 DEF LastPoint
  <2> QED BY <1>1, <1>3, <1>4, <2>1
         DEF Flow, CancelSaid, WorkerAgrees, WorkerExpects, SessionAgrees, InSession
<1>5. ASSUME CreateEnters \/ TaskPauses \/ CreateChecks \/ PollTimesOut, Active' PROVE Flow'
  <2>1. task'.started = task.started /\ task'.at \in {"check", "receive"}
    BY <1>0, <1>3, <1>5 DEF CreateEnters, TaskPauses, CreateChecks, PollTimesOut, NewTask,
       TaskAgrees, TaskOK, Active
  <2>2. UNCHANGED <<newStream, queue, seen>>
    BY <1>5 DEF CreateEnters, TaskPauses, CreateChecks, PollTimesOut
  <2>3. TaskAgrees' /\ TaskPoint' = TaskPoint
    BY <1>3, <2>1, <2>2 DEF TaskAgrees, TaskPoint
  <2> QED BY <1>4, <2>2, <2>3, QueueNext
<1>6. ASSUME TakeStarted PROVE Flow'
  <2>1. queue # <<>> /\ queue' = Tail(queue) /\ Head(queue).kind = "started"
        /\ task' = [at |-> "check", started |-> Head(queue).of] /\ UNCHANGED <<newStream, seen>>
    BY <1>6 DEF TakeStarted, Receives
  <2>2. /\ Head(queue).of > seen.last /\ Head(queue).of \in Ids /\ seen.live = 0
        /\ QueuePoint = Point("announced", Head(queue).of)
    BY <1>0, <1>3, <2>1, TakenInPlace
  <2>3. TaskAgrees'
    BY <1>3, <2>1, <2>2 DEF TaskAgrees
  <2>4. TaskPoint' = Point("announced", Head(queue).of)
    BY <2>1, <2>2 DEF TaskPoint, Ids
  <2>5. queue' = <<>>
    BY <1>0, <2>1, QueueShape
  <2> QED BY <1>4, <2>2, <2>3, <2>4, <2>5, QueueNext
<1>7. ASSUME TakeData PROVE Flow'
  <2>1. queue # <<>> /\ queue' = Tail(queue) /\ Head(queue).kind = "data"
        /\ task' = NewTask("between") /\ newStream' = FALSE
    BY <1>7 DEF TakeData, Receives, NewStreamPushed
  <2>2. queue' = <<>>
    BY <1>0, <2>1, QueueShape
  <2>3. seen'.live = (IF task.started # 0 THEN task.started ELSE seen.live)
        /\ seen'.last = (IF task.started # 0 THEN task.started ELSE seen.last)
        /\ seen'.out.push = "buffer"
    BY <1>7 DEF TakeData, Lifecycle!Buffer
  <2>4. IF task.started # 0 THEN QueuePoint = Point("live", task.started)
        ELSE seen.live # 0 /\ QueuePoint = Point("live", seen.live)
    BY <1>0, <1>3, <2>1, TakenInPlace
  <2>5. seen'.live # 0 /\ seen'.last = seen'.live /\ QueuePoint = Point("live", seen'.live)
    BY <1>3, <2>3, <2>4 DEF TaskAgrees
  <2>6. TaskAgrees'
    BY <2>1, <2>3, <2>5 DEF TaskAgrees, NewTask
  <2>7. TaskPoint' = QueuePoint
    BY <2>1, <2>5 DEF TaskPoint, NewTask
  <2> QED BY <1>4, <2>2, <2>6, <2>7, QueueNext
<1>8. ASSUME TakeEnded PROVE Flow'
  <2>1. queue # <<>> /\ queue' = Tail(queue) /\ Head(queue).kind = "ended"
        /\ task' = [task EXCEPT !.at = "check"] /\ newStream' = TRUE
    BY <1>8 DEF TakeEnded, Receives
  <2>2. queue' = <<>>
    BY <1>0, <2>1, QueueShape
  <2>3. task.started = 0 /\ seen.live # 0 /\ QueuePoint = Point("idle", seen.live)
    BY <1>0, <1>3, <2>1, TakenInPlace
  <2>4. seen'.live = 0 /\ seen'.last = seen.last /\ seen'.out.push = "end"
    BY <1>0, <1>8 DEF TakeEnded, SeenType, Lifecycle!PublishEnd
  <2>5. task'.started = 0
    BY <1>0, <2>1, <2>3 DEF TaskOK
  <2>6. TaskAgrees'
    BY <1>3, <2>1, <2>3, <2>4, <2>5 DEF TaskAgrees
  <2>7. TaskPoint' = QueuePoint
    BY <1>3, <2>3, <2>4, <2>5 DEF TaskPoint, TaskAgrees
  <2> QED BY <1>4, <2>2, <2>6, <2>7, QueueNext
<1>9. ASSUME TakeOther PROVE Flow'
  <2>1. queue # <<>> /\ queue' = Tail(queue) /\ Head(queue).kind \in {"warning", "wake"}
        /\ task' = [task EXCEPT !.at = "check"] /\ UNCHANGED <<newStream, seen>>
    BY <1>9 DEF TakeOther, Receives
  <2>2. queue' = <<>>
    BY <1>0, <2>1, QueueShape
  <2>3. task'.started = task.started /\ task'.at = "check"
    BY <1>0, <2>1 DEF TaskOK
  <2>4. TaskAgrees' /\ TaskPoint' = TaskPoint
    BY <1>3, <2>1, <2>3 DEF TaskAgrees, TaskPoint
  <2>5. QueuePoint = TaskPoint
    BY <1>0, <1>3, <2>1, TakenInPlace
  <2> QED BY <1>4, <2>2, <2>4, <2>5, QueueNext
<1>10. ASSUME TakeFinish PROVE ~Active'
  BY <1>10 DEF TakeFinish, NewTask, Active
<1> QED BY <1>2, <1>5, <1>6, <1>7, <1>8, <1>9, <1>10 DEF Create
\* The worker sends, or fails to.
LEMMA SendFlow ==
    ASSUME TypeInv, PipelineInv, Active, Send \/ SendFails \/ HandlerCancels
    PROVE  Flow'
<1>0. QueueOK /\ WorkerOK /\ SendsWhere /\ Flow
  BY TypeParts DEF PipelineInv
<1>1. UNCHANGED <<task, newStream, seen, nextId, session>> /\ worker.sends # <<>>
      /\ worker.sends \in Seq(Sendable) /\ Len(worker.sends) <= 3
  BY <1>0 DEF Send, SendFails, HandlerCancels, WorkerKeeps, flags, WorkerOK, SendsWhere
<1>2. LastPoint = AfterAll(After(QueuePoint, Head(worker.sends)), Tail(worker.sends))
  BY <1>1, AfterAllFirst DEF LastPoint
<1>3. CASE Send
  <2>1. queue = <<>> /\ queue' = <<Head(worker.sends)>> /\ cancel' = cancel
    <3>1. queue = <<>>
      BY <1>0, <1>3, QueueShape DEF Send, QueueCapacity
    <3> QED BY <1>3, <3>1 DEF Send, tokens
  <2>2. worker'.sends = Tail(worker.sends) /\ worker'.at = worker.at /\ worker'.then = worker.then
    BY <1>0, <1>3 DEF Send, WorkerOK
  <2>3. TaskPoint' = TaskPoint /\ TaskAgrees'
    BY <1>0, <1>1 DEF TaskPoint, Flow, TaskAgrees
  <2>4. QueuePoint = TaskPoint /\ QueuePoint' = After(QueuePoint, Head(worker.sends))
    BY <2>1, <2>3, QueueNext
  <2>5. LastPoint' = LastPoint
    BY <1>2, <2>2, <2>4 DEF LastPoint
  <2>6. WorkerAgrees'
    BY <1>0, <1>1, <2>2, <2>5 DEF Flow, WorkerAgrees, WorkerExpects, SessionAgrees, InSession
  <2>7. cancel' => QueuePoint' = Over
    BY <1>0, <2>1, <2>4, AfterFixed DEF Flow, CancelSaid
  <2>8. (\E i \in DOMAIN worker'.sends : worker'.sends[i].kind = "cancel") => LastPoint' = Over
    <3> SUFFICES ASSUME NEW i \in DOMAIN worker'.sends, worker'.sends[i].kind = "cancel"
                 PROVE  LastPoint' = Over
      OBVIOUS
    <3>1. i + 1 \in DOMAIN worker.sends /\ worker.sends[i + 1] = worker'.sends[i]
      BY <1>1, <2>2, HeadTailProperties
    <3> QED BY <1>0, <2>5, <3>1 DEF Flow, CancelSaid
  <2> QED BY <2>3, <2>6, <2>7, <2>8 DEF Flow, CancelSaid
<1>4. CASE SendFails
  <2>1. cancel /\ queue' = queue
    BY <1>4 DEF SendFails, GivesUp, Active
  <2>2. QueuePoint = Over
    BY <1>0, <2>1 DEF Flow, CancelSaid
  <2> QED BY <1>0, <1>1, <2>1, <2>2, OverFlow
<1>5. CASE HandlerCancels
  <2>1. Head(worker.sends).kind = "cancel" /\ worker.sends[1].kind = "cancel"
        /\ 1 \in DOMAIN worker.sends
    BY <1>1, <1>5 DEF HandlerCancels
  <2>2. Len(worker.sends) = 1
    BY <1>0, <1>1, <2>1 DEF SendsWhere
  <2>3. LastPoint = Over
    BY <1>0, <2>1 DEF Flow, CancelSaid
  <2>4. Head(worker.sends) \in Sendable
    BY <1>1
  <2>5. Head(worker.sends) = Output("cancel")
    BY <2>1, <2>4 DEF Sendable, Outputs, Output
  <2>6. Tail(worker.sends) = <<>>
    <3>1. Tail(worker.sends) \in Seq(Sendable) /\ Len(Tail(worker.sends)) = 0
      BY <1>1, <2>2, HeadTailProperties
    <3> QED BY <3>1, EmptySeq
  <2>7. QueuePoint = Over
    BY <1>2, <2>3, <2>5, <2>6, AfterSilent, AfterNone, AfterOne, AfterTwo
  <2>8. queue' = queue
    BY <1>5 DEF HandlerCancels
  <2> QED BY <1>0, <1>1, <2>7, <2>8, OverFlow
<1> QED BY <1>3, <1>4, <1>5

\* The worker goes on from one session to the next, or ends.
LEMMA ReportedFlow ==
    ASSUME TypeInv, PipelineInv, Active, Reported \/ AcceptCancelled
    PROVE  Flow'
<1>0. WorkerOK /\ SendsWhere /\ Flow
  BY TypeParts DEF PipelineInv
<1>1. UNCHANGED <<task, newStream, seen, queue, cancel, nextId, session>>
  BY DEF Reported, AcceptCancelled, WorkerOnly, WorkerKeeps, flags, tokens
<1>2. CASE QueuePoint = Over
  BY <1>0, <1>1, <1>2, OverFlow
<1>3. CASE QueuePoint # Over
  <2>1. Reported
    BY <1>0, <1>3 DEF AcceptCancelled, Flow, CancelSaid
  <2>2. worker.at = "report" /\ worker.sends = <<>> /\ worker' = At(worker.then)
    BY <2>1 DEF Reported
  <2>3. LastPoint = QueuePoint /\ ~cancel /\ TaskAgrees /\ WorkerExpects /\ SessionAgrees
    BY <1>0, <1>3, <2>2, IdleWorker
  <2>4. worker.then = "accept"
    BY <1>0, <1>3, <2>2, <2>3 DEF SendsWhere, WorkerExpects, InSession
  <2>5. worker'.at = "accept" /\ worker'.sends = <<>>
    BY <2>2, <2>4 DEF At
  <2>6. TaskAgrees' /\ LastPoint' = LastPoint
    BY <1>1, <2>3, <2>5, PointsKept, AfterNone, AfterOne, AfterTwo
  <2>7. WorkerExpects' /\ SessionAgrees'
    BY <1>1, <2>2, <2>3, <2>4, <2>5, <2>6 DEF WorkerExpects, SessionAgrees, InSession
  <2>8. CancelSaid'
    <3>1. DOMAIN worker'.sends = {} /\ ~cancel'
      BY <1>1, <2>3, <2>5
    <3> QED BY <3>1, Zenon DEF CancelSaid
  <2> QED BY <2>6, <2>7, <2>8 DEF Flow, WorkerAgrees
<1> QED BY <1>2, <1>3

LEMMA SessionFields ==
    ASSUME SessionOK
    PROVE  /\ \A result : LET next == [session EXCEPT !.result = result]
                         IN  /\ next.current = session.current /\ next.header = session.header
                             /\ next.publishing = session.publishing
                             /\ next.rejected = session.rejected
           /\ \A to : LET next == [session EXCEPT !.publishing = to]
                     IN  /\ next.current = session.current /\ next.header = session.header
                         /\ next.publishing = to /\ next.rejected = session.rejected
  BY Zenon DEF SessionOK, Sessions

LEMMA SessionOpens ==
    ASSUME SessionOK
    PROVE  /\ LET next == [session EXCEPT !.current = nextId, !.header = TRUE, !.publishing = TRUE]
              IN  /\ next.current = nextId /\ next.header = TRUE
                  /\ next.rejected = session.rejected
           /\ LET next == [session EXCEPT !.rejected = TRUE, !.result = "error"]
              IN  /\ next.current = session.current /\ next.header = session.header
                  /\ next.publishing = session.publishing
           /\ LET next == [session EXCEPT !.header = TRUE, !.tags = @ + 1]
              IN  /\ next.current = session.current /\ next.header = TRUE
                  /\ next.publishing = session.publishing /\ next.rejected = session.rejected
  BY Zenon DEF SessionOK, Sessions

\* What happens between two outputs of a session, and at its end.
SessionMoves ==
    \/ HandshakeReset \/ HandshakeShutdown \/ ReadEnds \/ Processed \/ Flush \/ Shutdown \/ Closes
    \/ HandshakeDone \/ HandshakeFails \/ Read \/ ReadTimesOut \/ DeleteStream \/ BadMessage
    \/ FlushFails

LEMMA SessionFlow ==
    ASSUME TypeInv, PipelineInv, Active, SessionMoves
    PROVE  Flow'
<1>0. WorkerOK /\ SessionOK /\ SendsWhere /\ Flow
  BY TypeParts DEF PipelineInv
<1>1. UNCHANGED <<task, newStream, seen, queue, cancel, nextId>>
  BY DEF SessionMoves, HandshakeReset, HandshakeShutdown, ReadEnds, Processed, Flush, Shutdown,
     Closes, HandshakeDone, HandshakeFails, Read, ReadTimesOut, DeleteStream, BadMessage,
     FlushFails, WorkerOnly, WorkerKeeps, flags, tokens
<1>2. CASE Shutdown
  <2>1. QueuePoint = Over
    BY <1>0, <1>2 DEF Shutdown, Flow, CancelSaid
  <2> QED BY <1>0, <1>1, <2>1, OverFlow
<1>3. CASE ~Shutdown
  <2>1. /\ worker.at \in {"handshake", "drive", "process", "flush", "closing"}
        /\ worker.sends = <<>>
    BY <1>0, <1>3 DEF SendsWhere, SessionMoves, HandshakeReset, HandshakeShutdown, ReadEnds,
       Processed, Flush, Closes, HandshakeDone, HandshakeFails, Read, ReadTimesOut, DeleteStream,
       BadMessage, FlushFails, Handles
  <2>2. worker' = worker \/ \E place \in {"drive", "process", "flush", "result"} : worker' = At(place)
    BY <1>3 DEF SessionMoves, HandshakeReset, HandshakeShutdown, ReadEnds,
       Processed, Flush, Closes, HandshakeDone, HandshakeFails, Read, ReadTimesOut, DeleteStream,
       BadMessage, FlushFails, Ends, Goes
  <2>3. InSession /\ InSession' /\ worker'.sends = <<>>
    BY <2>1, <2>2 DEF InSession, At
  <2>4. \/ session' = session \/ session' = [session EXCEPT !.publishing = FALSE]
        \/ \E result \in {"clean", "open", "lost", "error"} :
              session' = [session EXCEPT !.result = result]
    BY <1>3 DEF SessionMoves, HandshakeReset, HandshakeShutdown, ReadEnds,
       Processed, Flush, Closes, HandshakeDone, HandshakeFails, Read, ReadTimesOut, DeleteStream,
       BadMessage, FlushFails, Ends
  <2> DEFINE Kept ==
        /\ session'.current = session.current /\ session'.header = session.header
        /\ session'.publishing => session.publishing
        /\ session'.rejected = session.rejected
  <2>5. Kept
    <3>1. CASE session' = [session EXCEPT !.publishing = FALSE]
      <4>1. session'.publishing = FALSE
        BY <1>0, <3>1, SessionFields
      <4> QED BY <1>0, <3>1, <4>1, SessionFields
    <3>2. ASSUME NEW result, session' = [session EXCEPT !.result = result]
          PROVE  Kept
      BY <1>0, <3>2, SessionFields
    <3>3. CASE session' = session
      BY <3>3, Zenon
    <3> HIDE DEF Kept
    <3> QED BY <2>4, <3>1, <3>2, <3>3, Zenon
  <2> QED BY <1>0, <1>1, <2>1, <2>3, <2>5, PlaceFlow
<1> QED BY <1>2, <1>3
\* The worker, idle so far, has something to say, or goes to another place.
LEMMA SayFlow ==
    ASSUME Flow, worker.sends = <<>>, UNCHANGED <<task, newStream, seen, queue, cancel>>,
           \/ AfterAll(QueuePoint, worker'.sends) = Over
           \/ /\ WorkerExpects' /\ SessionAgrees'
              /\ \A i \in DOMAIN worker'.sends : worker'.sends[i].kind # "cancel"
    PROVE  Flow'
<1>1. QueuePoint' = QueuePoint /\ LastPoint' = AfterAll(QueuePoint, worker'.sends) /\ TaskAgrees'
  BY PointsKept DEF Flow
<1>2. cancel' => QueuePoint' = Over
  BY <1>1 DEF Flow, CancelSaid
<1> QED BY <1>1, <1>2 DEF Flow, CancelSaid, WorkerAgrees

LEMMA AcceptFlow ==
    ASSUME TypeInv, PipelineInv, Active, Accept \/ AcceptFails
    PROVE  Flow'
<1>0. Flow /\ SendsWhere /\ worker.at = "accept"
  BY DEF PipelineInv, Accept, AcceptFails
<1>1. UNCHANGED <<task, newStream, seen, queue, cancel, nextId>> /\ worker.sends = <<>>
  BY <1>0 DEF Accept, AcceptFails, WorkerOnly, WorkerKeeps, flags, tokens, SendsWhere
<1>2. CASE QueuePoint = Over
  BY <1>0, <1>1, <1>2, OverFlow
<1>3. CASE QueuePoint # Over
  <2>1. LastPoint = QueuePoint /\ WorkerExpects /\ SessionAgrees
    BY <1>0, <1>1, <1>3, IdleWorker
  <2>2. QueuePoint = Point("idle", QueuePoint.id) /\ QueuePoint.id < nextId
    BY <1>0, <2>1 DEF WorkerExpects, InSession
  <2>3. CASE Accept
    <3>1. worker'.at = "handshake" /\ worker'.sends = <<>> /\ session' = NewSession
      BY <2>3 DEF Accept, Goes, At
    <3>2. LastPoint' = QueuePoint
      BY <1>1, <3>1, PointsKept, AfterNone, AfterOne, AfterTwo
    <3>3. WorkerExpects' /\ SessionAgrees'
      BY <1>1, <2>2, <3>1, <3>2 DEF WorkerExpects, SessionAgrees, InSession, NewSession
    <3>4. DOMAIN worker'.sends = {}
      BY <3>1
    <3> QED BY <1>0, <1>1, <3>3, <3>4, SayFlow
  <2>4. CASE AcceptFails
    <3>1. worker'.sends = <<Output("error")>>
      BY <2>4 DEF AcceptFails, Sending
    <3>2. After(QueuePoint, Output("error")) = Over
      BY <2>2, AfterOutput
    <3>3. AfterAll(QueuePoint, worker'.sends) = Over
      <4> HIDE DEF After, Over
      <4> QED BY <3>1, <3>2, AfterNone, AfterOne, AfterTwo
    <3> QED BY <1>0, <1>1, <3>3, SayFlow
  <2> QED BY <2>3, <2>4
<1> QED BY <1>2, <1>3

LEMMA PublishFlow ==
    ASSUME TypeInv, PipelineInv, Active, Features \cap {"resume", "republish"} = {},
           PublishAccepted \/ PublishRejected \/ Media
    PROVE  Flow'
<1>0. Flow /\ SessionOK /\ worker.at = "process" /\ worker.sends = <<>> /\ InSession
  BY TypeParts DEF PipelineInv, PublishAccepted, PublishRejected, Media, Handles, InSession
<1>1. UNCHANGED <<task, newStream, seen, queue, cancel>>
  BY DEF PublishAccepted, PublishRejected, Media, WorkerOnly, WorkerKeeps, flags, tokens
<1>2. CASE QueuePoint = Over
  BY <1>0, <1>1, <1>2, OverFlow
<1>3. CASE QueuePoint # Over
  <2>1. LastPoint = QueuePoint /\ WorkerExpects /\ SessionAgrees
    BY <1>0, <1>3, IdleWorker
  <2>2. session.current = 0 => QueuePoint = Point("idle", QueuePoint.id) /\ QueuePoint.id < nextId
    BY <1>0, <2>1 DEF WorkerExpects
  <2>3. ASSUME PublishAccepted PROVE Flow'
    <3>1. session.current = 0 /\ nextId \in Ids
      BY <2>3 DEF PublishAccepted
    <3>2. ~session.header
      BY <1>0, <2>1, <3>1 DEF SessionAgrees
    <3>3. worker' = Sending("process", <<PublishStarted(nextId), Data("header", nextId)>>, "none")
      <4>1. Header(nextId) = <<Data("header", nextId)>>
        BY <3>2 DEF Header
      <4>2. worker' = Sending("process", <<PublishStarted(nextId)>> \o Header(nextId), "none")
        BY <2>3 DEF PublishAccepted
      <4>3. \A a, b : <<a>> \o <<b>> = <<a, b>>
        BY TwoOutputs
      <4> HIDE DEF Header, Data, PublishStarted, Sending
      <4> QED BY <4>1, <4>2, <4>3
    <3>4. session'.current = nextId /\ session'.header = TRUE /\ session'.rejected = session.rejected
      BY <1>0, <2>3, SessionOpens DEF PublishAccepted
    <3>5. AfterAll(QueuePoint, <<PublishStarted(nextId), Data("header", nextId)>>)
             = Point("live", nextId)
      <4>1. After(QueuePoint, PublishStarted(nextId)) = Point("announced", nextId)
        <5>1. nextId > QueuePoint.id
          BY <1>0, <2>2, <3>1 DEF SessionOK
        <5> QED BY <2>2, <3>1, <5>1, AfterOutput
      <4> HIDE DEF After
      <4> QED BY <4>1, AfterNone, AfterOne, AfterTwo, AfterOutput
    <3>6. worker'.at = "process" /\ LastPoint' = Point("live", nextId)
      BY <1>1, <3>3, <3>5, PointsKept DEF Sending
    <3>7. WorkerExpects' /\ SessionAgrees'
      BY <1>0, <2>1, <3>4, <3>6 DEF WorkerExpects, SessionAgrees, InSession, SessionOK
    <3>8. \A i \in DOMAIN worker'.sends : worker'.sends[i].kind # "cancel"
      BY <3>3 DEF Sending, PublishStarted, Data
    <3> QED BY <1>0, <1>1, <3>7, <3>8, SayFlow
  <2>4. ASSUME PublishRejected PROVE Flow'
    <3>1. session.current = 0
      BY <2>4 DEF PublishRejected
    <3>2. CASE settings.keep
      <4>1. worker'.at = "result" /\ worker'.sends = <<>> /\ InSession' /\ nextId' = nextId
        BY <2>4, <3>2 DEF PublishRejected, Goes, At, InSession, WorkerOnly
      <4>2. /\ session'.current = session.current /\ session'.header = session.header
            /\ session'.publishing = session.publishing
        BY <1>0, <2>4, <3>2, SessionOpens DEF PublishRejected
      <4> QED BY <1>0, <1>1, <3>1, <4>1, <4>2, PlaceFlow
    <3>3. CASE ~settings.keep
      <4>1. worker'.sends = <<Output("error"), Output("cancel")>>
        BY <2>4, <3>3 DEF PublishRejected, Sending
      <4>2. After(QueuePoint, Output("error")) = Over
        BY <2>2, <3>1, AfterOutput
      <4>3. AfterAll(QueuePoint, worker'.sends) = Over
        <5> HIDE DEF After, Over, Output
        <5>1. AfterAll(QueuePoint, <<Output("error"), Output("cancel")>>)
                 = After(After(QueuePoint, Output("error")), Output("cancel"))
          BY AfterTwo
        <5>2. After(Over, Output("cancel")) = Over
          BY AfterFixed
        <5> QED BY <4>1, <4>2, <5>1, <5>2
      <4> QED BY <1>0, <1>1, <4>3, SayFlow
    <3> QED BY <3>2, <3>3
  <2>5. ASSUME Media PROVE Flow'
    <3>1. session.publishing /\ session.current # 0 /\ session.header
      BY <1>0, <2>1, <2>5 DEF SessionAgrees, Media
    <3>2. worker' = Sending("process", <<Data("tag", session.current)>>, "none")
      BY <2>5, <3>1 DEF Media, Header
    <3>3. /\ session'.current = session.current /\ session'.header = TRUE
          /\ session'.publishing = session.publishing /\ session'.rejected = session.rejected
      BY <1>0, <2>5, SessionOpens DEF Media
    <3>4. QueuePoint = Point("live", session.current)
      BY <1>0, <2>1, <3>1 DEF WorkerExpects
    <3>5. worker'.at = "process" /\ LastPoint' = Point("live", session.current)
      BY <1>1, <3>2, <3>4, PointsKept, AfterNone, AfterOne, AfterTwo, AfterOutput DEF Sending
    <3>6. WorkerExpects' /\ SessionAgrees'
      BY <1>0, <2>1, <3>1, <3>3, <3>5 DEF WorkerExpects, SessionAgrees, InSession
    <3>7. \A i \in DOMAIN worker'.sends : worker'.sends[i].kind # "cancel"
      BY <3>2 DEF Sending, Data
    <3> QED BY <1>0, <1>1, <3>6, <3>7, SayFlow
  <2> QED BY <2>3, <2>4, <2>5
<1> QED BY <1>2, <1>3
\* A publish-end, and what is said after it, one after the other.
LEMMA EndUnfolds ==
    ASSUME NEW reason
    PROVE  /\ session.current = 0 =>
                 /\ PublishEnd(reason) = <<>>
                 /\ \A kind : PublishEnd(reason) \o <<Output(kind)>> = <<Output(kind)>>
                 /\ PublishEnd(reason) \o <<Output("warning"), Output("eos")>>
                      = <<Output("warning"), Output("eos")>>
           /\ session.current # 0 =>
                 /\ PublishEnd(reason) = <<PublishEnded(session.current, reason)>>
                 /\ \A kind : PublishEnd(reason) \o <<Output(kind)>>
                                = <<PublishEnded(session.current, reason), Output(kind)>>
                 /\ PublishEnd(reason) \o <<Output("warning"), Output("eos")>>
                      = <<PublishEnded(session.current, reason), Output("warning"), Output("eos")>>
<1>1. ASSUME NEW a, NEW b PROVE <<>> \o <<a>> = <<a>> /\ <<>> \o <<a, b>> = <<a, b>>
  <2>1. <<a>> \in Seq({a, b}) /\ <<a, b>> \in Seq({a, b})
    OBVIOUS
  <2> QED BY <2>1, ConcatEmptySeq
<1>2. CASE session.current = 0
  BY <1>1, <1>2 DEF PublishEnd
<1>3. CASE session.current # 0
  BY <1>3, TwoOutputs, ThreeOutputs DEF PublishEnd
<1> QED BY <1>2, <1>3

\* Where that leads from a session's end: between publishers, or over.
LEMMA EndPoints ==
    ASSUME NEW reason, NEW id,
           session.current = 0 => QueuePoint = Point("idle", id),
           session.current # 0 => QueuePoint = Point("live", id) /\ session.current = id
    PROVE  /\ AfterAll(QueuePoint, PublishEnd(reason)) = Point("idle", id)
           /\ AfterAll(QueuePoint, PublishEnd(reason) \o <<Output("warning")>>) = Point("idle", id)
           /\ AfterAll(QueuePoint, PublishEnd(reason) \o <<Output("eos")>>) = Over
           /\ AfterAll(QueuePoint, PublishEnd(reason) \o <<Output("error")>>) = Over
           /\ AfterAll(QueuePoint, PublishEnd(reason) \o <<Output("warning"), Output("eos")>>) = Over
<1> DEFINE idle == Point("idle", id)
<1>1. /\ After(idle, Output("warning")) = idle
      /\ After(idle, Output("eos")) = Over /\ After(idle, Output("error")) = Over
  BY AfterSilent, AfterOutput
<1>2. CASE session.current = 0
  <2>1. QueuePoint = idle
    BY <1>2
  <2>2. AfterAll(idle, PublishEnd(reason)) = idle
    BY <1>2, EndUnfolds, AfterNone
  <2>3. \A kind : AfterAll(idle, PublishEnd(reason) \o <<Output(kind)>>) = After(idle, Output(kind))
    <3> TAKE kind
    <3>1. PublishEnd(reason) \o <<Output(kind)>> = <<Output(kind)>>
      BY <1>2, EndUnfolds
    <3>2. AfterAll(idle, <<Output(kind)>>) = After(idle, Output(kind))
      BY AfterOne
    <3> QED BY <3>1, <3>2
  <2> DEFINE both == PublishEnd(reason) \o <<Output("warning"), Output("eos")>>
  <2>4. AfterAll(idle, both) = After(After(idle, Output("warning")), Output("eos"))
    <3>1. both = <<Output("warning"), Output("eos")>>
      BY <1>2, EndUnfolds
    <3>2. AfterAll(idle, <<Output("warning"), Output("eos")>>)
             = After(After(idle, Output("warning")), Output("eos"))
      BY AfterTwo
    <3> HIDE DEF idle, both
    <3> QED BY <3>1, <3>2, Zenon
  <2>5. AfterAll(idle, PublishEnd(reason)) = idle
    BY <2>1, <2>2
  <2>6. /\ AfterAll(idle, PublishEnd(reason) \o <<Output("warning")>>) = idle
        /\ AfterAll(idle, PublishEnd(reason) \o <<Output("eos")>>) = Over
        /\ AfterAll(idle, PublishEnd(reason) \o <<Output("error")>>) = Over
    <3> HIDE DEF idle
    <3> QED BY <1>1, <2>1, <2>3
  <2>7. AfterAll(idle, both) = Over
    BY <1>1, <2>1, <2>4
  <2> QED BY <2>1, <2>5, <2>6, <2>7
<1>3. CASE session.current # 0
  <2> DEFINE end == PublishEnded(session.current, reason)
  <2>1. After(QueuePoint, end) = idle
    BY <1>3, AfterOutput
  <2>2. AfterAll(QueuePoint, PublishEnd(reason)) = After(QueuePoint, end)
    BY <1>3, EndUnfolds, AfterOne
  <2>3. \A kind : AfterAll(QueuePoint, PublishEnd(reason) \o <<Output(kind)>>)
                    = After(After(QueuePoint, end), Output(kind))
    <3> TAKE kind
    <3>1. PublishEnd(reason) \o <<Output(kind)>> = <<end, Output(kind)>>
      BY <1>3, EndUnfolds
    <3>2. AfterAll(QueuePoint, <<end, Output(kind)>>)
             = After(After(QueuePoint, end), Output(kind))
      BY AfterTwo
    <3> QED BY <3>1, <3>2
  <2> DEFINE all == PublishEnd(reason) \o <<Output("warning"), Output("eos")>>
  <2>4. AfterAll(QueuePoint, all)
           = After(After(After(QueuePoint, end), Output("warning")), Output("eos"))
    <3>1. all = <<end, Output("warning"), Output("eos")>>
      BY <1>3, EndUnfolds
    <3>2. AfterAll(QueuePoint, <<end, Output("warning"), Output("eos")>>)
             = After(After(After(QueuePoint, end), Output("warning")), Output("eos"))
      BY AfterThree
    <3> HIDE DEF end, all
    <3> QED BY <3>1, <3>2, Zenon
  <2>5. AfterAll(QueuePoint, PublishEnd(reason)) = idle
    BY <2>1, <2>2
  <2>6. /\ AfterAll(QueuePoint, PublishEnd(reason) \o <<Output("warning")>>) = idle
        /\ AfterAll(QueuePoint, PublishEnd(reason) \o <<Output("eos")>>) = Over
        /\ AfterAll(QueuePoint, PublishEnd(reason) \o <<Output("error")>>) = Over
    <3> HIDE DEF idle, end
    <3> QED BY <1>1, <2>1, <2>3
  <2>7. AfterAll(QueuePoint, all) = Over
    BY <1>1, <2>1, <2>4
  <2> QED BY <2>1, <2>5, <2>6, <2>7
<1> QED BY <1>2, <1>3

\* The arms of run_worker's match: which of these is said, and what comes next.
LEMMA ResultSays ==
    ASSUME Result, ~(settings.keep /\ session.rejected)
    PROVE  \E reason \in Lifecycle!Reasons :
              \/ worker' = Sending("report", PublishEnd(reason), "accept")
              \/ worker' = Sending("report", PublishEnd(reason) \o <<Output("warning")>>, "accept")
              \/ worker' = Sending("report", PublishEnd(reason) \o <<Output("eos")>>, "ended")
              \/ worker' = Sending("report", PublishEnd(reason) \o <<Output("error")>>, "ended")
              \/ worker' = Sending("report", PublishEnd(reason) \o <<Output("warning"), Output("eos")>>,
                                  "ended")
<1>1. {"unpublished", "disconnect", "error"} \subseteq Lifecycle!Reasons
  BY DEF Lifecycle!Reasons
<1>2. OnClean \/ OnOpen \/ OnLost \/ OnError
  BY DEF Result
<1> QED BY <1>1, <1>2 DEF OnClean, OnOpen, OnLost, OnError, Report

LEMMA ResultFlow ==
    ASSUME TypeInv, PipelineInv, Active, Result
    PROVE  Flow'
<1>0. Flow /\ SessionOK /\ worker.at = "result" /\ worker.sends = <<>> /\ InSession
  BY TypeParts DEF PipelineInv, SendsWhere, Result, InSession
<1>1. UNCHANGED <<task, newStream, seen, queue, cancel, session, nextId>>
  BY DEF Result, WorkerOnly, WorkerKeeps, flags, tokens
<1>2. CASE QueuePoint = Over
  BY <1>0, <1>1, <1>2, OverFlow
<1>3. CASE QueuePoint # Over
  <2>1. LastPoint = QueuePoint /\ WorkerExpects /\ SessionAgrees
    BY <1>0, <1>3, IdleWorker
  <2>2. PICK id : /\ id < nextId
                  /\ session.current = 0 => QueuePoint = Point("idle", id)
                  /\ session.current # 0 => QueuePoint = Point("live", id) /\ session.current = id
    <3>1. CASE session.current = 0
      BY <1>0, <2>1, <3>1 DEF WorkerExpects
    <3>2. CASE session.current # 0
      <4>1. session.current < nextId
        BY <1>0 DEF SessionOK, Sessions
      <4> QED BY <1>0, <2>1, <3>2, <4>1 DEF WorkerExpects
    <3> QED BY <3>1, <3>2
  <2>3. Point("idle", id).id = id
    BY DEF Point
  <2>4. CASE settings.keep /\ session.rejected
    <3>1. worker'.at = "accept" /\ worker'.sends = <<>>
      BY <2>4 DEF Result, Goes, At
    <3>2. LastPoint' = Point("idle", id)
      <4>1. session.current = 0
        BY <1>0, <2>1, <2>4 DEF SessionAgrees
      <4> QED BY <1>1, <2>2, <3>1, <4>1, PointsKept, AfterNone
    <3>3. WorkerExpects' /\ SessionAgrees'
      BY <1>1, <2>2, <2>3, <3>1, <3>2 DEF WorkerExpects, SessionAgrees, InSession
    <3>4. DOMAIN worker'.sends = {}
      BY <3>1
    <3> QED BY <1>0, <1>1, <3>3, <3>4, SayFlow
  <2>5. CASE ~(settings.keep /\ session.rejected)
    <3>1. PICK reason \in Lifecycle!Reasons :
              \/ worker' = Sending("report", PublishEnd(reason), "accept")
              \/ worker' = Sending("report", PublishEnd(reason) \o <<Output("warning")>>, "accept")
              \/ worker' = Sending("report", PublishEnd(reason) \o <<Output("eos")>>, "ended")
              \/ worker' = Sending("report", PublishEnd(reason) \o <<Output("error")>>, "ended")
              \/ worker' = Sending("report", PublishEnd(reason) \o <<Output("warning"), Output("eos")>>,
                                  "ended")
      BY <2>5, ResultSays
    <3>2. ASSUME NEW sends \in {PublishEnd(reason), PublishEnd(reason) \o <<Output("warning")>>},
                 worker' = Sending("report", sends, "accept")
          PROVE  Flow'
      <4>1. worker'.at = "report" /\ worker'.then = "accept" /\ worker'.sends = sends
        BY <3>2 DEF Sending
      <4>2. LastPoint' = Point("idle", id)
        <5>1. AfterAll(QueuePoint, sends) = Point("idle", id)
          BY <2>2, EndPoints
        <5> QED BY <1>1, <4>1, <5>1, PointsKept
      <4>3. WorkerExpects' /\ SessionAgrees'
        BY <1>1, <2>2, <2>3, <4>1, <4>2 DEF WorkerExpects, SessionAgrees, InSession
      <4>4. \A i \in DOMAIN sends : sends[i].kind # "cancel"
        <5>1. \E a, b : /\ a.kind = "ended" /\ b.kind = "warning"
                        /\ sends \in {<<>>, <<a>>, <<b>>, <<a, b>>}
          <6> DEFINE a == PublishEnded(session.current, reason)
                     b == Output("warning")
          <6>1. a.kind = "ended" /\ b.kind = "warning"
            BY DEF PublishEnded, Output
          <6> HIDE DEF a, b
          <6>2. sends \in {<<>>, <<a>>, <<b>>, <<a, b>>}
            BY EndUnfolds DEF a, b
          <6> QED BY <6>1, <6>2
        <5> QED BY <5>1
      <4> QED BY <1>0, <1>1, <4>1, <4>3, <4>4, SayFlow
    <3>3. ASSUME NEW sends \in {PublishEnd(reason) \o <<Output("eos")>>,
                                PublishEnd(reason) \o <<Output("error")>>,
                                PublishEnd(reason) \o <<Output("warning"), Output("eos")>>},
                 worker' = Sending("report", sends, "ended")
          PROVE  Flow'
      <4>1. worker'.sends = sends
        BY <3>3 DEF Sending
      <4>2. AfterAll(QueuePoint, sends) = Over
        BY <2>2, EndPoints
      <4> QED BY <1>0, <1>1, <4>1, <4>2, SayFlow
    <3> QED BY <3>1, <3>2, <3>3
  <2> QED BY <2>4, <2>5
<1> QED BY <1>2, <1>3

LEMMA ShortSequences ==
    /\ Len(<<>>) <= 3 /\ DOMAIN <<>> = {}
    /\ \A a : Len(<<a>>) = 1 /\ \A i \in DOMAIN <<a>> : i = 1 /\ <<a>>[i] = a
    /\ \A a, b : Len(<<a, b>>) = 2 /\ \A i \in DOMAIN <<a, b>> :
                    (i = 1 /\ <<a, b>>[i] = a) \/ (i = 2 /\ <<a, b>>[i] = b)
    /\ \A a, b, c : Len(<<a, b, c>>) = 3 /\ \A i \in DOMAIN <<a, b, c>> :
                    \/ i = 1 /\ <<a, b, c>>[i] = a
                    \/ i = 2 /\ <<a, b, c>>[i] = b
                    \/ i = 3 /\ <<a, b, c>>[i] = c
<1>1. /\ \A i \in 1 .. 1 : i = 1
      /\ \A i \in 1 .. 2 : i = 1 \/ i = 2
      /\ \A i \in 1 .. 3 : i = 1 \/ i = 2 \/ i = 3
  OBVIOUS
<1>2. \A a : Len(<<a>>) = 1 /\ \A i \in DOMAIN <<a>> : i = 1 /\ <<a>>[i] = a
  BY <1>1
<1>3. \A a, b : Len(<<a, b>>) = 2 /\ \A i \in DOMAIN <<a, b>> :
                   (i = 1 /\ <<a, b>>[i] = a) \/ (i = 2 /\ <<a, b>>[i] = b)
  BY <1>1
<1>4. \A a, b, c : Len(<<a, b, c>>) = 3 /\ \A i \in DOMAIN <<a, b, c>> :
                    \/ i = 1 /\ <<a, b, c>>[i] = a
                    \/ i = 2 /\ <<a, b, c>>[i] = b
                    \/ i = 3 /\ <<a, b, c>>[i] = c
  BY <1>1
<1>5. Len(<<>>) <= 3 /\ DOMAIN <<>> = {}
  OBVIOUS
<1> QED BY <1>2, <1>3, <1>4, <1>5

\* None of up to three outputs that are no cancels is one.
LEMMA NoCancels ==
    ASSUME NEW a, NEW b, NEW c, a.kind # "cancel", b.kind # "cancel", c.kind # "cancel",
           NEW sends, sends \in {<<>>, <<a>>, <<b>>, <<a, b>>, <<b, c>>, <<a, b, c>>}
    PROVE  Len(sends) <= 3 /\ \A i \in DOMAIN sends : sends[i].kind # "cancel"
<1>1. CASE sends = <<>>
  <2>1. DOMAIN sends = {}
    BY <1>1, ShortSequences
  <2> QED BY <1>1, <2>1, ShortSequences
<1>2. CASE sends = <<a>>
  BY <1>2, ShortSequences
<1>3. CASE sends = <<b>>
  BY <1>3, ShortSequences
<1>4. CASE sends = <<a, b>>
  <2>1. Len(sends) = 2 /\ \A i \in DOMAIN sends : sends[i] = a \/ sends[i] = b
    BY <1>4, ShortSequences
  <2> QED BY <2>1
<1>5. CASE sends = <<b, c>>
  <2>1. Len(sends) = 2 /\ \A i \in DOMAIN sends : sends[i] = b \/ sends[i] = c
    BY <1>5, ShortSequences
  <2> QED BY <2>1
<1>6. CASE sends = <<a, b, c>>
  <2>1. Len(sends) = 3 /\ \A i \in DOMAIN sends : sends[i] = a \/ sends[i] = b \/ sends[i] = c
    BY <1>6, ShortSequences
  <2> QED BY <2>1
<1> QED BY <1>1, <1>2, <1>3, <1>4, <1>5, <1>6

\* Only a handler or a report sends, three outputs at most, and nothing follows
\* a handler's cancel.
LEMMA SendsStep ==
    ASSUME TypeInv, SendsWhere, [Next]_vars
    PROVE  SendsWhere'
<1>0. WorkerOK
  BY TypeParts
<1>1. ASSUME worker' = worker PROVE SendsWhere'
  BY <1>1 DEF SendsWhere
<1>2. ASSUME NEW place, place # "report", worker' = At(place) PROVE SendsWhere'
  <2>1. worker'.at = place /\ worker'.sends = <<>>
    BY <1>2 DEF At
  <2>2. Len(worker'.sends) <= 3 /\ DOMAIN worker'.sends = {}
    BY <2>1
  <2>3. \A i \in DOMAIN worker'.sends : worker'.sends[i].kind = "cancel" => i = Len(worker'.sends)
    BY <2>2, Zenon
  <2> QED BY <1>2, <2>1, <2>2, <2>3 DEF SendsWhere
<1>3. ASSUME Send \/ HandlerCancels PROVE SendsWhere'
  <2>1. /\ worker.sends # <<>> /\ worker.sends \in Seq(Sendable)
        /\ worker'.sends = Tail(worker.sends) /\ worker'.at = worker.at /\ worker'.then = worker.then
    BY <1>0, <1>3 DEF Send, HandlerCancels, WorkerOK
  <2>2. /\ Len(worker'.sends) = Len(worker.sends) - 1 /\ Len(worker.sends) \in Nat
        /\ DOMAIN worker.sends = 1 .. Len(worker.sends)
        /\ \A i \in DOMAIN worker'.sends :
              i \in Nat /\ i + 1 \in DOMAIN worker.sends /\ worker'.sends[i] = worker.sends[i + 1]
    BY <2>1, HeadTailProperties
  <2>3. Len(worker'.sends) <= 3
    BY <2>2 DEF SendsWhere
  <2>4. \A i \in DOMAIN worker'.sends : worker'.sends[i].kind = "cancel" => i = Len(worker'.sends)
    <3> SUFFICES ASSUME NEW i \in DOMAIN worker'.sends, worker'.sends[i].kind = "cancel"
                 PROVE  i = Len(worker'.sends)
      OBVIOUS
    <3>1. i + 1 = Len(worker.sends)
      BY <2>2 DEF SendsWhere
    <3> QED BY <2>2, <3>1
  <2>5. worker'.sends # <<>> => worker'.at \in {"process", "report"}
    BY <2>1 DEF SendsWhere
  <2>6. worker'.at = "report" => worker'.then \in {"accept", "ended"}
    BY <2>1 DEF SendsWhere
  <2> QED BY <2>3, <2>4, <2>5, <2>6 DEF SendsWhere
<1>4. ASSUME SendFails PROVE SendsWhere'
  <2>1. CASE worker.at = "process"
    <3>1. worker'.at = "process" /\ worker'.sends = CancelLeft(worker.sends)
      BY <1>0, <1>4, <2>1 DEF SendFails, WorkerOK
    <3>2. worker'.sends = <<>> \/ worker'.sends = <<Output("cancel")>>
      BY <3>1 DEF CancelLeft
    <3>3. Len(worker'.sends) <= 3 /\ \A i \in DOMAIN worker'.sends : i = Len(worker'.sends)
      <4>1. CASE worker'.sends = <<>>
        <5>1. DOMAIN worker'.sends = {} /\ Len(worker'.sends) <= 3
          BY <4>1, ShortSequences
        <5> QED BY <5>1, Zenon
      <4>2. CASE worker'.sends = <<Output("cancel")>>
        BY <4>2, ShortSequences
      <4> QED BY <3>2, <4>1, <4>2
    <3> QED BY <3>1, <3>3 DEF SendsWhere
  <2>2. CASE worker.at # "process"
    BY <1>2, <1>4, <2>2 DEF SendFails
  <2> QED BY <2>1, <2>2
<1>5. ASSUME NEW sends, Len(sends) <= 3,
             \A i \in DOMAIN sends : sends[i].kind = "cancel" => i = Len(sends),
             \/ worker' = Sending("process", sends, "none")
             \/ \E then \in {"accept", "ended"} : worker' = Sending("report", sends, then)
      PROVE  SendsWhere'
  BY <1>5 DEF Sending, SendsWhere
<1>6. ASSUME PublishAccepted PROVE SendsWhere'
  <2>1. worker' = Sending("process", <<PublishStarted(nextId)>> \o Header(nextId), "none")
    BY <1>6 DEF PublishAccepted
  <2>2. \E a, b : a.kind = "started" /\ b.kind = "data"
                  /\ <<PublishStarted(nextId)>> \o Header(nextId) \in {<<a>>, <<a, b>>}
    <3> DEFINE a == PublishStarted(nextId)
               b == Data("header", nextId)
    <3>1. a.kind = "started" /\ b.kind = "data"
      BY DEF PublishStarted, Data
    <3>2. <<a>> \o <<>> = <<a>>
      <4>1. <<a>> \in Seq({a})
        OBVIOUS
      <4> QED BY <4>1, ConcatEmptySeq
    <3>3. <<a>> \o Header(nextId) \in {<<a>>, <<a, b>>}
      <4>1. Header(nextId) = <<>> \/ Header(nextId) = <<b>>
        BY DEF Header
      <4> HIDE DEF a, b
      <4> QED BY <3>2, <4>1, TwoOutputs
    <3> QED BY <3>1, <3>3
  <2>3. PICK a, b : a.kind = "started" /\ b.kind = "data"
                  /\ <<PublishStarted(nextId)>> \o Header(nextId) \in {<<a>>, <<a, b>>}
    BY <2>2
  <2> DEFINE sends == <<PublishStarted(nextId)>> \o Header(nextId)
  <2>4. sends = <<a>> \/ sends = <<a, b>>
    BY <2>3
  <2> HIDE DEF sends
  <2>5. Len(sends) <= 3 /\ \A i \in DOMAIN sends : sends[i].kind # "cancel"
    <3>1. a.kind # "cancel" /\ b.kind # "cancel"
      BY <2>3
    <3> QED BY <2>4, <3>1, NoCancels
  <2> QED BY <1>5, <2>1, <2>5 DEF sends
<1>7. ASSUME PublishRejected PROVE SendsWhere'
  <2>1. CASE settings.keep
    BY <1>2, <1>7, <2>1 DEF PublishRejected, Goes
  <2>2. CASE ~settings.keep
    <3>1. worker' = Sending("process", <<Output("error"), Output("cancel")>>, "none")
      BY <1>7, <2>2 DEF PublishRejected
    <3>2. /\ Len(<<Output("error"), Output("cancel")>>) = 2
          /\ <<Output("error"), Output("cancel")>>[1].kind = "error"
          /\ DOMAIN <<Output("error"), Output("cancel")>> = 1 .. 2
      BY DEF Output
    <3>3. \A i \in 1 .. 2 : i = 1 \/ i = 2
      OBVIOUS
    <3> DEFINE sends == <<Output("error"), Output("cancel")>>
    <3>4. Len(sends) <= 3 /\ \A i \in DOMAIN sends : sends[i].kind = "cancel" => i = Len(sends)
      BY <3>2, <3>3
    <3> HIDE DEF sends
    <3>5. worker' = Sending("process", sends, "none")
      BY <3>1 DEF sends
    <3> QED BY <1>5, <3>4, <3>5
  <2> QED BY <2>1, <2>2
<1>8. ASSUME Media PROVE SendsWhere'
  <2> DEFINE a == Data("header", session.current)
             b == Data("tag", session.current)
             sends == Header(session.current) \o <<b>>
  <2>1. worker' = Sending("process", sends, "none")
    BY <1>8 DEF Media
  <2>2. a.kind = "data" /\ b.kind = "data"
    BY DEF Data
  <2>3. sends = <<b>> \/ sends = <<a, b>>
    <3>1. Header(session.current) = <<>> \/ Header(session.current) = <<a>>
      BY DEF Header
    <3>2. <<>> \o <<b>> = <<b>>
      <4>1. <<b>> \in Seq({b})
        OBVIOUS
      <4> QED BY <4>1, ConcatEmptySeq
    <3> HIDE DEF a, b
    <3> QED BY <3>1, <3>2, TwoOutputs
  <2> HIDE DEF a, b, sends
  <2>4. Len(sends) <= 3 /\ \A i \in DOMAIN sends : sends[i].kind # "cancel"
    <3>1. a.kind # "cancel" /\ b.kind # "cancel"
      BY <2>2
    <3> QED BY <2>3, <3>1, NoCancels
  <2> QED BY <1>5, <2>1, <2>4
<1>9. ASSUME Result PROVE SendsWhere'
  <2>1. CASE settings.keep /\ session.rejected
    BY <1>2, <1>9, <2>1 DEF Result, Goes
  <2>2. CASE ~(settings.keep /\ session.rejected)
    <3>1. PICK reason \in Lifecycle!Reasons :
              \/ worker' = Sending("report", PublishEnd(reason), "accept")
              \/ worker' = Sending("report", PublishEnd(reason) \o <<Output("warning")>>, "accept")
              \/ worker' = Sending("report", PublishEnd(reason) \o <<Output("eos")>>, "ended")
              \/ worker' = Sending("report", PublishEnd(reason) \o <<Output("error")>>, "ended")
              \/ worker' = Sending("report", PublishEnd(reason) \o <<Output("warning"), Output("eos")>>,
                                  "ended")
      BY <1>9, <2>2, ResultSays
    <3> DEFINE a == PublishEnded(session.current, reason)
    <3> DEFINE Says(sends) ==
                   \E b, c : /\ b.kind # "cancel" /\ c.kind # "cancel"
                             /\ sends \in {<<>>, <<a>>, <<b>>, <<a, b>>, <<b, c>>, <<a, b, c>>}
    <3>2. a.kind # "cancel" /\ Output("warning").kind # "cancel" /\ Output("eos").kind # "cancel"
          /\ Output("error").kind # "cancel"
      BY DEF PublishEnded, Output
    <3>3. /\ Says(PublishEnd(reason))
          /\ \A kind \in {"warning", "eos", "error"} : Says(PublishEnd(reason) \o <<Output(kind)>>)
          /\ Says(PublishEnd(reason) \o <<Output("warning"), Output("eos")>>)
      <4>1. PublishEnd(reason) \in {<<>>, <<a>>}
        BY EndUnfolds
      <4>2. \A kind : PublishEnd(reason) \o <<Output(kind)>> \in {<<Output(kind)>>, <<a, Output(kind)>>}
        BY EndUnfolds
      <4>3. PublishEnd(reason) \o <<Output("warning"), Output("eos")>>
              \in {<<Output("warning"), Output("eos")>>, <<a, Output("warning"), Output("eos")>>}
        BY EndUnfolds
      <4> HIDE DEF a
      <4>4. Says(PublishEnd(reason))
        BY <3>2, <4>1
      <4>5. \A kind \in {"warning", "eos", "error"} : Says(PublishEnd(reason) \o <<Output(kind)>>)
        BY <3>2, <4>2
      <4>6. Says(PublishEnd(reason) \o <<Output("warning"), Output("eos")>>)
        BY <3>2, <4>3
      <4> QED BY <4>4, <4>5, <4>6
    <3>4. PICK sends, then :
             then \in {"accept", "ended"} /\ worker' = Sending("report", sends, then) /\ Says(sends)
      <4> HIDE DEF Says
      <4>1. ASSUME NEW sends, NEW then, then \in {"accept", "ended"},
                   worker' = Sending("report", sends, then), Says(sends)
            PROVE  \E s, t : t \in {"accept", "ended"} /\ worker' = Sending("report", s, t) /\ Says(s)
        BY <4>1
      <4> QED BY <3>1, <3>3, <4>1
    <3> HIDE DEF a
    <3>5. Len(sends) <= 3 /\ \A i \in DOMAIN sends : sends[i].kind # "cancel"
      BY <3>2, <3>4, NoCancels
    <3> QED BY <1>5, <3>4, <3>5
  <2> QED BY <2>1, <2>2
<1>10. ASSUME AcceptFails PROVE SendsWhere'
  <2>1. worker' = Sending("report", <<Output("error")>>, "ended")
    BY <1>10 DEF AcceptFails
  <2>2. /\ Len(<<Output("error")>>) <= 3
        /\ \A i \in DOMAIN <<Output("error")>> : <<Output("error")>>[i].kind # "cancel"
    BY DEF Output
  <2> QED BY <1>5, <2>1, <2>2
<1>11. ASSUME Reported PROVE SendsWhere'
  <2>1. worker.then # "report" /\ worker' = At(worker.then)
    BY <1>11 DEF Reported, SendsWhere
  <2> QED BY <1>2, <2>1
<1>12. ASSUME SessionMoves \/ Accept \/ AcceptCancelled PROVE SendsWhere'
  <2>1. worker' = worker \/ \E place \in {"drive", "process", "flush", "result", "closing",
                                          "handshake", "ended"} : worker' = At(place)
    BY <1>12 DEF SessionMoves, HandshakeReset, HandshakeShutdown, ReadEnds, Processed, Flush,
       Shutdown, Closes, HandshakeDone, HandshakeFails, Read, ReadTimesOut, DeleteStream,
       BadMessage, FlushFails, Accept, AcceptCancelled, Ends, Goes
  <2> QED BY <1>1, <1>2, <2>1
<1>13. ASSUME Create \/ Stopping \/ PeerCloses \/ PeerResets \/ Play \/ Pause \/ Deactivate
              \/ UNCHANGED vars
       PROVE  SendsWhere'
  <2>1. worker' = worker
    BY <1>13 DEF Create, CreateEnters, TaskPauses, CreateChecks, PollTimesOut, TakeStarted, TakeData,
     TakeEnded, TakeOther, TakeFinish, TaskKeeps, Stopping, StopTakes, StopCancels, StopJoins,
     PeerCloses, PeerResets, Play, Pause, Deactivate, vars
  <2> QED BY <1>1, <2>1
<1>14. ASSUME NEW keep, NEW wait, Start(keep, wait) PROVE SendsWhere'
  <2>1. worker' = At("accept")
    BY <1>14 DEF Start
  <2> QED BY <1>2, <2>1
<1> QED BY <1>3, <1>4, <1>6, <1>7, <1>8, <1>9, <1>10, <1>11, <1>12, <1>13, <1>14
        DEF Next, Application, Worker, Publisher, SessionMoves

\* stop finds the streaming task at rest, and nothing wakes it before the next
\* start.
LEMMA StopWaitsStep ==
    ASSUME TypeInv, StopWaits, [Next]_vars
    PROVE  StopWaits'
<1>1. CASE Application
  <2>1. ~ReceiverGone'
    BY <1>1 DEF Application, Start, Play, Pause, Deactivate, ReceiverGone
  <2> QED BY <2>1 DEF StopWaits
<1>2. CASE Stopping
  BY <1>2 DEF Stopping, StopTakes, StopCancels, StopJoins, StopWaits, ReceiverGone
<1>3. CASE Create
  <2>1. element' = element /\ task.at \in {"between", "check", "receive"}
    BY <1>3 DEF Create, CreateEnters, TaskPauses, CreateChecks, PollTimesOut, TakeStarted, TakeData,
       TakeEnded, TakeOther, TakeFinish, TaskKeeps, app, Receives
  <2> QED BY <2>1 DEF StopWaits, ReceiverGone
<1>4. ASSUME UNCHANGED <<element, task>> PROVE StopWaits'
  BY <1>4 DEF StopWaits, ReceiverGone
<1>5. CASE Worker \/ Publisher
  <2>1. WorkerKeeps
    BY <1>5 DEF Worker, Send, SendFails, HandlerCancels, Reported, AcceptCancelled, HandshakeReset,
       HandshakeShutdown, ReadEnds, Processed, Flush, Shutdown, Closes, Result, Publisher, Accept,
       AcceptFails, HandshakeDone, HandshakeFails, Read, ReadTimesOut, PublishAccepted,
       PublishRejected, Media, DeleteStream, BadMessage, FlushFails, WorkerOnly
  <2> QED BY <1>4, <2>1 DEF WorkerKeeps, app
<1>6. CASE PeerCloses \/ PeerResets \/ UNCHANGED vars
  BY <1>4, <1>6 DEF PeerCloses, PeerResets, vars, app
<1> QED BY <1>1, <1>2, <1>3, <1>5, <1>6 DEF Next

LEMMA PipelineInit == Init => PipelineInv
<1> SUFFICES ASSUME Init PROVE PipelineInv
  OBVIOUS
<1>1. worker = At("none") /\ task.at = "new" /\ element = "stopped"
  BY DEF Init, NewTask
<1>2. worker.at = "none" /\ worker.sends = <<>> /\ DOMAIN worker.sends = {}
      /\ Len(worker.sends) <= 3
  BY <1>1 DEF At
<1>3. SendsWhere
  <2>1. \A i \in DOMAIN worker.sends : worker.sends[i].kind = "cancel" => i = Len(worker.sends)
    BY <1>2, Zenon
  <2> QED BY <1>2, <2>1 DEF SendsWhere
<1>4. StopWaits /\ ~Active
  BY <1>1 DEF StopWaits, Active, ReceiverGone
<1> QED BY <1>3, <1>4 DEF PipelineInv

LEMMA PipelineStep ==
    ASSUME TypeInv, PipelineInv, Features \cap {"resume", "republish"} = {}, [Next]_vars
    PROVE  PipelineInv'
<1>1. SendsWhere' /\ StopWaits'
  BY SendsStep, StopWaitsStep DEF PipelineInv
<1>2. ASSUME Active' PROVE Flow'
  <2>1. CASE Application \/ Stopping
    BY <1>2, <2>1, ApplicationFlow
  <2>2. CASE Create
    BY <1>2, <2>2, CreateFlow
  <2>3. CASE Worker \/ Publisher
    <3>1. WorkerKeeps
      BY <2>3 DEF Worker, Send, SendFails, HandlerCancels, Reported, AcceptCancelled,
         HandshakeReset, HandshakeShutdown, ReadEnds, Processed, Flush, Shutdown, Closes, Result,
         Publisher, Accept, AcceptFails, HandshakeDone, HandshakeFails, Read, ReadTimesOut,
         PublishAccepted, PublishRejected, Media, DeleteStream, BadMessage, FlushFails, WorkerOnly
    <3>2. Active
      BY <1>2, <3>1 DEF WorkerKeeps, app, Active, ReceiverGone
    <3>3. \/ Send \/ SendFails \/ HandlerCancels \/ Reported \/ AcceptCancelled \/ SessionMoves
          \/ Accept \/ AcceptFails \/ PublishAccepted \/ PublishRejected \/ Media \/ Result
      BY <2>3 DEF Worker, Publisher, SessionMoves
    <3> QED BY <3>2, <3>3, SendFlow, ReportedFlow, SessionFlow, AcceptFlow, PublishFlow, ResultFlow
  <2>4. CASE PeerCloses \/ PeerResets \/ UNCHANGED vars
    <3>1. UNCHANGED <<element, newStream, task, queue, cancel, worker, nextId, session, seen>>
      BY <2>4 DEF PeerCloses, PeerResets, vars, app, flags, tokens
    <3>2. Active /\ Flow
      BY <1>2, <3>1 DEF Active, ReceiverGone, PipelineInv
    <3>3. QueuePoint' = QueuePoint /\ LastPoint' = LastPoint /\ TaskAgrees'
      BY <3>1, <3>2, PointsKept DEF LastPoint, Flow
    <3> QED BY <3>1, <3>2, <3>3
           DEF Flow, CancelSaid, WorkerAgrees, WorkerExpects, SessionAgrees, InSession
  <2> QED BY <2>1, <2>2, <2>3, <2>4 DEF Next
<1> QED BY <1>1, <1>2 DEF PipelineInv

\* What downstream sees of a step is a step of the lifecycle, or nothing.
LEMMA LifecycleStep ==
    ASSUME TypeInv, PipelineInv, [Next]_vars
    PROVE  [Lifecycle!Next]_(Lifecycle!vars)
<1>0. QueueOK /\ SeenType /\ newStream \in BOOLEAN
  BY TypeParts DEF FlagsOK
<1>1. ASSUME NEW keep \in BOOLEAN, NEW wait \in BOOLEAN, Start(keep, wait) PROVE Lifecycle!Next
  BY <1>1 DEF Start, Unseen, Lifecycle!Next, Lifecycle!Restarts
<1>2. ASSUME seen' = seen PROVE UNCHANGED Lifecycle!vars
  BY <1>2 DEF Lifecycle!vars
<1>3. ASSUME TakeData \/ TakeEnded \/ TakeFinish
      PROVE  /\ queue # <<>> /\ QueuePoint # Broken /\ TaskAgrees
             /\ Lifecycle!Open
  <2>1. Active
    BY <1>3 DEF TakeData, TakeEnded, TakeFinish, Receives, Active, PipelineInv, StopWaits
  <2>2. Flow
    BY <2>1 DEF PipelineInv
  <2> QED BY <1>3, <2>2, NotBroken DEF TakeData, TakeEnded, TakeFinish, Receives, Flow, TaskAgrees,
         Lifecycle!Open
<1>4. ASSUME TakeData PROVE Lifecycle!Next
  <2>1. Head(queue).kind = "data"
    BY <1>4 DEF TakeData, Receives
  <2> DEFINE item == Head(queue)
             id == task.started
  <2>2. /\ seen'.live = IF id # 0 THEN id ELSE seen.live
        /\ seen'.last = IF id # 0 THEN id ELSE seen.last
        /\ seen'.out = Lifecycle!Buffer(item.data, item.of, id, newStream)
    BY <1>4 DEF TakeData
  <2>3. CASE id # 0
    <3>1. item.data = "header" /\ item.of = id
      BY <1>0, <1>3, <1>4, <2>1, <2>3, TakenInPlace
    <3>2. seen.live = 0 /\ id > seen.last /\ id \in Ids /\ newStream = (seen.last # 0)
      BY <1>0, <1>3, <1>4, <2>3 DEF TaskAgrees
    <3>3. Lifecycle!Announce(id)
      BY <1>3, <1>4, <2>2, <2>3, <3>1, <3>2 DEF Lifecycle!Announce
    <3> QED BY <3>2, <3>3 DEF Lifecycle!Next
  <2>4. CASE id = 0
    <3>1. item.data = "tag" /\ seen.live # 0 /\ item.of = seen.live
      BY <1>0, <1>3, <1>4, <2>1, <2>4, TakenInPlace
    <3>2. newStream = FALSE
      BY <1>0, <1>3, <1>4, <3>1 DEF TaskAgrees
    <3>3. Lifecycle!Media
      BY <1>3, <1>4, <2>2, <2>4, <3>1, <3>2 DEF Lifecycle!Media
    <3> QED BY <3>3 DEF Lifecycle!Next
  <2> QED BY <2>3, <2>4
<1>5. ASSUME TakeEnded PROVE Lifecycle!Next
  <2>1. Head(queue).kind = "ended"
    BY <1>5 DEF TakeEnded, Receives
  <2>2. /\ seen.live # 0 /\ Head(queue).of = seen.live
        /\ Head(queue).reason \in Lifecycle!Reasons
    BY <1>0, <1>3, <1>5, <2>1, TakenInPlace
  <2>3. /\ seen'.live = 0 /\ seen'.last = seen.last
        /\ seen'.out = Lifecycle!PublishEnd(Head(queue).of, Head(queue).reason)
    BY <1>0, <1>5 DEF TakeEnded, SeenType
  <2>4. Lifecycle!Withdraw(Head(queue).reason)
    BY <1>3, <1>5, <2>2, <2>3 DEF Lifecycle!Withdraw
  <2> QED BY <2>2, <2>4 DEF Lifecycle!Next
<1>6. ASSUME TakeFinish PROVE Lifecycle!Next
  <2>1. Head(queue).kind \in {"eos", "error"}
    BY <1>6 DEF TakeFinish, Receives
  <2>2. seen.live = 0
    BY <1>0, <1>3, <1>6, <2>1, TakenInPlace
  <2>3. /\ seen'.live = seen.live /\ seen'.last = seen.last
        /\ seen'.out = Lifecycle!Finish(Head(queue).kind)
    BY <1>0, <1>6 DEF TakeFinish, SeenType
  <2>4. Lifecycle!Finishes(Head(queue).kind)
    BY <1>3, <1>6, <2>2, <2>3 DEF Lifecycle!Finishes
  <2> QED BY <2>1, <2>4 DEF Lifecycle!Next
<1>7. CASE CreateEnters \/ TaskPauses \/ CreateChecks \/ PollTimesOut \/ TakeStarted \/ TakeOther
  BY <1>2, <1>7 DEF CreateEnters, TaskPauses, CreateChecks, PollTimesOut, TakeStarted, TakeOther
<1>8. CASE Play \/ Pause \/ Deactivate \/ Stopping \/ PeerCloses \/ PeerResets \/ UNCHANGED vars
  BY <1>2, <1>8 DEF Play, Pause, Deactivate, Stopping, StopTakes, StopCancels, StopJoins,
     PeerCloses, PeerResets, vars
<1>9. CASE Worker \/ Publisher
  <2>1. WorkerKeeps
    BY <1>9 DEF Worker, Send, SendFails, HandlerCancels, Reported, AcceptCancelled, HandshakeReset,
       HandshakeShutdown, ReadEnds, Processed, Flush, Shutdown, Closes, Result, Publisher, Accept,
       AcceptFails, HandshakeDone, HandshakeFails, Read, ReadTimesOut, PublishAccepted,
       PublishRejected, Media, DeleteStream, BadMessage, FlushFails, WorkerOnly
  <2> QED BY <1>2, <2>1 DEF WorkerKeeps
<1> QED BY <1>1, <1>4, <1>5, <1>6, <1>7, <1>8, <1>9 DEF Next, Application, Create

\* Downstream sees publishers one after the other, each bracketed by its
\* publish-start and publish-end, and the stream finish only between them,
\* whatever the channel of one, create's local and the worker hold.  A second
\* publish on a connection breaks this (hazard at on_publish), and so does a
\* create that is flushed with a publish-start in hand: neither happens here.
THEOREM PublishersBracketed ==
    ASSUME Features \cap {"resume", "republish"} = {}
    PROVE  Spec => BracketsPublishers
<1>1. Init => Lifecycle!Init
  BY DEF Init, Unseen, Lifecycle!Init
<1>2. TypeInv /\ PipelineInv /\ [Next]_vars => PipelineInv'
  BY PipelineStep
<1>3. TypeInv /\ PipelineInv /\ [Next]_vars => [Lifecycle!Next]_(Lifecycle!vars)
  BY LifecycleStep
<1> QED BY <1>1, <1>2, <1>3, TypeInit, TypeStep, PipelineInit, PTL
        DEF Spec, BracketsPublishers, Lifecycle!Spec
=============================================================================
