--------------------------- MODULE RtmpListenSrc ----------------------------
(***************************************************************************)
(* scufflertmplistensrc (scuffle-rtmp/src/scufflertmplistensrc/imp.rs) and *)
(* the RTMP session it drives (vendor/scuffle-rtmp/src/session/server).    *)
(* Three threads: the application, which starts, pauses and stops the      *)
(* element; GstBaseSrc's streaming task, which calls create; and the       *)
(* worker, a single-threaded tokio runtime that accepts one publisher      *)
(* after the other.  Worker and task share a channel of one output.        *)
(*                                                                         *)
(* The publisher is external: it connects, sends any message a handler     *)
(* exists for, closes or resets its connection.                            *)
(***************************************************************************)
EXTENDS Naturals, Sequences

CONSTANTS
    Features,       \* what publishers and the application do, see below
    MaxConnections, \* bound: connections accepted before a stop
    MaxTags,        \* bound: media messages in a connection
    MaxStarts       \* bound: starts of the element

\* "resume": PLAYING again after PAUSED.  "probe": a connection closed in the
\* middle of the handshake.  "republish": a second publish on a connection.
AllFeatures == {"resume", "probe", "republish"}

ASSUME ListenSrcAssumption ==
    /\ Features \subseteq AllFeatures
    /\ MaxConnections \in Nat /\ MaxTags \in Nat /\ MaxStarts \in Nat

VARIABLES
    element,   \* "stopped", "paused", "playing"; while it stops "flushing",
               \* "taken" (stop took the State) and "joining"
    settings,  \* keep_listening, graceful_shutdown_timeout # 0
    flushing, newStream, \* the atomics
    task,      \* the streaming task, and create's pending_publish_start
    queue,     \* the output channel
    cancel, graceful,    \* the CancellationToken, graceful_shutdown
    worker,    \* where the worker is, and what it has still to send there
    nextId,    \* PublishIds.next
    session,   \* RtmpHandler, publishing_stream_ids and the session's result
    conn,      \* the connection: "none", "open", "closed" (and nothing left to
               \* read) or "reset"
    starts, connections, \* counted for the bounds
    seen       \* what downstream has seen; no code state

app == <<element, settings, starts>>
flags == <<flushing, newStream>>
tokens == <<cancel, graceful>>
peer == <<conn, connections>>
vars == <<app, flags, task, queue, tokens, worker, nextId, session, peer, seen>>

-----------------------------------------------------------------------------
Ids == 1 .. MaxConnections + 1

Lifecycle == INSTANCE PublisherLifecycle WITH
    Ids <- Ids, live <- seen.live, last <- seen.last, out <- seen.out

QueueCapacity == 1  \* OUTPUT_QUEUE_CAPACITY

Output(kind) == [kind |-> kind]
Data(data, id) == [kind |-> "data", data |-> data, of |-> id]
PublishStarted(id) == [kind |-> "started", of |-> id]
PublishEnded(id, reason) == [kind |-> "ended", of |-> id, reason |-> reason]

\* The State's receiver is dropped by stop; create's clone is gone by then.
ReceiverGone == element \in {"stopped", "taken", "joining"}

\* try_send(Wake): lost if the channel is full, which wakes as well.
Wake == queue' = IF Len(queue) < QueueCapacity THEN Append(queue, Output("wake")) ELSE queue

NewSession == [current |-> 0, header |-> FALSE, publishing |-> FALSE, rejected |-> FALSE,
               result |-> "none", tags |-> 0]
At(place) == [at |-> place, sends |-> <<>>, then |-> "none"]
\* The worker sends outputs in the middle of something, then goes on.
Sending(place, sends, then) == [at |-> place, sends |-> sends, then |-> then]

NewTask(place) == [at |-> place, started |-> 0]
Unseen == [live |-> 0, last |-> 0, out |-> Lifecycle!Nothing]

Init ==
    /\ element = "stopped" /\ settings = [keep |-> FALSE, graceful |-> FALSE] /\ starts = 0
    /\ flushing = FALSE /\ newStream = FALSE
    /\ task = NewTask("new") /\ queue = <<>>
    /\ cancel = FALSE /\ graceful = FALSE
    /\ worker = At("none") /\ nextId = 1 /\ session = NewSession
    /\ conn = "none" /\ connections = 0
    /\ seen = Unseen

-----------------------------------------------------------------------------
\* The application, through GstBaseSrc's state changes (external).

\* start: the settings are those set until then.
Start(keep, wait) ==
    /\ element = "stopped" /\ starts < MaxStarts
    /\ element' = "paused" /\ starts' = starts + 1
    /\ settings' = [keep |-> keep, graceful |-> wait]
    /\ flushing' = FALSE /\ newStream' = FALSE
    /\ task' = NewTask("new") /\ queue' = <<>>
    /\ cancel' = FALSE /\ graceful' = FALSE
    /\ worker' = At("accept") /\ nextId' = 1 /\ session' = NewSession
    /\ conn' = "none" /\ connections' = 0
    /\ seen' = Unseen

\* unlock_stop; a task that ended at EOS is not started again.
Play ==
    /\ element = "paused"
    /\ task.at = "new" \/ "resume" \in Features
    /\ element' = "playing"
    /\ flushing' = FALSE
    /\ task' = IF task.at \in {"new", "paused"} THEN NewTask("between") ELSE task
    /\ UNCHANGED <<settings, starts, newStream, queue, tokens, worker, nextId, session, peer, seen>>

\* unlock, on the way to PAUSED.
Pause ==
    /\ element = "playing"
    /\ element' = "paused"
    /\ flushing' = TRUE /\ Wake
    /\ UNCHANGED <<settings, starts, newStream, task, tokens, worker, nextId, session, peer, seen>>

\* unlock, on the way to READY.
Deactivate ==
    /\ element = "paused"
    /\ element' = "flushing"
    /\ flushing' = TRUE /\ Wake
    /\ UNCHANGED <<settings, starts, newStream, task, tokens, worker, nextId, session, peer, seen>>

\* stop, called once the task has been joined: the receiver goes first.
StopTakes ==
    /\ element = "flushing" /\ task.at \in {"new", "paused", "ended"}
    /\ element' = "taken"
    /\ flushing' = TRUE /\ newStream' = FALSE
    /\ queue' = <<>>
    /\ UNCHANGED <<settings, starts, task, tokens, worker, nextId, session, peer, seen>>

StopCancels ==
    /\ element = "taken"
    /\ element' = "joining"
    /\ graceful' = settings.graceful
    /\ cancel' = TRUE
    /\ UNCHANGED <<settings, starts, flags, task, queue, worker, nextId, session, peer, seen>>

StopJoins ==
    /\ element = "joining" /\ worker.at = "ended"
    /\ element' = "stopped"
    /\ UNCHANGED <<settings, starts, flags, task, queue, tokens, worker, nextId, session, peer, seen>>

Stopping == StopTakes \/ StopCancels \/ StopJoins

-----------------------------------------------------------------------------
\* The streaming task.

TaskKeeps == UNCHANGED <<app, flushing, tokens, worker, nextId, session, peer>>

\* create is called while the element plays; pending_publish_start is local.
CreateEnters ==
    /\ task.at = "between" /\ element = "playing"
    /\ task' = NewTask("check")
    /\ TaskKeeps /\ UNCHANGED <<newStream, queue, seen>>

\* GstBaseSrc stops calling it.
TaskPauses ==
    /\ task.at = "between" /\ element = "flushing"
    /\ task' = NewTask("paused")
    /\ TaskKeeps /\ UNCHANGED <<newStream, queue, seen>>

\* The head of create's loop.
CreateChecks ==
    /\ task.at = "check"
    /\ task' = IF flushing THEN NewTask("paused") ELSE [task EXCEPT !.at = "receive"]
    /\ TaskKeeps /\ UNCHANGED <<newStream, queue, seen>>

Receives(kinds) ==
    /\ task.at = "receive" /\ queue # <<>> /\ Head(queue).kind \in kinds
    /\ queue' = Tail(queue)

\* recv_timeout of CREATE_POLL_INTERVAL.  The channel is never disconnected:
\* the State keeps a sender as long as create can run.
PollTimesOut ==
    /\ task.at = "receive" /\ queue = <<>>
    /\ task' = [task EXCEPT !.at = "check"]
    /\ TaskKeeps /\ UNCHANGED <<newStream, queue, seen>>

TakeStarted ==
    /\ Receives({"started"})
    /\ task' = [at |-> "check", started |-> Head(queue).of]
    /\ TaskKeeps /\ UNCHANGED <<newStream, seen>>

\* Mutant: the events of the new stream are pushed for the next one too.
NoNewStreamSwap == newStream

\* new_stream_pending is swapped by the first buffer.
NewStreamPushed == FALSE

TakeData ==
    /\ Receives({"data"})
    /\ newStream' = NewStreamPushed
    /\ LET item == Head(queue)
           id == task.started
       IN  seen' = [live |-> IF id # 0 THEN id ELSE seen.live,
                    last |-> IF id # 0 THEN id ELSE seen.last,
                    out |-> Lifecycle!Buffer(item.data, item.of, id, newStream)]
    /\ task' = NewTask("between")
    /\ TaskKeeps

TakeEnded ==
    /\ Receives({"ended"})
    /\ newStream' = TRUE
    /\ seen' = [seen EXCEPT !.live = 0,
                            !.out = Lifecycle!PublishEnd(Head(queue).of, Head(queue).reason)]
    /\ task' = [task EXCEPT !.at = "check"]
    /\ TaskKeeps

TakeOther ==
    /\ Receives({"warning", "wake"})
    /\ task' = [task EXCEPT !.at = "check"]
    /\ TaskKeeps /\ UNCHANGED <<newStream, seen>>

\* create returns Eos or Error, and GstBaseSrc ends the task.
TakeFinish ==
    /\ Receives({"eos", "error"})
    /\ seen' = [seen EXCEPT !.out = Lifecycle!Finish(Head(queue).kind)]
    /\ task' = NewTask("ended")
    /\ TaskKeeps /\ UNCHANGED newStream

Create ==
    \/ CreateEnters \/ TaskPauses \/ CreateChecks \/ PollTimesOut
    \/ TakeStarted \/ TakeData \/ TakeEnded \/ TakeOther \/ TakeFinish

-----------------------------------------------------------------------------
\* The worker sends (send_output): it waits for room, and gives up once the
\* token is cancelled or the receiver is gone.  Both may be ready at once.

WorkerKeeps == UNCHANGED <<app, flags, task, seen>>

Send ==
    /\ worker.sends # <<>> /\ Head(worker.sends).kind # "cancel"
    /\ ~ReceiverGone /\ Len(queue) < QueueCapacity
    /\ queue' = Append(queue, Head(worker.sends))
    /\ worker' = [worker EXCEPT !.sends = Tail(@)]
    /\ WorkerKeeps /\ UNCHANGED <<tokens, nextId, session, peer>>

GivesUp == cancel \/ ReceiverGone

CancelLeft(sends) ==
    IF \E i \in DOMAIN sends : sends[i].kind = "cancel" THEN <<Output("cancel")>> ELSE <<>>

\* A handler sends nothing more, but cancels if it was about to; run_worker
\* returns.
SendFails ==
    /\ worker.sends # <<>> /\ Head(worker.sends).kind # "cancel"
    /\ GivesUp
    /\ worker' = IF worker.at = "process"
                 THEN [worker EXCEPT !.sends = CancelLeft(@)]
                 ELSE At("ended")
    /\ WorkerKeeps /\ UNCHANGED <<queue, tokens, nextId, session, peer>>

\* A handler that cannot go on cancels the token itself.
HandlerCancels ==
    /\ worker.sends # <<>> /\ Head(worker.sends).kind = "cancel"
    /\ cancel' = TRUE
    /\ worker' = [worker EXCEPT !.sends = Tail(@)]
    /\ WorkerKeeps /\ UNCHANGED <<queue, graceful, nextId, session, peer>>

\* What run_worker sent about a session is out.
Reported ==
    /\ worker.at = "report" /\ worker.sends = <<>>
    /\ worker' = At(worker.then)
    /\ WorkerKeeps /\ UNCHANGED <<queue, tokens, nextId, session, peer>>

-----------------------------------------------------------------------------
\* Accepting, and the handshake.

Goes(place) == worker' = At(place)
WorkerOnly == WorkerKeeps /\ UNCHANGED <<queue, tokens, nextId>>

Accept ==
    /\ worker.at = "accept" /\ connections < MaxConnections
    /\ Goes("handshake")
    /\ session' = NewSession
    /\ conn' = "open" /\ connections' = connections + 1
    /\ WorkerOnly

\* accept_timeout, or the socket fails.
AcceptFails ==
    /\ worker.at = "accept"
    /\ worker' = Sending("report", <<Output("error")>>, "ended")
    /\ WorkerOnly /\ UNCHANGED <<session, peer>>

AcceptCancelled ==
    /\ worker.at = "accept" /\ cancel
    /\ Goes("ended")
    /\ WorkerOnly /\ UNCHANGED <<session, peer>>

\* The session is over: its socket is dropped.
Ends(result) ==
    /\ Goes("result")
    /\ session' = [session EXCEPT !.result = result]
    /\ conn' = "none" /\ UNCHANGED connections

\* drive_handshake, to the end.  It reads on while a read returns nothing, so a
\* peer that closes half way leaves it reading.
HandshakeDone ==
    /\ worker.at = "handshake" /\ conn = "open"
    /\ Goes("drive")
    /\ WorkerOnly /\ UNCHANGED <<session, peer>>

\* Its errors are returned as they are: a malformed handshake, or a timeout or
\* reset, which is_client_disconnect recognises.
HandshakeFails ==
    /\ worker.at = "handshake" /\ conn = "open"
    /\ \E result \in {"error", "lost"} : Ends(result)
    /\ WorkerOnly

HandshakeReset ==
    /\ worker.at = "handshake" /\ conn = "reset"
    /\ Ends("lost")
    /\ WorkerOnly

HandshakeShutdown ==
    /\ worker.at = "handshake" /\ cancel
    /\ Ends(IF graceful THEN "open" ELSE "clean")
    /\ WorkerOnly

-----------------------------------------------------------------------------
\* The session (run_with_shutdown): "drive" is its select!, "process" is
\* process_chunks with messages left in the buffer, "flush" follows it outside
\* the select!.

\* Data arrives, which holds a message.
Read ==
    /\ worker.at = "drive" /\ conn = "open"
    /\ Goes("process")
    /\ WorkerOnly /\ UNCHANGED <<session, peer>>

\* The end of the connection: ids left in publishing_stream_ids tell an
\* unpublish from a disconnect.
ReadEnds ==
    /\ worker.at = "drive" /\ conn \in {"closed", "reset"}
    /\ Ends(IF session.publishing THEN "open" ELSE "clean")
    /\ WorkerOnly

Handles == worker.at = "process" /\ worker.sends = <<>>

\* ensure_header.
Header(id) == IF session.header THEN <<>> ELSE <<Data("header", id)>>

\* on_publish, application and stream key match.
PublishAccepted ==
    /\ Handles
    /\ "republish" \in Features \/ (session.current = 0 /\ ~session.publishing)
    /\ nextId \in Ids
    /\ worker' = Sending("process", <<PublishStarted(nextId)>> \o Header(nextId), "none")
    /\ session' = [session EXCEPT !.current = nextId, !.header = TRUE, !.publishing = TRUE]
    /\ nextId' = nextId + 1
    /\ WorkerKeeps /\ UNCHANGED <<queue, tokens, peer>>

\* on_publish, they do not.
PublishRejected ==
    /\ Handles
    /\ "republish" \in Features \/ (session.current = 0 /\ ~session.publishing)
    /\ IF settings.keep
       THEN /\ Goes("result")
            /\ session' = [session EXCEPT !.rejected = TRUE, !.result = "error"]
            /\ conn' = "none"
       ELSE /\ worker' = Sending("process", <<Output("error"), Output("cancel")>>, "none")
            /\ session' = [session EXCEPT !.publishing = TRUE]
            /\ UNCHANGED conn
    /\ WorkerOnly /\ UNCHANGED connections

\* on_data: a publisher sends media between publish and deleteStream.  The
\* chunk reader refuses a message too long for an FLV tag, so framing succeeds.
Media ==
    /\ Handles /\ session.publishing /\ session.tags < MaxTags
    /\ worker' = Sending("process", Header(session.current) \o <<Data("tag", session.current)>>,
                         "none")
    /\ session' = [session EXCEPT !.header = TRUE, !.tags = @ + 1]
    /\ WorkerOnly /\ UNCHANGED peer

\* deleteStream: on_unpublish only logs.
DeleteStream ==
    /\ Handles /\ session.publishing
    /\ session' = [session EXCEPT !.publishing = FALSE]
    /\ WorkerOnly /\ UNCHANGED <<worker, peer>>

\* A message the session cannot take: Play, publish before connect, a bad chunk.
BadMessage ==
    /\ Handles
    /\ Ends("error")
    /\ WorkerOnly

\* read-timeout passes: classified as a closed connection.
ReadTimesOut ==
    /\ worker.at = "drive" /\ conn = "open"
    /\ Ends(IF session.publishing THEN "open" ELSE "clean")
    /\ WorkerOnly

\* The buffer is used up (or held only messages without effect here).
Processed ==
    /\ Handles
    /\ Goes("flush")
    /\ WorkerOnly /\ UNCHANGED <<session, peer>>

\* The replies are written.
Flush ==
    /\ worker.at = "flush"
    /\ Goes("drive")
    /\ WorkerOnly /\ UNCHANGED <<session, peer>>

\* The write fails or times out.  run_with_shutdown returns the error of a
\* flush as it is.
FlushFails ==
    /\ worker.at = "flush"
    /\ Ends("lost")
    /\ WorkerOnly

\* Mutant: the session does not look at the token while it drives.
ShutdownUnseen == worker.at = "process" /\ worker.sends # <<>>

\* The select! sees the token while drive waits: for data, or for room in the
\* channel in the middle of a handler, of which the rest is dropped.
DriveWaits == worker.at = "drive" \/ (worker.at = "process" /\ worker.sends # <<>>)

Shutdown ==
    /\ DriveWaits /\ cancel
    /\ IF graceful THEN Goes("closing") /\ UNCHANGED <<session, peer>>
       ELSE Ends("open")
    /\ WorkerOnly

\* handle_shutdown: NetConnection.Connect.Closed is sent, and messages are
\* handled until the peer closes or the deadline passes.  Nothing they send
\* arrives: only stop makes a shutdown graceful, and the receiver is gone.
Closes ==
    /\ worker.at = "closing"
    /\ \E result \in {"open", "lost", "error"} : Ends(result)
    /\ WorkerOnly

\* Mutant: the end of a connection that never published is reported.
EndUnpublished(reason) == <<PublishEnded(session.current, reason)>>

\* Mutant: a publish-end is never sent.
NoPublishEnd(reason) == <<>>

PublishEnd(reason) ==
    IF session.current = 0 THEN <<>> ELSE <<PublishEnded(session.current, reason)>>

Report(sends, then) == worker' = Sending("report", sends, then)

\* Mutant: an abrupt disconnect ends the listener.
OnLostStops ==
    Report(PublishEnd("disconnect") \o <<Output("error")>>, "ended")

\* The arms of run_worker's match.
OnClean ==
    IF settings.keep THEN Report(PublishEnd("unpublished"), "accept")
    ELSE Report(PublishEnd("unpublished") \o <<Output("eos")>>, "ended")
OnOpen ==
    IF settings.keep THEN Report(PublishEnd("disconnect") \o <<Output("warning")>>, "accept")
    ELSE Report(PublishEnd("disconnect") \o <<Output("warning"), Output("eos")>>, "ended")
OnLost ==
    IF settings.keep THEN Report(PublishEnd("disconnect"), "accept")
    ELSE Report(PublishEnd("disconnect") \o <<Output("error")>>, "ended")
OnError == Report(PublishEnd("error") \o <<Output("error")>>, "ended")

Result ==
    /\ worker.at = "result"
    /\ IF settings.keep /\ session.rejected THEN Goes("accept")
       ELSE \/ session.result = "clean" /\ OnClean
            \/ session.result = "open" /\ OnOpen
            \/ session.result = "lost" /\ OnLost
            \/ session.result = "error" /\ OnError
    /\ WorkerOnly /\ UNCHANGED <<session, peer>>

\* What the worker does by itself, and what it does when a peer acts.
Worker ==
    \/ Send \/ SendFails \/ HandlerCancels \/ Reported
    \/ AcceptCancelled \/ HandshakeReset \/ HandshakeShutdown
    \/ ReadEnds \/ Processed \/ Flush \/ Shutdown \/ Closes \/ Result

Publisher ==
    \/ Accept \/ AcceptFails \/ HandshakeDone \/ HandshakeFails
    \/ Read \/ ReadTimesOut \/ PublishAccepted \/ PublishRejected \/ Media
    \/ DeleteStream \/ BadMessage \/ FlushFails

-----------------------------------------------------------------------------
\* The peer goes away; in the middle of the handshake only with "probe".
PeerCloses ==
    /\ conn = "open"
    /\ worker.at = "handshake" => "probe" \in Features
    /\ conn' = "closed"
    /\ UNCHANGED <<app, flags, task, queue, tokens, worker, nextId, session, connections, seen>>

PeerResets ==
    /\ conn \in {"open", "closed"}
    /\ conn' = "reset"
    /\ UNCHANGED <<app, flags, task, queue, tokens, worker, nextId, session, connections, seen>>

Application ==
    \/ \E keep, wait \in BOOLEAN : Start(keep, wait)
    \/ Play \/ Pause \/ Deactivate

Next == Application \/ Stopping \/ Create \/ Worker \/ Publisher \/ PeerCloses \/ PeerResets

Spec == Init /\ [][Next]_vars

\* The threads run: the task, the worker, and the application once it is in
\* stop.  A select! polls its branches in random order, so a publisher that
\* never stops sending does not keep the session from its shutdown (SF).  No
\* peer has to send or close, no call has to fail, and the application need not
\* act.
FairSpec ==
    /\ Spec
    /\ WF_vars(Create) /\ WF_vars(Worker) /\ WF_vars(Stopping)
    /\ SF_vars(Shutdown)

-----------------------------------------------------------------------------
Outputs ==
    [kind : {"warning", "error", "eos", "wake"}]
    \cup [kind : {"data"}, data : {"header", "tag"}, of : Nat]
    \cup [kind : {"started"}, of : Nat \ {0}]
    \cup [kind : {"ended"}, of : Nat \ {0}, reason : Lifecycle!Reasons]
Places == {"none", "accept", "handshake", "drive", "process", "flush", "closing", "result",
           "report", "ended"}

TypeOK ==
    /\ element \in {"stopped", "paused", "playing", "flushing", "taken", "joining"}
    /\ settings \in [keep : BOOLEAN, graceful : BOOLEAN]
    /\ flushing \in BOOLEAN /\ newStream \in BOOLEAN
    /\ cancel \in BOOLEAN /\ graceful \in BOOLEAN
    /\ task \in [at : {"new", "between", "check", "receive", "paused", "ended"}, started : Nat]
    /\ queue \in Seq(Outputs) /\ Len(queue) <= QueueCapacity
    /\ worker \in [at : Places, sends : Seq(Outputs \cup [kind : {"cancel"}]), then : Places]
    /\ nextId \in Nat \ {0}
    /\ session \in [current : 0 .. nextId - 1, header : BOOLEAN, publishing : BOOLEAN,
                    rejected : BOOLEAN, tags : Nat,
                    result : {"none", "clean", "open", "lost", "error"}]
    /\ conn \in {"none", "open", "closed", "reset"}
    /\ starts \in Nat /\ connections \in Nat

\* scuffle-rtmp/README.md, "Behaviour": downstream sees what PublisherLifecycle
\* promises, whatever state the channel of one, the task and the worker are in.
BracketsPublishers == Lifecycle!Spec

\* A publisher that is gone is noticed: its publish-end reaches downstream,
\* unless the application stops playing.  Nor does the worker end silently: EOS
\* or an error reaches the task.
EndIsReported ==
    /\ \A id \in Ids :
          (seen.live = id /\ conn \in {"closed", "reset"}) ~> (seen.live # id \/ element # "playing")
    /\ (worker.at = "ended") ~> (task.at = "ended" \/ element # "playing")

\* README, keep-listening: the listener "waits for another publisher" once one
\* has disconnected, in whatever place, unless what it sent was in error.
ListensAgain ==
    (settings.keep /\ conn \in {"closed", "reset"})
        ~> (worker.at = "accept" \/ session.result = "error" \/ element # "playing")

\* stop joins the worker: it returns wherever the worker waits, for a
\* publisher, for data, or for room in a channel nobody reads.
StopReturns == (element = "flushing") ~> (element = "stopped")
=============================================================================
