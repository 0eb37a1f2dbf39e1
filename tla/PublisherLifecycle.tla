------------------------- MODULE PublisherLifecycle -------------------------
(***************************************************************************)
(* What scufflertmplistensrc promises downstream (scuffle-rtmp/README.md,  *)
(* "Behaviour"): publishers come one after the other; each is announced by *)
(* publish-start together with the FLV header, all media until its         *)
(* publish-end is its own, and the stream finishes only between            *)
(* publishers.                                                             *)
(***************************************************************************)
EXTENDS Naturals

CONSTANT Ids  \* the identifiers of publishers, positive numbers

VARIABLES
    live,  \* the publisher downstream knows of, 0 if none
    last,  \* the latest one announced
    out    \* what was pushed last

vars == <<live, last, out>>

Nothing == [push |-> "nothing"]

\* A buffer, and what was pushed in front of it by the same call: the events of
\* a new stream (fresh), and publish-start (start, 0 if it was not pushed).
Buffer(data, of, start, fresh) ==
    [push |-> "buffer", data |-> data, of |-> of, start |-> start, fresh |-> fresh]
PublishEnd(id, reason) == [push |-> "end", of |-> id, reason |-> reason]
Finish(how) == [push |-> "finish", how |-> how]

Reasons == {"unpublished", "disconnect", "error"}

Open == out.push # "finish"

Init == live = 0 /\ last = 0 /\ out = Nothing

\* "publish-start immediately before its first FLV buffer", "one FLV header,
\* including after a reconnect"; "on reconnect, the normal new-stream
\* STREAM_START, CAPS, and SEGMENT events precede" it.
Announce(id) ==
    /\ Open /\ live = 0 /\ id > last
    /\ live' = id /\ last' = id
    /\ out' = Buffer("header", id, id, last # 0)

Media ==
    /\ Open /\ live # 0
    /\ out' = Buffer("tag", live, 0, FALSE)
    /\ UNCHANGED <<live, last>>

\* "publish-end immediately after its final FLV buffer".
Withdraw(reason) ==
    /\ Open /\ live # 0
    /\ live' = 0
    /\ out' = PublishEnd(live, reason)
    /\ UNCHANGED last

\* EOS or an error.
Finishes(how) ==
    /\ Open /\ live = 0
    /\ out' = Finish(how)
    /\ UNCHANGED <<live, last>>

\* The element is stopped and started again; identifiers start anew.
Restarts == live' = 0 /\ last' = 0 /\ out' = Nothing

Next ==
    \/ \E id \in Ids : Announce(id)
    \/ Media
    \/ \E reason \in Reasons : Withdraw(reason)
    \/ \E how \in {"eos", "error"} : Finishes(how)
    \/ Restarts

Spec == Init /\ [][Next]_vars
=============================================================================
