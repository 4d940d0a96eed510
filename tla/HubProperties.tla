---------------------------- MODULE HubProperties ----------------------------
(***************************************************************************)
(* What the routing core promises: the invariants, action properties and   *)
(* liveness properties of Hub, for TLC to check on small instances and for *)
(* HubProofs to prove.  The last section states a sentence of the          *)
(* repository's documents that the code does not keep.                     *)
(***************************************************************************)
EXTENDS Hub

AcceptedAt(k) == k \in DOMAIN audit /\ audit[k].type = "accepted"
DeliveryAt(k) == k \in DOMAIN audit /\ audit[k].type = "delivery"

\* The envelopes of the audit log's accepted events.
Accepted == {audit[k].env : k \in {j \in DOMAIN audit : AcceptedAt(j)}}
AcceptedIds == {e.id : e \in Accepted}

\* Where an envelope can be: a position of a queue, the hands of a live task
\* (in its channel or on its way to the socket), or a socket that accepted
\* bytes.  A channel whose receiver is gone is no place.
QueuePlaces(x) ==
  UNION {{<<"queue", n, i>> : i \in {j \in DOMAIN queues[n] : queues[n][j].id = x}} :
           n \in Names}
TaskPlaces(x) ==
  {<<"task", c>> : c \in {d \in Conns : /\ pc[d] \in {"parked", "deliver"}
                                        /\ slot[d] # None
                                        /\ slot[d].id = x}}
SocketPlaces(x) ==
  {<<"socket", c>> : c \in {d \in Conns : wire[d] # None /\ wire[d].id = x}}
Places(x) == QueuePlaces(x) \cup TaskPlaces(x) \cup SocketPlaces(x)

HubEnvelopes == {e \in Accepted : e.from = HUB}

-----------------------------------------------------------------------------
(* Safety. *)

\* No envelope slips past between "nothing queued" and "waiter parked": an
\* await is never parked on an agent whose queue holds an envelope it would
\* take, whatever sends, awaits, timeouts and requeues did in between
\* (handle_await's critical section and route_envelope).
NoMissedMatch ==
  \A n \in Names : \A w \in waiters[n], i \in DOMAIN queues[n] :
    ~Matches(w.filter, queues[n][i])

\* An accepted envelope is in exactly one place and nothing else is in any:
\* it is neither lost nor duplicated by the handoff, the purge of dead
\* waiters, the timeout race or the requeue, and at most one socket ever
\* accepts a byte of it (at-most-once).  The hub loses an accepted envelope
\* only with the task or the commit that dies holding it, and such an envelope
\* does not turn up again.  What is refused is nowhere, unless the commit died
\* and nobody knows (commit_send, "the commit's fate is unknown").
ExactlyOnePlace ==
  \A x \in Conns :
    IF x \in AcceptedIds \ dropped
    THEN \E p \in Places(x) : Places(x) = {p}
    ELSE Places(x) = {}

\* A parked task is registered under its own name and id until something is
\* in its channel, and not after.  So the timeout path may take "still
\* registered" for "nothing was handed over", and a closed channel without an
\* envelope (HandoffOutcome::ChannelLost) cannot happen.
RegisteredUntilHanded ==
  /\ \A c \in Conns : pc[c] = "parked" =>
       (slot[c] = None <=> \E w \in waiters[who[c]] : w.conn = c /\ w.id = ticket[c])
  /\ \A n \in Names : \A w \in waiters[n] :
       /\ pc[w.conn] \in {"parked", "dead"}
       /\ who[w.conn] = n /\ ticket[w.conn] = w.id /\ slot[w.conn] = None

\* "A timeout reply guarantees nothing was consumed", then and later: no
\* waiter is left that a send could hand an envelope to, and none was handed.
TimeoutConsumesNothing ==
  \A c \in Conns : reply[c] = "timeout" =>
    /\ slot[c] = None /\ wire[c] = None
    /\ \A n \in Names : \A w \in waiters[n] : w.conn # c

\* A queue is a run of returned envelopes followed by envelopes that were
\* never out, and the latter stand in the order the audit log accepted them.
\* So a requeued envelope is never behind one that was not, and what was never
\* requeued is FIFO (QueuePlacement, commit_send).  Among the requeued ones no
\* order is claimed: each that comes back goes in front of the others.
ReturnedThenFifo ==
  \A n \in Names : \A i, j \in DOMAIN queues[n] : i < j =>
    LET x == queues[n][i].id
        y == queues[n][j].id
    IN /\ y \in returned => x \in returned
       /\ x \notin returned =>
            \E k, l \in DOMAIN audit :
              /\ k < l
              /\ AcceptedAt(k) /\ audit[k].env.id = x
              /\ AcceptedAt(l) /\ audit[l].env.id = y

\* The audit log joins on the envelope id: a delivery event follows the one
\* accepted event of its envelope, names its addressee, is the only one for
\* it, and the socket it names took the whole line (audit.rs, "joins to the
\* accepted envelope by id").
DeliveriesJoin ==
  \A k \in DOMAIN audit : DeliveryAt(k) =>
    /\ wire[audit[k].conn] = [id |-> audit[k].id, how |-> "whole"]
    /\ who[audit[k].conn] = audit[k].to
    /\ \E j \in 1..(k - 1) : /\ AcceptedAt(j)
                             /\ audit[j].env.id = audit[k].id
                             /\ audit[j].env.to = audit[k].to
    /\ \A l \in DOMAIN audit \ {k} : DeliveryAt(l) => audit[l].id # audit[k].id

\* `from: hub` is unforgeable and a bounce tells the truth: an envelope from
\* the hub was committed because a socket took part of an earlier envelope of
\* the agent it is addressed to, which was not itself from the hub and is
\* never logged as delivered; no loss is reported twice.
BouncesTellTheTruth ==
  \A b \in HubEnvelopes :
    /\ b.kind = BOUNCE
    /\ wire[b.id] = [id |-> b.corr, how |-> "part"]
    /\ \E e \in Accepted : e.id = b.corr /\ e.from = b.to /\ e.from # HUB
    /\ \A k \in DOMAIN audit : DeliveryAt(k) => audit[k].id # b.corr
    /\ \A o \in HubEnvelopes : o.corr = b.corr => o = b

-----------------------------------------------------------------------------
(* Liveness, under FairSpec. *)

\* A wait that has something to end it ends: a timeout that lost the race
\* against a handoff does not leave the task waiting on its channel.
WaitsEnd ==
  \A c \in Conns : (pc[c] = "parked" /\ (timed[c] \/ slot[c] # None)) ~> pc[c] # "parked"

\* x was lost: a socket took part of it, and it is not a bounce.
Lost(x) == /\ \E c \in Conns : wire[c] = [id |-> x, how |-> "part"]
           /\ \A e \in HubEnvelopes : e.id # x

\* Every loss after a partial write is reported in the audit log and in the
\* sender's stream, as long as the audit log takes events and the commit of the
\* bounce does not die (deliver_envelope).
LossesReported == \A x \in Conns : Lost(x) ~> \E b \in HubEnvelopes : b.corr = x

\* The bounce of x is with the task d, an await of its addressee, or its
\* socket took bytes of it.
HasBounceOf(d, x) ==
  \E b \in HubEnvelopes :
    /\ b.corr = x /\ who[d] = b.to
    /\ slot[d] = b \/ (wire[d] # None /\ wire[d].id = b.id)

\* "A sender blocked in `await --reply-to <lost id>` receives the bounce as
\* the answer to that wait": the wait ends, unless another await of that
\* agent takes the bounce, before the sender parks or while it is parked, and
\* then the bounce does not come free again under the sender's eyes: it stays
\* with awaits of that agent or has reached the socket of one (emit_bounce).
BlockedSenderLearns ==
  \A c, x \in Conns :
    (/\ Lost(x) /\ who[c] = who[x] /\ pc[c] = "parked"
     /\ \E w \in waiters[who[c]] : w.conn = c /\ w.filter = [replyTo |-> x, kind |-> None])
      ~> [](pc[c] # "parked" \/ \E d \in Conns \ {c} : HasBounceOf(d, x))

-----------------------------------------------------------------------------
(* A sentence of the documents that the code does not keep. *)

\* SPEC "Audit Log": "the log's append order is the authoritative ordering
\* of protocol events".  The delivery of an envelope precedes the reply its
\* recipient sends after reading it, but the delivery event is appended
\* after the write, and the reply can be accepted in between.
ReplyAuditedAfterDelivery ==
  [][\A d \in Conns :
       (wire[d] # None /\ wire[d].how = "whole" /\ Len(audit') > Len(audit)) =>
         LET new == audit'[Len(audit')]
         IN (new.type = "accepted" /\ new.env.from = who[d] /\ new.env.corr = wire[d].id)
              => \E k \in DOMAIN audit : DeliveryAt(k) /\ audit[k].id = wire[d].id]_vars
=============================================================================
