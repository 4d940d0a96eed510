--------------------------------- MODULE Hub ---------------------------------
(***************************************************************************)
(* The routing core of agent-hub-server: the send and await verbs of        *)
(* authenticated connections, the per-agent queues, the registry of parked *)
(* awaits, the hub-side timeout, the write to the client with its three    *)
(* outcomes, the requeue after a clean failure, the bounce after a partial *)
(* one, and the audit log the two verbs append to.                         *)
(*                                                                         *)
(* Each connection is one tokio task that runs one verb.  A step of the    *)
(* model is what a task does between two points where another task can     *)
(* run and be noticed: one critical section of the state mutex, or one     *)
(* await.  commit_send holds the audit mutex across its append and its     *)
(* routing step, so a commit is one step.                                  *)
(***************************************************************************)
EXTENDS Routing, SequencesExt

CONSTANTS
  Conns,         \* connections; one sends or awaits at most one envelope
  Agents,        \* the names of the roster
  Names,         \* every name an envelope can be addressed to
  Kinds,
  HUB,           \* envelope::HUB_NAME
  BOUNCE,        \* envelope::BOUNCE_KIND
  Empty,         \* the empty string
  Sends,         \* the send requests clients may issue
  Awaits,        \* the await requests clients may issue
  AuditMayFail,  \* whether an append to the audit log can fail
  TasksMayDie    \* whether a task that awaits, or the closure of a commit, can
                 \* panic or be cancelled

\* What a client submits.  `from` is what it claims; wellFormed stands for
\* a nonempty id and a ts that parses.
SendRequest ==
  [as : Agents, from : Names, to : Names \cup {Empty}, kind : Kinds \cup {Empty},
   corr : Conns \cup {None, Empty}, wellFormed : BOOLEAN]

AwaitRequest ==
  [as : Agents, replyTo : Conns \cup {None, Empty}, kind : Kinds \cup {None, Empty},
   timed : BOOLEAN]

\* Every envelope is named after the connection that originates it: the CLI
\* and emit_bounce both draw a fresh UUIDv4.
Envelope ==
  [id : Conns, from : Names, to : Names, kind : Kinds, corr : Conns \cup {None}]

Filter == [replyTo : Conns \cup {None}, kind : Kinds \cup {None}]
Waiter == [id : Nat, filter : Filter, conn : Conns]

\* How much of an envelope line a socket accepted, if any of it.
WireContent == [id : Conns, how : {"whole", "part"}]

AuditEvent ==
  [type : {"accepted"}, env : Envelope]
    \cup [type : {"delivery"}, id : Conns, to : Agents, conn : Conns]

\* roster::load refuses a roster that defines the reserved name.
ASSUME HubAssumption ==
  /\ Agents \subseteq Names
  /\ HUB \in Names \ Agents
  /\ BOUNCE \in Kinds
  /\ None \notin Conns \cup Names \cup Kinds \cup Envelope \cup Nat \cup WireContent
  /\ Empty \notin Conns \cup Names \cup Kinds \cup {None}
  /\ Sends \subseteq SendRequest
  /\ Awaits \subseteq AwaitRequest
  /\ AuditMayFail \in BOOLEAN
  /\ TasksMayDie \in BOOLEAN

VARIABLES
  queues,    \* HubState.queues; no entry is the empty queue
  waiters,   \* HubState.waiters; no entry is the empty set
  nextId,    \* HubState.next_waiter_id
  pc,        \* where each connection's task stands
  who,       \* the authenticated name, once a verb is read
  slot,      \* the envelope a task owns; while it is parked, the content of
             \* its oneshot channel
  ticket,    \* the waiter id a parked task holds
  timed,     \* whether its await carries a timeout
  reply,     \* the line, other than an envelope, a task answered with
  wire,      \* what the socket of a task accepted of an envelope line
  audit,     \* the accepted and delivery events of the audit log
  returned,  \* history: envelopes a clean failure sent back to routing
  dropped    \* history: accepted envelopes that went with a task or a commit
             \* that died while it held them

vars == <<queues, waiters, nextId, pc, who, slot, ticket, timed, reply, wire,
          audit, returned, dropped>>

TypeOK ==
  /\ queues \in [Names -> Seq(Envelope)]
  /\ waiters \in [Names -> SUBSET Waiter]
  /\ nextId \in Nat
  /\ pc \in [Conns -> {"ready", "commit", "parked", "dead", "deliver", "log",
                       "bounce", "closed"}]
  /\ who \in [Conns -> Agents \cup {None}]
  /\ slot \in [Conns -> Envelope \cup {None}]
  /\ ticket \in [Conns -> Nat \cup {None}]
  /\ timed \in [Conns -> BOOLEAN]
  /\ reply \in [Conns -> {"none", "invalid", "accepted", "refused", "timeout"}]
  /\ wire \in [Conns -> WireContent \cup {None}]
  /\ audit \in Seq(AuditEvent)
  /\ returned \in SUBSET Conns
  /\ dropped \in SUBSET Conns

Init ==
  /\ queues = [n \in Names |-> <<>>]
  /\ waiters = [n \in Names |-> {}]
  /\ nextId = 0
  /\ pc = [c \in Conns |-> "ready"]
  /\ who = [c \in Conns |-> None]
  /\ slot = [c \in Conns |-> None]
  /\ ticket = [c \in Conns |-> None]
  /\ timed = [c \in Conns |-> FALSE]
  /\ reply = [c \in Conns |-> "none"]
  /\ wire = [c \in Conns |-> None]
  /\ audit = <<>>
  /\ returned = {}
  /\ dropped = {}

-----------------------------------------------------------------------------
(* Moves of one task. *)

Goto(c, from, to) == /\ pc[c] = from
                     /\ pc' = [pc EXCEPT ![c] = to]

\* The task writes its last line and ends; the outcome of the write changes
\* nothing, so it is part of the step that decides the line.
Answer(c, from, line) == /\ Goto(c, from, "closed")
                         /\ reply' = [reply EXCEPT ![c] = line]

-----------------------------------------------------------------------------
(* Routing, under the state lock.  The envelope leaves the slot of c. *)

\* Sending into the channel of a dead task fails: the waiter stays removed
\* and the next best one is tried, so exactly the dead candidates that
\* outrank the winner are purged with it.
WinnerOnly(w, candidates) == {w}                                         \* mutant
PurgedOnly(w, candidates) == {d \in candidates : Outranks(d, w)}         \* mutant
Deregistered(w, candidates) == {w} \cup {d \in candidates : Outranks(d, w)}

HandOffToAnyone(env, c) ==                                               \* mutant
  \E w \in Candidates(waiters[env.to], env) :
    /\ IsBest(w, Candidates(waiters[env.to], env))
    /\ waiters' = [waiters EXCEPT ![env.to] = @ \ {w}]
    /\ slot' = [slot EXCEPT ![c] = None, ![w.conn] = env]
    /\ UNCHANGED queues
HandOff(env, c) ==
  LET candidates == Candidates(waiters[env.to], env)
      live == {w \in candidates : pc[w.conn] # "dead"}
  IN \E w \in live :
       /\ IsBest(w, live)
       /\ waiters' = [waiters EXCEPT ![env.to] =
                        @ \ Deregistered(w, candidates)]
       /\ slot' = [slot EXCEPT ![c] = None, ![w.conn] = env]
       /\ UNCHANGED queues

\* No live candidate: every dead one has been purged and the envelope queues.
Enqueue(env, c, newQueue) ==
  LET candidates == Candidates(waiters[env.to], env)
  IN /\ \A w \in candidates : pc[w.conn] = "dead"
     /\ waiters' = [waiters EXCEPT ![env.to] = @ \ candidates]
     /\ queues' = [queues EXCEPT ![env.to] = newQueue]
     /\ slot' = [slot EXCEPT ![c] = None]

RouteToBack(env, c) ==
  HandOff(env, c) \/ Enqueue(env, c, Append(queues[env.to], env))
RouteToFront(env, c) ==
  HandOff(env, c) \/ Enqueue(env, c, <<env>> \o queues[env.to])

AppendAccepted(env) == audit' = Append(audit, [type |-> "accepted", env |-> env])

\* commit_send on an audit log that takes the line: append, then route.
Commit(env, c) ==
  /\ AppendAccepted(env)
  /\ RouteToBack(env, c)
  /\ UNCHANGED dropped

\* Every append can fail; an envelope the hub cannot audit goes nowhere.
AuditFails(c) ==
  /\ AuditMayFail
  /\ slot' = [slot EXCEPT ![c] = None]
  /\ UNCHANGED <<audit, queues, waiters, dropped>>

\* The JoinError of commit_send: its closure died, before the append or between
\* the append and the routing step.  Either way nothing was routed.
Abandon(env, c) ==
  /\ TasksMayDie
  /\ slot' = [slot EXCEPT ![c] = None]
  /\ \/ UNCHANGED <<audit, dropped>>
     \/ AppendAccepted(env) /\ dropped' = dropped \cup {env.id}
  /\ UNCHANGED <<queues, waiters>>

-----------------------------------------------------------------------------
(* The send verb. *)

\* Envelope::validate
ValidateIgnoringKind(r) == r.wellFormed /\ r.to # Empty /\ r.corr # Empty  \* mutant
Validate(r) == /\ r.wellFormed
               /\ r.to # Empty
               /\ r.kind # Empty
               /\ r.corr # Empty

\* The claimed `from` gives way to the authenticated name.
StampNothing(c, r) ==                                                    \* mutant
  [id |-> c, from |-> r.from, to |-> r.to, kind |-> r.kind, corr |-> r.corr]
Stamp(c, r) ==
  [id |-> c, from |-> r.as, to |-> r.to, kind |-> r.kind, corr |-> r.corr]

SendVerb(c, r) ==
  /\ who' = [who EXCEPT ![c] = r.as]
  /\ \/ /\ Validate(r)
        /\ Goto(c, "ready", "commit")
        /\ slot' = [slot EXCEPT ![c] = Stamp(c, r)]
        /\ UNCHANGED reply
     \/ /\ ~Validate(r)
        /\ Answer(c, "ready", "invalid")
        /\ UNCHANGED slot
  /\ UNCHANGED <<queues, waiters, nextId, ticket, timed, wire, audit, returned,
                 dropped>>

CommitSend(c) ==
  /\ \/ Answer(c, "commit", "accepted") /\ Commit(slot[c], c)
     \/ Answer(c, "commit", "refused") /\ (AuditFails(c) \/ Abandon(slot[c], c))
  /\ UNCHANGED <<nextId, who, ticket, timed, wire, returned>>

-----------------------------------------------------------------------------
(* The await verb. *)

FilterOf(r) == [replyTo |-> r.replyTo, kind |-> r.kind]

AwaitInvalid(c, r) ==
  /\ r.replyTo = Empty \/ r.kind = Empty
  /\ Answer(c, "ready", "invalid")
  /\ who' = [who EXCEPT ![c] = r.as]
  /\ UNCHANGED <<queues, waiters, nextId, slot, ticket, timed, wire, audit, returned,
                 dropped>>

\* take_queued finds a match: it leaves the queue, wherever it sits.
AwaitQueued(c, r) ==
  /\ r.replyTo # Empty /\ r.kind # Empty
  /\ Goto(c, "ready", "deliver")
  /\ \E i \in DOMAIN queues[r.as] :
       /\ IsFirstMatch(i, queues[r.as], FilterOf(r))
       /\ slot' = [slot EXCEPT ![c] = queues[r.as][i]]
       /\ queues' = [queues EXCEPT ![r.as] = RemoveAt(@, i)]
  /\ who' = [who EXCEPT ![c] = r.as]
  /\ UNCHANGED <<waiters, nextId, ticket, timed, reply, wire, audit, returned,
                 dropped>>

\* Nothing queued matches: the same critical section registers a waiter.
NothingInFront(r) == queues[r.as] # <<>> => ~Matches(FilterOf(r), queues[r.as][1])  \* mutant
NothingQueuedFor(r) ==
  \A i \in DOMAIN queues[r.as] : ~Matches(FilterOf(r), queues[r.as][i])

AwaitPark(c, r) ==
  /\ r.replyTo # Empty /\ r.kind # Empty
  /\ Goto(c, "ready", "parked")
  /\ NothingQueuedFor(r)
  /\ waiters' = [waiters EXCEPT ![r.as] =
                   @ \cup {[id |-> nextId, filter |-> FilterOf(r), conn |-> c]}]
  /\ ticket' = [ticket EXCEPT ![c] = nextId]
  /\ nextId' = nextId + 1
  /\ who' = [who EXCEPT ![c] = r.as]
  /\ timed' = [timed EXCEPT ![c] = r.timed]
  /\ UNCHANGED <<queues, slot, reply, wire, audit, returned, dropped>>

AwaitVerb(c, r) == AwaitInvalid(c, r) \/ AwaitQueued(c, r) \/ AwaitPark(c, r)

\* The channel holds an envelope: the wait ends, whether the receiver was
\* polled first or the timer was and found the waiter gone.
ReceiveUntimed(c) ==                                                     \* mutant
  /\ slot[c] # None /\ ~timed[c]
  /\ Goto(c, "parked", "deliver")
  /\ UNCHANGED <<queues, waiters, nextId, who, slot, ticket, timed, reply, wire,
                 audit, returned, dropped>>
Receive(c) ==
  /\ slot[c] # None
  /\ Goto(c, "parked", "deliver")
  /\ UNCHANGED <<queues, waiters, nextId, who, slot, ticket, timed, reply, wire,
                 audit, returned, dropped>>

\* The timer fires and remove_waiter finds the task's own waiter.
TimeoutUnchecked(c) ==                                                   \* mutant
  /\ timed[c]
  /\ waiters' = [waiters EXCEPT ![who[c]] = {w \in @ : w.id # ticket[c]}]
  /\ Answer(c, "parked", "timeout")
  /\ UNCHANGED <<queues, nextId, who, slot, ticket, timed, wire, audit, returned,
                 dropped>>
Timeout(c) ==
  /\ timed[c]
  /\ \E w \in waiters[who[c]] :
       /\ w.id = ticket[c]
       /\ waiters' = [waiters EXCEPT ![who[c]] = @ \ {w}]
  /\ Answer(c, "parked", "timeout")
  /\ UNCHANGED <<queues, nextId, who, slot, ticket, timed, wire, audit, returned,
                 dropped>>

\* A task ends with what it holds: parked, without deregistering, and its
\* receiver and what is in its channel with it; or before it wrote a byte.
TaskDies(c) ==
  /\ TasksMayDie
  /\ Goto(c, "parked", "dead") \/ Goto(c, "deliver", "closed")
  /\ slot' = [slot EXCEPT ![c] = None]
  /\ dropped' = dropped \cup {e.id : e \in {slot[c]} \ {None}}
  /\ UNCHANGED <<queues, waiters, nextId, who, ticket, timed, reply, wire, audit,
                 returned>>

-----------------------------------------------------------------------------
(* Delivery: the write of the envelope line to the await client. *)

WriteWhole(c) ==
  /\ Goto(c, "deliver", "log")
  /\ wire' = [wire EXCEPT ![c] = [id |-> slot[c].id, how |-> "whole"]]
  /\ UNCHANGED <<queues, waiters, nextId, who, slot, ticket, timed, reply, audit,
                 returned, dropped>>

\* Not a byte was accepted: the envelope re-enters routing.
WriteFailsClean(c) ==
  /\ Goto(c, "deliver", "closed")
  /\ RouteToFront(slot[c], c)
  /\ returned' = returned \cup {slot[c].id}
  /\ UNCHANGED <<nextId, who, ticket, timed, reply, wire, audit, dropped>>

\* Some bytes were: the envelope is consumed and lost.  A lost bounce ends here.
PartialAsWritten(c) ==                                                   \* mutant
  /\ Goto(c, "deliver", "log")
  /\ wire' = [wire EXCEPT ![c] = [id |-> slot[c].id, how |-> "part"]]
  /\ UNCHANGED <<queues, waiters, nextId, who, slot, ticket, timed, reply, audit,
                 returned, dropped>>
PartialRequeued(c) ==                                                    \* mutant
  /\ Goto(c, "deliver", "closed")
  /\ wire' = [wire EXCEPT ![c] = [id |-> slot[c].id, how |-> "part"]]
  /\ RouteToFront(slot[c], c)
  /\ UNCHANGED <<nextId, who, ticket, timed, reply, audit, returned, dropped>>
WriteFailsPartial(c) ==
  /\ pc[c] = "deliver"
  /\ wire' = [wire EXCEPT ![c] = [id |-> slot[c].id, how |-> "part"]]
  /\ \/ /\ slot[c].from # HUB
        /\ Goto(c, "deliver", "bounce")
        /\ UNCHANGED slot
     \/ /\ slot[c].from = HUB
        /\ Goto(c, "deliver", "closed")
        /\ slot' = [slot EXCEPT ![c] = None]
  /\ UNCHANGED <<queues, waiters, nextId, who, ticket, timed, reply, audit, returned,
                 dropped>>

LogDelivery(c) ==
  /\ Goto(c, "log", "closed")
  /\ \/ /\ audit' = Append(audit, [type |-> "delivery", id |-> slot[c].id,
                                   to |-> who[c], conn |-> c])
        /\ slot' = [slot EXCEPT ![c] = None]
        /\ UNCHANGED <<queues, waiters, dropped>>
     \/ AuditFails(c)
  /\ UNCHANGED <<nextId, who, ticket, timed, reply, wire, returned>>

\* emit_bounce's notice to the sender of the envelope c lost.
BounceToRecipient(c) ==                                                  \* mutant
  [id |-> c, from |-> HUB, to |-> slot[c].to, kind |-> BOUNCE,
   corr |-> slot[c].id]
Bounce(c) ==
  [id |-> c, from |-> HUB, to |-> slot[c].from, kind |-> BOUNCE,
   corr |-> slot[c].id]

EmitBounce(c) ==
  /\ Goto(c, "bounce", "closed")
  /\ Commit(Bounce(c), c) \/ AuditFails(c) \/ Abandon(Bounce(c), c)
  /\ UNCHANGED <<nextId, who, ticket, timed, reply, wire, returned>>

-----------------------------------------------------------------------------
\* The steps the runtime owes a task once its input is there.
TaskStep(c) ==
  CommitSend(c) \/ Receive(c) \/ Timeout(c) \/ LogDelivery(c) \/ EmitBounce(c)

\* The socket decides how a write ends; the model does not promise it ends.
Write(c) == WriteWhole(c) \/ WriteFailsClean(c) \/ WriteFailsPartial(c)

Next ==
  \E c \in Conns :
    \/ \E r \in Sends : SendVerb(c, r)
    \/ \E r \in Awaits : AwaitVerb(c, r)
    \/ TaskStep(c)
    \/ Write(c)
    \/ TaskDies(c)

Spec == Init /\ [][Next]_vars

FairSpec == Spec /\ \A c \in Conns : WF_vars(TaskStep(c))
=============================================================================
