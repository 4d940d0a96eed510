-------------------------------- MODULE MCHub --------------------------------
(***************************************************************************)
(* Instances of Hub for TLC: two agents, one of which orders tasks from the *)
(* other, and the hub's own name.                                          *)
(***************************************************************************)
EXTENDS HubMailbox, HubRegistry

CONSTANTS boss, worker, hub, task, bounce

MCAgents == {boss, worker}
MCNames == {boss, worker, hub}
MCKinds == {task, bounce}

Send(as, from, to, kind, corr) ==
  [as |-> as, from |-> from, to |-> to, kind |-> kind, corr |-> corr, wellFormed |-> TRUE]
Await(as, replyTo, kind, hasTimeout) ==
  [as |-> as, replyTo |-> replyTo, kind |-> kind, timed |-> hasTimeout]

\* A task under a borrowed name, a reply, a letter to the hub itself, and
\* requests that fail validation.
Task == Send(boss, hub, worker, task, None)
Replies == {Send(worker, worker, boss, task, x) : x \in Conns}
Invalid == {Send(boss, boss, worker, Empty, None), Send(boss, boss, Empty, task, None),
            Send(boss, boss, worker, task, Empty), [Task EXCEPT !.wellFormed = FALSE]}

AnyFor(as, hasTimeout) == Await(as, None, None, hasTimeout)
OfKind(as, kind) == Await(as, None, kind, FALSE)
ReplyTo(as, x) == Await(as, x, None, TRUE)

\* Everything clients may ask for: filtered and unfiltered awaits of both agents.
RoutingSends == {Task, Send(boss, boss, hub, task, None)} \cup Replies \cup Invalid
RoutingAwaits ==
  {AnyFor(worker, TRUE), OfKind(worker, task), AnyFor(boss, FALSE), OfKind(boss, bounce),
   Await(boss, Empty, None, FALSE), Await(boss, None, Empty, FALSE)}
    \cup {ReplyTo(boss, x) : x \in Conns}

\* Tasks, and waits that only an envelope can end beside one that a timeout
\* can.  The names of connections are interchangeable, so the sender waits for
\* the fate of one of them, which stands for any.
LivenessSends == {Task}
LivenessAwaits == {AnyFor(worker, TRUE), AnyFor(boss, FALSE),
                   Await(boss, CHOOSE x \in Conns : TRUE, None, FALSE)}

\* As much as it takes for requeues, losses, timeouts and deaths, with waiters
\* of two ranks and of one.
MailboxSends == {Task}
MailboxAwaits == {AnyFor(worker, TRUE), OfKind(worker, task), AnyFor(boss, FALSE)}

Symmetry == Permutations(Conns)
=============================================================================
