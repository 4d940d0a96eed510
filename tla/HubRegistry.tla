----------------------------- MODULE HubRegistry -----------------------------
(***************************************************************************)
(* Hub implements Registry, which HubState implements: what Hub does to    *)
(* queues and waiters in one step is what the maps and the loop behind the *)
(* state mutex provide.  A task holds its receiver while it is parked.  One *)
(* that timed out is deregistered, so that nobody can tell when it drops   *)
(* its receiver: in this view it never does.                               *)
(***************************************************************************)
EXTENDS HubProperties

HoldsReceiver(c) == ticket[c] # None /\ (pc[c] = "parked" \/ reply[c] = "timeout")
ReceiverOf(id) == {c \in Conns : HoldsReceiver(c) /\ ticket[c] = id}

\* Of a waiter the registry knows no task.
Seen(w) == [id |-> w.id, filter |-> w.filter]
RegisteredWaiters == [n \in Names |-> {Seen(w) : w \in waiters[n]}]

LiveIds == {ticket[c] : c \in {d \in Conns : HoldsReceiver(d)}}

Channels ==
  [i \in 1..nextId |->
     IF ReceiverOf(i - 1) = {} THEN None
     ELSE slot[CHOOSE c \in Conns : c \in ReceiverOf(i - 1)]]

State == INSTANCE Registry WITH
  Filters <- Filter, Envelopes <- Envelope,
  waiters <- RegisteredWaiters, alive <- LiveIds, channel <- Channels

\* Every step of a task is one operation on the registry, or changes nothing
\* there: a route hands over to the best live waiter or queues, an await takes
\* or registers, a timeout deregisters, and nobody else touches the maps.
UsesRegistry == State!Spec
=============================================================================
