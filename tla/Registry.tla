------------------------------- MODULE Registry -------------------------------
(***************************************************************************)
(* The state behind the state mutex as the rest of the hub may think of it: *)
(* a queue and a set of waiters per name, and operations that happen at    *)
(* once.  HubState is the code that provides it.                           *)
(***************************************************************************)
EXTENDS Routing, SequencesExt

CONSTANTS Names, Filters, Envelopes

VARIABLES
  queues,    \* the queue of each name
  waiters,   \* the registered waiters of each name
  nextId,    \* the id the next waiter gets
  alive,     \* ids of waiters whose task still holds the receiver
  channel    \* what each waiter's channel holds

vars == <<queues, waiters, nextId, alive, channel>>

Init ==
  /\ queues = [n \in Names |-> <<>>]
  /\ waiters = [n \in Names |-> {}]
  /\ nextId = 0
  /\ alive = {}
  /\ channel = <<>>

Register(n, filter) ==
  /\ \A i \in DOMAIN queues[n] : ~Matches(filter, queues[n][i])
  /\ nextId' = nextId + 1
  /\ waiters' = [waiters EXCEPT ![n] = @ \cup {[id |-> nextId, filter |-> filter]}]
  /\ alive' = alive \cup {nextId}
  /\ channel' = Append(channel, None)
  /\ UNCHANGED queues

Take(n, filter) ==
  /\ \E i \in DOMAIN queues[n] :
       /\ IsFirstMatch(i, queues[n], filter)
       /\ queues' = [queues EXCEPT ![n] = RemoveAt(@, i)]
  /\ UNCHANGED <<waiters, nextId, alive, channel>>

Deregister(n, id) ==
  /\ waiters' = [waiters EXCEPT ![n] = {w \in @ : w.id # id}]
  /\ UNCHANGED <<queues, nextId, alive, channel>>

\* The receiver goes, and with it what the channel held: to the task that
\* received it, or nowhere.
Drop(id) ==
  /\ alive' = alive \ {id}
  /\ channel' = [channel EXCEPT ![id + 1] = None]
  /\ UNCHANGED <<queues, waiters, nextId>>

\* The best live waiter gets the envelope; the dead ones ahead of it go.
HandOff(env) ==
  LET candidates == Candidates(waiters[env.to], env)
      live == {w \in candidates : w.id \in alive}
  IN /\ \E w \in live :
          /\ IsBest(w, live)
          /\ channel' = [channel EXCEPT ![w.id + 1] = env]
          /\ waiters' = [waiters EXCEPT ![env.to] =
                           @ \ ({w} \cup {d \in candidates : Outranks(d, w)})]
     /\ UNCHANGED <<queues, nextId, alive>>

\* Only dead waiters match: they go, and the envelope queues.
Enqueue(env, newQueue) ==
  LET candidates == Candidates(waiters[env.to], env)
  IN /\ queues' = [queues EXCEPT ![env.to] = newQueue]
     /\ \A w \in candidates : w.id \notin alive
     /\ waiters' = [waiters EXCEPT ![env.to] = @ \ candidates]
     /\ UNCHANGED <<nextId, alive, channel>>

Route(env) ==
  \/ HandOff(env)
  \/ Enqueue(env, Append(queues[env.to], env))
  \/ Enqueue(env, <<env>> \o queues[env.to])

Next ==
  \/ \E n \in Names, f \in Filters : Register(n, f) \/ Take(n, f)
  \/ \E n \in Names, id \in 0..(nextId - 1) : Deregister(n, id)
  \/ \E id \in alive : Drop(id)
  \/ \E env \in Envelopes : Route(env)

Spec == Init /\ [][Next]_vars
=============================================================================
