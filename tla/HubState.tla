------------------------------- MODULE HubState -------------------------------
(***************************************************************************)
(* HubState as the code keeps it: two maps whose entries exist only while  *)
(* they are nonempty, a Vec of waiters per name in the order of their      *)
(* registration, and route_envelope's loop, which scans the Vec, removes   *)
(* the best match, and tries the next when that one's receiver is gone.    *)
(* The state mutex makes every operation exclude the others, but a task    *)
(* may end, or receive, and so drop its receiver at any moment of the loop. *)
(***************************************************************************)
EXTENDS Routing, SequencesExt

CONSTANTS Names, Filters, Envelopes, MaxWaiters, MaxRoutes

ASSUME HubStateAssumption ==
  /\ None \notin Envelopes
  /\ \A env \in Envelopes : env.to \in Names
  /\ MaxWaiters \in Nat /\ MaxRoutes \in Nat

VARIABLES
  queues,    \* HashMap<String, VecDeque<Envelope>>
  waiters,   \* HashMap<String, Vec<Waiter>>
  nextId,    \* next_waiter_id
  alive,     \* ids of waiters whose task still holds the receiver
  channel,   \* channel[id + 1] is what the channel of waiter id holds
  routing,   \* the envelope and placement route_envelope works on, or None
  purged,    \* history: dead waiters the running loop has removed
  routes     \* bound: calls of route_envelope so far

vars == <<queues, waiters, nextId, alive, channel, routing, purged, routes>>

Placements == {"back", "front"}

Init ==
  /\ queues = <<>>
  /\ waiters = <<>>
  /\ nextId = 0
  /\ alive = {}
  /\ channel = <<>>
  /\ routing = None
  /\ purged = {}
  /\ routes = 0

\* get(name) of a map, with the empty sequence for a missing entry.
Entry(map, n) == IF n \in DOMAIN map THEN map[n] ELSE <<>>

\* The entry of n becomes s, and goes away when s is empty.
PutEmpty(map, n, s) ==                                                   \* mutant
  [m \in DOMAIN map \cup {n} |-> IF m = n THEN s ELSE map[m]]
Put(map, n, s) ==
  [m \in IF s = <<>> THEN DOMAIN map \ {n} ELSE DOMAIN map \cup {n} |->
     IF m = n THEN s ELSE map[m]]

\* Vec::remove and VecDeque::remove keep the order of the others.
SwapRemove(s, i) == SubSeq([s EXCEPT ![i] = s[Len(s)]], 1, Len(s) - 1)   \* mutant
Without(s, i) == RemoveAt(s, i)

-----------------------------------------------------------------------------
(* handle_await's critical section and remove_waiter. *)

FirstMatch(n, filter) ==
  SelectInSeq(Entry(queues, n), LAMBDA env : Matches(filter, env))

TakeQueued(n, filter) ==
  /\ routing = None
  /\ FirstMatch(n, filter) # 0
  /\ queues' = Put(queues, n, Without(queues[n], FirstMatch(n, filter)))
  /\ UNCHANGED <<waiters, nextId, alive, channel, routing, purged, routes>>

Register(n, filter) ==
  /\ routing = None
  /\ nextId < MaxWaiters
  /\ FirstMatch(n, filter) = 0
  /\ waiters' = Put(waiters, n, Append(Entry(waiters, n), [id |-> nextId, filter |-> filter]))
  /\ nextId' = nextId + 1
  /\ alive' = alive \cup {nextId}
  /\ channel' = Append(channel, None)
  /\ UNCHANGED <<queues, routing, purged, routes>>

RemoveWaiter(n, id) ==
  /\ routing = None
  /\ \E i \in DOMAIN Entry(waiters, n) :
       /\ waiters[n][i].id = id
       /\ waiters' = Put(waiters, n, Without(waiters[n], i))
  /\ UNCHANGED <<queues, nextId, alive, channel, routing, purged, routes>>

\* A receiver is dropped, by a task that ended or that has received: what the
\* channel held goes with it.
DropReceiver(id) ==
  /\ alive' = alive \ {id}
  /\ channel' = [channel EXCEPT ![id + 1] = None]
  /\ UNCHANGED <<queues, waiters, nextId, routing, purged, routes>>

-----------------------------------------------------------------------------
(* route_envelope. *)

\* The scan: a later waiter displaces the best one only with a strictly
\* greater rank; 0 when nothing matches.
LastBestIndex(ws, env) ==                                                \* mutant
  FoldLeftDomain(LAMBDA best, i :
    IF /\ Matches(ws[i].filter, env)
       /\ best = 0 \/ Specificity(ws[i].filter) >= Specificity(ws[best].filter)
    THEN i ELSE best, 0, ws)
BestIndex(ws, env) ==
  FoldLeftDomain(LAMBDA best, i :
    IF /\ Matches(ws[i].filter, env)
       /\ best = 0 \/ Specificity(ws[i].filter) > Specificity(ws[best].filter)
    THEN i ELSE best, 0, ws)

Best == BestIndex(Entry(waiters, routing.env.to), routing.env)

BeginRoute(env, placement) ==
  /\ routing = None
  /\ routes < MaxRoutes
  /\ routing' = [env |-> env, placement |-> placement]
  /\ routes' = routes + 1
  /\ UNCHANGED <<queues, waiters, nextId, alive, channel, purged>>

RemoveBest ==
  LET n == routing.env.to
  IN /\ routing # None
     /\ Best # 0
     /\ waiters' = Put(waiters, n, Without(waiters[n], Best))

HandOver ==
  /\ RemoveBest
  /\ LET w == waiters[routing.env.to][Best]
     IN /\ w.id \in alive
        /\ channel' = [channel EXCEPT ![w.id + 1] = routing.env]
  /\ routing' = None
  /\ purged' = {}
  /\ UNCHANGED <<queues, nextId, alive, routes>>

Purge ==
  /\ RemoveBest
  /\ LET w == waiters[routing.env.to][Best]
     IN /\ w.id \notin alive
        /\ purged' = purged \cup {w}
  /\ UNCHANGED <<queues, nextId, alive, channel, routing, routes>>

Park ==
  /\ routing # None
  /\ Best = 0
  /\ LET queue == Entry(queues, routing.env.to)
     IN queues' = Put(queues, routing.env.to,
                      IF routing.placement = "back" THEN Append(queue, routing.env)
                      ELSE <<routing.env>> \o queue)
  /\ routing' = None
  /\ purged' = {}
  /\ UNCHANGED <<waiters, nextId, alive, channel, routes>>

Next ==
  \/ \E n \in Names, f \in Filters : TakeQueued(n, f) \/ Register(n, f)
  \/ \E n \in Names, id \in 0..(nextId - 1) : RemoveWaiter(n, id)
  \/ \E id \in alive : DropReceiver(id)
  \/ \E env \in Envelopes, p \in Placements : BeginRoute(env, p)
  \/ HandOver \/ Purge \/ Park

Spec == Init /\ [][Next]_vars

-----------------------------------------------------------------------------
\* Types; and a Vec lists its waiters in the order they were registered, which
\* is what "the first of its rank is the oldest" rests on.
TypeOK ==
  LET Waiter == [id : 0..(nextId - 1), filter : Filters]
  IN /\ DOMAIN queues \subseteq Names
     /\ \A n \in DOMAIN queues : queues[n] \in Seq(Envelopes)
     /\ DOMAIN waiters \subseteq Names
     /\ \A n \in DOMAIN waiters : waiters[n] \in Seq(Waiter)
     /\ \A n \in DOMAIN waiters : \A i, j \in DOMAIN waiters[n] :
          i < j => waiters[n][i].id < waiters[n][j].id
     /\ alive \subseteq 0..(nextId - 1)
     /\ channel \in Seq(Envelopes \cup {None}) /\ Len(channel) = nextId
     /\ routing \in [env : Envelopes, placement : Placements] \cup {None}
     /\ purged \subseteq Waiter

\* A destination nobody registered leaves nothing behind: no entry of either
\* map outlives its last envelope or waiter, so arbitrary names cannot grow
\* the maps ("drop the entry when emptied").
NoEmptyEntry ==
  /\ \A n \in DOMAIN queues : queues[n] # <<>>
  /\ \A n \in DOMAIN waiters : waiters[n] # <<>>

\* The state the rest of the hub relies on: the waiters of a name as a set,
\* in which the running loop has not yet removed anything.
AllWaiters ==
  [n \in Names |->
     ToSet(Entry(waiters, n))
       \cup (IF routing # None /\ routing.env.to = n THEN purged ELSE {})]

Atomic == INSTANCE Registry WITH
  queues <- [n \in Names |-> Entry(queues, n)], waiters <- AllWaiters

\* The loop over the Vec, with its strict comparison and its retries, does at
\* once what the match semantics promises: the most specific live waiter, the
\* oldest of its rank, gets the envelope, and it queues only if there is none.
ImplementsRegistry == Atomic!Spec
=============================================================================
