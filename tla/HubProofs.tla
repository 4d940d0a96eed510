------------------------------ MODULE HubProofs ------------------------------
(***************************************************************************)
(* Proofs about the routing core, for any number of connections, agents,   *)
(* names, kinds and requests, with and without audit failures and dying    *)
(* tasks.                                                                  *)
(*                                                                         *)
(* HubInv says who is registered for what.  Its parts are needed together: *)
(* the types need that a task past "ready" has a name and that a task      *)
(* about to route or write holds an envelope; that a timeout removes the   *)
(* task's own waiter, and no other, needs distinct tickets; that a handoff *)
(* leaves no trace of the winner in the registry needs one waiter per      *)
(* connection.                                                             *)
(*                                                                         *)
(* LedgerInv, inductive together with HubInv, relates the audit log to the *)
(* queues, the tasks and the sockets: an accepted envelope is in exactly   *)
(* one place unless its task or its commit died, deliveries join to what   *)
(* was accepted, bounces tell the truth, a timeout consumed nothing, and   *)
(* queues are FIFO but for what was returned.  From both follows that the  *)
(* hub is a mailbox.                                                       *)
(*                                                                         *)
(* The last part reads Registry off the hub: Receivers says what the       *)
(* channels of the registry are, task by task, and every action is one of  *)
(* the registry's operations or leaves it alone.                           *)
(***************************************************************************)
EXTENDS HubMailbox, HubRegistry, SequenceLemmas, TLAPS

\* A task holds what its program counter says it holds.
Holding ==
  \A c \in Conns :
    /\ pc[c] \in {"commit", "deliver", "log", "bounce"} => slot[c] # None
    /\ pc[c] # "ready" => who[c] \in Agents
    /\ pc[c] = "ready" => slot[c] = None

\* No two tasks hold the same ticket, and the counter is ahead of them all.
Tickets ==
  /\ \A c \in Conns : ticket[c] # None => ticket[c] < nextId
  /\ \A c, d \in Conns : ticket[c] # None /\ ticket[c] = ticket[d] => c = d

\* A connection has at most one waiter.
OneWaiter ==
  \A n \in Names : \A v, w \in waiters[n] : v.conn = w.conn => v = w

\* The two halves of RegisteredUntilHanded.
ParkedRegistered ==
  \A c \in Conns : pc[c] = "parked" =>
    (slot[c] = None <=> \E w \in waiters[who[c]] : w.conn = c /\ w.id = ticket[c])
WaitersParked ==
  \A n \in Names : \A w \in waiters[n] :
    /\ pc[w.conn] \in {"parked", "dead"}
    /\ who[w.conn] = n /\ ticket[w.conn] = w.id /\ slot[w.conn] = None

RegistryInv == Holding /\ Tickets /\ OneWaiter /\ ParkedRegistered /\ WaitersParked

HubInv == TypeOK /\ RegistryInv /\ NoMissedMatch

-----------------------------------------------------------------------------
(* Ranks. *)

\* Two waiters do not outrank each other.
LEMMA OutranksAsymmetric ==
  ASSUME NEW v \in Waiter, NEW w \in Waiter, Outranks(v, w)
  PROVE  ~Outranks(w, v)
BY DEF Outranks, Specificity, Waiter

-----------------------------------------------------------------------------
(* Routing one envelope. *)

\* What a route step does besides the handoff or the enqueue.
RouteStep(c) ==
  /\ pc[c] \in {"commit", "deliver", "bounce"}
  /\ pc' = [pc EXCEPT ![c] = "closed"]
  /\ UNCHANGED <<nextId, who, ticket>>

RoutedOK ==
  /\ queues \in [Names -> Seq(Envelope)]
  /\ waiters \in [Names -> SUBSET Waiter]
  /\ slot \in [Conns -> Envelope \cup {None}]
  /\ RegistryInv
  /\ NoMissedMatch

\* A handoff gives the envelope to a parked task that is no longer registered.
LEMMA HandOffPreserves ==
  ASSUME HubInv, NEW env \in Envelope, NEW c \in Conns, RouteStep(c), HandOff(env, c)
  PROVE  RoutedOK'
<1> USE DEF HubInv, RegistryInv, TypeOK
<1> DEFINE candidates == Candidates(waiters[env.to], env)
           live == {w \in candidates : pc[w.conn] # "dead"}
<1>1. env.to \in Names
  BY DEF Envelope
<1>2. PICK w \in live :
        /\ IsBest(w, live)
        /\ waiters' = [waiters EXCEPT ![env.to] = @ \ Deregistered(w, candidates)]
        /\ slot' = [slot EXCEPT ![c] = None, ![w.conn] = env]
        /\ UNCHANGED queues
  BY DEF HandOff
<1>3. w \in waiters[env.to] /\ w \in Waiter /\ w.conn \in Conns
  BY <1>1 DEF Candidates, Waiter
<1>4. pc[w.conn] = "parked" /\ w.conn # c /\ who[w.conn] = env.to /\ ticket[w.conn] = w.id
  BY <1>1, <1>3 DEF WaitersParked, RouteStep
<1>5. ASSUME NEW d \in Deregistered(w, candidates), d # w
      PROVE  pc[d.conn] = "dead"
  <2>1. d \in candidates /\ Outranks(d, w) /\ d \in Waiter
    BY <1>1, <1>5 DEF Deregistered, Candidates
  <2>2. ~Outranks(w, d)
    BY <1>3, <2>1, OutranksAsymmetric
  <2>3. d \notin live
    BY <1>2, <1>5, <2>2 DEF IsBest
  <2> QED BY <2>1, <2>3
<1>6. ASSUME NEW n \in Names
      PROVE  waiters'[n] \subseteq waiters[n] /\ w \notin waiters'[n]
  <2>1. waiters'[n] \subseteq waiters[n]
    BY <1>2, <1>1
  <2>2. CASE n = env.to
    BY <1>2, <1>1, <2>2 DEF Deregistered
  <2>3. CASE n # env.to
    BY <1>3, <1>4, <2>1, <2>3 DEF WaitersParked
  <2> QED BY <2>1, <2>2, <2>3
<1>7. \A d \in Conns : slot'[d] = IF d = w.conn THEN env ELSE IF d = c THEN None ELSE slot[d]
  BY <1>2, <1>3
<1>8. /\ queues' \in [Names -> Seq(Envelope)]
      /\ waiters' \in [Names -> SUBSET Waiter]
      /\ slot' \in [Conns -> Envelope \cup {None}]
  BY <1>1, <1>2, <1>3
<1>9. Holding'
  BY <1>3, <1>4, <1>7 DEF Holding, RouteStep
<1>10. Tickets'
  BY DEF Tickets, RouteStep
<1>11. OneWaiter'
  BY <1>6 DEF OneWaiter
<1>12. ParkedRegistered'
  <2> SUFFICES ASSUME NEW d \in Conns, pc'[d] = "parked"
               PROVE  slot'[d] = None
                        <=> \E v \in waiters'[who[d]] : v.conn = d /\ v.id = ticket[d]
    BY DEF ParkedRegistered, RouteStep
  <2>1. pc[d] = "parked" /\ d # c /\ who[d] \in Names
    BY HubAssumption DEF RouteStep, Holding
  <2>2. CASE d = w.conn
    <3>1. slot'[d] # None
      BY <1>7, <2>2, HubAssumption
    <3>2. ASSUME NEW v \in waiters'[who[d]], v.conn = d
          PROVE  FALSE
      <4>1. v \in waiters[env.to] /\ v # w
        BY <1>4, <1>6, <2>1, <2>2, <3>2
      <4> QED BY <1>1, <1>3, <2>2, <3>2, <4>1 DEF OneWaiter
    <3> QED BY <3>1, <3>2
  <2>3. CASE d # w.conn
    <3>1. slot'[d] = slot[d]
      BY <1>7, <2>1, <2>3
    <3>2. ASSUME NEW v \in waiters[who[d]], v.conn = d
          PROVE  v \in waiters'[who[d]]
      BY <1>1, <1>2, <1>5, <2>1, <2>3, <3>2
    <3> QED BY <1>6, <2>1, <3>1, <3>2 DEF ParkedRegistered
  <2> QED BY <2>2, <2>3
<1>13. WaitersParked'
  <2> SUFFICES ASSUME NEW n \in Names, NEW v \in waiters'[n]
               PROVE  /\ pc'[v.conn] \in {"parked", "dead"}
                      /\ who[v.conn] = n /\ ticket[v.conn] = v.id /\ slot'[v.conn] = None
    BY DEF WaitersParked, RouteStep
  <2>1. v \in waiters[n] /\ v # w /\ v.conn \in Conns
    BY <1>6 DEF Waiter
  <2>2. v.conn # w.conn
    BY <1>1, <1>3, <1>4, <2>1 DEF OneWaiter, WaitersParked
  <2> QED BY <1>7, <2>1, <2>2 DEF WaitersParked, RouteStep
<1>14. NoMissedMatch'
  BY <1>2, <1>6 DEF NoMissedMatch
<1> QED BY <1>8, <1>9, <1>10, <1>11, <1>12, <1>13, <1>14 DEF RoutedOK

\* An enqueued envelope finds nobody parked who wants it, and disturbs no one.
LEMMA EnqueuePreserves ==
  ASSUME HubInv, NEW env \in Envelope, NEW c \in Conns, RouteStep(c),
         NEW newQueue \in Seq(Envelope), Enqueue(env, c, newQueue),
         \A k \in DOMAIN newQueue :
           newQueue[k] = env \/ \E j \in DOMAIN queues[env.to] : newQueue[k] = queues[env.to][j]
  PROVE  RoutedOK'
<1> USE DEF HubInv, RegistryInv, TypeOK
<1> DEFINE candidates == Candidates(waiters[env.to], env)
<1>1. env.to \in Names
  BY DEF Envelope
<1>2. /\ \A w \in candidates : pc[w.conn] = "dead"
      /\ waiters' = [waiters EXCEPT ![env.to] = @ \ candidates]
      /\ queues' = [queues EXCEPT ![env.to] = newQueue]
      /\ slot' = [slot EXCEPT ![c] = None]
  BY DEF Enqueue
<1>3. \A n \in Names : waiters'[n] \subseteq waiters[n]
  BY <1>1, <1>2
<1>4. /\ queues' \in [Names -> Seq(Envelope)]
      /\ waiters' \in [Names -> SUBSET Waiter]
      /\ slot' \in [Conns -> Envelope \cup {None}]
  BY <1>1, <1>2
<1>5. Holding'
  BY <1>2 DEF Holding, RouteStep
<1>6. Tickets'
  BY DEF Tickets, RouteStep
<1>7. OneWaiter'
  BY <1>3 DEF OneWaiter
<1>8. ParkedRegistered'
  <2> SUFFICES ASSUME NEW d \in Conns, pc'[d] = "parked"
               PROVE  slot'[d] = None
                        <=> \E v \in waiters'[who[d]] : v.conn = d /\ v.id = ticket[d]
    BY DEF ParkedRegistered, RouteStep
  <2>1. pc[d] = "parked" /\ d # c /\ who[d] \in Names /\ slot'[d] = slot[d]
    BY <1>2, HubAssumption DEF RouteStep, Holding
  <2>2. ASSUME NEW v \in waiters[who[d]], v.conn = d
        PROVE  v \in waiters'[who[d]]
    BY <1>1, <1>2, <2>1, <2>2
  <2> QED BY <1>3, <2>1, <2>2 DEF ParkedRegistered
<1>9. WaitersParked'
  BY <1>2, <1>3 DEF WaitersParked, RouteStep, Waiter
<1>10. NoMissedMatch'
  <2> SUFFICES ASSUME NEW n \in Names, NEW w \in waiters'[n], NEW i \in DOMAIN queues'[n]
               PROVE  ~Matches(w.filter, queues'[n][i])
    BY DEF NoMissedMatch
  <2>1. w \in waiters[n]
    BY <1>3
  <2>2. CASE n # env.to
    BY <1>1, <1>2, <2>1, <2>2 DEF NoMissedMatch
  <2>3. CASE n = env.to
    <3>1. queues'[n] = newQueue /\ w \notin candidates
      BY <1>1, <1>2, <2>3
    <3>2. ~Matches(w.filter, env)
      BY <2>1, <2>3, <3>1 DEF Candidates
    <3> QED BY <1>1, <2>1, <2>3, <3>1, <3>2 DEF NoMissedMatch
  <2> QED BY <2>2, <2>3
<1> QED BY <1>4, <1>5, <1>6, <1>7, <1>8, <1>9, <1>10 DEF RoutedOK

LEMMA RoutePreserves ==
  ASSUME HubInv, NEW env \in Envelope, NEW c \in Conns, RouteStep(c),
         RouteToBack(env, c) \/ RouteToFront(env, c)
  PROVE  RoutedOK'
<1>1. queues[env.to] \in Seq(Envelope)
  BY DEF HubInv, TypeOK, Envelope
<1>2. CASE HandOff(env, c)
  BY <1>2, HandOffPreserves
<1>3. CASE Enqueue(env, c, Append(queues[env.to], env))
  <2> DEFINE q == Append(queues[env.to], env)
  <2>1. q \in Seq(Envelope)
        /\ \A k \in DOMAIN q : q[k] = env \/ \E j \in DOMAIN queues[env.to] : q[k] = queues[env.to][j]
    BY <1>1, EndsElements
  <2>2. Enqueue(env, c, q)
    BY <1>3
  <2> HIDE DEF q
  <2> QED BY <2>1, <2>2, EnqueuePreserves
<1>4. CASE Enqueue(env, c, <<env>> \o queues[env.to])
  <2> DEFINE q == <<env>> \o queues[env.to]
  <2>1. q \in Seq(Envelope)
        /\ \A k \in DOMAIN q : q[k] = env \/ \E j \in DOMAIN queues[env.to] : q[k] = queues[env.to][j]
    BY <1>1, EndsElements
  <2>2. Enqueue(env, c, q)
    BY <1>4
  <2> HIDE DEF q
  <2> QED BY <2>1, <2>2, EnqueuePreserves
<1> QED BY <1>2, <1>3, <1>4 DEF RouteToBack, RouteToFront

-----------------------------------------------------------------------------
(* The invariant holds initially and every action keeps it. *)

LEMMA InitHubInv == Init => HubInv
BY HubAssumption
   DEF Init, HubInv, TypeOK, RegistryInv, Holding, Tickets, OneWaiter, ParkedRegistered,
       WaitersParked, NoMissedMatch, AuditEvent

\* What the invariant says of a registered waiter.
LEMMA RegisteredWaiter ==
  ASSUME HubInv, NEW n \in Names, NEW w \in waiters[n]
  PROVE  /\ w \in Waiter /\ w.conn \in Conns
         /\ pc[w.conn] \in {"parked", "dead"}
         /\ who[w.conn] = n /\ ticket[w.conn] = w.id /\ slot[w.conn] = None
<1>1. w \in Waiter
  BY DEF HubInv, TypeOK
<1>2. w.conn \in Conns
  BY <1>1 DEF Waiter
<1> QED BY <1>1, <1>2 DEF HubInv, RegistryInv, WaitersParked

LEMMA SendVerbPreserves ==
  ASSUME HubInv, NEW c \in Conns, NEW r \in Sends, SendVerb(c, r)
  PROVE  HubInv'
<1> USE DEF HubInv, RegistryInv
<1>1. r \in SendRequest /\ r.as \in Agents /\ pc[c] = "ready"
  BY HubAssumption DEF SendVerb, SendRequest, Goto, Answer
<1>2. Validate(r) => Stamp(c, r) \in Envelope
  BY <1>1, HubAssumption DEF Validate, Stamp, Envelope, SendRequest
<1>3. TypeOK'
  <2>1. who' \in [Conns -> Agents \cup {None}]
    BY <1>1 DEF TypeOK, SendVerb
  <2>2. CASE Validate(r) /\ Goto(c, "ready", "commit") /\ slot' = [slot EXCEPT ![c] = Stamp(c, r)]
             /\ UNCHANGED reply
    BY <1>2, <2>1, <2>2 DEF TypeOK, SendVerb, Goto
  <2>3. CASE Answer(c, "ready", "invalid") /\ UNCHANGED slot
    BY <2>1, <2>3 DEF TypeOK, SendVerb, Goto, Answer
  <2> QED BY <2>2, <2>3 DEF SendVerb
<1>4. Holding'
  BY <1>1, <1>2, HubAssumption DEF Holding, TypeOK, SendVerb, Goto, Answer
<1>5. Tickets' /\ OneWaiter' /\ NoMissedMatch'
  BY DEF Tickets, OneWaiter, NoMissedMatch, SendVerb
<1>6. ASSUME NEW n \in Names, NEW w \in waiters[n]
      PROVE  w.conn # c /\ w.conn \in Conns
  BY <1>1, <1>6, RegisteredWaiter
<1>7. \A d \in Conns \ {c} : pc'[d] = pc[d] /\ who'[d] = who[d] /\ slot'[d] = slot[d]
  BY DEF TypeOK, SendVerb, Goto, Answer
<1>8. pc'[c] # "parked" /\ UNCHANGED <<waiters, ticket>>
  BY <1>1 DEF TypeOK, SendVerb, Goto, Answer
<1>9. ParkedRegistered'
  BY <1>7, <1>8 DEF ParkedRegistered
<1>10. WaitersParked'
  BY <1>6, <1>7, <1>8 DEF WaitersParked
<1> QED BY <1>3, <1>4, <1>5, <1>9, <1>10

\* A step that appends to the audit log, or fails to, keeps its type.
LEMMA AuditTyped ==
  ASSUME TypeOK, NEW e \in AuditEvent
  PROVE  Append(audit, e) \in Seq(AuditEvent)
BY DEF TypeOK

\* A step in which c gives up what it holds and ends, and nothing is routed.
LEMMA ReleasePreserves ==
  ASSUME HubInv, NEW c \in Conns,
         pc[c] \in {"commit", "log", "bounce", "deliver"},
         pc' = [pc EXCEPT ![c] = "closed"],
         slot' = [slot EXCEPT ![c] = None],
         UNCHANGED <<queues, waiters, nextId, who, ticket>>
  PROVE  RoutedOK'
<1> USE DEF HubInv, RegistryInv
<1>1. ASSUME NEW n \in Names, NEW w \in waiters[n]
      PROVE  w.conn # c /\ w.conn \in Conns
  BY <1>1, RegisteredWaiter
<1>2. \A d \in Conns \ {c} : pc'[d] = pc[d] /\ slot'[d] = slot[d]
  BY DEF TypeOK
<1>3. pc'[c] = "closed"
  BY DEF TypeOK
<1>4. Holding' /\ Tickets' /\ OneWaiter' /\ NoMissedMatch'
  BY <1>2, <1>3 DEF Holding, Tickets, OneWaiter, NoMissedMatch
<1>5. ParkedRegistered'
  BY <1>2, <1>3 DEF ParkedRegistered
<1>6. WaitersParked'
  BY <1>1, <1>2 DEF WaitersParked
<1> QED BY <1>4, <1>5, <1>6 DEF RoutedOK, TypeOK

\* A commit, of a send or a bounce, keeps what routing keeps.
LEMMA CommitPreserves ==
  ASSUME HubInv, NEW env \in Envelope, NEW c \in Conns, RouteStep(c),
         Commit(env, c) \/ AuditFails(c) \/ Abandon(env, c)
  PROVE  RoutedOK' /\ audit' \in Seq(AuditEvent) /\ dropped' \in SUBSET Conns
<1>1. AppendAccepted(env) => audit' \in Seq(AuditEvent)
  <2>1. [type |-> "accepted", env |-> env] \in AuditEvent
    BY DEF AuditEvent
  <2> QED BY <2>1, AuditTyped DEF AppendAccepted, HubInv
<1>2. audit \in Seq(AuditEvent) /\ dropped \in SUBSET Conns /\ env.id \in Conns
  BY DEF HubInv, TypeOK, Envelope
<1>3. CASE Commit(env, c)
  <2>1. RoutedOK'
    BY <1>3, RoutePreserves DEF Commit
  <2> QED BY <1>1, <1>2, <1>3, <2>1 DEF Commit
<1>4. CASE AuditFails(c)
  <2>1. RoutedOK'
    BY <1>4, ReleasePreserves DEF AuditFails, RouteStep
  <2> QED BY <1>2, <1>4, <2>1 DEF AuditFails
<1>5. CASE Abandon(env, c)
  <2>1. RoutedOK'
    BY <1>5, ReleasePreserves DEF Abandon, RouteStep
  <2> QED BY <1>1, <1>2, <1>5, <2>1 DEF Abandon
<1> QED BY <1>3, <1>4, <1>5

LEMMA CommitSendPreserves ==
  ASSUME HubInv, NEW c \in Conns, CommitSend(c)
  PROVE  HubInv'
<1>1. RouteStep(c) /\ slot[c] \in Envelope
  BY DEF CommitSend, Answer, Goto, RouteStep, HubInv, RegistryInv, Holding, TypeOK
<1>2. RoutedOK' /\ audit' \in Seq(AuditEvent) /\ dropped' \in SUBSET Conns
  BY <1>1, CommitPreserves DEF CommitSend
<1>3. pc' \in [Conns -> {"ready", "commit", "parked", "dead", "deliver", "log", "bounce", "closed"}]
      /\ reply' \in [Conns -> {"none", "invalid", "accepted", "refused", "timeout"}]
  BY DEF CommitSend, Answer, Goto, HubInv, TypeOK
<1>4. TypeOK'
  BY <1>2, <1>3 DEF RoutedOK, TypeOK, HubInv, CommitSend
<1> QED BY <1>2, <1>4 DEF RoutedOK, HubInv

LEMMA AwaitInvalidPreserves ==
  ASSUME HubInv, NEW c \in Conns, NEW r \in Awaits, AwaitInvalid(c, r)
  PROVE  HubInv'
<1> USE DEF HubInv, RegistryInv
<1>1. r.as \in Agents /\ pc[c] = "ready"
  BY HubAssumption DEF AwaitInvalid, AwaitRequest, Goto, Answer
<1>2. TypeOK'
  BY <1>1 DEF TypeOK, AwaitInvalid, Goto, Answer
<1>3. Holding'
  BY <1>1 DEF Holding, TypeOK, AwaitInvalid, Goto, Answer
<1>4. Tickets' /\ OneWaiter' /\ NoMissedMatch'
  BY DEF Tickets, OneWaiter, NoMissedMatch, AwaitInvalid
<1>5. ASSUME NEW n \in Names, NEW w \in waiters[n]
      PROVE  w.conn # c /\ w.conn \in Conns
  BY <1>1, <1>5, RegisteredWaiter
<1>6. /\ \A d \in Conns \ {c} : pc'[d] = pc[d] /\ who'[d] = who[d]
      /\ pc'[c] # "parked" /\ UNCHANGED <<waiters, ticket, slot>>
  BY DEF TypeOK, AwaitInvalid, Goto, Answer
<1>7. ParkedRegistered'
  BY <1>6 DEF ParkedRegistered
<1>8. WaitersParked'
  BY <1>5, <1>6 DEF WaitersParked
<1> QED BY <1>2, <1>3, <1>4, <1>7, <1>8

LEMMA AwaitQueuedPreserves ==
  ASSUME HubInv, NEW c \in Conns, NEW r \in Awaits, AwaitQueued(c, r)
  PROVE  HubInv'
<1> USE DEF HubInv, RegistryInv
<1>1. r.as \in Agents /\ r.as \in Names /\ pc[c] = "ready"
  BY HubAssumption DEF AwaitQueued, AwaitRequest, Goto
<1>2. PICK i \in DOMAIN queues[r.as] :
        /\ slot' = [slot EXCEPT ![c] = queues[r.as][i]]
        /\ queues' = [queues EXCEPT ![r.as] = RemoveAt(@, i)]
  BY DEF AwaitQueued
<1>3. /\ queues[r.as] \in Seq(Envelope) /\ queues[r.as][i] \in Envelope
  BY <1>1, <1>2 DEF TypeOK
<1>4. /\ RemoveAt(queues[r.as], i) \in Seq(Envelope)
      /\ \A k \in DOMAIN RemoveAt(queues[r.as], i) :
           \E j \in DOMAIN queues[r.as] : RemoveAt(queues[r.as], i)[k] = queues[r.as][j]
  BY <1>2, <1>3, RemoveAtElements
<1>5. TypeOK'
  BY <1>1, <1>2, <1>3, <1>4 DEF TypeOK, AwaitQueued, Goto
<1>6. Holding'
  BY <1>1, <1>2, <1>3, HubAssumption DEF Holding, TypeOK, AwaitQueued, Goto
<1>7. Tickets' /\ OneWaiter'
  BY DEF Tickets, OneWaiter, AwaitQueued
<1>8. ASSUME NEW n \in Names, NEW w \in waiters[n]
      PROVE  w.conn # c /\ w.conn \in Conns
  BY <1>1, <1>8, RegisteredWaiter
<1>9. /\ \A d \in Conns \ {c} : pc'[d] = pc[d] /\ who'[d] = who[d] /\ slot'[d] = slot[d]
      /\ pc'[c] # "parked" /\ UNCHANGED <<waiters, ticket>>
  BY <1>2 DEF TypeOK, AwaitQueued, Goto
<1>10. ParkedRegistered'
  BY <1>9 DEF ParkedRegistered
<1>11. WaitersParked'
  BY <1>8, <1>9 DEF WaitersParked
<1>12. NoMissedMatch'
  <2> SUFFICES ASSUME NEW n \in Names, NEW w \in waiters[n], NEW k \in DOMAIN queues'[n]
               PROVE  ~Matches(w.filter, queues'[n][k])
    BY <1>9 DEF NoMissedMatch
  <2>1. CASE n = r.as
    <3>1. queues'[n] = RemoveAt(queues[r.as], i)
      BY <1>1, <1>2, <2>1 DEF TypeOK
    <3>2. PICK j \in DOMAIN queues[n] : queues'[n][k] = queues[n][j]
      BY <1>4, <2>1, <3>1
    <3> QED BY <3>2 DEF NoMissedMatch
  <2>2. CASE n # r.as
    BY <1>1, <1>2, <2>2 DEF NoMissedMatch, TypeOK
  <2> QED BY <2>1, <2>2
<1> QED BY <1>5, <1>6, <1>7, <1>10, <1>11, <1>12

\* Parking keeps the registry because the ticket is fresh, the task had no
\* waiter, and the queue holds nothing the new waiter would take.
LEMMA AwaitParkPreserves ==
  ASSUME HubInv, NEW c \in Conns, NEW r \in Awaits, AwaitPark(c, r)
  PROVE  HubInv'
<1> USE DEF HubInv, RegistryInv
<1> DEFINE new == [id |-> nextId, filter |-> FilterOf(r), conn |-> c]
<1>1. r \in AwaitRequest /\ r.as \in Agents /\ r.as \in Names /\ pc[c] = "ready"
  BY HubAssumption DEF AwaitPark, AwaitRequest, Goto
<1>2. new \in Waiter /\ nextId \in Nat /\ nextId # None
  BY <1>1, HubAssumption DEF Waiter, Filter, FilterOf, AwaitRequest, AwaitPark, TypeOK
<1>3. /\ waiters' = [waiters EXCEPT ![r.as] = @ \cup {new}]
      /\ ticket' = [ticket EXCEPT ![c] = nextId]
      /\ nextId' = nextId + 1
      /\ pc' = [pc EXCEPT ![c] = "parked"]
      /\ who' = [who EXCEPT ![c] = r.as]
      /\ UNCHANGED <<queues, slot>>
  BY DEF AwaitPark, Goto
<1>4. TypeOK'
  BY <1>1, <1>2, <1>3, HubAssumption DEF TypeOK, AwaitPark, AwaitRequest
<1>5. Holding'
  BY <1>1, <1>3 DEF Holding, TypeOK
<1>6. Tickets'
  BY <1>2, <1>3 DEF Tickets, TypeOK
<1>7. ASSUME NEW n \in Names, NEW w \in waiters[n]
      PROVE  w.conn # c /\ w.conn \in Conns
  BY <1>1, <1>7, RegisteredWaiter
<1>8. ASSUME NEW n \in Names, NEW w \in waiters'[n]
      PROVE  w \in waiters[n] \/ (w = new /\ n = r.as)
  BY <1>1, <1>3, <1>8 DEF TypeOK
<1>9. OneWaiter'
  BY <1>7, <1>8 DEF OneWaiter
<1>10. \A d \in Conns \ {c} :
         pc'[d] = pc[d] /\ who'[d] = who[d] /\ ticket'[d] = ticket[d]
  BY <1>3 DEF TypeOK
<1>11. pc'[c] = "parked" /\ who'[c] = r.as /\ ticket'[c] = nextId
  BY <1>3 DEF TypeOK
<1>12. slot[c] = None
  BY <1>1 DEF Holding
<1>13. ParkedRegistered'
  <2> SUFFICES ASSUME NEW d \in Conns, pc'[d] = "parked"
               PROVE  slot[d] = None
                        <=> \E w \in waiters'[who'[d]] : w.conn = d /\ w.id = ticket'[d]
    BY <1>3 DEF ParkedRegistered
  <2>1. CASE d = c
    <3>1. new \in waiters'[r.as] /\ new.conn = c /\ new.id = nextId
      BY <1>1, <1>3 DEF TypeOK
    <3> QED BY <1>11, <1>12, <2>1, <3>1
  <2>2. CASE d # c
    <3>1. pc[d] = "parked" /\ who'[d] = who[d] /\ ticket'[d] = ticket[d] /\ who[d] \in Names
      BY <1>10, <2>2, HubAssumption DEF Holding
    <3>2. \A w \in waiters'[who[d]] : w.conn = d => w \in waiters[who[d]]
      BY <1>8, <2>2, <3>1
    <3>3. waiters[who[d]] \subseteq waiters'[who[d]]
      BY <1>1, <1>3, <3>1 DEF TypeOK
    <3> QED BY <3>1, <3>2, <3>3 DEF ParkedRegistered
  <2> QED BY <2>1, <2>2
<1>14. WaitersParked'
  BY <1>3, <1>7, <1>8, <1>10, <1>11, <1>12 DEF WaitersParked
<1>15. NoMissedMatch'
  <2> SUFFICES ASSUME NEW n \in Names, NEW w \in waiters'[n], NEW i \in DOMAIN queues[n]
               PROVE  ~Matches(w.filter, queues[n][i])
    BY <1>3 DEF NoMissedMatch
  <2>1. CASE w \in waiters[n]
    BY <2>1 DEF NoMissedMatch
  <2>2. CASE w = new /\ n = r.as
    BY <2>2 DEF AwaitPark, NothingQueuedFor
  <2> QED BY <1>8, <2>1, <2>2
<1> QED BY <1>4, <1>5, <1>6, <1>9, <1>13, <1>14, <1>15

\* A step of one task that leaves the registry and the queues alone and moves
\* the task from one place outside the registry to another.
LEMMA LocalStepPreserves ==
  ASSUME HubInv, NEW c \in Conns, NEW to \in {"deliver", "log", "bounce", "closed"},
         pc[c] \in {"deliver", "log", "bounce"} \/ (pc[c] = "parked" /\ slot[c] # None),
         pc' = [pc EXCEPT ![c] = to],
         slot' = slot \/ (to = "closed" /\ slot' = [slot EXCEPT ![c] = None]),
         UNCHANGED <<queues, waiters, nextId, who, ticket>>
  PROVE  RoutedOK'
<1> USE DEF HubInv, RegistryInv
<1>1. ASSUME NEW n \in Names, NEW w \in waiters[n]
      PROVE  w.conn # c /\ w.conn \in Conns
  BY <1>1, RegisteredWaiter
<1>2. \A d \in Conns \ {c} : pc'[d] = pc[d] /\ slot'[d] = slot[d]
  BY DEF TypeOK
<1>3. pc'[c] = to /\ (slot'[c] = slot[c] \/ to = "closed")
  BY DEF TypeOK
<1>4. slot' \in [Conns -> Envelope \cup {None}]
  BY DEF TypeOK
<1>5. Holding'
  BY <1>2, <1>3 DEF Holding
<1>6. Tickets' /\ OneWaiter' /\ NoMissedMatch'
  BY DEF Tickets, OneWaiter, NoMissedMatch
<1>7. ParkedRegistered'
  BY <1>2, <1>3 DEF ParkedRegistered
<1>8. WaitersParked'
  BY <1>1, <1>2 DEF WaitersParked
<1> QED BY <1>4, <1>5, <1>6, <1>7, <1>8 DEF RoutedOK, TypeOK

LEMMA ReceivePreserves ==
  ASSUME HubInv, NEW c \in Conns, Receive(c)
  PROVE  HubInv'
<1>1. RoutedOK'
  BY LocalStepPreserves DEF Receive, Goto
<1>2. TypeOK'
  BY DEF HubInv, TypeOK, Receive, Goto
<1> QED BY <1>1, <1>2 DEF RoutedOK, HubInv

\* The waiter a timeout removes is the task's own: tickets are distinct.
LEMMA TimeoutPreserves ==
  ASSUME HubInv, NEW c \in Conns, Timeout(c)
  PROVE  HubInv'
<1> USE DEF HubInv, RegistryInv
<1>1. pc[c] = "parked" /\ who[c] \in Agents /\ who[c] \in Names
  BY HubAssumption DEF Timeout, Answer, Goto, Holding
<1>2. PICK w \in waiters[who[c]] :
        w.id = ticket[c] /\ waiters' = [waiters EXCEPT ![who[c]] = @ \ {w}]
  BY DEF Timeout
<1>3. w.conn = c
  <2>1. w \in Waiter /\ w.conn \in Conns /\ ticket[w.conn] = w.id
    BY <1>1, RegisteredWaiter
  <2>2. ticket[w.conn] # None
    BY <2>1, HubAssumption DEF Waiter
  <2> QED BY <1>2, <2>1, <2>2 DEF Tickets
<1>4. /\ \A d \in Conns \ {c} : pc'[d] = pc[d]
      /\ pc'[c] = "closed"
      /\ UNCHANGED <<queues, nextId, who, slot, ticket>>
  BY DEF Timeout, Answer, Goto, TypeOK
<1>5. \A n \in Names : waiters'[n] \subseteq waiters[n]
  BY <1>1, <1>2 DEF TypeOK
<1>6. ASSUME NEW n \in Names, NEW v \in waiters'[n]
      PROVE  v \in waiters[n] /\ v.conn # c /\ v.conn \in Conns
  <2>1. v \in waiters[n] /\ v.conn \in Conns /\ who[v.conn] = n
    BY <1>5, RegisteredWaiter
  <2>2. CASE v.conn = c
    <3>1. n = who[c] /\ v # w
      BY <1>1, <1>2, <2>1, <2>2 DEF TypeOK
    <3> QED BY <1>3, <2>1, <2>2, <3>1 DEF OneWaiter
  <2> QED BY <2>1, <2>2
<1>7. ASSUME NEW n \in Names, NEW v \in waiters[n], v.conn # c
      PROVE  v \in waiters'[n]
  BY <1>1, <1>2, <1>3, <1>7 DEF TypeOK
<1>8. TypeOK'
  BY <1>1, <1>2 DEF TypeOK, Timeout, Answer, Goto
<1>9. Holding' /\ Tickets' /\ OneWaiter' /\ NoMissedMatch'
  <2>1. Holding'
    BY <1>1, <1>4 DEF Holding
  <2>2. Tickets'
    BY <1>4 DEF Tickets
  <2>3. OneWaiter' /\ NoMissedMatch'
    BY <1>4, <1>5 DEF OneWaiter, NoMissedMatch
  <2> QED BY <2>1, <2>2, <2>3
<1>10. ParkedRegistered'
  <2> SUFFICES ASSUME NEW d \in Conns, pc'[d] = "parked"
               PROVE  slot[d] = None
                        <=> \E v \in waiters'[who[d]] : v.conn = d /\ v.id = ticket[d]
    BY <1>4 DEF ParkedRegistered
  <2>1. d # c /\ pc[d] = "parked" /\ who[d] \in Names
    BY <1>4, HubAssumption DEF Holding
  <2> QED BY <1>5, <1>7, <2>1 DEF ParkedRegistered
<1>11. WaitersParked'
  BY <1>4, <1>6 DEF WaitersParked
<1> QED BY <1>8, <1>9, <1>10, <1>11

LEMMA TaskDiesPreserves ==
  ASSUME HubInv, NEW c \in Conns, TaskDies(c)
  PROVE  HubInv'
<1> USE DEF HubInv, RegistryInv
<1>1. /\ \A d \in Conns \ {c} : pc'[d] = pc[d] /\ slot'[d] = slot[d]
      /\ \/ pc[c] = "parked" /\ pc'[c] = "dead"
         \/ pc[c] = "deliver" /\ pc'[c] = "closed"
      /\ slot'[c] = None
      /\ UNCHANGED <<queues, waiters, nextId, who, ticket>>
  BY DEF TaskDies, Goto, TypeOK
<1>2. TypeOK'
  <2>1. \A e \in {slot[c]} \ {None} : e.id \in Conns
    BY DEF TypeOK, Envelope
  <2>2. dropped' \in SUBSET Conns
    BY <2>1 DEF TypeOK, TaskDies
  <2> QED BY <2>2 DEF TypeOK, TaskDies, Goto
<1>3. Holding' /\ Tickets' /\ OneWaiter' /\ NoMissedMatch' /\ ParkedRegistered'
  BY <1>1 DEF Holding, Tickets, OneWaiter, NoMissedMatch, ParkedRegistered
<1>4. \A n \in Names : \A w \in waiters[n] : w.conn \in Conns
  BY RegisteredWaiter
<1>5. WaitersParked'
  BY <1>1, <1>4 DEF WaitersParked
<1> QED BY <1>2, <1>3, <1>5

LEMMA WriteWholePreserves ==
  ASSUME HubInv, NEW c \in Conns, WriteWhole(c)
  PROVE  HubInv'
<1>1. RoutedOK'
  BY LocalStepPreserves DEF WriteWhole, Goto
<1>2. slot[c] \in Envelope /\ slot[c].id \in Conns
  BY DEF WriteWhole, Goto, HubInv, RegistryInv, Holding, TypeOK, Envelope
<1>3. TypeOK'
  BY <1>2 DEF HubInv, TypeOK, WireContent, WriteWhole, Goto
<1> QED BY <1>1, <1>3 DEF RoutedOK, HubInv

LEMMA WriteFailsCleanPreserves ==
  ASSUME HubInv, NEW c \in Conns, WriteFailsClean(c)
  PROVE  HubInv'
<1>1. RouteStep(c) /\ slot[c] \in Envelope
  BY DEF WriteFailsClean, Goto, RouteStep, HubInv, RegistryInv, Holding, TypeOK
<1>2. RoutedOK'
  BY <1>1, RoutePreserves DEF WriteFailsClean
<1>3. slot[c].id \in Conns
  BY <1>1 DEF Envelope
<1>4. /\ pc' \in [Conns -> {"ready", "commit", "parked", "dead", "deliver", "log", "bounce",
                            "closed"}]
      /\ returned' \in SUBSET Conns
  BY <1>3 DEF WriteFailsClean, Goto, HubInv, TypeOK
<1>5. TypeOK'
  BY <1>2, <1>4 DEF RoutedOK, TypeOK, HubInv, WriteFailsClean
<1> QED BY <1>2, <1>5 DEF RoutedOK, HubInv

LEMMA WriteFailsPartialPreserves ==
  ASSUME HubInv, NEW c \in Conns, WriteFailsPartial(c)
  PROVE  HubInv'
<1>1. RoutedOK'
  <2>1. CASE Goto(c, "deliver", "bounce") /\ UNCHANGED slot
    BY <2>1, LocalStepPreserves DEF WriteFailsPartial, Goto
  <2>2. CASE Goto(c, "deliver", "closed") /\ slot' = [slot EXCEPT ![c] = None]
    BY <2>2, LocalStepPreserves DEF WriteFailsPartial, Goto
  <2> QED BY <2>1, <2>2 DEF WriteFailsPartial
<1>2. slot[c] \in Envelope /\ slot[c].id \in Conns
  BY DEF WriteFailsPartial, HubInv, RegistryInv, Holding, TypeOK, Envelope
<1>3. TypeOK'
  BY <1>1, <1>2 DEF RoutedOK, HubInv, TypeOK, WireContent, WriteFailsPartial, Goto
<1> QED BY <1>1, <1>3 DEF RoutedOK, HubInv

LEMMA LogDeliveryPreserves ==
  ASSUME HubInv, NEW c \in Conns, LogDelivery(c)
  PROVE  HubInv'
<1>1. pc[c] = "log" /\ pc' = [pc EXCEPT ![c] = "closed"]
      /\ slot' = [slot EXCEPT ![c] = None]
      /\ UNCHANGED <<queues, waiters, nextId, who, ticket>>
  BY DEF LogDelivery, Goto, AuditFails
<1>2. RoutedOK'
  BY <1>1, ReleasePreserves
<1>3. [type |-> "delivery", id |-> slot[c].id, to |-> who[c], conn |-> c] \in AuditEvent
  BY <1>1 DEF HubInv, RegistryInv, Holding, TypeOK, Envelope, AuditEvent
<1>4. audit' \in Seq(AuditEvent)
  BY <1>3, AuditTyped DEF LogDelivery, AuditFails, HubInv, TypeOK
<1>5. TypeOK'
  BY <1>1, <1>2, <1>4 DEF RoutedOK, HubInv, TypeOK, LogDelivery, AuditFails
<1> QED BY <1>2, <1>5 DEF RoutedOK, HubInv

LEMMA EmitBouncePreserves ==
  ASSUME HubInv, NEW c \in Conns, EmitBounce(c)
  PROVE  HubInv'
<1>1. RouteStep(c) /\ slot[c] \in Envelope
  BY DEF EmitBounce, Goto, RouteStep, HubInv, RegistryInv, Holding, TypeOK
<1>2. Bounce(c) \in Envelope
  BY <1>1, HubAssumption DEF Bounce, Envelope
<1>3. RoutedOK' /\ audit' \in Seq(AuditEvent) /\ dropped' \in SUBSET Conns
  BY <1>1, <1>2, CommitPreserves DEF EmitBounce
<1>4. pc' \in [Conns -> {"ready", "commit", "parked", "dead", "deliver", "log", "bounce",
                         "closed"}]
  BY DEF EmitBounce, Goto, HubInv, TypeOK
<1>5. TypeOK'
  BY <1>3, <1>4 DEF RoutedOK, TypeOK, HubInv, EmitBounce
<1> QED BY <1>3, <1>5 DEF RoutedOK, HubInv

THEOREM HubInvInductive == HubInv /\ [Next]_vars => HubInv'
<1> SUFFICES ASSUME HubInv, [Next]_vars PROVE HubInv'
  OBVIOUS
<1>1. CASE UNCHANGED vars
  BY <1>1 DEF vars, HubInv, TypeOK, RegistryInv, Holding, Tickets, OneWaiter,
              ParkedRegistered, WaitersParked, NoMissedMatch
<1>2. ASSUME NEW c \in Conns, NEW r \in Sends, SendVerb(c, r) PROVE HubInv'
  BY <1>2, SendVerbPreserves
<1>3. ASSUME NEW c \in Conns, NEW r \in Awaits, AwaitVerb(c, r) PROVE HubInv'
  BY <1>3, AwaitInvalidPreserves, AwaitQueuedPreserves, AwaitParkPreserves DEF AwaitVerb
<1>4. ASSUME NEW c \in Conns, TaskStep(c) PROVE HubInv'
  BY <1>4, CommitSendPreserves, ReceivePreserves, TimeoutPreserves, LogDeliveryPreserves,
     EmitBouncePreserves DEF TaskStep
<1>5. ASSUME NEW c \in Conns, Write(c) PROVE HubInv'
  BY <1>5, WriteWholePreserves, WriteFailsCleanPreserves, WriteFailsPartialPreserves DEF Write
<1>6. ASSUME NEW c \in Conns, TaskDies(c) PROVE HubInv'
  BY <1>6, TaskDiesPreserves
<1> QED BY <1>1, <1>2, <1>3, <1>4, <1>5, <1>6 DEF Next

-----------------------------------------------------------------------------
(* The results. *)

\* HubInv holds in every reachable state.
THEOREM HubSafety == Spec => []HubInv
BY InitHubInv, HubInvInductive, PTL DEF Spec

\* Every variable keeps its type.
THEOREM TypeCorrect == Spec => []TypeOK
BY HubSafety, PTL DEF HubInv

\* No envelope slips past between "nothing queued" and "waiter parked".
THEOREM NothingSlipsPast == Spec => []NoMissedMatch
BY HubSafety, PTL DEF HubInv

\* "Still registered" means "nothing handed over", for every parked task.
THEOREM RegistrationDecides == Spec => []RegisteredUntilHanded
<1>1. HubInv => RegisteredUntilHanded
  BY DEF HubInv, RegistryInv, ParkedRegistered, WaitersParked, RegisteredUntilHanded
<1> QED BY <1>1, HubSafety, PTL

-----------------------------------------------------------------------------
(* Where envelopes are, and what the audit log says of them. *)


\* Connection c is where the envelope x is: with its task or in its socket.
Holds(c, x) == pc[c] \in {"parked", "deliver"} /\ slot[c] # None /\ slot[c].id = x
Took(c, x) == wire[c] # None /\ wire[c].id = x
Has(c, x) == Holds(c, x) \/ Took(c, x)
Queued(x) == \E n \in Names : \E i \in DOMAIN queues[n] : queues[n][i].id = x

\* A connection originates an envelope with its last step, and only one.
Originals ==
  /\ \A x \in AcceptedIds : pc[x] = "closed"
  /\ \A j, k \in DOMAIN audit :
       AcceptedAt(j) /\ AcceptedAt(k) /\ audit[j].env.id = audit[k].env.id => j = k
  /\ returned \subseteq AcceptedIds
  /\ dropped \subseteq AcceptedIds

AddressedAt(c) ==
  /\ pc[c] \in {"parked", "dead", "deliver", "log", "bounce"} /\ slot[c] # None =>
       slot[c] \in Accepted /\ slot[c].to = who[c]
  /\ pc[c] = "commit" => slot[c].id = c /\ slot[c].from \in Agents
  /\ pc[c] = "closed" => slot[c] = None

\* Whatever is queued or with a task is an accepted envelope, at its address;
\* what a task is about to commit is its own.
Addressed ==
  /\ \A n \in Names : \A i \in DOMAIN queues[n] :
       queues[n][i] \in Accepted /\ queues[n][i].to = n
  /\ \A c \in Conns : AddressedAt(c)

\* What a socket took, at each point of a delivery.
WireAt(c) ==
  /\ pc[c] \in {"ready", "commit", "parked", "dead", "deliver"} => wire[c] = None
  /\ pc[c] = "log" => wire[c] = [id |-> slot[c].id, how |-> "whole"]
  /\ pc[c] = "bounce" => /\ wire[c] = [id |-> slot[c].id, how |-> "part"]
                         /\ slot[c].from # HUB
  /\ reply[c] = "timeout" => pc[c] = "closed" /\ wire[c] = None
Wires == \A c \in Conns : WireAt(c)

\* What was accepted and did not go with a task or a commit that died.
Standing == AcceptedIds \ dropped

\* It is queued at one position or with one connection.
Placed ==
  /\ \A n \in Names : \A i, j \in DOMAIN queues[n] :
       queues[n][i].id = queues[n][j].id => i = j
  /\ \A x, c, d \in Conns : Has(c, x) /\ Has(d, x) => c = d
  /\ \A x, c \in Conns : Has(c, x) => ~Queued(x)
  /\ \A x \in Conns : x \in Standing <=> Queued(x) \/ \E c \in Conns : Has(c, x)

\* A delivery event is the last thing its connection did.
DeliveredAt(k) ==
  /\ pc[audit[k].conn] = "closed"
  /\ wire[audit[k].conn] = [id |-> audit[k].id, how |-> "whole"]
  /\ who[audit[k].conn] = audit[k].to
  /\ \E j \in 1..(k - 1) : /\ AcceptedAt(j)
                           /\ audit[j].env.id = audit[k].id
                           /\ audit[j].env.to = audit[k].to
  /\ \A l \in DOMAIN audit \ {k} : DeliveryAt(l) => audit[l].conn # audit[k].conn
Delivered == \A k \in DOMAIN audit : DeliveryAt(k) => DeliveredAt(k)

\* An envelope from the hub stands for a part of one that was not.
BouncedFor(b) ==
  /\ b.kind = BOUNCE
  /\ wire[b.id] = [id |-> b.corr, how |-> "part"]
  /\ \E e \in Accepted : e.id = b.corr /\ e.from = b.to /\ e.from # HUB
Bounced == \A b \in HubEnvelopes : BouncedFor(b)

LedgerInv == Originals /\ Addressed /\ Wires /\ Placed /\ Delivered /\ Bounced
               /\ ReturnedThenFifo

-----------------------------------------------------------------------------
(* The audit log. *)

LEMMA AcceptedTyped ==
  ASSUME TypeOK
  PROVE  Accepted \subseteq Envelope /\ AcceptedIds \subseteq Conns
<1>1. ASSUME NEW k \in DOMAIN audit, audit[k].type = "accepted"
      PROVE  audit[k].env \in Envelope
  BY <1>1 DEF TypeOK, AuditEvent
<1>2. Accepted \subseteq Envelope
  BY <1>1 DEF Accepted, AcceptedAt
<1> QED BY <1>2 DEF AcceptedIds, Envelope

\* An append adds its own event and leaves the others where they are.
LEMMA AuditGrows ==
  ASSUME TypeOK, NEW e \in AuditEvent, audit' = Append(audit, e)
  PROVE  /\ DOMAIN audit = 1..Len(audit) /\ Len(audit) \in Nat
         /\ DOMAIN audit' = 1..(Len(audit) + 1) /\ audit'[Len(audit) + 1] = e
         /\ \A k \in DOMAIN audit : audit'[k] = audit[k]
         /\ e.type = "accepted" => Accepted' = Accepted \cup {e.env}
         /\ e.type = "delivery" => Accepted' = Accepted
<1>1. /\ DOMAIN audit = 1..Len(audit) /\ Len(audit) \in Nat
      /\ DOMAIN audit' = 1..(Len(audit) + 1) /\ audit'[Len(audit) + 1] = e
      /\ \A k \in DOMAIN audit : audit'[k] = audit[k]
  BY DEF TypeOK
<1>2. \A x : x \in Accepted <=> \E k \in DOMAIN audit : audit[k].type = "accepted" /\ audit[k].env = x
  BY DEF Accepted, AcceptedAt
<1>3. \A x : x \in Accepted' <=> \E k \in DOMAIN audit' : audit'[k].type = "accepted" /\ audit'[k].env = x
  BY DEF Accepted, AcceptedAt
<1>4. \A x : x \in Accepted' <=> x \in Accepted \/ (e.type = "accepted" /\ x = e.env)
  <2>1. ASSUME NEW x, x \in Accepted' PROVE x \in Accepted \/ (e.type = "accepted" /\ x = e.env)
    <3>1. PICK k \in DOMAIN audit' : audit'[k].type = "accepted" /\ audit'[k].env = x
      BY <1>3, <2>1
    <3>2. k \in DOMAIN audit \/ k = Len(audit) + 1
      BY <1>1
    <3> QED BY <1>1, <1>2, <3>1, <3>2
  <2>2. ASSUME NEW x, x \in Accepted PROVE x \in Accepted'
    <3>1. PICK k \in DOMAIN audit : audit[k].type = "accepted" /\ audit[k].env = x
      BY <1>2, <2>2
    <3>2. k \in DOMAIN audit' /\ audit'[k] = audit[k]
      BY <1>1
    <3> QED BY <1>3, <3>1, <3>2
  <2>3. e.type = "accepted" => e.env \in Accepted'
    <3>1. Len(audit) + 1 \in DOMAIN audit'
      BY <1>1
    <3> QED BY <1>1, <1>3, <3>1
  <2> QED BY <2>1, <2>2, <2>3
<1> QED BY <1>1, <1>4

-----------------------------------------------------------------------------
(* Steps of one connection that route nothing. *)

\* What a step of c leaves alone.
OthersStay(c) ==
  \A d \in Conns \ {c} :
    /\ pc'[d] = pc[d] /\ who'[d] = who[d] /\ slot'[d] = slot[d]
    /\ wire'[d] = wire[d] /\ reply'[d] = reply[d]

\* The log takes no accepted event.
NothingAccepted ==
  \/ UNCHANGED audit
  \/ \E e \in AuditEvent : e.type = "delivery" /\ audit' = Append(audit, e)

LEMMA NothingAcceptedKeeps ==
  ASSUME TypeOK, NothingAccepted
  PROVE  /\ Accepted' = Accepted /\ AcceptedIds' = AcceptedIds /\ HubEnvelopes' = HubEnvelopes
         /\ \A k \in DOMAIN audit : k \in DOMAIN audit' /\ audit'[k] = audit[k]
         /\ \A k \in DOMAIN audit' : audit'[k].type = "accepted" => k \in DOMAIN audit
<1>1. CASE UNCHANGED audit
  BY <1>1 DEF Accepted, AcceptedAt, AcceptedIds, HubEnvelopes
<1>2. ASSUME NEW e \in AuditEvent, e.type = "delivery", audit' = Append(audit, e)
      PROVE  /\ Accepted' = Accepted
             /\ \A k \in DOMAIN audit : k \in DOMAIN audit' /\ audit'[k] = audit[k]
             /\ \A k \in DOMAIN audit' : audit'[k].type = "accepted" => k \in DOMAIN audit
  <2>1. /\ DOMAIN audit = 1..Len(audit) /\ Len(audit) \in Nat
        /\ DOMAIN audit' = 1..(Len(audit) + 1) /\ audit'[Len(audit) + 1] = e
        /\ \A k \in DOMAIN audit : audit'[k] = audit[k]
        /\ Accepted' = Accepted
    BY <1>2, AuditGrows
  <2> QED BY <1>2, <2>1
<1> QED BY <1>1, <1>2 DEF NothingAccepted, AcceptedIds, HubEnvelopes

\* What ReturnedThenFifo says of an envelope x queued ahead of y.
InOrder(x, y) ==
  /\ y \in returned => x \in returned
  /\ x \notin returned => \E k, l \in DOMAIN audit :
                            /\ k < l
                            /\ AcceptedAt(k) /\ audit[k].env.id = x
                            /\ AcceptedAt(l) /\ audit[l].env.id = y

LEMMA OrderDef ==
  ReturnedThenFifo <=>
    \A n \in Names : \A i, j \in DOMAIN queues[n] :
      i < j => InOrder(queues[n][i].id, queues[n][j].id)
BY DEF ReturnedThenFifo, InOrder

\* Two envelopes stay in order when the audit log grows and neither returns.
LEMMA InOrderKept ==
  ASSUME NEW x, NEW y, InOrder(x, y),
         x \in returned' <=> x \in returned, y \in returned' <=> y \in returned,
         \A k \in DOMAIN audit : k \in DOMAIN audit' /\ audit'[k] = audit[k]
  PROVE  InOrder(x, y)'
BY DEF InOrder, AcceptedAt

\* The order of queues nobody touches.
LEMMA OrderKept ==
  ASSUME ReturnedThenFifo, UNCHANGED queues,
         \A n \in Names : \A i \in DOMAIN queues[n] :
           queues[n][i].id \in returned' <=> queues[n][i].id \in returned,
         \A k \in DOMAIN audit : k \in DOMAIN audit' /\ audit'[k] = audit[k]
  PROVE  ReturnedThenFifo'
<1>1. ASSUME NEW n \in Names, NEW i \in DOMAIN queues[n], NEW j \in DOMAIN queues[n], i < j
      PROVE  InOrder(queues[n][i].id, queues[n][j].id)'
  <2>1. InOrder(queues[n][i].id, queues[n][j].id)
    BY <1>1, OrderDef
  <2>2. PICK x : x = queues[n][i].id
    OBVIOUS
  <2>3. PICK y : y = queues[n][j].id
    OBVIOUS
  <2>4. InOrder(x, y)'
    BY <2>1, <2>2, <2>3, InOrderKept
  <2> QED BY <2>2, <2>3, <2>4 DEF InOrder
<1> QED BY <1>1 DEF ReturnedThenFifo, InOrder

\* What c had it keeps, or is dropped with; nothing else is dropped.
Loses(c) ==
  /\ \A x \in Conns : Has(c, x)' <=> Has(c, x) /\ x \notin dropped'
  /\ dropped \subseteq dropped'
  /\ \A x \in dropped' : x \in dropped \/ (x \in Conns /\ Has(c, x))

LEMMA LossKeeps ==
  ASSUME TypeOK, LedgerInv, NEW c \in Conns, pc[c] # "closed", OthersStay(c),
         UNCHANGED <<queues, returned>>, NothingAccepted,
         AddressedAt(c)', WireAt(c)', Loses(c)
  PROVE  Originals' /\ Addressed' /\ Wires' /\ Placed' /\ Bounced' /\ ReturnedThenFifo'
<1> USE DEF LedgerInv
<1>1. /\ Accepted' = Accepted /\ AcceptedIds' = AcceptedIds /\ HubEnvelopes' = HubEnvelopes
      /\ \A k \in DOMAIN audit : k \in DOMAIN audit' /\ audit'[k] = audit[k]
      /\ \A k \in DOMAIN audit' : audit'[k].type = "accepted" => k \in DOMAIN audit
  BY NothingAcceptedKeeps
<1>2. AcceptedIds \subseteq Conns /\ c \notin AcceptedIds
  BY AcceptedTyped DEF Originals
<1>3. Originals'
  <2>1. \A x \in AcceptedIds : pc'[x] = "closed"
    BY <1>2 DEF Originals, OthersStay
  <2>2. ASSUME NEW j \in DOMAIN audit', NEW k \in DOMAIN audit', AcceptedAt(j)', AcceptedAt(k)',
               audit'[j].env.id = audit'[k].env.id
        PROVE  j = k
    BY <1>1, <2>2 DEF Originals, AcceptedAt
  <2>3. dropped' \subseteq AcceptedIds
    BY DEF Originals, Placed, Loses, Standing
  <2> QED BY <1>1, <2>1, <2>2, <2>3 DEF Originals
<1>4. Addressed'
  <2>1. \A d \in Conns \ {c} : AddressedAt(d)'
    BY <1>1 DEF Addressed, AddressedAt, OthersStay
  <2> QED BY <1>1, <2>1 DEF Addressed
<1>5. Wires'
  BY DEF Wires, WireAt, OthersStay
<1>6. Placed'
  <2>1. \A x \in Conns : \A d \in Conns \ {c} : Has(d, x)' <=> Has(d, x)
    BY DEF OthersStay, Has, Holds, Took
  <2>2. \A x, d \in Conns : Has(d, x)' => Has(d, x)
    BY <2>1 DEF Loses
  <2>3. \A x \in Conns : Queued(x)' <=> Queued(x)
    BY DEF Queued
  <2>4. \A x, d, e \in Conns : Has(d, x) /\ Has(e, x) => d = e
    BY DEF Placed
  <2>5. \A x, d \in Conns : Has(d, x) => ~Queued(x)
    BY DEF Placed
  <2>6. \A x \in Conns :
          x \in AcceptedIds \ dropped <=> Queued(x) \/ \E d \in Conns : Has(d, x)
    BY DEF Placed, Standing
  <2>7. ASSUME NEW x \in Conns
        PROVE  x \in AcceptedIds \ dropped' <=> Queued(x) \/ \E d \in Conns : Has(d, x)'
    <3>1. x \in AcceptedIds \ dropped' => Queued(x) \/ \E d \in Conns : Has(d, x)'
      BY <2>1, <2>6 DEF Loses
    <3>2. Queued(x) => x \in AcceptedIds \ dropped'
      BY <2>5, <2>6 DEF Loses
    <3>3. ASSUME NEW d \in Conns, Has(d, x)'
          PROVE  x \in AcceptedIds \ dropped'
      BY <2>2, <2>4, <2>6, <3>3 DEF Loses
    <3> QED BY <3>1, <3>2, <3>3
  <2>8. \A x, d, e \in Conns : Has(d, x)' /\ Has(e, x)' => d = e
    BY <2>2, <2>4
  <2>9. \A x, d \in Conns : Has(d, x)' => ~Queued(x)'
    BY <2>2, <2>3, <2>5
  <2>10. \A n \in Names : \A i, j \in DOMAIN queues'[n] :
           queues'[n][i].id = queues'[n][j].id => i = j
    BY DEF Placed
  <2> QED BY <1>1, <2>3, <2>7, <2>8, <2>9, <2>10 DEF Placed, Standing
<1>7. Bounced'
  <2>1. ASSUME NEW b \in HubEnvelopes
        PROVE  BouncedFor(b)'
    <3>1. b.id \in Conns \ {c}
      BY <1>2 DEF HubEnvelopes, AcceptedIds
    <3>2. wire'[b.id] = wire[b.id]
      BY <3>1 DEF OthersStay
    <3>3. BouncedFor(b)
      BY DEF Bounced
    <3> QED BY <1>1, <3>2, <3>3 DEF BouncedFor
  <2> QED BY <1>1, <2>1 DEF Bounced
<1>8. ReturnedThenFifo'
  BY <1>1, OrderKept
<1> QED BY <1>3, <1>4, <1>5, <1>6, <1>7, <1>8

\* Nothing that has a place was dropped before.
LEMMA NothingLost ==
  ASSUME LedgerInv, NEW c \in Conns, UNCHANGED dropped,
         \A x \in Conns : Has(c, x)' <=> Has(c, x)
  PROVE  Loses(c)
BY DEF LedgerInv, Placed, Standing, Loses

LEMMA QuietKeeps ==
  ASSUME TypeOK, LedgerInv, NEW c \in Conns, pc[c] # "closed", OthersStay(c),
         UNCHANGED <<queues, returned, dropped>>, NothingAccepted,
         AddressedAt(c)', WireAt(c)', \A x \in Conns : Has(c, x)' <=> Has(c, x)
  PROVE  Originals' /\ Addressed' /\ Wires' /\ Placed' /\ Bounced' /\ ReturnedThenFifo'
<1>1. Loses(c)
  BY NothingLost
<1> QED BY <1>1, LossKeeps

LEMMA DeliveryTyped ==
  ASSUME TypeOK, NEW k \in DOMAIN audit, audit[k].type = "delivery"
  PROVE  audit[k].conn \in Conns /\ audit[k].id \in Conns
BY DEF TypeOK, AuditEvent

\* Deliveries are events of closed connections, which no step disturbs.
LEMMA DeliveredKept ==
  ASSUME TypeOK, LedgerInv, NEW c \in Conns, pc[c] # "closed",
         \A d \in Conns \ {c} : pc'[d] = pc[d] /\ who'[d] = who[d] /\ wire'[d] = wire[d],
         \A k \in DOMAIN audit : k \in DOMAIN audit' /\ audit'[k] = audit[k],
         \A k \in DOMAIN audit' : audit'[k].type = "delivery" => k \in DOMAIN audit
  PROVE  Delivered'
<1> SUFFICES ASSUME NEW k \in DOMAIN audit', DeliveryAt(k)'
             PROVE  DeliveredAt(k)'
  BY DEF Delivered
<1>1. k \in DOMAIN audit /\ audit'[k] = audit[k] /\ DeliveryAt(k)
  BY DEF DeliveryAt
<1>2. DeliveredAt(k)
  BY <1>1 DEF LedgerInv, Delivered
<1>3. audit[k].conn \in Conns \ {c}
  BY <1>1, <1>2, DeliveryTyped DEF DeliveryAt, DeliveredAt
<1>4. /\ pc'[audit[k].conn] = "closed"
      /\ wire'[audit[k].conn] = [id |-> audit[k].id, how |-> "whole"]
      /\ who'[audit[k].conn] = audit[k].to
  BY <1>2, <1>3 DEF DeliveredAt
<1>5. \E j \in 1..(k - 1) : /\ AcceptedAt(j)'
                            /\ audit'[j].env.id = audit[k].id
                            /\ audit'[j].env.to = audit[k].to
  BY <1>2 DEF DeliveredAt, AcceptedAt
<1>6. \A l \in DOMAIN audit' \ {k} : DeliveryAt(l)' => audit'[l].conn # audit[k].conn
  BY <1>2 DEF DeliveredAt, DeliveryAt
<1> QED BY <1>1, <1>4, <1>5, <1>6 DEF DeliveredAt

\* The two lemmas above, for a step that logs nothing.
LEMMA QuietStep ==
  ASSUME TypeOK, LedgerInv, NEW c \in Conns, pc[c] # "closed", OthersStay(c),
         UNCHANGED <<queues, audit, returned, dropped>>,
         AddressedAt(c)', WireAt(c)', \A x \in Conns : Has(c, x)' <=> Has(c, x)
  PROVE  LedgerInv'
<1>1. Delivered'
  BY DeliveredKept DEF OthersStay
<1>2. Originals' /\ Addressed' /\ Wires' /\ Placed' /\ Bounced' /\ ReturnedThenFifo'
  BY QuietKeeps DEF NothingAccepted
<1> QED BY <1>1, <1>2 DEF LedgerInv

\* What the invariants say of the connection that takes a step.
LEMMA AtStep ==
  ASSUME LedgerInv, NEW c \in Conns
  PROVE  /\ AddressedAt(c) /\ WireAt(c)
         /\ pc[c] # "closed" => reply[c] # "timeout"
BY DEF LedgerInv, Addressed, Wires, WireAt

LEMMA SendVerbLedger ==
  ASSUME HubInv, LedgerInv, NEW c \in Conns, NEW r \in Sends, SendVerb(c, r)
  PROVE  LedgerInv'
<1> USE DEF HubInv
<1>1. pc[c] = "ready" /\ slot[c] = None /\ wire[c] = None /\ reply[c] # "timeout"
  BY AtStep DEF SendVerb, Goto, Answer, RegistryInv, Holding, WireAt
<1>2. OthersStay(c) /\ UNCHANGED <<queues, audit, returned, dropped, wire>>
  BY DEF SendVerb, Goto, Answer, TypeOK, OthersStay
<1>3. \/ pc'[c] = "commit" /\ slot'[c] = Stamp(c, r) /\ reply'[c] = reply[c]
      \/ pc'[c] = "closed" /\ slot'[c] = None /\ reply'[c] = "invalid"
  BY <1>1 DEF SendVerb, Goto, Answer, TypeOK
<1>4. Stamp(c, r).id = c /\ Stamp(c, r).from \in Agents
  BY HubAssumption DEF Stamp, SendRequest
<1>5. AddressedAt(c)' /\ WireAt(c)'
  BY <1>1, <1>2, <1>3, <1>4 DEF AddressedAt, WireAt
<1>6. \A x \in Conns : Has(c, x)' <=> Has(c, x)
  BY <1>1, <1>2, <1>3 DEF Has, Holds, Took
<1> QED BY <1>1, <1>2, <1>5, <1>6, QuietStep

LEMMA AwaitInvalidLedger ==
  ASSUME HubInv, LedgerInv, NEW c \in Conns, NEW r \in Awaits, AwaitInvalid(c, r)
  PROVE  LedgerInv'
<1> USE DEF HubInv
<1>1. pc[c] = "ready" /\ slot[c] = None /\ wire[c] = None
  BY AtStep DEF AwaitInvalid, Goto, Answer, RegistryInv, Holding, WireAt
<1>2. OthersStay(c) /\ UNCHANGED <<queues, audit, returned, dropped, wire, slot>>
  BY DEF AwaitInvalid, Goto, Answer, TypeOK, OthersStay
<1>3. pc'[c] = "closed" /\ reply'[c] = "invalid"
  BY DEF AwaitInvalid, Goto, Answer, TypeOK
<1>4. AddressedAt(c)' /\ WireAt(c)' /\ \A x \in Conns : Has(c, x)' <=> Has(c, x)
  BY <1>1, <1>2, <1>3 DEF AddressedAt, WireAt, Has, Holds, Took
<1> QED BY <1>1, <1>2, <1>4, QuietStep

LEMMA AwaitParkLedger ==
  ASSUME HubInv, LedgerInv, NEW c \in Conns, NEW r \in Awaits, AwaitPark(c, r)
  PROVE  LedgerInv'
<1> USE DEF HubInv
<1>1. pc[c] = "ready" /\ slot[c] = None /\ wire[c] = None /\ reply[c] # "timeout"
  BY AtStep DEF AwaitPark, Goto, RegistryInv, Holding, WireAt
<1>2. OthersStay(c) /\ UNCHANGED <<queues, audit, returned, dropped, wire, slot, reply>>
  BY DEF AwaitPark, Goto, TypeOK, OthersStay
<1>3. pc'[c] = "parked"
  BY DEF AwaitPark, Goto, TypeOK
<1>4. AddressedAt(c)' /\ WireAt(c)' /\ \A x \in Conns : Has(c, x)' <=> Has(c, x)
  BY <1>1, <1>2, <1>3 DEF AddressedAt, WireAt, Has, Holds, Took
<1> QED BY <1>1, <1>2, <1>4, QuietStep

\* A parked task goes on to write what it was handed.
LEMMA ReceiveLedger ==
  ASSUME HubInv, LedgerInv, NEW c \in Conns, Receive(c)
  PROVE  LedgerInv'
<1> USE DEF HubInv
<1>1. pc[c] = "parked" /\ pc'[c] = "deliver"
  BY DEF Receive, Goto, TypeOK
<1>2. OthersStay(c) /\ UNCHANGED <<queues, audit, returned, dropped, who, wire, slot, reply>>
  BY DEF Receive, Goto, TypeOK, OthersStay
<1>3. Accepted' = Accepted
  BY <1>2 DEF Accepted, AcceptedAt
<1>4. AddressedAt(c)' /\ WireAt(c)' /\ \A x \in Conns : Has(c, x)' <=> Has(c, x)
  BY <1>1, <1>2, <1>3, AtStep DEF AddressedAt, WireAt, Has, Holds, Took
<1> QED BY <1>1, <1>2, <1>4, QuietStep

\* Or it dies, and what it was handed goes with it.
LEMMA TaskDiesLedger ==
  ASSUME HubInv, LedgerInv, NEW c \in Conns, TaskDies(c)
  PROVE  LedgerInv'
<1> USE DEF HubInv
<1>1. /\ pc[c] \in {"parked", "deliver"} /\ pc'[c] \in {"dead", "closed"}
      /\ slot'[c] = None /\ wire[c] = None
  BY AtStep DEF TaskDies, Goto, TypeOK, WireAt
<1>2. OthersStay(c) /\ UNCHANGED <<queues, audit, returned, who, wire, reply>>
  BY DEF TaskDies, Goto, TypeOK, OthersStay
<1>3. AddressedAt(c)' /\ WireAt(c)'
  BY <1>1, <1>2, AtStep DEF AddressedAt, WireAt
<1>4. Loses(c)
  <2>1. \A x \in Conns : Has(c, x) <=> slot[c] # None /\ slot[c].id = x
    BY <1>1 DEF Has, Holds, Took
  <2>2. \A x \in Conns : ~Has(c, x)'
    BY <1>1, <1>2 DEF Has, Holds, Took
  <2>3. \A x : x \in dropped' <=> x \in dropped \/ (slot[c] # None /\ slot[c].id = x)
    BY DEF TaskDies
  <2>4. slot[c] # None => slot[c].id \in Conns
    BY DEF TypeOK, Envelope
  <2> QED BY <2>1, <2>2, <2>3, <2>4 DEF Loses
<1>5. Delivered'
  BY <1>1, <1>2, DeliveredKept DEF OthersStay
<1>6. Originals' /\ Addressed' /\ Wires' /\ Placed' /\ Bounced' /\ ReturnedThenFifo'
  BY <1>1, <1>2, <1>3, <1>4, LossKeeps DEF NothingAccepted
<1> QED BY <1>5, <1>6 DEF LedgerInv

\* The waiter a timeout finds is its own, so nothing was handed over.
LEMMA TimeoutEmpty ==
  ASSUME HubInv, NEW c \in Conns, Timeout(c)
  PROVE  slot[c] = None
<1> USE DEF HubInv, RegistryInv
<1>1. pc[c] = "parked" /\ who[c] \in Names
  BY HubAssumption DEF Timeout, Answer, Goto, Holding
<1>2. PICK w \in waiters[who[c]] : w.id = ticket[c]
  BY DEF Timeout
<1>3. w \in Waiter /\ w.conn \in Conns /\ ticket[w.conn] = w.id /\ slot[w.conn] = None
  BY <1>1, RegisteredWaiter
<1>4. ticket[w.conn] # None
  BY <1>3, HubAssumption DEF Waiter
<1> QED BY <1>2, <1>3, <1>4 DEF Tickets

LEMMA TimeoutLedger ==
  ASSUME HubInv, LedgerInv, NEW c \in Conns, Timeout(c)
  PROVE  LedgerInv'
<1> USE DEF HubInv
<1>1. pc[c] = "parked" /\ pc'[c] = "closed" /\ slot[c] = None /\ wire[c] = None
  BY AtStep, TimeoutEmpty DEF Timeout, Answer, Goto, TypeOK, WireAt
<1>2. OthersStay(c) /\ UNCHANGED <<queues, audit, returned, dropped, wire, slot>>
  BY DEF Timeout, Answer, Goto, TypeOK, OthersStay
<1>3. AddressedAt(c)' /\ WireAt(c)' /\ \A x \in Conns : Has(c, x)' <=> Has(c, x)
  BY <1>1, <1>2 DEF AddressedAt, WireAt, Has, Holds, Took
<1> QED BY <1>1, <1>2, <1>3, QuietStep

\* A write that puts bytes on the wire moves the envelope from task to socket.
LEMMA WriteLedger ==
  ASSUME HubInv, LedgerInv, NEW c \in Conns, WriteWhole(c) \/ WriteFailsPartial(c)
  PROVE  LedgerInv'
<1> USE DEF HubInv
<1>1. pc[c] = "deliver" /\ slot[c] \in Envelope /\ slot[c] # None /\ wire[c] = None
      /\ reply[c] # "timeout"
  BY AtStep DEF WriteWhole, WriteFailsPartial, Goto, RegistryInv, Holding, WireAt, TypeOK
<1>2. OthersStay(c) /\ UNCHANGED <<queues, audit, returned, dropped, who, reply>>
  BY DEF WriteWhole, WriteFailsPartial, Goto, TypeOK, OthersStay
<1>3. \/ /\ pc'[c] = "log" /\ slot'[c] = slot[c]
         /\ wire'[c] = [id |-> slot[c].id, how |-> "whole"]
      \/ /\ pc'[c] = "bounce" /\ slot'[c] = slot[c] /\ slot[c].from # HUB
         /\ wire'[c] = [id |-> slot[c].id, how |-> "part"]
      \/ /\ pc'[c] = "closed" /\ slot'[c] = None
         /\ wire'[c] = [id |-> slot[c].id, how |-> "part"]
  BY DEF WriteWhole, WriteFailsPartial, Goto, TypeOK
<1>4. Accepted' = Accepted
  BY <1>2 DEF Accepted, AcceptedAt
<1>5. AddressedAt(c)'
  BY <1>1, <1>2, <1>3, <1>4, AtStep DEF AddressedAt
<1>6. WireAt(c)'
  BY <1>1, <1>2, <1>3 DEF WireAt
<1>7. wire'[c] # None /\ wire'[c].id = slot[c].id
  BY <1>1, <1>3, HubAssumption DEF Envelope, WireContent
<1>8. \A x \in Conns : Has(c, x)' <=> Has(c, x)
  BY <1>1, <1>3, <1>7 DEF Has, Holds, Took
<1> QED BY <1>1, <1>2, <1>5, <1>6, <1>8, QuietStep

LEMMA LogDeliveryLedger ==
  ASSUME HubInv, LedgerInv, NEW c \in Conns, LogDelivery(c)
  PROVE  LedgerInv'
<1> USE DEF HubInv
<1> DEFINE e == [type |-> "delivery", id |-> slot[c].id, to |-> who[c], conn |-> c]
<1>1. /\ pc[c] = "log" /\ slot[c] \in Envelope /\ slot[c] # None /\ who[c] \in Agents
      /\ reply[c] # "timeout"
      /\ wire[c] = [id |-> slot[c].id, how |-> "whole"]
      /\ slot[c] \in Accepted /\ slot[c].to = who[c]
  BY AtStep DEF LogDelivery, Goto, RegistryInv, Holding, WireAt, AddressedAt, TypeOK
<1>2. OthersStay(c) /\ UNCHANGED <<queues, returned, dropped, who, wire, reply>>
  BY DEF LogDelivery, Goto, AuditFails, TypeOK, OthersStay
<1>3. pc'[c] = "closed" /\ slot'[c] = None
  BY DEF LogDelivery, Goto, AuditFails, TypeOK
<1>4. AddressedAt(c)' /\ WireAt(c)' /\ \A x \in Conns : Has(c, x)' <=> Has(c, x)
  BY <1>1, <1>2, <1>3 DEF AddressedAt, WireAt, Has, Holds, Took
<1>5. CASE AuditFails(c)
  BY <1>1, <1>2, <1>4, <1>5, QuietStep DEF AuditFails
<1>6. CASE audit' = Append(audit, e)
  <2>1. e \in AuditEvent
    BY <1>1 DEF AuditEvent, Envelope
  <2>2. /\ DOMAIN audit = 1..Len(audit) /\ Len(audit) \in Nat
        /\ DOMAIN audit' = 1..(Len(audit) + 1) /\ audit'[Len(audit) + 1] = e
        /\ \A k \in DOMAIN audit : audit'[k] = audit[k]
    BY <1>6, <2>1, AuditGrows
  <2>3. NothingAccepted
    BY <1>6, <2>1 DEF NothingAccepted
  <2>4. Originals' /\ Addressed' /\ Wires' /\ Placed' /\ Bounced' /\ ReturnedThenFifo'
    BY <1>1, <1>2, <1>4, <2>3, QuietKeeps
  <2>5. ASSUME NEW k \in DOMAIN audit, DeliveryAt(k)
        PROVE  DeliveredAt(k) /\ audit[k].conn \in Conns \ {c}
    BY <1>1, <2>5, DeliveryTyped DEF DeliveryAt, LedgerInv, Delivered, DeliveredAt
  <2>6. ASSUME NEW k \in DOMAIN audit, DeliveryAt(k)
        PROVE  DeliveredAt(k)'
    <3>1. /\ DeliveredAt(k) /\ audit[k].conn \in Conns \ {c}
          /\ audit'[k] = audit[k]
      BY <2>2, <2>5, <2>6
    <3>2. /\ pc'[audit[k].conn] = "closed"
          /\ wire'[audit[k].conn] = [id |-> audit[k].id, how |-> "whole"]
          /\ who'[audit[k].conn] = audit[k].to
      BY <1>2, <3>1 DEF OthersStay, DeliveredAt
    <3>3. \E j \in 1..(k - 1) : /\ AcceptedAt(j)'
                                /\ audit'[j].env.id = audit[k].id
                                /\ audit'[j].env.to = audit[k].to
      <4>1. PICK j \in 1..(k - 1) : /\ AcceptedAt(j)
                                    /\ audit[j].env.id = audit[k].id
                                    /\ audit[j].env.to = audit[k].to
        BY <3>1 DEF DeliveredAt
      <4>2. j \in DOMAIN audit' /\ audit'[j] = audit[j]
        BY <2>2, <4>1 DEF AcceptedAt
      <4> QED BY <4>1, <4>2 DEF AcceptedAt
    <3>4. ASSUME NEW l \in DOMAIN audit' \ {k}, DeliveryAt(l)'
          PROVE  audit'[l].conn # audit[k].conn
      <4>1. CASE l \in DOMAIN audit
        <5>1. audit'[l] = audit[l] /\ l \in DOMAIN audit \ {k}
          BY <2>2, <3>4, <4>1
        <5>2. DeliveryAt(l)
          BY <3>4, <4>1, <5>1 DEF DeliveryAt
        <5> QED BY <3>1, <5>1, <5>2 DEF DeliveredAt
      <4>2. CASE l = Len(audit) + 1
        BY <2>2, <3>1, <4>2
      <4> QED BY <2>2, <4>1, <4>2
    <3> QED BY <3>1, <3>2, <3>3, <3>4 DEF DeliveredAt
  <2> PICK m \in Nat : m = Len(audit) + 1
    BY <2>2
  <2>7. DeliveredAt(m)'
    <3>1. PICK j \in DOMAIN audit : AcceptedAt(j) /\ audit[j].env = slot[c]
      BY <1>1 DEF Accepted, AcceptedAt
    <3>2. j \in 1..(m - 1) /\ j \in DOMAIN audit' /\ audit'[j] = audit[j]
      BY <2>2, <3>1
    <3>3. AcceptedAt(j)' /\ audit'[j].env.id = slot[c].id /\ audit'[j].env.to = who[c]
      BY <1>1, <3>1, <3>2 DEF AcceptedAt
    <3>4. \A l \in DOMAIN audit' \ {m} : DeliveryAt(l)' => audit'[l].conn # c
      BY <2>2, <2>5 DEF DeliveryAt
    <3>5. audit'[m].conn = c /\ audit'[m].id = slot[c].id /\ audit'[m].to = who[c]
      BY <2>2
    <3>6. pc'[c] = "closed" /\ wire'[c] = [id |-> slot[c].id, how |-> "whole"] /\ who'[c] = who[c]
      BY <1>1, <1>2, <1>3
    <3> QED BY <3>2, <3>3, <3>4, <3>5, <3>6 DEF DeliveredAt
  <2>8. Delivered'
    <3> SUFFICES ASSUME NEW k \in DOMAIN audit', DeliveryAt(k)'
                 PROVE  DeliveredAt(k)'
      BY DEF Delivered
    <3>1. CASE k \in DOMAIN audit
      BY <2>2, <2>6, <3>1 DEF DeliveryAt
    <3>2. k \in DOMAIN audit \/ k = m
      BY <2>2
    <3> QED BY <2>7, <3>1, <3>2
  <2> QED BY <2>4, <2>8 DEF LedgerInv
<1> QED BY <1>5, <1>6 DEF LogDelivery

-----------------------------------------------------------------------------
(* A route step: the envelope leaves c for a parked task or for a queue. *)

HandedTo(env, c, h) ==
  /\ pc[h] = "parked" /\ who[h] = env.to /\ slot[h] = None
  /\ slot'[h] = env /\ slot'[c] = None
  /\ \A d \in Conns \ {c, h} : slot'[d] = slot[d]
  /\ UNCHANGED queues

QueuedAt(env, c, p) ==
  /\ slot'[c] = None
  /\ \A d \in Conns \ {c} : slot'[d] = slot[d]
  /\ queues'[env.to] \in Seq(Envelope)
  /\ InsertedAt(queues'[env.to], queues[env.to], env, p)
  /\ \A n \in Names \ {env.to} : queues'[n] = queues[n]

LEMMA HandOffEffect ==
  ASSUME HubInv, NEW env \in Envelope, NEW c \in Conns, RouteStep(c), HandOff(env, c)
  PROVE  \E h \in Conns \ {c} : HandedTo(env, c, h)
<1> DEFINE candidates == Candidates(waiters[env.to], env)
           live == {w \in candidates : pc[w.conn] # "dead"}
<1>1. env.to \in Names
  BY DEF Envelope
<1>2. PICK w \in live : /\ slot' = [slot EXCEPT ![c] = None, ![w.conn] = env]
                        /\ UNCHANGED queues
  BY DEF HandOff
<1>3. w \in waiters[env.to] /\ pc[w.conn] # "dead"
  BY DEF Candidates
<1>4. w.conn \in Conns /\ pc[w.conn] = "parked" /\ who[w.conn] = env.to /\ slot[w.conn] = None
  BY <1>1, <1>3, RegisteredWaiter
<1>5. w.conn # c
  BY <1>4 DEF RouteStep
<1>6. HandedTo(env, c, w.conn)
  BY <1>2, <1>4, <1>5 DEF HandedTo, HubInv, TypeOK
<1> QED BY <1>4, <1>5, <1>6

LEMMA EnqueueEffect ==
  ASSUME HubInv, NEW env \in Envelope, NEW c \in Conns, NEW q \in Seq(Envelope), NEW p,
         Enqueue(env, c, q), InsertedAt(q, queues[env.to], env, p)
  PROVE  QueuedAt(env, c, p)
<1>1. env.to \in Names
  BY DEF Envelope
<1>2. queues' = [queues EXCEPT ![env.to] = q] /\ slot' = [slot EXCEPT ![c] = None]
  BY DEF Enqueue
<1> QED BY <1>1, <1>2 DEF QueuedAt, HubInv, TypeOK

LEMMA RouteEffect ==
  ASSUME HubInv, NEW env \in Envelope, NEW c \in Conns, RouteStep(c)
  PROVE  /\ RouteToBack(env, c) => \/ \E h \in Conns \ {c} : HandedTo(env, c, h)
                                   \/ QueuedAt(env, c, Len(queues[env.to]) + 1)
         /\ RouteToFront(env, c) => \/ \E h \in Conns \ {c} : HandedTo(env, c, h)
                                    \/ QueuedAt(env, c, 1)
<1>1. PICK s \in Seq(Envelope) : s = queues[env.to]
  BY DEF HubInv, TypeOK, Envelope
<1>2. PICK back : back = Append(s, env)
  OBVIOUS
<1>3. PICK front : front = <<env>> \o s
  OBVIOUS
<1>4. /\ back \in Seq(Envelope) /\ InsertedAt(back, s, env, Len(s) + 1)
      /\ front \in Seq(Envelope) /\ InsertedAt(front, s, env, 1)
  BY <1>2, <1>3, EndsInsert
<1>5. Enqueue(env, c, back) => QueuedAt(env, c, Len(s) + 1)
  BY <1>1, <1>4, EnqueueEffect
<1>6. Enqueue(env, c, front) => QueuedAt(env, c, 1)
  BY <1>1, <1>4, EnqueueEffect
<1> QED BY <1>1, <1>2, <1>3, <1>5, <1>6, HandOffEffect DEF RouteToBack, RouteToFront

\* c gives up the envelope, which is nowhere else.
OnlyWith(env, c) ==
  /\ ~Queued(env.id) /\ ~Took(c, env.id)
  /\ \A d \in Conns \ {c} : ~Has(d, env.id)
  /\ \A x \in Conns : Holds(c, x) => x = env.id

LEMMA HandedPlaced ==
  ASSUME HubInv, LedgerInv, NEW env \in Envelope, NEW c \in Conns, RouteStep(c), UNCHANGED wire,
         OnlyWith(env, c), Standing' = Standing \cup {env.id},
         NEW h \in Conns \ {c}, HandedTo(env, c, h)
  PROVE  Placed'
<1>1. env.id \in Conns /\ env # None
  BY HubAssumption DEF Envelope
<1>2. wire[h] = None
  BY AtStep DEF WireAt, HandedTo
<1>3. pc'[c] = "closed" /\ \A d \in Conns \ {c} : pc'[d] = pc[d]
  BY DEF RouteStep, HubInv, TypeOK
<1>4. \A x \in Conns : Has(h, x)' <=> x = env.id
  BY <1>1, <1>2, <1>3 DEF Has, Holds, Took, HandedTo
<1>5. \A x \in Conns : ~Has(h, x)
  BY <1>2 DEF Has, Holds, Took, HandedTo
<1>6. \A x \in Conns : Has(c, x)' <=> Has(c, x) /\ x # env.id
  BY <1>3 DEF Has, Holds, Took, OnlyWith, HandedTo
<1>7. \A d \in Conns \ {c, h} : \A x \in Conns : Has(d, x)' <=> Has(d, x) /\ x # env.id
  <2>1. \A d \in Conns \ {c, h} : \A x \in Conns : Has(d, x)' <=> Has(d, x)
    BY <1>3 DEF Has, Holds, Took, HandedTo
  <2> QED BY <2>1 DEF OnlyWith
<1>8. \A x \in Conns : Queued(x)' <=> Queued(x)
  BY DEF Queued, HandedTo
<1>9. \A x, d \in Conns : Has(d, x)' <=> \/ Has(d, x) /\ x # env.id
                                         \/ d = h /\ x = env.id
  BY <1>4, <1>5, <1>6, <1>7
<1>10. queues' = queues
  BY DEF HandedTo
<1> USE DEF LedgerInv
<1>11. \A x, d, f \in Conns : Has(d, x)' /\ Has(f, x)' => d = f
  BY <1>9 DEF Placed
<1>12. \A x, d \in Conns : Has(d, x)' => ~Queued(x)'
  BY <1>8, <1>9 DEF Placed, OnlyWith
<1>13. \A x \in Conns : x \in Standing' <=> Queued(x)' \/ \E d \in Conns : Has(d, x)'
  BY <1>1, <1>8, <1>9 DEF Placed
<1> QED BY <1>10, <1>11, <1>12, <1>13 DEF Placed

LEMMA QueuedPlaced ==
  ASSUME HubInv, LedgerInv, NEW env \in Envelope, NEW c \in Conns, RouteStep(c), UNCHANGED wire,
         OnlyWith(env, c), Standing' = Standing \cup {env.id},
         NEW p, QueuedAt(env, c, p)
  PROVE  Placed'
<1> USE DEF LedgerInv
<1>1. env.id \in Conns /\ env.to \in Names
  BY DEF Envelope
<1>2. pc'[c] = "closed" /\ \A d \in Conns \ {c} : pc'[d] = pc[d]
  BY DEF RouteStep, HubInv, TypeOK
<1>3. \A x, d \in Conns : Has(d, x)' <=> Has(d, x) /\ x # env.id
  <2>1. \A x \in Conns : Has(c, x)' <=> Has(c, x) /\ x # env.id
    BY <1>2 DEF Has, Holds, Took, OnlyWith, QueuedAt
  <2>2. \A d \in Conns \ {c} : \A x \in Conns : Has(d, x)' <=> Has(d, x)
    BY <1>2 DEF Has, Holds, Took, QueuedAt
  <2> QED BY <2>1, <2>2 DEF OnlyWith
<1>4. PICK s \in Seq(Envelope) : s = queues[env.to]
  BY <1>1 DEF HubInv, TypeOK
<1>5. PICK q \in Seq(Envelope) : q = queues'[env.to]
  BY DEF QueuedAt
<1>6. /\ p \in DOMAIN q /\ q[p] = env
      /\ \A k \in DOMAIN q \ {p} : \E i \in DOMAIN s : s[i] = q[k]
      /\ \A i \in DOMAIN s : \E k \in DOMAIN q \ {p} : s[i] = q[k]
      /\ \A k, l \in DOMAIN q \ {p} : k < l =>
           \E i, j \in DOMAIN s : i < j /\ s[i] = q[k] /\ s[j] = q[l]
  <2>1. InsertedAt(q, s, env, p)
    BY <1>4, <1>5 DEF QueuedAt
  <2> QED BY <2>1, InsertionKeepsOrder
<1>7. \A x \in Conns : Queued(x)' <=> Queued(x) \/ x = env.id
  <2>1. ASSUME NEW x \in Conns, Queued(x)' PROVE Queued(x) \/ x = env.id
    <3>1. PICK n \in Names : \E i \in DOMAIN queues'[n] : queues'[n][i].id = x
      BY <2>1 DEF Queued
    <3>2. CASE n = env.to
      <4>1. PICK i \in DOMAIN q : q[i].id = x
        BY <1>5, <3>1, <3>2
      <4>2. CASE i = p
        BY <1>6, <4>1, <4>2
      <4>3. CASE i # p
        <5>1. PICK j \in DOMAIN s : s[j] = q[i]
          BY <1>6, <4>3
        <5> QED BY <1>1, <1>4, <4>1, <5>1 DEF Queued
      <4> QED BY <4>2, <4>3
    <3>3. CASE n # env.to
      BY <3>1, <3>3 DEF Queued, QueuedAt
    <3> QED BY <3>2, <3>3
  <2>2. ASSUME NEW x \in Conns, Queued(x) PROVE Queued(x)'
    <3>1. PICK n \in Names : \E i \in DOMAIN queues[n] : queues[n][i].id = x
      BY <2>2 DEF Queued
    <3>2. CASE n = env.to
      BY <1>1, <1>4, <1>5, <1>6, <3>1, <3>2 DEF Queued
    <3>3. CASE n # env.to
      BY <3>1, <3>3 DEF Queued, QueuedAt
    <3> QED BY <3>2, <3>3
  <2>3. Queued(env.id)'
    BY <1>1, <1>5, <1>6 DEF Queued
  <2> QED BY <2>1, <2>2, <2>3
<1>8. ASSUME NEW n \in Names, NEW k \in DOMAIN queues'[n], NEW l \in DOMAIN queues'[n],
             queues'[n][k].id = queues'[n][l].id
      PROVE  k = l
  <2>1. CASE n # env.to
    BY <1>8, <2>1 DEF Placed, QueuedAt
  <2>2. CASE n = env.to
    <3>1. \A i \in DOMAIN s : s[i].id # env.id
      BY <1>1, <1>4 DEF OnlyWith, Queued
    <3>2. \A i, j \in DOMAIN s : s[i].id = s[j].id => i = j
      BY <1>1, <1>4 DEF Placed
    <3>3. k \in DOMAIN q /\ l \in DOMAIN q /\ q[k].id = q[l].id /\ DOMAIN q \subseteq Int
      BY <1>5, <1>8, <2>2
    <3>4. CASE k = p \/ l = p
      BY <1>6, <3>1, <3>3, <3>4
    <3>5. CASE k # p /\ l # p /\ k < l
      <4>1. PICK i, j \in DOMAIN s : i < j /\ s[i] = q[k] /\ s[j] = q[l]
        BY <1>6, <3>3, <3>5
      <4> QED BY <3>2, <3>3, <4>1
    <3>6. CASE k # p /\ l # p /\ l < k
      <4>1. PICK i, j \in DOMAIN s : i < j /\ s[i] = q[l] /\ s[j] = q[k]
        BY <1>6, <3>3, <3>6
      <4> QED BY <3>2, <3>3, <4>1
    <3> QED BY <3>3, <3>4, <3>5, <3>6
  <2> QED BY <2>1, <2>2
<1>9. \A x, d, f \in Conns : Has(d, x)' /\ Has(f, x)' => d = f
  BY <1>3 DEF Placed
<1>10. \A x, d \in Conns : Has(d, x)' => ~Queued(x)'
  BY <1>3, <1>7 DEF Placed
<1>11. \A x \in Conns : x \in Standing' <=> Queued(x)' \/ \E d \in Conns : Has(d, x)'
  <2>1. ASSUME NEW x \in Conns, x # env.id
        PROVE  x \in Standing' <=> Queued(x)' \/ \E d \in Conns : Has(d, x)'
    BY <1>3, <1>7, <2>1 DEF Placed
  <2> QED BY <1>7, <2>1
<1> QED BY <1>8, <1>9, <1>10, <1>11 DEF Placed

\* Where a routed envelope went, seen from its destination only.
Routed(env, c) ==
  \/ \E h \in Conns \ {c} : HandedTo(env, c, h)
  \/ \E p : QueuedAt(env, c, p)

\* What routing an accepted envelope keeps of the addresses and the sockets.
LEMMA RoutedAddressed ==
  ASSUME HubInv, LedgerInv, NEW env \in Envelope, NEW c \in Conns, RouteStep(c), Routed(env, c),
         UNCHANGED wire, \A d \in Conns \ {c} : reply'[d] = reply[d], reply'[c] # "timeout",
         Accepted \subseteq Accepted', env \in Accepted'
  PROVE  Addressed' /\ Wires'
<1> USE DEF LedgerInv
<1>1. pc'[c] = "closed" /\ slot'[c] = None
      /\ \A d \in Conns \ {c} : pc'[d] = pc[d] /\ who'[d] = who[d]
  BY DEF RouteStep, HubInv, TypeOK, Routed, HandedTo, QueuedAt
<1>2. AddressedAt(c)' /\ WireAt(c)'
  BY <1>1 DEF AddressedAt, WireAt
<1>3. ASSUME NEW d \in Conns \ {c}, slot'[d] = slot[d]
      PROVE  AddressedAt(d)' /\ WireAt(d)'
  BY <1>1, <1>3, AtStep DEF AddressedAt, WireAt
<1>4. CASE \E h \in Conns \ {c} : HandedTo(env, c, h)
  <2>1. PICK h \in Conns \ {c} : HandedTo(env, c, h)
    BY <1>4
  <2>2. AddressedAt(h)' /\ WireAt(h)'
    BY <1>1, <2>1, AtStep DEF HandedTo, AddressedAt, WireAt
  <2>3. \A d \in Conns : AddressedAt(d)' /\ WireAt(d)'
    BY <1>2, <1>3, <2>1, <2>2 DEF HandedTo
  <2>4. UNCHANGED queues
    BY <2>1 DEF HandedTo
  <2> QED BY <2>3, <2>4 DEF Addressed, Wires
<1>5. CASE \E p : QueuedAt(env, c, p)
  <2>1. PICK p : QueuedAt(env, c, p)
    BY <1>5
  <2>2. \A d \in Conns : AddressedAt(d)' /\ WireAt(d)'
    BY <1>2, <1>3, <2>1 DEF QueuedAt
  <2>3. ASSUME NEW n \in Names, NEW i \in DOMAIN queues'[n]
        PROVE  queues'[n][i] \in Accepted' /\ queues'[n][i].to = n
    <3>1. CASE n # env.to
      BY <2>1, <3>1 DEF QueuedAt, Addressed
    <3>2. CASE n = env.to
      <4>1. PICK s \in Seq(Envelope) : s = queues[n]
        BY DEF HubInv, TypeOK
      <4>2. PICK q \in Seq(Envelope) : q = queues'[n]
        BY <2>1, <3>2 DEF QueuedAt
      <4>3. InsertedAt(q, s, env, p)
        BY <2>1, <3>2, <4>1, <4>2 DEF QueuedAt
      <4>4. q[p] = env /\ \A k \in DOMAIN q \ {p} : \E j \in DOMAIN s : s[j] = q[k]
        BY <4>3, InsertionKeepsOrder
      <4>5. \A j \in DOMAIN s : s[j] \in Accepted /\ s[j].to = n
        BY <4>1 DEF Addressed
      <4> QED BY <3>2, <4>2, <4>4, <4>5
    <3> QED BY <3>1, <3>2
  <2> QED BY <2>2, <2>3 DEF Addressed, Wires
<1> QED BY <1>4, <1>5 DEF Routed

LEMMA RoutedPlaced ==
  ASSUME HubInv, LedgerInv, NEW env \in Envelope, NEW c \in Conns, RouteStep(c), UNCHANGED wire,
         OnlyWith(env, c), Standing' = Standing \cup {env.id}, Routed(env, c)
  PROVE  Placed'
<1>1. CASE \E h \in Conns \ {c} : HandedTo(env, c, h)
  BY <1>1, HandedPlaced
<1>2. CASE \E p : QueuedAt(env, c, p)
  <2>1. PICK p : QueuedAt(env, c, p)
    BY <1>2
  <2> QED BY <2>1, QueuedPlaced
<1> QED BY <1>1, <1>2 DEF Routed

LEMMA RoutedDelivered ==
  ASSUME HubInv, LedgerInv, NEW c \in Conns, RouteStep(c), UNCHANGED wire,
         \A k \in DOMAIN audit : k \in DOMAIN audit' /\ audit'[k] = audit[k],
         \A k \in DOMAIN audit' : audit'[k].type = "delivery" => k \in DOMAIN audit
  PROVE  Delivered'
<1>1. pc[c] # "closed" /\ \A d \in Conns \ {c} : pc'[d] = pc[d] /\ who'[d] = who[d]
  BY DEF RouteStep, HubInv, TypeOK
<1> QED BY <1>1, DeliveredKept DEF HubInv

\* A bounce that was true stays true.
LEMMA BouncedKept ==
  ASSUME NEW b, BouncedFor(b), UNCHANGED wire, Accepted \subseteq Accepted'
  PROVE  BouncedFor(b)'
BY DEF BouncedFor

\* c appends the accepted event of its own envelope and ends, wherever the
\* envelope goes.
LEMMA AcceptKeeps ==
  ASSUME HubInv, LedgerInv, NEW env \in Envelope, NEW c \in Conns, RouteStep(c),
         UNCHANGED <<wire, returned>>, AppendAccepted(env),
         dropped' \subseteq dropped \cup {env.id},
         env.id = c, env.from # HUB \/ BouncedFor(env)
  PROVE  /\ Originals' /\ Delivered' /\ Bounced'
         /\ Accepted' = Accepted \cup {env} /\ AcceptedIds' = AcceptedIds \cup {c}
         /\ c \notin AcceptedIds /\ AcceptedIds \subseteq Conns /\ dropped \subseteq AcceptedIds
         /\ \E o \in DOMAIN audit' : /\ audit'[o].type = "accepted" /\ audit'[o].env = env
                                    /\ \A k \in DOMAIN audit : k < o
         /\ \A k \in DOMAIN audit : k \in DOMAIN audit' /\ audit'[k] = audit[k]
<1> USE DEF HubInv, LedgerInv
<1> DEFINE e == [type |-> "accepted", env |-> env]
<1>1. e \in AuditEvent /\ audit' = Append(audit, e)
  BY DEF AuditEvent, AppendAccepted
<1> HIDE DEF e
<1>2. /\ DOMAIN audit = 1..Len(audit) /\ Len(audit) \in Nat
      /\ DOMAIN audit' = 1..(Len(audit) + 1) /\ audit'[Len(audit) + 1] = e
      /\ \A k \in DOMAIN audit : audit'[k] = audit[k]
      /\ e.type = "accepted" /\ e.env = env
      /\ Accepted' = Accepted \cup {env}
  <2>1. e.type = "accepted" /\ e.env = env
    BY DEF e
  <2> QED BY <1>1, <2>1, AuditGrows
<1>3. \A k \in DOMAIN audit : k \in DOMAIN audit' /\ audit'[k] = audit[k]
  BY <1>2
<1>4. \A k \in DOMAIN audit' : k \in DOMAIN audit \/ k = Len(audit) + 1
  BY <1>2
<1>5. \A k \in DOMAIN audit' : audit'[k].type = "delivery" => k \in DOMAIN audit
  BY <1>2, <1>4
<1>6. AcceptedIds' = AcceptedIds \cup {env.id}
  BY <1>2 DEF AcceptedIds
<1>7. c \notin AcceptedIds /\ AcceptedIds \subseteq Conns
  BY AcceptedTyped DEF RouteStep, Originals
<1>8. Originals'
  <2>1. \A x \in AcceptedIds' : pc'[x] = "closed"
    BY <1>6, <1>7 DEF Originals, RouteStep, TypeOK
  <2>2. \A k \in DOMAIN audit : AcceptedAt(k) => audit[k].env.id \in AcceptedIds
    BY DEF AcceptedIds, Accepted, AcceptedAt
  <2>3. ASSUME NEW j \in DOMAIN audit', NEW k \in DOMAIN audit', AcceptedAt(j)', AcceptedAt(k)',
               audit'[j].env.id = audit'[k].env.id
        PROVE  j = k
    <3>1. CASE j \in DOMAIN audit /\ k \in DOMAIN audit
      BY <1>3, <2>3, <3>1 DEF AcceptedAt, Originals
    <3>2. CASE j \in DOMAIN audit /\ k = Len(audit) + 1
      BY <1>2, <1>3, <1>7, <2>2, <2>3, <3>2 DEF AcceptedAt
    <3>3. CASE j = Len(audit) + 1 /\ k \in DOMAIN audit
      BY <1>2, <1>3, <1>7, <2>2, <2>3, <3>3 DEF AcceptedAt
    <3> QED BY <1>4, <3>1, <3>2, <3>3
  <2>4. returned' \subseteq AcceptedIds' /\ dropped' \subseteq AcceptedIds'
    BY <1>6 DEF Originals
  <2> QED BY <2>1, <2>3, <2>4 DEF Originals
<1>9. Delivered'
  BY <1>3, <1>5, RoutedDelivered
<1>10. Bounced'
  <2>1. HubEnvelopes' \subseteq HubEnvelopes \cup {env} /\ \A b \in HubEnvelopes' : b.from = HUB
    BY <1>2 DEF HubEnvelopes
  <2>2. \A b \in HubEnvelopes' : BouncedFor(b)
    BY <2>1 DEF Bounced
  <2> QED BY <1>2, <2>2, BouncedKept DEF Bounced
<1>11. \E o \in DOMAIN audit' : /\ audit'[o].type = "accepted" /\ audit'[o].env = env
                                /\ \A k \in DOMAIN audit : k < o
  <2>1. PICK m \in Nat : m = Len(audit)
    BY <1>2
  <2>2. m + 1 \in DOMAIN audit' /\ \A k \in DOMAIN audit : k < m + 1
    BY <1>2, <2>1
  <2>3. audit'[m + 1] = e
    BY <1>2, <2>1
  <2> QED BY <1>2, <2>2, <2>3
<1> QED BY <1>2, <1>3, <1>6, <1>7, <1>8, <1>9, <1>10, <1>11 DEF Originals

\* A commit puts c's own envelope at the back, behind everything accepted.
LEMMA CommitLedger ==
  ASSUME HubInv, LedgerInv, NEW env \in Envelope, NEW c \in Conns, RouteStep(c),
         UNCHANGED <<wire, returned>>, Commit(env, c),
         pc[c] # "deliver", env.id = c, env.from # HUB \/ BouncedFor(env),
         \A d \in Conns \ {c} : reply'[d] = reply[d], reply'[c] # "timeout"
  PROVE  LedgerInv'
<1> USE DEF HubInv, LedgerInv
<1>1. AppendAccepted(env) /\ RouteToBack(env, c) /\ UNCHANGED dropped
  BY DEF Commit
<1>2. /\ Originals' /\ Delivered' /\ Bounced'
      /\ Accepted' = Accepted \cup {env} /\ AcceptedIds' = AcceptedIds \cup {c}
      /\ c \notin AcceptedIds /\ AcceptedIds \subseteq Conns /\ dropped \subseteq AcceptedIds
      /\ \E o \in DOMAIN audit' : /\ audit'[o].type = "accepted" /\ audit'[o].env = env
                                 /\ \A k \in DOMAIN audit : k < o
      /\ \A k \in DOMAIN audit : k \in DOMAIN audit' /\ audit'[k] = audit[k]
  BY <1>1, AcceptKeeps
<1>3. \A k \in DOMAIN audit : k \in DOMAIN audit' /\ audit'[k] = audit[k]
  BY <1>2
<1>4. c \notin AcceptedIds /\ AcceptedIds \subseteq Conns
  BY <1>2
<1>5. Routed(env, c)
  BY <1>1, RouteEffect DEF Routed
<1>6. Addressed' /\ Wires'
  BY <1>2, <1>5, RoutedAddressed
<1>7. OnlyWith(env, c)
  <2>1. ~Queued(c) /\ \A d \in Conns : ~Has(d, c)
    BY <1>4 DEF Placed, Standing
  <2> QED BY <2>1 DEF OnlyWith, Has, Holds, RouteStep
<1>8. Placed'
  <2>1. Standing' = Standing \cup {env.id}
    BY <1>1, <1>2 DEF Standing
  <2> QED BY <1>5, <1>7, <2>1, RoutedPlaced
<1>9. ReturnedThenFifo'
  <2>1. CASE \E h \in Conns \ {c} : HandedTo(env, c, h)
    BY <1>3, <2>1, OrderKept DEF HandedTo
  <2>2. CASE QueuedAt(env, c, Len(queues[env.to]) + 1)
    <3> SUFFICES ASSUME NEW n \in Names, NEW k \in DOMAIN queues'[n], NEW l \in DOMAIN queues'[n],
                        k < l, NEW x, x = queues'[n][k].id, NEW y, y = queues'[n][l].id
                 PROVE  InOrder(x, y)'
      BY DEF ReturnedThenFifo, InOrder
    <3>1. CASE n # env.to
      <4>1. queues'[n] = queues[n]
        BY <2>2, <3>1 DEF QueuedAt
      <4>2. InOrder(x, y)
        BY <4>1, OrderDef
      <4> QED BY <1>3, <4>2, InOrderKept
    <3>2. CASE n = env.to
      <4>1. PICK s \in Seq(Envelope) : s = queues[n]
        BY DEF TypeOK
      <4>2. PICK q \in Seq(Envelope) : q = queues'[n]
        BY <2>2, <3>2 DEF QueuedAt
      <4>3. PICK p : p = Len(s) + 1
        OBVIOUS
      <4>4. InsertedAt(q, s, env, p)
        BY <2>2, <3>2, <4>1, <4>2, <4>3 DEF QueuedAt
      <4>5. /\ q[p] = env
            /\ \A i \in DOMAIN q \ {p} : \E j \in DOMAIN s : s[j] = q[i]
            /\ \A i, j \in DOMAIN q \ {p} : i < j =>
                 \E a, b \in DOMAIN s : a < b /\ s[a] = q[i] /\ s[b] = q[j]
        BY <4>4, InsertionKeepsOrder
      <4>6. \A j \in DOMAIN s : s[j].id \in AcceptedIds
        BY <4>1 DEF Addressed, AcceptedIds
      <4>7. k \in DOMAIN q \ {p}
        <5>1. Len(q) = p /\ Len(s) \in Nat
          BY <4>3, <4>4 DEF InsertedAt
        <5> QED BY <4>2, <4>3, <5>1
      <4>8. CASE l # p
        <5>1. PICK a, b \in DOMAIN s : a < b /\ s[a] = q[k] /\ s[b] = q[l]
          BY <4>2, <4>5, <4>7, <4>8
        <5>2. InOrder(x, y)
          BY <4>1, <4>2, <5>1, OrderDef
        <5> QED BY <1>3, <5>2, InOrderKept
      <4>9. CASE l = p
        <5>1. PICK j \in DOMAIN s : s[j] = q[k]
          BY <4>5, <4>7
        <5>2. PICK m \in DOMAIN audit : AcceptedAt(m) /\ audit[m].env.id = x
          BY <4>2, <4>6, <5>1 DEF AcceptedIds, Accepted, AcceptedAt
        <5>3. AcceptedAt(m)' /\ audit'[m].env.id = x
          BY <1>3, <5>2 DEF AcceptedAt
        <5>4. PICK o \in DOMAIN audit' : /\ audit'[o].type = "accepted" /\ audit'[o].env = env
                                         /\ \A a \in DOMAIN audit : a < o
          BY <1>2
        <5>5. o \in DOMAIN audit' /\ m < o /\ AcceptedAt(o)' /\ audit'[o].env.id = c
          BY <5>2, <5>4 DEF AcceptedAt
        <5>6. y = c /\ c \notin returned'
          BY <1>4, <4>2, <4>5, <4>9 DEF Originals
        <5>7. m \in DOMAIN audit'
          BY <1>3
        <5> QED BY <5>3, <5>5, <5>6, <5>7 DEF InOrder
      <4> QED BY <4>8, <4>9
    <3> QED BY <3>1, <3>2
  <2> QED BY <1>1, <2>1, <2>2, RouteEffect
<1> QED BY <1>2, <1>6, <1>8, <1>9

\* A commit that appends nothing leaves the hub as it was.
LEMMA RefusedLedger ==
  ASSUME HubInv, LedgerInv, NEW c \in Conns, RouteStep(c), slot' = [slot EXCEPT ![c] = None],
         UNCHANGED <<queues, audit, dropped>>,
         pc[c] # "deliver", UNCHANGED <<wire, returned>>,
         \A d \in Conns \ {c} : reply'[d] = reply[d], reply'[c] # "timeout"
  PROVE  LedgerInv'
<1> USE DEF HubInv
<1>1. pc'[c] = "closed" /\ slot'[c] = None /\ pc[c] \in {"commit", "bounce"}
  BY DEF RouteStep, TypeOK
<1>2. OthersStay(c)
  BY DEF RouteStep, TypeOK, OthersStay
<1>3. AddressedAt(c)' /\ WireAt(c)' /\ \A x \in Conns : Has(c, x)' <=> Has(c, x)
  BY <1>1 DEF AddressedAt, WireAt, Has, Holds, Took
<1> QED BY <1>1, <1>2, <1>3, QuietStep

\* A commit that dies after its append leaves an accepted envelope nowhere.
LEMMA AbandonLedger ==
  ASSUME HubInv, LedgerInv, NEW env \in Envelope, NEW c \in Conns, RouteStep(c),
         UNCHANGED <<wire, returned>>, Abandon(env, c),
         pc[c] # "deliver", env.id = c, env.from # HUB \/ BouncedFor(env),
         \A d \in Conns \ {c} : reply'[d] = reply[d], reply'[c] # "timeout"
  PROVE  LedgerInv'
<1> USE DEF HubInv, LedgerInv
<1>1. slot' = [slot EXCEPT ![c] = None] /\ UNCHANGED queues
  BY DEF Abandon
<1>2. CASE UNCHANGED <<audit, dropped>>
  BY <1>1, <1>2, RefusedLedger
<1>3. CASE AppendAccepted(env) /\ dropped' = dropped \cup {env.id}
  <2>1. /\ Originals' /\ Delivered' /\ Bounced'
        /\ Accepted' = Accepted \cup {env} /\ AcceptedIds' = AcceptedIds \cup {c}
        /\ c \notin AcceptedIds
        /\ \A k \in DOMAIN audit : k \in DOMAIN audit' /\ audit'[k] = audit[k]
    BY <1>3, AcceptKeeps
  <2>2. pc'[c] = "closed" /\ slot'[c] = None /\ pc[c] \in {"commit", "bounce"}
    BY <1>1 DEF RouteStep, TypeOK
  <2>3. OthersStay(c)
    BY <1>1 DEF RouteStep, TypeOK, OthersStay
  <2>4. Addressed'
    <3>1. \A d \in Conns \ {c} : AddressedAt(d)'
      BY <2>1, <2>3 DEF Addressed, AddressedAt, OthersStay
    <3>2. AddressedAt(c)'
      BY <2>2 DEF AddressedAt
    <3> QED BY <1>1, <2>1, <3>1, <3>2 DEF Addressed
  <2>5. Wires'
    BY <2>2, <2>3 DEF Wires, WireAt, OthersStay
  <2>6. Placed'
    <3>1. \A x, d \in Conns : Has(d, x)' <=> Has(d, x)
      BY <2>2, <2>3 DEF Has, Holds, Took, OthersStay
    <3>2. \A x \in Conns : Queued(x)' <=> Queued(x)
      BY <1>1 DEF Queued
    <3>3. Standing' = Standing
      BY <1>3, <2>1 DEF Standing
    <3> QED BY <1>1, <3>1, <3>2, <3>3 DEF Placed
  <2>7. ReturnedThenFifo'
    BY <1>1, <2>1, OrderKept
  <2> QED BY <2>1, <2>4, <2>5, <2>6, <2>7
<1> QED BY <1>2, <1>3 DEF Abandon

LEMMA CommitSendLedger ==
  ASSUME HubInv, LedgerInv, NEW c \in Conns, CommitSend(c)
  PROVE  LedgerInv'
<1> USE DEF HubInv
<1>1. /\ pc[c] = "commit" /\ RouteStep(c) /\ UNCHANGED <<wire, returned>>
      /\ \A d \in Conns \ {c} : reply'[d] = reply[d]
      /\ reply'[c] # "timeout"
  BY DEF CommitSend, Answer, Goto, RouteStep, TypeOK
<1>2. slot[c] \in Envelope /\ slot[c].id = c /\ slot[c].from # HUB
  BY <1>1, AtStep, HubAssumption DEF AddressedAt, RegistryInv, Holding, TypeOK
<1>3. CASE Commit(slot[c], c)
  BY <1>1, <1>2, <1>3, CommitLedger
<1>4. CASE AuditFails(c)
  BY <1>1, <1>4, RefusedLedger DEF AuditFails
<1>5. CASE Abandon(slot[c], c)
  BY <1>1, <1>2, <1>5, AbandonLedger
<1> QED BY <1>3, <1>4, <1>5 DEF CommitSend

LEMMA EmitBounceLedger ==
  ASSUME HubInv, LedgerInv, NEW c \in Conns, EmitBounce(c)
  PROVE  LedgerInv'
<1> USE DEF HubInv
<1>1. /\ pc[c] = "bounce" /\ RouteStep(c) /\ UNCHANGED <<wire, returned, reply>>
  BY DEF EmitBounce, Goto, RouteStep, TypeOK
<1>2. /\ reply[c] # "timeout" /\ slot[c] \in Accepted /\ slot[c] # None /\ slot[c] \in Envelope
      /\ wire[c] = [id |-> slot[c].id, how |-> "part"] /\ slot[c].from # HUB
  BY <1>1, AtStep DEF AddressedAt, WireAt, RegistryInv, Holding, TypeOK
<1>3. PICK env : env = Bounce(c)
  OBVIOUS
<1>4. env \in Envelope /\ env.id = c /\ BouncedFor(env)
  <2>1. Bounce(c) \in Envelope /\ Bounce(c).id = c
    BY <1>2, HubAssumption DEF Bounce, Envelope
  <2>2. BouncedFor(Bounce(c))
    BY <1>2 DEF BouncedFor, Bounce
  <2> QED BY <1>3, <2>1, <2>2
<1>5. CASE Commit(env, c)
  BY <1>1, <1>2, <1>4, <1>5, CommitLedger
<1>6. CASE AuditFails(c)
  BY <1>1, <1>2, <1>6, RefusedLedger DEF AuditFails
<1>7. CASE Abandon(env, c)
  BY <1>1, <1>2, <1>4, <1>7, AbandonLedger
<1> QED BY <1>3, <1>5, <1>6, <1>7 DEF EmitBounce

\* A clean failure puts the envelope in front of whatever was never out.
LEMMA WriteFailsCleanLedger ==
  ASSUME HubInv, LedgerInv, NEW c \in Conns, WriteFailsClean(c)
  PROVE  LedgerInv'
<1> USE DEF HubInv, LedgerInv
<1>1. PICK env : env = slot[c]
  OBVIOUS
<1>2. /\ pc[c] = "deliver" /\ RouteStep(c) /\ UNCHANGED <<wire, reply, audit, dropped>>
      /\ RouteToFront(env, c) /\ returned' = returned \cup {env.id}
  BY <1>1 DEF WriteFailsClean, Goto, RouteStep, TypeOK
<1>3. env \in Envelope /\ env # None /\ env \in Accepted /\ wire[c] = None /\ reply[c] # "timeout"
  BY <1>1, <1>2, AtStep DEF AddressedAt, WireAt, RegistryInv, Holding, TypeOK
<1>4. /\ Accepted' = Accepted /\ HubEnvelopes' = HubEnvelopes
      /\ AcceptedIds' = AcceptedIds /\ env.id \in AcceptedIds /\ env.id \in Conns
      /\ AcceptedIds \subseteq Conns /\ c \notin AcceptedIds
  BY <1>2, <1>3, AcceptedTyped DEF Accepted, AcceptedAt, AcceptedIds, HubEnvelopes, Originals
<1>5. Routed(env, c)
  BY <1>2, <1>3, RouteEffect DEF Routed
<1>6. Has(c, env.id)
  BY <1>1, <1>2, <1>3 DEF Has, Holds
<1>7. OnlyWith(env, c)
  BY <1>1, <1>3, <1>4, <1>6 DEF Placed, OnlyWith, Holds, Took
<1>8. Originals'
  <2>1. \A x \in AcceptedIds : pc'[x] = "closed"
    BY <1>2, <1>4 DEF Originals, RouteStep, TypeOK
  <2>2. \A j, k \in DOMAIN audit' :
          AcceptedAt(j)' /\ AcceptedAt(k)' /\ audit'[j].env.id = audit'[k].env.id => j = k
    BY <1>2 DEF Originals, AcceptedAt
  <2>3. returned' \subseteq AcceptedIds' /\ dropped' \subseteq AcceptedIds'
    BY <1>2, <1>4 DEF Originals
  <2> QED BY <1>4, <2>1, <2>2, <2>3 DEF Originals
<1>9. Addressed' /\ Wires'
  BY <1>2, <1>3, <1>4, <1>5, RoutedAddressed
<1>10. Standing' = Standing \cup {env.id}
  BY <1>2, <1>4, <1>6 DEF Placed, Standing
<1>11. Placed'
  BY <1>2, <1>3, <1>5, <1>7, <1>10, RoutedPlaced
<1>12. Delivered'
  BY <1>2, RoutedDelivered
<1>13. Bounced'
  BY <1>2, <1>4, BouncedKept DEF Bounced
<1>14. ASSUME NEW n \in Names, NEW i \in DOMAIN queues[n]
       PROVE  queues[n][i].id # env.id
  BY <1>7 DEF OnlyWith, Queued
<1>15. ReturnedThenFifo'
  <2>1. CASE \E h \in Conns \ {c} : HandedTo(env, c, h)
    <3>1. \A n \in Names : \A i \in DOMAIN queues[n] :
            queues[n][i].id \in returned' <=> queues[n][i].id \in returned
      BY <1>2, <1>14
    <3>2. UNCHANGED queues
      BY <2>1 DEF HandedTo
    <3> QED BY <1>2, <3>1, <3>2, OrderKept
  <2>2. CASE QueuedAt(env, c, 1)
    <3> SUFFICES ASSUME NEW n \in Names, NEW k \in DOMAIN queues'[n], NEW l \in DOMAIN queues'[n],
                        k < l, NEW x, x = queues'[n][k].id, NEW y, y = queues'[n][l].id
                 PROVE  InOrder(x, y)'
      BY DEF ReturnedThenFifo, InOrder
    <3>1. CASE n # env.to
      <4>1. queues'[n] = queues[n]
        BY <2>2, <3>1 DEF QueuedAt
      <4>2. InOrder(x, y)
        BY <4>1, OrderDef
      <4>3. x # env.id /\ y # env.id
        BY <1>14, <4>1
      <4> QED BY <1>2, <4>2, <4>3, InOrderKept
    <3>2. CASE n = env.to
      <4>1. PICK s \in Seq(Envelope) : s = queues[n]
        BY DEF TypeOK
      <4>2. PICK q \in Seq(Envelope) : q = queues'[n]
        BY <2>2, <3>2 DEF QueuedAt
      <4>3. InsertedAt(q, s, env, 1)
        BY <2>2, <3>2, <4>1, <4>2 DEF QueuedAt
      <4>4. /\ q[1] = env
            /\ \A i, j \in DOMAIN q \ {1} : i < j =>
                 \E a, b \in DOMAIN s : a < b /\ s[a] = q[i] /\ s[b] = q[j]
        BY <4>3, InsertionKeepsOrder
      <4>5. CASE k = 1
        BY <1>2, <4>2, <4>4, <4>5 DEF InOrder
      <4>6. CASE k # 1
        <5>1. k \in DOMAIN q \ {1} /\ l \in DOMAIN q \ {1}
          BY <4>2, <4>6
        <5>2. PICK a, b \in DOMAIN s : a < b /\ s[a] = q[k] /\ s[b] = q[l]
          BY <4>4, <5>1
        <5>3. InOrder(x, y)
          BY <4>1, <4>2, <5>2, OrderDef
        <5>4. x # env.id /\ y # env.id
          BY <1>14, <4>1, <4>2, <5>2
        <5> QED BY <1>2, <5>3, <5>4, InOrderKept
      <4> QED BY <4>5, <4>6
    <3> QED BY <3>1, <3>2
  <2> QED BY <1>2, <1>3, <2>1, <2>2, RouteEffect
<1> QED BY <1>8, <1>9, <1>11, <1>12, <1>13, <1>15

\* An await takes an envelope from its queue and leaves the others in order.
LEMMA AwaitQueuedLedger ==
  ASSUME HubInv, LedgerInv, NEW c \in Conns, NEW r \in Awaits, AwaitQueued(c, r)
  PROVE  LedgerInv'
<1> USE DEF HubInv, LedgerInv
<1>1. r.as \in Names /\ r.as \in Agents
  BY HubAssumption DEF AwaitRequest
<1>2. PICK i \in DOMAIN queues[r.as] :
        /\ slot' = [slot EXCEPT ![c] = queues[r.as][i]]
        /\ queues' = [queues EXCEPT ![r.as] = RemoveAt(@, i)]
  BY DEF AwaitQueued
<1>3. PICK s \in Seq(Envelope) : s = queues[r.as]
  BY <1>1 DEF TypeOK
<1>4. PICK env : env = s[i]
  OBVIOUS
<1>5. PICK q : q = RemoveAt(s, i)
  OBVIOUS
<1>6. env \in Envelope /\ env # None /\ i \in DOMAIN s
  BY <1>2, <1>3, <1>4, HubAssumption
<1>7. q \in Seq(Envelope) /\ InsertedAt(s, q, env, i)
  BY <1>2, <1>3, <1>4, <1>5, RemovalInserts
<1>8. /\ \A k \in DOMAIN s \ {i} : \E j \in DOMAIN q : q[j] = s[k]
      /\ \A j \in DOMAIN q : \E k \in DOMAIN s \ {i} : q[j] = s[k]
      /\ \A j, l \in DOMAIN q : j < l =>
           \E a, b \in DOMAIN s \ {i} : a < b /\ q[j] = s[a] /\ q[l] = s[b]
  BY <1>3, <1>7, InsertionKeepsOrder
<1>9. queues'[r.as] = q /\ \A n \in Names \ {r.as} : queues'[n] = queues[n]
  BY <1>1, <1>2, <1>3, <1>5 DEF TypeOK
<1>10. /\ pc[c] = "ready" /\ pc'[c] = "deliver" /\ slot[c] = None /\ slot'[c] = env
       /\ who'[c] = r.as /\ wire[c] = None /\ reply[c] # "timeout"
  BY <1>1, <1>2, <1>3, <1>4, AtStep DEF AwaitQueued, Goto, RegistryInv, Holding, TypeOK, WireAt
<1>11. OthersStay(c) /\ UNCHANGED <<audit, returned, dropped, wire, reply>>
  BY <1>2 DEF AwaitQueued, Goto, TypeOK, OthersStay
<1>12. /\ Accepted' = Accepted /\ HubEnvelopes' = HubEnvelopes /\ AcceptedIds' = AcceptedIds
       /\ AcceptedIds \subseteq Conns /\ c \notin AcceptedIds
  BY <1>10, <1>11, AcceptedTyped
     DEF Accepted, AcceptedAt, AcceptedIds, HubEnvelopes, Originals
<1>13. env \in Accepted /\ env.to = r.as /\ env.id \in Conns
  BY <1>1, <1>3, <1>4, <1>6 DEF Addressed, Envelope
<1>14. Originals'
  <2>1. \A x \in AcceptedIds : pc'[x] = "closed"
    BY <1>11, <1>12 DEF Originals, OthersStay
  <2> QED BY <1>11, <1>12, <2>1 DEF Originals, AcceptedAt
<1>15. Addressed'
  <2>1. \A d \in Conns \ {c} : AddressedAt(d)'
    BY <1>11, <1>12 DEF Addressed, AddressedAt, OthersStay
  <2>2. AddressedAt(c)'
    BY <1>10, <1>12, <1>13 DEF AddressedAt
  <2>3. \A n \in Names : \A k \in DOMAIN queues'[n] :
          queues'[n][k] \in Accepted /\ queues'[n][k].to = n
    BY <1>1, <1>3, <1>8, <1>9 DEF Addressed
  <2> QED BY <1>12, <2>1, <2>2, <2>3 DEF Addressed
<1>16. Wires'
  BY <1>10, <1>11 DEF Wires, WireAt, OthersStay
<1>17. Placed'
  <2>1. Queued(env.id)
    BY <1>1, <1>3, <1>4, <1>6 DEF Queued
  <2>2. \A d \in Conns : ~Has(d, env.id)
    BY <1>13, <2>1 DEF Placed
  <2>3. \A x, d \in Conns : Has(d, x)' <=> Has(d, x) \/ (d = c /\ x = env.id)
    BY <1>6, <1>10, <1>11 DEF Has, Holds, Took, OthersStay
  <2>4. ASSUME NEW n \in Names, NEW k \in DOMAIN queues'[n]
        PROVE  \E j \in DOMAIN queues[n] : queues[n][j] = queues'[n][k] /\ (n = r.as => j # i)
    BY <1>3, <1>8, <1>9
  <2>5. ASSUME NEW n \in Names, NEW k \in DOMAIN queues[n], n # r.as \/ k # i
        PROVE  \E j \in DOMAIN queues'[n] : queues'[n][j] = queues[n][k]
    BY <1>3, <1>8, <1>9, <2>5
  <2>6. ASSUME NEW n \in Names, NEW k \in DOMAIN queues[n], queues[n][k].id = env.id
        PROVE  n = r.as /\ k = i
    <3>1. queues[n][k] = env
      BY <1>13, <2>6 DEF Addressed, Originals, Accepted, AcceptedAt
    <3>2. n = r.as
      BY <1>13, <3>1 DEF Addressed
    <3> QED BY <1>1, <1>2, <1>3, <1>4, <3>1, <3>2 DEF Placed
  <2>7. \A x \in Conns : Queued(x)' <=> Queued(x) /\ x # env.id
    BY <2>4, <2>5, <2>6, <1>3, <1>4 DEF Queued
  <2>8. ASSUME NEW n \in Names, NEW k \in DOMAIN queues'[n], NEW l \in DOMAIN queues'[n],
               queues'[n][k].id = queues'[n][l].id
        PROVE  k = l
    <3>1. CASE n # r.as
      BY <1>9, <2>8, <3>1 DEF Placed
    <3>2. CASE n = r.as
      <4>1. \A a, b \in DOMAIN s : s[a].id = s[b].id => a = b
        BY <1>1, <1>3 DEF Placed
      <4>2. DOMAIN q \subseteq Int /\ DOMAIN s \subseteq Int
        BY <1>7
      <4>3. k \in DOMAIN q /\ l \in DOMAIN q /\ q[k].id = q[l].id
        BY <1>9, <2>8, <3>2
      <4>4. ASSUME k < l PROVE FALSE
        <5>1. PICK a, b \in DOMAIN s \ {i} : a < b /\ q[k] = s[a] /\ q[l] = s[b]
          BY <1>8, <4>3, <4>4
        <5> QED BY <4>1, <4>2, <4>3, <5>1
      <4>5. ASSUME l < k PROVE FALSE
        <5>1. PICK a, b \in DOMAIN s \ {i} : a < b /\ q[l] = s[a] /\ q[k] = s[b]
          BY <1>8, <4>3, <4>5
        <5> QED BY <4>1, <4>2, <4>3, <5>1
      <4> QED BY <4>2, <4>3, <4>4, <4>5
    <3> QED BY <3>1, <3>2
  <2>9. \A x, d, f \in Conns : Has(d, x)' /\ Has(f, x)' => d = f
    BY <2>2, <2>3 DEF Placed
  <2>10. \A x, d \in Conns : Has(d, x)' => ~Queued(x)'
    BY <2>3, <2>7 DEF Placed
  <2>11. \A x \in Conns : x \in Standing' <=> Queued(x)' \/ \E d \in Conns : Has(d, x)'
    BY <1>11, <1>12, <2>1, <2>3, <2>7 DEF Placed, Standing
  <2> QED BY <2>8, <2>9, <2>10, <2>11 DEF Placed
<1>18. Delivered'
  BY <1>10, <1>11, DeliveredKept DEF OthersStay
<1>19. Bounced'
  BY <1>11, <1>12, BouncedKept DEF Bounced
<1>20. ReturnedThenFifo'
  <2> SUFFICES ASSUME NEW n \in Names, NEW k \in DOMAIN queues'[n], NEW l \in DOMAIN queues'[n],
                      k < l, NEW x, x = queues'[n][k].id, NEW y, y = queues'[n][l].id
               PROVE  InOrder(x, y)'
    BY DEF ReturnedThenFifo, InOrder
  <2>1. PICK a, b \in DOMAIN queues[n] :
          a < b /\ queues[n][a] = queues'[n][k] /\ queues[n][b] = queues'[n][l]
    <3>1. CASE n # r.as
      BY <1>9, <3>1
    <3>2. CASE n = r.as
      <4>1. PICK a, b \in DOMAIN s \ {i} : a < b /\ q[k] = s[a] /\ q[l] = s[b]
        BY <1>8, <1>9, <3>2
      <4> QED BY <1>3, <1>9, <3>2, <4>1
    <3> QED BY <3>1, <3>2
  <2>2. InOrder(x, y)
    BY <2>1, OrderDef
  <2> QED BY <1>11, <2>2, InOrderKept
<1> QED BY <1>14, <1>15, <1>16, <1>17, <1>18, <1>19, <1>20

-----------------------------------------------------------------------------
(* The invariant holds initially and every action keeps it. *)

LEMMA InitLedger == Init => LedgerInv
<1> SUFFICES ASSUME Init PROVE LedgerInv
  OBVIOUS
<1> USE HubAssumption DEF Init
<1>1. Accepted = {} /\ AcceptedIds = {} /\ HubEnvelopes = {}
  BY DEF Accepted, AcceptedAt, AcceptedIds, HubEnvelopes
<1>2. Originals /\ Bounced
  BY <1>1 DEF Originals, Bounced
<1>3. Addressed /\ Wires /\ Delivered
  BY DEF Addressed, AddressedAt, Wires, WireAt, Delivered, DeliveryAt
<1>4. Placed
  BY <1>1 DEF Placed, Standing, Has, Holds, Took, Queued
<1>5. ReturnedThenFifo
  BY DEF ReturnedThenFifo
<1> QED BY <1>2, <1>3, <1>4, <1>5 DEF LedgerInv

LEMMA StutterLedger ==
  ASSUME LedgerInv, UNCHANGED vars
  PROVE  LedgerInv'
<1> USE DEF vars, LedgerInv
<1>1. /\ Accepted' = Accepted /\ AcceptedIds' = AcceptedIds /\ HubEnvelopes' = HubEnvelopes
  BY DEF Accepted, AcceptedAt, AcceptedIds, HubEnvelopes
<1>2. Originals' /\ Bounced'
  BY <1>1 DEF Originals, AcceptedAt, Bounced, BouncedFor
<1>3. Addressed' /\ Wires' /\ Delivered'
  BY <1>1 DEF Addressed, AddressedAt, Wires, WireAt, Delivered, DeliveredAt, DeliveryAt, AcceptedAt
<1>4. Placed'
  BY <1>1 DEF Placed, Standing, Has, Holds, Took, Queued
<1>5. ReturnedThenFifo'
  BY OrderKept
<1> QED BY <1>2, <1>3, <1>4, <1>5

\* Whatever a task does, the audit log, the queues, the tasks and the sockets
\* go on telling the same story.
THEOREM LedgerInductive == HubInv /\ LedgerInv /\ [Next]_vars => LedgerInv'
<1> SUFFICES ASSUME HubInv, LedgerInv, [Next]_vars PROVE LedgerInv'
  OBVIOUS
<1>1. CASE UNCHANGED vars
  BY <1>1, StutterLedger
<1>2. ASSUME NEW c \in Conns, NEW r \in Sends, SendVerb(c, r) PROVE LedgerInv'
  BY <1>2, SendVerbLedger
<1>3. ASSUME NEW c \in Conns, NEW r \in Awaits, AwaitVerb(c, r) PROVE LedgerInv'
  BY <1>3, AwaitInvalidLedger, AwaitQueuedLedger, AwaitParkLedger DEF AwaitVerb
<1>4. ASSUME NEW c \in Conns, TaskStep(c) PROVE LedgerInv'
  BY <1>4, CommitSendLedger, ReceiveLedger, TimeoutLedger, LogDeliveryLedger, EmitBounceLedger
     DEF TaskStep
<1>5. ASSUME NEW c \in Conns, Write(c) PROVE LedgerInv'
  BY <1>5, WriteLedger, WriteFailsCleanLedger DEF Write
<1>6. ASSUME NEW c \in Conns, TaskDies(c) PROVE LedgerInv'
  BY <1>6, TaskDiesLedger
<1> QED BY <1>1, <1>2, <1>3, <1>4, <1>5, <1>6 DEF Next

\* LedgerInv holds in every reachable state.
THEOREM LedgerSafety == Spec => []LedgerInv
BY InitLedger, LedgerInductive, HubSafety, PTL DEF Spec

-----------------------------------------------------------------------------
(* The results. *)

\* No two sockets took bytes of one envelope.
LEMMA TookOnce ==
  ASSUME LedgerInv, NEW x \in Conns, NEW c \in Conns, NEW d \in Conns, Took(c, x), Took(d, x)
  PROVE  c = d
BY DEF LedgerInv, Placed, Has

LEMMA OnePlace == HubInv /\ LedgerInv => ExactlyOnePlace
<1> SUFFICES ASSUME HubInv, LedgerInv, NEW x \in Conns
             PROVE  /\ x \in Standing => \E p \in Places(x) : Places(x) = {p}
                    /\ x \notin Standing => Places(x) = {}
  BY DEF ExactlyOnePlace, Standing
<1> USE DEF LedgerInv
<1>1. \A p : p \in QueuePlaces(x) <=>
        \E n \in Names : \E i \in DOMAIN queues[n] : queues[n][i].id = x /\ p = <<"queue", n, i>>
  BY DEF QueuePlaces
<1>2. \A p : p \in TaskPlaces(x) <=> \E c \in Conns : Holds(c, x) /\ p = <<"task", c>>
  BY DEF TaskPlaces, Holds
<1>3. \A p : p \in SocketPlaces(x) <=> \E c \in Conns : Took(c, x) /\ p = <<"socket", c>>
  BY DEF SocketPlaces, Took
<1>4. x \in Standing <=> \E p : p \in Places(x)
  <2>1. (\E p : p \in QueuePlaces(x)) <=> Queued(x)
    BY <1>1 DEF Queued
  <2>2. (\E p : p \in TaskPlaces(x) \cup SocketPlaces(x)) <=> \E c \in Conns : Has(c, x)
    BY <1>2, <1>3 DEF Has
  <2>3. x \in Standing <=> Queued(x) \/ \E c \in Conns : Has(c, x)
    BY DEF Placed
  <2> QED BY <2>1, <2>2, <2>3 DEF Places
<1>5. ASSUME NEW p \in QueuePlaces(x), NEW o \in QueuePlaces(x)
      PROVE  p = o
  <2>1. PICK n \in Names :
          \E i \in DOMAIN queues[n] : queues[n][i].id = x /\ p = <<"queue", n, i>>
    BY <1>1
  <2>2. PICK m \in Names :
          \E j \in DOMAIN queues[m] : queues[m][j].id = x /\ o = <<"queue", m, j>>
    BY <1>1
  <2>3. PICK i \in DOMAIN queues[n] : queues[n][i].id = x /\ p = <<"queue", n, i>>
    BY <2>1
  <2>4. PICK j \in DOMAIN queues[m] : queues[m][j].id = x /\ o = <<"queue", m, j>>
    BY <2>2
  <2>5. queues[n][i] = queues[m][j]
    BY <2>3, <2>4 DEF Addressed, Originals, Accepted, AcceptedAt
  <2>6. n = m
    BY <2>5 DEF Addressed
  <2> QED BY <2>3, <2>4, <2>6 DEF Placed
<1>6. ASSUME NEW c \in Conns, NEW d \in Conns, Has(c, x), Has(d, x)
      PROVE  c = d /\ ~Queued(x)
  BY <1>6 DEF Placed
<1>7. \A c \in Conns : ~(Holds(c, x) /\ Took(c, x))
  BY DEF Wires, WireAt, Holds, Took
<1>8. ASSUME NEW p \in Places(x), NEW o \in Places(x)
      PROVE  p = o
  <2>1. CASE Queued(x)
    BY <1>2, <1>3, <1>5, <1>6, <2>1 DEF Places, Has
  <2>2. CASE ~Queued(x)
    BY <1>1, <1>2, <1>3, <1>6, <1>7, <2>2 DEF Places, Has, Queued
  <2> QED BY <2>1, <2>2
<1> QED BY <1>4, <1>8

LEMMA DeliveryTold ==
  ASSUME HubInv, LedgerInv, NEW k \in DOMAIN audit, DeliveryAt(k)
  PROVE  /\ DeliveredAt(k) /\ audit[k].conn \in Conns /\ audit[k].id \in Conns
         /\ Took(audit[k].conn, audit[k].id) /\ wire[audit[k].conn].how = "whole"
<1>1. DeliveredAt(k) /\ audit[k].conn \in Conns /\ audit[k].id \in Conns
  BY DeliveryTyped DEF HubInv, LedgerInv, Delivered, DeliveryAt
<1>2. wire[audit[k].conn] = [id |-> audit[k].id, how |-> "whole"]
  BY <1>1 DEF DeliveredAt
<1>3. wire[audit[k].conn] \in WireContent
  BY <1>1, <1>2 DEF WireContent
<1> QED BY <1>1, <1>2, <1>3, HubAssumption DEF Took

LEMMA BounceTold ==
  ASSUME HubInv, LedgerInv, NEW b \in HubEnvelopes
  PROVE  /\ BouncedFor(b) /\ b.id \in Conns /\ b.corr \in Conns
         /\ Took(b.id, b.corr) /\ wire[b.id].how = "part"
<1>1. BouncedFor(b) /\ b \in Accepted
  BY DEF LedgerInv, Bounced, HubEnvelopes
<1>2. b.id \in Conns /\ b.corr \in Conns /\ wire[b.id] = [id |-> b.corr, how |-> "part"]
  BY <1>1, AcceptedTyped DEF HubInv, BouncedFor, Envelope
<1>3. wire[b.id] \in WireContent
  BY <1>2 DEF WireContent
<1> QED BY <1>1, <1>2, <1>3, HubAssumption DEF Took

\* An accepted envelope is in exactly one place, unless the task or the commit
\* that held it died, and nothing else is in any: the handoff, the purge of
\* dead waiters, the timeout race, the requeue and the bounce neither lose nor
\* duplicate, and one socket at most takes a byte of it.
THEOREM NeitherLostNorDuplicated == Spec => []ExactlyOnePlace
BY OnePlace, HubSafety, LedgerSafety, PTL

\* "A timeout reply guarantees nothing was consumed", then and later.
THEOREM TimeoutsAreEmpty == Spec => []TimeoutConsumesNothing
<1>1. HubInv /\ LedgerInv => TimeoutConsumesNothing
  <2> SUFFICES ASSUME HubInv, LedgerInv, NEW c \in Conns, reply[c] = "timeout"
               PROVE  /\ slot[c] = None /\ wire[c] = None
                      /\ \A n \in Names : \A w \in waiters[n] : w.conn # c
    BY DEF TimeoutConsumesNothing
  <2>1. pc[c] = "closed" /\ wire[c] = None
    BY AtStep DEF WireAt
  <2>2. slot[c] = None
    BY <2>1, AtStep DEF AddressedAt
  <2> QED BY <2>1, <2>2, RegisteredWaiter
<1> QED BY <1>1, HubSafety, LedgerSafety, PTL

\* Queues hold what was returned first, and are FIFO behind it.
THEOREM QueuesAreFifo == Spec => []ReturnedThenFifo
BY LedgerSafety, PTL DEF LedgerInv

\* Delivery events join to the accepted event of their envelope, once.
THEOREM AuditJoins == Spec => []DeliveriesJoin
<1>1. HubInv /\ LedgerInv => DeliveriesJoin
  <2> SUFFICES ASSUME HubInv, LedgerInv, NEW k \in DOMAIN audit, DeliveryAt(k)
               PROVE  \A l \in DOMAIN audit \ {k} : DeliveryAt(l) => audit[l].id # audit[k].id
    BY DeliveryTold DEF DeliveriesJoin, DeliveredAt
  <2>1. ASSUME NEW l \in DOMAIN audit \ {k}, DeliveryAt(l), audit[l].id = audit[k].id
        PROVE  FALSE
    <3>1. l \in DOMAIN audit /\ l # k
      OBVIOUS
    <3>2. /\ DeliveredAt(k) /\ audit[k].id \in Conns /\ audit[k].conn \in Conns
          /\ Took(audit[k].conn, audit[k].id)
      BY DeliveryTold
    <3>3. audit[l].conn \in Conns /\ Took(audit[l].conn, audit[k].id)
      BY <2>1, <3>1, DeliveryTold
    <3>4. audit[l].conn = audit[k].conn
      BY <3>2, <3>3, TookOnce
    <3> QED BY <2>1, <3>1, <3>2, <3>4 DEF DeliveredAt
  <2> QED BY <2>1
<1> QED BY <1>1, HubSafety, LedgerSafety, PTL

\* `from: hub` is unforgeable, and a bounce tells its sender the truth.
THEOREM BouncesAreTrue == Spec => []BouncesTellTheTruth
<1>1. HubInv /\ LedgerInv => BouncesTellTheTruth
  <2> SUFFICES ASSUME HubInv, LedgerInv, NEW b \in HubEnvelopes
               PROVE  /\ BouncedFor(b)
                      /\ \A k \in DOMAIN audit : DeliveryAt(k) => audit[k].id # b.corr
                      /\ \A o \in HubEnvelopes : o.corr = b.corr => o = b
    BY Zenon DEF BouncesTellTheTruth, BouncedFor
  <2>1. ASSUME NEW k \in DOMAIN audit, DeliveryAt(k), audit[k].id = b.corr
        PROVE  FALSE
    <3>1. /\ b.id \in Conns /\ b.corr \in Conns
          /\ Took(b.id, b.corr) /\ wire[b.id].how = "part"
      BY BounceTold
    <3>2. /\ audit[k].conn \in Conns
          /\ Took(audit[k].conn, b.corr) /\ wire[audit[k].conn].how = "whole"
      BY <2>1, DeliveryTold
    <3>3. audit[k].conn = b.id
      BY <3>1, <3>2, TookOnce
    <3> QED BY <3>1, <3>2, <3>3
  <2>2. ASSUME NEW o \in HubEnvelopes, o.corr = b.corr
        PROVE  o = b
    <3>1. b.id \in Conns /\ b.corr \in Conns /\ Took(b.id, b.corr)
      BY BounceTold
    <3>2. o.id \in Conns /\ Took(o.id, b.corr)
      BY <2>2, BounceTold
    <3>3. o.id = b.id
      BY <3>1, <3>2, TookOnce
    <3> QED BY <3>3 DEF LedgerInv, Originals, HubEnvelopes, Accepted, AcceptedAt
  <2> QED BY <2>1, <2>2, BounceTold
<1> QED BY <1>1, HubSafety, LedgerSafety, PTL

-----------------------------------------------------------------------------
(* The hub is a mailbox. *)

StateAt(x) == IF Consumed(x) THEN "consumed" ELSE IF x \in dropped THEN "dropped" ELSE "pending"
OutcomeAt(c) ==
  IF wire[c] # None THEN [as |-> who[c], id |-> wire[c].id]
  ELSE IF reply[c] = "timeout" THEN [as |-> who[c], id |-> None] ELSE None

\* The mailbox's envelope x is the one accepted under that id.
Letters ==
  /\ \A x \in Conns \ AcceptedIds : MailEnvelope[x] = None
  /\ \A e \in Accepted :
       e.id \in Conns => MailEnvelope[e.id] = [to |-> e.to, state |-> StateAt(e.id)]
  /\ MailEnvelope = [x \in Conns |-> MailEnvelope[x]]

LEMMA LetterOf == LedgerInv => Letters
<1> SUFFICES ASSUME LedgerInv PROVE Letters
  OBVIOUS
<1>1. \A x \in Conns \ AcceptedIds : MailEnvelope[x] = None
  BY DEF MailEnvelope, AcceptedIds
<1>2. ASSUME NEW e \in Accepted, e.id \in Conns
      PROVE  MailEnvelope[e.id] = [to |-> e.to, state |-> StateAt(e.id)]
  <2>1. \A f \in Accepted : f.id = e.id => f = e
    BY <1>2 DEF LedgerInv, Originals, Accepted, AcceptedAt
  <2>2. (CHOOSE f \in Accepted : f.id = e.id) = e
    BY <1>2, <2>1
  <2>3. e.id \in AcceptedIds
    BY <1>2 DEF AcceptedIds
  <2> QED BY <1>2, <2>2, <2>3 DEF MailEnvelope, StateAt
<1>3. MailEnvelope = [x \in Conns |-> MailEnvelope[x]]
  BY DEF MailEnvelope
<1> QED BY <1>1, <1>2, <1>3 DEF Letters

Outcomes ==
  /\ MailOutcome = [c \in Conns |-> MailOutcome[c]]
  /\ \A c \in Conns : MailOutcome[c] = OutcomeAt(c)

LEMMA OutcomeOf == Outcomes
BY DEF Outcomes, MailOutcome, OutcomeAt

\* At most one await gets a new outcome.
LEMMA OutcomeStep ==
  ASSUME NEW c \in Conns, \A d \in Conns \ {c} : OutcomeAt(d)' = OutcomeAt(d)
  PROVE  /\ MailOutcome[c] = OutcomeAt(c)
         /\ MailOutcome' = [MailOutcome EXCEPT ![c] = OutcomeAt(c)']
         /\ OutcomeAt(c)' = OutcomeAt(c) => MailOutcome' = MailOutcome
<1> USE DEF Outcomes
<1>1. Outcomes'
  BY OutcomeOf, PTL
<1>2. \A d \in Conns : MailOutcome'[d] = OutcomeAt(d)'
  BY <1>1
<1>3. MailOutcome' = [d \in Conns |-> MailOutcome'[d]]
  BY <1>1
<1>4. \A d \in Conns \ {c} : MailOutcome'[d] = MailOutcome[d]
  BY <1>2, OutcomeOf
<1>5. MailOutcome' = [MailOutcome EXCEPT ![c] = OutcomeAt(c)']
  BY <1>2, <1>3, <1>4, OutcomeOf
<1>6. OutcomeAt(c)' = OutcomeAt(c) => MailOutcome' = MailOutcome
  BY <1>2, <1>3, <1>4, OutcomeOf
<1> QED BY <1>5, <1>6, OutcomeOf

\* The same accepted envelopes, consumed and dropped alike, are the same letters.
LEMMA SameLetters ==
  ASSUME Accepted' = Accepted, \A x \in Conns : StateAt(x)' = StateAt(x)
  PROVE  MailEnvelope' = MailEnvelope
<1>1. AcceptedIds' = AcceptedIds
  BY DEF AcceptedIds
<1> QED BY <1>1 DEF MailEnvelope, StateAt

\* A step of c that writes nothing and does not time out.
SilentStep(c) ==
  /\ UNCHANGED wire
  /\ \A d \in Conns \ {c} : pc'[d] = pc[d] /\ who'[d] = who[d] /\ reply'[d] = reply[d]
  /\ pc[c] # "closed"
  /\ reply'[c] # "timeout"
  /\ wire[c] = None \/ who'[c] = who[c]

LEMMA SilentKeeps ==
  ASSUME LedgerInv, NEW c \in Conns, SilentStep(c)
  PROVE  MailOutcome' = MailOutcome /\ \A x : Consumed(x)' <=> Consumed(x)
<1>1. reply[c] # "timeout"
  BY AtStep DEF SilentStep
<1>2. \A d \in Conns : OutcomeAt(d)' = OutcomeAt(d)
  BY <1>1 DEF OutcomeAt, SilentStep
<1>3. MailOutcome' = MailOutcome
  BY <1>2, OutcomeStep
<1>4. \A x : Consumed(x)' <=> Consumed(x)
  BY DEF Consumed, SilentStep
<1> QED BY <1>3, <1>4

LEMMA SilentIsStutter ==
  ASSUME LedgerInv, NEW c \in Conns, SilentStep(c), Accepted' = Accepted, UNCHANGED dropped
  PROVE  UNCHANGED Mail!vars
<1>1. \A x \in Conns : StateAt(x)' = StateAt(x)
  BY SilentKeeps DEF StateAt
<1> QED BY <1>1, SilentKeeps, SameLetters DEF Mail!vars

\* An accepted event of c is a new letter, in the state its envelope is in.
LEMMA NewLetter ==
  ASSUME HubInv, LedgerInv, LedgerInv', NEW env \in Envelope, NEW c \in Conns,
         SilentStep(c), env.id = c, Accepted' = Accepted \cup {env},
         \A x \in Conns \ {c} : x \in dropped' <=> x \in dropped
  PROVE  /\ MailEnvelope[c] = None /\ ~Consumed(c)'
         /\ \E l : /\ l = [to |-> env.to,
                            state |-> IF c \in dropped' THEN "dropped" ELSE "pending"]
                   /\ MailEnvelope' = [MailEnvelope EXCEPT ![c] = l]
<1>1. c \notin AcceptedIds /\ AcceptedIds' = AcceptedIds \cup {c} /\ AcceptedIds \subseteq Conns
      /\ Accepted \subseteq Envelope
  BY AcceptedTyped DEF HubInv, LedgerInv, Originals, AcceptedIds, SilentStep
<1>2. \A x \in Conns \ {c} : StateAt(x)' = StateAt(x)
  BY SilentKeeps DEF StateAt
<1>3. ~Consumed(c)'
  <2>1. \A d \in Conns : ~Has(d, c)
    BY <1>1 DEF LedgerInv, Placed, Standing
  <2> QED BY <2>1, SilentKeeps DEF Consumed, Has, Took
<1>4. /\ \A x \in Conns \ AcceptedIds : MailEnvelope[x] = None
      /\ \A e \in Accepted : MailEnvelope[e.id] = [to |-> e.to, state |-> StateAt(e.id)]
      /\ MailEnvelope = [x \in Conns |-> MailEnvelope[x]]
  BY <1>1, LetterOf DEF Envelope, Letters
<1>5. /\ \A x \in Conns \ AcceptedIds' : MailEnvelope'[x] = None
      /\ \A e \in Accepted' : e.id \in Conns =>
           MailEnvelope'[e.id] = [to |-> e.to, state |-> StateAt(e.id)']
      /\ MailEnvelope' = [x \in Conns |-> MailEnvelope'[x]]
  <2>1. (LedgerInv => Letters)'
    BY LetterOf, PTL
  <2> QED BY <2>1 DEF Letters
<1>6. PICK l : l = [to |-> env.to, state |-> IF c \in dropped' THEN "dropped" ELSE "pending"]
  OBVIOUS
<1>7. MailEnvelope'[c] = l
  BY <1>3, <1>5, <1>6 DEF StateAt
<1>8. ASSUME NEW x \in Conns \ {c}
      PROVE  MailEnvelope'[x] = MailEnvelope[x]
  <2>1. CASE x \in AcceptedIds
    <3>1. PICK e \in Accepted : e.id = x
      BY <2>1 DEF AcceptedIds
    <3> QED BY <1>2, <1>4, <1>5, <3>1
  <2>2. CASE x \notin AcceptedIds
    BY <1>1, <1>4, <1>5, <2>2
  <2> QED BY <2>1, <2>2
<1>9. MailEnvelope' = [MailEnvelope EXCEPT ![c] = l]
  BY <1>4, <1>5, <1>7, <1>8
<1> QED BY <1>1, <1>3, <1>4, <1>6, <1>9

\* A commit is the acceptance of c's envelope.
LEMMA CommitIsAccept ==
  ASSUME HubInv, LedgerInv, LedgerInv', NEW env \in Envelope, NEW c \in Conns,
         SilentStep(c), env.id = c, Accepted' = Accepted \cup {env}, UNCHANGED dropped
  PROVE  Mail!Accept(c, env.to)
<1>1. c \notin dropped'
  BY DEF LedgerInv, Originals, SilentStep
<1>2. PICK l : /\ l = [to |-> env.to, state |-> IF c \in dropped' THEN "dropped" ELSE "pending"]
               /\ MailEnvelope' = [MailEnvelope EXCEPT ![c] = l]
  BY NewLetter
<1>3. l = [to |-> env.to, state |-> "pending"]
  BY <1>1, <1>2
<1> QED BY <1>2, <1>3, NewLetter, SilentKeeps DEF Mail!Accept

\* A commit that dies between its append and its routing step is an
\* acceptance nobody will hear of.
LEMMA LossIsAbandon ==
  ASSUME HubInv, LedgerInv, LedgerInv', NEW env \in Envelope, NEW c \in Conns,
         SilentStep(c), env.id = c, Accepted' = Accepted \cup {env},
         dropped' = dropped \cup {c}
  PROVE  Mail!Abandon(c, env.to)
<1>1. PICK l : /\ l = [to |-> env.to, state |-> IF c \in dropped' THEN "dropped" ELSE "pending"]
               /\ MailEnvelope' = [MailEnvelope EXCEPT ![c] = l]
  BY NewLetter
<1>2. l = [to |-> env.to, state |-> "dropped"]
  BY <1>1
<1> QED BY <1>1, <1>2, NewLetter, SilentKeeps DEF Mail!Abandon

\* A write that puts bytes on the wire consumes the envelope, for its addressee.
LEMMA WriteIsConsume ==
  ASSUME HubInv, LedgerInv, LedgerInv', NEW c \in Conns, WriteWhole(c) \/ WriteFailsPartial(c)
  PROVE  Mail!Consume(c, who[c], slot[c].id) /\ who[c] \in Agents /\ slot[c].id \in Conns
<1>1. PICK x : x = slot[c].id
  OBVIOUS
<1>2. /\ pc[c] = "deliver" /\ slot[c] \in Envelope /\ slot[c] # None /\ slot[c].id = x
      /\ x \in Conns /\ slot[c] \in Accepted /\ slot[c].to = who[c] /\ who[c] \in Agents
      /\ wire[c] = None /\ reply[c] # "timeout"
  <2>1. pc[c] = "deliver"
    BY DEF WriteWhole, WriteFailsPartial, Goto
  <2>2. slot[c] \in Envelope /\ slot[c] # None /\ who[c] \in Agents
    BY <2>1 DEF HubInv, RegistryInv, Holding, TypeOK
  <2> QED BY <1>1, <2>1, <2>2, AtStep DEF WireAt, AddressedAt, Envelope
<1>3. /\ \A d \in Conns \ {c} : pc'[d] = pc[d] /\ wire'[d] = wire[d] /\ slot'[d] = slot[d]
      /\ UNCHANGED <<who, reply, audit, dropped>>
      /\ wire'[c] \in WireContent /\ wire'[c].id = x
  BY <1>2 DEF WriteWhole, WriteFailsPartial, Goto, HubInv, TypeOK, WireContent
<1>4. wire'[c] # None
  BY <1>3, HubAssumption
<1>5. Accepted' = Accepted
  BY <1>3 DEF Accepted, AcceptedAt
<1>6. dropped' = dropped
  BY <1>3
<1>7. \A y \in Conns : Consumed(y)' <=> Consumed(y) \/ y = x
  BY <1>2, <1>3, <1>4 DEF Consumed
<1>8. ~Consumed(x) /\ x \notin dropped
  <2>1. Has(c, x)
    BY <1>2 DEF Has, Holds
  <2>2. \A d \in Conns : Has(d, x) => d = c
    BY <1>2, <2>1 DEF LedgerInv, Placed
  <2>3. x \notin dropped
    BY <1>2, <2>1 DEF LedgerInv, Placed, Standing
  <2> QED BY <1>2, <2>2, <2>3 DEF Consumed, Has, Holds, Took
<1>9. /\ StateAt(x) = "pending" /\ StateAt(x)' = "consumed"
      /\ \A y \in Conns \ {x} : StateAt(y)' = StateAt(y)
  BY <1>2, <1>6, <1>7, <1>8 DEF StateAt
<1>10. /\ MailEnvelope[x] = [to |-> who[c], state |-> "pending"]
       /\ MailEnvelope = [y \in Conns |-> MailEnvelope[y]]
  BY <1>2, <1>9, LetterOf DEF Letters
<1>11. MailEnvelope' = [MailEnvelope EXCEPT ![x].state = "consumed"]
  <2>1. AcceptedIds' = AcceptedIds
    BY <1>5 DEF AcceptedIds
  <2>2. \A y \in Conns \ {x} : MailEnvelope'[y] = MailEnvelope[y]
    BY <1>5, <1>9, <2>1 DEF MailEnvelope, StateAt
  <2>3. (LedgerInv => Letters)'
    BY LetterOf, PTL
  <2>4. \A e \in Accepted : e.id = x => MailEnvelope'[x] = [to |-> e.to, state |-> StateAt(x)']
    BY <1>2, <1>5, <2>3 DEF Letters
  <2>5. MailEnvelope'[x] = [to |-> who[c], state |-> "consumed"]
    BY <1>2, <1>9, <2>4
  <2>6. MailEnvelope' = [y \in Conns |-> MailEnvelope'[y]]
    BY <2>3 DEF Letters
  <2> QED BY <1>2, <1>10, <2>2, <2>5, <2>6
<1>12. /\ OutcomeAt(c) = None /\ OutcomeAt(c)' = [as |-> who[c], id |-> x]
       /\ \A d \in Conns \ {c} : OutcomeAt(d)' = OutcomeAt(d)
  BY <1>2, <1>3, <1>4 DEF OutcomeAt
<1>13. MailOutcome[c] = None /\ MailOutcome' = [MailOutcome EXCEPT ![c] = [as |-> who[c], id |-> x]]
  BY <1>12, OutcomeStep
<1> QED BY <1>1, <1>2, <1>10, <1>11, <1>13 DEF Mail!Consume

LEMMA TimeoutIsTimeOut ==
  ASSUME HubInv, LedgerInv, NEW c \in Conns, Timeout(c)
  PROVE  Mail!TimeOut(c, who[c]) /\ who[c] \in Agents
<1>1. /\ pc[c] = "parked" /\ pc'[c] = "closed" /\ reply'[c] = "timeout"
      /\ \A d \in Conns \ {c} : pc'[d] = pc[d] /\ reply'[d] = reply[d]
      /\ UNCHANGED <<who, wire, audit, dropped>>
  BY DEF Timeout, Answer, Goto, HubInv, TypeOK
<1>2. who[c] \in Agents /\ wire[c] = None /\ reply[c] # "timeout"
  BY <1>1, AtStep DEF HubInv, RegistryInv, Holding, WireAt
<1>3. /\ OutcomeAt(c) = None /\ OutcomeAt(c)' = [as |-> who[c], id |-> None]
      /\ \A d \in Conns \ {c} : OutcomeAt(d)' = OutcomeAt(d)
  BY <1>1, <1>2 DEF OutcomeAt
<1>4. MailOutcome[c] = None /\ MailOutcome' = [MailOutcome EXCEPT ![c] = [as |-> who[c], id |-> None]]
  BY <1>3, OutcomeStep
<1>5. Accepted' = Accepted
  BY <1>1 DEF Accepted, AcceptedAt
<1>6. \A x \in Conns : StateAt(x)' = StateAt(x)
  BY <1>1 DEF StateAt, Consumed
<1> QED BY <1>2, <1>4, <1>5, <1>6, SameLetters DEF Mail!TimeOut

\* A task that dies with an envelope drops it.
LEMMA DeathIsDrop ==
  ASSUME HubInv, LedgerInv, LedgerInv', NEW c \in Conns, TaskDies(c)
  PROVE  IF slot[c] = None THEN UNCHANGED Mail!vars
         ELSE Mail!Drop(slot[c].id) /\ slot[c].id \in Conns
<1>1. /\ pc[c] \in {"parked", "deliver"}
      /\ \A d \in Conns \ {c} : pc'[d] = pc[d]
      /\ UNCHANGED <<who, wire, reply, audit>>
      /\ \A x : x \in dropped' <=> x \in dropped \/ (slot[c] # None /\ slot[c].id = x)
  BY DEF TaskDies, Goto, HubInv, TypeOK
<1>2. Accepted' = Accepted /\ AcceptedIds' = AcceptedIds
  BY <1>1 DEF Accepted, AcceptedAt, AcceptedIds
<1>3. \A d \in Conns : OutcomeAt(d)' = OutcomeAt(d)
  BY <1>1 DEF OutcomeAt
<1>4. MailOutcome' = MailOutcome
  BY <1>3, OutcomeStep
<1>5. \A x : Consumed(x)' <=> Consumed(x)
  BY <1>1 DEF Consumed
<1>6. CASE slot[c] = None
  <2>1. \A x \in Conns : StateAt(x)' = StateAt(x)
    BY <1>1, <1>5, <1>6 DEF StateAt
  <2> QED BY <1>2, <1>4, <1>6, <2>1, SameLetters DEF Mail!vars
<1>7. CASE slot[c] # None
  <2>1. PICK x : x = slot[c].id
    OBVIOUS
  <2>2. /\ slot[c] \in Envelope /\ x \in Conns /\ slot[c] \in Accepted /\ slot[c].id = x
        /\ slot[c].to = who[c] /\ who[c] \in Names /\ wire[c] = None
    BY <1>1, <1>7, <2>1, AtStep, HubAssumption
       DEF WireAt, AddressedAt, Envelope, HubInv, RegistryInv, Holding, TypeOK
  <2>3. \A y : y \in dropped' <=> y \in dropped \/ y = x
    BY <1>1, <1>7, <2>2
  <2>4. ~Consumed(x) /\ x \notin dropped
    <3>1. Has(c, x)
      BY <1>1, <1>7, <2>2 DEF Has, Holds
    <3>2. \A d \in Conns : Has(d, x) => d = c
      BY <2>2, <3>1 DEF LedgerInv, Placed
    <3>3. x \notin dropped
      BY <2>2, <3>1 DEF LedgerInv, Placed, Standing
    <3> QED BY <1>1, <2>2, <3>2, <3>3 DEF Consumed, Has, Holds, Took
  <2>5. /\ StateAt(x) = "pending" /\ StateAt(x)' = "dropped"
        /\ \A y \in Conns \ {x} : StateAt(y)' = StateAt(y)
    BY <1>5, <2>3, <2>4 DEF StateAt
  <2>6. /\ MailEnvelope[x] = [to |-> who[c], state |-> "pending"]
        /\ MailEnvelope = [y \in Conns |-> MailEnvelope[y]]
    BY <2>2, <2>5, LetterOf DEF Letters
  <2>7. \A y \in Conns \ {x} : MailEnvelope'[y] = MailEnvelope[y]
    BY <1>2, <2>5 DEF MailEnvelope, StateAt
  <2>8. (LedgerInv => Letters)'
    BY LetterOf, PTL
  <2>9. \A e \in Accepted : e.id = x => MailEnvelope'[x] = [to |-> e.to, state |-> StateAt(x)']
    BY <1>2, <2>2, <2>8 DEF Letters
  <2>10. MailEnvelope'[x] = [to |-> who[c], state |-> "dropped"]
    BY <2>2, <2>5, <2>9
  <2>11. MailEnvelope' = [y \in Conns |-> MailEnvelope'[y]]
    BY <2>8 DEF Letters
  <2>12. MailEnvelope' = [MailEnvelope EXCEPT ![x].state = "dropped"]
    BY <2>2, <2>6, <2>7, <2>10, <2>11
  <2> QED BY <1>4, <1>7, <2>1, <2>2, <2>6, <2>12 DEF Mail!Drop
<1> QED BY <1>6, <1>7

LEMMA MailInit == Init => Mail!Init
<1> SUFFICES ASSUME Init PROVE Mail!Init
  OBVIOUS
<1>1. AcceptedIds = {}
  BY DEF Init, Accepted, AcceptedAt, AcceptedIds
<1>2. MailEnvelope = [x \in Conns |-> None]
  BY <1>1 DEF MailEnvelope, AcceptedIds
<1>3. MailOutcome = [c \in Conns |-> None]
  BY DEF Init, MailOutcome
<1> QED BY <1>2, <1>3 DEF Mail!Init

\* Reading a verb, parking, a queued match and a handoff received tell no client.
LEMMA VerbsAreSilent ==
  ASSUME HubInv, LedgerInv, NEW c \in Conns,
         \/ \E r \in Sends : SendVerb(c, r)
         \/ \E r \in Awaits : AwaitVerb(c, r)
         \/ Receive(c)
  PROVE  UNCHANGED Mail!vars
<1> USE DEF HubInv
<1>1. pc[c] \in {"ready", "parked"} /\ wire[c] = None /\ UNCHANGED <<wire, audit, dropped>>
  BY AtStep DEF SendVerb, AwaitVerb, AwaitInvalid, AwaitQueued, AwaitPark, Receive, Goto, Answer,
                TypeOK, WireAt
<1>2. \A d \in Conns \ {c} : pc'[d] = pc[d] /\ who'[d] = who[d] /\ reply'[d] = reply[d]
  BY DEF SendVerb, AwaitVerb, AwaitInvalid, AwaitQueued, AwaitPark, Receive, Goto, Answer, TypeOK
<1>3. reply[c] # "timeout"
  BY <1>1, AtStep
<1>4. reply'[c] # "timeout"
  BY <1>3 DEF SendVerb, AwaitVerb, AwaitInvalid, AwaitQueued, AwaitPark, Receive, Goto, Answer, TypeOK
<1>5. Accepted' = Accepted
  BY <1>1 DEF Accepted, AcceptedAt
<1> QED BY <1>1, <1>2, <1>4, <1>5, SilentIsStutter DEF SilentStep

LEMMA LogDeliveryIsSilent ==
  ASSUME HubInv, LedgerInv, NEW c \in Conns, LogDelivery(c)
  PROVE  UNCHANGED Mail!vars
<1> USE DEF HubInv
<1>1. /\ pc[c] = "log" /\ pc'[c] = "closed" /\ UNCHANGED <<wire, who, reply, dropped>>
      /\ \A d \in Conns \ {c} : pc'[d] = pc[d]
  BY DEF LogDelivery, Goto, AuditFails, TypeOK
<1>2. [type |-> "delivery", id |-> slot[c].id, to |-> who[c], conn |-> c] \in AuditEvent
  BY <1>1 DEF RegistryInv, Holding, TypeOK, Envelope, AuditEvent
<1>3. NothingAccepted
  BY <1>2 DEF LogDelivery, AuditFails, NothingAccepted
<1>4. Accepted' = Accepted
  BY <1>3, NothingAcceptedKeeps
<1>5. reply[c] # "timeout"
  BY <1>1, AtStep
<1> QED BY <1>1, <1>4, <1>5, SilentIsStutter DEF SilentStep

\* Routing moves the envelope between a task and a queue, or two tasks.
LEMMA RouteIsSilent ==
  ASSUME HubInv, NEW c \in Conns, RouteStep(c), UNCHANGED wire,
         \A d \in Conns \ {c} : reply'[d] = reply[d], reply'[c] # "timeout"
  PROVE  SilentStep(c)
<1>1. UNCHANGED who /\ \A d \in Conns \ {c} : pc'[d] = pc[d]
  BY DEF RouteStep, HubInv, TypeOK
<1> QED BY <1>1 DEF SilentStep, RouteStep

\* A commit, of a send or a bounce, with its three outcomes.
LEMMA CommitIsMailStep ==
  ASSUME HubInv, LedgerInv, LedgerInv', NEW env \in Envelope, NEW c \in Conns, RouteStep(c),
         Commit(env, c) \/ AuditFails(c) \/ Abandon(env, c), env.id = c, UNCHANGED wire,
         \A d \in Conns \ {c} : reply'[d] = reply[d], reply'[c] # "timeout"
  PROVE  Mail!Next \/ UNCHANGED Mail!vars
<1>1. SilentStep(c)
  BY RouteIsSilent
<1>2. env.to \in Names /\ [type |-> "accepted", env |-> env] \in AuditEvent
  BY DEF Envelope, AuditEvent
<1>3. AppendAccepted(env) => Accepted' = Accepted \cup {env}
  <2> SUFFICES ASSUME AppendAccepted(env) PROVE Accepted' = Accepted \cup {env}
    OBVIOUS
  <2>1. PICK e \in AuditEvent : e.type = "accepted" /\ e.env = env /\ audit' = Append(audit, e)
    BY <1>2 DEF AppendAccepted
  <2> QED BY <2>1, AuditGrows DEF HubInv
<1>4. CASE Commit(env, c)
  <2>1. Mail!Accept(c, env.to)
    BY <1>1, <1>3, <1>4, CommitIsAccept DEF Commit
  <2> QED BY <1>2, <2>1 DEF Mail!Next
<1>5. CASE Abandon(env, c) /\ AppendAccepted(env) /\ dropped' = dropped \cup {env.id}
  <2>1. Mail!Abandon(c, env.to)
    BY <1>1, <1>3, <1>5, LossIsAbandon
  <2> QED BY <1>2, <2>1 DEF Mail!Next
<1>6. CASE UNCHANGED <<audit, dropped>>
  <2>1. Accepted' = Accepted
    BY <1>6 DEF Accepted, AcceptedAt
  <2> QED BY <1>1, <1>6, <2>1, SilentIsStutter
<1> QED BY <1>4, <1>5, <1>6 DEF AuditFails, Abandon

LEMMA CommitSendIsMailStep ==
  ASSUME HubInv, LedgerInv, LedgerInv', NEW c \in Conns, CommitSend(c)
  PROVE  Mail!Next \/ UNCHANGED Mail!vars
<1>1. /\ pc[c] = "commit" /\ RouteStep(c) /\ UNCHANGED wire
      /\ \A d \in Conns \ {c} : reply'[d] = reply[d]
      /\ reply'[c] # "timeout"
  BY DEF CommitSend, Answer, Goto, RouteStep, HubInv, TypeOK
<1>2. slot[c] \in Envelope /\ slot[c].id = c
  BY <1>1, AtStep DEF AddressedAt, HubInv, RegistryInv, Holding, TypeOK
<1> QED BY <1>1, <1>2, CommitIsMailStep DEF CommitSend

LEMMA EmitBounceIsMailStep ==
  ASSUME HubInv, LedgerInv, LedgerInv', NEW c \in Conns, EmitBounce(c)
  PROVE  Mail!Next \/ UNCHANGED Mail!vars
<1>1. pc[c] = "bounce" /\ RouteStep(c) /\ UNCHANGED <<wire, reply>>
  BY DEF EmitBounce, Goto, RouteStep
<1>2. reply[c] # "timeout" /\ slot[c] \in Envelope
  BY <1>1, AtStep DEF HubInv, RegistryInv, Holding, TypeOK
<1>3. Bounce(c) \in Envelope /\ Bounce(c).id = c
  BY <1>2, HubAssumption DEF Bounce, Envelope
<1>4. PICK env \in Envelope : env = Bounce(c)
  BY <1>3
<1> QED BY <1>1, <1>2, <1>3, <1>4, CommitIsMailStep DEF EmitBounce

LEMMA WriteFailsCleanIsSilent ==
  ASSUME HubInv, LedgerInv, NEW c \in Conns, WriteFailsClean(c)
  PROVE  UNCHANGED Mail!vars
<1>1. /\ pc[c] = "deliver" /\ RouteStep(c) /\ RouteToFront(slot[c], c)
      /\ UNCHANGED <<wire, reply, audit, dropped>>
  BY DEF WriteFailsClean, Goto, RouteStep
<1>2. slot[c] \in Envelope /\ reply[c] # "timeout"
  BY <1>1, AtStep DEF HubInv, RegistryInv, Holding, TypeOK
<1>3. SilentStep(c)
  BY <1>1, <1>2, RouteIsSilent
<1>4. Accepted' = Accepted
  BY <1>1 DEF Accepted, AcceptedAt
<1> QED BY <1>1, <1>3, <1>4, SilentIsStutter

LEMMA MailStep == HubInv /\ LedgerInv /\ LedgerInv' /\ [Next]_vars => [Mail!Next]_(Mail!vars)
<1> SUFFICES ASSUME HubInv, LedgerInv, LedgerInv', [Next]_vars
             PROVE  Mail!Next \/ UNCHANGED Mail!vars
  OBVIOUS
<1>1. CASE UNCHANGED vars
  BY <1>1 DEF vars, Mail!vars, MailEnvelope, MailOutcome, Consumed, Accepted, AcceptedAt
<1>2. ASSUME NEW c \in Conns,
             \/ \E r \in Sends : SendVerb(c, r)
             \/ \E r \in Awaits : AwaitVerb(c, r)
             \/ Receive(c)
      PROVE  UNCHANGED Mail!vars
  BY <1>2, VerbsAreSilent
<1>3. ASSUME NEW c \in Conns, CommitSend(c) \/ EmitBounce(c)
      PROVE  Mail!Next \/ UNCHANGED Mail!vars
  BY <1>3, CommitSendIsMailStep, EmitBounceIsMailStep
<1>4. ASSUME NEW c \in Conns, LogDelivery(c) \/ WriteFailsClean(c)
      PROVE  UNCHANGED Mail!vars
  BY <1>4, LogDeliveryIsSilent, WriteFailsCleanIsSilent
<1>5. ASSUME NEW c \in Conns, WriteWhole(c) \/ WriteFailsPartial(c)
      PROVE  Mail!Next
  BY <1>5, WriteIsConsume DEF Mail!Next
<1>6. ASSUME NEW c \in Conns, Timeout(c)
      PROVE  Mail!Next
  BY <1>6, TimeoutIsTimeOut DEF Mail!Next
<1>7. ASSUME NEW c \in Conns, TaskDies(c)
      PROVE  Mail!Next \/ UNCHANGED Mail!vars
  BY <1>7, DeathIsDrop DEF Mail!Next
<1> QED BY <1>1, <1>2, <1>3, <1>4, <1>5, <1>6, <1>7 DEF Next, TaskStep, Write

\* The hub with its queues, registry, channels, races and retries is a mailbox:
\* accepted for a name, consumed at most once and by that name, one outcome to
\* an await, and none after a timeout.
THEOREM HubIsMailbox == Spec => ImplementsMailbox
BY MailInit, MailStep, HubSafety, LedgerSafety, PTL DEF Spec, ImplementsMailbox, Mail!Spec

-----------------------------------------------------------------------------
(* The hub implements the registry. *)

\* The registry has the same match semantics.
LEMMA SameSemantics ==
  /\ \A filter, env : State!Matches(filter, env) <=> Matches(filter, env)
  /\ \A v, w : State!Outranks(v, w) <=> Outranks(v, w)
  /\ \A i, q, filter : State!IsFirstMatch(i, q, filter) <=> IsFirstMatch(i, q, filter)
  /\ \A q, i : State!RemoveAt(q, i) = RemoveAt(q, i)
  /\ \A reg, env : State!Candidates(reg, env) = Candidates(reg, env)
  /\ \A w, c : State!IsBest(w, c) <=> IsBest(w, c)
<1>1. \A filter, env : State!Matches(filter, env) <=> Matches(filter, env)
  BY DEF Matches, State!Matches
<1>2. \A f : State!Specificity(f) = Specificity(f)
  BY DEF Specificity, State!Specificity
<1>3. \A v, w : State!Outranks(v, w) <=> Outranks(v, w)
  BY <1>2 DEF Outranks, State!Outranks
<1>4. \A i, q, filter : State!IsFirstMatch(i, q, filter) <=> IsFirstMatch(i, q, filter)
  BY <1>1 DEF IsFirstMatch, State!IsFirstMatch
<1>5. \A q, i : State!RemoveAt(q, i) = RemoveAt(q, i)
  BY DEF RemoveAt, State!RemoveAt
<1>6. \A reg, env : State!Candidates(reg, env) = Candidates(reg, env)
  BY <1>1 DEF Candidates, State!Candidates
<1>7. \A w, c : State!IsBest(w, c) <=> IsBest(w, c)
  BY <1>3 DEF IsBest, State!IsBest
<1> QED BY <1>1, <1>3, <1>4, <1>5, <1>6, <1>7

\* A parked task has drawn its ticket.
Ticketed == \A c \in Conns : pc[c] = "parked" => ticket[c] \in Nat

LEMMA TicketedInductive == HubInv /\ Ticketed /\ [Next]_vars => Ticketed'
<1> SUFFICES ASSUME HubInv, Ticketed, [Next]_vars
             PROVE  Ticketed'
  OBVIOUS
<1> USE DEF HubInv
<1>1. ASSUME NEW c \in Conns, NEW to, to # "parked", pc' = [pc EXCEPT ![c] = to], UNCHANGED ticket
      PROVE  Ticketed'
  BY <1>1 DEF Ticketed, TypeOK
<1>2. ASSUME NEW c \in Conns, NEW r \in Sends, SendVerb(c, r) PROVE Ticketed'
  BY <1>1, <1>2 DEF SendVerb, Goto, Answer
<1>3. ASSUME NEW c \in Conns, NEW r \in Awaits, AwaitVerb(c, r) PROVE Ticketed'
  <2>1. CASE AwaitInvalid(c, r) \/ AwaitQueued(c, r)
    BY <1>1, <2>1 DEF AwaitInvalid, AwaitQueued, Goto, Answer
  <2>2. CASE AwaitPark(c, r)
    BY <2>2 DEF AwaitPark, Goto, Ticketed, TypeOK
  <2> QED BY <1>3, <2>1, <2>2 DEF AwaitVerb
<1>4. ASSUME NEW c \in Conns, TaskStep(c) PROVE Ticketed'
  BY <1>1, <1>4 DEF TaskStep, CommitSend, Receive, Timeout, LogDelivery, EmitBounce, Goto, Answer
<1>5. ASSUME NEW c \in Conns, Write(c) PROVE Ticketed'
  BY <1>1, <1>5 DEF Write, WriteWhole, WriteFailsClean, WriteFailsPartial, Goto
<1>6. ASSUME NEW c \in Conns, TaskDies(c) PROVE Ticketed'
  BY <1>1, <1>6 DEF TaskDies, Goto
<1>7. CASE UNCHANGED vars
  BY <1>7 DEF vars, Ticketed
<1> QED BY <1>2, <1>3, <1>4, <1>5, <1>6, <1>7 DEF Next

LEMMA TicketedSafety == Spec => []Ticketed
<1>1. Init => Ticketed
  BY DEF Init, Ticketed
<1> QED BY <1>1, TicketedInductive, HubSafety, PTL DEF Spec

\* What the registry's channels are, task by task.
Receivers ==
  /\ Channels \in [1..nextId -> Envelope \cup {None}]
  /\ LiveIds \subseteq 0..(nextId - 1)
  /\ \A c \in Conns : HoldsReceiver(c) =>
       ticket[c] \in LiveIds /\ Channels[ticket[c] + 1] = slot[c]
  /\ \A id \in LiveIds : \E c \in Conns : HoldsReceiver(c) /\ ticket[c] = id
  /\ \A id \in 0..(nextId - 1) : id \notin LiveIds => Channels[id + 1] = None

LEMMA ReceiversOf == HubInv => Receivers
<1> SUFFICES ASSUME HubInv
             PROVE  Receivers
  OBVIOUS
<1> USE DEF HubInv
<1>1. ASSUME NEW c \in Conns, HoldsReceiver(c)
      PROVE  ticket[c] \in 0..(nextId - 1)
  BY <1>1 DEF HoldsReceiver, TypeOK, RegistryInv, Tickets
<1>2. ASSUME NEW c \in Conns, NEW d \in Conns, HoldsReceiver(c), HoldsReceiver(d),
             ticket[c] = ticket[d]
      PROVE  c = d
  BY <1>2 DEF HoldsReceiver, RegistryInv, Tickets
<1>3. ASSUME NEW c \in Conns, HoldsReceiver(c)
      PROVE  ticket[c] \in LiveIds /\ c \in ReceiverOf(ticket[c])
  BY <1>3 DEF LiveIds, ReceiverOf
<1>4. ASSUME NEW id \in LiveIds
      PROVE  /\ id \in 0..(nextId - 1)
             /\ \E c \in Conns : HoldsReceiver(c) /\ ticket[c] = id
  BY <1>1, <1>4 DEF LiveIds
<1>5. ASSUME NEW i \in 1..nextId, i - 1 \in LiveIds
      PROVE  \A c \in Conns : HoldsReceiver(c) /\ ticket[c] = i - 1 => Channels[i] = slot[c]
  <2>1. SUFFICES ASSUME NEW c \in Conns, HoldsReceiver(c), ticket[c] = i - 1
                 PROVE  Channels[i] = slot[c]
    OBVIOUS
  <2>2. PICK d : d = CHOOSE x \in Conns : x \in ReceiverOf(i - 1)
    OBVIOUS
  <2>3. d \in Conns /\ d \in ReceiverOf(i - 1)
    BY <1>3, <2>1, <2>2
  <2>4. d = c
    BY <1>2, <2>1, <2>3 DEF ReceiverOf
  <2>5. ReceiverOf(i - 1) # {}
    BY <2>3
  <2> QED BY <2>2, <2>4, <2>5 DEF Channels
<1>6. ASSUME NEW i \in 1..nextId, i - 1 \notin LiveIds
      PROVE  Channels[i] = None
  <2>1. ReceiverOf(i - 1) = {}
    BY <1>6 DEF LiveIds, ReceiverOf
  <2> QED BY <2>1 DEF Channels
<1>7. Channels \in [1..nextId -> Envelope \cup {None}]
  <2>1. ASSUME NEW i \in 1..nextId PROVE Channels[i] \in Envelope \cup {None}
    <3>1. CASE i - 1 \in LiveIds
      <4>1. PICK c \in Conns : HoldsReceiver(c) /\ ticket[c] = i - 1
        BY <1>4, <3>1
      <4> QED BY <1>5, <3>1, <4>1 DEF TypeOK
    <3> QED BY <1>6, <3>1
  <2> DEFINE held(i) == IF ReceiverOf(i - 1) = {} THEN None
                        ELSE slot[CHOOSE c \in Conns : c \in ReceiverOf(i - 1)]
  <2>2. Channels = [i \in 1..nextId |-> held(i)]
    BY DEF Channels
  <2> HIDE DEF held
  <2> QED BY <2>1, <2>2
<1>8. ASSUME NEW c \in Conns, HoldsReceiver(c)
      PROVE  Channels[ticket[c] + 1] = slot[c]
  <2>1. PICK i : i = ticket[c] + 1
    OBVIOUS
  <2>2. nextId \in Nat
    BY DEF TypeOK
  <2>3. i \in 1..nextId /\ ticket[c] = i - 1
    BY <1>1, <1>8, <2>1, <2>2
  <2> QED BY <1>3, <1>5, <1>8, <2>1, <2>3
<1>9. ASSUME NEW id \in 0..(nextId - 1), id \notin LiveIds
      PROVE  Channels[id + 1] = None
  <2>1. nextId \in Nat
    BY DEF TypeOK
  <2>2. PICK i : i = id + 1
    OBVIOUS
  <2>3. i \in 1..nextId /\ i - 1 = id
    BY <2>1, <2>2
  <2> QED BY <1>6, <1>9, <2>2, <2>3
<1> QED BY <1>3, <1>4, <1>7, <1>8, <1>9 DEF Receivers

\* Channels that hold what the tasks hold are the registry's channels.
LEMMA ChannelsAre ==
  ASSUME Receivers', nextId' \in Nat, NEW g \in [1..nextId' -> Envelope \cup {None}],
         \A d \in Conns : HoldsReceiver(d)' => g[ticket'[d] + 1] = slot'[d],
         \A id \in 0..(nextId' - 1) : id \notin LiveIds' => g[id + 1] = None
  PROVE  Channels' = g
<1>1. ASSUME NEW i \in 1..nextId' PROVE Channels'[i] = g[i]
  <2>1. PICK id \in 0..(nextId' - 1) : i = id + 1
    <3>1. PICK m \in Nat : m = nextId'
      OBVIOUS
    <3>2. i \in 1..m
      BY <3>1
    <3>3. \E id \in 0..(m - 1) : i = id + 1
      <4>1. i - 1 \in 0..(m - 1) /\ i = (i - 1) + 1
        BY <3>2
      <4> QED BY <4>1
    <3> QED BY <3>1, <3>3
  <2>2. CASE id \in LiveIds'
    <3>1. PICK d \in Conns : HoldsReceiver(d)' /\ ticket'[d] = id
      BY <2>2 DEF Receivers
    <3>2. Channels'[ticket'[d] + 1] = slot'[d]
      BY <3>1 DEF Receivers
    <3> QED BY <2>1, <3>1, <3>2
  <2>3. CASE id \notin LiveIds'
    <3>1. Channels'[id + 1] = None
      BY <2>3 DEF Receivers
    <3> QED BY <2>1, <2>3, <3>1
  <2> QED BY <2>2, <2>3
<1>2. Channels' \in [1..nextId' -> Envelope \cup {None}]
  BY DEF Receivers
<1> QED BY <1>1, <1>2

\* Whether a task other than c holds its receiver does not change, nor which.
OthersHold(c) ==
  \A d \in Conns \ {c} :
    /\ HoldsReceiver(d)' <=> HoldsReceiver(d)
    /\ HoldsReceiver(d) => ticket'[d] = ticket[d]

LEMMA OthersHoldOn ==
  ASSUME NEW c \in Conns,
         \A d \in Conns \ {c} : pc'[d] = pc[d] /\ ticket'[d] = ticket[d] /\ reply'[d] = reply[d]
  PROVE  OthersHold(c)
BY DEF OthersHold, HoldsReceiver

\* A task that holds no receiver before or after leaves the live ones alone.
LEMMA SameLive ==
  ASSUME Receivers, Receivers', UNCHANGED nextId, NEW c \in Conns, OthersHold(c),
         HoldsReceiver(c)' <=> HoldsReceiver(c), HoldsReceiver(c) => ticket'[c] = ticket[c]
  PROVE  LiveIds' = LiveIds
<1>1. ASSUME NEW d \in Conns
      PROVE  /\ HoldsReceiver(d)' <=> HoldsReceiver(d)
             /\ HoldsReceiver(d) => ticket'[d] = ticket[d]
  BY DEF OthersHold
<1>2. \A id : id \in LiveIds' => id \in LiveIds
  BY <1>1 DEF Receivers
<1>3. \A id : id \in LiveIds => id \in LiveIds'
  BY <1>1 DEF Receivers
<1> QED BY <1>2, <1>3

\* No receiver comes or goes, and no channel fills.
LEMMA ReceiversStay ==
  ASSUME HubInv, Receivers, Receivers', UNCHANGED nextId, NEW c \in Conns, OthersHold(c),
         HoldsReceiver(c)' <=> HoldsReceiver(c),
         HoldsReceiver(c) => ticket'[c] = ticket[c] /\ slot'[c] = slot[c],
         \A d \in Conns \ {c} : slot'[d] = slot[d]
  PROVE  UNCHANGED <<LiveIds, Channels>>
<1>1. LiveIds' = LiveIds
  BY SameLive
<1>2. Channels \in [1..nextId' -> Envelope \cup {None}] /\ nextId' \in Nat
  BY DEF Receivers, HubInv, TypeOK
<1>3. ASSUME NEW d \in Conns, HoldsReceiver(d)' PROVE Channels[ticket'[d] + 1] = slot'[d]
  BY <1>3 DEF Receivers, OthersHold
<1>4. \A id \in 0..(nextId' - 1) : id \notin LiveIds' => Channels[id + 1] = None
  BY <1>1 DEF Receivers
<1>5. PICK g : g = Channels
  OBVIOUS
<1> QED BY <1>1, <1>2, <1>3, <1>4, <1>5, ChannelsAre

\* Nothing happens to the registry.
LEMMA RegistryStays ==
  ASSUME HubInv, Receivers, Receivers', UNCHANGED <<queues, waiters, nextId>>,
         NEW c \in Conns, OthersHold(c),
         HoldsReceiver(c)' <=> HoldsReceiver(c),
         HoldsReceiver(c) => ticket'[c] = ticket[c] /\ slot'[c] = slot[c],
         \A d \in Conns \ {c} : slot'[d] = slot[d]
  PROVE  UNCHANGED State!vars
<1>1. UNCHANGED <<LiveIds, Channels>>
  BY ReceiversStay
<1>2. RegisteredWaiters' = RegisteredWaiters
  BY DEF RegisteredWaiters
<1> QED BY <1>1, <1>2 DEF State!vars

-----------------------------------------------------------------------------
(* Steps that leave the registry alone. *)

LEMMA LocalStepStays ==
  ASSUME HubInv, LedgerInv, Receivers, Receivers', NEW c \in Conns,
         pc[c] \in {"ready", "commit", "deliver", "log", "bounce"},
         pc'[c] # "parked", reply'[c] # "timeout",
         \A d \in Conns \ {c} : pc'[d] = pc[d] /\ reply'[d] = reply[d] /\ slot'[d] = slot[d],
         UNCHANGED <<queues, waiters, nextId, ticket>>
  PROVE  UNCHANGED State!vars
<1>1. ~HoldsReceiver(c) /\ ~HoldsReceiver(c)'
  BY AtStep DEF HoldsReceiver
<1>2. OthersHold(c)
  BY OthersHoldOn
<1> QED BY <1>1, <1>2, RegistryStays

LEMMA VerbsStay ==
  ASSUME HubInv, LedgerInv, Receivers, Receivers', NEW c \in Conns,
         \/ \E r \in Sends : SendVerb(c, r)
         \/ \E r \in Awaits : AwaitInvalid(c, r)
  PROVE  UNCHANGED State!vars
<1>1. /\ pc[c] = "ready" /\ pc'[c] # "parked"
      /\ \A d \in Conns \ {c} : pc'[d] = pc[d] /\ reply'[d] = reply[d] /\ slot'[d] = slot[d]
      /\ UNCHANGED <<queues, waiters, nextId, ticket>>
  BY DEF SendVerb, AwaitInvalid, Goto, Answer, HubInv, TypeOK
<1>2. reply'[c] # "timeout"
  BY <1>1, AtStep DEF SendVerb, AwaitInvalid, Goto, Answer, HubInv, TypeOK
<1> QED BY <1>1, <1>2, LocalStepStays

LEMMA WritesStay ==
  ASSUME HubInv, LedgerInv, Receivers, Receivers', NEW c \in Conns,
         WriteWhole(c) \/ WriteFailsPartial(c) \/ LogDelivery(c)
  PROVE  UNCHANGED State!vars
<1>1. /\ pc[c] \in {"deliver", "log"} /\ pc'[c] # "parked" /\ UNCHANGED reply
      /\ \A d \in Conns \ {c} : pc'[d] = pc[d] /\ slot'[d] = slot[d]
      /\ UNCHANGED <<queues, waiters, nextId, ticket>>
  BY DEF WriteWhole, WriteFailsPartial, LogDelivery, AuditFails, Goto, HubInv, TypeOK
<1>2. reply'[c] # "timeout"
  BY <1>1, AtStep
<1> QED BY <1>1, <1>2, LocalStepStays

\* A task that has received its envelope has no receiver left to drop.
LEMMA LateDeathStays ==
  ASSUME HubInv, LedgerInv, Receivers, Receivers', NEW c \in Conns,
         TaskDies(c), pc[c] # "parked"
  PROVE  UNCHANGED State!vars
<1>1. /\ pc[c] = "deliver" /\ pc'[c] # "parked" /\ UNCHANGED reply
      /\ \A d \in Conns \ {c} : pc'[d] = pc[d] /\ slot'[d] = slot[d]
      /\ UNCHANGED <<queues, waiters, nextId, ticket>>
  BY DEF TaskDies, Goto, HubInv, TypeOK
<1>2. reply'[c] # "timeout"
  BY <1>1, AtStep
<1> QED BY <1>1, <1>2, LocalStepStays

LEMMA RefusalStays ==
  ASSUME HubInv, LedgerInv, Receivers, Receivers', NEW c \in Conns, RouteStep(c),
         slot' = [slot EXCEPT ![c] = None], UNCHANGED <<queues, waiters>>,
         reply'[c] # "timeout", \A d \in Conns \ {c} : reply'[d] = reply[d]
  PROVE  UNCHANGED State!vars
<1>1. /\ pc[c] \in {"commit", "deliver", "bounce"} /\ pc'[c] # "parked"
      /\ \A d \in Conns \ {c} : pc'[d] = pc[d] /\ slot'[d] = slot[d]
      /\ UNCHANGED <<queues, waiters, nextId, ticket>>
  BY DEF RouteStep, HubInv, TypeOK
<1> QED BY <1>1, LocalStepStays

-----------------------------------------------------------------------------
(* Steps of the registry. *)

\* An envelope received, or the death of the task that waited, ends a receiver.
LEMMA DropStep ==
  ASSUME HubInv, LedgerInv, Ticketed, Receivers, Receivers', NEW c \in Conns,
         Receive(c) \/ (TaskDies(c) /\ pc[c] = "parked")
  PROVE  State!Next
<1>1. /\ pc[c] = "parked" /\ pc'[c] \in {"deliver", "dead"}
      /\ \A d \in Conns \ {c} : pc'[d] = pc[d] /\ slot'[d] = slot[d]
      /\ UNCHANGED <<queues, waiters, nextId, ticket, reply>>
  BY DEF Receive, TaskDies, Goto, HubInv, TypeOK
<1>2. OthersHold(c)
  BY <1>1, OthersHoldOn
<1>3. PICK id : id = ticket[c]
  OBVIOUS
<1>4. HoldsReceiver(c) /\ ~HoldsReceiver(c)' /\ id \in LiveIds
  <2>1. ticket[c] # None
    BY <1>1, HubAssumption DEF Ticketed
  <2>2. reply[c] # "timeout"
    BY <1>1, AtStep
  <2> QED BY <1>1, <1>3, <2>1, <2>2 DEF HoldsReceiver, Receivers
<1>5. \A d \in Conns \ {c} : HoldsReceiver(d) => ticket[d] # id
  BY <1>3, <1>4 DEF HoldsReceiver, HubInv, RegistryInv, Tickets
<1>6. LiveIds' = LiveIds \ {id}
  <2>1. \A x : x \in LiveIds' => x \in LiveIds \ {id}
    BY <1>1, <1>2, <1>4, <1>5 DEF Receivers, OthersHold
  <2>2. \A x : x \in LiveIds \ {id} => x \in LiveIds'
    BY <1>1, <1>2, <1>3 DEF Receivers, OthersHold
  <2> QED BY <2>1, <2>2
<1>7. Channels' = [Channels EXCEPT ![id + 1] = None]
  <2>1. PICK g : g = [Channels EXCEPT ![id + 1] = None]
    OBVIOUS
  <2>2. /\ Channels \in [1..nextId -> Envelope \cup {None}] /\ nextId \in Nat
        /\ id \in 0..(nextId - 1) /\ LiveIds \subseteq 0..(nextId - 1)
    BY <1>4 DEF Receivers, HubInv, TypeOK
  <2>3. /\ g \in [1..nextId -> Envelope \cup {None}] /\ g[id + 1] = None
        /\ \A x \in 0..(nextId - 1) : x # id => g[x + 1] = Channels[x + 1]
    BY <2>1, <2>2
  <2>4. ASSUME NEW d \in Conns, HoldsReceiver(d)' PROVE g[ticket'[d] + 1] = slot'[d]
    <3>1. d # c /\ HoldsReceiver(d) /\ ticket'[d] = ticket[d] /\ slot'[d] = slot[d]
      BY <1>1, <1>2, <1>4, <2>4 DEF OthersHold
    <3>2. ticket[d] \in 0..(nextId - 1) /\ ticket[d] # id /\ Channels[ticket[d] + 1] = slot[d]
      BY <1>5, <2>2, <3>1 DEF Receivers
    <3> QED BY <2>3, <3>1, <3>2
  <2>5. \A x \in 0..(nextId - 1) : x \notin LiveIds' => g[x + 1] = None
    BY <1>6, <2>3 DEF Receivers
  <2>6. nextId' = nextId
    BY <1>1
  <2>7. Channels' = g
    BY <2>2, <2>3, <2>4, <2>5, <2>6, ChannelsAre
  <2> QED BY <2>1, <2>7
<1>8. RegisteredWaiters' = RegisteredWaiters
  BY <1>1 DEF RegisteredWaiters
<1>9. State!Drop(id)
  BY <1>1, <1>6, <1>7, <1>8 DEF State!Drop
<1> QED BY <1>4, <1>9 DEF State!Next

-----------------------------------------------------------------------------
(* The waiters as the registry sees them. *)

LEMMA SeenOnce ==
  ASSUME HubInv, NEW n \in Names, NEW v \in waiters[n], NEW w \in waiters[n], v.id = w.id
  PROVE  v = w
<1>1. v.conn \in Conns /\ w.conn \in Conns /\ ticket[v.conn] = v.id /\ ticket[w.conn] = w.id
      /\ v.id \in Nat
  BY RegisteredWaiter DEF Waiter
<1>2. v.conn = w.conn
  BY <1>1, HubAssumption DEF HubInv, RegistryInv, Tickets
<1> QED BY <1>2 DEF HubInv, RegistryInv, OneWaiter

\* A waiter whose task is not dead is live to the registry.
LEMMA SeenAlive ==
  ASSUME HubInv, LedgerInv, Receivers, NEW n \in Names, NEW w \in waiters[n]
  PROVE  /\ Seen(w).id \in LiveIds <=> pc[w.conn] # "dead"
         /\ pc[w.conn] # "dead" => HoldsReceiver(w.conn)
<1>1. /\ w.conn \in Conns /\ pc[w.conn] \in {"parked", "dead"} /\ ticket[w.conn] = w.id
      /\ w.id \in Nat /\ Seen(w).id = w.id
  BY RegisteredWaiter DEF Waiter, Seen
<1>2. reply[w.conn] # "timeout" /\ w.id # None
  BY <1>1, AtStep, HubAssumption
<1>3. HoldsReceiver(w.conn) <=> pc[w.conn] # "dead"
  BY <1>1, <1>2 DEF HoldsReceiver
<1>4. ASSUME w.id \in LiveIds PROVE HoldsReceiver(w.conn)
  <2>1. PICK d \in Conns : HoldsReceiver(d) /\ ticket[d] = w.id
    BY <1>4 DEF Receivers
  <2>2. d = w.conn
    BY <1>1, <1>2, <2>1 DEF HubInv, RegistryInv, Tickets
  <2> QED BY <2>1, <2>2
<1> QED BY <1>1, <1>3, <1>4 DEF Receivers

\* Removing waiters is removing what is seen of them.
LEMMA SeenWithout ==
  ASSUME HubInv, NEW n \in Names, NEW gone \in SUBSET waiters[n],
         waiters' = [waiters EXCEPT ![n] = @ \ gone]
  PROVE  RegisteredWaiters' = [RegisteredWaiters EXCEPT ![n] = @ \ {Seen(w) : w \in gone}]
<1>1. PICK left : left = {Seen(w) : w \in waiters[n]} \ {Seen(w) : w \in gone}
  OBVIOUS
<1>2. {Seen(w) : w \in waiters[n] \ gone} = left
  <2>1. ASSUME NEW v \in waiters[n], NEW w \in waiters[n], Seen(v) = Seen(w) PROVE v = w
    <3>1. v.id = w.id
      BY <2>1 DEF Seen
    <3> QED BY <3>1, SeenOnce
  <2> HIDE DEF Seen
  <2> QED BY <1>1, <2>1
<1>3. ASSUME NEW m \in Names
      PROVE  {Seen(w) : w \in waiters'[m]} =
               IF m = n THEN left ELSE {Seen(w) : w \in waiters[m]}
  <2>1. waiters'[m] = IF m = n THEN waiters[n] \ gone ELSE waiters[m]
    BY DEF HubInv, TypeOK
  <2> QED BY <1>2, <2>1
<1>4. RegisteredWaiters' = [m \in Names |-> {Seen(w) : w \in waiters'[m]}]
  BY DEF RegisteredWaiters, Seen
<1>5. RegisteredWaiters[n] = {Seen(w) : w \in waiters[n]}
  BY DEF RegisteredWaiters
<1> QED BY <1>1, <1>3, <1>4, <1>5 DEF RegisteredWaiters

\* The timer of a registered task deregisters it.
LEMMA TimeoutStep ==
  ASSUME HubInv, LedgerInv, Receivers, Receivers', NEW c \in Conns, Timeout(c)
  PROVE  State!Next
<1>1. PICK w \in waiters[who[c]] :
        w.id = ticket[c] /\ waiters' = [waiters EXCEPT ![who[c]] = @ \ {w}]
  BY DEF Timeout
<1>2. /\ pc[c] = "parked" /\ pc'[c] = "closed" /\ reply'[c] = "timeout"
      /\ \A d \in Conns \ {c} : pc'[d] = pc[d] /\ reply'[d] = reply[d]
      /\ UNCHANGED <<queues, nextId, ticket, slot>>
  BY DEF Timeout, Answer, Goto, HubInv, TypeOK
<1>3. PICK n \in Names : n = who[c]
  BY <1>2, HubAssumption DEF HubInv, RegistryInv, Holding
<1>4. w \in waiters[n] /\ w.id \in Nat /\ w.id < nextId /\ nextId \in Nat
  BY <1>1, <1>3, RegisteredWaiter, HubAssumption DEF Waiter, HubInv, RegistryInv, Tickets, TypeOK
<1>5. HoldsReceiver(c) /\ HoldsReceiver(c)'
  BY <1>1, <1>2, <1>4, HubAssumption DEF HoldsReceiver
<1>6. OthersHold(c)
  BY <1>2, OthersHoldOn
<1>7. LiveIds' = LiveIds /\ Channels' = Channels
  BY <1>2, <1>5, <1>6, ReceiversStay
<1>9. RegisteredWaiters' =
        [RegisteredWaiters EXCEPT ![n] = {v \in @ : v.id # w.id}]
  <2>1. RegisteredWaiters' = [RegisteredWaiters EXCEPT ![n] = @ \ {Seen(v) : v \in {w}}]
    BY <1>1, <1>3, <1>4, SeenWithout
  <2>2. RegisteredWaiters[n] \ {Seen(v) : v \in {w}}
          = {v \in RegisteredWaiters[n] : v.id # w.id}
    <3>1. RegisteredWaiters[n] = {Seen(v) : v \in waiters[n]}
      BY DEF RegisteredWaiters
    <3>2. \A v \in waiters[n] : Seen(v).id = w.id => v = w
      BY <1>4, SeenOnce DEF Seen
    <3>3. Seen(w).id = w.id
      BY DEF Seen
    <3> HIDE DEF Seen
    <3> QED BY <1>4, <3>1, <3>2, <3>3
  <2> QED BY <2>1, <2>2
<1>10. State!Deregister(n, w.id)
  BY <1>2, <1>7, <1>9 DEF State!Deregister
<1>11. w.id \in 0..(nextId - 1)
  BY <1>4
<1> QED BY <1>10, <1>11 DEF State!Next

-----------------------------------------------------------------------------
(* The await verb and the registry. *)

LEMMA FilterTyped ==
  ASSUME NEW r \in Awaits, r.replyTo # Empty, r.kind # Empty
  PROVE  r.as \in Names /\ FilterOf(r) \in Filter
<1>1. r \in AwaitRequest /\ Agents \subseteq Names
  BY HubAssumption
<1> QED BY <1>1 DEF AwaitRequest, FilterOf, Filter

LEMMA TakeStep ==
  ASSUME HubInv, LedgerInv, Receivers, Receivers', NEW c \in Conns, NEW r \in Awaits,
         AwaitQueued(c, r)
  PROVE  State!Next
<1>1. /\ pc[c] = "ready" /\ pc'[c] = "deliver"
      /\ \A d \in Conns \ {c} : pc'[d] = pc[d] /\ slot'[d] = slot[d]
      /\ UNCHANGED <<waiters, nextId, ticket, reply>>
  BY DEF AwaitQueued, Goto, HubInv, TypeOK
<1>2. ~HoldsReceiver(c) /\ ~HoldsReceiver(c)'
  BY <1>1, AtStep DEF HoldsReceiver
<1>3. OthersHold(c)
  BY <1>1, OthersHoldOn
<1>4. UNCHANGED <<LiveIds, Channels>>
  BY <1>1, <1>2, <1>3, ReceiversStay
<1>5. RegisteredWaiters' = RegisteredWaiters
  BY <1>1 DEF RegisteredWaiters
<1>6. r.as \in Names /\ FilterOf(r) \in Filter
  BY FilterTyped DEF AwaitQueued
<1>7. \E i \in DOMAIN queues[r.as] :
        /\ State!IsFirstMatch(i, queues[r.as], FilterOf(r))
        /\ queues' = [queues EXCEPT ![r.as] = State!RemoveAt(@, i)]
  BY SameSemantics DEF AwaitQueued
<1>8. State!Take(r.as, FilterOf(r))
  BY <1>1, <1>4, <1>5, <1>7 DEF State!Take
<1> QED BY <1>6, <1>8 DEF State!Next

LEMMA RegisterStep ==
  ASSUME HubInv, LedgerInv, Receivers, Receivers', NEW c \in Conns, NEW r \in Awaits,
         AwaitPark(c, r)
  PROVE  State!Next
<1>1. /\ pc[c] = "ready" /\ pc'[c] = "parked" /\ slot[c] = None
      /\ ticket'[c] = nextId /\ nextId' = nextId + 1 /\ nextId \in Nat
      /\ \A d \in Conns \ {c} : pc'[d] = pc[d] /\ ticket'[d] = ticket[d]
      /\ UNCHANGED <<queues, slot, reply>>
  BY DEF AwaitPark, Goto, HubInv, TypeOK, RegistryInv, Holding
<1>2. PICK id \in Nat : id = nextId
  BY <1>1
<1>3. ~HoldsReceiver(c) /\ HoldsReceiver(c)'
  <2>1. nextId # None
    BY <1>1, HubAssumption
  <2> QED BY <1>1, <2>1, AtStep DEF HoldsReceiver
<1>4. OthersHold(c)
  BY <1>1, OthersHoldOn
<1>5. LiveIds' = LiveIds \cup {id}
  <2>1. \A x : x \in LiveIds' => x \in LiveIds \cup {id}
    BY <1>1, <1>2, <1>4 DEF Receivers, OthersHold
  <2>2. \A x : x \in LiveIds \cup {id} => x \in LiveIds'
    BY <1>1, <1>2, <1>3, <1>4 DEF Receivers, OthersHold
  <2> QED BY <2>1, <2>2
<1>6. Channels' = Append(Channels, None)
  <2>1. /\ Channels \in [1..id -> Envelope \cup {None}] /\ LiveIds \subseteq 0..(id - 1)
        /\ nextId' = id + 1
    BY <1>1, <1>2 DEF Receivers
  <2>2. PICK g : g = Append(Channels, None)
    OBVIOUS
  <2>3. /\ g \in [1..(id + 1) -> Envelope \cup {None}]
        /\ g[id + 1] = None /\ \A x \in 0..(id - 1) : g[x + 1] = Channels[x + 1]
    <3>1. Channels \in Seq(Envelope \cup {None}) /\ Len(Channels) = id
      BY <2>1
    <3>2. PICK s \in Seq(Envelope \cup {None}) : s = Channels
      BY <3>1
    <3>3. g \in Seq(Envelope \cup {None}) /\ Len(g) = id + 1
      BY <2>2, <3>1, <3>2
    <3>4. g[id + 1] = None /\ \A i \in 1..id : g[i] = s[i]
      BY <2>2, <3>1, <3>2
    <3> QED BY <3>2, <3>3, <3>4
  <2>4. ASSUME NEW d \in Conns, HoldsReceiver(d)' PROVE g[ticket'[d] + 1] = slot'[d]
    <3>1. CASE d = c
      BY <1>1, <1>2, <2>3, <3>1
    <3>2. CASE d # c
      <4>1. HoldsReceiver(d) /\ ticket'[d] = ticket[d] /\ slot'[d] = slot[d]
        BY <1>1, <1>4, <2>4, <3>2 DEF OthersHold
      <4>2. ticket[d] \in 0..(id - 1) /\ Channels[ticket[d] + 1] = slot[d]
        BY <2>1, <4>1 DEF Receivers
      <4> QED BY <2>3, <4>1, <4>2
    <3> QED BY <3>1, <3>2
  <2>5. ASSUME NEW x \in 0..id, x \notin LiveIds' PROVE g[x + 1] = None
    <3>1. x \in 0..(id - 1) /\ x \notin LiveIds
      BY <1>5, <2>5
    <3>2. Channels[x + 1] = None
      BY <1>2, <3>1 DEF Receivers
    <3> QED BY <2>3, <3>1, <3>2
  <2>6. nextId' \in Nat /\ nextId' - 1 = id
    BY <2>1
  <2>7. Channels' = g
    BY <2>1, <2>3, <2>4, <2>5, <2>6, ChannelsAre
  <2> QED BY <2>2, <2>7
<1>7. r.as \in Names /\ FilterOf(r) \in Filter
  BY FilterTyped DEF AwaitPark
<1>8. RegisteredWaiters' =
        [RegisteredWaiters EXCEPT ![r.as] = @ \cup {[id |-> nextId, filter |-> FilterOf(r)]}]
  <2>1. PICK w : w = [id |-> nextId, filter |-> FilterOf(r), conn |-> c]
    OBVIOUS
  <2>2. waiters' = [waiters EXCEPT ![r.as] = @ \cup {w}]
    BY <2>1 DEF AwaitPark
  <2>3. Seen(w) = [id |-> nextId, filter |-> FilterOf(r)]
    BY <2>1 DEF Seen
  <2>4. ASSUME NEW m \in Names
        PROVE  {Seen(v) : v \in waiters'[m]} =
                 IF m = r.as THEN {Seen(v) : v \in waiters[m]} \cup {Seen(w)}
                 ELSE {Seen(v) : v \in waiters[m]}
    <3>1. waiters'[m] = IF m = r.as THEN waiters[m] \cup {w} ELSE waiters[m]
      BY <2>2 DEF HubInv, TypeOK
    <3> HIDE DEF Seen
    <3> QED BY <3>1
  <2>5. RegisteredWaiters' = [m \in Names |-> {Seen(v) : v \in waiters'[m]}]
    BY DEF RegisteredWaiters, Seen
  <2>6. RegisteredWaiters = [m \in Names |-> {Seen(v) : v \in waiters[m]}]
    BY DEF RegisteredWaiters
  <2> QED BY <1>7, <2>3, <2>4, <2>5, <2>6
<1>9. \A i \in DOMAIN queues[r.as] : ~State!Matches(FilterOf(r), queues[r.as][i])
  BY SameSemantics DEF AwaitPark, NothingQueuedFor
<1>10. State!Register(r.as, FilterOf(r))
  BY <1>1, <1>2, <1>5, <1>6, <1>8, <1>9 DEF State!Register
<1> QED BY <1>7, <1>10 DEF State!Next

-----------------------------------------------------------------------------
(* Routing and the registry. *)

\* The registry ranks and matches waiters by what it sees of them.
LEMMA SeenRanks ==
  ASSUME NEW v, NEW w, NEW env
  PROVE  /\ Outranks(Seen(v), Seen(w)) <=> Outranks(v, w)
         /\ Matches(Seen(v).filter, env) <=> Matches(v.filter, env)
<1>1. Seen(v).id = v.id /\ Seen(v).filter = v.filter /\ Seen(w).id = w.id /\ Seen(w).filter = w.filter
  BY DEF Seen
<1> QED BY <1>1 DEF Outranks

\* So its candidates are the hub's, and the live ones are the tasks not dead.
LEMMA SeenCandidates ==
  ASSUME HubInv, LedgerInv, Receivers, NEW n \in Names, NEW env
  PROVE  /\ Candidates(RegisteredWaiters[n], env) = {Seen(w) : w \in Candidates(waiters[n], env)}
         /\ \A w \in Candidates(waiters[n], env) : Seen(w).id \in LiveIds <=> pc[w.conn] # "dead"
<1>1. RegisteredWaiters[n] = {Seen(w) : w \in waiters[n]}
  BY DEF RegisteredWaiters
<1>2. \A w \in waiters[n] : Matches(Seen(w).filter, env) <=> Matches(w.filter, env)
  BY SeenRanks
<1>3. Candidates(RegisteredWaiters[n], env) = {Seen(w) : w \in Candidates(waiters[n], env)}
  <2> HIDE DEF Seen
  <2> QED BY <1>1, <1>2 DEF Candidates
<1> QED BY <1>3, SeenAlive DEF Candidates

\* The task that handed its envelope over is not one that waits.
LEMMA RouterHoldsNothing ==
  ASSUME HubInv, LedgerInv, NEW c \in Conns, RouteStep(c), reply'[c] # "timeout",
         \A d \in Conns \ {c} : reply'[d] = reply[d]
  PROVE  ~HoldsReceiver(c) /\ ~HoldsReceiver(c)' /\ OthersHold(c)
<1>1. /\ pc[c] \in {"commit", "deliver", "bounce"} /\ pc'[c] = "closed"
      /\ \A d \in Conns \ {c} : pc'[d] = pc[d]
      /\ UNCHANGED ticket
  BY DEF RouteStep, HubInv, TypeOK
<1>2. ~HoldsReceiver(c) /\ ~HoldsReceiver(c)'
  BY <1>1, AtStep DEF HoldsReceiver
<1> QED BY <1>1, <1>2, OthersHoldOn

LEMMA HandOffStep ==
  ASSUME HubInv, LedgerInv, Receivers, Receivers', NEW c \in Conns, RouteStep(c),
         reply'[c] # "timeout", \A d \in Conns \ {c} : reply'[d] = reply[d],
         NEW env \in Envelope, HandOff(env, c)
  PROVE  State!HandOff(env)
<1> DEFINE here == waiters[env.to]
           candidates == Candidates(here, env)
           live == {w \in candidates : pc[w.conn] # "dead"}
<1>1. PICK w \in live :
        /\ IsBest(w, live)
        /\ waiters' = [waiters EXCEPT ![env.to] =
                         @ \ ({w} \cup {d \in candidates : Outranks(d, w)})]
        /\ slot' = [slot EXCEPT ![c] = None, ![w.conn] = env]
        /\ UNCHANGED queues
  BY DEF HandOff, Deregistered
<1>2. env.to \in Names /\ candidates \subseteq waiters[env.to] /\ UNCHANGED nextId
  BY DEF Envelope, Candidates, RouteStep
<1> DEFINE seen == State!Candidates(RegisteredWaiters[env.to], env)
           seenLive == {v \in seen : v.id \in LiveIds}
<1>3. seen = {Seen(x) : x \in candidates} /\ seenLive = {Seen(x) : x \in live}
  <2>1. seen = {Seen(x) : x \in candidates}
    BY <1>2, SeenCandidates, SameSemantics
  <2>2. \A x \in candidates : Seen(x).id \in LiveIds <=> pc[x.conn] # "dead"
    BY <1>2, SeenCandidates
  <2> HIDE DEF Seen, candidates, seen
  <2> QED BY <2>1, <2>2
<1>4. Seen(w) \in seenLive /\ State!IsBest(Seen(w), seenLive)
  <2>1. Seen(w) \in seenLive
    BY <1>3
  <2>2. ASSUME NEW v \in seenLive \ {Seen(w)} PROVE Outranks(Seen(w), v)
    <3>1. PICK x \in live : v = Seen(x)
      BY <1>3
    <3>2. x # w
      BY <2>2, <3>1
    <3>3. Outranks(w, x)
      BY <1>1, <3>2 DEF IsBest
    <3> QED BY <3>1, <3>3, SeenRanks
  <2>3. IsBest(Seen(w), seenLive)
    BY <2>1, <2>2 DEF IsBest
  <2> QED BY <2>1, <2>3, SameSemantics
<1>5. RegisteredWaiters' =
        [RegisteredWaiters EXCEPT ![env.to] =
           @ \ ({Seen(w)} \cup {d \in seen : State!Outranks(d, Seen(w))})]
  <2> DEFINE gone == {w} \cup {d \in candidates : Outranks(d, w)}
  <2>1. RegisteredWaiters' =
          [RegisteredWaiters EXCEPT ![env.to] = @ \ {Seen(x) : x \in gone}]
    <3>1. gone \in SUBSET waiters[env.to] /\ waiters' = [waiters EXCEPT ![env.to] = @ \ gone]
      BY <1>1, <1>2
    <3> HIDE DEF gone
    <3> QED BY <1>2, <3>1, SeenWithout
  <2>2. {Seen(x) : x \in gone} = {Seen(w)} \cup {d \in seen : State!Outranks(d, Seen(w))}
    <3>1. \A x \in candidates : State!Outranks(Seen(x), Seen(w)) <=> Outranks(x, w)
      BY SeenRanks, SameSemantics
    <3> HIDE DEF Seen, candidates, seen
    <3> QED BY <1>3, <3>1
  <2> QED BY <2>1, <2>2
<1>6. /\ w.conn \in Conns /\ HoldsReceiver(w.conn) /\ w.conn # c
      /\ ticket[w.conn] = w.id /\ w.id \in 0..(nextId - 1) /\ w.id \in LiveIds
  <2>1. /\ w \in waiters[env.to] /\ w.conn \in Conns /\ HoldsReceiver(w.conn)
        /\ pc[w.conn] \in {"parked", "dead"} /\ ticket[w.conn] = w.id
    BY <1>1, <1>2, RegisteredWaiter, SeenAlive
  <2>2. w.conn # c
    BY <2>1 DEF RouteStep
  <2> QED BY <2>1, <2>2 DEF Receivers
<1>7. ~HoldsReceiver(c) /\ ~HoldsReceiver(c)' /\ OthersHold(c)
  BY RouterHoldsNothing
<1>8. LiveIds' = LiveIds
  BY <1>2, <1>7, SameLive
<1>9. Channels' = [Channels EXCEPT ![w.id + 1] = env]
  <2>1. PICK id : id = w.id
    OBVIOUS
  <2>2. PICK g : g = [Channels EXCEPT ![id + 1] = env]
    OBVIOUS
  <2>3. /\ Channels \in [1..nextId -> Envelope \cup {None}] /\ nextId \in Nat
        /\ id \in 0..(nextId - 1) /\ LiveIds \subseteq 0..(nextId - 1) /\ nextId' = nextId
    BY <1>2, <1>6, <2>1 DEF Receivers, HubInv, TypeOK
  <2>4. /\ g \in [1..nextId -> Envelope \cup {None}] /\ g[id + 1] = env
        /\ \A x \in 0..(nextId - 1) : x # id => g[x + 1] = Channels[x + 1]
    BY <2>2, <2>3
  <2>5. ASSUME NEW d \in Conns, HoldsReceiver(d)' PROVE g[ticket'[d] + 1] = slot'[d]
    <3>1. d # c /\ HoldsReceiver(d) /\ ticket'[d] = ticket[d]
      BY <1>7, <2>5 DEF OthersHold
    <3>2. CASE d = w.conn
      BY <1>1, <1>6, <2>1, <2>4, <3>1, <3>2 DEF HubInv, TypeOK
    <3>3. CASE d # w.conn
      <4>1. slot'[d] = slot[d]
        BY <1>1, <3>1, <3>3 DEF HubInv, TypeOK
      <4>2. ticket[d] \in 0..(nextId - 1) /\ Channels[ticket[d] + 1] = slot[d]
        BY <2>3, <3>1 DEF Receivers
      <4>3. ticket[d] # id
        BY <1>6, <2>1, <3>1, <3>3 DEF HoldsReceiver, HubInv, RegistryInv, Tickets
      <4> QED BY <2>4, <3>1, <4>1, <4>2, <4>3
    <3> QED BY <3>2, <3>3
  <2>6. \A x \in 0..(nextId' - 1) : x \notin LiveIds' => g[x + 1] = None
    BY <1>6, <1>8, <2>1, <2>3, <2>4 DEF Receivers
  <2>7. Channels' = g
    BY <2>3, <2>4, <2>5, <2>6, ChannelsAre
  <2> QED BY <2>1, <2>2, <2>7
<1>10. Seen(w).id = w.id
  BY DEF Seen
<1> HIDE DEF seen
<1> QED BY <1>1, <1>2, <1>4, <1>5, <1>8, <1>9, <1>10 DEF State!HandOff, seen

LEMMA EnqueueStep ==
  ASSUME HubInv, LedgerInv, Receivers, Receivers', NEW c \in Conns, RouteStep(c),
         reply'[c] # "timeout", \A d \in Conns \ {c} : reply'[d] = reply[d],
         NEW env \in Envelope, NEW newQueue, Enqueue(env, c, newQueue)
  PROVE  State!Enqueue(env, newQueue)
<1> DEFINE candidates == Candidates(waiters[env.to], env)
           seen == State!Candidates(RegisteredWaiters[env.to], env)
<1>1. /\ \A w \in candidates : pc[w.conn] = "dead"
      /\ waiters' = [waiters EXCEPT ![env.to] = @ \ candidates]
      /\ queues' = [queues EXCEPT ![env.to] = newQueue]
      /\ slot' = [slot EXCEPT ![c] = None]
  BY DEF Enqueue
<1>2. env.to \in Names /\ candidates \in SUBSET waiters[env.to] /\ UNCHANGED nextId
  BY DEF Envelope, Candidates, RouteStep
<1>3. seen = {Seen(w) : w \in candidates}
  BY <1>2, SeenCandidates, SameSemantics
<1>4. \A v \in seen : v.id \notin LiveIds
  BY <1>1, <1>2, <1>3, SeenCandidates
<1>5. RegisteredWaiters' = [RegisteredWaiters EXCEPT ![env.to] = @ \ seen]
  <2>1. PICK gone \in SUBSET waiters[env.to] : gone = candidates
    BY <1>2
  <2>2. waiters' = [waiters EXCEPT ![env.to] = @ \ gone] /\ seen = {Seen(w) : w \in gone}
    BY <1>1, <1>3, <2>1
  <2> QED BY <1>2, <2>2, SeenWithout
<1>6. ~HoldsReceiver(c) /\ ~HoldsReceiver(c)' /\ OthersHold(c)
  BY RouterHoldsNothing
<1>7. \A d \in Conns \ {c} : slot'[d] = slot[d]
  BY <1>1 DEF HubInv, TypeOK
<1>8. UNCHANGED <<LiveIds, Channels>>
  BY <1>2, <1>6, <1>7, ReceiversStay
<1> HIDE DEF seen
<1> QED BY <1>1, <1>2, <1>4, <1>5, <1>8 DEF State!Enqueue, seen

\* A route of the hub is a route of the registry.
LEMMA RouteIsRoute ==
  ASSUME HubInv, LedgerInv, Receivers, Receivers', NEW c \in Conns, RouteStep(c),
         reply'[c] # "timeout", \A d \in Conns \ {c} : reply'[d] = reply[d],
         NEW env \in Envelope, RouteToBack(env, c) \/ RouteToFront(env, c)
  PROVE  State!Next
<1>1. \/ HandOff(env, c)
      \/ Enqueue(env, c, Append(queues[env.to], env))
      \/ Enqueue(env, c, <<env>> \o queues[env.to])
  BY DEF RouteToBack, RouteToFront
<1>2. State!Route(env)
  BY <1>1, HandOffStep, EnqueueStep DEF State!Route
<1> QED BY <1>2 DEF State!Next

LEMMA CommitSendIsStateStep ==
  ASSUME HubInv, LedgerInv, Receivers, Receivers', NEW c \in Conns, CommitSend(c)
  PROVE  State!Next \/ UNCHANGED State!vars
<1>1. /\ pc[c] = "commit" /\ RouteStep(c)
      /\ \A d \in Conns \ {c} : reply'[d] = reply[d]
      /\ reply'[c] # "timeout"
  BY DEF CommitSend, Answer, Goto, RouteStep, HubInv, TypeOK
<1>2. slot[c] \in Envelope
  BY <1>1 DEF HubInv, RegistryInv, Holding, TypeOK
<1>3. CASE Commit(slot[c], c)
  BY <1>1, <1>2, <1>3, RouteIsRoute DEF Commit
<1>4. CASE AuditFails(c) \/ Abandon(slot[c], c)
  BY <1>1, <1>4, RefusalStays DEF AuditFails, Abandon
<1> QED BY <1>3, <1>4 DEF CommitSend

LEMMA EmitBounceIsStateStep ==
  ASSUME HubInv, LedgerInv, Receivers, Receivers', NEW c \in Conns, EmitBounce(c)
  PROVE  State!Next \/ UNCHANGED State!vars
<1>1. pc[c] = "bounce" /\ RouteStep(c) /\ UNCHANGED reply
  BY DEF EmitBounce, Goto, RouteStep
<1>2. reply'[c] # "timeout" /\ slot[c] \in Envelope
  BY <1>1, AtStep DEF HubInv, RegistryInv, Holding, TypeOK
<1>3. PICK env \in Envelope : env = Bounce(c)
  BY <1>2, HubAssumption DEF Bounce, Envelope
<1>4. CASE Commit(env, c)
  BY <1>1, <1>2, <1>4, RouteIsRoute DEF Commit
<1>5. CASE AuditFails(c) \/ Abandon(env, c)
  BY <1>1, <1>2, <1>5, RefusalStays DEF AuditFails, Abandon
<1> QED BY <1>3, <1>4, <1>5 DEF EmitBounce

LEMMA WriteFailsCleanIsStateStep ==
  ASSUME HubInv, LedgerInv, Receivers, Receivers', NEW c \in Conns, WriteFailsClean(c)
  PROVE  State!Next
<1>1. pc[c] = "deliver" /\ RouteStep(c) /\ RouteToFront(slot[c], c) /\ UNCHANGED reply
  BY DEF WriteFailsClean, Goto, RouteStep
<1>2. slot[c] \in Envelope /\ reply'[c] # "timeout"
  BY <1>1, AtStep DEF HubInv, RegistryInv, Holding, TypeOK
<1> QED BY <1>1, <1>2, RouteIsRoute

-----------------------------------------------------------------------------
(* Every step. *)

LEMMA StateInit == Init => State!Init
<1> SUFFICES ASSUME Init
             PROVE  State!Init
  OBVIOUS
<1>1. nextId = 0 /\ queues = [n \in Names |-> <<>>] /\ waiters = [n \in Names |-> {}]
  BY DEF Init
<1>2. RegisteredWaiters = [n \in Names |-> {}]
  BY <1>1 DEF RegisteredWaiters
<1>3. LiveIds = {}
  BY DEF Init, LiveIds, HoldsReceiver
<1>4. Channels = <<>>
  BY <1>1 DEF Channels
<1> QED BY <1>1, <1>2, <1>3, <1>4 DEF State!Init

LEMMA StateStep ==
  HubInv /\ HubInv' /\ LedgerInv /\ Ticketed /\ Receivers /\ Receivers' /\ [Next]_vars
    => [State!Next]_(State!vars)
<1> SUFFICES ASSUME HubInv, LedgerInv, Ticketed, Receivers, Receivers', [Next]_vars
             PROVE  State!Next \/ UNCHANGED State!vars
  OBVIOUS
<1>1. CASE UNCHANGED vars
  <2>1. RegisteredWaiters' = RegisteredWaiters
    BY <1>1 DEF vars, RegisteredWaiters
  <2>2. LiveIds' = LiveIds
    BY <1>1 DEF vars, LiveIds, HoldsReceiver
  <2>3. Channels' = Channels
    BY <1>1 DEF vars, Channels, ReceiverOf, HoldsReceiver
  <2> QED BY <1>1, <2>1, <2>2, <2>3 DEF vars, State!vars
<1>2. ASSUME NEW c \in Conns,
             \/ \E r \in Sends : SendVerb(c, r)
             \/ \E r \in Awaits : AwaitInvalid(c, r)
             \/ WriteWhole(c) \/ WriteFailsPartial(c) \/ LogDelivery(c)
      PROVE  UNCHANGED State!vars
  BY <1>2, VerbsStay, WritesStay
<1>3. ASSUME NEW c \in Conns, NEW r \in Awaits, AwaitQueued(c, r) \/ AwaitPark(c, r)
      PROVE  State!Next
  BY <1>3, TakeStep, RegisterStep
<1>4. ASSUME NEW c \in Conns, CommitSend(c) \/ EmitBounce(c) \/ WriteFailsClean(c)
      PROVE  State!Next \/ UNCHANGED State!vars
  BY <1>4, CommitSendIsStateStep, EmitBounceIsStateStep, WriteFailsCleanIsStateStep
<1>5. ASSUME NEW c \in Conns, Timeout(c)
      PROVE  State!Next
  BY <1>5, TimeoutStep
<1>6. ASSUME NEW c \in Conns, Receive(c) \/ TaskDies(c)
      PROVE  State!Next \/ UNCHANGED State!vars
  BY <1>6, DropStep, LateDeathStays
<1> QED BY <1>1, <1>2, <1>3, <1>4, <1>5, <1>6 DEF Next, TaskStep, Write, AwaitVerb

\* What the hub does to queues, waiters and channels is what the state behind
\* the mutex offers: every step is one of its operations or leaves it alone.
THEOREM HubIsRegistry == Spec => UsesRegistry
<1>1. HubInv => Receivers
  BY ReceiversOf
<1> QED BY <1>1, StateInit, StateStep, HubSafety, LedgerSafety, TicketedSafety, PTL
        DEF Spec, UsesRegistry, State!Spec
=============================================================================
