----------------------------- MODULE CommitProofs -----------------------------
(***************************************************************************)
(* Proofs about CommitLocks, for any number of calls and threads: the locks *)
(* exclude, the audit log has the order of routing, and a commit is one    *)
(* step to everyone else.                                                  *)
(***************************************************************************)
EXTENDS CommitLocks, SequenceTheorems, TLAPS

\* What a commit wrote stays the last line until it lets go of the log.
LastIsMine ==
  \A j \in Commits : pc[j] \in {"wantState", "critical"} =>
    Len(log) > 0 /\ log[Len(log)] = j

\* What is routed is in the log, by a closure that is over.
RoutedIsLogged ==
  \A i \in DOMAIN routed : /\ pc[routed[i]] = "ended"
                           /\ \E k \in DOMAIN log : log[k] = routed[i]

AnsweredAtTheEnd == \A j \in Closures : answer[j] = "none" <=> pc[j] # "ended"

\* Only commits lock the state from a closure.
AppendsStayOut == \A j \in Appends : pc[j] \notin {"wantState", "critical"}

LocksInv == /\ TypeOK /\ LastIsMine /\ RoutedIsLogged /\ AnsweredAtTheEnd
            /\ AppendsStayOut /\ AuditOrderIsRoutingOrder

-----------------------------------------------------------------------------
\* A fresh hub satisfies the invariant.
LEMMA InitLocks == Init => LocksInv
  BY LocksAssumption DEF Init, LocksInv, TypeOK, LastIsMine, RoutedIsLogged, AnsweredAtTheEnd,
     AppendsStayOut, AuditOrderIsRoutingOrder, HoldsAudit, HoldsState, Jobs, Closures

\* Who holds the audit lock is the only one who does, and the same for the state.
LEMMA Exclusion ==
  ASSUME TypeOK
  PROVE  /\ \A i, j \in Jobs : HoldsAudit(i) /\ HoldsAudit(j) => i = j
         /\ \A i, j \in Jobs : HoldsState(i) /\ HoldsState(j) => i = j
  BY DEF TypeOK

\* Appending to the log keeps what is in it where it is.
LEMMA AppendKeeps ==
  ASSUME NEW S, NEW s \in Seq(S), NEW x \in S
  PROVE  /\ Append(s, x) \in Seq(S)
         /\ Len(Append(s, x)) = Len(s) + 1
         /\ DOMAIN Append(s, x) = 1..(Len(s) + 1)
         /\ DOMAIN s = 1..Len(s)
         /\ \A k \in DOMAIN s : k \in DOMAIN Append(s, x) /\ Append(s, x)[k] = s[k]
         /\ Append(s, x)[Len(s) + 1] = x
  OBVIOUS

-----------------------------------------------------------------------------
(* One lemma per kind of step. *)

Bookkeeping == <<auditLock, stateLock, log, routed, answer>>

\* Steps that only move a job on its way to its first lock.
LEMMA QueueStep ==
  ASSUME LocksInv, NEW j \in Jobs, UNCHANGED Bookkeeping,
         \/ j \in Closures /\ Goto(j, "idle", "queued")
         \/ j \in Closures /\ Goto(j, "queued", "wantAudit")
         \/ j \in Sections /\ Goto(j, "idle", "wantState")
  PROVE  LocksInv'
  <1> USE LocksAssumption DEF Goto, Bookkeeping, Jobs, Closures
  <1>1. TypeOK'
    BY DEF LocksInv, TypeOK, HoldsAudit, HoldsState
  <1>2. LastIsMine' /\ AppendsStayOut' /\ AnsweredAtTheEnd'
    BY DEF LocksInv, TypeOK, LastIsMine, AppendsStayOut, AnsweredAtTheEnd
  <1>3. RoutedIsLogged'
    BY DEF LocksInv, TypeOK, RoutedIsLogged
  <1>4. AuditOrderIsRoutingOrder'
    BY DEF LocksInv, AuditOrderIsRoutingOrder
  <1> QED BY <1>1, <1>2, <1>3, <1>4 DEF LocksInv

LEMMA LockAuditStep ==
  ASSUME LocksInv, NEW j \in Closures, LockAudit(j)
  PROVE  LocksInv'
  <1> USE LocksAssumption DEF LockAudit, Goto, Jobs, Closures
  <1>1. TypeOK'
    BY DEF LocksInv, TypeOK, HoldsAudit, HoldsState
  <1>2. LastIsMine' /\ AppendsStayOut' /\ AnsweredAtTheEnd'
    BY DEF LocksInv, TypeOK, LastIsMine, AppendsStayOut, AnsweredAtTheEnd
  <1>3. RoutedIsLogged'
    BY DEF LocksInv, TypeOK, RoutedIsLogged
  <1>4. AuditOrderIsRoutingOrder'
    BY DEF LocksInv, AuditOrderIsRoutingOrder
  <1> QED BY <1>1, <1>2, <1>3, <1>4 DEF LocksInv

LEMMA WriteEventStep ==
  ASSUME LocksInv, NEW j \in Closures, WriteEvent(j)
  PROVE  LocksInv'
  <1> USE LocksAssumption DEF WriteEvent, Goto, Release, Jobs, Closures
  <1>0. log \in Seq(Closures) /\ pc[j] = "append"
    BY DEF LocksInv, TypeOK
  <1>1. TypeOK'
    BY DEF LocksInv, TypeOK, HoldsAudit, HoldsState
  <1>2. LastIsMine'
    <2>1. \A c \in Commits : pc[c] \notin {"wantState", "critical"}
      BY <1>0, Exclusion DEF LocksInv, HoldsAudit
    <2> QED BY <1>0, <2>1, AppendKeeps DEF LocksInv, TypeOK, LastIsMine
  <1>3. RoutedIsLogged'
    BY <1>0, AppendKeeps DEF LocksInv, TypeOK, RoutedIsLogged
  <1>4. AuditOrderIsRoutingOrder'
    BY <1>0, AppendKeeps DEF LocksInv, AuditOrderIsRoutingOrder
  <1>5. AnsweredAtTheEnd' /\ AppendsStayOut'
    BY DEF LocksInv, TypeOK, AnsweredAtTheEnd, AppendsStayOut
  <1> QED BY <1>1, <1>2, <1>3, <1>4, <1>5 DEF LocksInv

\* A failed append and a panic end a closure that holds the audit lock.
LEMMA AbandonStep ==
  ASSUME LocksInv, NEW j \in Closures, WriteFails(j) \/ Panic(j)
  PROVE  LocksInv'
  <1> USE LocksAssumption DEF WriteFails, Panic, Goto, Release, Jobs, Closures
  <1>1. TypeOK'
    BY DEF LocksInv, TypeOK, HoldsAudit, HoldsState
  <1>2. LastIsMine' /\ AppendsStayOut' /\ AnsweredAtTheEnd'
    BY DEF LocksInv, TypeOK, LastIsMine, AppendsStayOut, AnsweredAtTheEnd
  <1>3. RoutedIsLogged'
    BY DEF LocksInv, TypeOK, RoutedIsLogged
  <1>4. AuditOrderIsRoutingOrder'
    BY DEF LocksInv, AuditOrderIsRoutingOrder
  <1> QED BY <1>1, <1>2, <1>3, <1>4 DEF LocksInv

LEMMA LockStateStep ==
  ASSUME LocksInv, NEW j \in Commits \cup Sections, LockState(j)
  PROVE  LocksInv'
  <1> USE LocksAssumption DEF LockState, Goto, Jobs, Closures
  <1>1. TypeOK'
    BY DEF LocksInv, TypeOK, HoldsAudit, HoldsState
  <1>2. LastIsMine' /\ AppendsStayOut' /\ AnsweredAtTheEnd'
    BY DEF LocksInv, TypeOK, LastIsMine, AppendsStayOut, AnsweredAtTheEnd
  <1>3. RoutedIsLogged'
    BY DEF LocksInv, TypeOK, RoutedIsLogged
  <1>4. AuditOrderIsRoutingOrder'
    BY DEF LocksInv, AuditOrderIsRoutingOrder
  <1> QED BY <1>1, <1>2, <1>3, <1>4 DEF LocksInv

\* The step that routes: its envelope is the last of the log, and nothing
\* routed before is.
LEMMA RouteStep ==
  ASSUME LocksInv, NEW j \in Commits, Route(j)
  PROVE  LocksInv'
  <1> USE LocksAssumption DEF Route, Goto, Release, Jobs, Closures
  <1>0. routed \in Seq(Commits) /\ pc[j] = "critical"
    BY DEF LocksInv, TypeOK
  <1>1. TypeOK'
    BY DEF LocksInv, TypeOK, HoldsAudit, HoldsState
  <1>2. LastIsMine' /\ AppendsStayOut' /\ AnsweredAtTheEnd'
    BY DEF LocksInv, TypeOK, LastIsMine, AppendsStayOut, AnsweredAtTheEnd
  <1>3. Len(log) \in DOMAIN log /\ log[Len(log)] = j
    BY <1>0 DEF LocksInv, TypeOK, LastIsMine
  <1>4. RoutedIsLogged'
    BY <1>0, <1>3, AppendKeeps DEF LocksInv, TypeOK, RoutedIsLogged
  <1>5. AuditOrderIsRoutingOrder'
    <2> SUFFICES ASSUME NEW i \in DOMAIN routed', NEW n \in DOMAIN routed', i < n
                 PROVE  \E k, l \in DOMAIN log : k < l /\ log[k] = routed'[i]
                                                 /\ log[l] = routed'[n]
      BY DEF AuditOrderIsRoutingOrder
    <2>1. CASE n \in DOMAIN routed
      BY <1>0, <2>1, AppendKeeps DEF LocksInv, AuditOrderIsRoutingOrder
    <2>2. CASE n = Len(routed) + 1
      <3>1. i \in DOMAIN routed /\ routed'[i] = routed[i] /\ routed'[n] = j
        BY <1>0, <2>2, AppendKeeps
      <3>2. PICK k \in DOMAIN log : log[k] = routed[i]
        BY <3>1 DEF LocksInv, RoutedIsLogged
      <3>3. routed[i] # j
        BY <1>0, <3>1 DEF LocksInv, RoutedIsLogged
      <3>4. k < Len(log)
        BY <1>3, <3>2, <3>3 DEF LocksInv, TypeOK
      <3> QED BY <1>3, <3>1, <3>2, <3>4
    <2> QED BY <1>0, <2>1, <2>2, AppendKeeps
  <1> QED BY <1>1, <1>2, <1>4, <1>5 DEF LocksInv

LEMMA LeaveSectionStep ==
  ASSUME LocksInv, NEW s \in Sections, LeaveSection(s)
  PROVE  LocksInv'
  <1> USE LocksAssumption DEF LeaveSection, Goto, Release, Jobs, Closures
  <1>1. TypeOK'
    BY DEF LocksInv, TypeOK, HoldsAudit, HoldsState
  <1>2. LastIsMine' /\ AppendsStayOut' /\ AnsweredAtTheEnd'
    BY DEF LocksInv, TypeOK, LastIsMine, AppendsStayOut, AnsweredAtTheEnd
  <1>3. RoutedIsLogged'
    BY DEF LocksInv, TypeOK, RoutedIsLogged
  <1>4. AuditOrderIsRoutingOrder'
    BY DEF LocksInv, AuditOrderIsRoutingOrder
  <1> QED BY <1>1, <1>2, <1>3, <1>4 DEF LocksInv

-----------------------------------------------------------------------------
\* Every step keeps the invariant.
LEMMA LocksInductive == LocksInv /\ [Next]_vars => LocksInv'
  <1> SUFFICES ASSUME LocksInv, [Next]_vars PROVE LocksInv'
    OBVIOUS
  <1>1. CASE UNCHANGED vars
    BY <1>1 DEF vars, LocksInv, TypeOK, LastIsMine, RoutedIsLogged, AnsweredAtTheEnd,
       AppendsStayOut, AuditOrderIsRoutingOrder, HoldsAudit, HoldsState
  <1>2. ASSUME NEW j \in Closures, Spawn(j) \/ StartClosure(j) PROVE LocksInv'
    BY <1>2, QueueStep DEF Spawn, StartClosure, Bookkeeping, Jobs
  <1>3. ASSUME NEW j \in Closures, LockAudit(j) PROVE LocksInv'
    BY <1>3, LockAuditStep
  <1>4. ASSUME NEW j \in Closures, WriteEvent(j) PROVE LocksInv'
    BY <1>4, WriteEventStep
  <1>5. ASSUME NEW j \in Closures, WriteFails(j) \/ Panic(j) PROVE LocksInv'
    BY <1>5, AbandonStep
  <1>6. ASSUME NEW j \in Commits \cup Sections, LockState(j) PROVE LocksInv'
    BY <1>6, LockStateStep
  <1>7. ASSUME NEW j \in Commits, Route(j) PROVE LocksInv'
    BY <1>7, RouteStep
  <1>8. ASSUME NEW s \in Sections, EnterSection(s) PROVE LocksInv'
    BY <1>8, QueueStep DEF EnterSection, Bookkeeping, Jobs
  <1>9. ASSUME NEW s \in Sections, LeaveSection(s) PROVE LocksInv'
    BY <1>9, LeaveSectionStep
  <1> QED BY <1>1, <1>2, <1>3, <1>4, <1>5, <1>6, <1>7, <1>8, <1>9
          DEF Next, ClosureStep, SectionStep

\* The invariant holds in every state the locks can reach.
THEOREM LocksSafe == Spec => []LocksInv
  BY InitLocks, LocksInductive, PTL DEF Spec

\* Each mutex has the one holder that its critical section says, whatever
\* fails or panics (Shared).
THEOREM LocksTypeCorrect == Spec => []TypeOK
  BY LocksSafe, PTL DEF LocksInv

\* The audit file's append order and the routing order agree (commit_send).
THEOREM OrdersAgree == Spec => []AuditOrderIsRoutingOrder
  BY LocksSafe, PTL DEF LocksInv

-----------------------------------------------------------------------------
(* A commit is one step to everyone else. *)

\* A commit is under way when the holder of the audit lock is past its append.
LEMMA UnderwayIsHolder ==
  TypeOK => (Underway <=> auditLock \in Commits /\ pc[auditLock] # "append")
  BY LocksAssumption DEF TypeOK, Underway, Jobs, Closures

\* Sequences with the same last element appended are the same.
LEMMA SameFront ==
  ASSUME NEW S, NEW s \in Seq(S), NEW t \in Seq(S), NEW x \in S,
         Append(s, x) = Append(t, x)
  PROVE  s = t
  <1>1. Len(s) = Len(t)
    BY AppendKeeps
  <1>2. \A k \in 1..Len(s) : s[k] = t[k]
    BY <1>1, AppendKeeps
  <1> QED BY <1>1, <1>2, SeqEqual

\* While a commit is under way the log is the settled log and its event.
LEMMA SettledPart ==
  LocksInv => /\ SettledLog \in Seq(Closures)
              /\ ~Underway => SettledLog = log
              /\ Underway => log = Append(SettledLog, auditLock)
  <1> SUFFICES ASSUME LocksInv
               PROVE  /\ SettledLog \in Seq(Closures)
                      /\ ~Underway => SettledLog = log
                      /\ Underway => log = Append(SettledLog, auditLock)
    OBVIOUS
  <1>1. log \in Seq(Closures)
    BY DEF LocksInv, TypeOK
  <1>2. CASE ~Underway
    BY <1>1, <1>2 DEF SettledLog
  <1>3. CASE Underway
    <2>1. PICK j \in Commits : HoldsAudit(j) /\ pc[j] # "append"
      BY <1>3 DEF Underway
    <2>2. auditLock = j /\ Len(log) > 0 /\ log[Len(log)] = j
      BY <2>1 DEF LocksInv, TypeOK, LastIsMine, HoldsAudit, Jobs, Closures
    <2>3. /\ SubSeq(log, 1, Len(log) - 1) \in Seq(Closures)
          /\ log = Append(SubSeq(log, 1, Len(log) - 1), log[Len(log)])
      BY <1>1, <2>2
    <2> QED BY <1>3, <2>2, <2>3 DEF SettledLog
  <1> QED BY <1>2, <1>3

\* A fresh hub is a fresh abstract one.
LEMMA AtomicInit == Init => Atomic!Init
  BY DEF Init, Atomic!Init, SettledLog, Underway, HoldsAudit, Closures, Jobs

\* A step that leaves the log, the answers and who is under way alone is no
\* step of the abstract system.
LEMMA AtomicStutter ==
  ASSUME UNCHANGED <<log, routed, answer>>, Underway' <=> Underway
  PROVE  UNCHANGED Atomic!vars
  BY DEF Atomic!vars, SettledLog

\* Every step is one of the abstract system or none.
LEMMA AtomicStep == LocksInv /\ LocksInv' /\ [Next]_vars => [Atomic!Next]_(Atomic!vars)
  <1> SUFFICES ASSUME LocksInv, LocksInv', [Next]_vars
               PROVE  Atomic!Next \/ UNCHANGED Atomic!vars
    OBVIOUS
  <1> USE LocksAssumption DEF Goto, Jobs, Closures
  <1>0. TypeOK /\ TypeOK'
    BY DEF LocksInv
  <1>h. /\ Underway <=> auditLock \in Commits /\ pc[auditLock] # "append"
        /\ Underway' <=> auditLock' \in Commits /\ pc'[auditLock'] # "append"
    <2>1. (TypeOK => (Underway <=> auditLock \in Commits /\ pc[auditLock] # "append"))'
      BY UnderwayIsHolder, PTL
    <2> QED BY <1>0, <2>1, UnderwayIsHolder
  <1>s. /\ SettledLog \in Seq(Closures)
        /\ ~Underway => SettledLog = log
        /\ Underway => log = Append(SettledLog, auditLock)
    BY SettledPart
  <1>t. /\ SettledLog' \in Seq(Closures)
        /\ ~Underway' => SettledLog' = log'
        /\ Underway' => log' = Append(SettledLog', auditLock')
    <2>1. (LocksInv => /\ SettledLog \in Seq(Closures)
                       /\ ~Underway => SettledLog = log
                       /\ Underway => log = Append(SettledLog, auditLock))'
      BY SettledPart, PTL
    <2> QED BY <2>1
  <1>1. CASE UNCHANGED vars
    BY <1>1, AtomicStutter DEF vars, Underway, HoldsAudit
  <1>2. ASSUME NEW j \in Jobs, UNCHANGED <<auditLock, log, routed, answer>>,
               auditLock = j => pc[j] # "append" /\ pc'[j] # "append",
               \A i \in Jobs : i # j => pc'[i] = pc[i]
        PROVE  UNCHANGED Atomic!vars
    BY <1>0, <1>2, <1>h, AtomicStutter DEF TypeOK
  <1>3. ASSUME NEW j \in Closures, Spawn(j) \/ StartClosure(j) PROVE UNCHANGED Atomic!vars
    BY <1>0, <1>2, <1>3 DEF TypeOK, Spawn, StartClosure, HoldsAudit
  <1>4. ASSUME NEW j \in Closures, LockAudit(j) PROVE UNCHANGED Atomic!vars
    BY <1>0, <1>4, <1>h, AtomicStutter DEF TypeOK, LockAudit
  <1>5. ASSUME NEW j \in Commits \cup Sections, LockState(j) PROVE UNCHANGED Atomic!vars
    BY <1>0, <1>2, <1>5 DEF TypeOK, LockState
  <1>6. ASSUME NEW s \in Sections, EnterSection(s) \/ LeaveSection(s)
        PROVE  UNCHANGED Atomic!vars
    BY <1>0, <1>2, <1>6 DEF TypeOK, EnterSection, LeaveSection, Release
  <1>7. ASSUME NEW j \in Closures, WriteEvent(j) PROVE Atomic!Next \/ UNCHANGED Atomic!vars
    <2>1. auditLock = j /\ ~Underway
      BY <1>0, <1>7, <1>h DEF TypeOK, WriteEvent, HoldsAudit
    <2>2. CASE j \in Commits
      <3>1. Underway' /\ auditLock' = j /\ UNCHANGED <<routed, answer>>
        BY <1>0, <1>7, <1>h, <2>1, <2>2 DEF TypeOK, WriteEvent
      <3>2. Append(SettledLog', j) = Append(log, j)
        BY <1>7, <1>t, <3>1 DEF WriteEvent
      <3>3. SettledLog' = log
        BY <1>0, <1>t, <2>2, <3>2, SameFront DEF TypeOK
      <3> QED BY <1>s, <2>1, <3>1, <3>3 DEF Atomic!vars
    <2>3. CASE j \in Appends
      <3>1. ~Underway' /\ log' = Append(log, j) /\ UNCHANGED routed
        BY <1>0, <1>7, <1>h, <2>1, <2>3 DEF TypeOK, WriteEvent, Release
      <3>2. answer[j] = "none" /\ answer' = [answer EXCEPT ![j] = "done"]
        BY <1>7, <2>3 DEF LocksInv, AnsweredAtTheEnd, WriteEvent
      <3>3. Atomic!Record(j)
        BY <1>s, <1>t, <2>1, <3>1, <3>2 DEF Atomic!Record, Atomic!Tell
      <3> QED BY <2>3, <3>3 DEF Atomic!Next
    <2> QED BY <2>2, <2>3
  <1>8. ASSUME NEW j \in Closures, WriteFails(j) PROVE Atomic!Next
    <2>1. auditLock = j /\ ~Underway /\ ~Underway' /\ UNCHANGED <<log, routed>>
      BY <1>0, <1>8, <1>h DEF TypeOK, WriteFails, HoldsAudit, Release
    <2>2. answer[j] = "none" /\ answer' = [answer EXCEPT ![j] = "failed"]
      BY <1>8 DEF LocksInv, AnsweredAtTheEnd, WriteFails
    <2>3. Atomic!Refuse(j)
      BY <1>s, <1>t, <2>1, <2>2 DEF Atomic!Refuse, Atomic!Tell
    <2> QED BY <2>3 DEF Atomic!Next
  <1>9. ASSUME NEW j \in Commits, Route(j) PROVE Atomic!Next
    <2>1. auditLock = j /\ Underway /\ ~Underway' /\ UNCHANGED log
      BY <1>0, <1>9, <1>h DEF TypeOK, Route, HoldsAudit, Release
    <2>2. answer[j] = "none" /\ answer' = [answer EXCEPT ![j] = "done"]
      BY <1>9 DEF LocksInv, AnsweredAtTheEnd, Route
    <2>3. Atomic!Commit(j)
      BY <1>9, <1>s, <1>t, <2>1, <2>2 DEF Atomic!Commit, Atomic!Tell, Route
    <2> QED BY <2>3 DEF Atomic!Next
  <1>10. ASSUME NEW j \in Closures, Panic(j) PROVE Atomic!Next
    <2>1. auditLock = j /\ ~Underway' /\ UNCHANGED <<log, routed>>
      BY <1>0, <1>10, <1>h DEF TypeOK, Panic, Release
    <2>2. answer[j] = "none" /\ answer' = [answer EXCEPT ![j] = "unknown"]
      BY <1>10 DEF LocksInv, AnsweredAtTheEnd, Panic, HoldsAudit
    <2>3. SettledLog' \in {SettledLog, Append(SettledLog, j)}
      BY <1>s, <1>t, <2>1
    <2>4. Atomic!Abandon(j)
      BY <2>1, <2>2, <2>3 DEF Atomic!Abandon, Atomic!Tell
    <2> QED BY <2>4 DEF Atomic!Next
  <1> QED BY <1>1, <1>3, <1>4, <1>5, <1>6, <1>7, <1>8, <1>9, <1>10
          DEF Next, ClosureStep, SectionStep

\* Append, lock, route and unlock are one atomic commit to everyone else, with
\* the answer its caller gets: what the module Hub takes for granted.
THEOREM CommitsAreAtomic == Spec => ImplementsAtomicCommit
  BY AtomicInit, AtomicStep, LocksSafe, PTL DEF Spec, ImplementsAtomicCommit, Atomic!Spec
=============================================================================
