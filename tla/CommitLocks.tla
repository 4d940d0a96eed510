----------------------------- MODULE CommitLocks -----------------------------
(***************************************************************************)
(* The two mutexes of agent-hub-server and the threads that take them:     *)
(* commit_send and audit_append, whose closures run on tokio's blocking    *)
(* pool, and the critical sections of handle_await, wait_for_handoff and   *)
(* deliver_envelope, which lock the state on a worker thread.  A closure   *)
(* may panic, which releases and poisons what it holds; every later lock   *)
(* takes a poisoned mutex over.                                            *)
(***************************************************************************)
EXTENDS Naturals, Sequences, FiniteSets

CONSTANTS
  Commits,       \* calls of commit_send
  Appends,       \* calls of audit_append
  Sections,      \* critical sections on the state, on worker threads
  None,          \* no holder
  PoolSize,      \* blocking threads of the runtime
  Workers,       \* worker threads of the runtime
  AppendMayFail,
  MayPanic

Closures == Commits \cup Appends
Jobs == Closures \cup Sections

ASSUME LocksAssumption ==
  /\ Commits \cap Appends = {} /\ Closures \cap Sections = {}
  /\ None \notin Jobs
  /\ PoolSize \in Nat \ {0} /\ Workers \in Nat \ {0}
  /\ AppendMayFail \in BOOLEAN /\ MayPanic \in BOOLEAN

VARIABLES
  pc,         \* where each job stands
  auditLock,  \* the holder of Shared.audit
  stateLock,  \* the holder of Shared.state
  log,        \* the calls whose event is in the audit log, in order
  routed,     \* the commits whose envelope was routed, in order
  answer      \* what the caller of a closure was told

vars == <<pc, auditLock, stateLock, log, routed, answer>>

HoldsAudit(j) == \/ pc[j] = "append"
                 \/ j \in Commits /\ pc[j] \in {"wantState", "critical"}
HoldsState(j) == pc[j] = "critical"

\* With types, the locks and the program counters agree.
TypeOK ==
  /\ pc \in [Jobs -> {"idle", "queued", "wantAudit", "append", "wantState",
                      "critical", "ended"}]
  /\ auditLock \in Closures \cup {None} /\ stateLock \in Jobs \cup {None}
  /\ \A j \in Jobs : /\ auditLock = j <=> HoldsAudit(j)
                     /\ stateLock = j <=> HoldsState(j)
  /\ log \in Seq(Closures) /\ routed \in Seq(Commits)
  /\ answer \in [Closures -> {"none", "done", "failed", "unknown"}]

Init == /\ pc = [j \in Jobs |-> "idle"]
        /\ auditLock = None /\ stateLock = None
        /\ log = <<>> /\ routed = <<>>
        /\ answer = [j \in Closures |-> "none"]

Goto(j, from, to) == /\ pc[j] = from
                     /\ pc' = [pc EXCEPT ![j] = to]

\* The guards of j go out of scope.
Release(j) == /\ auditLock' = IF auditLock = j THEN None ELSE auditLock
              /\ stateLock' = IF stateLock = j THEN None ELSE stateLock

\* spawn_blocking queues the closure; a free thread of the pool takes it.
Running == {j \in Closures : pc[j] \notin {"idle", "queued", "ended"}}

Spawn(j) == /\ Goto(j, "idle", "queued")
            /\ UNCHANGED <<auditLock, stateLock, log, routed, answer>>

StartClosure(j) == /\ Cardinality(Running) < PoolSize
                   /\ Goto(j, "queued", "wantAudit")
                   /\ UNCHANGED <<auditLock, stateLock, log, routed, answer>>

\* A worker runs into a critical section and blocks its thread there.
Blocked == {s \in Sections : pc[s] \in {"wantState", "critical"}}

EnterSection(s) == /\ Cardinality(Blocked) < Workers
                   /\ Goto(s, "idle", "wantState")
                   /\ UNCHANGED <<auditLock, stateLock, log, routed, answer>>

LockAudit(j) == /\ auditLock = None
                /\ Goto(j, "wantAudit", "append")
                /\ auditLock' = j
                /\ UNCHANGED <<stateLock, log, routed, answer>>

\* AuditLog::write.  A commit goes on to the state with the audit lock held;
\* audit_append is done.
WriteThenUnlock(j) ==                                                    \* mutant
  /\ log' = Append(log, j)
  /\ Release(j)
  /\ \/ j \in Commits /\ Goto(j, "append", "wantState") /\ UNCHANGED answer
     \/ /\ j \in Appends
        /\ Goto(j, "append", "ended")
        /\ answer' = [answer EXCEPT ![j] = "done"]
  /\ UNCHANGED routed
WriteEvent(j) ==
  /\ log' = Append(log, j)
  /\ \/ /\ j \in Commits
        /\ Goto(j, "append", "wantState")
        /\ UNCHANGED <<auditLock, stateLock, answer>>
     \/ /\ j \in Appends
        /\ Goto(j, "append", "ended")
        /\ Release(j)
        /\ answer' = [answer EXCEPT ![j] = "done"]
  /\ UNCHANGED routed

\* A commit reports a failed append and routes nothing; audit_append logs it.
FailsButRoutes(j) ==                                                     \* mutant
  /\ AppendMayFail
  /\ j \in Commits
  /\ Goto(j, "append", "wantState")
  /\ UNCHANGED <<auditLock, stateLock, log, routed, answer>>
WriteFails(j) ==
  /\ AppendMayFail
  /\ Goto(j, "append", "ended")
  /\ Release(j)
  /\ answer' = [answer EXCEPT ![j] = "failed"]
  /\ UNCHANGED <<log, routed>>

\* lock_state, by a commit or by a section.
LockState(j) == /\ stateLock = None
                /\ Goto(j, "wantState", "critical")
                /\ stateLock' = j
                /\ UNCHANGED <<auditLock, log, routed, answer>>

\* route_envelope, and the end of the closure with both guards.
Route(j) == /\ Goto(j, "critical", "ended")
            /\ routed' = Append(routed, j)
            /\ answer' = [answer EXCEPT ![j] = "done"]
            /\ Release(j)
            /\ UNCHANGED log

\* A section ends, or panics, without touching the audit log.
SectionThatAudits(s) ==                                                  \* mutant
  /\ auditLock = None
  /\ Goto(s, "critical", "ended")
  /\ Release(s)
  /\ UNCHANGED <<log, routed, answer>>
LeaveSection(s) == /\ Goto(s, "critical", "ended")
                   /\ Release(s)
                   /\ UNCHANGED <<log, routed, answer>>

\* A closure unwinds before it has changed the state: its guards poison the
\* mutexes and the caller sees a JoinError.
Panic(j) == /\ MayPanic
            /\ HoldsAudit(j)
            /\ pc' = [pc EXCEPT ![j] = "ended"]
            /\ Release(j)
            /\ answer' = [answer EXCEPT ![j] = "unknown"]
            /\ UNCHANGED <<log, routed>>

ClosureStep(j) == \/ StartClosure(j) \/ LockAudit(j) \/ WriteEvent(j) \/ WriteFails(j)
                  \/ j \in Commits /\ (LockState(j) \/ Route(j))
SectionStep(s) == EnterSection(s) \/ LockState(s) \/ LeaveSection(s)

Next == \/ \E j \in Closures : Spawn(j) \/ ClosureStep(j) \/ Panic(j)
        \/ \E s \in Sections : SectionStep(s)

Spec == Init /\ [][Next]_vars

\* Threads run; nobody is owed a panic, or a turn at a contended mutex beyond
\* what a free mutex gives.
FairSpec == /\ Spec
            /\ \A j \in Closures : WF_vars(ClosureStep(j))
            /\ \A s \in Sections : WF_vars(SectionStep(s))

-----------------------------------------------------------------------------
\* "Holding the audit lock across the routing step makes the audit file's
\* append order and routing order provably agree": what is routed is in the
\* log, in the same order (commit_send).
AuditOrderIsRoutingOrder ==
  \A i, j \in DOMAIN routed : i < j =>
    \E k, l \in DOMAIN log : k < l /\ log[k] = routed[i] /\ log[l] = routed[j]

\* The event a commit has written counts once its closure is over: until then
\* the audit lock keeps everyone else from following it in the log.
Underway == \E j \in Commits : HoldsAudit(j) /\ pc[j] # "append"
SettledLog == IF Underway THEN SubSeq(log, 1, Len(log) - 1) ELSE log

\* Append, lock, route and unlock of commit_send, with failures and panics in
\* between, are one step to everyone else: what Hub's Commit assumes.
Atomic == INSTANCE AtomicCommit WITH log <- SettledLog
ImplementsAtomicCommit == Atomic!Spec

\* Nobody waits for ever, on a mutex or for a thread: "audit before state,
\* and only commit_send holds both" (Shared), also after panics.
JobsEnd == \A j \in Jobs : pc[j] # "idle" ~> pc[j] = "ended"
=============================================================================
