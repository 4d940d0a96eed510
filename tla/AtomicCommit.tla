----------------------------- MODULE AtomicCommit -----------------------------
(***************************************************************************)
(* What commit_send and audit_append promise about the order of the audit  *)
(* log and of routing, as if each were one step.                           *)
(***************************************************************************)
EXTENDS Sequences

CONSTANTS
  Commits,  \* calls of commit_send
  Appends   \* calls of audit_append

VARIABLES
  log,     \* the calls whose event is in the audit log, in order
  routed,  \* the commits whose envelope was routed, in order
  answer   \* what the caller was told

vars == <<log, routed, answer>>

Init == /\ log = <<>>
        /\ routed = <<>>
        /\ answer = [j \in Commits \cup Appends |-> "none"]

Tell(j, what) == /\ answer[j] = "none"
                 /\ answer' = [answer EXCEPT ![j] = what]

\* The event and its routing become visible together.
Commit(j) == /\ Tell(j, "done")
             /\ log' = Append(log, j)
             /\ routed' = Append(routed, j)

Record(j) == /\ Tell(j, "done")
             /\ log' = Append(log, j)
             /\ UNCHANGED routed

\* A failed append leaves nothing behind.
Refuse(j) == /\ Tell(j, "failed")
             /\ UNCHANGED <<log, routed>>

\* A panic: the event may be in the log, but nothing was routed.
Abandon(j) == /\ Tell(j, "unknown")
              /\ log' \in {log, Append(log, j)}
              /\ UNCHANGED routed

Next == \/ \E j \in Commits : Commit(j)
        \/ \E j \in Appends : Record(j)
        \/ \E j \in Commits \cup Appends : Refuse(j) \/ Abandon(j)

Spec == Init /\ [][Next]_vars
=============================================================================
