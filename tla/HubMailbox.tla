------------------------------ MODULE HubMailbox ------------------------------
(***************************************************************************)
(* Hub implements Mailbox.  The abstract state is read off the audit log   *)
(* (what was accepted, for whom), the sockets (what was consumed: from the *)
(* first byte on) and the tasks and commits that died (what was dropped).  *)
(***************************************************************************)
EXTENDS HubProperties

Consumed(x) == \E c \in Conns : wire[c] # None /\ wire[c].id = x

MailEnvelope ==
  LET accepted == Accepted
  IN [x \in Conns |->
       IF x \notin {e.id : e \in accepted} THEN None
       ELSE [to |-> (CHOOSE e \in accepted : e.id = x).to,
             state |-> IF Consumed(x) THEN "consumed"
                       ELSE IF x \in dropped THEN "dropped" ELSE "pending"]]

MailOutcome ==
  [c \in Conns |->
    IF wire[c] # None THEN [as |-> who[c], id |-> wire[c].id]
    ELSE IF reply[c] = "timeout" THEN [as |-> who[c], id |-> None]
    ELSE None]

Mail == INSTANCE Mailbox WITH Ids <- Conns, envelope <- MailEnvelope, outcome <- MailOutcome

\* Every step of the hub is a step of the mailbox or changes nothing a client
\* could tell: handoff, purge, requeue, the audit of a delivery and the race
\* between a timeout and a handoff are invisible but for the one outcome.
ImplementsMailbox == Mail!Spec
=============================================================================
