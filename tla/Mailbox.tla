------------------------------- MODULE Mailbox -------------------------------
(***************************************************************************)
(* What the hub promises its clients, with the queues, the registry, the   *)
(* channels, the locks and the sockets left out: an envelope that was      *)
(* accepted for a name is consumed at most once, by an await of that name; *)
(* an await consumes at most one envelope; an await that timed out has     *)
(* consumed nothing and never will.                                        *)
(***************************************************************************)
CONSTANTS Ids, Agents, Names, None

VARIABLES
  envelope,   \* what became of each envelope, and whom it is for
  outcome     \* what each await got, and in whose name

vars == <<envelope, outcome>>

State == {"pending", "consumed", "dropped"}

TypeOK ==
  /\ envelope \in [Ids -> [to : Names, state : State] \cup {None}]
  /\ outcome \in [Ids -> [as : Agents, id : Ids \cup {None}] \cup {None}]

Init ==
  /\ envelope = [x \in Ids |-> None]
  /\ outcome = [a \in Ids |-> None]

Accept(x, n) ==
  /\ envelope[x] = None
  /\ envelope' = [envelope EXCEPT ![x] = [to |-> n, state |-> "pending"]]
  /\ UNCHANGED outcome

Consume(a, n, x) ==
  /\ outcome[a] = None
  /\ envelope[x] = [to |-> n, state |-> "pending"]
  /\ envelope' = [envelope EXCEPT ![x].state = "consumed"]
  /\ outcome' = [outcome EXCEPT ![a] = [as |-> n, id |-> x]]

TimeOut(a, n) ==
  /\ outcome[a] = None
  /\ outcome' = [outcome EXCEPT ![a] = [as |-> n, id |-> None]]
  /\ UNCHANGED envelope

\* A send that the hub refuses without knowing whether it recorded it: the
\* envelope is accepted and nobody gets it.
Abandon(x, n) ==
  /\ envelope[x] = None
  /\ envelope' = [envelope EXCEPT ![x] = [to |-> n, state |-> "dropped"]]
  /\ UNCHANGED outcome

\* The task that held the envelope died.
Drop(x) ==
  /\ \E n \in Names : envelope[x] = [to |-> n, state |-> "pending"]
  /\ envelope' = [envelope EXCEPT ![x].state = "dropped"]
  /\ UNCHANGED outcome

Next ==
  \/ \E x \in Ids, n \in Names : Accept(x, n) \/ Abandon(x, n)
  \/ \E a, x \in Ids, n \in Agents : Consume(a, n, x)
  \/ \E a \in Ids, n \in Agents : TimeOut(a, n)
  \/ \E x \in Ids : Drop(x)

Spec == Init /\ [][Next]_vars
=============================================================================
