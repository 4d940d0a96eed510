------------------------------- MODULE Routing -------------------------------
(***************************************************************************)
(* The match semantics of the hub: which envelopes an await accepts and,   *)
(* among several parked awaits that accept the same envelope, which one    *)
(* gets it.  Pure operators, shared by every module that routes.           *)
(*                                                                         *)
(* An envelope is a record with the fields id, from, to, kind and corr; a  *)
(* waiter is a record with the fields id, filter and conn.  Waiter ids are *)
(* handed out from one counter inside the critical section that registers  *)
(* the waiter, so "earlier in the registry's Vec" and "smaller id" are the *)
(* same order, and a registry entry is a set of waiters here.  HubState    *)
(* has the Vec and the loop over it, and implements this reading.          *)
(***************************************************************************)
EXTENDS Naturals

CONSTANT None      \* Rust's Option::None

\* AwaitFilter::matches: every predicate that is present passes.
Matches(filter, env) ==
  /\ filter.replyTo # None => env.corr = filter.replyTo
  /\ filter.kind # None => env.kind = filter.kind

\* AwaitFilter::specificity, the tuple comparison written as a number:
\* {replyTo, kind} > {replyTo} > {kind} > {}.
Specificity(filter) ==
  (IF filter.replyTo # None THEN 2 ELSE 0) + (IF filter.kind # None THEN 1 ELSE 0)

\* v is chosen before w: the more specific first, the older within a rank.
Outranks(v, w) ==
  \/ Specificity(v.filter) > Specificity(w.filter)
  \/ /\ Specificity(v.filter) = Specificity(w.filter)
     /\ v.id < w.id

Candidates(registered, env) == {w \in registered : Matches(w.filter, env)}

\* The candidate no other one outranks.
IsBest(w, candidates) ==
  /\ w \in candidates
  /\ \A v \in candidates \ {w} : Outranks(w, v)

\* take_queued's scan: the first position of the queue the filter accepts.
IsFirstMatch(i, queue, filter) ==
  /\ i \in DOMAIN queue
  /\ Matches(filter, queue[i])
  /\ \A j \in 1..(i - 1) : ~Matches(filter, queue[j])
=============================================================================
