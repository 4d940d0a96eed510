------------------------------ MODULE Exchange ------------------------------
(***************************************************************************)
(* One run of the CLI agent-hub against one connection task of the hub:    *)
(* the hello exchange, one verb, its answer and the exit code, over a      *)
(* socket that may break, between processes that may die.  It relates what *)
(* the exit code tells the caller to what the hub did.                     *)
(*                                                                         *)
(* The unit of transfer is a line.  What one side has of a line is "whole",*)
(* "body" (all but the newline) or "part".                                 *)
(***************************************************************************)
EXTENDS Naturals, Sequences

CONSTANTS
  Invocations,    \* the command lines
  TransportFails, \* whether the socket can break and processes can die
  CommitMayFail   \* whether an envelope can fail to be committed

\* readable: what can be read of the flags, the body and the token file; known:
\* the name and the token are the roster's; valid: the request passes validation.
Invocation == [verb : {"send", "await"}, readable : SUBSET {"flags", "body", "token"},
               known : BOOLEAN, valid : BOOLEAN, timed : BOOLEAN]

ASSUME ExchangeAssumption == /\ Invocations \subseteq Invocation
                             /\ TransportFails \in BOOLEAN
                             /\ CommitMayFail \in BOOLEAN

VARIABLES
  run,      \* the command line
  client,   \* where the CLI stands, or how it ended
  hub,      \* where the hub's task stands
  up, down, \* the lines under way to the hub and to the client
  socket,   \* "open" or "broken"
  mail,     \* where the envelope is: "nowhere", in a queue of the "hub", with
            \* this task ("out"), "written" or "lost" after part of it was
  told,     \* what the hub committed: "envelope" of a send, "bounce" for a loss
  faulty    \* history: something went wrong that the hub or the CLI cannot hide

vars == <<run, client, hub, up, down, socket, mail, told, faulty>>

Line == [what : {"hello", "verb", "ok", "error", "accepted", "timeout", "envelope"},
         how : {"whole", "body", "part"}]
Ended == {"exit0", "exit1", "exit2", "panicked", "killed"}

TypeOK == /\ run \in Invocations
          /\ client \in {"start", "body", "token", "connect", "hello", "verb"} \cup Ended
          /\ hub \in {"hello", "verb", "commit", "wait", "write", "bounce", "closed"}
          /\ up \in Seq(Line) /\ down \in Seq(Line)
          /\ socket \in {"open", "broken"}
          /\ mail \in {"nowhere", "hub", "out", "written", "lost"}
          /\ told \subseteq {"envelope", "bounce"}
          /\ faulty \in BOOLEAN
          /\ mail = "out" <=> hub = "write"
          /\ \A i \in DOMAIN down : i < Len(down) => down[i].how = "whole"

Init == /\ run \in Invocations
        /\ client = "start" /\ hub = "hello"
        /\ up = <<>> /\ down = <<>>
        /\ socket = "open"
        /\ mail = "nowhere" /\ told = {} /\ faulty = FALSE

Put(line, how) == [what |-> line, how |-> how]

-----------------------------------------------------------------------------
(* The client. *)

Exit(code) == client' = code

\* A line is written before its reply is read; a broken socket refuses it.
Utter(line, next) ==
  \/ socket = "open" /\ up' = Append(up, Put(line, "whole")) /\ client' = next
  \/ socket = "broken" /\ Exit("exit1") /\ UNCHANGED up

\* What cannot be read ends the command before it connects.
Need(what, next) ==
  /\ client' = (IF what \in run.readable THEN next ELSE "exit1")
  /\ UNCHANGED <<run, hub, up, down, socket, mail, told, faulty>>

ParseFlags == /\ client = "start"
              /\ Need("flags", IF run.verb = "send" THEN "body" ELSE "token")

ReadBody == client = "body" /\ Need("body", "token")

ReadToken == client = "token" /\ Need("token", "connect")

\* The hub answers the connect, or nobody does.
Connect == /\ client = "connect"
           /\ \/ Utter("hello", "hello")
              \/ TransportFails /\ Exit("exit1") /\ UNCHANGED up
           /\ UNCHANGED <<run, hub, down, socket, mail, told, faulty>>

Begin == ParseFlags \/ ReadBody \/ ReadToken \/ Connect

\* print! panics when the standard output is gone.
Output == \/ Exit("exit0")
          \/ TransportFails /\ Exit("panicked")

\* read_line returns at a newline, or at the end of file with what there is;
\* from_jsonl does not miss the newline.
Complete(l) == \/ l.how = "whole"
               \/ l.how = "body" /\ hub = "closed"

HasReply == down # <<>> /\ Complete(Head(down))

\* The reply that was expected, and what follows.
Expected(l) ==
  \/ client = "hello" /\ l.what = "ok" /\ Utter("verb", "verb")
  \/ /\ client = "verb"
     /\ \/ run.verb = "send" /\ l.what = "accepted" /\ Output
        \/ run.verb = "await" /\ l.what = "envelope" /\ Output
        \/ run.verb = "await" /\ l.what = "timeout" /\ Exit("exit2")
     /\ UNCHANGED up

Unexpected(l) == /\ \/ client = "hello" /\ l.what # "ok"
                    \/ client = "verb" /\ l.what = "error"
                 /\ Exit("exit1")
                 /\ UNCHANGED up

ReadReply == /\ client \in {"hello", "verb"}
             /\ HasReply
             /\ (Expected(Head(down)) \/ Unexpected(Head(down)))
             /\ down' = Tail(down)
             /\ UNCHANGED <<run, hub, socket, mail, told, faulty>>

\* End of file before a line, a fragment that does not parse, a failed read.
EofIsTimeout ==                                                          \* mutant
  /\ client \in {"hello", "verb"} /\ hub = "closed"
  /\ ~HasReply
  /\ Exit("exit2")
  /\ UNCHANGED <<run, hub, up, down, socket, mail, told, faulty>>
IgnoreEof ==                                                             \* mutant
  /\ client \in {"hello", "verb"}
  /\ ~HasReply
  /\ socket = "broken"
  /\ Exit("exit1")
  /\ UNCHANGED <<run, hub, up, down, socket, mail, told, faulty>>
FailReply == /\ client \in {"hello", "verb"}
             /\ ~HasReply
             /\ (hub = "closed" \/ socket = "broken")
             /\ Exit("exit1")
             /\ UNCHANGED <<run, hub, up, down, socket, mail, told, faulty>>

ClientStep == Begin \/ ReadReply \/ FailReply

-----------------------------------------------------------------------------
(* The hub: serve_connection, handle_send, handle_await, deliver_envelope. *)

\* A write takes the line whole, or fails after none, some or nearly all of it
\* and the task abandons the connection.  A broken socket delivers nothing
\* of what it still accepts.
Sent(line, how) == IF socket = "open" THEN Append(down, Put(line, how)) ELSE down

Reply(line, next) ==
  \/ /\ down' = Sent(line, "whole")
     /\ hub' = next /\ UNCHANGED faulty
  \/ /\ TransportFails
     /\ down' \in {down} \cup {Sent(line, how) : how \in {"part", "body"}}
     /\ hub' = "closed" /\ faulty' = TRUE

ReadHello == /\ hub = "hello" /\ up # <<>>
             /\ up' = Tail(up)
             /\ \/ run.known /\ Reply("ok", "verb")
                \/ ~run.known /\ Reply("error", "closed")
             /\ UNCHANGED <<run, client, socket, mail, told>>

\* Validation, then the commit or the wait.
ReadVerb == /\ hub = "verb" /\ up # <<>>
            /\ up' = Tail(up)
            /\ \/ ~run.valid /\ Reply("error", "closed")
               \/ /\ run.valid
                  /\ hub' = (IF run.verb = "send" THEN "commit" ELSE "wait")
                  /\ UNCHANGED <<down, faulty>>
            /\ UNCHANGED <<run, client, socket, mail, told>>

\* The peer left before it sent a line, or within one.
NoLine == /\ hub \in {"hello", "verb"} /\ up = <<>>
          /\ (client \in Ended \/ socket = "broken")
          /\ hub' = "closed"
          /\ UNCHANGED <<run, client, up, down, socket, mail, told, faulty>>

RefusedButRouted ==                                                      \* mutant
  /\ hub = "commit"
  /\ \/ Reply("accepted", "closed")
     \/ CommitMayFail /\ Reply("error", "closed")
  /\ mail' = "hub" /\ told' = {"envelope"}
  /\ UNCHANGED <<run, client, up, socket>>
AnswerFirst ==                                                           \* mutant
  /\ hub = "commit"
  /\ Reply("accepted", "closed")
  /\ \/ mail' = "hub" /\ told' = {"envelope"}
     \/ CommitMayFail /\ UNCHANGED <<mail, told>>
  /\ UNCHANGED <<run, client, up, socket>>
CommitSend == /\ hub = "commit"
              /\ \/ /\ mail' = "hub" /\ told' = {"envelope"}
                    /\ Reply("accepted", "closed")
                 \/ /\ CommitMayFail /\ Reply("error", "closed")
                    /\ UNCHANGED <<mail, told>>
              /\ UNCHANGED <<run, client, up, socket>>

\* An envelope the await matches is sent to the hub by someone.
Arrive == /\ run.verb = "await" /\ mail = "nowhere"
          /\ mail' = "hub"
          /\ UNCHANGED <<run, client, hub, up, down, socket, told, faulty>>

PeekMail == /\ hub = "wait" /\ mail = "hub"                               \* mutant
            /\ hub' = "write"
            /\ UNCHANGED <<run, client, up, down, socket, mail, told, faulty>>
TakeMail == /\ hub = "wait" /\ mail = "hub"
            /\ mail' = "out" /\ hub' = "write"
            /\ UNCHANGED <<run, client, up, down, socket, told, faulty>>

Timeout == /\ hub = "wait" /\ run.timed
           /\ Reply("timeout", "closed")
           /\ UNCHANGED <<run, client, up, socket, mail, told>>

WriteEnvelope == /\ hub = "write"
                 /\ down' = Sent("envelope", "whole")
                 /\ mail' = "written" /\ hub' = "closed"
                 /\ UNCHANGED <<run, client, up, socket, told, faulty>>

\* FailedClean: back to routing.
WriteFailsClean == /\ TransportFails
                   /\ hub = "write"
                   /\ mail' = "hub" /\ hub' = "closed" /\ faulty' = TRUE
                   /\ UNCHANGED <<run, client, up, down, socket, told>>

\* FailedPartial, even if all that is missing is the newline.
Torn == {Sent("envelope", how) : how \in {"part", "body"}}
PartialRequeued ==                                                       \* mutant
  /\ TransportFails
  /\ hub = "write"
  /\ down' \in Torn
  /\ mail' = "hub" /\ hub' = "closed" /\ faulty' = TRUE
  /\ UNCHANGED <<run, client, up, socket, told>>
WriteFailsPartial == /\ TransportFails
                     /\ hub = "write"
                     /\ down' \in Torn
                     /\ mail' = "lost" /\ hub' = "bounce" /\ faulty' = TRUE
                     /\ UNCHANGED <<run, client, up, socket, told>>

EmitBounce == /\ hub = "bounce"
              /\ hub' = "closed"
              /\ \/ told' = told \cup {"bounce"}
                 \/ CommitMayFail /\ UNCHANGED told
              /\ UNCHANGED <<run, client, up, down, socket, mail, faulty>>

Deliver == WriteEnvelope \/ WriteFailsClean \/ WriteFailsPartial

HubStep == \/ ReadHello \/ ReadVerb \/ NoLine \/ CommitSend \/ TakeMail \/ Timeout
           \/ Deliver \/ EmitBounce

-----------------------------------------------------------------------------
(* The environment. *)

\* What the socket had accepted may still arrive, up to some byte.
Cuts(q) == {SubSeq(q, 1, n) : n \in 0..Len(q)}
             \cup {Append(SubSeq(q, 1, n - 1), [q[n] EXCEPT !.how = "part"]) : n \in DOMAIN q}

Break == /\ TransportFails /\ socket = "open"
         /\ client \notin {"start", "body", "token", "connect"}
         /\ socket' = "broken" /\ faulty' = TRUE
         /\ up' \in {SubSeq(up, 1, n) : n \in 0..Len(up)}
         /\ down' \in Cuts(down)
         /\ UNCHANGED <<run, client, hub, mail, told>>

\* The CLI is killed; the hub learns of it when it next reads or writes.
Kill == /\ TransportFails /\ client \notin Ended
        /\ client' = "killed" /\ faulty' = TRUE
        /\ UNCHANGED <<run, hub, up, down, socket, mail, told>>

Next == ClientStep \/ HubStep \/ Arrive \/ Break \/ Kill

Spec == Init /\ [][Next]_vars

\* Both processes run, and a socket that works takes what it is given.
FairSpec == Spec /\ WF_vars(ClientStep) /\ WF_vars(HubStep)

-----------------------------------------------------------------------------
\* Exit 0 of a send is a receipt: the envelope was committed (run_send).
ReceiptMeansCommitted ==
  run.verb = "send" /\ client = "exit0" => "envelope" \in told

\* "An envelope goes to at most one consumer": one that the client printed, or
\* still can, is never in a queue again (write_envelope_line, read_reply).
PrintedNotRequeued ==
  /\ run.verb = "await" /\ client \in {"exit0", "panicked"} => mail \in {"written", "lost"}
  /\ mail = "hub" => \A i \in DOMAIN down : down[i].what # "envelope"

\* Exit 2: "nothing consumed; the caller may re-arm".
TimeoutConsumesNothing == client = "exit2" => mail \in {"nowhere", "hub"}

\* As long as the socket and both processes live, exit 1 means that nothing
\* was queued or consumed, whatever failed on the way.
FailureChangedNothing ==
  client = "exit1" /\ ~faulty => told = {} /\ mail \in {"nowhere", "hub"}

\* The CLI ends, unless it waits for an envelope: no refusal, failure or loss
\* leaves it reading from a connection that nobody will write to.
Parked == hub = "wait" /\ ~run.timed
ClientEnds == ~Parked ~> client \in Ended \/ Parked

-----------------------------------------------------------------------------
(* A sentence of the documents that the code does not keep. *)

\* Exit code 1: "nothing queued or consumed" (agent-hub.rs, README).
ExitOneMeansNothing ==
  client = "exit1" => "envelope" \notin told /\ mail \notin {"written", "lost"}
=============================================================================
