------------------------------- MODULE Session -------------------------------
(***************************************************************************)
(* The connections of a hub, for peers that may send anything, send nothing *)
(* or stop reading: accept, the hello line, authentication, one verb, its  *)
(* answer, and the events of all this in the audit log, over restarts of   *)
(* the hub.                                                                *)
(*                                                                         *)
(* A line is read in the step that decides what follows from it, so what a *)
(* peer sent and the hub did not yet read is no state.  What the verbs do  *)
(* to envelopes is Hub's subject; here an await gets one at any time.      *)
(***************************************************************************)
EXTENDS Startup, Sequences

CONSTANTS
  Conns,        \* connections
  Hellos,       \* the <<name, token>> pairs that peers may assert
  Diligent,     \* connections whose peer sends its lines and reads
  AuditMayFail

ASSUME SessionAssumption == /\ Diligent \subseteq Conns
                            /\ \A h \in Hellos : h = <<h[1], h[2]>>
                            /\ None \notin {h[1] : h \in Hellos}
                            /\ AuditMayFail \in BOOLEAN

VARIABLES
  pc,     \* where each connection stands
  server, \* the process it is connected to
  who,    \* its authenticated name
  token,  \* history: the token it proved that with
  out,    \* the line its task is about to write
  lines,  \* history: the lines its peer was sent
  excuse, \* history: the peer left, a write failed, its task died, or the hub was killed
  log,    \* the audit log, which all processes append to
  lost    \* history: the events whose append failed

sessionVars == <<pc, server, who, token, out, lines, excuse, log, lost>>
vars == <<startupVars, sessionVars>>

Answers == {"ok", "denied", "error", "accepted", "timeout"}
Event == [type : {"connection", "auth_failure", "accepted", "delivery"},
          conn : Conns, by : Processes, as : {h[1] : h \in Hellos} \cup {HUB, None}]

TypeOK ==
  /\ stage \in [Processes -> Loading \cup {"off", "ready", "failed", "killed"}]
  /\ agents \in [Processes -> {r \in Rosters : Parsed(r)} \cup {None}]
  /\ pc \in [Conns -> {"none", "backlog", "opened", "hello", "refuse", "greet", "verb",
                       "commit", "wait", "answer", "deliver", "log", "bounce", "closed"}]
  /\ server \in [Conns -> Processes \cup {None}]
  /\ who \in [Conns -> {h[1] : h \in Hellos} \cup {None}]
  /\ token \in [Conns -> {h[2] : h \in Hellos} \cup {None}]
  /\ out \in [Conns -> Answers \cup {None}]
  /\ lines \in [Conns -> Seq(Answers \cup {"envelope", "part"})]
  /\ excuse \in [Conns -> BOOLEAN]
  /\ log \in Seq(Event)
  /\ lost \subseteq Conns \X {"connection", "auth_failure", "delivery"}

Init == /\ StartupInit
        /\ pc = [c \in Conns |-> "none"]
        /\ server = [c \in Conns |-> None]
        /\ who = [c \in Conns |-> None]
        /\ token = [c \in Conns |-> None]
        /\ out = [c \in Conns |-> None]
        /\ lines = [c \in Conns |-> <<>>]
        /\ excuse = [c \in Conns |-> FALSE]
        /\ log = <<>> /\ lost = {}

Goto(c, from, to) == /\ pc[c] = from
                     /\ pc' = [pc EXCEPT ![c] = to]

\* The task goes on to write its last line, which is this one.
Answer(c, from, line) == /\ Goto(c, from, "answer")
                         /\ out' = [out EXCEPT ![c] = line]

\* The connection ends without the hub having had the last word.
Abandon(c, from) == /\ Goto(c, from, "closed")
                    /\ excuse' = [excuse EXCEPT ![c] = TRUE]

Append1(c, type, as) ==
  log' = Append(log, [type |-> type, conn |-> c, by |-> server[c], as |-> as])

\* audit_append: the task goes on whether the event was appended or lost.
Record(c, type, as) ==
  \/ Append1(c, type, as) /\ UNCHANGED lost
  \/ AuditMayFail /\ lost' = lost \cup {<<c, type>>} /\ UNCHANGED log

-----------------------------------------------------------------------------
(* The accept loop, and the bracket around a conversation. *)

Connect(c) == /\ Goto(c, "none", "backlog")
              /\ \E p \in Processes : /\ stage[p] = "ready"
                                      /\ server' = [server EXCEPT ![c] = p]
              /\ UNCHANGED <<who, token, out, lines, excuse, log, lost>>

\* Each connection gets a task of its own, so the loop goes on.
AcceptInTurn(c) ==                                                       \* mutant
  /\ \A d \in Conns : pc[d] \in {"none", "backlog", "closed"}
  /\ Goto(c, "backlog", "opened")
  /\ UNCHANGED <<server, who, token, out, lines, excuse, log, lost>>
Accept(c) == /\ Goto(c, "backlog", "opened")
             /\ UNCHANGED <<server, who, token, out, lines, excuse, log, lost>>

\* The loop only logs it: the peer may be gone, or still be waiting.
AcceptFails(c) == /\ \/ Abandon(c, "backlog")
                     \/ pc[c] = "backlog" /\ UNCHANGED <<pc, excuse>>
                  /\ UNCHANGED <<server, who, token, out, lines, log, lost>>

LogConnection(c) == /\ Goto(c, "opened", "hello")
                    /\ Record(c, "connection", None)
                    /\ UNCHANGED <<server, who, token, out, lines, excuse>>

-----------------------------------------------------------------------------
(* serve_connection *)

\* The asserted name exists and its token matches.
NameIsKnown(c, h) == h[1] \in DOMAIN agents[server[c]]                   \* mutant
Known(c, h) == /\ h[1] \in DOMAIN agents[server[c]]
               /\ agents[server[c]][h[1]] = h[2]

Authenticate(c, h) ==
  \/ /\ Known(c, h)
     /\ Goto(c, "hello", "greet")
     /\ out' = [out EXCEPT ![c] = "ok"]
     /\ who' = [who EXCEPT ![c] = h[1]]
     /\ token' = [token EXCEPT ![c] = h[2]]
  \/ /\ ~Known(c, h)
     /\ Goto(c, "hello", "refuse")
     /\ UNCHANGED <<out, who, token>>

\* A line that cannot be read, does not parse or is no hello gets an error; at
\* a clean end of the stream there is nobody to tell.
ReadHello(c) ==
  /\ pc[c] = "hello"
  /\ \/ (\E h \in Hellos : Authenticate(c, h)) /\ UNCHANGED excuse
     \/ Answer(c, "hello", "error") /\ UNCHANGED <<who, token, excuse>>
     \/ Abandon(c, "hello") /\ UNCHANGED <<who, token, out>>
  /\ UNCHANGED <<server, lines, log, lost>>

DenyUnlogged(c) ==                                                       \* mutant
  /\ Answer(c, "refuse", "denied")
  /\ UNCHANGED <<server, who, token, lines, excuse, log, lost>>
LogRefusal(c) == /\ Answer(c, "refuse", "denied")
                 /\ Record(c, "auth_failure", None)
                 /\ UNCHANGED <<server, who, token, lines, excuse>>

\* write_line; the verb is read only if the ok went out.
WriteLine(c) ==
  /\ \/ Goto(c, "greet", "verb")
     \/ Goto(c, "answer", "closed")
  /\ lines' = [lines EXCEPT ![c] = Append(@, out[c])]
  /\ out' = [out EXCEPT ![c] = None]
  /\ UNCHANGED <<server, who, token, excuse, log, lost>>

WriteFails(c) == /\ Abandon(c, "greet") \/ Abandon(c, "answer")
                 /\ UNCHANGED <<server, who, token, out, lines, log, lost>>

\* One verb; a second hello, a bad line and a request that fails validation
\* get an error.
ReadVerbOrHello(c) ==                                                    \* mutant
  /\ \/ Goto(c, "verb", "commit") /\ UNCHANGED <<out, excuse>>
     \/ Goto(c, "verb", "wait") /\ UNCHANGED <<out, excuse>>
     \/ Goto(c, "verb", "greet") /\ out' = [out EXCEPT ![c] = "ok"] /\ UNCHANGED excuse
  /\ UNCHANGED <<server, who, token, lines, log, lost>>
ReadVerb(c) ==
  /\ \/ Goto(c, "verb", "commit") /\ UNCHANGED <<out, excuse>>
     \/ Goto(c, "verb", "wait") /\ UNCHANGED <<out, excuse>>
     \/ Answer(c, "verb", "error") /\ UNCHANGED excuse
     \/ Abandon(c, "verb") /\ UNCHANGED out
  /\ UNCHANGED <<server, who, token, lines, log, lost>>

-----------------------------------------------------------------------------
(* handle_send, handle_await *)

\* commit_send: the append fails, or the closure dies before its append or
\* after it.
CommitSend(c) ==
  /\ \/ Answer(c, "commit", "accepted") /\ Append1(c, "accepted", who[c])
     \/ Answer(c, "commit", "error") /\ UNCHANGED log
     \/ Answer(c, "commit", "error") /\ Append1(c, "accepted", who[c])
  /\ UNCHANGED <<server, who, token, lines, excuse, lost>>

Timeout(c) == /\ Answer(c, "wait", "timeout")
              /\ UNCHANGED <<server, who, token, lines, excuse, log, lost>>

TakeEnvelope(c) == /\ Goto(c, "wait", "deliver")
                   /\ UNCHANGED <<server, who, token, out, lines, excuse, log, lost>>

\* write_envelope_line, whole, not at all, or in part; a part of an envelope
\* from the hub is not followed by a bounce.
WriteEnvelope(c) ==
  /\ \/ /\ Goto(c, "deliver", "log")
        /\ lines' = [lines EXCEPT ![c] = Append(@, "envelope")]
        /\ UNCHANGED excuse
     \/ Abandon(c, "deliver") /\ UNCHANGED lines
     \/ /\ Goto(c, "deliver", "bounce") \/ Goto(c, "deliver", "closed")
        /\ lines' = [lines EXCEPT ![c] = Append(@, "part")]
        /\ UNCHANGED excuse
  /\ UNCHANGED <<server, who, token, out, log, lost>>

LogDelivery(c) == /\ Goto(c, "log", "closed")
                  /\ Record(c, "delivery", who[c])
                  /\ UNCHANGED <<server, who, token, out, lines, excuse>>

\* emit_bounce: the same commit, whose outcome nobody is told.
EmitBounce(c) == /\ Goto(c, "bounce", "closed")
                 /\ Append1(c, "accepted", HUB) \/ UNCHANGED log
                 /\ UNCHANGED <<server, who, token, out, lines, excuse, lost>>

-----------------------------------------------------------------------------
\* A panic or a cancellation ends a task, wherever it stands, and drops its
\* stream; the task that spawn_connection starts beside it only logs that.
TaskDies(c) == /\ pc[c] \notin {"none", "backlog", "closed"}
               /\ Abandon(c, pc[c])
               /\ UNCHANGED <<server, who, token, out, lines, log, lost>>

\* A process takes its connections with it.
Cut(p) == {c \in Conns : server[c] = p /\ pc[c] # "closed"}

HubDies(p) ==
  /\ Kill(p)
  /\ pc' = [c \in Conns |-> IF c \in Cut(p) THEN "closed" ELSE pc[c]]
  /\ excuse' = [c \in Conns |-> excuse[c] \/ c \in Cut(p)]
  /\ UNCHANGED <<server, who, token, out, lines, log, lost>>

\* What a task does without its peer.
TaskStep(c) == \/ Accept(c) \/ LogConnection(c) \/ LogRefusal(c) \/ CommitSend(c)
               \/ LogDelivery(c) \/ EmitBounce(c)

\* What takes a line from the peer, or room in its socket.
PeerStep(c) == \/ ReadHello(c) \/ ReadVerb(c)
               \/ WriteLine(c) \/ WriteFails(c) \/ WriteEnvelope(c)

Next ==
  \/ \E p \in Processes : \/ StartupStep(p) /\ UNCHANGED sessionVars
                          \/ HubDies(p)
  \/ \E c \in Conns : /\ \/ Connect(c) \/ TaskStep(c) \/ PeerStep(c)
                         \/ AcceptFails(c) \/ Timeout(c) \/ TakeEnvelope(c)
                         \/ TaskDies(c)
                      /\ UNCHANGED startupVars

Spec == Init /\ [][Next]_vars

\* The runtime runs every task that can move.  Peers that are not diligent owe
\* nothing: neither a line nor room for one.
FairSpec == /\ Spec
            /\ \A c \in Conns : WF_vars(TaskStep(c) /\ UNCHANGED startupVars)
            /\ \A c \in Diligent : WF_vars(PeerStep(c) /\ UNCHANGED startupVars)

-----------------------------------------------------------------------------
(* Properties *)

Types(c) == {log[i].type : i \in {j \in DOMAIN log : log[j].conn = c}}
Reported(c, type) == type \in Types(c) \/ <<c, type>> \in lost

\* Whoever an event names as the sender or the recipient is the agent whose
\* token that very connection proved, by the roster of the process that served
\* it; the hub's own name stands only for bounces, of an envelope that this
\* connection was sent in part.  An edit of the roster, a stale token, a name
\* that is blank or reserved, or a restart under another roster cannot change
\* that (serve_connection, roster::load, handle_send).
SpeakersAreProved ==
  \A i \in DOMAIN log :
    LET e == log[i] IN
    /\ e.type = "delivery" => e.as # HUB
    /\ e.type \in {"accepted", "delivery"} /\ e.as # HUB =>
         /\ e.as = who[e.conn] /\ e.as # Empty
         /\ e.as \in DOMAIN agents[e.by]
         /\ agents[e.by][e.as] = token[e.conn]
    /\ e.as = HUB => lines[e.conn] = <<"ok", "part">>

\* The audit log has one writer at a time: what a process appended is one
\* stretch of the file, though a second hub may be started beside a running
\* one and opens the same file before it finds the port taken (main).
GenerationsDoNotInterleave ==
  \A i, k \in DOMAIN log : log[i].by = log[k].by =>
    \A j \in i..k : log[j].by = log[i].by

\* The log tells each connection's story in order and once, except for the
\* events whose append failed: the peer is told nothing before its connection
\* is recorded, it is denied after the failure is recorded and never after an
\* ok, accepted only what is recorded, and a delivery is recorded exactly when
\* the envelope went out whole (handle_connection, serve_connection,
\* deliver_envelope, audit_append).
AuditTrail ==
  /\ \A i, j \in DOMAIN log : i < j /\ log[i].conn = log[j].conn =>
       log[i].type = "connection" /\ log[j].type # "connection"
  /\ \A c \in Conns :
       LET said == {lines[c][i] : i \in DOMAIN lines[c]} IN
       /\ said # {} => Reported(c, "connection")
       /\ "denied" \in said => Reported(c, "auth_failure")
       /\ Reported(c, "auth_failure") => "ok" \notin said
       /\ "accepted" \in said => "accepted" \in Types(c)
       /\ "delivery" \in Types(c) => "envelope" \in said
       /\ "envelope" \in said /\ pc[c] = "closed" /\ ~excuse[c] => Reported(c, "delivery")

\* What a peer may have been sent.
Conversations ==
  {<<>>, <<"denied">>, <<"error">>, <<"ok">>, <<"ok", "accepted">>, <<"ok", "timeout">>,
   <<"ok", "error">>, <<"ok", "envelope">>, <<"ok", "part">>}

\* A connection serves one verb: a peer is sent a denial, an error, or an ok and
\* at most one line more; and the hub hangs up without a complete answer only if
\* the peer left, a write failed, its task died or the hub was killed
\* (serve_connection, spawn_connection).
OneVerbOneAnswer ==
  \A c \in Conns :
    /\ lines[c] \in Conversations
    /\ pc[c] = "closed" /\ ~excuse[c] => lines[c] \notin {<<>>, <<"ok">>}

\* Peers that send nothing, or stop reading, hold up nobody else: a connection
\* whose peer sends its lines and reads is served to its end, or to a parked
\* await, and from there again once the wait ends (spawn_connection).
StalledPeersHarmNobody ==
  \A c \in Diligent : pc[c] \notin {"none", "wait"} ~> pc[c] \in {"wait", "closed"}
=============================================================================
