---------------------------- MODULE SessionProofs ----------------------------
(***************************************************************************)
(* Proofs about Session, for any number of connections, launches and       *)
(* rosters.                                                                *)
(***************************************************************************)
EXTENDS Session, TLAPS

\* A connection belongs to a process that listens, or that was killed since.
Connected(c) ==
  /\ pc[c] = "none" => server[c] = None
  /\ pc[c] # "none" =>
       /\ server[c] \in Processes
       /\ stage[server[c]] \in {"ready", "killed"}
       /\ Usable(agents[server[c]])
       /\ pc[c] # "closed" => stage[server[c]] = "ready"

\* Who a connection is, once it has proved it.
Identified(c) ==
  /\ pc[c] \in {"none", "backlog", "opened", "hello", "refuse"} => who[c] = None
  /\ pc[c] \in {"greet", "verb", "commit", "wait", "deliver", "log", "bounce"} =>
       who[c] # None
  /\ who[c] # None => /\ pc[c] # "none"
                      /\ who[c] \in DOMAIN agents[server[c]]
                      /\ agents[server[c]][who[c]] = token[c]

\* What the peer has been sent, at each point of the conversation.
Told(c) ==
  /\ pc[c] \in {"none", "backlog", "opened", "hello", "refuse", "greet"} => lines[c] = <<>>
  /\ pc[c] = "greet" => out[c] = "ok"
  /\ pc[c] \in {"verb", "commit", "wait", "deliver"} => lines[c] = <<"ok">>
  /\ pc[c] = "answer" =>
       \/ lines[c] = <<>> /\ who[c] = None /\ out[c] \in {"denied", "error"}
       \/ lines[c] = <<"ok">> /\ who[c] # None /\ out[c] \in {"accepted", "timeout", "error"}
  /\ pc[c] = "log" => lines[c] = <<"ok", "envelope">>
  /\ pc[c] = "bounce" => lines[c] = <<"ok", "part">>
  /\ lines[c] \in Conversations
  /\ pc[c] = "closed" /\ ~excuse[c] => lines[c] \notin {<<>>, <<"ok">>}

\* What the log has of it.
Recorded(c) ==
  /\ pc[c] \in {"none", "backlog", "opened"} =>
       Types(c) = {} /\ ~Reported(c, "auth_failure") /\ ~Reported(c, "connection")
  /\ pc[c] \in {"hello", "refuse", "greet", "verb", "commit", "wait", "deliver", "log",
                "bounce"} =>
       Types(c) \subseteq {"connection"} /\ ~Reported(c, "auth_failure")
  /\ pc[c] \notin {"none", "backlog", "opened", "closed"} => Reported(c, "connection")
  /\ lines[c] # <<>> => Reported(c, "connection")
  /\ pc[c] = "answer" => /\ "delivery" \notin Types(c)
                         /\ out[c] = "denied" => Reported(c, "auth_failure")
                         /\ out[c] = "accepted" => "accepted" \in Types(c)
                         /\ out[c] # "denied" => ~Reported(c, "auth_failure")
  /\ lines[c] = <<"denied">> => Reported(c, "auth_failure")
  /\ Reported(c, "auth_failure") => lines[c] \in {<<>>, <<"denied">>}
  /\ lines[c] = <<"ok", "accepted">> => "accepted" \in Types(c)
  /\ "delivery" \in Types(c) => lines[c] = <<"ok", "envelope">>
  /\ lines[c] = <<"ok", "envelope">> /\ pc[c] = "closed" /\ ~excuse[c] =>
       Reported(c, "delivery")

ConnInv(c) == Connected(c) /\ Identified(c) /\ Told(c) /\ Recorded(c)

\* An event names its connection's process, and whom the connection proved.
Attributed ==
  \A i \in DOMAIN log :
    LET e == log[i] IN
    /\ pc[e.conn] # "none" /\ e.by = server[e.conn]
    /\ e.as # None => e.as = HUB \/ e.as = who[e.conn]
    /\ e.type \in {"accepted", "delivery"} => e.as # None
    /\ e.as = HUB => /\ e.type = "accepted" /\ pc[e.conn] = "closed"
                     /\ lines[e.conn] = <<"ok", "part">>

\* A connection's events are its connection event and at most one other.
InOrder ==
  \A i, j \in DOMAIN log : i < j /\ log[i].conn = log[j].conn =>
    log[i].type = "connection" /\ log[j].type # "connection"

\* The last process that wrote is the only one of the writers that may live.
Succession ==
  /\ \A p, q \in Processes : stage[p] = "ready" /\ stage[q] = "ready" => p = q
  /\ \A i, j \in DOMAIN log :
       i < j /\ log[i].by # log[j].by => stage[log[i].by] = "killed"
  /\ GenerationsDoNotInterleave

Loaded == \A p \in Processes :
  /\ stage[p] \in {"audit", "bind", "ready"} => agents[p] # None
  /\ agents[p] # None => agents[p] \in Rosters /\ Usable(agents[p])
  /\ stage[p] \in {"off", "config", "service", "roster"} => agents[p] = None

SessionInv ==
  /\ TypeOK /\ Loaded
  /\ \A c \in Conns : ConnInv(c)
  /\ Attributed /\ InOrder /\ Succession

-----------------------------------------------------------------------------
(* Every action of a connection is local to it. *)

ConnStep(c) == /\ \/ Connect(c) \/ TaskStep(c) \/ PeerStep(c)
                  \/ AcceptFails(c) \/ Timeout(c) \/ TakeEnvelope(c)
                  \/ TaskDies(c)
               /\ UNCHANGED startupVars

\* What every other connection can see of a step of c.
Local(c) ==
  /\ UNCHANGED startupVars
  /\ \A d \in Conns \ {c} :
       /\ pc'[d] = pc[d] /\ server'[d] = server[d] /\ who'[d] = who[d]
       /\ token'[d] = token[d] /\ out'[d] = out[d] /\ lines'[d] = lines[d]
       /\ excuse'[d] = excuse[d]
       /\ Types(d)' = Types(d)
       /\ \A t : <<d, t>> \in lost' <=> <<d, t>> \in lost

\* An append adds its type to what the log has of its connection.
LEMMA TypesAppended ==
  ASSUME TypeOK, NEW c \in Conns, NEW type, NEW as, Append1(c, type, as)
  PROVE  /\ Types(c)' = Types(c) \cup {type}
         /\ \A d \in Conns \ {c} : Types(d)' = Types(d)
  <1> DEFINE e == [type |-> type, conn |-> c, by |-> server[c], as |-> as]
  <1>1. /\ log \in Seq(Event) /\ log' = Append(log, e)
        /\ DOMAIN log = 1..Len(log) /\ Len(log) \in Nat
    BY DEF TypeOK, Append1
  <1>2. /\ DOMAIN log' = 1..(Len(log) + 1)
        /\ \A i \in DOMAIN log : log'[i] = log[i]
        /\ log'[Len(log) + 1] = e
    BY <1>1
  <1> HIDE DEF e
  <1>3. e.type = type /\ e.conn = c
    BY DEF e
  <1>4. \A i : i \in DOMAIN log' <=> i \in DOMAIN log \/ i = Len(log) + 1
    BY <1>1, <1>2
  <1>5. ASSUME NEW d \in Conns, NEW t
        PROVE  t \in Types(d)' <=> t \in Types(d) \/ (d = c /\ t = type)
    <2>1. t \in Types(d)' <=> \E i \in DOMAIN log' : log'[i].conn = d /\ log'[i].type = t
      BY DEF Types
    <2>2. t \in Types(d) <=> \E i \in DOMAIN log : log[i].conn = d /\ log[i].type = t
      BY DEF Types
    <2> QED BY <1>2, <1>3, <1>4, <2>1, <2>2
  <1> QED BY <1>5

\* The same for an append that may fail.
LEMMA TypesRecorded ==
  ASSUME TypeOK, NEW c \in Conns, NEW type, NEW as, Record(c, type, as)
  PROVE  /\ Types(c)' \subseteq Types(c) \cup {type} /\ Types(c) \subseteq Types(c)'
         /\ Reported(c, type)'
         /\ \A t : t # type => (Reported(c, t)' <=> Reported(c, t))
         /\ \A d \in Conns \ {c} :
              /\ Types(d)' = Types(d)
              /\ \A t : <<d, t>> \in lost' <=> <<d, t>> \in lost
  <1>1. CASE Append1(c, type, as) /\ UNCHANGED lost
    <2>1. Types(c)' = Types(c) \cup {type} /\ lost' = lost
      BY <1>1, TypesAppended
    <2>2. \A d \in Conns \ {c} : Types(d)' = Types(d)
      BY <1>1, TypesAppended
    <2> QED BY <2>1, <2>2 DEF Reported
  <1>2. CASE lost' = lost \cup {<<c, type>>} /\ UNCHANGED log
    <2>1. \A d : Types(d)' = Types(d)
      BY <1>2 DEF Types
    <2> QED BY <1>2, <2>1 DEF Reported
  <1> QED BY <1>1, <1>2 DEF Record

LEMMA StepIsLocal ==
  ASSUME TypeOK, NEW c \in Conns, ConnStep(c)
  PROVE  Local(c)
  <1> USE DEF TypeOK, Goto, Answer, Abandon
  <1>1. log' = log => \A d : Types(d)' = Types(d)
    BY DEF Types
  <1>2. UNCHANGED startupVars
    BY DEF ConnStep
  <1>3. CASE Connect(c)
    BY <1>1, <1>2, <1>3 DEF Local, Connect
  <1>4. CASE Accept(c)
    BY <1>1, <1>2, <1>4 DEF Local, Accept
  <1>5. CASE LogConnection(c)
    <2>1. Record(c, "connection", None)
      BY <1>5 DEF LogConnection
    <2> QED BY <1>2, <1>5, <2>1, TypesRecorded DEF Local, LogConnection
  <1>6. CASE LogRefusal(c)
    <2>1. Record(c, "auth_failure", None)
      BY <1>6 DEF LogRefusal
    <2> QED BY <1>2, <1>6, <2>1, TypesRecorded DEF Local, LogRefusal
  <1>7. CASE CommitSend(c)
    <2>1. CASE Append1(c, "accepted", who[c])
      BY <1>2, <1>7, <2>1, TypesAppended DEF Local, CommitSend
    <2>2. CASE UNCHANGED log
      BY <1>1, <1>2, <1>7, <2>2 DEF Local, CommitSend
    <2> QED BY <1>7, <2>1, <2>2 DEF CommitSend
  <1>8. CASE LogDelivery(c)
    <2>1. Record(c, "delivery", who[c])
      BY <1>8 DEF LogDelivery
    <2> QED BY <1>2, <1>8, <2>1, TypesRecorded DEF Local, LogDelivery
  <1>9. CASE EmitBounce(c)
    <2>1. CASE Append1(c, "accepted", HUB)
      BY <1>2, <1>9, <2>1, TypesAppended DEF Local, EmitBounce
    <2>2. CASE UNCHANGED log
      BY <1>1, <1>2, <1>9, <2>2 DEF Local, EmitBounce
    <2> QED BY <1>9, <2>1, <2>2 DEF EmitBounce
  <1>10. CASE ReadHello(c)
    BY <1>1, <1>2, <1>10 DEF Local, ReadHello, Authenticate
  <1>11. CASE ReadVerb(c)
    BY <1>1, <1>2, <1>11 DEF Local, ReadVerb
  <1>12. CASE WriteLine(c)
    BY <1>1, <1>2, <1>12 DEF Local, WriteLine
  <1>13. CASE WriteFails(c)
    BY <1>1, <1>2, <1>13 DEF Local, WriteFails
  <1>14. CASE WriteEnvelope(c)
    BY <1>1, <1>2, <1>14 DEF Local, WriteEnvelope
  <1>15. CASE AcceptFails(c) \/ Timeout(c) \/ TakeEnvelope(c) \/ TaskDies(c)
    BY <1>1, <1>2, <1>15 DEF Local, AcceptFails, Timeout, TakeEnvelope, TaskDies
  <1> QED BY <1>3, <1>4, <1>5, <1>6, <1>7, <1>8, <1>9, <1>10, <1>11, <1>12, <1>13, <1>14,
             <1>15 DEF ConnStep, TaskStep, PeerStep

\* A step of c leaves what is known of another connection.
LEMMA OthersKeep ==
  ASSUME NEW c \in Conns, NEW d \in Conns \ {c}, Local(c), ConnInv(d)
  PROVE  ConnInv(d)'
  <1>1. /\ pc'[d] = pc[d] /\ server'[d] = server[d] /\ who'[d] = who[d]
        /\ token'[d] = token[d] /\ out'[d] = out[d] /\ lines'[d] = lines[d]
        /\ excuse'[d] = excuse[d] /\ Types(d)' = Types(d)
        /\ \A t : <<d, t>> \in lost' <=> <<d, t>> \in lost
        /\ stage' = stage /\ agents' = agents
    BY DEF Local, startupVars
  <1>2. Connected(d)'
    BY <1>1 DEF ConnInv, Connected
  <1>3. Identified(d)'
    BY <1>1 DEF ConnInv, Identified
  <1>4. Told(d)'
    BY <1>1 DEF ConnInv, Told
  <1>5. \A t : Reported(d, t)' <=> Reported(d, t)
    BY <1>1 DEF Reported
  <1>6. Recorded(d)'
    BY <1>1, <1>5 DEF ConnInv, Recorded
  <1> QED BY <1>2, <1>3, <1>4, <1>6 DEF ConnInv

-----------------------------------------------------------------------------
(* One lemma per step of a connection: its types and its own part of the
   invariant. *)

OwnInv(c) == TypeOK /\ ConnInv(c)

LEMMA Extended ==
  ASSUME NEW S, NEW s \in Seq(S), NEW e \in S
  PROVE  Append(s, e) \in Seq(S)
  OBVIOUS

\* The second line of a conversation.
LEMMA FirstAndSecond ==
  ASSUME NEW l
  PROVE  /\ Append(<<>>, l) = <<l>> /\ Append(<<"ok">>, l) = <<"ok", l>>
         /\ <<"ok", l>> \notin {<<>>, <<"ok">>, <<"denied">>}
         /\ l \in {"accepted", "timeout", "error", "envelope", "part"} =>
              <<"ok", l>> \in Conversations
         /\ l \in {"denied", "error"} => <<l>> \in Conversations
  <1>1. Append(<<>>, l) = <<l>> /\ Append(<<"ok">>, l) = <<"ok", l>>
    <2> DEFINE T == {l, "ok"}
    <2>1. /\ <<>> \in Seq(T) /\ <<"ok">> \in Seq(T)
          /\ <<l>> \in Seq(T) /\ <<"ok", l>> \in Seq(T)
      OBVIOUS
    <2>2. /\ Append(<<>>, l) \in Seq(T) /\ Len(Append(<<>>, l)) = 1
          /\ Append(<<>>, l)[1] = l
      BY <2>1
    <2>3. /\ Append(<<"ok">>, l) \in Seq(T) /\ Len(Append(<<"ok">>, l)) = 2
          /\ Append(<<"ok">>, l)[1] = "ok" /\ Append(<<"ok">>, l)[2] = l
      BY <2>1
    <2>4. /\ Len(<<l>>) = 1 /\ <<l>>[1] = l
          /\ Len(<<"ok", l>>) = 2 /\ <<"ok", l>>[1] = "ok" /\ <<"ok", l>>[2] = l
      OBVIOUS
    <2> HIDE DEF T
    <2>5. \A s, t \in Seq(T) : Len(s) = 1 /\ Len(t) = 1 /\ s[1] = t[1] => s = t
      OBVIOUS
    <2>6. \A s, t \in Seq(T) :
            Len(s) = 2 /\ Len(t) = 2 /\ s[1] = t[1] /\ s[2] = t[2] => s = t
      OBVIOUS
    <2>7. Append(<<>>, l) = <<l>>
      BY <2>1, <2>2, <2>4, <2>5, ZenonT(20)
    <2>8. Append(<<"ok">>, l) = <<"ok", l>>
      BY <2>1, <2>3, <2>4, <2>6, ZenonT(20)
    <2> QED BY <2>7, <2>8
  <1>2. <<"ok", l>> # <<>> /\ <<"ok", l>> # <<"ok">> /\ <<"ok", l>> # <<"denied">>
    OBVIOUS
  <1>3. l \in {"accepted", "timeout", "error", "envelope", "part"} =>
          <<"ok", l>> \in Conversations
    BY DEF Conversations
  <1>4. l \in {"denied", "error"} => <<l>> \in Conversations
    BY DEF Conversations
  <1> QED BY <1>1, <1>2, <1>3, <1>4

\* An append keeps the types of the log.
LEMMA AppendTyped ==
  ASSUME TypeOK, NEW c \in Conns, server[c] \in Processes,
         NEW type \in {"connection", "auth_failure", "accepted", "delivery"},
         NEW as, as \in {None, HUB, who[c]}, Append1(c, type, as)
  PROVE  log' \in Seq(Event)
  <1>1. [type |-> type, conn |-> c, by |-> server[c], as |-> as] \in Event
    BY DEF TypeOK, Event
  <1> QED BY <1>1, Extended DEF TypeOK, Append1

LEMMA RecordTyped ==
  ASSUME TypeOK, NEW c \in Conns, server[c] \in Processes,
         NEW type \in {"connection", "auth_failure", "delivery"},
         NEW as, as \in {None, HUB, who[c]}, Record(c, type, as)
  PROVE  /\ log' \in Seq(Event)
         /\ lost' \subseteq Conns \X {"connection", "auth_failure", "delivery"}
  <1>1. CASE Append1(c, type, as) /\ UNCHANGED lost
    BY <1>1, AppendTyped DEF TypeOK
  <1>2. CASE lost' = lost \cup {<<c, type>>} /\ UNCHANGED log
    BY <1>2 DEF TypeOK
  <1> QED BY <1>1, <1>2 DEF Record

LEMMA ConnectStep ==
  ASSUME NEW c \in Conns, OwnInv(c), Loaded, Connect(c), UNCHANGED startupVars
  PROVE  OwnInv(c)'
  <1> USE DEF Connect, Goto, startupVars
  <1>1. TypeOK'
    BY DEF OwnInv, TypeOK
  <1>2. /\ pc[c] = "none" /\ pc'[c] = "backlog" /\ server'[c] \in Processes
        /\ stage[server'[c]] = "ready" /\ log' = log
        /\ UNCHANGED <<stage, agents, who, token, lines, out, excuse, lost>>
    BY DEF OwnInv, TypeOK
  <1>3. Connected(c)'
    BY <1>2 DEF Connected, Loaded
  <1>4. Identified(c)' /\ Told(c)'
    BY <1>2 DEF OwnInv, ConnInv, Identified, Told
  <1>5. Types(c)' = Types(c) /\ \A t : Reported(c, t)' <=> Reported(c, t)
    BY <1>2 DEF Reported, Types
  <1>6. Recorded(c)'
    BY <1>2, <1>5 DEF OwnInv, ConnInv, Recorded, Told
  <1> QED BY <1>1, <1>3, <1>4, <1>6 DEF OwnInv, ConnInv

\* A step within a connection that appends nothing.
LEMMA QuietStep ==
  ASSUME NEW c \in Conns, OwnInv(c), TypeOK', UNCHANGED startupVars,
         UNCHANGED <<server, log, lost>>, pc[c] \notin {"none", "closed"}, pc'[c] # "none",
         Identified(c)', Told(c)',
         Types(c)' = Types(c) /\ (\A t : Reported(c, t)' <=> Reported(c, t)) => Recorded(c)'
  PROVE  OwnInv(c)'
  <1>1. Connected(c)'
    BY DEF OwnInv, ConnInv, Connected, startupVars
  <1>2. Types(c)' = Types(c) /\ \A t : Reported(c, t)' <=> Reported(c, t)
    BY DEF Reported, Types
  <1> QED BY <1>1, <1>2 DEF OwnInv, ConnInv

LEMMA AcceptStep ==
  ASSUME NEW c \in Conns, OwnInv(c), UNCHANGED startupVars,
         Accept(c) \/ AcceptFails(c) \/ TakeEnvelope(c)
  PROVE  OwnInv(c)'
  <1> USE DEF Accept, AcceptFails, TakeEnvelope, Goto, Abandon
  <1>1. TypeOK'
    BY DEF OwnInv, TypeOK, startupVars
  <1>2. /\ \/ pc[c] = "backlog" /\ pc'[c] = "opened" /\ excuse' = excuse
           \/ pc[c] = "backlog" /\ pc'[c] = "closed" /\ excuse'[c]
           \/ pc[c] = "backlog" /\ pc'[c] = "backlog" /\ excuse' = excuse
           \/ pc[c] = "wait" /\ pc'[c] = "deliver" /\ excuse' = excuse
        /\ UNCHANGED <<server, who, token, out, lines, log, lost, stage, agents>>
    BY DEF OwnInv, TypeOK, startupVars
  <1>3. Identified(c)' /\ Told(c)'
    BY <1>2 DEF OwnInv, ConnInv, Identified, Told
  <1>4. Types(c)' = Types(c) /\ (\A t : Reported(c, t)' <=> Reported(c, t)) => Recorded(c)'
    BY <1>2 DEF OwnInv, ConnInv, Recorded, Told
  <1> QED BY <1>1, <1>2, <1>3, <1>4, QuietStep

LEMMA TaskDeathStep ==
  ASSUME NEW c \in Conns, OwnInv(c), UNCHANGED startupVars, TaskDies(c)
  PROVE  OwnInv(c)'
  <1> USE DEF TaskDies, Goto, Abandon
  <1>1. TypeOK'
    BY DEF OwnInv, TypeOK, startupVars
  <1>2. /\ pc[c] \notin {"none", "backlog", "closed"} /\ pc'[c] = "closed" /\ excuse'[c]
        /\ UNCHANGED <<server, who, token, out, lines, log, lost, stage, agents>>
    BY DEF OwnInv, TypeOK, startupVars
  <1>3. Identified(c)' /\ Told(c)'
    BY <1>2 DEF OwnInv, ConnInv, Identified, Told
  <1>4. Types(c)' = Types(c) /\ (\A t : Reported(c, t)' <=> Reported(c, t)) => Recorded(c)'
    BY <1>2 DEF OwnInv, ConnInv, Recorded, Told
  <1> QED BY <1>1, <1>2, <1>3, <1>4, QuietStep

LEMMA HelloStep ==
  ASSUME NEW c \in Conns, OwnInv(c), UNCHANGED startupVars, ReadHello(c)
  PROVE  OwnInv(c)'
  <1> USE DEF ReadHello, Authenticate, Goto, Answer, Abandon
  <1>0. \A h \in Hellos : /\ h[1] \in {g[1] : g \in Hellos} \cup {None}
                          /\ h[2] \in {g[2] : g \in Hellos} \cup {None}
    OBVIOUS
  <1>1. TypeOK'
    BY <1>0 DEF OwnInv, TypeOK, startupVars, Answers
  <1>2. /\ pc[c] = "hello"
        /\ \/ \E h \in Hellos : /\ Known(c, h) /\ pc'[c] = "greet" /\ out'[c] = "ok"
                                /\ who'[c] = h[1] /\ token'[c] = h[2]
           \/ pc'[c] = "refuse" /\ UNCHANGED <<out, who, token, excuse>>
           \/ pc'[c] = "answer" /\ out'[c] = "error" /\ UNCHANGED <<who, token, excuse>>
           \/ pc'[c] = "closed" /\ excuse'[c] /\ UNCHANGED <<who, token, out>>
        /\ UNCHANGED <<server, lines, log, lost, stage, agents>>
    BY DEF OwnInv, TypeOK, startupVars
  <1>3. \A h \in Hellos : h[1] # None
    BY SessionAssumption
  <1>4. Identified(c)'
    BY <1>2, <1>3 DEF OwnInv, ConnInv, Identified, Known
  <1>5. Told(c)'
    BY <1>2 DEF OwnInv, ConnInv, Told, Identified
  <1>6. Types(c)' = Types(c) /\ (\A t : Reported(c, t)' <=> Reported(c, t)) => Recorded(c)'
    BY <1>2 DEF OwnInv, ConnInv, Recorded, Told
  <1> QED BY <1>1, <1>2, <1>4, <1>5, <1>6, QuietStep

LEMMA VerbStep ==
  ASSUME NEW c \in Conns, OwnInv(c), UNCHANGED startupVars, ReadVerb(c) \/ Timeout(c)
  PROVE  OwnInv(c)'
  <1> USE DEF ReadVerb, Timeout, Goto, Answer, Abandon
  <1>1. TypeOK'
    BY DEF OwnInv, TypeOK, startupVars, Answers
  <1>2. /\ \/ pc[c] = "verb" /\ pc'[c] \in {"commit", "wait"} /\ UNCHANGED <<out, excuse>>
           \/ pc[c] = "verb" /\ pc'[c] = "answer" /\ out'[c] = "error"
           \/ pc[c] = "verb" /\ pc'[c] = "closed" /\ excuse'[c]
           \/ pc[c] = "wait" /\ pc'[c] = "answer" /\ out'[c] = "timeout"
        /\ UNCHANGED <<server, who, token, lines, log, lost, stage, agents>>
    BY DEF OwnInv, TypeOK, startupVars
  <1>3. Identified(c)'
    BY <1>2 DEF OwnInv, ConnInv, Identified
  <1>4. Told(c)'
    BY <1>2 DEF OwnInv, ConnInv, Told, Identified
  <1>5. Types(c)' = Types(c) /\ (\A t : Reported(c, t)' <=> Reported(c, t)) => Recorded(c)'
    BY <1>2 DEF OwnInv, ConnInv, Recorded, Told
  <1> QED BY <1>1, <1>2, <1>3, <1>4, <1>5, QuietStep

LEMMA WriteStep ==
  ASSUME NEW c \in Conns, OwnInv(c), UNCHANGED startupVars, WriteLine(c) \/ WriteFails(c)
  PROVE  OwnInv(c)'
  <1> USE DEF WriteLine, WriteFails, Goto, Abandon
  <1>1. CASE WriteFails(c)
    <2>1. TypeOK'
      BY <1>1 DEF OwnInv, TypeOK, startupVars
    <2>2. /\ pc[c] \in {"greet", "answer"} /\ pc'[c] = "closed" /\ excuse'[c]
          /\ UNCHANGED <<server, who, token, out, lines, log, lost, stage, agents>>
      BY <1>1 DEF OwnInv, TypeOK, startupVars
    <2>3. Identified(c)' /\ Told(c)'
      BY <2>2 DEF OwnInv, ConnInv, Identified, Told
    <2>4. Types(c)' = Types(c) /\ (\A t : Reported(c, t)' <=> Reported(c, t)) => Recorded(c)'
      BY <2>2 DEF OwnInv, ConnInv, Recorded, Told
    <2> QED BY <2>1, <2>2, <2>3, <2>4, QuietStep
  <1>2. CASE WriteLine(c)
    <2>1. pc[c] \in {"greet", "answer"}
      BY <1>2
    <2>2. out[c] \in Answers
      BY <2>1 DEF OwnInv, ConnInv, Told, Answers
    <2>3. Append(lines[c], out[c]) \in Seq(Answers \cup {"envelope", "part"})
      BY <2>2, Extended DEF OwnInv, TypeOK
    <2>4. TypeOK'
      BY <1>2, <2>3 DEF OwnInv, TypeOK, startupVars
    <2>5. /\ \/ pc[c] = "greet" /\ pc'[c] = "verb"
             \/ pc[c] = "answer" /\ pc'[c] = "closed"
          /\ lines'[c] = Append(lines[c], out[c])
          /\ UNCHANGED <<server, who, token, excuse, log, lost, stage, agents>>
      BY <1>2 DEF OwnInv, TypeOK, startupVars
    <2>6. Identified(c)'
      BY <2>5 DEF OwnInv, ConnInv, Identified
    <2>7. \/ pc'[c] = "verb" /\ pc[c] = "greet" /\ lines'[c] = <<"ok">>
          \/ /\ pc'[c] = "closed" /\ pc[c] = "answer" /\ lines[c] = <<>>
             /\ out[c] \in {"denied", "error"} /\ lines'[c] = <<out[c]>>
          \/ /\ pc'[c] = "closed" /\ pc[c] = "answer" /\ lines[c] = <<"ok">>
             /\ out[c] \in {"accepted", "timeout", "error"} /\ lines'[c] = <<"ok", out[c]>>
      BY <2>5, FirstAndSecond DEF OwnInv, ConnInv, Told
    <2>8. Told(c)'
      <3>1. lines'[c] \in Conversations
        BY <2>7, FirstAndSecond DEF Conversations
      <3>2. pc'[c] = "closed" => lines'[c] # <<>> /\ lines'[c] # <<"ok">>
        BY <2>7, FirstAndSecond
      <3> QED BY <2>7, <3>1, <3>2 DEF Told
    <2>9. ASSUME Types(c)' = Types(c), \A t : Reported(c, t)' <=> Reported(c, t)
          PROVE  Recorded(c)'
      BY <2>7, <2>9, FirstAndSecond DEF OwnInv, ConnInv, Recorded
    <2> QED BY <2>1, <2>4, <2>5, <2>6, <2>8, <2>9, QuietStep
  <1> QED BY <1>1, <1>2

LEMMA EnvelopeStep ==
  ASSUME NEW c \in Conns, OwnInv(c), UNCHANGED startupVars, WriteEnvelope(c)
  PROVE  OwnInv(c)'
  <1> USE DEF WriteEnvelope, Goto, Abandon
  <1>1. pc[c] = "deliver" /\ lines[c] = <<"ok">>
    BY DEF OwnInv, ConnInv, Told
  <1>2. \A l \in {"envelope", "part"} :
          Append(lines[c], l) \in Seq(Answers \cup {"envelope", "part"})
    BY Extended DEF OwnInv, TypeOK
  <1>3. TypeOK'
    <2>1. pc' \in [Conns -> {"none", "backlog", "opened", "hello", "refuse", "greet", "verb",
                             "commit", "wait", "answer", "deliver", "log", "bounce", "closed"}]
      BY DEF OwnInv, TypeOK
    <2>2. /\ excuse' \in [Conns -> BOOLEAN]
          /\ lines' \in [Conns -> Seq(Answers \cup {"envelope", "part"})]
      <3> DEFINE Sent == Seq(Answers \cup {"envelope", "part"})
      <3>1. lines \in [Conns -> Sent] /\ excuse \in [Conns -> BOOLEAN]
        BY DEF OwnInv, TypeOK
      <3>2. /\ Append(lines[c], "envelope") \in Sent
            /\ Append(lines[c], "part") \in Sent
        BY <1>2
      <3>3. /\ excuse' \in {excuse, [excuse EXCEPT ![c] = TRUE]}
            /\ lines' \in {lines, [lines EXCEPT ![c] = Append(lines[c], "envelope")],
                           [lines EXCEPT ![c] = Append(lines[c], "part")]}
        OBVIOUS
      <3> HIDE DEF Sent
      <3>4. excuse' \in [Conns -> BOOLEAN]
        BY <3>1, <3>3
      <3>5. \A x \in Sent : [lines EXCEPT ![c] = x] \in [Conns -> Sent]
        BY <3>1
      <3>6. lines' \in [Conns -> Sent]
        BY <3>1, <3>2, <3>3, <3>5
      <3> QED BY <3>4, <3>6 DEF Sent
    <2> QED BY <2>1, <2>2 DEF OwnInv, TypeOK, startupVars
  <1>4. /\ \/ /\ pc'[c] = "log" /\ lines'[c] = <<"ok", "envelope">> /\ UNCHANGED excuse
           \/ /\ pc'[c] = "closed" /\ lines'[c] = lines[c] /\ excuse'[c]
           \/ /\ pc'[c] \in {"bounce", "closed"} /\ lines'[c] = <<"ok", "part">>
              /\ UNCHANGED excuse
        /\ UNCHANGED <<server, who, token, out, log, lost, stage, agents>>
    BY <1>1 DEF OwnInv, TypeOK, startupVars
  <1>5. Identified(c)'
    BY <1>1, <1>4 DEF OwnInv, ConnInv, Identified
  <1>6. Told(c)'
    BY <1>1, <1>4, FirstAndSecond DEF Told, Conversations
  <1>7. ASSUME Types(c)' = Types(c), \A t : Reported(c, t)' <=> Reported(c, t)
        PROVE  Recorded(c)'
    BY <1>1, <1>4, <1>7 DEF OwnInv, ConnInv, Recorded
  <1> QED BY <1>1, <1>3, <1>4, <1>5, <1>6, <1>7, QuietStep

LEMMA LogConnectionStep ==
  ASSUME NEW c \in Conns, OwnInv(c), UNCHANGED startupVars, LogConnection(c)
  PROVE  OwnInv(c)'
  <1> USE DEF LogConnection, Goto
  <1>1. /\ pc[c] = "opened" /\ pc'[c] = "hello" /\ Record(c, "connection", None)
        /\ UNCHANGED <<server, who, token, out, lines, excuse, stage, agents>>
    BY DEF OwnInv, TypeOK, startupVars
  <1>2. server[c] \in Processes
    BY <1>1 DEF OwnInv, ConnInv, Connected
  <1>3. TypeOK'
    BY <1>1, <1>2, RecordTyped DEF OwnInv, TypeOK
  <1>4. Connected(c)' /\ Identified(c)' /\ Told(c)'
    BY <1>1 DEF OwnInv, ConnInv, Connected, Identified, Told
  <1>5. /\ Types(c)' \subseteq Types(c) \cup {"connection"} /\ Reported(c, "connection")'
        /\ Reported(c, "auth_failure")' <=> Reported(c, "auth_failure")
    BY <1>1, TypesRecorded DEF OwnInv
  <1>6. Recorded(c)'
    BY <1>1, <1>5, FirstAndSecond DEF OwnInv, ConnInv, Recorded, Told
  <1> QED BY <1>3, <1>4, <1>6 DEF OwnInv, ConnInv

LEMMA LogRefusalStep ==
  ASSUME NEW c \in Conns, OwnInv(c), UNCHANGED startupVars, LogRefusal(c)
  PROVE  OwnInv(c)'
  <1> USE DEF LogRefusal, Goto, Answer
  <1>1. /\ pc[c] = "refuse" /\ pc'[c] = "answer" /\ out'[c] = "denied"
        /\ Record(c, "auth_failure", None)
        /\ UNCHANGED <<server, who, token, lines, excuse, stage, agents>>
    BY DEF OwnInv, TypeOK, startupVars
  <1>2. server[c] \in Processes
    BY <1>1 DEF OwnInv, ConnInv, Connected
  <1>3. TypeOK'
    BY <1>1, <1>2, RecordTyped DEF OwnInv, TypeOK, Answers
  <1>4. Connected(c)' /\ Identified(c)' /\ Told(c)'
    BY <1>1 DEF OwnInv, ConnInv, Connected, Identified, Told
  <1>5. /\ Types(c)' \subseteq Types(c) \cup {"auth_failure"}
        /\ Reported(c, "auth_failure")'
        /\ Reported(c, "connection")' <=> Reported(c, "connection")
    BY <1>1, TypesRecorded DEF OwnInv
  <1>6. Recorded(c)'
    BY <1>1, <1>5, FirstAndSecond DEF OwnInv, ConnInv, Recorded, Told
  <1> QED BY <1>3, <1>4, <1>6 DEF OwnInv, ConnInv

LEMMA CommitStep ==
  ASSUME NEW c \in Conns, OwnInv(c), UNCHANGED startupVars, CommitSend(c)
  PROVE  OwnInv(c)'
  <1> USE DEF CommitSend, Goto, Answer
  <1>1. /\ pc[c] = "commit" /\ pc'[c] = "answer"
        /\ \/ out'[c] = "accepted" /\ Append1(c, "accepted", who[c])
           \/ out'[c] = "error" /\ log' = log
           \/ out'[c] = "error" /\ Append1(c, "accepted", who[c])
        /\ UNCHANGED <<server, who, token, lines, excuse, lost, stage, agents>>
    BY DEF OwnInv, TypeOK, startupVars
  <1>2. server[c] \in Processes
    BY <1>1 DEF OwnInv, ConnInv, Connected
  <1>3. log' \in Seq(Event)
    BY <1>1, <1>2, AppendTyped DEF OwnInv, TypeOK
  <1>4. TypeOK'
    <2>1. /\ out' \in [Conns -> Answers \cup {None}]
          /\ pc' = [pc EXCEPT ![c] = "answer"]
      BY DEF OwnInv, TypeOK, Answers
    <2> QED BY <1>1, <1>3, <2>1 DEF OwnInv, TypeOK
  <1>5. Connected(c)' /\ Identified(c)' /\ Told(c)'
    BY <1>1 DEF OwnInv, ConnInv, Connected, Identified, Told
  <1>6. /\ \/ out'[c] \in {"accepted", "error"} /\ Types(c)' = Types(c) \cup {"accepted"}
           \/ out'[c] = "error" /\ Types(c)' = Types(c)
        /\ \A t : t # "accepted" => (Reported(c, t)' <=> Reported(c, t))
    <2>1. CASE Append1(c, "accepted", who[c]) /\ out'[c] \in {"accepted", "error"}
      BY <1>1, <2>1, TypesAppended DEF OwnInv, Reported
    <2>2. CASE log' = log /\ out'[c] = "error"
      BY <1>1, <2>2 DEF Types, Reported
    <2> QED BY <1>1, <2>1, <2>2
  <1>7. Recorded(c)'
    BY <1>1, <1>6, FirstAndSecond DEF OwnInv, ConnInv, Recorded, Told
  <1> QED BY <1>4, <1>5, <1>7 DEF OwnInv, ConnInv

LEMMA LogDeliveryStep ==
  ASSUME NEW c \in Conns, OwnInv(c), UNCHANGED startupVars, LogDelivery(c)
  PROVE  OwnInv(c)'
  <1> USE DEF LogDelivery, Goto
  <1>1. /\ pc[c] = "log" /\ pc'[c] = "closed" /\ Record(c, "delivery", who[c])
        /\ UNCHANGED <<server, who, token, out, lines, excuse, stage, agents>>
    BY DEF OwnInv, TypeOK, startupVars
  <1>2. server[c] \in Processes
    BY <1>1 DEF OwnInv, ConnInv, Connected
  <1>3. TypeOK'
    BY <1>1, <1>2, RecordTyped DEF OwnInv, TypeOK
  <1>4. Connected(c)' /\ Identified(c)' /\ Told(c)'
    BY <1>1, FirstAndSecond DEF OwnInv, ConnInv, Connected, Identified, Told
  <1>5. /\ Types(c)' \subseteq Types(c) \cup {"delivery"} /\ Reported(c, "delivery")'
        /\ Reported(c, "connection")' <=> Reported(c, "connection")
        /\ Reported(c, "auth_failure")' <=> Reported(c, "auth_failure")
    BY <1>1, TypesRecorded DEF OwnInv
  <1>6. lines[c] = <<"ok", "envelope">> /\ <<"ok", "envelope">> # <<"ok", "accepted">>
    BY <1>1 DEF OwnInv, ConnInv, Told
  <1>7. Recorded(c)'
    BY <1>1, <1>5, <1>6, FirstAndSecond DEF OwnInv, ConnInv, Recorded
  <1> QED BY <1>3, <1>4, <1>7 DEF OwnInv, ConnInv

LEMMA BounceStep ==
  ASSUME NEW c \in Conns, OwnInv(c), UNCHANGED startupVars, EmitBounce(c)
  PROVE  OwnInv(c)'
  <1> USE DEF EmitBounce, Goto
  <1>1. /\ pc[c] = "bounce" /\ pc'[c] = "closed"
        /\ Append1(c, "accepted", HUB) \/ log' = log
        /\ UNCHANGED <<server, who, token, out, lines, excuse, lost, stage, agents>>
    BY DEF OwnInv, TypeOK, startupVars
  <1>2. server[c] \in Processes
    BY <1>1 DEF OwnInv, ConnInv, Connected
  <1>3. log' \in Seq(Event)
    BY <1>1, <1>2, AppendTyped DEF OwnInv, TypeOK
  <1>4. TypeOK'
    BY <1>1, <1>3 DEF OwnInv, TypeOK
  <1>5. Connected(c)' /\ Identified(c)' /\ Told(c)'
    BY <1>1, FirstAndSecond DEF OwnInv, ConnInv, Connected, Identified, Told
  <1>6. /\ Types(c)' \subseteq Types(c) \cup {"accepted"} /\ Types(c) \subseteq Types(c)'
        /\ \A t : t # "accepted" => (Reported(c, t)' <=> Reported(c, t))
    <2>1. CASE Append1(c, "accepted", HUB)
      BY <1>1, <2>1, TypesAppended DEF OwnInv, Reported
    <2>2. CASE log' = log
      BY <1>1, <2>2 DEF Types, Reported
    <2> QED BY <1>1, <2>1, <2>2
  <1>7. /\ lines[c] = <<"ok", "part">> /\ <<"ok", "part">> # <<"ok", "accepted">>
        /\ <<"ok", "part">> # <<"ok", "envelope">>
    BY <1>1 DEF OwnInv, ConnInv, Told
  <1>8. Recorded(c)'
    BY <1>1, <1>6, <1>7, FirstAndSecond DEF OwnInv, ConnInv, Recorded
  <1> QED BY <1>4, <1>5, <1>8 DEF OwnInv, ConnInv

\* Every step of a connection keeps the types and its own part.
LEMMA OwnStep ==
  ASSUME NEW c \in Conns, OwnInv(c), Loaded, ConnStep(c)
  PROVE  OwnInv(c)'
  BY ConnectStep, AcceptStep, HelloStep, VerbStep, WriteStep, EnvelopeStep,
     LogConnectionStep, LogRefusalStep, CommitStep, LogDeliveryStep, BounceStep, TaskDeathStep
     DEF ConnStep, TaskStep, PeerStep

-----------------------------------------------------------------------------
(* The log as a whole. *)

\* What a step of c may append: the connection event if there is nothing of c
\* yet, else an event other than that if nothing but it is there.
MayFollow(c, type, as) ==
  /\ stage[server[c]] = "ready"
  /\ pc[c] # "none" /\ server[c] \in Processes
  /\ \/ type = "connection" /\ Types(c) = {} /\ as = None
     \/ /\ type = "auth_failure" /\ Types(c) \subseteq {"connection"} /\ as = None
     \/ /\ type \in {"accepted", "delivery"} /\ Types(c) \subseteq {"connection"}
        /\ as = who[c] /\ who[c] # None
     \/ /\ type = "accepted" /\ Types(c) \subseteq {"connection"}
        /\ as = HUB /\ pc'[c] = "closed" /\ lines'[c] = <<"ok", "part">>

\* A step of a connection appends nothing, or what may follow.
LEMMA StepAppends ==
  ASSUME SessionInv, NEW c \in Conns, ConnStep(c)
  PROVE  \/ log' = log
         \/ \E type, as : Append1(c, type, as) /\ MayFollow(c, type, as)
  <1> USE DEF Goto, Answer, Record
  <1>1. TypeOK /\ ConnInv(c)
    BY DEF SessionInv
  <1>2. pc[c] \notin {"none", "closed"} =>
          stage[server[c]] = "ready" /\ pc[c] # "none" /\ server[c] \in Processes
    BY <1>1 DEF ConnInv, Connected
  <1>3. CASE LogConnection(c)
    BY <1>1, <1>2, <1>3 DEF LogConnection, MayFollow, ConnInv, Recorded
  <1>4. CASE LogRefusal(c)
    BY <1>1, <1>2, <1>4 DEF LogRefusal, MayFollow, ConnInv, Recorded
  <1>5. CASE CommitSend(c)
    BY <1>1, <1>2, <1>5 DEF CommitSend, MayFollow, ConnInv, Recorded, Identified
  <1>6. CASE LogDelivery(c)
    BY <1>1, <1>2, <1>6 DEF LogDelivery, MayFollow, ConnInv, Recorded, Identified
  <1>7. CASE EmitBounce(c)
    <2>1. pc'[c] = "closed" /\ lines'[c] = <<"ok", "part">> /\ Types(c) \subseteq {"connection"}
      BY <1>1, <1>7 DEF EmitBounce, ConnInv, Recorded, Told, TypeOK
    <2> QED BY <1>2, <1>7, <2>1 DEF EmitBounce, MayFollow
  <1>8. CASE \/ Connect(c) \/ Accept(c) \/ AcceptFails(c) \/ Timeout(c) \/ TakeEnvelope(c)
             \/ TaskDies(c)
    BY <1>8 DEF Connect, Accept, AcceptFails, Timeout, TakeEnvelope, TaskDies
  <1>9. CASE PeerStep(c)
    BY <1>9 DEF PeerStep, ReadHello, ReadVerb, WriteLine, WriteFails, WriteEnvelope
  <1> QED BY <1>3, <1>4, <1>5, <1>6, <1>7, <1>8, <1>9 DEF ConnStep, TaskStep

\* The log after an append.
LEMMA AfterAppend ==
  ASSUME TypeOK, NEW c \in Conns, NEW type, NEW as, Append1(c, type, as)
  PROVE  /\ Len(log) \in Nat /\ DOMAIN log = 1..Len(log)
         /\ DOMAIN log' = 1..(Len(log) + 1)
         /\ \A i \in 1..Len(log) : log'[i] = log[i]
         /\ log'[Len(log) + 1].type = type /\ log'[Len(log) + 1].conn = c
         /\ log'[Len(log) + 1].by = server[c] /\ log'[Len(log) + 1].as = as
  <1> DEFINE e == [type |-> type, conn |-> c, by |-> server[c], as |-> as]
  <1>1. log \in Seq(Event) /\ log' = Append(log, e)
    BY DEF TypeOK, Append1
  <1>2. e.type = type /\ e.conn = c /\ e.by = server[c] /\ e.as = as
    OBVIOUS
  <1> HIDE DEF e
  <1>3. /\ Len(log) \in Nat /\ DOMAIN log = 1..Len(log)
        /\ DOMAIN log' = 1..(Len(log) + 1)
        /\ \A i \in 1..Len(log) : log'[i] = log[i]
        /\ log'[Len(log) + 1] = e
    BY <1>1
  <1> QED BY <1>2, <1>3

\* An event is about a connection, by a process.
LEMMA LogTyped ==
  ASSUME TypeOK
  PROVE  \A i \in DOMAIN log : log[i].conn \in Conns /\ log[i].by \in Processes
  <1>1. log \in Seq(Event)
    BY DEF TypeOK
  <1>2. \A e \in Event : e.conn \in Conns /\ e.by \in Processes
    BY DEF Event
  <1> QED BY <1>1, <1>2

\* The facts about a connection that events rest on are final.
LEMMA Final ==
  ASSUME SessionInv, NEW c \in Conns, ConnStep(c), NEW d \in Conns, pc[d] # "none"
  PROVE  /\ pc'[d] # "none" /\ server'[d] = server[d]
         /\ who[d] # None => who'[d] = who[d]
         /\ pc[d] = "closed" => pc'[d] = "closed" /\ lines'[d] = lines[d]
  <1>1. CASE d # c
    <2>1. Local(c)
      BY StepIsLocal DEF SessionInv
    <2> QED BY <1>1, <2>1 DEF Local
  <1>2. CASE d = c
    <2>1. TypeOK /\ (pc[c] = "hello" => who[c] = None)
      BY DEF SessionInv, ConnInv, Identified
    <2>2. CASE TaskStep(c)
      BY <1>2, <2>1, <2>2 DEF TypeOK, TaskStep, Accept, LogConnection, LogRefusal, CommitSend,
         LogDelivery, EmitBounce, Goto, Answer
    <2>3. CASE ReadHello(c)
      BY <1>2, <2>1, <2>3 DEF TypeOK, ReadHello, Authenticate, Goto, Answer, Abandon
    <2>4. CASE ReadVerb(c) \/ WriteLine(c) \/ WriteFails(c) \/ WriteEnvelope(c)
      BY <1>2, <2>1, <2>4 DEF TypeOK, ReadVerb, WriteLine, WriteFails, WriteEnvelope, Goto,
         Answer, Abandon
    <2>5. CASE \/ Connect(c) \/ AcceptFails(c) \/ Timeout(c) \/ TakeEnvelope(c)
               \/ TaskDies(c)
      BY <1>2, <2>1, <2>5 DEF TypeOK, Connect, AcceptFails, Timeout, TakeEnvelope, TaskDies,
         Goto, Answer, Abandon
    <2> QED BY <2>2, <2>3, <2>4, <2>5 DEF ConnStep, PeerStep
  <1> QED BY <1>1, <1>2

LEMMA AttributedStep ==
  ASSUME SessionInv, NEW c \in Conns, ConnStep(c)
  PROVE  Attributed'
  <1>1. \A i \in DOMAIN log : log[i].conn \in Conns
    BY LogTyped DEF SessionInv
  <1>2. ASSUME NEW i \in DOMAIN log, NEW e, e = log[i]
        PROVE  /\ pc'[e.conn] # "none" /\ e.by = server'[e.conn]
               /\ e.as # None => e.as = HUB \/ e.as = who'[e.conn]
               /\ e.type \in {"accepted", "delivery"} => e.as # None
               /\ e.as = HUB => /\ e.type = "accepted" /\ pc'[e.conn] = "closed"
                                /\ lines'[e.conn] = <<"ok", "part">>
    <2>1. e.conn \in Conns
      BY <1>1, <1>2
    <2>2. /\ pc[e.conn] # "none" /\ e.by = server[e.conn]
          /\ e.as # None => e.as = HUB \/ e.as = who[e.conn]
          /\ e.type \in {"accepted", "delivery"} => e.as # None
          /\ e.as = HUB => /\ e.type = "accepted" /\ pc[e.conn] = "closed"
                           /\ lines[e.conn] = <<"ok", "part">>
      BY <1>2 DEF SessionInv, Attributed
    <2> QED BY <2>1, <2>2, Final
  <1>3. CASE log' = log
    BY <1>2, <1>3 DEF Attributed
  <1>4. ASSUME NEW type, NEW as, Append1(c, type, as), MayFollow(c, type, as)
        PROVE  Attributed'
    <2>1. TypeOK
      BY DEF SessionInv
    <2>2. /\ pc'[c] # "none" /\ server'[c] = server[c] /\ (who[c] # None => who'[c] = who[c])
      BY <1>4, Final DEF MayFollow
    <2>3. \A n : n = log'[Len(log) + 1] =>
            /\ n.type = type /\ n.conn = c /\ n.by = server[c] /\ n.as = as
      BY <1>4, <2>1, AfterAppend
    <2>4. HUB # None /\ (who[c] # None => who[c] # HUB)
      BY StartupAssumption DEF SessionInv, ConnInv, Identified, Connected, Usable
    <2>5. \A n : n = log'[Len(log) + 1] =>
            /\ pc'[n.conn] # "none" /\ n.by = server'[n.conn]
            /\ n.as # None => n.as = HUB \/ n.as = who'[n.conn]
            /\ n.type \in {"accepted", "delivery"} => n.as # None
            /\ n.as = HUB => /\ n.type = "accepted" /\ pc'[n.conn] = "closed"
                             /\ lines'[n.conn] = <<"ok", "part">>
      BY <1>4, <2>2, <2>3, <2>4 DEF MayFollow
    <2>6. \A i \in DOMAIN log' : i = Len(log) + 1 \/ (i \in DOMAIN log /\ log'[i] = log[i])
      <3>1. /\ Len(log) \in Nat /\ DOMAIN log = 1..Len(log)
            /\ DOMAIN log' = 1..(Len(log) + 1)
            /\ \A i \in 1..Len(log) : log'[i] = log[i]
        BY <1>4, <2>1, AfterAppend
      <3> QED BY <3>1
    <2> QED BY <1>2, <2>5, <2>6 DEF Attributed
  <1> QED BY <1>3, <1>4, StepAppends

LEMMA InOrderStep ==
  ASSUME SessionInv, NEW c \in Conns, ConnStep(c)
  PROVE  InOrder'
  <1>1. CASE log' = log
    BY <1>1 DEF SessionInv, InOrder
  <1>2. ASSUME NEW type, NEW as, Append1(c, type, as), MayFollow(c, type, as)
        PROVE  InOrder'
    <2>1. TypeOK
      BY DEF SessionInv
    <2>2. \A i \in DOMAIN log : log[i].conn = c => log[i].type \in Types(c)
      BY DEF Types
    <2>3. /\ \A t \in Types(c) : t = "connection"
          /\ type = "connection" => Types(c) = {}
      BY <1>2 DEF MayFollow
    <2>4. SUFFICES ASSUME NEW i \in DOMAIN log', NEW j \in DOMAIN log', i < j,
                          log'[i].conn = log'[j].conn
                   PROVE  log'[i].type = "connection" /\ log'[j].type # "connection"
      BY DEF InOrder
    <2>5. /\ i \in DOMAIN log /\ log'[i] = log[i]
          /\ \/ j \in DOMAIN log /\ log'[j] = log[j]
             \/ log'[j].conn = c /\ log'[j].type = type
      <3>1. /\ Len(log) \in Nat /\ DOMAIN log = 1..Len(log)
            /\ DOMAIN log' = 1..(Len(log) + 1)
            /\ \A k \in 1..Len(log) : log'[k] = log[k]
            /\ log'[Len(log) + 1].type = type /\ log'[Len(log) + 1].conn = c
        BY <1>2, <2>1, AfterAppend
      <3> QED BY <2>4, <3>1
    <2> QED BY <2>2, <2>3, <2>4, <2>5 DEF SessionInv, InOrder
  <1> QED BY <1>1, <1>2, StepAppends

LEMMA SuccessionStep ==
  ASSUME SessionInv, NEW c \in Conns, ConnStep(c)
  PROVE  Succession'
  <1>0. stage' = stage
    BY DEF ConnStep, startupVars
  <1>1. CASE log' = log
    BY <1>0, <1>1 DEF SessionInv, Succession, GenerationsDoNotInterleave
  <1>2. ASSUME NEW type, NEW as, Append1(c, type, as), MayFollow(c, type, as)
        PROVE  Succession'
    <2>1. TypeOK /\ Succession
      BY DEF SessionInv
    <2>2. stage[server[c]] = "ready" /\ server[c] \in Processes
      BY <1>2 DEF MayFollow
    <2>3. \A i \in DOMAIN log : /\ log[i].by \in Processes
                               /\ stage[log[i].by] \in {"ready", "killed"}
      BY LogTyped DEF SessionInv, Attributed, ConnInv, Connected
    <2>4. \A i \in DOMAIN log : log[i].by = server[c] \/ stage[log[i].by] = "killed"
      BY <2>1, <2>2, <2>3 DEF Succession
    <2>5. /\ Len(log) \in Nat /\ DOMAIN log = 1..Len(log) /\ DOMAIN log' = 1..(Len(log) + 1)
          /\ \A i \in 1..Len(log) : log'[i] = log[i]
          /\ log'[Len(log) + 1].by = server[c]
      BY <1>2, <2>1, AfterAppend
    <2>6. \A i, j \in DOMAIN log' :
            i < j /\ log'[i].by # log'[j].by => stage'[log'[i].by] = "killed"
      BY <1>0, <2>1, <2>4, <2>5 DEF Succession
    <2>7. GenerationsDoNotInterleave'
      <3>1. SUFFICES ASSUME NEW i \in DOMAIN log', NEW k \in DOMAIN log',
                            log'[i].by = log'[k].by, NEW j \in i..k
                     PROVE  log'[j].by = log'[i].by
        BY DEF GenerationsDoNotInterleave
      <3>2. CASE k \in DOMAIN log
        <4>1. i \in DOMAIN log /\ j \in DOMAIN log
          BY <2>5, <3>1, <3>2
        <4>2. log[i].by = log[k].by
          BY <2>5, <3>1, <3>2, <4>1
        <4>3. log[j].by = log[i].by
          BY <2>1, <3>1, <3>2, <4>1, <4>2 DEF Succession, GenerationsDoNotInterleave
        <4> QED BY <2>5, <4>1, <4>3
      <3>3. CASE k = Len(log) + 1
        <4>1. log'[i].by = server[c]
          BY <2>5, <3>1, <3>3
        <4>2. CASE j \in DOMAIN log /\ log'[j].by # server[c]
          <5>1. i \in DOMAIN log /\ log[i].by = server[c] /\ log[j].by # server[c]
            BY <2>5, <3>1, <4>1, <4>2
          <5>2. i < j
            BY <2>5, <3>1, <4>1, <4>2
          <5>3. stage[log[i].by] = "killed"
            BY <2>1, <4>2, <5>1, <5>2 DEF Succession
          <5> QED BY <2>2, <5>1, <5>3
        <4>3. CASE j = Len(log) + 1
          BY <2>5, <4>1, <4>3
        <4> QED BY <2>5, <3>1, <3>3, <4>1, <4>2, <4>3
      <3> QED BY <2>5, <3>1, <3>2, <3>3
    <2> QED BY <1>0, <2>1, <2>6, <2>7 DEF Succession
  <1> QED BY <1>1, <1>2, StepAppends

-----------------------------------------------------------------------------
(* Launches and deaths of the hub. *)

\* Nothing of a connection changes.
LEMMA LaunchStep ==
  ASSUME SessionInv, NEW p \in Processes, StartupStep(p), UNCHANGED sessionVars
  PROVE  SessionInv'
  <1> USE DEF Proceed, Fallible, sessionVars
  <1>1. TypeOK /\ Loaded /\ Succession
    BY DEF SessionInv
  <1>2. /\ stage[p] \in Loading \cup {"off"} /\ stage[p] \notin {"ready", "killed"}
        /\ \A q \in Processes \ {p} : stage'[q] = stage[q] /\ agents'[q] = agents[q]
        /\ stage'[p] \in Loading \cup {"ready", "failed"}
        /\ stage'[p] = "ready" => \A q \in Processes : stage[q] # "ready"
    BY <1>1 DEF TypeOK, Loading, StartupStep, Launch, LoadConfig, InitServiceLog, LoadRoster,
       OpenAudit, Bind
  <1>3. TypeOK' /\ Loaded'
    <2>1. CASE Launch(p) \/ LoadConfig(p) \/ InitServiceLog(p) \/ OpenAudit(p) \/ Bind(p)
      BY <1>1, <2>1 DEF TypeOK, Loaded, Loading, Launch, LoadConfig, InitServiceLog,
         OpenAudit, Bind
    <2>2. CASE LoadRoster(p)
      <3>1. CASE UNCHANGED agents
        BY <1>1, <2>2, <3>1, StartupAssumption DEF TypeOK, Loaded, Loading, LoadRoster
      <3>2. ASSUME NEW r \in Rosters, Usable(r), Proceed(p, "roster", "audit"),
                   agents' = [agents EXCEPT ![p] = r]
            PROVE  TypeOK' /\ Loaded'
        <4>1. Parsed(r) /\ r # None
          BY <3>2, StartupAssumption DEF Usable
        <4> QED BY <1>1, <3>2, <4>1 DEF TypeOK, Loaded, Loading
      <3> QED BY <2>2, <3>1, <3>2 DEF LoadRoster
    <2> QED BY <2>1, <2>2 DEF StartupStep
  <1>4. ASSUME NEW c \in Conns PROVE ConnInv(c)'
    <2>1. ConnInv(c)
      BY DEF SessionInv
    <2>2. Connected(c)' /\ (who[c] # None => agents'[server[c]] = agents[server[c]])
      BY <1>2, <2>1 DEF ConnInv, Connected, Identified
    <2>3. Identified(c)'
      BY <2>1, <2>2 DEF ConnInv, Identified
    <2>4. Told(c)'
      BY <2>1 DEF ConnInv, Told
    <2>5. Recorded(c)'
      BY <2>1 DEF ConnInv, Recorded, Reported, Types
    <2> QED BY <2>2, <2>3, <2>4, <2>5 DEF ConnInv
  <1>5. Attributed' /\ InOrder'
    BY DEF SessionInv, Attributed, InOrder
  <1>6. \A i \in DOMAIN log : stage[log[i].by] = "killed" => stage'[log[i].by] = "killed"
    BY <1>1, <1>2, LogTyped
  <1>7. Succession'
    <2>1. \A q, r \in Processes : stage'[q] = "ready" /\ stage'[r] = "ready" => q = r
      BY <1>1, <1>2 DEF Succession
    <2>2. \A i, j \in DOMAIN log :
            i < j /\ log[i].by # log[j].by => stage'[log[i].by] = "killed"
      BY <1>1, <1>6 DEF Succession
    <2> QED BY <1>1, <2>1, <2>2 DEF Succession, GenerationsDoNotInterleave
  <1> QED BY <1>3, <1>4, <1>5, <1>7 DEF SessionInv

LEMMA DeathStep ==
  ASSUME SessionInv, NEW p \in Processes, HubDies(p)
  PROVE  SessionInv'
  <1> USE DEF HubDies, Kill
  <1>1. TypeOK /\ Loaded /\ Succession
    BY DEF SessionInv
  <1>2. /\ stage'[p] = "killed" /\ \A q \in Processes \ {p} : stage'[q] = stage[q]
        /\ UNCHANGED <<agents, server, who, token, out, lines, log, lost>>
    BY <1>1 DEF TypeOK
  <1>3. TypeOK' /\ Loaded'
    BY <1>1 DEF TypeOK, Loaded, Loading
  <1>4. ASSUME NEW c \in Conns
        PROVE  \/ pc'[c] = pc[c] /\ excuse'[c] = excuse[c] /\ (server[c] = p => pc[c] = "closed")
               \/ /\ pc'[c] = "closed" /\ excuse'[c] /\ server[c] = p /\ pc[c] # "closed"
                  /\ pc[c] # "none"
    <2>1. server[c] = p => pc[c] # "none"
      BY StartupAssumption DEF SessionInv, ConnInv, Connected
    <2> QED BY <1>1, <2>1 DEF TypeOK, Cut
  <1>5. ASSUME NEW c \in Conns PROVE ConnInv(c)'
    <2>1. ConnInv(c)
      BY DEF SessionInv
    <2>2. \A t : /\ t \in Types(c)' <=> t \in Types(c)
                 /\ Reported(c, t)' <=> Reported(c, t)
      BY <1>2 DEF Types, Reported
    <2>3. Connected(c)'
      BY <1>2, <1>4, <2>1 DEF ConnInv, Connected
    <2>4. Identified(c)'
      BY <1>2, <1>4, <2>1 DEF ConnInv, Identified
    <2>5. Told(c)'
      BY <1>2, <1>4, <2>1 DEF ConnInv, Told
    <2>6. Recorded(c)'
      BY <1>2, <1>4, <2>1, <2>2 DEF ConnInv, Recorded
    <2> QED BY <2>3, <2>4, <2>5, <2>6 DEF ConnInv
  <1>6. \A i \in DOMAIN log : log[i].conn \in Conns /\ log[i].by \in Processes
    BY <1>1, LogTyped
  <1>7. Attributed' /\ InOrder'
    BY <1>2, <1>4, <1>6 DEF SessionInv, Attributed, InOrder
  <1>8. Succession'
    <2>1. \A q, r \in Processes : stage'[q] = "ready" /\ stage'[r] = "ready" => q = r
      BY <1>1, <1>2 DEF Succession
    <2>2. \A i, j \in DOMAIN log :
            i < j /\ log[i].by # log[j].by => stage'[log[i].by] = "killed"
      BY <1>1, <1>2, <1>6 DEF Succession
    <2> QED BY <1>1, <1>2, <2>1, <2>2 DEF Succession, GenerationsDoNotInterleave
  <1> QED BY <1>3, <1>5, <1>7, <1>8 DEF SessionInv

-----------------------------------------------------------------------------
(* The invariant, and what follows from it. *)

LEMMA InitSession == Init => SessionInv
  <1> SUFFICES ASSUME Init PROVE SessionInv
    OBVIOUS
  <1> USE DEF Init, StartupInit
  <1>1. TypeOK /\ Loaded
    <2>1. log \in Seq(Event) /\ \A c \in Conns : lines[c] \in Seq(Answers \cup {"envelope", "part"})
      OBVIOUS
    <2> QED BY <2>1 DEF TypeOK, Loaded
  <1>2. ASSUME NEW c \in Conns PROVE ConnInv(c)
    <2>1. Types(c) = {} /\ \A t : ~Reported(c, t)
      BY DEF Types, Reported
    <2>2. lines[c] = <<>> /\ <<>> \in Conversations
      BY DEF Conversations
    <2> QED BY <2>1, <2>2, FirstAndSecond DEF ConnInv, Connected, Identified, Told, Recorded
  <1>3. Attributed /\ InOrder /\ Succession
    BY DEF Attributed, InOrder, Succession, GenerationsDoNotInterleave
  <1> QED BY <1>1, <1>2, <1>3 DEF SessionInv

LEMMA ConnStepKeeps ==
  ASSUME SessionInv, NEW c \in Conns, ConnStep(c)
  PROVE  SessionInv'
  <1>1. OwnInv(c)'
    BY OwnStep DEF SessionInv, OwnInv
  <1>2. \A d \in Conns \ {c} : ConnInv(d)'
    BY StepIsLocal, OthersKeep DEF SessionInv
  <1>3. Loaded'
    BY DEF SessionInv, Loaded, ConnStep, startupVars
  <1> QED BY <1>1, <1>2, <1>3, AttributedStep, InOrderStep, SuccessionStep DEF SessionInv, OwnInv

LEMMA SessionSafety == Spec => []SessionInv
  <1>1. SessionInv /\ [Next]_vars => SessionInv'
    <2> SUFFICES ASSUME SessionInv, [Next]_vars PROVE SessionInv'
      OBVIOUS
    <2>1. ASSUME NEW p \in Processes, StartupStep(p), UNCHANGED sessionVars PROVE SessionInv'
      BY <2>1, LaunchStep
    <2>2. ASSUME NEW p \in Processes, HubDies(p) PROVE SessionInv'
      BY <2>2, DeathStep
    <2>3. ASSUME NEW c \in Conns, ConnStep(c) PROVE SessionInv'
      BY <2>3, ConnStepKeeps
    <2>4. CASE UNCHANGED vars
      <3>1. UNCHANGED <<stage, agents, pc, server, who, token, out, lines, excuse, log, lost>>
        BY <2>4 DEF vars, startupVars, sessionVars
      <3>2. TypeOK' /\ Loaded'
        BY <3>1 DEF SessionInv, TypeOK, Loaded
      <3>3. ASSUME NEW c \in Conns PROVE ConnInv(c)'
        <4>1. ConnInv(c)
          BY DEF SessionInv
        <4>2. Connected(c)' /\ Identified(c)'
          BY <3>1, <4>1 DEF ConnInv, Connected, Identified
        <4>3. Told(c)'
          BY <3>1, <4>1 DEF ConnInv, Told
        <4>4. Recorded(c)'
          BY <3>1, <4>1 DEF ConnInv, Recorded, Reported, Types
        <4> QED BY <4>2, <4>3, <4>4 DEF ConnInv
      <3>4. Attributed' /\ InOrder' /\ Succession'
        BY <3>1 DEF SessionInv, Attributed, InOrder, Succession, GenerationsDoNotInterleave
      <3> QED BY <3>2, <3>3, <3>4 DEF SessionInv
    <2> QED BY <2>1, <2>2, <2>3, <2>4 DEF Next, ConnStep
  <1> QED BY <1>1, InitSession, PTL DEF Spec

\* Every variable keeps its type.
THEOREM SessionTypeCorrect == Spec => []TypeOK
  <1>1. SessionInv => TypeOK
    BY DEF SessionInv
  <1> QED BY <1>1, SessionSafety, PTL

\* No event names anybody but the agent whose token its connection proved.
THEOREM OnlyProvedSpeak == Spec => []SpeakersAreProved
  <1>1. ASSUME SessionInv PROVE SpeakersAreProved
    <2> SUFFICES ASSUME NEW i \in DOMAIN log, NEW e, e = log[i]
                 PROVE  /\ e.type = "delivery" => e.as # HUB
                        /\ e.type \in {"accepted", "delivery"} /\ e.as # HUB =>
                             /\ e.as = who[e.conn] /\ e.as # Empty
                             /\ e.as \in DOMAIN agents[e.by]
                             /\ agents[e.by][e.as] = token[e.conn]
                        /\ e.as = HUB => lines[e.conn] = <<"ok", "part">>
      BY DEF SpeakersAreProved
    <2>1. e.conn \in Conns
      BY <1>1, LogTyped DEF SessionInv
    <2>2. /\ pc[e.conn] # "none" /\ e.by = server[e.conn]
          /\ e.as # None => e.as = HUB \/ e.as = who[e.conn]
          /\ e.type \in {"accepted", "delivery"} => e.as # None
          /\ e.as = HUB => e.type = "accepted" /\ lines[e.conn] = <<"ok", "part">>
      BY <1>1 DEF SessionInv, Attributed
    <2>3. ConnInv(e.conn)
      BY <1>1, <2>1 DEF SessionInv
    <2>4. who[e.conn] # None => /\ who[e.conn] \in DOMAIN agents[server[e.conn]]
                                /\ agents[server[e.conn]][who[e.conn]] = token[e.conn]
                                /\ who[e.conn] # Empty
      BY <2>2, <2>3 DEF ConnInv, Identified, Connected, Usable, Blank
    <2> QED BY <2>2, <2>4
  <1> QED BY <1>1, SessionSafety, PTL

\* The audit log has one writer at a time.
THEOREM OneWriterAtATime == Spec => []GenerationsDoNotInterleave
  <1>1. SessionInv => GenerationsDoNotInterleave
    BY DEF SessionInv, Succession
  <1> QED BY <1>1, SessionSafety, PTL

\* A connection serves one verb, and the hub has the last word if it can.
THEOREM OneVerbEach == Spec => []OneVerbOneAnswer
  <1>1. SessionInv => OneVerbOneAnswer
    BY DEF SessionInv, ConnInv, Told, OneVerbOneAnswer
  <1> QED BY <1>1, SessionSafety, PTL

\* The log tells each connection's story in order and once.
THEOREM LogTellsTheStory == Spec => []AuditTrail
  <1>1. ASSUME SessionInv PROVE AuditTrail
    <2>1. \A i, j \in DOMAIN log : i < j /\ log[i].conn = log[j].conn =>
            log[i].type = "connection" /\ log[j].type # "connection"
      BY <1>1 DEF SessionInv, InOrder
    <2>2. ASSUME NEW c \in Conns, NEW said, said = {lines[c][i] : i \in DOMAIN lines[c]}
          PROVE  /\ said # {} => Reported(c, "connection")
                 /\ "denied" \in said => Reported(c, "auth_failure")
                 /\ Reported(c, "auth_failure") => "ok" \notin said
                 /\ "accepted" \in said => "accepted" \in Types(c)
                 /\ "delivery" \in Types(c) => "envelope" \in said
                 /\ "envelope" \in said /\ pc[c] = "closed" /\ ~excuse[c] =>
                      Reported(c, "delivery")
      <3>1. Recorded(c) /\ lines[c] \in Conversations
        BY <1>1 DEF SessionInv, ConnInv, Told
      <3>2. /\ lines[c] = <<>> => said = {}
            /\ lines[c] = <<"denied">> => said = {"denied"}
            /\ lines[c] = <<"error">> => said = {"error"}
            /\ lines[c] = <<"ok">> => said = {"ok"}
            /\ \A l : lines[c] = <<"ok", l>> => said = {"ok", l}
        BY <2>2
      <3> QED BY <3>1, <3>2, FirstAndSecond DEF Recorded, Conversations
    <2> QED BY <2>1, <2>2 DEF AuditTrail
  <1> QED BY <1>1, SessionSafety, PTL
=============================================================================
