---------------------------- MODULE ExchangeProofs ----------------------------
(***************************************************************************)
(* Proofs about one run of the CLI: what an exit code tells the caller is  *)
(* what the hub did, whatever breaks in between.                           *)
(*                                                                         *)
(* The inductive invariant says what each line under way to the client     *)
(* means for as long as it can still be read (Meaning), and how far the    *)
(* two sides can be apart while nothing has gone wrong (Lockstep).         *)
(***************************************************************************)
EXTENDS Exchange, SequenceLemmas

\* Where the hub's task stands, given the verb and what it committed.
Task ==
  /\ run.verb = "send" => hub \notin {"wait", "write", "bounce"} /\ mail \in {"nowhere", "hub"}
  /\ run.verb = "await" => hub # "commit"
  /\ told # {} => hub = "closed"
  /\ mail \in {"written", "lost"} => hub \in {"bounce", "closed"}
  /\ hub = "bounce" => faulty

\* What a line that is under way says of the hub, and what was read of it.
Means(what) ==
  /\ what = "accepted" => "envelope" \in told
  /\ what = "envelope" => mail \in {"written", "lost"}
  /\ what = "timeout" => hub = "closed" /\ mail \in {"nowhere", "hub"}

Meaning ==
  /\ \A i \in DOMAIN down : Means(down[i].what)
  /\ client \in {"exit0", "panicked"} =>
       Means(IF run.verb = "send" THEN "accepted" ELSE "envelope")
  /\ client = "exit2" => Means("timeout")

AllWhole == \A i \in DOMAIN down : down[i].how = "whole"

\* A line the socket took in part is the last the hub writes.
TornLast == socket = "open" /\ hub \notin {"bounce", "closed"} => AllWhole

\* Nothing was committed, or taken from the queues.
Untouched == told = {} /\ mail \in {"nowhere", "hub"}

\* As long as nothing went wrong, request and reply alternate.
Quiet(line) == up = <<line>> /\ down = <<>>
Answered == /\ up = <<>> /\ Len(down) = 1 /\ down[1].how = "whole"
            /\ down[1].what = "error" => Untouched
Lockstep ==
  ~faulty =>
    /\ socket = "open"
    /\ client \in {"start", "body", "token", "connect"} =>
         hub = "hello" /\ up = <<>> /\ down = <<>> /\ Untouched
    /\ client = "hello" =>
         \/ hub = "hello" /\ Quiet(Put("hello", "whole"))
         \/ hub = "verb" /\ Answered /\ down[1].what = "ok"
         \/ hub = "closed" /\ Answered /\ down[1].what = "error"
    /\ client = "verb" =>
         \/ hub = "verb" /\ Quiet(Put("verb", "whole"))
         \/ hub \in {"commit", "wait", "write"} /\ up = <<>> /\ down = <<>>
         \/ hub = "closed" /\ Answered
    /\ client = "exit1" =>
         /\ (hub = "hello" /\ up = <<>>) \/ hub = "closed"
         /\ Untouched

ExchangeInv == TypeOK /\ Task /\ Meaning /\ TornLast /\ Lockstep

-----------------------------------------------------------------------------
(* Lines under way. *)

Lines(q) == q \in Seq(Line) /\ \A i \in DOMAIN q : i < Len(q) => q[i].how = "whole"

\* q says nothing that r and the new line do not say.
Says(q, r, what) ==
  \A i \in DOMAIN q : q[i].what = what \/ \E j \in DOMAIN r : q[i].what = r[j].what

Whats == {"hello", "verb", "ok", "error", "accepted", "timeout", "envelope"}
Hows == {"whole", "body", "part"}

LEMMA SentLine ==
  ASSUME TypeOK, TornLast, hub \notin {"bounce", "closed"},
         NEW what \in Whats, NEW how \in Hows
  PROVE  /\ Lines(Sent(what, how)) /\ Says(Sent(what, how), down, what)
         /\ how = "whole" /\ socket = "open" =>
              \A i \in DOMAIN Sent(what, how) : Sent(what, how)[i].how = "whole"
         /\ socket = "open" /\ down = <<>> =>
              Len(Sent(what, how)) = 1 /\ Sent(what, how)[1] = Put(what, how)
<1>1. PICK l : l = Put(what, how)
  OBVIOUS
<1>2. l \in Line /\ l.what = what /\ l.how = how
  BY <1>1 DEF Put, Line, Whats, Hows
<1>3. CASE socket = "broken"
  BY <1>3 DEF Sent, Lines, Says, TypeOK
<1>4. CASE socket = "open"
  <2>1. PICK q : q = Append(down, l)
    OBVIOUS
  <2>2. /\ q \in Seq(Line) /\ Len(q) = Len(down) + 1 /\ q[Len(down) + 1] = l
        /\ \A i \in DOMAIN down : q[i] = down[i]
        /\ DOMAIN q = 1..(Len(down) + 1) /\ DOMAIN down = 1..Len(down) /\ Len(down) \in Nat
    BY <1>2, <2>1 DEF TypeOK
  <2>3. \A i \in DOMAIN down : down[i].how = "whole"
    BY <1>4 DEF TornLast, AllWhole
  <2>4. \A i \in DOMAIN q : i \in DOMAIN down \/ i = Len(down) + 1
    BY <2>2
  <2>5. Lines(q)
    BY <2>2, <2>3, <2>4 DEF Lines
  <2>6. Says(q, down, what)
    BY <1>2, <2>2, <2>4 DEF Says
  <2>7. how = "whole" => \A i \in DOMAIN q : q[i].how = "whole"
    BY <1>2, <2>2, <2>3, <2>4
  <2>8. down = <<>> => Len(q) = 1 /\ q[1] = l
    BY <2>2
  <2>9. Sent(what, how) = q
    BY <1>1, <1>4, <2>1 DEF Sent
  <2> QED BY <1>1, <2>5, <2>6, <2>7, <2>8, <2>9
<1> QED BY <1>3, <1>4 DEF TypeOK

\* A reply keeps the lines in shape; one that fails is a fault.
LEMMA ReplyLine ==
  ASSUME TypeOK, TornLast, hub \notin {"bounce", "closed"}, UNCHANGED socket,
         NEW what \in Whats, NEW next, next # "bounce", Reply(what, next)
  PROVE  /\ Lines(down') /\ Says(down', down, what)
         /\ hub' \in {next, "closed"} /\ faulty' \in BOOLEAN
         /\ TornLast'
         /\ ~faulty' => /\ ~faulty /\ hub' = next
                        /\ socket = "open" /\ down = <<>> =>
                             Len(down') = 1 /\ down'[1] = Put(what, "whole")
<1>1. Lines(down) /\ Says(down, down, what)
  BY DEF TypeOK, Lines, Says
<1>2. CASE /\ down' = Sent(what, "whole")
           /\ hub' = next /\ UNCHANGED faulty
  <2>1. "whole" \in Hows
    BY DEF Hows
  <2> QED BY <1>2, <2>1, SentLine DEF TornLast, AllWhole, TypeOK
<1>3. CASE /\ down' \in {down} \cup {Sent(what, how) : how \in {"part", "body"}}
           /\ hub' = "closed" /\ faulty' = TRUE
  <2>1. CASE down' = down
    BY <1>1, <1>3, <2>1 DEF TornLast
  <2>2. CASE down' \in {Sent(what, how) : how \in {"part", "body"}}
    <3>1. PICK how \in {"part", "body"} : down' = Sent(what, how)
      BY <2>2
    <3>2. how \in Hows
      BY DEF Hows
    <3>3. Lines(down') /\ Says(down', down, what)
      BY <3>1, <3>2, SentLine
    <3> QED BY <1>3, <3>3 DEF TornLast
  <2> QED BY <1>3, <2>1, <2>2
<1> QED BY <1>2, <1>3 DEF Reply

\* No step takes back what a line says.
Irrevocable ==
  /\ "envelope" \in told => "envelope" \in told'
  /\ mail \in {"written", "lost"} => mail' \in {"written", "lost"}
  /\ hub = "closed" /\ mail \in {"nowhere", "hub"} =>
       hub' = "closed" /\ mail' \in {"nowhere", "hub"}

\* So what a line means is kept by every step that adds only a true one.
LEMMA StillMeant ==
  ASSUME Meaning, Irrevocable, UNCHANGED <<client, run>>,
         NEW what, Says(down', down, what), Means(what)'
  PROVE  Meaning'
<1>1. \A w : Means(w) => Means(w)'
  BY DEF Means, Irrevocable
<1>2. PICK d : d = down'
  OBVIOUS
<1>3. \A i \in DOMAIN d : Means(d[i].what)'
  BY <1>1, <1>2 DEF Meaning, Says
<1> QED BY <1>1, <1>2, <1>3 DEF Meaning

-----------------------------------------------------------------------------
(* The client's steps. *)

LEMMA NeedKept ==
  ASSUME ExchangeInv, NEW what, NEW next \in {"body", "token", "connect"}, Need(what, next),
         client \in {"start", "body", "token"}
  PROVE  ExchangeInv'
<1>1. client' \in {next, "exit1"}
  BY DEF Need
<1>2. TypeOK'
  BY <1>1 DEF ExchangeInv, TypeOK, Need, Ended
<1>3. Task'
  BY DEF ExchangeInv, Task, Need
<1>4. Meaning'
  BY <1>1 DEF ExchangeInv, Meaning, Means, Need
<1>5. TornLast'
  BY DEF ExchangeInv, TornLast, AllWhole, Need
<1>6. Lockstep'
  BY <1>1 DEF ExchangeInv, Lockstep, Untouched, Need
<1> QED BY <1>2, <1>3, <1>4, <1>5, <1>6 DEF ExchangeInv

\* The line goes out to a hub that has read every line before it.
LEMMA Uttered ==
  ASSUME up \in Seq(Line), NEW line \in {"hello", "verb"}, NEW next, Utter(line, next)
  PROVE  /\ up' \in Seq(Line)
         /\ \/ socket = "open" /\ client' = next /\ (up = <<>> => up' = <<Put(line, "whole")>>)
            \/ socket = "broken" /\ client' = "exit1"
<1>1. PICK l : l = Put(line, "whole")
  OBVIOUS
<1>2. l \in Line
  BY <1>1 DEF Put, Line
<1>3. Append(up, l) \in Seq(Line)
  BY <1>2
<1>4. Append(<<>>, l) = <<l>>
  OBVIOUS
<1> QED BY <1>1, <1>3, <1>4 DEF Utter, Exit

LEMMA ConnectKept ==
  ASSUME ExchangeInv, Connect
  PROVE  ExchangeInv'
<1>1. UNCHANGED <<run, hub, down, socket, mail, told, faulty>> /\ client = "connect"
  BY DEF Connect
<1>2. /\ up' \in Seq(Line) /\ client' \in {"hello", "exit1"}
      /\ \/ client' = "exit1" /\ (up' = up \/ socket = "broken")
         \/ client' = "hello" /\ (up = <<>> => up' = <<Put("hello", "whole")>>)
  <2>1. up \in Seq(Line)
    BY DEF ExchangeInv, TypeOK
  <2>2. CASE Utter("hello", "hello")
    BY <2>1, <2>2, Uttered
  <2>3. CASE Exit("exit1") /\ UNCHANGED up
    BY <2>1, <2>3 DEF Exit
  <2> QED BY <2>2, <2>3 DEF Connect
<1>3. TypeOK'
  BY <1>1, <1>2 DEF ExchangeInv, TypeOK, Ended
<1>4. Task'
  BY <1>1 DEF ExchangeInv, Task
<1>5. Meaning'
  BY <1>1, <1>2 DEF ExchangeInv, Meaning, Means
<1>6. TornLast'
  BY <1>1 DEF ExchangeInv, TornLast, AllWhole
<1>7. Lockstep'
  <2>1. CASE faulty
    BY <1>1, <2>1 DEF Lockstep
  <2>2. CASE ~faulty
    <3>1. hub = "hello" /\ up = <<>> /\ down = <<>> /\ Untouched /\ socket = "open"
      BY <1>1, <2>2 DEF ExchangeInv, Lockstep
    <3>2. Untouched' /\ (client' = "hello" => Quiet(Put("hello", "whole"))')
      BY <1>1, <1>2, <3>1 DEF Untouched, Quiet
    <3> QED BY <1>1, <1>2, <3>1, <3>2 DEF Lockstep
  <2> QED BY <2>1, <2>2 DEF ExchangeInv, TypeOK
<1> QED BY <1>3, <1>4, <1>5, <1>6, <1>7 DEF ExchangeInv

LEMMA BeginKept ==
  ASSUME ExchangeInv, Begin
  PROVE  ExchangeInv'
<1>1. CASE ParseFlags
  <2>1. PICK next \in {"body", "token"} : Need("flags", next)
    BY <1>1 DEF ParseFlags
  <2> QED BY <1>1, <2>1, NeedKept DEF ParseFlags
<1>2. CASE ReadBody
  BY <1>2, NeedKept DEF ReadBody
<1>3. CASE ReadToken
  BY <1>3, NeedKept DEF ReadToken
<1> QED BY <1>1, <1>2, <1>3, ConnectKept DEF Begin

\* A command that gives up: under lockstep the hub never made it wait in vain.
LEMMA FailReplyKept ==
  ASSUME ExchangeInv, FailReply
  PROVE  ExchangeInv'
<1>1. UNCHANGED <<run, hub, up, down, socket, mail, told, faulty>> /\ client' = "exit1"
  BY DEF FailReply, Exit
<1>2. faulty
  <2>1. SUFFICES ASSUME ~faulty
                 PROVE  FALSE
    BY DEF ExchangeInv, TypeOK
  <2>2. socket = "open" /\ hub = "closed"
    BY <2>1 DEF ExchangeInv, Lockstep, FailReply
  <2>3. Answered
    BY <2>1, <2>2 DEF ExchangeInv, Lockstep, FailReply
  <2>4. down # <<>> /\ Head(down).how = "whole"
    BY <2>3 DEF Answered, ExchangeInv, TypeOK
  <2> QED BY <2>4 DEF FailReply, HasReply, Complete
<1>3. TypeOK'
  BY <1>1 DEF ExchangeInv, TypeOK, Ended
<1>4. Task'
  BY <1>1 DEF ExchangeInv, Task
<1>5. Meaning'
  BY <1>1 DEF ExchangeInv, Meaning, Means
<1>6. TornLast'
  BY <1>1 DEF ExchangeInv, TornLast, AllWhole
<1>7. Lockstep'
  BY <1>1, <1>2 DEF Lockstep
<1> QED BY <1>3, <1>4, <1>5, <1>6, <1>7 DEF ExchangeInv

\* What reading the first line leaves.
LEMMA RestOfLines ==
  ASSUME TypeOK, down # <<>>
  PROVE  /\ 1 \in DOMAIN down /\ Head(down) = down[1] /\ down[1] \in Line
         /\ Lines(Tail(down)) /\ Says(Tail(down), down, down[1].what)
         /\ AllWhole => \A i \in DOMAIN Tail(down) : Tail(down)[i].how = "whole"
         /\ Len(down) = 1 => Tail(down) = <<>>
<1>1. PICK q : q = Tail(down)
  OBVIOUS
<1>2. /\ q \in Seq(Line) /\ Len(down) \in Nat \ {0} /\ Len(q) = Len(down) - 1
      /\ DOMAIN down = 1..Len(down) /\ DOMAIN q = 1..(Len(down) - 1)
      /\ \A i \in 1..(Len(down) - 1) : q[i] = down[i + 1]
  BY <1>1 DEF TypeOK
<1>3. \A i \in DOMAIN q : /\ i + 1 \in DOMAIN down /\ q[i] = down[i + 1]
                          /\ i < Len(q) => i + 1 < Len(down)
  BY <1>2
<1>4. \A i \in DOMAIN down : i < Len(down) => down[i].how = "whole"
  BY DEF TypeOK
<1>5. Lines(q)
  BY <1>2, <1>3, <1>4 DEF Lines
<1>6. Says(q, down, down[1].what)
  BY <1>3 DEF Says
<1>7. AllWhole => \A i \in DOMAIN q : q[i].how = "whole"
  BY <1>3 DEF AllWhole
<1>8. 1 \in DOMAIN down /\ Head(down) = down[1] /\ down[1] \in Line
  BY <1>2 DEF TypeOK
<1>9. Len(down) = 1 => q = <<>>
  BY <1>2
<1> QED BY <1>1, <1>5, <1>6, <1>7, <1>8, <1>9

\* The four ways to take a reply: the next verb, a result, a broken socket, no.
Replied(l) ==
  \/ /\ client = "hello" /\ l.what = "ok" /\ client' = "verb" /\ socket = "open"
     /\ up = <<>> => up' = <<Put("verb", "whole")>>
  \/ client = "hello" /\ l.what = "ok" /\ client' = "exit1" /\ socket = "broken"
  \/ /\ client = "verb" /\ client' \in {"exit0", "panicked"}
     /\ l.what = IF run.verb = "send" THEN "accepted" ELSE "envelope"
  \/ client = "verb" /\ client' = "exit2" /\ l.what = "timeout"
  \/ /\ client' = "exit1"
     /\ \/ client = "hello" /\ l.what # "ok"
        \/ client = "verb" /\ l.what = "error"

LEMMA ReadReplyKept ==
  ASSUME ExchangeInv, ReadReply
  PROVE  ExchangeInv'
<1> USE DEF ExchangeInv
<1>1. /\ UNCHANGED <<run, hub, socket, mail, told, faulty>>
      /\ down # <<>> /\ down' = Tail(down) /\ client \in {"hello", "verb"}
  BY DEF ReadReply, HasReply
<1>2. PICK l : l = down[1]
  OBVIOUS
<1>3. /\ 1 \in DOMAIN down /\ Head(down) = l
      /\ Lines(down') /\ Says(down', down, l.what)
      /\ AllWhole => \A i \in DOMAIN down' : down'[i].how = "whole"
      /\ Len(down) = 1 => down' = <<>>
  BY <1>1, <1>2, RestOfLines
<1>4. up' \in Seq(Line) /\ client' \in {"verb"} \cup Ended /\ Replied(l)
  <2>1. CASE client = "hello" /\ l.what = "ok" /\ Utter("verb", "verb")
    BY <2>1, Uttered DEF TypeOK, Replied, Ended
  <2>2. CASE client = "verb" /\ Expected(l)
    <3>1. /\ up' = up
          /\ \/ run.verb = "send" /\ l.what = "accepted" /\ Output
             \/ run.verb = "await" /\ l.what = "envelope" /\ Output
             \/ run.verb = "await" /\ l.what = "timeout" /\ Exit("exit2")
      BY <2>2 DEF Expected
    <3> QED BY <2>2, <3>1 DEF Output, Exit, TypeOK, Replied, Ended
  <2>3. CASE Unexpected(l)
    <3>1. up \in Seq(Line)
      BY DEF TypeOK
    <3>2. /\ client' = "exit1" /\ up' = up
          /\ \/ client = "hello" /\ l.what # "ok"
             \/ client = "verb" /\ l.what = "error"
      BY <2>3 DEF Unexpected, Exit
    <3>3. Replied(l)
      BY <3>2, Zenon DEF Replied
    <3> QED BY <3>1, <3>2, <3>3 DEF Ended
  <2> QED BY <1>3, <2>1, <2>2, <2>3 DEF ReadReply, Expected
<1>5. TypeOK'
  BY <1>1, <1>3, <1>4 DEF TypeOK, Lines
<1>6. Task'
  BY <1>1 DEF Task
<1>7. Meaning'
  <2>1. Means(l.what)
    BY <1>2, <1>3 DEF Meaning
  <2>2. PICK d : d = down'
    OBVIOUS
  <2>3. \A i \in DOMAIN d : Means(d[i].what)
    BY <1>3, <2>1, <2>2 DEF Meaning, Says
  <2>4. \A w : (Means(w) => Means(w)')
    <3>1. UNCHANGED <<told, mail, hub>>
      BY <1>1
    <3> QED BY <3>1 DEF Means
  <2>5. /\ client' \in {"exit0", "panicked"} =>
             Means(IF run.verb = "send" THEN "accepted" ELSE "envelope")
        /\ client' = "exit2" => Means("timeout")
    BY <1>4, <2>1 DEF Replied
  <2>6. client' \in {"exit0", "panicked"} =>
             Means(IF run.verb = "send" THEN "accepted" ELSE "envelope")'
    BY <1>1, <2>4, <2>5
  <2> QED BY <1>1, <2>2, <2>3, <2>4, <2>5, <2>6 DEF Meaning
<1>8. TornLast'
  BY <1>1, <1>3 DEF TornLast, AllWhole
<1>9. Lockstep'
  <2>1. CASE faulty
    BY <1>1, <2>1 DEF Lockstep
  <2>2. CASE ~faulty
    <3>1. down = <<>> => FALSE
      BY <1>1
    <3>2. /\ socket = "open" /\ Answered
          /\ client = "hello" => \/ hub = "verb" /\ l.what = "ok"
                                 \/ hub = "closed" /\ l.what = "error"
          /\ client = "verb" => hub = "closed"
      BY <1>1, <1>2, <2>2, <3>1 DEF Lockstep, Quiet
    <3>3. up = <<>> /\ down' = <<>> /\ (l.what = "error" => Untouched)
      BY <1>2, <1>3, <3>2 DEF Answered
    <3>4. (l.what = "error" => Untouched') /\ ("ok" # "error")
      BY <1>1, <3>3 DEF Untouched
    <3>5. client' = "verb" => hub' = "verb" /\ Quiet(Put("verb", "whole"))'
      BY <1>1, <1>4, <3>2, <3>3 DEF Replied, Quiet
    <3>6. client' = "exit1" => hub' = "closed" /\ Untouched'
      BY <1>1, <1>4, <3>2, <3>4 DEF Replied
    <3> QED BY <1>1, <1>4, <3>2, <3>5, <3>6 DEF Replied, Lockstep
  <2> QED BY <2>1, <2>2 DEF TypeOK
<1> QED BY <1>5, <1>6, <1>7, <1>8, <1>9

-----------------------------------------------------------------------------
(* The hub's steps. *)

\* Until its task is done with the envelope, the hub has changed nothing.
LEMMA NothingYet ==
  ASSUME TypeOK, Task, hub \in {"hello", "verb", "commit", "wait"}
  PROVE  Untouched
BY DEF TypeOK, Task, Untouched

\* A reply under lockstep is the only line under way, and the hub's last but one.
LEMMA ReplyAnswers ==
  ASSUME TypeOK, TornLast, hub \notin {"bounce", "closed"}, UNCHANGED socket,
         NEW what \in Whats, NEW next, next # "bounce", Reply(what, next),
         ~faulty', socket = "open", down = <<>>, up' = <<>>,
         what = "error" => Untouched'
  PROVE  Answered' /\ down'[1].what = what
<1>1. Len(down') = 1 /\ down'[1] = Put(what, "whole")
  BY ReplyLine
<1> QED BY <1>1 DEF Answered, Put

\* Reading the only line leaves none.
LEMMA ReadUp ==
  ASSUME TypeOK, up # <<>>, up' = Tail(up)
  PROVE  up' \in Seq(Line) /\ \A line : Quiet(line) => up' = <<>>
<1>1. Tail(up) \in Seq(Line)
  BY DEF TypeOK
<1>2. \A line : Tail(<<line>>) = <<>>
  OBVIOUS
<1> QED BY <1>1, <1>2 DEF Quiet

LEMMA ReadHelloKept ==
  ASSUME ExchangeInv, ReadHello
  PROVE  ExchangeInv'
<1> USE DEF ExchangeInv
<1>1. /\ UNCHANGED <<run, client, socket, mail, told>>
      /\ hub = "hello" /\ up # <<>> /\ up' = Tail(up)
  BY DEF ReadHello
<1>2. PICK what \in {"ok", "error"}, next \in {"verb", "closed"} :
        /\ \/ what = "ok" /\ next = "verb"
           \/ what = "error" /\ next = "closed"
        /\ Reply(what, next)
  BY DEF ReadHello
<1>3. what \in Whats /\ next # "bounce"
  BY DEF Whats
<1>4. Untouched /\ Untouched'
  BY <1>1, NothingYet DEF Untouched
<1>5. /\ Lines(down') /\ Says(down', down, what) /\ TornLast'
      /\ hub' \in {next, "closed"} /\ faulty' \in BOOLEAN
      /\ ~faulty' => ~faulty /\ hub' = next
  BY <1>1, <1>2, <1>3, ReplyLine
<1>6. TypeOK'
  BY <1>1, <1>4, <1>5, ReadUp DEF TypeOK, Lines, Untouched
<1>7. Task'
  BY <1>1, <1>4, <1>5 DEF Task, Untouched
<1>8. Meaning'
  <2>1. Means(what)'
    BY <1>2 DEF Means
  <2>2. Irrevocable
    BY <1>1 DEF Irrevocable
  <2> QED BY <1>1, <1>5, <2>1, <2>2, StillMeant
<1>9. Lockstep'
  <2>1. SUFFICES ASSUME ~faulty'
                 PROVE  Lockstep'
    BY DEF Lockstep
  <2>2. ~faulty /\ hub' = next
    BY <1>5, <2>1
  <2>3. socket = "open" /\ client \notin {"start", "body", "token", "connect", "verb", "exit1"}
    BY <1>1, <2>2 DEF Lockstep, Answered
  <2>4. client = "hello" => Answered' /\ down'[1].what = what
    <3>1. SUFFICES ASSUME client = "hello"
                   PROVE  Answered' /\ down'[1].what = what
      OBVIOUS
    <3>2. Quiet(Put("hello", "whole"))
      BY <1>1, <2>2, <3>1 DEF Lockstep
    <3>3. up' = <<>> /\ down = <<>>
      BY <1>1, <3>2, ReadUp DEF Quiet
    <3> QED BY <1>1, <1>2, <1>3, <1>4, <2>1, <2>3, <3>3, ReplyAnswers
  <2> QED BY <1>1, <1>2, <2>2, <2>3, <2>4 DEF Lockstep
<1> QED BY <1>5, <1>6, <1>7, <1>8, <1>9

LEMMA RefuseVerbKept ==
  ASSUME ExchangeInv, hub = "verb", up # <<>>, up' = Tail(up), Reply("error", "closed"),
         UNCHANGED <<run, client, socket, mail, told>>
  PROVE  ExchangeInv'
<1> USE DEF ExchangeInv
<1>1. "error" \in Whats
  BY DEF Whats
<1>2. Untouched /\ Untouched'
  BY NothingYet DEF Untouched
<1>3. /\ Lines(down') /\ Says(down', down, "error") /\ TornLast'
      /\ hub' = "closed" /\ faulty' \in BOOLEAN
      /\ ~faulty' => ~faulty
  BY <1>1, ReplyLine
<1>4. TypeOK'
  BY <1>2, <1>3, ReadUp DEF TypeOK, Lines, Untouched
<1>5. Task'
  BY <1>2, <1>3 DEF Task, Untouched
<1>6. Meaning'
  <2>1. Means("error")' /\ Irrevocable
    BY DEF Means, Irrevocable
  <2> QED BY <1>3, <2>1, StillMeant
<1>7. Lockstep'
  <2>1. SUFFICES ASSUME ~faulty'
                 PROVE  Lockstep'
    BY DEF Lockstep
  <2>2. ~faulty
    BY <1>3, <2>1
  <2>3. socket = "open" /\ client \notin {"start", "body", "token", "connect", "hello", "exit1"}
    BY <2>2 DEF Lockstep, Answered, Quiet
  <2>4. client = "verb" => Answered'
    <3>1. SUFFICES ASSUME client = "verb"
                   PROVE  Answered'
      OBVIOUS
    <3>2. Quiet(Put("verb", "whole"))
      BY <2>2, <3>1 DEF Lockstep
    <3>3. up' = <<>> /\ down = <<>>
      BY <3>2, ReadUp DEF Quiet
    <3> QED BY <1>1, <1>2, <2>1, <2>3, <3>3, ReplyAnswers
  <2> QED BY <1>3, <2>3, <2>4 DEF Lockstep
<1> QED BY <1>3, <1>4, <1>5, <1>6, <1>7

LEMMA ReadVerbKept ==
  ASSUME ExchangeInv, ReadVerb
  PROVE  ExchangeInv'
<1>1. CASE ~run.valid
  BY <1>1, RefuseVerbKept DEF ReadVerb
<1>2. CASE run.valid
  <2> USE DEF ExchangeInv
  <2>1. /\ hub = "verb" /\ up # <<>> /\ up' = Tail(up)
        /\ hub' = (IF run.verb = "send" THEN "commit" ELSE "wait")
        /\ UNCHANGED <<run, client, socket, mail, told, down, faulty>>
    BY <1>2 DEF ReadVerb
  <2>2. TypeOK'
    BY <2>1, ReadUp DEF TypeOK
  <2>3. Task'
    BY <2>1 DEF Task, TypeOK
  <2>4. Meaning'
    <3>1. Means("ok")' /\ Irrevocable /\ Says(down', down, "ok")
      BY <2>1 DEF Means, Irrevocable, Says
    <3> QED BY <2>1, <3>1, StillMeant
  <2>5. TornLast'
    BY <2>1 DEF TornLast, AllWhole
  <2>6. Lockstep'
    <3>1. SUFFICES ASSUME ~faulty
                   PROVE  Lockstep'
      BY <2>1 DEF Lockstep
    <3>2. socket = "open" /\ client \notin {"start", "body", "token", "connect", "hello", "exit1"}
      BY <2>1, <3>1 DEF Lockstep, Answered, Quiet
    <3>3. client = "verb" => up' = <<>> /\ down' = <<>>
      <4>1. client = "verb" => Quiet(Put("verb", "whole"))
        BY <2>1, <3>1 DEF Lockstep
      <4> QED BY <2>1, <4>1, ReadUp DEF Quiet
    <3> QED BY <2>1, <3>2, <3>3 DEF Lockstep
  <2> QED BY <2>2, <2>3, <2>4, <2>5, <2>6
<1> QED BY <1>1, <1>2

LEMMA CommitSendKept ==
  ASSUME ExchangeInv, CommitSend
  PROVE  ExchangeInv'
<1> USE DEF ExchangeInv
<1>1. UNCHANGED <<run, client, up, socket>> /\ hub = "commit"
  BY DEF CommitSend
<1>2. PICK what \in {"accepted", "error"} :
        /\ Reply(what, "closed")
        /\ \/ what = "accepted" /\ mail' = "hub" /\ told' = {"envelope"}
           \/ what = "error" /\ UNCHANGED <<mail, told>>
  BY DEF CommitSend
<1>3. what \in Whats
  BY DEF Whats
<1>4. Untouched
  BY <1>1, NothingYet
<1>5. /\ Lines(down') /\ Says(down', down, what) /\ TornLast'
      /\ hub' = "closed" /\ faulty' \in BOOLEAN
      /\ ~faulty' => ~faulty
  BY <1>1, <1>2, <1>3, ReplyLine
<1>6. TypeOK'
  BY <1>1, <1>2, <1>4, <1>5 DEF TypeOK, Lines, Untouched
<1>7. Task'
  BY <1>1, <1>2, <1>4, <1>5 DEF Task, Untouched
<1>8. Meaning'
  <2>1. Means(what)'
    BY <1>2 DEF Means
  <2>2. Irrevocable
    BY <1>1, <1>2, <1>4 DEF Irrevocable, Untouched
  <2> QED BY <1>1, <1>5, <2>1, <2>2, StillMeant
<1>9. Lockstep'
  <2>1. SUFFICES ASSUME ~faulty'
                 PROVE  Lockstep'
    BY DEF Lockstep
  <2>2. socket = "open" /\ client \notin {"start", "body", "token", "connect", "hello", "exit1"}
    BY <1>1, <1>5, <2>1 DEF Lockstep
  <2>3. client = "verb" => Answered'
    <3>1. SUFFICES ASSUME client = "verb"
                   PROVE  Answered'
      OBVIOUS
    <3>2. up' = <<>> /\ down = <<>>
      BY <1>1, <1>5, <2>1, <3>1 DEF Lockstep
    <3>3. what = "error" => Untouched'
      BY <1>2, <1>4 DEF Untouched
    <3> QED BY <1>1, <1>2, <1>3, <2>1, <2>2, <3>2, <3>3, ReplyAnswers
  <2> QED BY <1>1, <1>5, <2>2, <2>3 DEF Lockstep
<1> QED BY <1>5, <1>6, <1>7, <1>8, <1>9

LEMMA TimeoutKept ==
  ASSUME ExchangeInv, Timeout
  PROVE  ExchangeInv'
<1> USE DEF ExchangeInv
<1>1. /\ UNCHANGED <<run, client, up, socket, mail, told>>
      /\ hub = "wait" /\ Reply("timeout", "closed") /\ "timeout" \in Whats
  BY DEF Timeout, Whats
<1>2. Untouched /\ Untouched'
  BY <1>1, NothingYet DEF Untouched
<1>3. /\ Lines(down') /\ Says(down', down, "timeout") /\ TornLast'
      /\ hub' = "closed" /\ faulty' \in BOOLEAN
      /\ ~faulty' => ~faulty
  BY <1>1, ReplyLine
<1>4. TypeOK'
  BY <1>1, <1>2, <1>3 DEF TypeOK, Lines, Untouched
<1>5. Task'
  BY <1>1, <1>2, <1>3 DEF Task, Untouched
<1>6. Meaning'
  <2>1. Means("timeout")' /\ Irrevocable
    BY <1>1, <1>2, <1>3 DEF Means, Irrevocable, Untouched
  <2> QED BY <1>1, <1>3, <2>1, StillMeant
<1>7. Lockstep'
  <2>1. SUFFICES ASSUME ~faulty'
                 PROVE  Lockstep'
    BY DEF Lockstep
  <2>2. socket = "open" /\ client \notin {"start", "body", "token", "connect", "hello", "exit1"}
    BY <1>1, <1>3, <2>1 DEF Lockstep
  <2>3. client = "verb" => Answered'
    <3>1. SUFFICES ASSUME client = "verb"
                   PROVE  Answered'
      OBVIOUS
    <3>2. up' = <<>> /\ down = <<>>
      BY <1>1, <1>3, <2>1, <3>1 DEF Lockstep
    <3> QED BY <1>1, <1>2, <2>1, <2>2, <3>2, ReplyAnswers
  <2> QED BY <1>1, <1>3, <2>2, <2>3 DEF Lockstep
<1> QED BY <1>3, <1>4, <1>5, <1>6, <1>7

\* Steps that write nothing.
LEMMA ArriveKept ==
  ASSUME ExchangeInv, Arrive
  PROVE  ExchangeInv'
<1> USE DEF ExchangeInv
<1>1. /\ UNCHANGED <<run, client, hub, up, down, socket, told, faulty>>
      /\ run.verb = "await" /\ mail = "nowhere" /\ mail' = "hub"
  BY DEF Arrive
<1>2. TypeOK'
  BY <1>1 DEF TypeOK
<1>3. Task'
  BY <1>1 DEF Task
<1>4. Meaning'
  <2>1. Means("ok")' /\ Irrevocable /\ Says(down', down, "ok")
    BY <1>1 DEF Means, Irrevocable, Says
  <2> QED BY <1>1, <2>1, StillMeant
<1>5. TornLast'
  BY <1>1 DEF TornLast, AllWhole
<1>6. Lockstep'
  <2>1. Untouched => Untouched'
    BY <1>1 DEF Untouched
  <2>2. Answered => Answered'
    BY <1>1, <2>1 DEF Answered
  <2>3. \A line : Quiet(line) => Quiet(line)'
    BY <1>1 DEF Quiet
  <2>4. UNCHANGED <<hub, client, up, down, socket, faulty>>
    BY <1>1
  <2> QED BY <2>1, <2>2, <2>3, <2>4 DEF Lockstep
<1> QED BY <1>2, <1>3, <1>4, <1>5, <1>6

LEMMA TakeMailKept ==
  ASSUME ExchangeInv, TakeMail
  PROVE  ExchangeInv'
<1> USE DEF ExchangeInv
<1>1. /\ UNCHANGED <<run, client, up, down, socket, told, faulty>>
      /\ hub = "wait" /\ mail = "hub" /\ mail' = "out" /\ hub' = "write"
  BY DEF TakeMail
<1>2. TypeOK'
  BY <1>1 DEF TypeOK
<1>3. Task'
  BY <1>1 DEF Task
<1>4. Meaning'
  <2>1. Means("ok")' /\ Irrevocable /\ Says(down', down, "ok")
    BY <1>1 DEF Means, Irrevocable, Says
  <2> QED BY <1>1, <2>1, StillMeant
<1>5. TornLast'
  BY <1>1 DEF TornLast, AllWhole
<1>6. Lockstep'
  BY <1>1 DEF Lockstep
<1> QED BY <1>2, <1>3, <1>4, <1>5, <1>6

\* A silent end of the task: the client is gone, or something is faulty.
LEMMA NoLineKept ==
  ASSUME ExchangeInv, NoLine
  PROVE  ExchangeInv'
<1> USE DEF ExchangeInv
<1>1. /\ UNCHANGED <<run, client, up, down, socket, mail, told, faulty>>
      /\ hub \in {"hello", "verb"} /\ hub' = "closed"
      /\ client \in Ended \/ socket = "broken"
  BY DEF NoLine
<1>2. Untouched
  BY <1>1, NothingYet
<1>3. TypeOK'
  BY <1>1, <1>2 DEF TypeOK, Untouched
<1>4. Task'
  BY <1>1, <1>2 DEF Task, Untouched
<1>5. Meaning'
  <2>1. Means("ok")' /\ Irrevocable /\ Says(down', down, "ok")
    BY <1>1, <1>2 DEF Means, Irrevocable, Says, Untouched
  <2> QED BY <1>1, <2>1, StillMeant
<1>6. TornLast'
  BY <1>1 DEF TornLast
<1>7. Lockstep'
  <2>1. Untouched'
    BY <1>1, <1>2 DEF Untouched
  <2>2. ~faulty => socket = "open" /\ client \in Ended
    BY <1>1 DEF Lockstep
  <2> QED BY <1>1, <2>1, <2>2 DEF Lockstep, Ended
<1> QED BY <1>3, <1>4, <1>5, <1>6, <1>7

LEMMA EmitBounceKept ==
  ASSUME ExchangeInv, EmitBounce
  PROVE  ExchangeInv'
<1> USE DEF ExchangeInv
<1>1. /\ UNCHANGED <<run, client, up, down, socket, mail, faulty>>
      /\ hub = "bounce" /\ hub' = "closed"
      /\ told' \in {told, told \cup {"bounce"}}
  BY DEF EmitBounce
<1>2. TypeOK'
  BY <1>1 DEF TypeOK
<1>3. Task'
  BY <1>1 DEF Task
<1>4. Meaning'
  <2>1. Means("ok")' /\ Irrevocable /\ Says(down', down, "ok")
    BY <1>1 DEF Means, Irrevocable, Says
  <2> QED BY <1>1, <2>1, StillMeant
<1>5. TornLast'
  BY <1>1 DEF TornLast
<1>6. Lockstep'
  BY <1>1 DEF Task, Lockstep
<1> QED BY <1>2, <1>3, <1>4, <1>5, <1>6

LEMMA WriteEnvelopeKept ==
  ASSUME ExchangeInv, WriteEnvelope
  PROVE  ExchangeInv'
<1> USE DEF ExchangeInv
<1>1. /\ UNCHANGED <<run, client, up, socket, told, faulty>>
      /\ hub = "write" /\ hub' = "closed" /\ mail' = "written"
      /\ down' = Sent("envelope", "whole")
      /\ "envelope" \in Whats /\ "whole" \in Hows
  BY DEF WriteEnvelope, Whats, Hows
<1>2. /\ Lines(down') /\ Says(down', down, "envelope")
      /\ socket = "open" /\ down = <<>> =>
           Len(down') = 1 /\ down'[1] = Put("envelope", "whole")
  BY <1>1, SentLine
<1>3. TypeOK'
  BY <1>1, <1>2 DEF TypeOK, Lines
<1>4. mail = "out" /\ told = {}
  BY <1>1 DEF TypeOK, Task
<1>5. Task'
  BY <1>1, <1>4 DEF Task
<1>6. Meaning'
  <2>1. Means("envelope")' /\ Irrevocable
    BY <1>1, <1>4 DEF Means, Irrevocable
  <2> QED BY <1>1, <1>2, <2>1, StillMeant
<1>7. TornLast'
  BY <1>1 DEF TornLast
<1>8. Lockstep'
  <2>1. SUFFICES ASSUME ~faulty
                 PROVE  Lockstep'
    BY <1>1 DEF Lockstep
  <2>2. socket = "open" /\ client \notin {"start", "body", "token", "connect", "hello", "exit1"}
    BY <1>1, <2>1 DEF Lockstep
  <2>3. client = "verb" => Answered'
    <3>1. client = "verb" => up' = <<>> /\ down = <<>>
      BY <1>1, <2>1 DEF Lockstep
    <3> QED BY <1>2, <2>2, <3>1 DEF Answered, Put
  <2> QED BY <1>1, <2>2, <2>3 DEF Lockstep
<1> QED BY <1>3, <1>5, <1>6, <1>7, <1>8

LEMMA WriteFailsCleanKept ==
  ASSUME ExchangeInv, WriteFailsClean
  PROVE  ExchangeInv'
<1> USE DEF ExchangeInv
<1>1. /\ UNCHANGED <<run, client, up, down, socket, told>>
      /\ hub = "write" /\ hub' = "closed" /\ mail' = "hub" /\ faulty' = TRUE
  BY DEF WriteFailsClean
<1>2. mail = "out" /\ told = {}
  BY <1>1 DEF TypeOK, Task
<1>3. TypeOK'
  BY <1>1 DEF TypeOK
<1>4. Task'
  BY <1>1, <1>2 DEF Task
<1>5. Meaning'
  <2>1. Means("ok")' /\ Irrevocable /\ Says(down', down, "ok")
    BY <1>1, <1>2 DEF Means, Irrevocable, Says
  <2> QED BY <1>1, <2>1, StillMeant
<1>6. TornLast'
  BY <1>1 DEF TornLast
<1>7. Lockstep'
  BY <1>1 DEF Lockstep
<1> QED BY <1>3, <1>4, <1>5, <1>6, <1>7

LEMMA WriteFailsPartialKept ==
  ASSUME ExchangeInv, WriteFailsPartial
  PROVE  ExchangeInv'
<1> USE DEF ExchangeInv
<1>1. /\ UNCHANGED <<run, client, up, socket, told>>
      /\ hub = "write" /\ hub' = "bounce" /\ mail' = "lost" /\ faulty' = TRUE
      /\ "envelope" \in Whats
  BY DEF WriteFailsPartial, Whats
<1>2. PICK how \in {"part", "body"} : down' = Sent("envelope", how)
  BY DEF WriteFailsPartial, Torn
<1>3. Lines(down') /\ Says(down', down, "envelope")
  BY <1>1, <1>2, SentLine DEF Hows
<1>4. mail = "out" /\ told = {}
  BY <1>1 DEF TypeOK, Task
<1>5. TypeOK'
  BY <1>1, <1>3 DEF TypeOK, Lines
<1>6. Task'
  BY <1>1, <1>4 DEF Task
<1>7. Meaning'
  <2>1. Means("envelope")' /\ Irrevocable
    BY <1>1, <1>4 DEF Means, Irrevocable
  <2> QED BY <1>1, <1>3, <2>1, StillMeant
<1>8. TornLast'
  BY <1>1 DEF TornLast
<1>9. Lockstep'
  BY <1>1 DEF Lockstep
<1> QED BY <1>5, <1>6, <1>7, <1>8, <1>9

-----------------------------------------------------------------------------
(* What the environment does. *)

\* A socket that breaks cuts the lines short and says nothing new.
LEMMA CutLines ==
  ASSUME TypeOK, NEW q \in Cuts(down)
  PROVE  Lines(q) /\ Says(q, down, "ok")
<1>1. /\ Len(down) \in Nat /\ DOMAIN down = 1..Len(down)
      /\ \A i \in DOMAIN down : down[i] \in Line
      /\ \A i \in DOMAIN down : i < Len(down) => down[i].how = "whole"
  BY DEF TypeOK
<1>2. ASSUME NEW n \in 0..Len(down), NEW p, p = SubSeq(down, 1, n)
      PROVE  /\ p \in Seq(Line) /\ Len(p) = n /\ DOMAIN p = 1..n
             /\ \A i \in 1..n : i \in DOMAIN down /\ p[i] = down[i]
  BY <1>1, <1>2 DEF TypeOK
<1>3. CASE \E n \in 0..Len(down) : q = SubSeq(down, 1, n)
  <2>1. PICK n \in 0..Len(down) : q = SubSeq(down, 1, n)
    BY <1>3
  <2>2. /\ q \in Seq(Line) /\ Len(q) = n /\ DOMAIN q = 1..n
        /\ \A i \in 1..n : i \in DOMAIN down /\ q[i] = down[i]
    BY <1>2, <2>1
  <2> QED BY <1>1, <2>1, <2>2 DEF Lines, Says
<1>4. CASE \E n \in DOMAIN down :
             q = Append(SubSeq(down, 1, n - 1), [down[n] EXCEPT !.how = "part"])
  <2>1. PICK n \in DOMAIN down :
               q = Append(SubSeq(down, 1, n - 1), [down[n] EXCEPT !.how = "part"])
    BY <1>4
  <2>2. PICK p : p = SubSeq(down, 1, n - 1)
    OBVIOUS
  <2>3. PICK l : l = [down[n] EXCEPT !.how = "part"]
    OBVIOUS
  <2>4. l \in Line /\ l.what = down[n].what
    BY <1>1, <2>3 DEF Line
  <2>5. n \in 1..Len(down) /\ n - 1 \in 0..Len(down)
    BY <1>1
  <2>6. /\ p \in Seq(Line) /\ Len(p) = n - 1
        /\ \A i \in 1..(n - 1) : i \in DOMAIN down /\ p[i] = down[i]
    BY <1>2, <2>2, <2>5
  <2>7. /\ q \in Seq(Line) /\ Len(q) = n /\ DOMAIN q = 1..n /\ q[n] = l
        /\ \A i \in 1..(n - 1) : q[i] = down[i]
    BY <2>1, <2>2, <2>3, <2>4, <2>5, <2>6
  <2>8. \A i \in DOMAIN q : i = n \/ i \in 1..(n - 1)
    BY <2>5, <2>7
  <2>9. Lines(q)
    BY <1>1, <2>5, <2>7 DEF Lines
  <2>10. Says(q, down, "ok")
    BY <2>4, <2>6, <2>7, <2>8 DEF Says
  <2> QED BY <2>9, <2>10
<1> QED BY <1>3, <1>4 DEF Cuts

LEMMA BreakKept ==
  ASSUME ExchangeInv, Break
  PROVE  ExchangeInv'
<1> USE DEF ExchangeInv
<1>1. /\ UNCHANGED <<run, client, hub, mail, told>>
      /\ socket' = "broken" /\ faulty' = TRUE /\ down' \in Cuts(down)
  BY DEF Break
<1>2. Lines(down') /\ Says(down', down, "ok")
  BY <1>1, CutLines
<1>3. up' \in Seq(Line)
  <2>1. PICK n \in 0..Len(up) : up' = SubSeq(up, 1, n)
    BY DEF Break
  <2> QED BY <2>1 DEF TypeOK
<1>4. TypeOK'
  BY <1>1, <1>2, <1>3 DEF TypeOK, Lines
<1>5. Task'
  BY <1>1 DEF Task
<1>6. Meaning'
  <2>1. Means("ok")' /\ Irrevocable
    BY <1>1 DEF Means, Irrevocable
  <2> QED BY <1>1, <1>2, <2>1, StillMeant
<1>7. TornLast'
  BY <1>1 DEF TornLast
<1>8. Lockstep'
  BY <1>1 DEF Lockstep
<1> QED BY <1>4, <1>5, <1>6, <1>7, <1>8

LEMMA KillKept ==
  ASSUME ExchangeInv, Kill
  PROVE  ExchangeInv'
<1> USE DEF ExchangeInv
<1>1. /\ UNCHANGED <<run, hub, up, down, socket, mail, told>>
      /\ client' = "killed" /\ faulty' = TRUE
  BY DEF Kill
<1>2. TypeOK'
  BY <1>1 DEF TypeOK, Ended
<1>3. Task'
  BY <1>1 DEF Task
<1>4. Meaning'
  BY <1>1 DEF Meaning, Means
<1>5. TornLast'
  BY <1>1 DEF TornLast, AllWhole
<1>6. Lockstep'
  BY <1>1 DEF Lockstep
<1> QED BY <1>2, <1>3, <1>4, <1>5, <1>6

-----------------------------------------------------------------------------
(* The invariant, and what it says of the exit codes. *)

LEMMA ExchangeBegins ==
  ASSUME Init
  PROVE  ExchangeInv
<1> USE DEF Init
<1>1. TypeOK
  <2>1. up \in Seq(Line) /\ down \in Seq(Line) /\ DOMAIN down = {}
    OBVIOUS
  <2> QED BY <2>1, Zenon DEF TypeOK
<1>2. Task /\ Meaning /\ TornLast
  BY DEF Task, Meaning, TornLast, AllWhole
<1>3. Lockstep
  BY DEF Lockstep, Untouched
<1> QED BY <1>1, <1>2, <1>3 DEF ExchangeInv

\* Every step of the CLI, of the task and of what can break between them keeps
\* the invariant.
THEOREM ExchangeInductive ==
  ASSUME ExchangeInv, [Next]_vars
  PROVE  ExchangeInv'
<1>1. CASE ClientStep
  BY <1>1, BeginKept, ReadReplyKept, FailReplyKept DEF ClientStep
<1>2. CASE HubStep
  <2>1. CASE Deliver
    BY <2>1, WriteEnvelopeKept, WriteFailsCleanKept, WriteFailsPartialKept DEF Deliver
  <2> QED BY <1>2, <2>1, ReadHelloKept, ReadVerbKept, NoLineKept, CommitSendKept,
             TakeMailKept, TimeoutKept, EmitBounceKept DEF HubStep
<1>3. CASE UNCHANGED vars
  <2>1. UNCHANGED <<run, client, hub, up, down, socket, mail, told, faulty>>
    BY <1>3 DEF vars
  <2>2. TypeOK' /\ Task' /\ TornLast'
    BY <2>1 DEF ExchangeInv, TypeOK, Task, TornLast, AllWhole
  <2>3. Meaning'
    <3>1. Means("ok")' /\ Irrevocable /\ Says(down', down, "ok")
      BY <2>1 DEF Means, Irrevocable, Says, ExchangeInv, TypeOK
    <3> QED BY <2>1, <3>1, StillMeant DEF ExchangeInv
  <2>4. Lockstep'
    BY <2>1 DEF ExchangeInv, Lockstep, Answered, Quiet, Untouched
  <2> QED BY <2>2, <2>3, <2>4 DEF ExchangeInv
<1> QED BY <1>1, <1>2, <1>3, ArriveKept, BreakKept, KillKept DEF Next

THEOREM ExchangeSafety == Spec => []ExchangeInv
<1>1. Init => ExchangeInv
  BY ExchangeBegins
<1>2. ExchangeInv /\ [Next]_vars => ExchangeInv'
  BY ExchangeInductive
<1> QED BY <1>1, <1>2, PTL DEF Spec

\* The task holds the envelope exactly while it writes it, and no line follows
\* one the socket took only in part (write_envelope_line, deliver_envelope).
THEOREM ExchangeTypeCorrect == Spec => []TypeOK
<1>1. ExchangeInv => TypeOK
  BY DEF ExchangeInv
<1> QED BY <1>1, ExchangeSafety, PTL

\* Whatever breaks, a send that exits with 0 was committed (run_send).
THEOREM ExitZeroIsAReceipt == Spec => []ReceiptMeansCommitted
<1>1. ExchangeInv => ReceiptMeansCommitted
  BY DEF ExchangeInv, Meaning, Means, ReceiptMeansCommitted
<1> QED BY <1>1, ExchangeSafety, PTL

\* Whatever breaks, an envelope an await printed, or can still print, is not in
\* a queue again (write_envelope_line, read_reply).
THEOREM PrintedOnce == Spec => []PrintedNotRequeued
<1>1. ExchangeInv => PrintedNotRequeued
  BY DEF ExchangeInv, Meaning, Means, PrintedNotRequeued
<1> QED BY <1>1, ExchangeSafety, PTL

\* An await that exits with 2 consumed nothing (run_await, handle_await).
THEOREM ExitTwoIsATimeout == Spec => []TimeoutConsumesNothing
<1>1. ExchangeInv => TimeoutConsumesNothing
  BY DEF ExchangeInv, Meaning, Means, TimeoutConsumesNothing
<1> QED BY <1>1, ExchangeSafety, PTL

\* Where nothing broke or died, a command that exits with 1 changed nothing at
\* the hub, whatever it was refused for (read_reply, serve_connection).
THEOREM ExitOneChangedNothing == Spec => []FailureChangedNothing
<1>1. ExchangeInv => FailureChangedNothing
  BY DEF ExchangeInv, Lockstep, Untouched, FailureChangedNothing
<1> QED BY <1>1, ExchangeSafety, PTL
=============================================================================
