# Verification of the agent communication hub

TLA+ models of `agent-hub-server` and `agent-hub`, the TLC runs that check them
on small instances, and TLAPS proofs that hold for every instance.  Paths are
relative to the repository's parent: `src/src/bin/agent-hub-server.rs` is the
server.

## 1. Inventory

| Component | State it keeps | Operations | What makes it correct |
|---|---|---|---|
| **Routing core** (`agent-hub-server.rs`: `handle_send`, `commit_send`, `route_envelope`, `handle_await`, `wait_for_handoff`, `deliver_envelope`, `emit_bounce`) | a FIFO per agent name, the registry of parked awaits, one task per connection with the envelope it owns | send, await from the queue, await by parking, handoff, timeout, write to the client with three outcomes, requeue, bounce | an accepted envelope is in one place; a timeout consumed nothing; no envelope waits beside an await that wants it; losses are reported to the sender |
| **HubState** (`HubState`, `take_queued`, `remove_waiter`, the loop of `route_envelope`) | two hash maps of `VecDeque` and `Vec`, the waiter counter | scan, remove, retry on a dead waiter, drop empty entries | the loop picks the most specific live waiter, the oldest of its rank; no entry outlives its content |
| **Sessions** (`spawn_connection`, `handle_connection`, `serve_connection`) | what the connection has read and proved | accept, hello, authentication, one verb | nothing reaches routing without authentication; one verb per connection; one answer |
| **Commit locks** (`Shared`, `commit_send`, `audit_append`, `lock_state`) | the audit and the state mutex, poisoning, the blocking pool | commit, append, critical sections | no deadlock; audit order is routing order; a panic leaves no half-done routing |
| **Audit file** (`audit.rs`) | an append-only file | open, append of a line | every line parses |
| **Line reader and writer** (`read_line_bounded`, `write_line`, `write_envelope_line`, `wire.rs`) | the bytes of a line so far, the bytes written | refill, consume, write | the result does not depend on how bytes arrive in chunks; memory is bounded; the three outcomes of a write are told apart |
| **Client CLI** (`agent-hub.rs`) | how far the exchange got | `send`, `await` | the exit code tells what happened to the envelope |
| **Startup** (`main`, `config.rs`, `roster.rs`) | what is loaded and open | strict load, refuse, listen | the hub never listens with a bad roster or without its logs |
| **Service log** (`service_log.rs`, `lib.rs`) | - | initialisation, a strict step of startup; formatting and output | only its initialisation is modelled: what it prints is no state of the protocol |

Connections are tokio tasks.  They interact through `HubState` behind one
mutex, through a oneshot channel from the task that routes an envelope to the
task that waits for it, and through the audit log behind a second mutex.
Clients and the hub interact through lines on a socket.

Hard behaviours: a send against the timeout of the await it matches; a write that fails
without a byte, or after some; several envelopes of a queue out at once; a dead task
behind a registered waiter; the audit of an event relative to the event; failures of the
audit; locks taken in two orders, and panics under them; tasks and commits that die;
lines that arrive in pieces; a client or hub that disappears in between; peers that
stall; a hub started beside a running one; a roster edited between two starts.
`PROJECT.json` lists them as hazards with their lines.

## 2. Modules

| Module | Models | Notes |
|---|---|---|
| `Routing` | `AwaitFilter::matches`, `specificity`, the ranking of `route_envelope`, the search of `take_queued` | pure operators, shared by `Hub`, `HubState` and `Registry` |
| `Hub` | the two verbs of authenticated connections | one task per connection, one step per critical section or `.await` |
| `HubProperties` | - | what `Hub` promises, and a sentence of the documents it does not keep |
| `Mailbox` | - | abstract: accept, consume, time out, drop, abandon |
| `HubMailbox`, `HubRegistry` | - | the refinement mappings from `Hub` to `Mailbox` and to `Registry` |
| `HubState` | the maps, `Vec`s and the routing loop, one container operation per step | refines `Registry` |
| `Registry` | - | abstract: route, take, register, deregister and drop a receiver, in one step each |
| `CommitLocks` | `Shared`'s two mutexes, `commit_send`, `audit_append`, the blocking pool | refines `AtomicCommit` |
| `AtomicCommit` | - | abstract: event and routing in one step, or refused, or a panic with the event in the log or not |
| `LineReader` | `read_line_bounded` over a `BufReader` | byte by byte; hello line, then verb line |
| `AuditFile` | `AuditLog::open`, `AuditLog::write` | byte by byte; restarts |
| `Startup` | `main` up to the listener, `config::load`, `service_log::init`, `roster::load` | several launches, which may overlap |
| `Session` | `main`'s accept loop, `handle_connection`, `serve_connection`, the answers of the verbs, the events of all this | extends `Startup`; any peers, several hubs in turn |
| `Exchange` | one run of `agent-hub` against one `serve_connection` | line by line; a line may be torn |
| `SequenceLemmas`, `HubProofs`, `HubStateProofs`, `CommitProofs`, `LineProofs`, `AuditProofs`, `SessionProofs`, `ExchangeProofs` | - | proofs |
| `MC*` | - | values of the constants |

The abstractions fit together.  `HubState` implements `Registry`, and so does `Hub`:
what a task does to queues, waiters and channels in one step is one operation of the
registry, which the maps and the loop behind the mutex provide.  The remaining links
are by reading: `CommitLocks` implements `AtomicCommit`, whose steps `Commit`, `Refuse` and
`Abandon` are the three outcomes of a commit in `Hub` (`Commit`, `AuditFails`, `Abandon`);
`LineReader` justifies that `Exchange` counts in lines;
`Session` justifies that a connection of `Hub` begins with an authenticated name and
runs one verb, and stands to `Hub` as the frame to what happens in its steps
`CommitSend`, `Timeout`, `TakeEnvelope` and `WriteEnvelope`.
`Session` and `Startup` are one specification: `Session` extends `Startup` and
conjoins the two state spaces.

### Hub

| Variable | Code |
|---|---|
| `queues`, `waiters`, `nextId` | the fields of `HubState`; `waiters` is a set, since `Vec` order is never looked at but through ids |
| `pc`, `who` | where a task stands in `serve_connection` and below, and its authenticated name |
| `slot` | the envelope a task owns: the argument of `commit_send`, the content of its oneshot channel, the argument of `deliver_envelope` |
| `ticket`, `timed` | the local `waiter_id` and `timeout_secs` of `handle_await` |
| `reply`, `wire` | what the task answered; what its socket accepted of an envelope |
| `audit` | the accepted and delivery events |
| `returned` | history: ids that a clean failure sent back |
| `dropped` | history: accepted ids that went with a task or a commit that died while it held them |

`SendVerb` and `CommitSend` are `handle_send`; `AwaitInvalid`, `AwaitQueued` and
`AwaitPark` are `handle_await` up to the end of its critical section; `Receive`
and `Timeout` are `wait_for_handoff`; `WriteWhole`, `WriteFailsClean`,
`WriteFailsPartial` and `LogDelivery` are `deliver_envelope`; `EmitBounce` is
`emit_bounce`.  A commit has three outcomes: the append and the routing step (`Commit`),
a failed append (`AuditFails`), and the `JoinError` of `commit_send` (`Abandon`), where the
closure died before its append or behind it and nothing was routed; the last two
refuse the sender.  `HandOff` covers the whole retry loop of `route_envelope`: it
removes the dead candidates that outrank the winner, and the winner.

`TaskDies` is the death of a task that awaits: while it is parked, its waiter stays
registered, its receiver refuses what is sent, and what its channel held is dropped;
after that, until it writes a byte, the envelope goes with it.  A task that dies before
its commit, or after its first byte, holds nothing that anybody could still get: to
others it looks like one that takes no further step, which `Spec` allows at any point.

Left out: bodies, timestamps, wording, logging.  An envelope's id is the
connection that originates it.  The hub does not check ids for uniqueness: it is
a duty of senders, and the CLI and `emit_bounce` meet it with UUIDv4; the
properties that name an envelope by its id rest on it.

### HubState

`queues` and `waiters` are maps with present keys, `Vec`s with positions.
`BeginRoute`, `RemoveBest`, `HandOver`, `Purge` and `Park` are the loop of
`route_envelope`; `DropReceiver` ends a receiver between any two of them, as a task on
another thread can by ending, or by receiving, and empties its channel.

### CommitLocks

`pc` walks each closure from `spawn_blocking` over the two locks to the end of
its guards; `Sections` are the critical sections of `handle_await`,
`wait_for_handoff` and `deliver_envelope`, which block a worker thread on the
state mutex.  `Panic` unwinds a closure wherever it holds the audit mutex but has
not yet changed the routing state; a poisoned mutex is taken over, so it is
just free.

### LineReader

A call's `line` and the reader's `buf` are sequences of bytes out of four classes:
ASCII, the two halves of a two-byte character, newline.  A refill takes from one
byte up to the capacity; the peer closes after its last byte, or resets at any
time.

### AuditFile

The file is a sequence of `<<event, position>>`; `Take` is one `write` of
`write_all`, of any size; `Fail` ends a call with what the file already took;
`Restart` is a new process that opens the same file for append.

### Startup

`stage` is where a launch stands in `main`, or how it ended; `agents` is
`Shared::roster`, which never changes after the load.  Each step of `main` that
ends in `fatal` or `fatal_pre_logger` on an error is `Fallible`.  The
roster file is no variable: only a launch ever reads it and the operator may edit
it at any time, so a load finds any of `Rosters`, the unreadable and the
unparsable file among them.  `Usable` is what `roster::load` accepts.  All launches
are given one configuration, with a port that is not 0: a second hub opens the
same audit log and then finds the port taken.

### Session

| Variable | Code |
|---|---|
| `pc` | where a connection stands in `handle_connection`, `serve_connection` and below |
| `server` | the process that accepted it |
| `who` | the authenticated name; `token` is history: what proved it |
| `out`, `lines` | the line `write_line` has been given; history: what the peer was sent |
| `excuse` | history: the peer left, a write failed, the task died or the hub was killed |
| `log`, `lost` | the audit log, which all processes append to; history: failed appends |

A line is read in the step that decides what follows from it: `ReadHello` and
`ReadVerb` choose among all that a peer can send (a hello of `Hellos`, something that
gets an error, a clean end).  What a peer sent and the hub did not read is then no
state, and no property needs it.  `TaskDies` is a panic or a cancellation of a connection
task, wherever it stands, which `spawn_connection` has a second task to log.
`AcceptFails` is logged and no more: the peer may be gone or still in the backlog.
`CommitSend` and `EmitBounce` may fail with the event in the log, as the closure of
`commit_send` can die behind its append.  `HubDies` kills a process with its connections;
another launch may take the port over and goes on with the same log.

### Exchange

`ParseFlags`, `ReadBody`, `ReadToken` and `Connect` are the CLI's steps up to its
hello, in the order in which `run_send` and `run_await` do them; what cannot be read
(`readable`) ends it with exit 1.  `--help` and `--version` are no invocations.
`Output` may panic, as `print!` does on a closed standard output.  `client` and
`hub` are program counters; `up` and `down` hold lines under way,
each whole, all but its newline, or a part.  `Break` cuts both directions at any
byte; `Kill` ends the CLI.  The rest of the hub is one envelope that can arrive
for an await (`Arrive`) and one that a send can commit.

## 3. Runs

All bounds are in the `.cfg` and `MC` modules.

| Run | Bounds | Shows |
|---|---|---|
| `HubSafety` | 4 connections, 2 agents and the hub's name, every filter, invalid requests, failing audit, dying tasks and commits | `NoMissedMatch`, `RegisteredUntilHanded`, `TimeoutConsumesNothing`, `ExactlyOnePlace`, `DeliveriesJoin`, `BouncesTellTheTruth` |
| `HubMailbox` | 5 connections, awaits of two ranks for one agent, untimed ones of the other, dying tasks and commits | `Hub` implements `Mailbox` and `Registry`; `ReturnedThenFifo` |
| `HubLiveness` | 4 connections, tasks, three awaits of which one is for a reply to one fixed connection, `FairSpec` | `WaitsEnd`, `LossesReported`, `BlockedSenderLearns` |
| `HubState` | 4 envelopes, 2 names, 4 filters, 3 waiters, 2 routes | `HubState` implements `Registry`; `NoEmptyEntry` |
| `CommitLocks` | 3 commits, 1 append, 2 sections; 2 pool threads, 1 worker; failures and panics | `AuditOrderIsRoutingOrder`, `CommitLocks` implements `AtomicCommit`, `JobsEnd` |
| `LineReader` | limit 2, buffer 2, every stream of up to 5 bytes | `ChunkingIrrelevant`, `MemoryBounded`, `HangupEndsReading` |
| `AuditFile` | 4 events of 2 bytes and a newline, 2 restarts | `DamageIsLocal` |
| `Session` | 2 launches, 2 connections of which one has a diligent peer; 7 rosters, 5 of them unusable; 3 hellos; failing loads, accepts, appends and commits; dying tasks | `SpeakersAreProved`, `GenerationsDoNotInterleave`, `AuditTrail`, `OneVerbOneAnswer`, `StalledPeersHarmNobody` |
| `Exchange` | every invocation; one CLI, one task | `ReceiptMeansCommitted`, `PrintedNotRequeued`, `TimeoutConsumesNothing`, `FailureChangedNothing`, `ClientEnds` |

Why the bounds are enough for the cases of interest.  A connection runs one verb, so
four connections give a send, its await, a competing await or send and the answer; in
the liveness run, the send, the await that loses it, one that takes the bounce and one
that waits for it, in every order.  Connections are interchangeable, so that the awaited
reply is to one fixed connection stands for any.  The fifth of the mailbox run lets two
envelopes be out at once and come back, or be lost, while another is sent, and a handoff
passes over a dead waiter of either rank.  Three waiters of different specificity, one
of them dead, are what the scan of `route_envelope` can tell apart.  With two pool
threads three commits queue; with one worker a second section waits for a thread.  Five
bytes with a limit of two hold a line at, below and above the limit, a split character,
and a second line.  Two bytes per event make "some", "all but the newline" and "all"
different.  Two launches are a hub and one that is started beside or after it, each with
its own version of the roster; two connections are a stalled peer and one it must not
hold up, or one on each side of a restart.  The symmetry used is over connections and
events, in runs without liveness properties.

`HubMailbox` leaves the append alone (`AuditMayFail = FALSE`): a commit that dies before
its append does what a failed one does, and what follows a write is no step of the
mailbox or the registry; `HubSafety` has failing appends.

`CHECK_DEADLOCK FALSE` everywhere: an await without a timeout parks for ever when
nobody sends, and the numbers of connections, jobs, calls and events are finite.

Fairness.  `Hub`: weak fairness of each task's own steps once its input is there
(tokio runs woken tasks), none of writes, new verbs, deaths.  `CommitLocks`: weak
fairness of each closure and section, none of panics; with finitely many jobs a
mutex that is free often enough stays free for the last one.  On an endless stream
of jobs `std::sync::Mutex` promises no turn, and nothing is claimed.
`LineReader`: the hub's steps, not the peer's.  `Exchange`: the steps of both
processes, not the environment's, which includes the arrival of an envelope; so
`ClientEnds` excepts an untimed await with nothing to take.  A timed await is
treated as if its timer fires in the end.  `Session`: what a task does without its
peer, for every connection (one tokio task each); what takes a line from the peer or
room in its socket, only for the connections of diligent peers; nothing of launches,
of timers or of arriving envelopes, so that a parked await may stay parked.

### Sentences the code does not keep

Each of these runs violates one property, quoted in `PROJECT.json` with its source.

| Run | Sentence | What happens |
|---|---|---|
| `DocAuditOrder` | the log's order "is the authoritative ordering of protocol events" | a reply is logged before the delivery it answers |
| `DocLinesParse` | the file is "always parseable line-by-line" | a torn append glues to the next event |
| `DocExitOne` | exit 1: "nothing queued or consumed" | the answer to a committed send is lost |

Smaller ones, met while reading and not run: two envelopes that are out at once come
back in the order of their failures, so a requeued one is not always "the oldest
deliverable traffic" (`agent-hub-server.rs:525-528`), and `ReturnedThenFifo` claims no
order among those; the hub bounces, but "never originates envelopes"
(`SPEC-Agent-Comms-Hub.md:188`); `Envelope::validate` takes the kind `bounce` from any
agent, though it is "reserved" (`README.md:63`); a delivery whose append fails stays
unaudited, against "every delivery" (`SPEC-Agent-Comms-Hub.md:178`); an append that
lacks only its newline leaves a refused event readable (`agent-hub-server.rs:434-435`);
a whole write to a client that dies loses the envelope too (`README.md:81`, but
`SPEC-Agent-Comms-Hub.md:156-157` says so); a bounced envelope was "irrecoverably lost"
(`README.md:12`), but a client that got all of it except the newline prints it; with
port 0 two hubs listen and write one audit log, though it is "written solely by the hub"
(`config.rs:22`); a roster token that ends in a blank or a newline cannot be used by the
CLI, whose `read_token` trims, though "any unique secret string works as a token"
(`README.md:181`); an `agent-hub` whose standard output is closed panics with an exit
code outside its contract.

## 4. Proofs

TLAPS proves, for every value of the constants that the named assumptions allow:

| Theorem | Property | Invariant |
|---|---|---|
| `HubProofs!TypeCorrect` | `TypeOK` | `HubInv` |
| `HubProofs!NothingSlipsPast` | `NoMissedMatch` | `HubInv` |
| `HubProofs!RegistrationDecides` | `RegisteredUntilHanded` | `HubInv` |
| `HubProofs!NeitherLostNorDuplicated` | `ExactlyOnePlace` | `HubInv`, `LedgerInv` |
| `HubProofs!TimeoutsAreEmpty` | `TimeoutConsumesNothing` | `HubInv`, `LedgerInv` |
| `HubProofs!QueuesAreFifo` | `ReturnedThenFifo` | `HubInv`, `LedgerInv` |
| `HubProofs!AuditJoins` | `DeliveriesJoin` | `HubInv`, `LedgerInv` |
| `HubProofs!BouncesAreTrue` | `BouncesTellTheTruth` | `HubInv`, `LedgerInv` |
| `HubProofs!HubIsMailbox` | `ImplementsMailbox` | `HubInv`, `LedgerInv` |
| `HubProofs!HubIsRegistry` | `UsesRegistry` | `HubInv`, `LedgerInv` |
| `HubStateProofs!StateTypeCorrect` | `TypeOK` | `StateInv` |
| `HubStateProofs!EmptyEntriesGo` | `NoEmptyEntry` | `StateInv` |
| `HubStateProofs!HubStateIsRegistry` | `ImplementsRegistry` | `StateInv` |
| `CommitProofs!LocksTypeCorrect` | `TypeOK` | `LocksInv` |
| `CommitProofs!OrdersAgree` | `AuditOrderIsRoutingOrder` | `LocksInv` |
| `CommitProofs!CommitsAreAtomic` | `ImplementsAtomicCommit` | `LocksInv` |
| `LineProofs!ReaderTypeCorrect` | `TypeOK` | `ReaderInv` |
| `LineProofs!MemoryIsBounded` | `MemoryBounded` | `ReaderInv` |
| `LineProofs!PiecesDoNotMatter` | `ChunkingIrrelevant` | `ReaderInv` |
| `AuditProofs!AuditTypeCorrect` | `TypeOK` | `AuditInv` |
| `AuditProofs!DamageStaysLocal` | `DamageIsLocal` | `AuditInv` |
| `SessionProofs!SessionTypeCorrect` | `TypeOK` | `SessionInv` |
| `SessionProofs!OnlyProvedSpeak` | `SpeakersAreProved` | `SessionInv` |
| `SessionProofs!OneWriterAtATime` | `GenerationsDoNotInterleave` | `SessionInv` |
| `SessionProofs!OneVerbEach` | `OneVerbOneAnswer` | `SessionInv` |
| `SessionProofs!LogTellsTheStory` | `AuditTrail` | `SessionInv` |
| `ExchangeProofs!ExchangeTypeCorrect` | `TypeOK` | `ExchangeInv` |
| `ExchangeProofs!ExitZeroIsAReceipt` | `ReceiptMeansCommitted` | `ExchangeInv` |
| `ExchangeProofs!PrintedOnce` | `PrintedNotRequeued` | `ExchangeInv` |
| `ExchangeProofs!ExitTwoIsATimeout` | `TimeoutConsumesNothing` | `ExchangeInv` |
| `ExchangeProofs!ExitOneChangedNothing` | `FailureChangedNothing` | `ExchangeInv` |

`HubInv` adds four facts to the three properties.  `Holding`: a task about to
route or write holds an envelope and has a name, without which types do not
survive a route.  `Tickets`: tickets differ, or a timeout could remove another
task's waiter.  `OneWaiter`: or a handoff would leave a second entry for a task
that already has an envelope.  The two halves of `RegisteredUntilHanded` need each
other: a handoff reaches only empty channels because waiters are parked, and
leaves no stale waiter because the winner is deregistered.  Assumption:
`HubAssumption` (the roster does not contain the hub's name; `None` and the empty
string are not values).

`LedgerInv` is inductive together with `HubInv` and has seven parts.  `Placed`: an
accepted envelope that was not dropped (`Standing`) is queued at one position, or with one
connection, in the hands of its live task or in its socket, and nothing else is
anywhere; this is `ExactlyOnePlace` without its sets.
It needs `Originals` (a connection originates an envelope with its last step, so an
id is accepted once), `Addressed` (what a task or a queue holds is accepted and at its
address; what a task is about to commit is its own) and `Wires` (what a socket took,
at each point of a delivery).  `Delivered` and `Bounced` are the two properties in the
form a step keeps; `ReturnedThenFifo` is itself a part.  A handoff and an enqueue move
an envelope that is nowhere else (`OnlyWith`), a take and a clean failure move it back.
What a dying task or commit held is in no place from then on (`Loses`, `AbandonLedger`),
and since ids are accepted once it stays so.

For the mailbox, a commit is `Accept`; the first byte on a socket, whether the write
ends well or not, is `Consume`; a timeout is `TimeOut`; the death of a task with
something in its channel is `Drop`; a commit that dies behind its append is `Abandon`,
which accepts an envelope that nobody gets; all else is a stutter, because the place of an
envelope and its letter in the mailbox are read off the same parts of `LedgerInv`.

For the registry, `Receivers` says what the channels are, task by task: a live ticket
belongs to one parked task, and its channel holds the task's slot.  It follows from
`HubInv`, so it is no new invariant.  A task that timed out never uses its receiver
again and cannot be reached through the registry; the mapping leaves it live.  The
route step needs that distinct waiters look distinct without their tasks
(`SeenOnce`), so that removing a waiter removes what the registry sees of it.

`StateInv` says that the maps are tidy and each `Vec` is in the order of registration
(`Sane`), and what the running loop has done (`Settled`): the waiters it purged are
dead, match, and outrank every match that is left.  So when a handoff succeeds,
the purged ones with the winner are what `Registry` removes at once.  That the
scan with its strict comparison finds the oldest of the highest rank is an
induction on the length of the `Vec`; the library's induction theorems take an
operator, so `SequenceLemmas` has one for a set of numbers, from the well-foundedness
of `<`, beside what the proofs need of joining and cutting sequences, of `RemoveAt`
and of putting an element at either end of a queue.  Assumption: `HubStateAssumption`
(envelopes are addressed to names).  The bounds on waiters and routes, which TLC
needs, may have any value.

`LocksInv` says besides types that the commit under way put the last event of the
log (`LastIsMine`), that what is routed is logged (`RoutedIsLogged`), that a caller
has an answer exactly at the end (`AnsweredAtTheEnd`) and that an append never
reaches the state lock (`AppendsStayOut`).  The refinement then hides the last
event until its closure is over; nobody can tell, because the audit mutex keeps
all others out of the log until then.  Assumption: `LocksAssumption`.

`ReaderInv` says that line and buffer are the bytes of the stream from the start
of the current call to the last byte taken (`InStep`), and that a peer closes
only behind its last byte.  With that the bytes before the first newline of
the buffer complete exactly the line the stream promises.  Assumption:
`ReaderAssumption` (limit and capacity are positive).

`AuditInv` describes the file by bytes, the property by lines.  `UnderWay`: the call under
way has put exactly the end of the file.  `Clean`: the bytes in front of a position on
its line come from calls that did not return; it holds of the place where the call
under way began, and of the place where each written event stands (`Stays`), which also
holds every byte of that event (`OnlyAt`), so that none is in the file twice.  `InOrder`:
the bytes of two written events are in the order of their calls.  `ReadLine` turns
bytes in front into lines.  Assumption: `AuditAssumption` (an event has at least one
byte; `None` is none).

`SessionInv` has a part for the processes (`Loaded`: whoever got past the load has a
usable roster), one for each connection (`ConnInv`) and three for the log.
`ConnInv(c)` says, at each point of the conversation, which process serves it
(`Connected`), who it is (`Identified`), what its peer was sent (`Told`) and what the
log has of it (`Recorded`).  The three say who an event names (`Attributed`), that a
connection's first event is its "connection" and that it has at most one more
(`InOrder`), and that the log is a sequence of stretches, one per process, of
which only the last process may still listen (`Succession`): a process can append
only while it is ready, a port has one such process, and a killed one never
comes back.  A step of a connection disturbs the others' parts through the log
alone (`OthersKeep`), so each action is proved for its own connection.  The death of a
task needs no part of its own: `ConnInv` claims of a closed connection with an excuse
only what the log and the peer already have.
Assumptions: `StartupAssumption` (`None` is no roster, process or agent; the hub's
name is not empty) and `SessionAssumption` (a hello is a pair; `None` is no name).

`ExchangeInv` has four parts beside types.  `Task`: where the hub's task can stand,
given the verb and what it committed.  `Meaning`: a line that is under way, or was read,
says something of the hub that can no longer change (an `accepted` that the envelope is
committed, an `envelope` that it is written or lost, a `timeout` that the task is over
with nothing taken).  `TornLast`: no line follows a torn one.  `Lockstep`: while nothing has
gone wrong the two sides alternate, without which exit 1 would say nothing.
Assumption: `ExchangeAssumption`, which only types the constants.

Every invariant that a run checks is proved, and so are the four refinements.  Only
model-checked are the liveness properties (`WaitsEnd`, `LossesReported`,
`BlockedSenderLearns`, `JobsEnd`, `HangupEndsReading`, `StalledPeersHarmNobody`,
`ClientEnds`): fairness and `ENABLED` are outside the prover's reach.

## 5. Not modelled

- **Service log and diagnostics**: formatting, filters and output.  That payload
  stays out of the file is a matter of two constants, not of states.
- **The content of the configuration**: it loads or it does not; that launches
  share it is assumed.
- **`--help` and `--version`** of the CLI.
- **The numeric limits of the host**: memory, descriptors, `u64` waiter ids that
  would wrap after 2^64 awaits.
- **JSON**: a line parses or it does not.

## 6. Plan

1. The safety behind the liveness properties, as theorems: a task that waits with a full
   channel or a registered timer has a step to take; an unreported loss is with one task
   that is about to bounce it; every closure of `CommitLocks` waits for a holder that
   waits for nobody.
2. The links that are still by reading: a line of `Exchange` for `LineReader`'s calls; `Hub`
   within `Session`.
