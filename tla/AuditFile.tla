------------------------------ MODULE AuditFile ------------------------------
(***************************************************************************)
(* AuditLog of audit.rs: a file opened for append, to which each event is  *)
(* written as one JSON line by write_all, under a mutex that admits one    *)
(* writer.  The system takes a line in one or several pieces, or fails, or *)
(* the process dies between two pieces and is started again.               *)
(*                                                                         *)
(* The serialized event e is the bytes <<e, 1>> .. <<e, SIZE>>, none of    *)
(* which is a newline; a line parses when it is exactly one such run.      *)
(***************************************************************************)
EXTENDS Naturals, Sequences, SequencesExt

CONSTANTS
  Events,
  None,
  SIZE,        \* bytes of a serialized event
  MaxRestarts  \* bound: how often the hub is started again

NL == <<None, 0>>
Body(e) == [i \in 1..SIZE |-> <<e, i>>]
Line(e) == Append(Body(e), NL)

ASSUME AuditAssumption == /\ None \notin Events
                          /\ SIZE \in Nat \ {0} /\ MaxRestarts \in Nat

VARIABLES
  file,      \* the bytes on disk
  writer,    \* the event being written, None between calls
  done,      \* how many bytes of its line the file took
  written,   \* the events whose write returned Ok, in order
  failed,    \* the events whose write returned an error
  restarts   \* how often the hub was started again

vars == <<file, writer, done, written, failed, restarts>>

Byte == (Events \X (1..SIZE)) \cup {NL}

TypeOK == /\ file \in Seq(Byte)
          /\ writer \in Events \cup {None} /\ done \in 0..(SIZE + 1)
          /\ written \in Seq(Events) /\ failed \subseteq Events
          /\ restarts \in 0..MaxRestarts
          /\ IsInjective(written) /\ Range(written) \cap failed = {}
          /\ writer \notin failed \cup Range(written)

Init == /\ file = <<>>
        /\ writer = None /\ done = 0
        /\ written = <<>> /\ failed = {}
        /\ restarts = 0

\* Events are told apart, so each is written once.
Begun == Range(written) \cup failed \cup {file[i][1] : i \in DOMAIN file}

Write(e) == /\ writer = None /\ e \notin Begun
            /\ writer' = e /\ done' = 0
            /\ UNCHANGED <<file, written, failed, restarts>>

\* One write of write_all: the file takes a piece of what is left.
Piece(n) == SubSeq(Line(writer), done + 1, done + n)

TakeOrStartOver ==                                                       \* mutant
  /\ writer # None
  /\ \E n \in 1..(SIZE + 1 - done) :
       /\ file' = file \o Piece(n)
       /\ done' \in {0, done + n}
  /\ UNCHANGED <<writer, written, failed, restarts>>
Take == /\ writer # None
        /\ \E n \in 1..(SIZE + 1 - done) :
             /\ file' = file \o Piece(n)
             /\ done' = done + n
        /\ UNCHANGED <<writer, written, failed, restarts>>

Return == /\ writer # None /\ done = SIZE + 1
          /\ written' = Append(written, writer)
          /\ writer' = None /\ done' = 0
          /\ UNCHANGED <<file, failed, restarts>>

\* A write fails: what the file already took stays.
FailAndRetry ==                                                          \* mutant
  /\ writer # None /\ done < SIZE + 1
  /\ failed' = failed \cup {writer}
  /\ done' = 0
  /\ UNCHANGED <<file, writer, written, restarts>>
Fail == /\ writer # None /\ done < SIZE + 1
        /\ failed' = failed \cup {writer}
        /\ writer' = None /\ done' = 0
        /\ UNCHANGED <<file, written, restarts>>

\* The process dies.  The next one opens the same file for append.
ReopenTruncated == <<>>                                                  \* mutant
Reopened == file

Restart == /\ restarts < MaxRestarts
           /\ restarts' = restarts + 1
           /\ writer' = None /\ done' = 0
           /\ file' = Reopened
           /\ UNCHANGED <<written, failed>>

Next == (\E e \in Events : Write(e)) \/ Take \/ Return \/ Fail \/ Restart

Spec == Init /\ [][Next]_vars

-----------------------------------------------------------------------------
(* What a reader of the file finds. *)

\* The line that byte i is on, without its newline.
LineOf(i) ==
  LET before == {j \in 1..(i - 1) : file[j] = NL}
      after == {j \in (i + 1)..Len(file) : file[j] = NL}
      first == IF before = {} THEN 1 ELSE Max(before) + 1
      last == IF after = {} THEN Len(file) ELSE Min(after) - 1
  IN SubSeq(file, first, last)

\* Where the event e starts in the file.
StartsAt(e, i) == /\ i + SIZE - 1 \in DOMAIN file
                  /\ SubSeq(file, i, i + SIZE - 1) = Body(e)

\* Every byte of e that is in the file belongs to the one that starts at i.
OnlyAt(e, i) == \A j \in DOMAIN file : file[j][1] = e => j \in i..(i + SIZE - 1)

\* An event whose write returned stays in the file whole and once, in the order
\* of the calls, and ends its line; what precedes it there, if anything, is
\* what calls that did not return left behind.  So one failed or interrupted
\* append costs the readers at most one event that the hub counts as written,
\* and no event is read twice.
DamageIsLocal ==
  /\ \A k \in DOMAIN written : \E i \in DOMAIN file :
       /\ StartsAt(written[k], i) /\ OnlyAt(written[k], i)
       /\ i + SIZE \in DOMAIN file /\ file[i + SIZE] = NL
       /\ \A j \in DOMAIN LineOf(i) :
            LineOf(i)[j][1] # written[k] => LineOf(i)[j][1] \notin Range(written)
  /\ \A k, l \in DOMAIN written : k < l =>
       \E i, j \in DOMAIN file : i < j /\ StartsAt(written[k], i) /\ StartsAt(written[l], j)

-----------------------------------------------------------------------------
(* A sentence of the comments that the code does not keep. *)

Parses(l) == \E e \in Events : l = Body(e)

\* "Each append is one complete line, so the file is always parseable
\* line-by-line" (AuditLog): every line that has its newline parses.
EveryLineParses ==
  \A i \in DOMAIN file : file[i] = NL /\ i > 1 /\ file[i - 1] # NL => Parses(LineOf(i - 1))
=============================================================================
