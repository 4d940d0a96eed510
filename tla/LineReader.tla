------------------------------ MODULE LineReader ------------------------------
(***************************************************************************)
(* read_line_bounded: one protocol line out of a BufReader over a socket   *)
(* whose bytes arrive in pieces, called for the hello line and then, with  *)
(* the same reader, for the verb line.                                     *)
(*                                                                         *)
(* What the peer sends is fixed at the start; when it arrives, and how     *)
(* much of it a refill gets, is not.  A byte is one of four: "a" stands    *)
(* for ASCII, "lead" and "cont" for the two halves of a character of two   *)
(* bytes, "nl" for the newline.                                            *)
(***************************************************************************)
EXTENDS Naturals, Sequences

CONSTANTS
  MAX,     \* MAX_LINE_BYTES
  BUF,     \* the capacity of the BufReader
  Streams  \* what peers may send

Byte == {"a", "lead", "cont", "nl"}

ASSUME ReaderAssumption ==
  /\ MAX \in Nat \ {0} /\ BUF \in Nat \ {0}
  /\ Streams \subseteq Seq(Byte)

\* What is in a line, and how a call can end.
Text == Seq(Byte \ {"nl"})
Outcome(kind, text) == [kind |-> kind, text |-> text]
Outcomes ==
  [kind : {"line", "closed", "truncated", "tooLong", "notUtf8", "io"}, text : Text]

VARIABLES
  stream,   \* all the peer sends on this connection
  arrived,  \* how many bytes of it reached the socket
  taken,    \* how many of those the BufReader took
  buf,      \* what the BufReader holds
  line,     \* the Vec of the current call
  results,  \* how the calls ended
  peer      \* "open", "closed" after its last byte, or "reset"

vars == <<stream, arrived, taken, buf, line, results, peer>>

TypeOK == /\ stream \in Streams
          /\ arrived \in 0..Len(stream) /\ taken \in 0..arrived
          /\ buf \in Seq(Byte) /\ line \in Text
          /\ results \in Seq(Outcomes)
          /\ peer \in {"open", "closed", "reset"}

Init == /\ stream \in Streams
        /\ arrived = 0 /\ taken = 0
        /\ buf = <<>> /\ line = <<>> /\ results = <<>>
        /\ peer = "open"

\* String::from_utf8
IsUtf8(bytes) ==
  \A i \in DOMAIN bytes :
    /\ bytes[i] = "lead" => i < Len(bytes) /\ bytes[i + 1] = "cont"
    /\ bytes[i] = "cont" => i > 1 /\ bytes[i - 1] = "lead"

\* serve_connection reads the verb after a hello line, nothing after an error.
Reading == \/ results = <<>>
           \/ Len(results) = 1 /\ results[1].kind = "line"

End(kind, text) == /\ results' = Append(results, Outcome(kind, text))
                   /\ line' = <<>>

-----------------------------------------------------------------------------
(* The peer. *)

Arrive == /\ peer = "open"
          /\ arrived' \in (arrived + 1)..Len(stream)
          /\ UNCHANGED <<stream, taken, buf, line, results, peer>>

Hangup == /\ peer = "open"
          /\ \/ peer' = "closed" /\ arrived = Len(stream)
             \/ peer' = "reset"
          /\ UNCHANGED <<stream, arrived, taken, buf, line, results>>

-----------------------------------------------------------------------------
(* The hub.  fill_buf reads the socket only when the buffer is empty. *)

Refill == /\ Reading /\ buf = <<>> /\ peer # "reset"
          /\ \E n \in 1..BUF :
               /\ taken + n <= arrived
               /\ taken' = taken + n
               /\ buf' = SubSeq(stream, taken + 1, taken + n)
          /\ UNCHANGED <<stream, arrived, line, results, peer>>

RefillFails == /\ Reading /\ buf = <<>> /\ peer = "reset"
               /\ End("io", <<>>)
               /\ UNCHANGED <<stream, arrived, taken, buf, peer>>

\* End of file: clean between lines, truncated within one.
WaitForTheRest ==                                                        \* mutant
  /\ Reading /\ buf = <<>> /\ peer = "closed" /\ taken = arrived
  /\ line = <<>> /\ End("closed", <<>>)
  /\ UNCHANGED <<stream, arrived, taken, buf, peer>>
EndOfFile == /\ Reading /\ buf = <<>> /\ peer = "closed" /\ taken = arrived
             /\ \/ line = <<>> /\ End("closed", <<>>)
                \/ line # <<>> /\ End("truncated", <<>>)
             /\ UNCHANGED <<stream, arrived, taken, buf, peer>>

\* No newline in the buffer: all of it joins the line, and the bound holds
\* before the next refill.
KeepUncapped ==                                                          \* mutant
  /\ Reading /\ buf # <<>>
  /\ \A i \in DOMAIN buf : buf[i] # "nl"
  /\ buf' = <<>>
  /\ line' = line \o buf
  /\ UNCHANGED <<stream, arrived, taken, results, peer>>
Keep ==
  /\ Reading /\ buf # <<>>
  /\ \A i \in DOMAIN buf : buf[i] # "nl"
  /\ buf' = <<>>
  /\ LET longer == line \o buf
     IN \/ Len(longer) <= MAX /\ line' = longer /\ UNCHANGED results
        \/ Len(longer) > MAX /\ End("tooLong", <<>>)
  /\ UNCHANGED <<stream, arrived, taken, peer>>

\* The first newline of the buffer ends the line; what follows it stays for
\* the next call.
ThroughNewline(i) == SubSeq(buf, 1, i)                                   \* mutant
BeforeNewline(i) == SubSeq(buf, 1, i - 1)
NothingAfter(i) == <<>>                                                  \* mutant
AfterNewline(i) == SubSeq(buf, i + 1, Len(buf))

Finish ==
  /\ Reading
  /\ \E i \in DOMAIN buf :
       /\ buf[i] = "nl" /\ \A j \in 1..(i - 1) : buf[j] # "nl"
       /\ buf' = AfterNewline(i)
       /\ LET whole == line \o BeforeNewline(i)
          IN \/ Len(whole) > MAX /\ End("tooLong", <<>>)
             \/ Len(whole) <= MAX /\ ~IsUtf8(whole) /\ End("notUtf8", <<>>)
             \/ Len(whole) <= MAX /\ IsUtf8(whole) /\ End("line", whole)
  /\ UNCHANGED <<stream, arrived, taken, peer>>

HubStep == Refill \/ RefillFails \/ EndOfFile \/ Keep \/ Finish

Next == Arrive \/ Hangup \/ HubStep

Spec == Init /\ [][Next]_vars
\* The task runs whenever its reader is ready; the peer owes nothing.
FairSpec == Spec /\ WF_vars(HubStep)

-----------------------------------------------------------------------------
(* What the calls return, from the stream alone. *)

\* The line of `bytes` that starts at `start` ends before the newline at e.
IsLineEnd(bytes, e, start) ==
  /\ e \in start..Len(bytes) /\ bytes[e] = "nl"
  /\ \A i \in start..(e - 1) : bytes[i] # "nl"

\* How a call that starts at `start` ends when the peer does not reset.
Promised(bytes, start) ==
  LET fitting == {e \in DOMAIN bytes : IsLineEnd(bytes, e, start) /\ e - start <= MAX}
      text == SubSeq(bytes, start, (CHOOSE e \in fitting : TRUE) - 1)
      rest == Len(bytes) + 1 - start
  IN CASE fitting # {} /\ IsUtf8(text) -> Outcome("line", text)
       [] fitting # {} /\ ~IsUtf8(text) -> Outcome("notUtf8", <<>>)
       [] fitting = {} /\ rest > MAX -> Outcome("tooLong", <<>>)
       [] fitting = {} /\ rest \in 1..MAX -> Outcome("truncated", <<>>)
       [] fitting = {} /\ rest = 0 -> Outcome("closed", <<>>)

\* Where the k-th call starts.
Start(k) == IF k = 1 THEN 1 ELSE Len(results[1].text) + 2

\* The pieces in which bytes arrive and are read do not matter: each call
\* returns what its line alone says, the bound and the character test apply
\* to the line and never to a piece, and the second line starts right behind
\* the first.  Only a reset can cut this short.
ChunkingIrrelevant ==
  \A k \in DOMAIN results :
    \/ results[k] = Promised(stream, Start(k))
    \/ results[k].kind = "io" /\ peer = "reset"

\* A peer cannot "grow hub memory without bound", newline or not: between
\* refills the hub holds at most the limit and one buffer.
MemoryBounded == Len(line) <= MAX /\ Len(buf) <= BUF

\* A call ends once the peer has closed or reset, whatever it left unfinished.
HangupEndsReading == peer # "open" ~> ~Reading
=============================================================================
