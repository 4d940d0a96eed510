----------------------------- MODULE AuditProofs -----------------------------
(***************************************************************************)
(* Proofs about the audit file: whatever fails or dies between two pieces, *)
(* of any size and however often, a written event stays whole and single,  *)
(* ends its line, and shares it at most with what unfinished calls left    *)
(* behind.                                                                 *)
(*                                                                         *)
(* AuditInv describes the file by bytes, DamageIsLocal by lines: the       *)
(* invariant says what the bytes in front of a position are (Clean), and   *)
(* ReadLine turns that into what a reader of the line finds.               *)
(***************************************************************************)
EXTENDS AuditFile, SequenceLemmas

\* The bytes in front of p on its line come from calls that did not return.
Clean(p) ==
  \A j \in 1..(p - 1) :
    (\A m \in j..(p - 1) : file[m] # NL) => file[j][1] \notin Range(written)

\* The line of e starts at p and is complete.
Whole(e, p) ==
  /\ p \in DOMAIN file /\ p + SIZE \in DOMAIN file /\ file[p + SIZE] = NL
  /\ \A j \in 1..SIZE : file[p + j - 1] = <<e, j>>

\* The call under way has put the end of the file, and nothing else of it.
UnderWay ==
  /\ writer = None => done = 0
  /\ writer # None =>
       /\ done <= Len(file)
       /\ \A j \in 1..done : file[Len(file) - done + j] = Line(writer)[j]
       /\ \A i \in 1..(Len(file) - done) : file[i][1] # writer

\* Where a written event stands, and nowhere else.
StandsAt(e, p) == Whole(e, p) /\ Clean(p) /\ OnlyAt(e, p)

Stays == \A k \in DOMAIN written : \E p \in DOMAIN file : StandsAt(written[k], p)

\* Whatever there is of two written events is in the order of their calls.
InOrder ==
  \A k, l \in DOMAIN written : k < l =>
    \A i, j \in DOMAIN file : file[i][1] = written[k] /\ file[j][1] = written[l] => i < j

AuditInv == TypeOK /\ UnderWay /\ Clean(Len(file) - done + 1) /\ Stays /\ InOrder

-----------------------------------------------------------------------------
(* Bytes. *)

LEMMA LineBytes ==
  ASSUME NEW e \in Events
  PROVE  /\ Line(e) \in Seq(Byte) /\ Len(Line(e)) = SIZE + 1
         /\ \A j \in 1..SIZE : Line(e)[j] = <<e, j>>
         /\ Line(e)[SIZE + 1] = NL
<1>1. Body(e) \in Seq(Byte) /\ Len(Body(e)) = SIZE /\ \A j \in 1..SIZE : Body(e)[j] = <<e, j>>
  <2>1. \A j \in 1..SIZE : <<e, j>> \in Byte
    BY DEF Byte
  <2>2. PICK b : b = Body(e)
    OBVIOUS
  <2>3. b \in [1..SIZE -> Byte] /\ SIZE \in Nat
    BY <2>1, <2>2, AuditAssumption DEF Body
  <2>4. b \in Seq(Byte) /\ Len(b) = SIZE
    BY <2>3
  <2> QED BY <2>2, <2>4 DEF Body
<1>2. PICK b : b = Body(e)
  OBVIOUS
<1>3. NL \in Byte
  BY DEF Byte
<1>4. /\ Append(b, NL) \in Seq(Byte) /\ Len(Append(b, NL)) = SIZE + 1
      /\ \A j \in 1..SIZE : Append(b, NL)[j] = b[j]
      /\ Append(b, NL)[SIZE + 1] = NL
  BY <1>1, <1>2, <1>3
<1> QED BY <1>1, <1>2, <1>4 DEF Line

\* A newline is of no event.
LEMMA Newline ==
  /\ NL[1] = None /\ None \notin Events
  /\ \A e, j : e \in Events => <<e, j>> # NL
BY AuditAssumption DEF NL

LEMMA ByteOf ==
  ASSUME NEW e \in Events, NEW j \in 1..(SIZE + 1), Line(e)[j] # NL
  PROVE  Line(e)[j][1] = e
<1>1. j \in 1..SIZE \/ j = SIZE + 1
  BY AuditAssumption
<1> QED BY <1>1, LineBytes

\* f goes on where the file ends, with nothing of a written event.
Extends(f) ==
  /\ f \in Seq(Byte) /\ Len(file) <= Len(f)
  /\ \A i \in 1..Len(file) : f[i] = file[i]
  /\ \A i \in DOMAIN f : f[i][1] \in Range(written) => i \in DOMAIN file

\* Appending disturbs nothing that is said of the bytes that are there.
LEMMA PrefixKept ==
  ASSUME TypeOK, Extends(file'), UNCHANGED written
  PROVE  /\ \A p \in 1..(Len(file) + 1) : Clean(p) => Clean(p)'
         /\ Stays => Stays'
<1>1. /\ Len(file) \in Nat /\ DOMAIN file = 1..Len(file)
      /\ Len(file') \in Nat /\ DOMAIN file' = 1..Len(file') /\ Len(file) <= Len(file')
      /\ \A i \in 1..Len(file) : file'[i] = file[i]
  BY DEF TypeOK, Extends
<1>2. ASSUME NEW p \in 1..(Len(file) + 1), Clean(p) PROVE Clean(p)'
  <2>1. SUFFICES ASSUME NEW j \in 1..(p - 1), \A m \in j..(p - 1) : file'[m] # NL
                 PROVE  file'[j][1] \notin Range(written)
    BY DEF Clean
  <2>2. \A m \in j..(p - 1) : m \in 1..Len(file)
    BY <1>1
  <2>3. \A m \in j..(p - 1) : file[m] # NL
    BY <1>1, <2>1, <2>2
  <2>4. file[j][1] \notin Range(written)
    BY <1>2, <2>3 DEF Clean
  <2>5. file'[j] = file[j]
    BY <1>1, <2>2
  <2> QED BY <2>4, <2>5
<1>3. ASSUME Stays PROVE Stays'
  <2>1. SUFFICES ASSUME NEW k \in DOMAIN written
                 PROVE  \E p \in DOMAIN file' : StandsAt(written[k], p)'
    BY DEF Stays
  <2>2. PICK p \in DOMAIN file : Whole(written[k], p) /\ Clean(p) /\ OnlyAt(written[k], p)
    BY <1>3 DEF Stays, StandsAt
  <2>3. /\ p \in DOMAIN file' /\ p + SIZE \in DOMAIN file' /\ file'[p + SIZE] = file[p + SIZE]
        /\ \A j \in 1..SIZE : file'[p + j - 1] = file[p + j - 1]
    <3>1. p \in 1..Len(file) /\ p + SIZE \in 1..Len(file) /\ SIZE \in Nat
      BY <1>1, <2>2, AuditAssumption DEF Whole
    <3>2. \A j \in 1..SIZE : p + j - 1 \in 1..Len(file)
      BY <1>1, <3>1
    <3> QED BY <1>1, <3>1, <3>2
  <2>4. Whole(written[k], p)'
    BY <2>2, <2>3 DEF Whole
  <2>5. Clean(p)'
    BY <1>1, <1>2, <2>2
  <2>6. OnlyAt(written[k], p)'
    <3>1. ASSUME NEW i \in DOMAIN file', file'[i][1] = written[k]
          PROVE  i \in p..(p + SIZE - 1)
      <4>1. written[k] \in Range(written)
        BY DEF Range
      <4>2. i \in DOMAIN file /\ file[i][1] = written[k]
        BY <1>1, <3>1, <4>1 DEF Extends
      <4> QED BY <2>2, <4>2 DEF OnlyAt
    <3> QED BY <3>1 DEF OnlyAt
  <2> QED BY <2>3, <2>4, <2>5, <2>6 DEF StandsAt
<1> QED BY <1>2, <1>3

-----------------------------------------------------------------------------
(* The steps. *)

\* In this step no event is written or returned, and the file keeps its bytes.
LEMMA QuietKept ==
  ASSUME Stays, InOrder, UNCHANGED <<file, written>>
  PROVE  Stays' /\ InOrder'
<1>1. file' = file /\ written' = written
  OBVIOUS
<1>2. ASSUME NEW k \in DOMAIN written, NEW p \in DOMAIN file, StandsAt(written[k], p)
      PROVE  StandsAt(written[k], p)'
  <2>1. Whole(written[k], p)' /\ Clean(p)'
    BY <1>1, <1>2, Zenon DEF StandsAt, Whole, Clean
  <2>2. OnlyAt(written[k], p)'
    BY <1>1, <1>2, Zenon DEF StandsAt, OnlyAt
  <2> QED BY <2>1, <2>2 DEF StandsAt
<1>3. Stays'
  BY <1>1, <1>2 DEF Stays
<1> QED BY <1>1, <1>3 DEF InOrder

\* When no call is under way the end of the file is clean: of an unfinished
\* line nothing returned, and a finished one ends in its newline.
LEMMA CleanEnd ==
  ASSUME TypeOK, UnderWay, Clean(Len(file) - done + 1)
  PROVE  Clean(Len(file) + 1)
<1>1. /\ Len(file) \in Nat /\ done \in 0..(SIZE + 1) /\ SIZE \in Nat
      /\ writer \notin Range(written) /\ writer \in Events \cup {None}
  BY AuditAssumption DEF TypeOK
<1>2. CASE writer = None
  <2>1. Len(file) - done + 1 = Len(file) + 1
    BY <1>1, <1>2 DEF UnderWay
  <2> QED BY <2>1
<1>3. CASE writer # None
  <2>1. SUFFICES ASSUME NEW j \in 1..Len(file), \A m \in j..Len(file) : file[m] # NL
                 PROVE  file[j][1] \notin Range(written)
    <3>1. Len(file) + 1 - 1 = Len(file)
      BY <1>1
    <3> QED BY <3>1 DEF Clean
  <2>2. PICK s : s = Len(file) - done
    OBVIOUS
  <2>3. s \in 0..Len(file) /\ Len(file) = s + done /\ s + 1 - 1 = s
    BY <1>1, <1>3, <2>2 DEF UnderWay
  <2>4. CASE j <= s
    <3>1. j \in 1..s /\ \A m \in j..s : m \in j..Len(file)
      BY <1>1, <2>3, <2>4
    <3>2. Clean(s + 1)
      BY <2>2
    <3> QED BY <2>1, <2>3, <3>1, <3>2 DEF Clean
  <2>5. CASE j > s
    <3>1. j - s \in 1..done /\ s + (j - s) = j /\ j \in j..Len(file) /\ j - s \in 1..(SIZE + 1)
      BY <1>1, <2>3, <2>5
    <3>2. file[j] = Line(writer)[j - s] /\ file[j] # NL
      BY <1>3, <2>1, <2>2, <3>1 DEF UnderWay
    <3>3. file[j][1] = writer
      BY <1>1, <1>3, <3>1, <3>2, ByteOf
    <3> QED BY <1>1, <3>3
  <2> QED BY <1>1, <2>3, <2>4, <2>5
<1> QED BY <1>2, <1>3

\* What begins or ends a call without returning Ok leaves the file as it is.
LEMMA CallEnds ==
  ASSUME AuditInv, TypeOK', UNCHANGED <<file, written>>, done' = 0,
         writer' # None => \A i \in DOMAIN file : file[i][1] # writer'
  PROVE  AuditInv'
<1>1. Len(file) \in Nat /\ DOMAIN file = 1..Len(file)
  BY DEF AuditInv, TypeOK
<1>2. UnderWay'
  BY <1>1 DEF UnderWay
<1>3. Clean(Len(file) + 1)
  BY CleanEnd DEF AuditInv
<1>4. Clean(Len(file) + 1)'
  BY <1>3 DEF Clean
<1>5. Clean(Len(file) - done + 1)'
  <2>1. Len(file') - done' + 1 = Len(file) + 1
    BY <1>1
  <2> QED BY <1>4, <2>1
<1>6. Stays' /\ InOrder'
  BY QuietKept DEF AuditInv
<1> QED BY <1>2, <1>5, <1>6 DEF AuditInv

LEMMA WriteKept ==
  ASSUME AuditInv, NEW e \in Events, Write(e)
  PROVE  AuditInv'
<1>1. /\ e \notin Range(written) /\ e \notin failed
      /\ \A i \in DOMAIN file : file[i][1] # e
  BY DEF Write, Begun
<1>2. TypeOK'
  BY <1>1, AuditAssumption DEF AuditInv, TypeOK, Write, Byte, NL
<1> QED BY <1>1, <1>2, CallEnds DEF Write

LEMMA FailKept ==
  ASSUME AuditInv, Fail
  PROVE  AuditInv'
<1>1. TypeOK'
  <2>1. writer \in Events /\ writer \notin Range(written)
    BY DEF AuditInv, TypeOK, Fail
  <2>2. None \notin Range(written)
    BY AuditAssumption DEF AuditInv, TypeOK, Range
  <2>3. Range(written) \cap failed' = {} /\ failed' \subseteq Events /\ None \notin failed'
    BY <2>1, AuditAssumption DEF AuditInv, TypeOK, Fail
  <2>4. /\ file' \in Seq(Byte) /\ writer' = None /\ done' \in 0..(SIZE + 1)
        /\ written' \in Seq(Events) /\ IsInjective(written')
        /\ restarts' \in 0..MaxRestarts /\ written' = written
    BY AuditAssumption DEF AuditInv, TypeOK, Fail, IsInjective, Byte, NL
  <2> QED BY <2>2, <2>3, <2>4 DEF TypeOK
<1> QED BY <1>1, CallEnds DEF Fail

LEMMA RestartKept ==
  ASSUME AuditInv, Restart
  PROVE  AuditInv'
<1>1. TypeOK'
  <2>1. None \notin Range(written)
    BY AuditAssumption DEF AuditInv, TypeOK, Range
  <2>2. None \notin failed
    BY AuditAssumption DEF AuditInv, TypeOK
  <2>3. restarts' \in 0..MaxRestarts
    BY AuditAssumption DEF AuditInv, TypeOK, Restart
  <2>4. /\ file' \in Seq(Byte) /\ writer' = None /\ done' \in 0..(SIZE + 1)
        /\ written' \in Seq(Events) /\ IsInjective(written') /\ failed' \subseteq Events
        /\ written' = written /\ failed' = failed /\ Range(written) \cap failed = {}
    BY AuditAssumption DEF AuditInv, TypeOK, Restart, Reopened, IsInjective, Byte, NL
  <2> QED BY <2>1, <2>2, <2>3, <2>4 DEF TypeOK
<1> QED BY <1>1, CallEnds DEF Restart, Reopened

LEMMA TakeKept ==
  ASSUME AuditInv, Take
  PROVE  AuditInv'
<1>1. /\ writer \in Events /\ done \in 0..(SIZE + 1) /\ SIZE \in Nat
      /\ file \in Seq(Byte) /\ Len(file) \in Nat /\ DOMAIN file = 1..Len(file)
      /\ writer \notin Range(written)
      /\ UNCHANGED <<writer, written, failed, restarts>>
  BY AuditAssumption DEF AuditInv, TypeOK, Take
<1>2. PICK n \in 1..(SIZE + 1 - done) : file' = file \o Piece(n) /\ done' = done + n
  BY DEF Take
<1>3. PICK piece : piece = Piece(n)
  OBVIOUS
<1>4. /\ piece \in Seq(Byte) /\ Len(piece) = n
      /\ \A k \in 1..n : piece[k] = Line(writer)[done + k]
  <2>1. PICK m : m = done + 1
    OBVIOUS
  <2>2. m \in 1..(Len(Line(writer)) + 1) /\ done + n \in (m - 1)..Len(Line(writer))
    BY <1>1, <2>1, LineBytes
  <2>3. done + n + 1 - m = n /\ \A k \in 1..n : m - 1 + k = done + k
    BY <1>1, <2>1
  <2>4. piece = SubSeq(Line(writer), m, done + n)
    BY <1>3, <2>1 DEF Piece
  <2> QED BY <1>1, <2>2, <2>3, <2>4, LineBytes, Cut
<1>5. /\ file' \in Seq(Byte) /\ Len(file') = Len(file) + n
      /\ \A i \in 1..Len(file) : file'[i] = file[i]
      /\ \A k \in 1..n : file'[Len(file) + k] = Line(writer)[done + k]
  <2>1. file' = file \o piece
    BY <1>2, <1>3
  <2>2. /\ file' \in Seq(Byte) /\ Len(file') = Len(file) + n
        /\ \A i \in 1..(Len(file) + n) :
             /\ i <= Len(file) => file'[i] = file[i]
             /\ i > Len(file) => file'[i] = piece[i - Len(file)]
    <3>1. /\ file \o piece \in Seq(Byte) /\ Len(file \o piece) = Len(file) + Len(piece)
          /\ \A i \in 1..(Len(file) + Len(piece)) :
               /\ i <= Len(file) => (file \o piece)[i] = file[i]
               /\ i > Len(file) => (file \o piece)[i] = piece[i - Len(file)]
      <4>1. file \in Seq(Byte) /\ piece \in Seq(Byte)
        BY <1>1, <1>4
      <4> QED BY <4>1, Joined, Zenon
    <3>2. Len(piece) = n
      BY <1>4
    <3> QED BY <2>1, <3>1, <3>2, Zenon
  <2>3. \A i \in 1..Len(file) : i \in 1..(Len(file) + n) /\ i <= Len(file)
    BY <1>1
  <2>4. \A k \in 1..n : Len(file) + k \in 1..(Len(file) + n) /\ Len(file) + k > Len(file)
                        /\ Len(file) + k - Len(file) = k
    BY <1>1
  <2> QED BY <1>4, <2>2, <2>3, <2>4
<1>6. TypeOK'
  <2>1. done' \in 0..(SIZE + 1)
    BY <1>1, <1>2
  <2> QED BY <1>1, <1>5, <2>1 DEF AuditInv, TypeOK
<1>7. Len(file') - done' = Len(file) - done /\ Len(file) - done \in 0..Len(file)
  BY <1>1, <1>2, <1>5, AuditAssumption DEF AuditInv, UnderWay
<1>8. PICK s \in 0..Len(file) : s = Len(file) - done /\ s = Len(file') - done'
  BY <1>7
<1>9. UnderWay'
  <2>1. writer' # None /\ done' <= Len(file')
    BY <1>1, <1>2, <1>5, <1>8, AuditAssumption
  <2>2. ASSUME NEW j \in 1..done' PROVE file'[s + j] = Line(writer)[j]
    <3>1. CASE j <= done
      <4>1. s + j \in 1..Len(file) /\ j \in 1..done
        BY <1>1, <1>2, <1>8, <3>1
      <4>2. file[s + j] = Line(writer)[j]
        BY <1>1, <1>8, <4>1, AuditAssumption DEF AuditInv, UnderWay
      <4> QED BY <1>5, <4>1, <4>2
    <3>2. CASE j > done
      <4>1. PICK k \in 1..n : k = j - done
        BY <1>1, <1>2, <3>2
      <4>2. Len(file) + k = s + j /\ done + k = j
        BY <1>1, <1>2, <1>8, <4>1
      <4>3. file'[Len(file) + k] = Line(writer)[done + k]
        BY <1>5
      <4> QED BY <4>2, <4>3
    <3>3. j <= done \/ j > done
      BY <1>1, <1>2
    <3> QED BY <3>1, <3>2, <3>3
  <2>3. ASSUME NEW i \in 1..s PROVE file'[i][1] # writer
    <3>1. i \in 1..Len(file)
      BY <1>1, <1>8
    <3>2. file[i][1] # writer
      BY <1>1, <1>8, AuditAssumption DEF AuditInv, UnderWay
    <3> QED BY <1>5, <3>1, <3>2
  <2>4. UNCHANGED writer
    BY <1>1
  <2>5. Line(writer)' = Line(writer)
    BY <2>4
  <2> QED BY <1>8, <2>1, <2>2, <2>3, <2>4, <2>5 DEF UnderWay
<1>10. ASSUME NEW i \in DOMAIN file', file'[i][1] \in Range(written)
      PROVE  i \in DOMAIN file /\ file'[i] = file[i]
  <2>1. CASE i > Len(file)
    <3>1. PICK k \in 1..n : i = Len(file) + k
      <4>1. i - Len(file) \in 1..n /\ i = Len(file) + (i - Len(file))
        BY <1>1, <1>5, <2>1
      <4> QED BY <4>1
    <3>2. file'[i] = Line(writer)[done + k] /\ done + k \in 1..(SIZE + 1)
      BY <1>1, <1>2, <1>5, <3>1
    <3>3. file'[i] = NL \/ file'[i][1] = writer
      BY <1>1, <3>2, ByteOf
    <3>4. None \notin Range(written)
      BY Newline DEF AuditInv, TypeOK, Range
    <3> QED BY <1>1, <1>10, <3>3, <3>4, Newline
  <2>2. CASE i <= Len(file)
    BY <1>1, <1>5, <2>2
  <2> QED BY <1>1, <1>5, <2>1, <2>2
<1>11. /\ \A p \in 1..(Len(file) + 1) : Clean(p) => Clean(p)'
       /\ Stays'
  <2>1. Extends(file')
    BY <1>1, <1>5, <1>10 DEF Extends
  <2> QED BY <1>1, <2>1, PrefixKept DEF AuditInv
<1>12. Clean(Len(file) - done + 1)'
  <2>1. s + 1 \in 1..(Len(file) + 1)
    BY <1>1
  <2>2. Clean(s + 1)
    BY <1>8 DEF AuditInv
  <2>3. Clean(s + 1)'
    BY <1>11, <2>1, <2>2
  <2>4. (Len(file) - done + 1)' = s + 1
    BY <1>8
  <2> QED BY <2>3, <2>4
<1>13. InOrder'
  <2>1. \A k \in DOMAIN written : written[k] \in Range(written)
    BY DEF Range
  <2>2. written' = written
    BY <1>1
  <2> QED BY <1>10, <2>1, <2>2 DEF AuditInv, InOrder
<1> QED BY <1>6, <1>9, <1>11, <1>12, <1>13 DEF AuditInv

\* A call that returns has put its whole line at the end of the file.
LEMMA ReturnKept ==
  ASSUME AuditInv, Return
  PROVE  AuditInv'
<1>1. /\ writer \in Events /\ done = SIZE + 1 /\ SIZE \in Nat \ {0}
      /\ file \in Seq(Byte) /\ Len(file) \in Nat /\ DOMAIN file = 1..Len(file)
      /\ written \in Seq(Events) /\ Len(written) \in Nat /\ DOMAIN written = 1..Len(written)
      /\ writer \notin Range(written) /\ writer \notin failed
      /\ IsInjective(written) /\ Range(written) \cap failed = {}
      /\ file' = file /\ failed' = failed /\ restarts' = restarts
      /\ writer' = None /\ done' = 0
  BY AuditAssumption DEF AuditInv, TypeOK, Return
<1>2. PICK n : n = Len(written) + 1
  OBVIOUS
<1>3. /\ written' \in Seq(Events) /\ DOMAIN written' = 1..n /\ written'[n] = writer
      /\ \A k \in DOMAIN written : written'[k] = written[k]
      /\ \A k \in 1..n : k \in DOMAIN written \/ k = n
      /\ n \notin DOMAIN written
  BY <1>1, <1>2 DEF Return
<1>4. Range(written') = Range(written) \cup {writer}
  <2>1. ASSUME NEW e PROVE e \in Range(written') <=> e \in Range(written) \cup {writer}
    <3>1. e \in Range(written') <=> \E k \in 1..n : written'[k] = e
      BY <1>3 DEF Range
    <3>2. e \in Range(written) <=> \E k \in DOMAIN written : written[k] = e
      BY DEF Range
    <3>3. n \in 1..n /\ \A k \in DOMAIN written : k \in 1..n
      BY <1>1, <1>2
    <3> QED BY <1>3, <3>1, <3>2, <3>3
  <2> QED BY <2>1
<1>5. TypeOK'
  <2>1. IsInjective(written')
    <3>1. \A k \in DOMAIN written : written[k] # writer
      BY <1>1 DEF Range
    <3> QED BY <1>1, <1>3, <3>1 DEF IsInjective
  <2>2. None \notin Events /\ Range(written) \subseteq Events /\ failed \subseteq Events
    BY AuditAssumption DEF AuditInv, TypeOK, Range
  <2> QED BY <1>1, <1>3, <1>4, <2>1, <2>2 DEF AuditInv, TypeOK, Byte
<1>6. PICK s \in 0..Len(file) : s = Len(file) - done /\ Len(file) = s + SIZE + 1
  <2>1. writer # None
    BY <1>1, AuditAssumption
  <2>2. done <= Len(file)
    BY <2>1 DEF AuditInv, UnderWay
  <2>3. PICK s : s = Len(file) - done
    OBVIOUS
  <2>4. s \in 0..Len(file) /\ Len(file) = s + SIZE + 1
    BY <1>1, <2>2, <2>3
  <2> QED BY <2>3, <2>4
<1>7. /\ \A i \in 1..s : file[i][1] # writer
      /\ \A j \in 1..SIZE : file[s + j] = <<writer, j>>
      /\ file[s + SIZE + 1] = NL
  <2>1. \A j \in 1..(SIZE + 1) : file[s + j] = Line(writer)[j]
    BY <1>1, <1>6, AuditAssumption DEF AuditInv, UnderWay
  <2>2. \A i \in 1..s : file[i][1] # writer
    BY <1>1, <1>6, AuditAssumption DEF AuditInv, UnderWay
  <2>3. \A j \in 1..SIZE : j \in 1..(SIZE + 1)
    BY <1>1
  <2>4. SIZE + 1 \in 1..(SIZE + 1) /\ s + (SIZE + 1) = s + SIZE + 1
    BY <1>1, <1>6
  <2> QED BY <1>1, <2>1, <2>2, <2>3, <2>4, LineBytes
<1>8. UnderWay'
  BY <1>1 DEF UnderWay
<1>9. ASSUME NEW p \in 1..(s + 1), Clean(p) PROVE Clean(p)'
  <2>1. \A j \in 1..(p - 1) : file[j][1] # writer
    BY <1>6, <1>7
  <2> QED BY <1>1, <1>4, <1>9, <2>1 DEF Clean
<1>10. Clean(s + 1)'
  <2>1. Clean(s + 1) /\ s + 1 \in 1..(s + 1)
    BY <1>6 DEF AuditInv
  <2> QED BY <1>9, <2>1
<1>11. Clean(Len(file) - done + 1)'
  <2>1. (Len(file) - done + 1)' = Len(file) + 1
    BY <1>1
  <2>2. \A j \in 1..Len(file) : Len(file) \in j..Len(file)
    BY <1>1
  <2>3. file[Len(file)] = NL
    BY <1>6, <1>7
  <2>4. Len(file) + 1 - 1 = Len(file)
    BY <1>1
  <2>5. PICK p : p = Len(file) + 1
    OBVIOUS
  <2>6. p - 1 = Len(file) /\ file' = file
    BY <1>1, <2>5
  <2>7. Clean(p)'
    BY <2>2, <2>3, <2>6 DEF Clean
  <2> QED BY <2>1, <2>5, <2>7
<1>12. Stays'
  <2>1. ASSUME NEW k \in DOMAIN written
        PROVE  \E p \in DOMAIN file : StandsAt(written[k], p)'
    <3>1. PICK p \in DOMAIN file : Whole(written[k], p) /\ Clean(p) /\ OnlyAt(written[k], p)
      BY DEF AuditInv, Stays, StandsAt
    <3>2. written[k] # writer /\ written[k] \in Events
      BY <1>1 DEF Range
    <3>3. p <= s
      <4>1. file[p] = <<written[k], 1>>
        <5>1. 1 \in 1..SIZE /\ p + 1 - 1 = p
          BY <1>1
        <5> QED BY <3>1, <5>1 DEF Whole
      <4>2. ASSUME p > s PROVE FALSE
        <5>1. p - s \in 1..(SIZE + 1) /\ s + (p - s) = p
          BY <1>1, <1>6, <4>2
        <5>2. CASE p - s \in 1..SIZE
          <6>1. file[p] = <<writer, p - s>>
            BY <1>7, <5>1, <5>2
          <6> QED BY <3>2, <4>1, <6>1
        <5>3. CASE p - s = SIZE + 1
          <6>1. p = s + SIZE + 1
            BY <1>1, <1>6, <5>1, <5>3
          <6>2. file[p] = NL
            BY <1>7, <6>1
          <6> QED BY <3>2, <4>1, <6>2, Newline
        <5> QED BY <1>1, <5>1, <5>2, <5>3
      <4> QED BY <1>1, <4>2
    <3>4. Clean(p)'
      <4>1. p \in 1..(s + 1)
        BY <1>1, <3>3
      <4> QED BY <1>9, <3>1, <4>1
    <3>5. written'[k] = written[k] /\ file' = file
      BY <1>1, <1>3
    <3>6. Whole(written[k], p)'
      BY <3>1, <3>5 DEF Whole
    <3>7. OnlyAt(written[k], p)'
      BY <3>1, <3>5 DEF OnlyAt
    <3> QED BY <3>1, <3>4, <3>6, <3>7 DEF StandsAt
  <2>2. Whole(writer, s + 1) /\ s + 1 \in DOMAIN file
    <3>1. s + 1 + SIZE = s + SIZE + 1 /\ s + 1 \in 1..Len(file) /\ s + 1 + SIZE \in 1..Len(file)
      BY <1>1, <1>6
    <3>2. \A j \in 1..SIZE : s + 1 + j - 1 = s + j
      BY <1>1, <1>6
    <3> QED BY <1>1, <1>7, <3>1, <3>2 DEF Whole
  <2>3. OnlyAt(writer, s + 1)
    <3>1. ASSUME NEW i \in DOMAIN file, file[i][1] = writer
          PROVE  i \in (s + 1)..(s + 1 + SIZE - 1)
      <4>1. i > s
        BY <1>1, <1>6, <1>7, <3>1
      <4>2. i # s + SIZE + 1
        BY <1>1, <1>7, <3>1, Newline
      <4> QED BY <1>1, <1>6, <4>1, <4>2
    <3> QED BY <3>1 DEF OnlyAt
  <2>4. StandsAt(written[n], s + 1)'
    <3>1. written'[n] = writer /\ file' = file
      BY <1>1, <1>3
    <3>2. PICK e, q : e = writer /\ q = s + 1
      OBVIOUS
    <3>3. Whole(e, q) /\ OnlyAt(e, q)
      BY <2>2, <2>3, <3>2
    <3>4. Whole(e, q)' /\ OnlyAt(e, q)'
      BY <3>1, <3>3 DEF Whole, OnlyAt
    <3>5. Whole(written[n], s + 1)' /\ OnlyAt(written[n], s + 1)'
      BY <3>1, <3>2, <3>4, Zenon
    <3> QED BY <1>10, <3>5 DEF StandsAt
  <2> QED BY <1>1, <1>3, <2>1, <2>2, <2>4 DEF Stays
<1>13. InOrder'
  <2>1. SUFFICES ASSUME NEW k \in 1..n, NEW l \in 1..n, k < l,
                        NEW i \in DOMAIN file, NEW j \in DOMAIN file,
                        file[i][1] = written'[k], file[j][1] = written'[l]
                 PROVE  i < j
    <3>1. file' = file /\ DOMAIN written' = 1..n
      BY <1>1, <1>3
    <3> QED BY <3>1 DEF InOrder
  <2>2. k \in DOMAIN written
    BY <1>1, <1>2, <2>1
  <2>3. CASE l \in DOMAIN written
    BY <1>3, <2>1, <2>2, <2>3 DEF AuditInv, InOrder
  <2>4. CASE l = n
    <3>1. j > s
      BY <1>1, <1>3, <1>6, <1>7, <2>1, <2>4
    <3>2. file[i][1] = written[k] /\ written[k] \in Range(written)
      BY <1>3, <2>1, <2>2 DEF Range
    <3>3. i <= s
      <4>1. ASSUME i > s PROVE FALSE
        <5>1. i - s \in 1..(SIZE + 1) /\ s + (i - s) = i
          BY <1>1, <1>6, <4>1
        <5>2. CASE i - s \in 1..SIZE
          <6>1. file[i] = <<writer, i - s>>
            BY <1>7, <5>1, <5>2
          <6> QED BY <1>1, <3>2, <6>1
        <5>3. CASE i - s = SIZE + 1
          <6>1. i = s + SIZE + 1
            BY <1>1, <1>6, <5>1, <5>3
          <6>2. file[i] = NL
            BY <1>7, <6>1
          <6>3. written[k] \in Events
            BY <1>1, <2>2
          <6> QED BY <3>2, <6>2, <6>3, Newline
        <5> QED BY <1>1, <5>1, <5>2, <5>3
      <4> QED BY <1>1, <4>1
    <3> QED BY <1>1, <1>6, <3>1, <3>3
  <2> QED BY <1>3, <2>3, <2>4
<1> QED BY <1>5, <1>8, <1>11, <1>12, <1>13 DEF AuditInv

\* Whatever piece of a line the file takes, and whenever a call or the process
\* ends, the file stays in this shape.
THEOREM AuditInductive ==
  /\ Init => AuditInv
  /\ AuditInv /\ [Next]_vars => AuditInv'
<1>1. ASSUME Init PROVE AuditInv
  <2>1. TypeOK
    BY <1>1, AuditAssumption DEF Init, TypeOK, Range, IsInjective
  <2>2. DOMAIN file = {} /\ DOMAIN written = {} /\ Range(written) = {}
    BY <1>1 DEF Init, Range
  <2>3. UnderWay /\ Stays /\ InOrder
    BY <1>1, <2>2 DEF Init, UnderWay, Stays, InOrder
  <2>4. Clean(Len(file) - done + 1)
    BY <2>2 DEF Clean
  <2> QED BY <2>1, <2>3, <2>4 DEF AuditInv
<1>2. ASSUME AuditInv, UNCHANGED vars PROVE AuditInv'
  <2>1. UNCHANGED <<file, writer, done, written, failed, restarts>>
    BY <1>2 DEF vars
  <2>2. TypeOK' /\ UnderWay'
    BY <1>2, <2>1 DEF AuditInv, TypeOK, UnderWay
  <2>3. Stays' /\ InOrder'
    BY <1>2, <2>1, QuietKept DEF AuditInv
  <2>4. Clean(Len(file) - done + 1)'
    BY <1>2, <2>1 DEF AuditInv, Clean
  <2> QED BY <2>2, <2>3, <2>4 DEF AuditInv
<1> QED BY <1>1, <1>2, WriteKept, TakeKept, ReturnKept, FailKept, RestartKept DEF Next

\* AuditInv holds in every reachable state.
THEOREM AuditSafety == Spec => []AuditInv
BY AuditInductive, PTL DEF Spec

\* An event is being written, was written or failed, and is never two of these
\* (AuditLog::write takes each event once, under the audit mutex).
THEOREM AuditTypeCorrect == Spec => []TypeOK
<1>1. AuditInv => TypeOK
  BY DEF AuditInv
<1> QED BY <1>1, AuditSafety, PTL

-----------------------------------------------------------------------------
(* Lines. *)

\* The line of a written event, as a reader finds it.
LEMMA ReadLine ==
  ASSUME TypeOK, NEW e \in Events, NEW p, Whole(e, p), Clean(p)
  PROVE  /\ StartsAt(e, p)
         /\ \A j \in DOMAIN LineOf(p) :
              LineOf(p)[j][1] # e => LineOf(p)[j][1] \notin Range(written)
<1>1. /\ p \in 1..Len(file) /\ p + SIZE \in 1..Len(file) /\ SIZE \in Nat \ {0}
      /\ file \in Seq(Byte) /\ Len(file) \in Nat /\ DOMAIN file = 1..Len(file)
      /\ file[p + SIZE] = NL
      /\ \A j \in 1..SIZE : file[p + j - 1] = <<e, j>>
  <2>1. file \in Seq(Byte) /\ Len(file) \in Nat /\ DOMAIN file = 1..Len(file)
    BY DEF TypeOK
  <2>2. /\ p \in DOMAIN file /\ p + SIZE \in DOMAIN file /\ file[p + SIZE] = NL
        /\ \A j \in 1..SIZE : file[p + j - 1] = <<e, j>>
    BY Zenon DEF Whole
  <2> QED BY <2>1, <2>2, AuditAssumption
<1>2. PICK z : z = p + SIZE - 1
  OBVIOUS
<1>3. z \in p..Len(file) /\ z + 1 = p + SIZE /\ z + 1 - p = SIZE
  BY <1>1, <1>2
<1>4. StartsAt(e, p)
  <2>1. PICK w : w = SubSeq(file, p, z)
    OBVIOUS
  <2>2. p \in 1..(Len(file) + 1) /\ z \in (p - 1)..Len(file)
    BY <1>1, <1>3
  <2>3. /\ w \in Seq(Byte) /\ Len(w) = SIZE
        /\ \A k \in 1..SIZE : w[k] = file[p - 1 + k]
    BY <1>1, <1>3, <2>1, <2>2, Cut
  <2>4. \A k \in 1..SIZE : p - 1 + k = p + k - 1
    BY <1>1
  <2>5. w = [k \in 1..SIZE |-> <<e, k>>]
    <3>1. DOMAIN w = 1..SIZE /\ w = [k \in DOMAIN w |-> w[k]]
      BY <2>3
    <3>2. \A k \in 1..SIZE : w[k] = <<e, k>>
      BY <1>1, <2>3, <2>4
    <3> QED BY <3>1, <3>2
  <2>6. z \in DOMAIN file
    BY <1>1, <1>3
  <2> QED BY <1>2, <2>1, <2>5, <2>6, Zenon DEF StartsAt, Body
\* Where the line begins.
<1>5. PICK before : before = {j \in 1..(p - 1) : file[j] = NL}
  OBVIOUS
<1>6. PICK first : first = IF before = {} THEN 1 ELSE Max(before) + 1
  OBVIOUS
<1>7. first \in 1..p /\ \A m \in first..(p - 1) : file[m] # NL
  <2>1. CASE before = {}
    <3>1. first = 1
      BY <1>6, <2>1
    <3>2. \A m \in 1..(p - 1) : file[m] # NL
      BY <1>5, <2>1
    <3> QED BY <1>1, <3>1, <3>2
  <2>2. CASE before # {}
    <3>1. p - 1 \in Nat /\ before \in SUBSET (1..(p - 1))
      BY <1>1, <1>5
    <3>2. PICK b : b = Max(before)
      OBVIOUS
    <3>3. b \in before /\ \A y \in before : y <= b
      BY <2>2, <3>1, <3>2, GreatestOf
    <3>4. first = b + 1 /\ b \in 1..(p - 1)
      BY <1>5, <1>6, <2>2, <3>2, <3>3
    <3>5. ASSUME NEW m \in first..(p - 1), file[m] = NL PROVE FALSE
      <4>1. m \in 1..(p - 1) /\ m > b
        BY <1>1, <3>4
      <4>2. m \in before
        BY <1>5, <3>5, <4>1
      <4> QED BY <1>1, <3>3, <3>4, <4>1, <4>2
    <3> QED BY <1>1, <3>4, <3>5
  <2> QED BY <2>1, <2>2
\* Where it ends.
<1>8. PICK after : after = {j \in (p + 1)..Len(file) : file[j] = NL}
  OBVIOUS
<1>9. after # {} /\ Min(after) - 1 = z
  <2>1. z + 1 \in after
    BY <1>1, <1>3, <1>8
  <2>2. after \in SUBSET (1..Len(file))
    BY <1>1, <1>8
  <2>3. PICK a : a = Min(after)
    OBVIOUS
  <2>4. a \in after /\ \A y \in after : a <= y
    BY <1>1, <2>1, <2>2, <2>3, LeastOf
  <2>5. a \in (p + 1)..Len(file) /\ file[a] = NL /\ a <= z + 1
    BY <1>8, <2>1, <2>4
  <2>6. ASSUME a <= z PROVE FALSE
    <3>1. PICK j : j = a - p + 1
      OBVIOUS
    <3>2. j \in 1..SIZE /\ p + j - 1 = a
      <4>1. p \in Int /\ a \in Int /\ z \in Int /\ SIZE \in Int
        BY <1>1, <1>3, <2>5
      <4>2. p + 1 <= a /\ z + 1 - p = SIZE
        BY <1>1, <1>3, <2>5
      <4> QED BY <2>6, <3>1, <4>1, <4>2
    <3>3. file[a] = <<e, j>>
      BY <1>1, <3>2
    <3> QED BY <2>5, <3>3, Newline
  <2> QED BY <1>1, <1>3, <2>1, <2>3, <2>5, <2>6
\* What is on it.
<1>10. LineOf(p) = SubSeq(file, first, z)
  BY <1>5, <1>6, <1>8, <1>9 DEF LineOf
<1>11. ASSUME NEW j \in DOMAIN LineOf(p), LineOf(p)[j][1] # e
       PROVE  LineOf(p)[j][1] \notin Range(written)
  <2>1. PICK w : w = SubSeq(file, first, z)
    OBVIOUS
  <2>2. first \in 1..(Len(file) + 1) /\ z \in (first - 1)..Len(file)
    BY <1>1, <1>3, <1>7
  <2>3. /\ w \in Seq(Byte) /\ Len(w) = z + 1 - first
        /\ \A k \in 1..(z + 1 - first) : w[k] = file[first - 1 + k]
    BY <1>1, <2>1, <2>2, Cut
  <2>4. j \in 1..(z + 1 - first)
    BY <1>10, <1>11, <2>1, <2>3
  <2>5. PICK q : q = first - 1 + j
    OBVIOUS
  <2>6. q \in first..z /\ LineOf(p)[j] = file[q]
    BY <1>1, <1>3, <1>7, <1>10, <2>1, <2>3, <2>4, <2>5
  <2>7. CASE q < p
    <3>1. q \in 1..(p - 1) /\ \A m \in q..(p - 1) : m \in first..(p - 1)
      BY <1>1, <1>3, <1>7, <2>6, <2>7
    <3>2. file[q][1] \notin Range(written)
      BY <1>7, <3>1 DEF Clean
    <3> QED BY <2>6, <3>2
  <2>8. CASE q >= p
    <3>1. PICK k : k = q - p + 1
      OBVIOUS
    <3>2. k \in 1..SIZE /\ p + k - 1 = q
      BY <1>1, <1>3, <1>7, <2>6, <2>8, <3>1
    <3>3. file[q] = <<e, k>>
      BY <1>1, <3>2
    <3> QED BY <1>11, <2>6, <3>3
  <2> QED BY <1>1, <1>3, <1>7, <2>6, <2>7, <2>8
<1> QED BY <1>4, <1>11

\* "Crash-truncated" lines cost at most what is on them: an event whose append
\* returned stays in the file, whole, once, in order, and ends its line
\* (AuditLog::open for append, AuditLog::write).
THEOREM DamageStaysLocal == Spec => []DamageIsLocal
<1>1. ASSUME AuditInv PROVE DamageIsLocal
  <2>1. TypeOK /\ Stays /\ InOrder
    BY <1>1 DEF AuditInv
  <2>2. PICK at : at = [k \in DOMAIN written |->
                          CHOOSE p \in DOMAIN file : StandsAt(written[k], p)]
    OBVIOUS
  <2>3. ASSUME NEW k \in DOMAIN written
        PROVE  /\ at[k] \in DOMAIN file
               /\ Whole(written[k], at[k]) /\ Clean(at[k]) /\ OnlyAt(written[k], at[k])
               /\ written[k] \in Events
    <3>1. \E p \in DOMAIN file : StandsAt(written[k], p)
      BY <2>1 DEF Stays
    <3>2. written[k] \in Events
      BY <2>1 DEF TypeOK
    <3> QED BY <2>2, <3>1, <3>2 DEF StandsAt
  <2>4. ASSUME NEW k \in DOMAIN written
        PROVE  file[at[k]][1] = written[k]
    <3>1. PICK p \in DOMAIN file : p = at[k]
      BY <2>3
    <3>2. p \in Int /\ 1 \in 1..SIZE
      BY <2>1, AuditAssumption DEF TypeOK
    <3>3. p + 1 - 1 = p
      BY <3>2
    <3>4. file[p + 1 - 1] = <<written[k], 1>>
      BY <2>3, <3>1, <3>2 DEF Whole
    <3> QED BY <3>1, <3>3, <3>4
  <2>5. ASSUME NEW k \in DOMAIN written, NEW l \in DOMAIN written, k < l
        PROVE  at[k] < at[l]
    BY <2>1, <2>3, <2>4, <2>5 DEF InOrder
  <2>6. ASSUME NEW k \in DOMAIN written
        PROVE  /\ StartsAt(written[k], at[k]) /\ OnlyAt(written[k], at[k])
               /\ at[k] + SIZE \in DOMAIN file /\ file[at[k] + SIZE] = NL
               /\ \A j \in DOMAIN LineOf(at[k]) :
                    LineOf(at[k])[j][1] # written[k] => LineOf(at[k])[j][1] \notin Range(written)
    BY <2>1, <2>3, ReadLine DEF Whole
  <2> QED BY <2>3, <2>5, <2>6 DEF DamageIsLocal
<1> QED BY <1>1, AuditSafety, PTL
=============================================================================
