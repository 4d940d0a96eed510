------------------------------ MODULE LineProofs ------------------------------
(***************************************************************************)
(* Proofs about LineReader, for every limit, buffer size and stream: memory *)
(* is bounded, and what a call returns depends on its line alone.          *)
(***************************************************************************)
EXTENDS LineReader, SequenceLemmas

\* The first byte of the call under way.
Here == Start(Len(results) + 1)

\* The line and the buffer are the bytes of the stream from Here to the last
\* one taken.
InStep ==
  Reading =>
    /\ Here \in Nat \ {0}
    /\ taken + 1 = Here + Len(line) + Len(buf)
    /\ \A i \in 1..Len(line) : line[i] = stream[Here - 1 + i]
    /\ \A i \in 1..Len(buf) : buf[i] = stream[Here - 1 + Len(line) + i]

ClosedAtTheEnd == peer = "closed" => arrived = Len(stream)

ReaderInv == TypeOK /\ MemoryBounded /\ InStep /\ ClosedAtTheEnd /\ ChunkingIrrelevant

-----------------------------------------------------------------------------
(* What Promised says. *)

Fitting(bytes, s) == {e \in DOMAIN bytes : IsLineEnd(bytes, e, s) /\ e - s <= MAX}

\* A call whose line ends at e, within the limit.
LEMMA PromisedLine ==
  ASSUME NEW bytes \in Seq(Byte), NEW s \in Nat \ {0}, NEW e, IsLineEnd(bytes, e, s),
         e - s <= MAX, NEW text, text = SubSeq(bytes, s, e - 1)
  PROVE  /\ IsUtf8(text) => Promised(bytes, s) = Outcome("line", text)
         /\ ~IsUtf8(text) => Promised(bytes, s) = Outcome("notUtf8", <<>>)
  <1>1. \A x \in Fitting(bytes, s) : x = e
    BY DEF Fitting, IsLineEnd
  <1>2. e \in Fitting(bytes, s)
    BY DEF Fitting, IsLineEnd
  <1>3. Fitting(bytes, s) # {} /\ (CHOOSE x \in Fitting(bytes, s) : TRUE) = e
    BY <1>1, <1>2
  <1> QED BY <1>3 DEF Promised, Fitting

\* A call whose line does not end within the limit.
LEMMA PromisedFailure ==
  ASSUME NEW bytes \in Seq(Byte), NEW s \in 1..(Len(bytes) + 1), Fitting(bytes, s) = {}
  PROVE  /\ Len(bytes) + 1 - s > MAX => Promised(bytes, s) = Outcome("tooLong", <<>>)
         /\ Len(bytes) + 1 - s \in 1..MAX => Promised(bytes, s) = Outcome("truncated", <<>>)
         /\ s = Len(bytes) + 1 => Promised(bytes, s) = Outcome("closed", <<>>)
  BY ReaderAssumption DEF Promised, Fitting

\* No newline among the bytes from s to last, and they are more than the limit
\* or the last.
LEMMA NothingFits ==
  ASSUME NEW bytes \in Seq(Byte), NEW s \in Nat \ {0}, NEW last \in 0..Len(bytes),
         \A i \in s..last : bytes[i] # "nl",
         last + 1 - s > MAX \/ last = Len(bytes)
  PROVE  Fitting(bytes, s) = {}
  BY ReaderAssumption DEF Fitting, IsLineEnd

\* A sequence whose elements are in T is one over T.
LEMMA Over ==
  ASSUME NEW S, NEW T, NEW a \in Seq(S), \A k \in 1..Len(a) : a[k] \in T
  PROVE  a \in Seq(T)
  OBVIOUS

-----------------------------------------------------------------------------
\* A fresh connection satisfies the invariant.
LEMMA InitReader == Init => ReaderInv
  <1> SUFFICES ASSUME Init PROVE ReaderInv
    OBVIOUS
  <1>1. TypeOK /\ MemoryBounded
    BY ReaderAssumption DEF Init, TypeOK, MemoryBounded, Text
  <1>2. Here = 1
    BY DEF Init, Here, Start
  <1>3. InStep /\ ClosedAtTheEnd /\ ChunkingIrrelevant
    BY <1>2 DEF Init, InStep, ClosedAtTheEnd, ChunkingIrrelevant
  <1> QED BY <1>1, <1>3 DEF ReaderInv

\* What is known while the task reads.
LEMMA WhileReading ==
  ASSUME ReaderInv, Reading
  PROVE  /\ stream \in Seq(Byte) /\ line \in Text /\ line \in Seq(Byte) /\ buf \in Seq(Byte)
         /\ Here \in Nat \ {0} /\ taken \in 0..Len(stream)
         /\ taken + 1 = Here + Len(line) + Len(buf)
         /\ \A i \in 1..Len(line) : line[i] = stream[Here - 1 + i] /\ line[i] # "nl"
         /\ \A i \in 1..Len(buf) : buf[i] = stream[Here - 1 + Len(line) + i]
         /\ Len(line) <= MAX
  <1>1. /\ stream \in Seq(Byte) /\ line \in Text /\ buf \in Seq(Byte)
        /\ taken \in 0..Len(stream)
    BY ReaderAssumption DEF ReaderInv, TypeOK
  <1>2. line \in Seq(Byte) /\ \A i \in 1..Len(line) : line[i] # "nl"
    BY <1>1 DEF Text
  <1> QED BY <1>1, <1>2 DEF ReaderInv, InStep, MemoryBounded

\* A call that ends with what was promised, or with a failed read.
LEMMA EndStep ==
  ASSUME ReaderInv, Reading, NEW kind, NEW text, End(kind, text), UNCHANGED <<stream, peer>>,
         \/ Outcome(kind, text) = Promised(stream, Here)
         \/ kind = "io" /\ peer = "reset"
  PROVE  ChunkingIrrelevant'
  <1>1. results \in Seq(Outcomes) /\ results' = Append(results, Outcome(kind, text))
    BY DEF ReaderInv, TypeOK, End
  <1>2. ASSUME NEW k \in DOMAIN results'
        PROVE  \/ results'[k] = Promised(stream, Start(k))'
               \/ results'[k].kind = "io" /\ peer' = "reset"
    <2>1. CASE k \in DOMAIN results
      <3>1. results'[k] = results[k] /\ Start(k)' = Start(k)
        BY <1>1, <2>1 DEF Start
      <3> QED BY <2>1, <3>1 DEF ReaderInv, ChunkingIrrelevant
    <2>2. CASE k = Len(results) + 1
      <3>1. results'[k] = Outcome(kind, text) /\ Start(k)' = Here
        BY <1>1, <2>2 DEF Start, Here
      <3> QED BY <3>1 DEF Outcome
    <2> QED BY <1>1, <2>1, <2>2
  <1> QED BY <1>2 DEF ChunkingIrrelevant

\* Any other end than a line ends the reading.
LEMMA LastCall ==
  ASSUME ReaderInv, Reading, NEW kind \in {"closed", "truncated", "tooLong", "notUtf8", "io"},
         End(kind, <<>>)
  PROVE  ~Reading' /\ results' \in Seq(Outcomes) /\ line' = <<>>
  <1>1. results \in Seq(Outcomes) /\ results' = Append(results, Outcome(kind, <<>>))
    BY DEF ReaderInv, TypeOK, End
  <1>2. Outcome(kind, <<>>) \in Outcomes /\ Outcome(kind, <<>>).kind # "line"
    BY DEF Outcome, Outcomes, Text
  <1>3. results' \in Seq(Outcomes) /\ Len(results') > 0 /\ results' # <<>>
    BY <1>1, <1>2
  <1>4. Len(results') = 1 => results'[1] = Outcome(kind, <<>>)
    BY <1>1
  <1> QED BY <1>2, <1>3, <1>4 DEF Reading, End

-----------------------------------------------------------------------------
(* One lemma per step. *)

LEMMA PeerStep ==
  ASSUME ReaderInv, Arrive \/ Hangup
  PROVE  ReaderInv'
  <1> USE DEF Arrive, Hangup
  <1>1. TypeOK' /\ ClosedAtTheEnd'
    BY DEF ReaderInv, TypeOK, ClosedAtTheEnd
  <1>2. MemoryBounded' /\ InStep'
    BY DEF ReaderInv, MemoryBounded, InStep, Reading, Here, Start
  <1>3. ChunkingIrrelevant'
    BY DEF ReaderInv, ChunkingIrrelevant, Start
  <1> QED BY <1>1, <1>2, <1>3 DEF ReaderInv

LEMMA RefillStep ==
  ASSUME ReaderInv, Refill
  PROVE  ReaderInv'
  <1> USE ReaderAssumption
  <1>1. PICK n \in 1..BUF : /\ taken + n <= arrived
                            /\ taken' = taken + n
                            /\ buf' = SubSeq(stream, taken + 1, taken + n)
    BY DEF Refill
  <1>2. Reading /\ buf = <<>> /\ UNCHANGED <<stream, arrived, line, results, peer>>
    BY DEF Refill
  <1>3. /\ stream \in Seq(Byte) /\ arrived \in 0..Len(stream)
        /\ taken \in 0..Len(stream)
    BY WhileReading, <1>2 DEF ReaderInv, TypeOK
  <1>4. /\ buf' \in Seq(Byte) /\ Len(buf') = n
        /\ \A i \in 1..n : buf'[i] = stream[taken + i]
    BY <1>1, <1>3
  <1>5. TypeOK' /\ MemoryBounded' /\ ClosedAtTheEnd'
    BY <1>1, <1>2, <1>4 DEF ReaderInv, TypeOK, MemoryBounded, ClosedAtTheEnd
  <1>6. InStep'
    <2>1. Here' = Here
      BY <1>2 DEF Here, Start
    <2>2. /\ Here \in Nat \ {0} /\ Len(line) \in Nat /\ taken + 1 = Here + Len(line)
          /\ \A i \in 1..Len(line) : line[i] = stream[Here - 1 + i]
      BY <1>2, WhileReading
    <2>3. taken' + 1 = Here' + Len(line') + Len(buf')
      BY <1>1, <1>2, <1>3, <1>4, <2>1, <2>2
    <2>4. \A i \in 1..Len(buf') : buf'[i] = stream'[Here' - 1 + Len(line') + i]
      <3> SUFFICES ASSUME NEW i \in 1..n
                   PROVE  buf'[i] = stream[Here - 1 + Len(line) + i]
        BY <1>2, <1>4, <2>1
      <3>1. Here - 1 + Len(line) + i = taken + i
        BY <1>3, <2>2
      <3> QED BY <1>4, <3>1
    <2> QED BY <1>2, <2>1, <2>2, <2>3, <2>4 DEF InStep
  <1>7. ChunkingIrrelevant'
    BY <1>2 DEF ReaderInv, ChunkingIrrelevant, Start
  <1> QED BY <1>5, <1>6, <1>7 DEF ReaderInv

LEMMA EofStep ==
  ASSUME ReaderInv, RefillFails \/ EndOfFile
  PROVE  ReaderInv'
  <1> USE ReaderAssumption
  <1>1. PICK kind \in {"io", "closed", "truncated"} :
          /\ End(kind, <<>>)
          /\ kind = "io" => peer = "reset"
          /\ kind = "closed" => line = <<>>
          /\ kind = "truncated" => line # <<>>
          /\ kind # "io" => peer = "closed" /\ taken = arrived
    BY DEF RefillFails, EndOfFile
  <1>2. Reading /\ buf = <<>> /\ UNCHANGED <<stream, arrived, taken, buf, peer>>
    BY DEF RefillFails, EndOfFile
  <1>3. ~Reading' /\ results' \in Seq(Outcomes) /\ line' = <<>>
    BY <1>1, <1>2, LastCall
  <1>4. TypeOK' /\ MemoryBounded' /\ ClosedAtTheEnd' /\ InStep'
    BY <1>2, <1>3 DEF ReaderInv, TypeOK, MemoryBounded, ClosedAtTheEnd, InStep, Text
  <1>5. ASSUME kind # "io" PROVE Outcome(kind, <<>>) = Promised(stream, Here)
    <2>1. taken = Len(stream) /\ Here + Len(line) = Len(stream) + 1
      BY <1>1, <1>2, <1>5, WhileReading DEF ReaderInv, ClosedAtTheEnd
    <2>2. \A i \in Here..Len(stream) : stream[i] # "nl"
      <3> SUFFICES ASSUME NEW i \in Here..Len(stream) PROVE stream[i] # "nl"
        OBVIOUS
      <3>1. i - Here + 1 \in 1..Len(line) /\ Here - 1 + (i - Here + 1) = i
        BY <1>2, <2>1, WhileReading
      <3>2. /\ line[i - Here + 1] = stream[Here - 1 + (i - Here + 1)]
            /\ line[i - Here + 1] # "nl"
        BY <1>2, <3>1, WhileReading
      <3> QED BY <3>1, <3>2
    <2>3. Fitting(stream, Here) = {}
      <3>1. stream \in Seq(Byte) /\ Here \in Nat \ {0} /\ Len(stream) \in 0..Len(stream)
        BY <1>2, WhileReading
      <3> QED BY <2>2, <3>1, NothingFits
    <2>4. Here \in 1..(Len(stream) + 1)
      BY <1>2, <2>1, WhileReading
    <2>5. line = <<>> <=> Len(line) = 0
      BY <1>2, WhileReading
    <2> QED BY <1>1, <1>2, <1>5, <2>1, <2>3, <2>4, <2>5, WhileReading, PromisedFailure
  <1>6. ChunkingIrrelevant'
    BY <1>1, <1>2, <1>5, EndStep
  <1> QED BY <1>4, <1>6 DEF ReaderInv

LEMMA KeepStep ==
  ASSUME ReaderInv, Keep
  PROVE  ReaderInv'
  <1> USE ReaderAssumption
  <1> DEFINE longer == line \o buf
  <1>1. /\ Reading /\ buf # <<>> /\ \A i \in DOMAIN buf : buf[i] # "nl"
        /\ buf' = <<>> /\ UNCHANGED <<stream, arrived, taken, peer>>
    BY DEF Keep
  <1>2. /\ longer \in Text /\ Len(longer) = Len(line) + Len(buf)
        /\ \A i \in 1..Len(longer) : longer[i] = stream[Here - 1 + i]
    <2>1. buf \in Text /\ line \in Text
      BY <1>1, WhileReading DEF Text
    <2>2. longer \in Text /\ Len(longer) = Len(line) + Len(buf)
      BY <2>1, Joined DEF Text
    <2>3. ASSUME NEW i \in 1..Len(longer) PROVE longer[i] = stream[Here - 1 + i]
      <3>1. CASE i <= Len(line)
        BY <1>1, <2>1, <2>2, <3>1, Joined, WhileReading DEF Text
      <3>2. CASE i > Len(line)
        <4>1. i - Len(line) \in 1..Len(buf) /\ longer[i] = buf[i - Len(line)]
          BY <1>1, <2>1, <2>2, <3>2, Joined, WhileReading DEF Text
        <4>2. buf[i - Len(line)] = stream[Here - 1 + Len(line) + (i - Len(line))]
          BY <1>1, <4>1, WhileReading
        <4>3. Here - 1 + Len(line) + (i - Len(line)) = Here - 1 + i
          BY <1>1, WhileReading
        <4> QED BY <4>1, <4>2, <4>3
      <3>3. i <= Len(line) \/ i > Len(line)
        BY <2>1, <2>2 DEF Text
      <3> HIDE DEF longer
      <3> QED BY <3>1, <3>2, <3>3
    <2> QED BY <2>2, <2>3
  <1>3. CASE Len(longer) <= MAX
    <2>1. line' = longer /\ UNCHANGED results
      BY <1>2, <1>3 DEF Keep, Text
    <2>2. TypeOK' /\ MemoryBounded' /\ ClosedAtTheEnd'
      BY <1>1, <1>2, <1>3, <2>1 DEF ReaderInv, TypeOK, MemoryBounded, ClosedAtTheEnd
    <2>3. InStep'
      <3>1. Here' = Here
        BY <2>1 DEF Here, Start
      <3>2. taken + 1 = Here + Len(longer) + 0 /\ Here \in Nat \ {0}
        BY <1>1, <1>2, WhileReading
      <3>3. Len(buf') = 0 /\ \A i \in 1..Len(buf') : FALSE
        BY <1>1
      <3> HIDE DEF longer
      <3> QED BY <1>1, <1>2, <2>1, <3>1, <3>2, <3>3, Zenon DEF InStep
    <2>4. ChunkingIrrelevant'
      BY <1>1, <2>1 DEF ReaderInv, ChunkingIrrelevant, Start
    <2> QED BY <2>2, <2>3, <2>4 DEF ReaderInv
  <1>4. CASE Len(longer) > MAX
    <2>1. End("tooLong", <<>>)
      BY <1>2, <1>4 DEF Keep, Text
    <2>2. ~Reading' /\ results' \in Seq(Outcomes) /\ line' = <<>>
      BY <1>1, <2>1, LastCall
    <2>3. TypeOK' /\ MemoryBounded' /\ ClosedAtTheEnd' /\ InStep'
      BY <1>1, <2>2 DEF ReaderInv, TypeOK, MemoryBounded, ClosedAtTheEnd, InStep, Text
    <2>4. \A i \in Here..taken : stream[i] # "nl"
      <3> SUFFICES ASSUME NEW i \in Here..taken PROVE stream[i] # "nl"
        OBVIOUS
      <3>1. i - Here + 1 \in 1..Len(longer) /\ Here - 1 + (i - Here + 1) = i
        <4>1. Here \in Nat /\ taken \in Nat /\ taken + 1 = Here + Len(longer)
          BY <1>1, <1>2, WhileReading
        <4>2. PICK here : here = Here
          OBVIOUS
        <4>3. PICK length : length = Len(longer)
          OBVIOUS
        <4>4. i - here + 1 \in 1..length /\ here - 1 + (i - here + 1) = i
          BY <4>1, <4>2, <4>3
        <4> QED BY <4>2, <4>3, <4>4
      <3> HIDE DEF longer
      <3> QED BY <1>2, <3>1 DEF Text
    <2>5. taken + 1 - Here > MAX
      BY <1>1, <1>2, <1>4, WhileReading
    <2>6. Fitting(stream, Here) = {}
      BY <1>1, <2>4, <2>5, WhileReading, NothingFits
    <2>7. Here \in 1..(Len(stream) + 1) /\ Len(stream) + 1 - Here > MAX
      BY <1>1, <2>5, WhileReading
    <2>8. Promised(stream, Here) = Outcome("tooLong", <<>>)
      BY <1>1, <2>6, <2>7, WhileReading, PromisedFailure
    <2>9. ChunkingIrrelevant'
      BY <1>1, <2>1, <2>8, EndStep
    <2> QED BY <2>3, <2>9 DEF ReaderInv
  <1>5. Len(longer) \in Nat
    BY <1>2 DEF Text
  <1> QED BY <1>3, <1>4, <1>5

\* A line within the limit ends its call as promised, and the next call starts
\* behind its newline, at what the buffer still holds.
LEMMA FinishStep ==
  ASSUME ReaderInv, Finish
  PROVE  ReaderInv'
  <1>1. PICK i \in DOMAIN buf :
          /\ buf[i] = "nl" /\ \A j \in 1..(i - 1) : buf[j] # "nl"
          /\ buf' = AfterNewline(i)
          /\ LET whole == line \o BeforeNewline(i)
             IN \/ Len(whole) > MAX /\ End("tooLong", <<>>)
                \/ Len(whole) <= MAX /\ ~IsUtf8(whole) /\ End("notUtf8", <<>>)
                \/ Len(whole) <= MAX /\ IsUtf8(whole) /\ End("line", whole)
    BY DEF Finish
  <1>2. Reading /\ UNCHANGED <<stream, arrived, taken, peer>>
    BY DEF Finish
  <1>3. /\ stream \in Seq(Byte) /\ line \in Text /\ line \in Seq(Byte) /\ buf \in Seq(Byte)
        /\ results \in Seq(Outcomes)
    BY <1>2, WhileReading DEF ReaderInv, TypeOK
  <1>4. PICK h \in Nat \ {0}, n \in Nat, b \in Nat, s \in Nat :
          h = Here /\ n = Len(line) /\ b = Len(buf) /\ s = Len(stream)
    BY <1>2, <1>3, WhileReading
  <1>5. taken \in 0..s /\ taken + 1 = h + n + b /\ i \in 1..b
    BY <1>2, <1>3, <1>4, WhileReading
  <1>6. PICK e \in Nat : e = h + n + i - 1
    BY <1>5
  <1>7. /\ e \in h..s /\ e - 1 \in 0..s /\ e - h = n + (i - 1) /\ e - h \in Nat
        /\ h - 1 + n + i = e /\ h \in 1..(s + 1) /\ s + 1 - h > e - h
        /\ e - 1 + 1 - h = e - h /\ h + (e - h) + 1 = h + n + i
    BY <1>5, <1>6
  <1>8. /\ \A k \in 1..n : line[k] = stream[h - 1 + k] /\ line[k] # "nl"
        /\ \A k \in 1..b : buf[k] = stream[h - 1 + n + k]
    BY <1>2, <1>4, WhileReading, Zenon
  <1>9. /\ buf' \in Seq(Byte) /\ Len(buf') = b - i
        /\ \A j \in 1..(b - i) : buf'[j] = buf[i + j]
    <2>1. buf' = SubSeq(buf, i + 1, Len(buf))
      BY <1>1, Zenon DEF AfterNewline
    <2>2. i \in 1..Len(buf)
      BY <1>4, <1>5
    <2> QED BY <1>3, <1>4, <2>1, <2>2, Behind, Zenon
  <1>10. PICK before : before = BeforeNewline(i)
    OBVIOUS
  <1>11. /\ before \in Seq(Byte) /\ before \in Text /\ Len(before) = i - 1
         /\ \A j \in 1..(i - 1) : before[j] = buf[j]
    <2>1. PICK m \in Nat, last \in Int : m = 1 /\ last = i - 1
      BY <1>5
    <2>8. m \in 1..(b + 1) /\ last \in (m - 1)..b
      BY <1>5, <2>1
    <2>2. last + 1 - m = i - 1 /\ \A j \in 1..(i - 1) : m - 1 + j = j
      BY <1>5, <2>1
    <2>3. before = SubSeq(buf, m, last)
      BY <1>10, <2>1, Zenon DEF BeforeNewline
    <2>4. /\ before \in Seq(Byte) /\ Len(before) = i - 1
          /\ \A j \in 1..(i - 1) : before[j] = buf[m - 1 + j]
      <3>1. m \in 1..(Len(buf) + 1) /\ last \in (m - 1)..Len(buf)
        BY <1>4, <2>8, Zenon
      <3> QED BY <1>3, <2>2, <2>3, <3>1, Cut
    <2>5. \A j \in 1..(i - 1) : before[j] = buf[j] /\ before[j] # "nl"
      BY <1>1, <2>2, <2>4, Zenon
    <2>6. \A j \in 1..Len(before) : before[j] \in Byte \ {"nl"}
      BY <2>4, <2>5
    <2>7. before \in Text
      BY <2>4, <2>6, Over DEF Text
    <2> QED BY <2>4, <2>5, <2>7
  <1>12. PICK whole : whole = line \o before
    OBVIOUS
  <1>13. whole \in Text /\ Len(whole) = e - h
    <2>1. whole \in Text /\ Len(whole) = Len(line) + Len(before)
      BY <1>3, <1>11, <1>12, Joined DEF Text
    <2> QED BY <1>4, <1>7, <1>11, <2>1, Zenon
  <1>14. whole = SubSeq(stream, h, e - 1)
    <2>1. PICK last \in 0..s : last = e - 1
      BY <1>7
    <2>2. h \in 1..(s + 1) /\ last \in (h - 1)..s /\ last + 1 - h = e - h
      BY <1>7, <2>1
    <2>3. PICK part : part = SubSeq(stream, h, last)
      OBVIOUS
    <2>4. /\ part \in Seq(Byte) /\ Len(part) = e - h
          /\ \A k \in 1..(e - h) : part[k] = stream[h - 1 + k]
      <3>1. h \in 1..(Len(stream) + 1) /\ last \in (h - 1)..Len(stream)
        BY <1>4, <2>2, Zenon
      <3> QED BY <1>3, <2>2, <2>3, <3>1, Cut
    <2>5. ASSUME NEW k \in 1..(e - h) PROVE whole[k] = part[k]
      <3>1. CASE k \in 1..n
        <4>1. whole[k] = line[k]
          BY <1>3, <1>4, <1>11, <1>12, <3>1, Joined
        <4> QED BY <1>8, <2>4, <3>1, <4>1, Zenon
      <3>2. CASE k - n \in 1..(i - 1)
        <4>1. h - 1 + n + (k - n) = h - 1 + k /\ k - n \in 1..b
          BY <1>5, <3>2
        <4>2. whole[k] = before[k - n]
          <5>1. k \in 1..(n + (i - 1)) /\ k > n
            BY <1>5, <3>2
          <5> QED BY <1>3, <1>4, <1>11, <1>12, <5>1, Joined
        <4>3. before[k - n] = stream[h - 1 + k]
          BY <1>8, <1>11, <3>2, <4>1, Zenon
        <4> QED BY <2>4, <4>2, <4>3, Zenon
      <3>3. k \in 1..n \/ k - n \in 1..(i - 1)
        BY <1>5, <1>7
      <3> QED BY <3>1, <3>2, <3>3
    <2>6. whole = part
      <3>1. whole \in Seq(Byte)
        BY <1>13 DEF Text
      <3>2. Len(whole) = Len(part) /\ \A k \in 1..Len(whole) : whole[k] = part[k]
        BY <1>13, <2>4, <2>5, Zenon
      <3> QED BY <2>4, <3>1, <3>2, SeqEqual
    <2> QED BY <2>1, <2>3, <2>6
  <1>15. \A k \in h..(e - 1) : stream[k] # "nl"
    <2> SUFFICES ASSUME NEW k \in h..(e - 1) PROVE stream[k] # "nl"
      OBVIOUS
    <2>1. CASE k - h + 1 \in 1..n
      <3>1. h - 1 + (k - h + 1) = k
        OBVIOUS
      <3> QED BY <1>8, <2>1, <3>1
    <2>2. CASE k - h + 1 - n \in 1..(i - 1)
      <3>1. h - 1 + n + (k - h + 1 - n) = k /\ k - h + 1 - n \in 1..b
        BY <1>5, <2>2
      <3> QED BY <1>1, <1>8, <2>2, <3>1
    <2>3. k - h + 1 \in 1..n \/ k - h + 1 - n \in 1..(i - 1)
      BY <1>5, <1>6
    <2> QED BY <2>1, <2>2, <2>3
  <1>16. IsLineEnd(stream, e, h)
    <2>1. stream[e] = "nl"
      BY <1>1, <1>5, <1>7, <1>8
    <2> QED BY <1>4, <1>7, <1>15, <2>1 DEF IsLineEnd
  <1>17. line' = <<>> /\ MemoryBounded' /\ ClosedAtTheEnd'
    <2>1. line' = <<>> /\ Len(line') <= MAX
      BY <1>1, ReaderAssumption DEF End
    <2>2. Len(buf') <= BUF
      BY <1>4, <1>5, <1>9, ReaderAssumption DEF ReaderInv, MemoryBounded
    <2> QED BY <1>2, <2>1, <2>2 DEF ReaderInv, MemoryBounded, ClosedAtTheEnd
  <1>18. CASE Len(whole) > MAX /\ End("tooLong", <<>>)
    <2>1. ~Reading' /\ results' \in Seq(Outcomes)
      BY <1>2, <1>18, LastCall
    <2>2. TypeOK' /\ InStep'
      BY <1>2, <1>9, <1>17, <2>1 DEF ReaderInv, TypeOK, InStep, Text
    <2>3. e - h > MAX /\ (e - 1) + 1 - h > MAX /\ s + 1 - h > MAX
      BY <1>7, <1>13, <1>18, ReaderAssumption
    <2>4. Fitting(stream, h) = {}
      BY <1>3, <1>4, <1>7, <1>15, <2>3, NothingFits
    <2>5. Promised(stream, h) = Outcome("tooLong", <<>>)
      BY <1>3, <1>4, <1>7, <2>3, <2>4, PromisedFailure
    <2>6. ChunkingIrrelevant'
      BY <1>2, <1>4, <1>18, <2>5, EndStep
    <2> QED BY <1>17, <2>2, <2>6 DEF ReaderInv
  <1>19. CASE Len(whole) <= MAX /\ ~IsUtf8(whole) /\ End("notUtf8", <<>>)
    <2>1. ~Reading' /\ results' \in Seq(Outcomes)
      BY <1>2, <1>19, LastCall
    <2>2. TypeOK' /\ InStep'
      BY <1>2, <1>9, <1>17, <2>1 DEF ReaderInv, TypeOK, InStep, Text
    <2>3. e - h <= MAX
      BY <1>13, <1>19
    <2>4. Promised(stream, h) = Outcome("notUtf8", <<>>)
      BY <1>3, <1>14, <1>16, <1>19, <2>3, PromisedLine, Zenon
    <2>5. ChunkingIrrelevant'
      BY <1>2, <1>4, <1>19, <2>4, EndStep
    <2> QED BY <1>17, <2>2, <2>5 DEF ReaderInv
  <1>20. CASE Len(whole) <= MAX /\ IsUtf8(whole) /\ End("line", whole)
    <2>1. results' = Append(results, Outcome("line", whole))
      BY <1>20 DEF End
    <2>2. Outcome("line", whole) \in Outcomes
      BY <1>13 DEF Outcome, Outcomes
    <2>3. TypeOK'
      BY <1>2, <1>3, <1>9, <1>17, <2>1, <2>2 DEF ReaderInv, TypeOK, Text
    <2>4. InStep'
      <3> SUFFICES ASSUME Reading' PROVE InStep'
        BY DEF InStep
      <3>1. results = <<>> /\ Len(results) = 0
        BY <1>3, <2>1 DEF Reading
      <3>2. Here = 1 /\ results'[1].text = whole /\ Len(results') = 1
        BY <2>1, <3>1 DEF Here, Start, Outcome
      <3>3. Here' = Len(whole) + 2
        BY <3>2 DEF Here, Start
      <3>4. h = 1 /\ Here' = e - h + 2
        BY <1>4, <1>13, <3>2, <3>3
      <3>5. PICK g \in Nat \ {0} : g = Here' /\ g = h + n + i
        BY <1>5, <1>7, <3>4
      <3>6. ASSUME NEW j \in 1..(b - i) PROVE buf'[j] = stream[g - 1 + j]
        <4>1. i + j \in 1..b /\ h - 1 + n + (i + j) = g - 1 + j
          BY <1>5, <3>5
        <4> QED BY <1>8, <1>9, <4>1
      <3>7. taken + 1 = g + (b - i)
        BY <1>5, <3>5
      <3>8. taken' + 1 = Here' + Len(line') + Len(buf')
        <4>1. Len(line') = 0
          BY <1>17
        <4>2. g + 0 + (b - i) = taken + 1
          BY <1>5, <3>7
        <4> QED BY <1>2, <1>9, <3>5, <4>1, <4>2, Zenon
      <3>9. \A j \in 1..Len(buf') : buf'[j] = stream'[Here' - 1 + Len(line') + j]
        <4>1. Len(line') = 0
          BY <1>17
        <4>2. \A j \in 1..(b - i) : Here' - 1 + Len(line') + j = g - 1 + j
          BY <1>5, <3>5, <4>1
        <4>3. 1..Len(buf') = 1..(b - i) /\ stream' = stream
          BY <1>2, <1>9, Zenon
        <4> QED BY <3>6, <4>2, <4>3, Zenon
      <3>10. \A j \in 1..Len(line') : line'[j] = stream'[Here' - 1 + j]
        BY <1>17
      <3> QED BY <3>5, <3>8, <3>9, <3>10 DEF InStep
    <2>5. e - h <= MAX
      BY <1>13, <1>20
    <2>6. Promised(stream, h) = Outcome("line", whole)
      BY <1>3, <1>14, <1>16, <1>20, <2>5, PromisedLine, Zenon
    <2>7. ChunkingIrrelevant'
      BY <1>2, <1>4, <1>20, <2>6, EndStep
    <2> QED BY <1>17, <2>3, <2>4, <2>7 DEF ReaderInv
  <1> QED BY <1>1, <1>10, <1>12, <1>18, <1>19, <1>20

-----------------------------------------------------------------------------
\* Every step keeps the invariant.
LEMMA ReaderInductive == ReaderInv /\ [Next]_vars => ReaderInv'
  <1> SUFFICES ASSUME ReaderInv, [Next]_vars PROVE ReaderInv'
    OBVIOUS
  <1>1. CASE UNCHANGED vars
    BY <1>1 DEF vars, ReaderInv, TypeOK, MemoryBounded, InStep, ClosedAtTheEnd,
       ChunkingIrrelevant, Reading, Here, Start
  <1> QED BY <1>1, PeerStep, RefillStep, EofStep, KeepStep, FinishStep DEF Next, HubStep

\* The invariant holds on every connection, however its bytes arrive.
THEOREM ReaderSafe == Spec => []ReaderInv
  BY InitReader, ReaderInductive, PTL DEF Spec

\* Every variable of the reader keeps its type, and the buffered bytes and the
\* cursor stay within the stream.
THEOREM ReaderTypeCorrect == Spec => []TypeOK
  BY ReaderSafe, PTL DEF ReaderInv

\* Between refills the hub holds at most the limit and one buffer, whatever a
\* peer sends (read_line_bounded).
THEOREM MemoryIsBounded == Spec => []MemoryBounded
  BY ReaderSafe, PTL DEF ReaderInv

\* What a call returns is a function of its line: arrival, refills and the
\* buffer size do not matter, and no byte is lost between two calls
\* (read_line_bounded).
THEOREM PiecesDoNotMatter == Spec => []ChunkingIrrelevant
  BY ReaderSafe, PTL DEF ReaderInv
=============================================================================
