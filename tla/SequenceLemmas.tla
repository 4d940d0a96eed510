--------------------------- MODULE SequenceLemmas ---------------------------
(***************************************************************************)
(* Facts about numbers, and about the sequence operators that the queues,  *)
(* the registry and the audit file are built from.                         *)
(***************************************************************************)
EXTENDS Integers, Sequences, SequencesExt, SequenceTheorems,
        WellFoundedInduction, TLAPS

\* Two pieces joined.
LEMMA Joined ==
  ASSUME NEW S, NEW a \in Seq(S), NEW b \in Seq(S)
  PROVE  /\ a \o b \in Seq(S) /\ Len(a \o b) = Len(a) + Len(b)
         /\ \A i \in 1..(Len(a) + Len(b)) :
              /\ i <= Len(a) => (a \o b)[i] = a[i]
              /\ i > Len(a) => (a \o b)[i] = b[i - Len(a)]
  OBVIOUS

\* A piece cut out.
LEMMA Cut ==
  ASSUME NEW S, NEW a \in Seq(S), NEW m \in 1..(Len(a) + 1), NEW n \in (m - 1)..Len(a)
  PROVE  /\ SubSeq(a, m, n) \in Seq(S) /\ Len(SubSeq(a, m, n)) = n + 1 - m
         /\ \A k \in 1..(n + 1 - m) : SubSeq(a, m, n)[k] = a[m - 1 + k]
  <1>1. \A k \in 1..(n + 1 - m) : m + k - 1 = m - 1 + k /\ m - 1 + k \in 1..Len(a)
    OBVIOUS
  <1> QED BY <1>1, SubSeqProperties

\* What is left behind position i.
LEMMA Behind ==
  ASSUME NEW S, NEW a \in Seq(S), NEW i \in 1..Len(a)
  PROVE  /\ SubSeq(a, i + 1, Len(a)) \in Seq(S) /\ Len(SubSeq(a, i + 1, Len(a))) = Len(a) - i
         /\ \A k \in 1..(Len(a) - i) : SubSeq(a, i + 1, Len(a))[k] = a[i + k]
  <1>1. PICK m \in 1..(Len(a) + 1) : m = i + 1
    OBVIOUS
  <1>2. Len(a) \in (m - 1)..Len(a) /\ Len(a) + 1 - m = Len(a) - i
    BY <1>1
  <1>3. PICK after : after = SubSeq(a, m, Len(a))
    OBVIOUS
  <1>4. /\ after \in Seq(S) /\ Len(after) = Len(a) - i
        /\ \A k \in 1..(Len(a) - i) : after[k] = a[m - 1 + k]
    BY <1>2, <1>3, Cut
  <1>5. \A k \in 1..(Len(a) - i) : m - 1 + k = i + k
    BY <1>1
  <1> QED BY <1>1, <1>3, <1>4, <1>5, Zenon

\* Removing a position moves the elements behind it forward by one.
LEMMA RemoveAtPositions ==
  ASSUME NEW S, NEW s \in Seq(S), NEW i \in DOMAIN s
  PROVE  /\ RemoveAt(s, i) \in Seq(S) /\ Len(RemoveAt(s, i)) = Len(s) - 1
         /\ \A k \in 1..(Len(s) - 1) :
              /\ k < i => RemoveAt(s, i)[k] = s[k]
              /\ k >= i => RemoveAt(s, i)[k] = s[k + 1]
  <1>1. i \in 1..Len(s) /\ Len(s) \in Nat
    OBVIOUS
  <1>2. PICK a : a = SubSeq(s, 1, i - 1)
    OBVIOUS
  <1>3. PICK b : b = SubSeq(s, i + 1, Len(s))
    OBVIOUS
  <1>4. a \in Seq(S) /\ Len(a) = i - 1 /\ \A k \in 1..(i - 1) : a[k] = s[k]
    <2>1. 1 \in 1..(Len(s) + 1) /\ i - 1 \in (1 - 1)..Len(s)
      BY <1>1
    <2>2. PICK m : m = 1
      OBVIOUS
    <2>3. PICK n : n = i - 1
      OBVIOUS
    <2>4. a \in Seq(S) /\ Len(a) = n + 1 - m /\ \A k \in 1..(n + 1 - m) : a[k] = s[m - 1 + k]
      <3>1. m \in 1..(Len(s) + 1) /\ n \in (m - 1)..Len(s)
        BY <2>1, <2>2, <2>3
      <3>2. a = SubSeq(s, m, n)
        BY <1>2, <2>2, <2>3
      <3> QED BY <3>1, <3>2, Cut
    <2>5. n + 1 - m = i - 1 /\ \A k \in 1..(i - 1) : m - 1 + k = k
      BY <1>1, <2>2, <2>3
    <2> QED BY <2>4, <2>5
  <1>5. b \in Seq(S) /\ Len(b) = Len(s) - i /\ \A k \in 1..(Len(s) - i) : b[k] = s[i + k]
    BY <1>1, <1>3, Behind
  <1>6. PICK joined : joined = a \o b
    OBVIOUS
  <1>7. /\ joined \in Seq(S) /\ Len(joined) = Len(a) + Len(b)
        /\ \A k \in 1..(Len(a) + Len(b)) : /\ k <= Len(a) => joined[k] = a[k]
                                           /\ k > Len(a) => joined[k] = b[k - Len(a)]
    <2>1. a \in Seq(S) /\ b \in Seq(S)
      BY <1>4, <1>5
    <2>2. /\ a \o b \in Seq(S) /\ Len(a \o b) = Len(a) + Len(b)
          /\ \A k \in 1..(Len(a) + Len(b)) : /\ k <= Len(a) => (a \o b)[k] = a[k]
                                             /\ k > Len(a) => (a \o b)[k] = b[k - Len(a)]
      BY <2>1, Joined
    <2> QED BY <1>6, <2>2
  <1>8. Len(a) + Len(b) = Len(s) - 1
    BY <1>1, <1>4, <1>5
  <1>9. ASSUME NEW k \in 1..(Len(s) - 1)
        PROVE  /\ k < i => joined[k] = s[k]
               /\ k >= i => joined[k] = s[k + 1]
    <2>1. CASE k < i
      <3>1. k \in 1..(i - 1)
        BY <1>1, <2>1
      <3>2. joined[k] = a[k]
        BY <1>4, <1>7, <1>8, <2>1
      <3>3. a[k] = s[k]
        BY <1>4, <3>1, Zenon
      <3> QED BY <2>1, <3>2, <3>3
    <2>2. CASE k >= i
      <3>1. PICK m \in 1..(Len(s) - i) : k - (i - 1) = m
        BY <1>1, <2>2
      <3>2. joined[k] = b[m]
        BY <1>4, <1>7, <1>8, <2>2, <3>1
      <3>3. b[m] = s[i + m]
        BY <1>5, Zenon
      <3>4. i + m = k + 1
        BY <1>1, <3>1
      <3> QED BY <2>2, <3>2, <3>3, <3>4
    <2> QED BY <1>1, <2>1, <2>2
  <1>10. RemoveAt(s, i) = joined
    BY <1>2, <1>3, <1>6 DEF RemoveAt
  <1>11. Len(joined) = Len(s) - 1
    BY <1>7, <1>8
  <1> QED BY <1>7, <1>9, <1>10, <1>11, Zenon

\* Removing a position leaves a sequence of elements of the old one.
LEMMA RemoveAtElements ==
  ASSUME NEW S, NEW s \in Seq(S), NEW i \in DOMAIN s
  PROVE  /\ RemoveAt(s, i) \in Seq(S)
         /\ \A k \in DOMAIN RemoveAt(s, i) : \E j \in DOMAIN s : RemoveAt(s, i)[k] = s[j]
<1>1. PICK rest : rest = RemoveAt(s, i)
  OBVIOUS
<1>2. /\ rest \in Seq(S) /\ Len(rest) = Len(s) - 1
      /\ \A k \in 1..(Len(s) - 1) : /\ k < i => rest[k] = s[k]
                                    /\ k >= i => rest[k] = s[k + 1]
  BY <1>1, RemoveAtPositions
<1>3. ASSUME NEW k \in DOMAIN rest PROVE \E j \in DOMAIN s : rest[k] = s[j]
  <2>1. k \in 1..(Len(s) - 1) /\ k \in DOMAIN s /\ k + 1 \in DOMAIN s
    BY <1>2
  <2> QED BY <1>2, <2>1
<1> QED BY <1>1, <1>2, <1>3

\* Adding an envelope at either end adds no other element.
LEMMA EndsElements ==
  ASSUME NEW S, NEW s \in Seq(S), NEW e \in S
  PROVE  /\ Append(s, e) \in Seq(S) /\ <<e>> \o s \in Seq(S)
         /\ \A k \in DOMAIN Append(s, e) :
              Append(s, e)[k] = e \/ \E j \in DOMAIN s : Append(s, e)[k] = s[j]
         /\ \A k \in DOMAIN (<<e>> \o s) :
              (<<e>> \o s)[k] = e \/ \E j \in DOMAIN s : (<<e>> \o s)[k] = s[j]
<1>1. Append(s, e) \in Seq(S) /\ <<e>> \o s \in Seq(S)
  OBVIOUS
<1>2. ASSUME NEW k \in DOMAIN Append(s, e)
      PROVE  Append(s, e)[k] = e \/ \E j \in DOMAIN s : Append(s, e)[k] = s[j]
  OBVIOUS
<1>3. ASSUME NEW k \in DOMAIN (<<e>> \o s)
      PROVE  (<<e>> \o s)[k] = e \/ \E j \in DOMAIN s : (<<e>> \o s)[k] = s[j]
  <2>1. k \in 1..(1 + Len(s))
    OBVIOUS
  <2>2. CASE k = 1
    BY <2>2
  <2>3. CASE k > 1
    <3>1. (<<e>> \o s)[k] = s[k - 1] /\ k - 1 \in 1..Len(s)
      BY <2>1, <2>3
    <3> QED BY <3>1
  <2> QED BY <2>1, <2>2, <2>3
<1> QED BY <1>1, <1>2, <1>3

\* q is s with e put in at position p.
InsertedAt(q, s, e, p) ==
  /\ Len(q) = Len(s) + 1 /\ p \in 1..Len(q) /\ q[p] = e
  /\ \A k \in 1..Len(s) : q[IF k < p THEN k ELSE k + 1] = s[k]

\* An insertion adds one element and keeps the order of the others.
LEMMA InsertionKeepsOrder ==
  ASSUME NEW S, NEW s \in Seq(S), NEW q \in Seq(S), NEW e, NEW p, InsertedAt(q, s, e, p)
  PROVE  /\ p \in DOMAIN q /\ q[p] = e
         /\ \A k \in DOMAIN q \ {p} : \E i \in DOMAIN s : s[i] = q[k]
         /\ \A i \in DOMAIN s : \E k \in DOMAIN q \ {p} : s[i] = q[k]
         /\ \A k, l \in DOMAIN q \ {p} : k < l =>
              \E i, j \in DOMAIN s : i < j /\ s[i] = q[k] /\ s[j] = q[l]
         /\ \A i, j \in DOMAIN s : i < j =>
              \E k, l \in DOMAIN q \ {p} : k < l /\ s[i] = q[k] /\ s[j] = q[l]
<1> DEFINE In(i) == IF i < p THEN i ELSE i + 1
           Out(k) == IF k < p THEN k ELSE k - 1
<1>1. /\ DOMAIN s = 1..Len(s) /\ DOMAIN q = 1..(Len(s) + 1) /\ Len(s) \in Nat
      /\ p \in 1..(Len(s) + 1) /\ q[p] = e
  BY DEF InsertedAt
<1>2. \A i \in DOMAIN s : In(i) \in DOMAIN q \ {p} /\ q[In(i)] = s[i]
  BY <1>1 DEF InsertedAt
<1>3. \A k \in DOMAIN q \ {p} : Out(k) \in DOMAIN s /\ In(Out(k)) = k
  BY <1>1
<1>4. \A k \in DOMAIN q \ {p} : s[Out(k)] = q[k]
  BY <1>2, <1>3
<1>5. \A i, j \in DOMAIN s : i < j => In(i) < In(j)
  BY <1>1
<1>6. \A k, l \in DOMAIN q \ {p} : k < l => Out(k) < Out(l)
  BY <1>1
<1> HIDE DEF In, Out
<1> QED BY <1>1, <1>2, <1>3, <1>4, <1>5, <1>6

\* Both ends of a queue are places to insert at.
LEMMA EndsInsert ==
  ASSUME NEW S, NEW s \in Seq(S), NEW e \in S
  PROVE  /\ Append(s, e) \in Seq(S) /\ InsertedAt(Append(s, e), s, e, Len(s) + 1)
         /\ <<e>> \o s \in Seq(S) /\ InsertedAt(<<e>> \o s, s, e, 1)
<1>1. Append(s, e) \in Seq(S) /\ InsertedAt(Append(s, e), s, e, Len(s) + 1)
  BY DEF InsertedAt
<1>2. <<e>> \in Seq(S) /\ Len(<<e>>) = 1 /\ <<e>>[1] = e
  OBVIOUS
<1>3. PICK front : front = <<e>>
  OBVIOUS
<1>4. /\ front \o s \in Seq(S) /\ Len(front \o s) = 1 + Len(s)
      /\ \A i \in 1..(1 + Len(s)) : /\ i <= 1 => (front \o s)[i] = front[i]
                                    /\ i > 1 => (front \o s)[i] = s[i - 1]
  BY <1>2, <1>3, Joined
<1>5. InsertedAt(front \o s, s, e, 1)
  <2>1. (front \o s)[1] = e
    BY <1>2, <1>3, <1>4
  <2>2. ASSUME NEW k \in 1..Len(s) PROVE (front \o s)[k + 1] = s[k] /\ ~(k < 1)
    <3>1. k + 1 \in 1..(1 + Len(s)) /\ k + 1 > 1 /\ (k + 1) - 1 = k
      OBVIOUS
    <3> QED BY <1>4, <3>1
  <2> QED BY <1>4, <2>1, <2>2 DEF InsertedAt
<1> QED BY <1>1, <1>3, <1>4, <1>5

\* Removing position i undoes an insertion there.
LEMMA RemovalInserts ==
  ASSUME NEW S, NEW s \in Seq(S), NEW i \in DOMAIN s
  PROVE  RemoveAt(s, i) \in Seq(S) /\ InsertedAt(s, RemoveAt(s, i), s[i], i)
<1>1. PICK rest : rest = RemoveAt(s, i)
  OBVIOUS
<1>2. /\ rest \in Seq(S) /\ Len(rest) = Len(s) - 1
      /\ \A k \in 1..(Len(s) - 1) : /\ k < i => rest[k] = s[k]
                                    /\ k >= i => rest[k] = s[k + 1]
  BY <1>1, RemoveAtPositions
<1>3. InsertedAt(s, rest, s[i], i)
  BY <1>2 DEF InsertedAt
<1> QED BY <1>1, <1>2, <1>3

-----------------------------------------------------------------------------
(* Numbers.  The library's induction theorems take an operator; the induction *)
(* here is on a set, from the well-foundedness of <.                          *)

LEMMA LeastNat ==
  ASSUME NEW T, T \subseteq Nat, T # {}
  PROVE  \E x \in T : \A y \in T : x <= y
<1>1. PICK R : R = OpToRel(<, Nat)
  OBVIOUS
<1>2. \A x, y \in Nat : <<x, y>> \in R <=> x < y
  BY <1>1 DEF OpToRel
<1>3. PICK x \in T : \A y \in T : <<y, x>> \notin R
  BY <1>1, WFMin, NatLessThanWellFounded
<1>4. ASSUME NEW y \in T PROVE x <= y
  <2>1. x \in Nat /\ y \in Nat /\ <<y, x>> \notin R
    BY <1>3
  <2> QED BY <1>2, <2>1
<1> QED BY <1>4

LEMMA Induction ==
  ASSUME NEW T, 0 \in T, \A n \in Nat : n \in T => n + 1 \in T
  PROVE  \A n \in Nat : n \in T
<1>1. SUFFICES ASSUME Nat \ T # {}
               PROVE  FALSE
  OBVIOUS
<1>2. PICK x \in Nat \ T : \A y \in Nat \ T : x <= y
  BY <1>1, LeastNat
<1>3. x # 0 /\ x - 1 \in Nat /\ x - 1 + 1 = x
  BY <1>2
<1>4. x - 1 \in T
  BY <1>2, <1>3
<1> QED BY <1>2, <1>3, <1>4

LEMMA GreatestOf ==
  ASSUME NEW n \in Nat, NEW s \in SUBSET (1..n), s # {}
  PROVE  Max(s) \in s /\ \A y \in s : y <= Max(s)
<1>1. PICK T : T = {n - x : x \in s}
  OBVIOUS
<1>2. T \subseteq Nat /\ T # {}
  <2>1. \A x \in s : n - x \in Nat
    OBVIOUS
  <2> QED BY <1>1, <2>1
<1>3. PICK d \in T : \A e \in T : d <= e
  BY <1>2, LeastNat
<1>4. PICK x \in s : d = n - x
  BY <1>1, <1>3
<1>5. ASSUME NEW y \in s PROVE x >= y
  <2>1. n - x <= n - y
    BY <1>1, <1>3, <1>4
  <2>2. n \in Int /\ x \in Int /\ y \in Int
    OBVIOUS
  <2> QED BY <2>1, <2>2
<1>6. PICK m : m = Max(s)
  OBVIOUS
<1>7. m \in s /\ \A y \in s : m >= y
  <2>1. \E z \in s : \A y \in s : z >= y
    BY <1>4, <1>5
  <2> QED BY <1>6, <2>1, Zenon DEF Max
<1>8. \A y \in s : y <= m
  BY <1>7
<1> QED BY <1>6, <1>7, <1>8

LEMMA LeastOf ==
  ASSUME NEW n \in Nat, NEW s \in SUBSET (1..n), s # {}
  PROVE  Min(s) \in s /\ \A y \in s : Min(s) <= y
<1>1. s \subseteq Nat
  OBVIOUS
<1>2. \E x \in s : \A y \in s : x =< y
  BY <1>1, LeastNat
<1> QED BY <1>2 DEF Min
=============================================================================
