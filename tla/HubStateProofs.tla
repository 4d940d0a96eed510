---------------------------- MODULE HubStateProofs ----------------------------
(***************************************************************************)
(* Proofs about the maps behind the state mutex: they hold no empty entry, *)
(* their waiters are in the order of registration, and the loop that scans *)
(* and retries does at once what the match semantics promises, for queues  *)
(* and registries of any length.                                           *)
(*                                                                         *)
(* What the scan of a Vec finds is proved by induction on its length, see  *)
(* Induction in SequenceLemmas.                                            *)
(***************************************************************************)
EXTENDS HubState, SequenceLemmas

-----------------------------------------------------------------------------
(* The scans. *)

\* One turn of route_envelope's loop over the Vec.
Better(ws, env, i, best) ==
  IF /\ Matches(ws[i].filter, env)
     /\ best = 0 \/ Specificity(ws[i].filter) > Specificity(ws[best].filter)
  THEN i ELSE best

\* f[1..m] is what the loop has found after m turns.
IsScan(f, n, ws, env) ==
  f = [s \in SUBSET (1..n) |->
         IF s = {} THEN 0 ELSE Better(ws, env, Max(s), f[s \ {Max(s)}])]

LEMMA ScanExists ==
  ASSUME NEW ws, NEW env
  PROVE  \A n \in Nat : \E f : IsScan(f, n, ws, env)
<1>1. PICK T : T = {n \in Nat : \E f : IsScan(f, n, ws, env)}
  OBVIOUS
<1>2. 0 \in T
  <2>1. PICK f : f = [s \in SUBSET (1..0) |-> 0]
    OBVIOUS
  <2>2. 1..0 = {} /\ \A s \in SUBSET (1..0) : s = {}
    OBVIOUS
  <2>3. IsScan(f, 0, ws, env)
    BY <2>1, <2>2 DEF IsScan
  <2> QED BY <1>1, <2>3
<1>3. ASSUME NEW n \in Nat, n \in T PROVE n + 1 \in T
  <2>1. PICK f : IsScan(f, n, ws, env)
    BY <1>1, <1>3
  <2>2. PICK g : g = [s \in SUBSET (1..(n + 1)) |->
                        IF n + 1 \in s THEN Better(ws, env, n + 1, f[s \ {n + 1}]) ELSE f[s]]
    OBVIOUS
  <2>3. ASSUME NEW s \in SUBSET (1..(n + 1))
        PROVE  g[s] = IF s = {} THEN 0 ELSE Better(ws, env, Max(s), g[s \ {Max(s)}])
    <3>1. CASE s = {}
      <4>1. s \in SUBSET (1..n) /\ n + 1 \notin s
        BY <3>1
      <4>2. f[s] = 0
        BY <2>1, <3>1, <4>1 DEF IsScan
      <4>3. g[s] = f[s]
        BY <2>2, <4>1
      <4> QED BY <3>1, <4>2, <4>3
    <3>2. CASE s # {} /\ n + 1 \in s
      <4>1. PICK k \in Nat : k = n + 1
        OBVIOUS
      <4>2. Max(s) = n + 1
        <5>1. Max(s) \in s /\ \A y \in s : y <= Max(s)
          BY <3>2, <4>1, GreatestOf
        <5>2. PICK m : m = Max(s)
          OBVIOUS
        <5>3. m \in 1..(n + 1) /\ n + 1 <= m
          BY <3>2, <5>1, <5>2
        <5> QED BY <5>2, <5>3
      <4>3. s \ {n + 1} \in SUBSET (1..(n + 1)) /\ n + 1 \notin s \ {n + 1}
        OBVIOUS
      <4>4. g[s \ {n + 1}] = f[s \ {n + 1}]
        BY <2>2, <4>3
      <4> QED BY <2>2, <3>2, <4>2, <4>4
    <3>3. CASE s # {} /\ n + 1 \notin s
      <4>1. s \in SUBSET (1..n)
        BY <3>3
      <4>2. s \ {Max(s)} \in SUBSET (1..(n + 1)) /\ n + 1 \notin s \ {Max(s)}
        BY <3>3
      <4>3. g[s \ {Max(s)}] = f[s \ {Max(s)}] /\ g[s] = f[s]
        BY <2>2, <3>3, <4>2
      <4>4. f[s] = Better(ws, env, Max(s), f[s \ {Max(s)}])
        BY <2>1, <3>3, <4>1 DEF IsScan
      <4> QED BY <3>3, <4>3, <4>4
    <3> QED BY <3>1, <3>2, <3>3
  <2>4. IsScan(g, n + 1, ws, env)
    BY <2>2, <2>3 DEF IsScan
  <2> QED BY <1>1, <2>4
<1>4. \A n \in Nat : n \in T
  BY <1>2, <1>3, Induction
<1> QED BY <1>1, <1>4

\* Of the first m waiters, the matching one with the greatest rank, and of
\* these the first; 0 if none matches.
BestOfFirst(b, m, ws, env) ==
  /\ b \in 0..m
  /\ b = 0 => \A i \in 1..m : ~Matches(ws[i].filter, env)
  /\ b # 0 =>
       /\ Matches(ws[b].filter, env)
       /\ \A i \in 1..m : Matches(ws[i].filter, env) =>
            \/ Specificity(ws[i].filter) < Specificity(ws[b].filter)
            \/ (Specificity(ws[i].filter) = Specificity(ws[b].filter) /\ b <= i)

LEMMA RankIsNat ==
  ASSUME NEW filter
  PROVE  Specificity(filter) \in Nat
BY DEF Specificity

LEMMA BetterKeepsBest ==
  ASSUME NEW ws, NEW env, NEW m \in Nat, NEW b, BestOfFirst(b, m, ws, env)
  PROVE  BestOfFirst(Better(ws, env, m + 1, b), m + 1, ws, env)
<1> DEFINE rank(i) == Specificity(ws[i].filter)
           ok(i) == Matches(ws[i].filter, env)
           ahead(c, i) == rank(i) < rank(c) \/ (rank(i) = rank(c) /\ c <= i)
<1>1. \A i : rank(i) \in Nat
  BY RankIsNat
<1>2. /\ b \in 0..m /\ (b = 0 => \A i \in 1..m : ~ok(i))
      /\ b # 0 => ok(b) /\ \A i \in 1..m : ok(i) => ahead(b, i)
  BY Zenon DEF BestOfFirst
<1>3. PICK c : c = Better(ws, env, m + 1, b)
  OBVIOUS
<1>4. c = IF ok(m + 1) /\ (b = 0 \/ rank(m + 1) > rank(b)) THEN m + 1 ELSE b
  BY <1>3 DEF Better
<1>5. SUFFICES /\ c \in 0..(m + 1) /\ (c = 0 => \A i \in 1..(m + 1) : ~ok(i))
               /\ c # 0 => ok(c) /\ \A i \in 1..(m + 1) : ok(i) => ahead(c, i)
  BY <1>3, Zenon DEF BestOfFirst
<1> HIDE DEF rank, ok
<1>6. \A i \in 1..(m + 1) : i \in 1..m \/ i = m + 1
  OBVIOUS
<1>7. CASE ok(m + 1) /\ (b = 0 \/ rank(m + 1) > rank(b))
  BY <1>1, <1>2, <1>4, <1>6, <1>7
<1>8. CASE ~ok(m + 1) \/ (b # 0 /\ ~(rank(m + 1) > rank(b)))
  BY <1>1, <1>2, <1>4, <1>6, <1>8
<1> QED BY <1>7, <1>8

\* The definition of the fold, spelled out.
IsFold(f, ws, env) ==
  f = [s \in SUBSET (DOMAIN [i \in DOMAIN ws |-> i]) |->
         IF s = {} THEN 0
         ELSE Better(ws, env, [i \in DOMAIN ws |-> i][Max(s)], f[s \ {Max(s)}])]

\* The scan of the whole Vec finds the best waiter of it.
LEMMA BestIndexIsBest ==
  ASSUME NEW S, NEW ws \in Seq(S), NEW env
  PROVE  BestOfFirst(BestIndex(ws, env), Len(ws), ws, env)
<1>1. PICK N \in Nat : N = Len(ws) /\ DOMAIN ws = 1..N
  OBVIOUS
<1>2. ASSUME NEW g PROVE IsFold(g, ws, env) <=> IsScan(g, N, ws, env)
  <2>1. PICK id : id = [i \in DOMAIN ws |-> i]
    OBVIOUS
  <2>2. DOMAIN id = 1..N
    BY <1>1, <2>1
  <2>3. \A s \in SUBSET (1..N) : s # {} => id[Max(s)] = Max(s)
    <3>1. ASSUME NEW s \in SUBSET (1..N), s # {} PROVE Max(s) \in DOMAIN ws
      BY <1>1, <3>1, GreatestOf
    <3> QED BY <2>1, <3>1
  <2>4. [s \in SUBSET (DOMAIN id) |->
            IF s = {} THEN 0 ELSE Better(ws, env, id[Max(s)], g[s \ {Max(s)}])]
          = [s \in SUBSET (1..N) |->
               IF s = {} THEN 0 ELSE Better(ws, env, Max(s), g[s \ {Max(s)}])]
    BY <2>2, <2>3
  <2> QED BY <2>1, <2>4 DEF IsFold, IsScan
<1>3. PICK f : f = CHOOSE g : IsFold(g, ws, env)
  OBVIOUS
<1>4. IsScan(f, N, ws, env)
  <2>1. \E g : IsFold(g, ws, env)
    BY <1>2, ScanExists
  <2> QED BY <1>2, <1>3, <2>1
<1>5. BestIndex(ws, env) = f[1..N]
  <2>1. BestIndex(ws, env) = (CHOOSE g : IsFold(g, ws, env))[DOMAIN [i \in DOMAIN ws |-> i]]
    BY DEF BestIndex, FoldLeftDomain, FoldLeft, MapThenFoldSet, Better, IsFold
  <2> QED BY <1>1, <1>3, <2>1
<1>6. PICK T : T = {m \in Nat : m <= N => BestOfFirst(f[1..m], m, ws, env)}
  OBVIOUS
<1>7. 0 \in T
  <2>1. 1..0 = {} /\ {} \in SUBSET (1..N)
    OBVIOUS
  <2>2. f[{}] = 0
    BY <1>4, <2>1 DEF IsScan
  <2>3. BestOfFirst(f[1..0], 0, ws, env)
    BY <2>1, <2>2 DEF BestOfFirst
  <2> QED BY <1>6, <2>3
<1>8. ASSUME NEW m \in Nat, m \in T PROVE m + 1 \in T
  <2>1. SUFFICES ASSUME m + 1 <= N
                 PROVE  BestOfFirst(f[1..(m + 1)], m + 1, ws, env)
    BY <1>6
  <2>2. PICK s : s = 1..(m + 1)
    OBVIOUS
  <2>3. s \in SUBSET (1..N) /\ m + 1 \in s
    BY <2>1, <2>2
  <2>4. Max(s) \in s /\ m + 1 <= Max(s)
    BY <2>3, GreatestOf
  <2>5. Max(s) = m + 1
    BY <2>2, <2>4
  <2>6. s \ {m + 1} = 1..m
    BY <2>2
  <2>7. f[s] = Better(ws, env, m + 1, f[1..m])
    BY <1>4, <2>3, <2>5, <2>6 DEF IsScan
  <2>8. BestOfFirst(f[1..m], m, ws, env)
    BY <1>6, <1>8, <2>1
  <2> QED BY <2>2, <2>7, <2>8, BetterKeepsBest
<1>9. N \in T
  BY <1>7, <1>8, Induction
<1> QED BY <1>1, <1>5, <1>6, <1>9

\* take_queued's scan finds the first envelope the filter accepts.
LEMMA FirstMatchIsFirst ==
  ASSUME NEW S, NEW n, NEW filter, Entry(queues, n) \in Seq(S)
  PROVE  IF FirstMatch(n, filter) = 0
         THEN \A i \in DOMAIN Entry(queues, n) : ~Matches(filter, Entry(queues, n)[i])
         ELSE IsFirstMatch(FirstMatch(n, filter), Entry(queues, n), filter)
<1>1. PICK q \in Seq(S) : q = Entry(queues, n)
  OBVIOUS
<1>2. PICK N \in Nat : N = Len(q) /\ DOMAIN q = 1..N
  OBVIOUS
<1>3. PICK hits : hits = {i \in 1..N : Matches(filter, q[i])}
  OBVIOUS
<1>4. hits \in SUBSET (1..N)
  BY <1>3
<1>5. FirstMatch(n, filter) = IF hits # {} THEN Min(hits) ELSE 0
  <2>1. hits = {i \in 1..Len(q) : Matches(filter, q[i])}
    BY <1>2, <1>3
  <2> QED BY <1>1, <2>1 DEF FirstMatch, SelectInSeq
<1>6. CASE hits = {}
  BY <1>1, <1>2, <1>3, <1>5, <1>6
<1>7. CASE hits # {}
  <2>1. PICK m : m = Min(hits)
    OBVIOUS
  <2>2. m \in hits /\ \A i \in hits : m <= i
    BY <1>4, <1>7, <2>1, LeastOf
  <2>3. m \in 1..N /\ Matches(filter, q[m])
    BY <1>3, <2>2
  <2>4. ASSUME NEW j \in 1..(m - 1) PROVE ~Matches(filter, q[j])
    <3>1. j \in 1..N /\ ~(m <= j)
      BY <2>3
    <3> QED BY <1>3, <2>2, <3>1
  <2>5. IsFirstMatch(m, q, filter) /\ m # 0
    BY <1>2, <2>3, <2>4 DEF IsFirstMatch
  <2> QED BY <1>1, <1>5, <1>7, <2>1, <2>5
<1> QED BY <1>6, <1>7

-----------------------------------------------------------------------------
(* The maps. *)

\* p is the map with s for the entry of n.
IsPut(p, map, n, s) ==
  /\ DOMAIN p = IF s = <<>> THEN DOMAIN map \ {n} ELSE DOMAIN map \cup {n}
  /\ \A m \in DOMAIN p : p[m] = IF m = n THEN s ELSE map[m]
  /\ \A m : Entry(p, m) = IF m = n THEN s ELSE Entry(map, m)

LEMMA PutEntries ==
  ASSUME NEW map, NEW n, NEW s
  PROVE  IsPut(Put(map, n, s), map, n, s)
<1>1. PICK D : D = IF s = <<>> THEN DOMAIN map \ {n} ELSE DOMAIN map \cup {n}
  OBVIOUS
<1>2. PICK p : p = [m \in D |-> IF m = n THEN s ELSE map[m]]
  OBVIOUS
<1>3. DOMAIN p = D /\ \A m \in D : p[m] = IF m = n THEN s ELSE map[m]
  BY <1>2
<1>4. \A m : Entry(p, m) = IF m = n THEN s ELSE Entry(map, m)
  BY <1>1, <1>3 DEF Entry
<1>5. Put(map, n, s) = p
  BY <1>1, <1>2 DEF Put
<1> QED BY <1>1, <1>3, <1>4, <1>5 DEF IsPut

\* A map of nonempty sequences.
Tidy(map, S) ==
  /\ DOMAIN map \subseteq Names
  /\ \A n \in DOMAIN map : map[n] \in Seq(S) /\ map[n] # <<>>

LEMMA TidyEntry ==
  ASSUME NEW map, NEW S, Tidy(map, S), NEW n
  PROVE  /\ Entry(map, n) \in Seq(S)
         /\ Entry(map, n) # <<>> => n \in DOMAIN map /\ n \in Names /\ Entry(map, n) = map[n]
BY DEF Tidy, Entry

LEMMA PutTidy ==
  ASSUME NEW map, NEW S, Tidy(map, S), NEW n \in Names, NEW s \in Seq(S)
  PROVE  Tidy(Put(map, n, s), S)
<1>1. PICK p : p = Put(map, n, s)
  OBVIOUS
<1>2. /\ DOMAIN p = IF s = <<>> THEN DOMAIN map \ {n} ELSE DOMAIN map \cup {n}
      /\ \A m \in DOMAIN p : p[m] = IF m = n THEN s ELSE map[m]
  <2>1. IsPut(p, map, n, s)
    BY <1>1, PutEntries
  <2> QED BY <2>1 DEF IsPut
<1>3. DOMAIN p \subseteq Names
  BY <1>2 DEF Tidy
<1>4. ASSUME NEW m \in DOMAIN p PROVE p[m] \in Seq(S) /\ p[m] # <<>>
  <2>1. CASE m = n
    BY <1>2, <2>1
  <2>2. CASE m # n
    <3>1. m \in DOMAIN map /\ p[m] = map[m]
      BY <1>2, <2>2
    <3> QED BY <3>1 DEF Tidy
  <2> QED BY <2>1, <2>2
<1> QED BY <1>1, <1>3, <1>4 DEF Tidy

-----------------------------------------------------------------------------
(* A Vec of waiters. *)

\* In the order of registration.
InOrder(ws) == \A i, j \in DOMAIN ws : i < j => ws[i].id < ws[j].id

Record(bound) == [id : 0..(bound - 1), filter : Filters]

LEMMA RemovedFromVec ==
  ASSUME NEW bound \in Nat, NEW ws \in Seq(Record(bound)), InOrder(ws), NEW i \in DOMAIN ws
  PROVE  /\ Without(ws, i) \in Seq(Record(bound)) /\ InOrder(Without(ws, i))
         /\ ToSet(Without(ws, i)) = ToSet(ws) \ {ws[i]}
         /\ \A w \in ToSet(ws) \ {ws[i]} : w.id # ws[i].id
<1>1. PICK rest : rest = Without(ws, i)
  OBVIOUS
<1>2. PICK N \in Nat : N = Len(ws) /\ DOMAIN ws = 1..N /\ i \in 1..N
  OBVIOUS
<1>3. /\ rest \in Seq(Record(bound)) /\ Len(rest) = N - 1 /\ DOMAIN rest = 1..(N - 1)
      /\ \A k \in 1..(N - 1) : /\ k < i => rest[k] = ws[k]
                               /\ k >= i => rest[k] = ws[k + 1]
  <2>1. /\ rest \in Seq(Record(bound)) /\ Len(rest) = Len(ws) - 1
        /\ \A k \in 1..(Len(ws) - 1) : /\ k < i => rest[k] = ws[k]
                                       /\ k >= i => rest[k] = ws[k + 1]
    BY <1>1, RemoveAtPositions DEF Without
  <2>2. DOMAIN rest = 1..(N - 1)
    BY <1>2, <2>1
  <2> QED BY <1>2, <2>1, <2>2
<1>4. \A k \in 1..N : ws[k].id \in Nat
  <2>1. \A k \in 1..N : ws[k] \in Record(bound)
    BY <1>2
  <2> QED BY <2>1 DEF Record
<1>5. \A j, k \in 1..N : j # k => ws[j].id # ws[k].id
  BY <1>2, <1>4 DEF InOrder
<1>6. PICK from : from = [k \in 1..(N - 1) |-> IF k < i THEN k ELSE k + 1]
  OBVIOUS
<1>7. /\ \A k \in 1..(N - 1) : from[k] \in 1..N /\ from[k] # i /\ rest[k] = ws[from[k]]
      /\ \A j, k \in 1..(N - 1) : j < k => from[j] < from[k]
      /\ \A j \in 1..N : j # i => \E k \in 1..(N - 1) : from[k] = j
  <2>1. \A k \in 1..(N - 1) : from[k] \in 1..N /\ from[k] # i /\ rest[k] = ws[from[k]]
    BY <1>2, <1>3, <1>6
  <2>2. \A j, k \in 1..(N - 1) : j < k => from[j] < from[k]
    BY <1>2, <1>6
  <2>3. ASSUME NEW j \in 1..N, j # i PROVE \E k \in 1..(N - 1) : from[k] = j
    <3>1. PICK k \in 1..(N - 1) : k = IF j < i THEN j ELSE j - 1
      BY <1>2, <2>3
    <3>2. from[k] = IF k < i THEN k ELSE k + 1
      BY <1>6
    <3> QED BY <1>2, <2>3, <3>1, <3>2
  <2> QED BY <2>1, <2>2, <2>3
<1>8. InOrder(rest)
  <2>1. ASSUME NEW j \in 1..(N - 1), NEW k \in 1..(N - 1), j < k PROVE rest[j].id < rest[k].id
    <3>1. from[j] < from[k] /\ from[j] \in DOMAIN ws /\ from[k] \in DOMAIN ws
      BY <1>2, <1>7, <2>1
    <3>2. ws[from[j]].id < ws[from[k]].id
      BY <3>1 DEF InOrder
    <3> QED BY <1>7, <3>2
  <2> QED BY <1>3, <2>1 DEF InOrder
<1>9. ToSet(rest) = ToSet(ws) \ {ws[i]}
  <2>1. ASSUME NEW w \in ToSet(rest) PROVE w \in ToSet(ws) \ {ws[i]}
    <3>1. PICK k \in 1..(N - 1) : w = rest[k]
      BY <1>3 DEF ToSet
    <3>2. from[k] \in 1..N /\ from[k] # i /\ w = ws[from[k]]
      BY <1>7, <3>1
    <3>3. ws[from[k]] # ws[i]
      BY <1>2, <1>5, <3>2
    <3> QED BY <1>2, <3>2, <3>3 DEF ToSet
  <2>2. ASSUME NEW w \in ToSet(ws) \ {ws[i]} PROVE w \in ToSet(rest)
    <3>1. PICK j \in 1..N : w = ws[j] /\ j # i
      BY <1>2 DEF ToSet
    <3>2. PICK k \in 1..(N - 1) : from[k] = j
      BY <1>7, <3>1
    <3> QED BY <1>3, <1>7, <3>1, <3>2 DEF ToSet
  <2> QED BY <2>1, <2>2
<1>10. \A w \in ToSet(ws) \ {ws[i]} : w.id # ws[i].id
  BY <1>2, <1>5 DEF ToSet
<1> QED BY <1>1, <1>3, <1>8, <1>9, <1>10

LEMMA AppendedToVec ==
  ASSUME NEW bound \in Nat, NEW ws \in Seq(Record(bound)), InOrder(ws), NEW filter \in Filters,
         NEW w, w = [id |-> bound, filter |-> filter]
  PROVE  /\ Append(ws, w) \in Seq(Record(bound + 1)) /\ InOrder(Append(ws, w))
         /\ ToSet(Append(ws, w)) = ToSet(ws) \cup {w}
         /\ Append(ws, w) # <<>>
<1>1. PICK q : q = Append(ws, w)
  OBVIOUS
<1>2. w \in Record(bound + 1) /\ Record(bound) \subseteq Record(bound + 1)
  BY DEF Record
<1>3. ws \in Seq(Record(bound + 1))
  BY <1>2
<1>4. PICK N \in Nat : N = Len(ws) /\ DOMAIN ws = 1..N
  OBVIOUS
<1>5. /\ q \in Seq(Record(bound + 1)) /\ Len(q) = N + 1 /\ DOMAIN q = 1..(N + 1)
      /\ q[N + 1] = w /\ \A i \in 1..N : q[i] = ws[i]
  BY <1>1, <1>2, <1>3, <1>4
<1>6. \A i \in 1..(N + 1) : i \in 1..N \/ i = N + 1
  OBVIOUS
<1>7. \A i \in 1..N : ws[i].id < bound
  <2>1. \A i \in 1..N : ws[i] \in Record(bound)
    BY <1>4
  <2> QED BY <2>1 DEF Record
<1>8. InOrder(q)
  <2>1. ASSUME NEW i \in 1..(N + 1), NEW j \in 1..(N + 1), i < j PROVE q[i].id < q[j].id
    <3>1. i \in 1..N
      BY <2>1
    <3>2. CASE j = N + 1
      BY <1>5, <1>7, <3>1, <3>2
    <3>3. CASE j \in 1..N
      BY <1>4, <1>5, <2>1, <3>1, <3>3 DEF InOrder
    <3> QED BY <1>6, <3>2, <3>3
  <2> QED BY <1>5, <2>1 DEF InOrder
<1>9. ToSet(q) = ToSet(ws) \cup {w}
  BY <1>4, <1>5, <1>6 DEF ToSet
<1>10. q # <<>>
  BY <1>5
<1> QED BY <1>1, <1>5, <1>8, <1>9, <1>10

-----------------------------------------------------------------------------
(* The invariant of the maps and of the running loop. *)

Job == [env : Envelopes, placement : Placements]

\* Maps without empty entries, Vecs in the order of registration.
Sane ==
  /\ Tidy(queues, Envelopes)
  /\ nextId \in Nat
  /\ Tidy(waiters, Record(nextId))
  /\ \A n \in Names : InOrder(Entry(waiters, n))
  /\ alive \subseteq 0..(nextId - 1)
  /\ channel \in Seq(Envelopes \cup {None}) /\ Len(channel) = nextId
  /\ routing \in Job \cup {None}
  /\ purged \subseteq Record(nextId)

\* The loop has removed only the dead, in the order of their rank.
Settled ==
  /\ routing = None => purged = {}
  /\ routing # None => \A d \in purged :
       /\ d.id \notin alive
       /\ Matches(d.filter, routing.env)
       /\ \A w \in ToSet(Entry(waiters, routing.env.to)) :
            w.id # d.id /\ (Matches(w.filter, routing.env) => Outranks(d, w))

StateInv == Sane /\ Settled

LEMMA StateBegins ==
  ASSUME Init
  PROVE  StateInv
<1>1. /\ queues = <<>> /\ waiters = <<>> /\ nextId = 0 /\ alive = {}
      /\ channel = <<>> /\ routing = None /\ purged = {}
  BY DEF Init
<1>2. DOMAIN <<>> = {}
  OBVIOUS
<1>3. Tidy(queues, Envelopes) /\ Tidy(waiters, Record(nextId))
  BY <1>1, <1>2 DEF Tidy
<1>4. \A n \in Names : InOrder(Entry(waiters, n))
  BY <1>1, <1>2 DEF InOrder, Entry
<1>5. channel \in Seq(Envelopes \cup {None}) /\ Len(channel) = nextId
  BY <1>1
<1>6. Sane
  BY <1>1, <1>3, <1>4, <1>5 DEF Sane
<1> QED BY <1>1, <1>6 DEF StateInv, Settled

LEMMA TakeQueuedKept ==
  ASSUME StateInv, NEW n \in Names, NEW filter \in Filters, TakeQueued(n, filter)
  PROVE  /\ StateInv'
         /\ \E i \in DOMAIN Entry(queues, n) :
              /\ IsFirstMatch(i, Entry(queues, n), filter)
              /\ queues' = Put(queues, n, RemoveAt(Entry(queues, n), i))
<1>1. /\ UNCHANGED <<waiters, nextId, alive, channel, routing, purged>>
      /\ FirstMatch(n, filter) # 0
      /\ queues' = Put(queues, n, Without(queues[n], FirstMatch(n, filter)))
  BY DEF TakeQueued
<1>2. PICK q : q = Entry(queues, n)
  OBVIOUS
<1>3. PICK i : i = FirstMatch(n, filter)
  OBVIOUS
<1>4. Tidy(queues, Envelopes)
  BY DEF StateInv, Sane
<1>5. q \in Seq(Envelopes) /\ (q # <<>> => q = queues[n])
  BY <1>2, <1>4, TidyEntry
<1>6. IsFirstMatch(i, q, filter)
  BY <1>1, <1>2, <1>3, <1>5, FirstMatchIsFirst
<1>7. i \in DOMAIN q
  BY <1>6 DEF IsFirstMatch
<1>8. queues' = Put(queues, n, RemoveAt(q, i)) /\ RemoveAt(q, i) \in Seq(Envelopes)
  <2>1. q = queues[n]
    BY <1>5, <1>7
  <2> QED BY <1>1, <1>3, <1>5, <1>7, <2>1, RemoveAtElements DEF Without
<1>9. Tidy(queues', Envelopes)
  BY <1>4, <1>8, PutTidy
<1>10. Sane'
  BY <1>1, <1>9 DEF StateInv, Sane
<1>11. Settled'
  BY <1>1 DEF StateInv, Settled
<1> QED BY <1>2, <1>6, <1>7, <1>8, <1>10, <1>11 DEF StateInv

LEMMA RegisterKept ==
  ASSUME StateInv, NEW n \in Names, NEW filter \in Filters, Register(n, filter)
  PROVE  /\ StateInv'
         /\ \A i \in DOMAIN Entry(queues, n) : ~Matches(filter, Entry(queues, n)[i])
         /\ \A m \in Names :
              ToSet(Entry(waiters', m)) =
                IF m = n THEN ToSet(Entry(waiters, n)) \cup {[id |-> nextId, filter |-> filter]}
                ELSE ToSet(Entry(waiters, m))
<1>1. /\ UNCHANGED <<queues, routing, purged>> /\ routing = None
      /\ FirstMatch(n, filter) = 0
      /\ waiters' = Put(waiters, n, Append(Entry(waiters, n), [id |-> nextId, filter |-> filter]))
      /\ nextId' = nextId + 1 /\ alive' = alive \cup {nextId}
      /\ channel' = Append(channel, None)
  BY DEF Register
<1>2. PICK ws : ws = Entry(waiters, n)
  OBVIOUS
<1>3. PICK w : w = [id |-> nextId, filter |-> filter]
  OBVIOUS
<1>4. PICK q : q = Append(ws, w)
  OBVIOUS
<1>5. /\ nextId \in Nat /\ Tidy(waiters, Record(nextId)) /\ InOrder(ws)
      /\ \A m \in Names : InOrder(Entry(waiters, m))
      /\ Tidy(queues, Envelopes)
  BY <1>2 DEF StateInv, Sane
<1>6. ws \in Seq(Record(nextId))
  BY <1>2, <1>5, TidyEntry
<1>7. /\ q \in Seq(Record(nextId + 1)) /\ InOrder(q) /\ ToSet(q) = ToSet(ws) \cup {w}
  BY <1>3, <1>4, <1>5, <1>6, AppendedToVec
<1>8. waiters' = Put(waiters, n, q)
  BY <1>1, <1>2, <1>3, <1>4
<1>9. Record(nextId) \subseteq Record(nextId + 1)
  BY <1>5 DEF Record
<1>10. Tidy(waiters', Record(nextId + 1))
  <2>1. Tidy(waiters, Record(nextId + 1))
    <3>1. \A m \in DOMAIN waiters : waiters[m] \in Seq(Record(nextId + 1))
      BY <1>5, <1>9 DEF Tidy
    <3> QED BY <1>5, <3>1 DEF Tidy
  <2> QED BY <1>7, <1>8, <2>1, PutTidy
<1>11. \A m : Entry(waiters', m) = IF m = n THEN q ELSE Entry(waiters, m)
  <2>1. IsPut(waiters', waiters, n, q)
    BY <1>8, PutEntries
  <2> QED BY <2>1 DEF IsPut
<1>12. channel' \in Seq(Envelopes \cup {None}) /\ Len(channel') = nextId + 1
  BY <1>1 DEF StateInv, Sane
<1>13. alive' \subseteq 0..nextId
  BY <1>1, <1>5 DEF StateInv, Sane
<1>14. Sane'
  <2>1. purged \subseteq Record(nextId + 1) /\ routing \in Job \cup {None}
    BY <1>9 DEF StateInv, Sane
  <2>2. \A m \in Names : InOrder(Entry(waiters', m))
    BY <1>5, <1>7, <1>11
  <2>3. 0..nextId = 0..((nextId + 1) - 1) /\ nextId + 1 \in Nat
    BY <1>5
  <2>4. Job' = Job /\ \A bound : Record(bound)' = Record(bound)
    BY DEF Job, Record
  <2> QED BY <1>1, <1>5, <1>10, <1>12, <1>13, <2>1, <2>2, <2>3, <2>4 DEF Sane
<1>15. Settled'
  BY <1>1 DEF StateInv, Settled
<1>16. \A i \in DOMAIN Entry(queues, n) : ~Matches(filter, Entry(queues, n)[i])
  <2>1. Entry(queues, n) \in Seq(Envelopes)
    BY <1>5, TidyEntry
  <2> QED BY <1>1, <2>1, FirstMatchIsFirst
<1> QED BY <1>2, <1>3, <1>7, <1>11, <1>14, <1>15, <1>16 DEF StateInv

\* Taking one waiter out of a Vec.
LEMMA VecKept ==
  ASSUME StateInv, NEW n \in Names, NEW i \in DOMAIN Entry(waiters, n),
         waiters' = Put(waiters, n, Without(waiters[n], i))
  PROVE  /\ Tidy(waiters', Record(nextId))
         /\ \A m \in Names : InOrder(Entry(waiters', m))
         /\ waiters[n] = Entry(waiters, n)
         /\ waiters[n][i] \in Record(nextId) /\ waiters[n][i] \in ToSet(Entry(waiters, n))
         /\ \A m \in Names : ToSet(Entry(waiters', m)) =
              IF m = n THEN ToSet(Entry(waiters, n)) \ {waiters[n][i]}
              ELSE ToSet(Entry(waiters, m))
         /\ \A w \in ToSet(Entry(waiters, n)) \ {waiters[n][i]} : w.id # waiters[n][i].id
<1>1. PICK ws : ws = Entry(waiters, n)
  OBVIOUS
<1>2. /\ nextId \in Nat /\ Tidy(waiters, Record(nextId)) /\ InOrder(ws)
      /\ \A m \in Names : InOrder(Entry(waiters, m))
  BY <1>1 DEF StateInv, Sane
<1>3. ws \in Seq(Record(nextId)) /\ (ws # <<>> => ws = waiters[n])
  BY <1>1, <1>2, TidyEntry
<1>4. i \in DOMAIN ws /\ ws = waiters[n]
  BY <1>1, <1>3
<1>5. PICK rest : rest = Without(ws, i)
  OBVIOUS
<1>6. /\ rest \in Seq(Record(nextId)) /\ InOrder(rest)
      /\ ToSet(rest) = ToSet(ws) \ {ws[i]}
      /\ \A w \in ToSet(ws) \ {ws[i]} : w.id # ws[i].id
  BY <1>2, <1>3, <1>4, <1>5, RemovedFromVec
<1>7. waiters' = Put(waiters, n, rest)
  BY <1>4, <1>5
<1>8. Tidy(waiters', Record(nextId))
  BY <1>2, <1>6, <1>7, PutTidy
<1>9. \A m : Entry(waiters', m) = IF m = n THEN rest ELSE Entry(waiters, m)
  <2>1. IsPut(waiters', waiters, n, rest)
    BY <1>7, PutEntries
  <2> QED BY <2>1 DEF IsPut
<1>10. ws[i] \in Record(nextId) /\ ws[i] \in ToSet(ws)
  BY <1>3, <1>4 DEF ToSet
<1> QED BY <1>1, <1>2, <1>4, <1>6, <1>8, <1>9, <1>10

LEMMA RemoveWaiterKept ==
  ASSUME StateInv, NEW n \in Names, NEW id \in 0..(nextId - 1), RemoveWaiter(n, id)
  PROVE  /\ StateInv'
         /\ \A m \in Names : ToSet(Entry(waiters', m)) =
              IF m = n THEN {w \in ToSet(Entry(waiters, n)) : w.id # id}
              ELSE ToSet(Entry(waiters, m))
<1>1. /\ UNCHANGED <<queues, nextId, alive, channel, routing, purged>> /\ routing = None
  BY DEF RemoveWaiter
<1>2. PICK i \in DOMAIN Entry(waiters, n) :
        waiters[n][i].id = id /\ waiters' = Put(waiters, n, Without(waiters[n], i))
  BY DEF RemoveWaiter
<1>3. PICK w : w = waiters[n][i]
  OBVIOUS
<1>4. /\ Tidy(waiters', Record(nextId))
      /\ \A m \in Names : InOrder(Entry(waiters', m))
      /\ \A m \in Names : ToSet(Entry(waiters', m)) =
           IF m = n THEN ToSet(Entry(waiters, n)) \ {w} ELSE ToSet(Entry(waiters, m))
      /\ \A v \in ToSet(Entry(waiters, n)) \ {w} : v.id # w.id
  BY <1>2, <1>3, VecKept
<1>5. Sane'
  BY <1>1, <1>4 DEF StateInv, Sane, Record, Job
<1>6. Settled'
  BY <1>1 DEF StateInv, Settled
<1>7. ToSet(Entry(waiters, n)) \ {w} = {v \in ToSet(Entry(waiters, n)) : v.id # id}
  BY <1>2, <1>3, <1>4
<1> QED BY <1>4, <1>5, <1>6, <1>7 DEF StateInv

\* A channel filled or emptied leaves the others as they were.
LEMMA ChannelSet ==
  ASSUME StateInv, NEW id \in 0..(nextId - 1), NEW v \in Envelopes \cup {None},
         channel' = [channel EXCEPT ![id + 1] = v]
  PROVE  channel' \in Seq(Envelopes \cup {None}) /\ Len(channel') = nextId
<1>1. PICK C : C = Envelopes \cup {None}
  OBVIOUS
<1>2. PICK i : i = id + 1
  OBVIOUS
<1>3. channel \in Seq(C) /\ Len(channel) = nextId /\ nextId \in Nat
  BY <1>1 DEF StateInv, Sane
<1>4. i \in 1..Len(channel)
  BY <1>2, <1>3
<1>5. [channel EXCEPT ![i] = v] \in Seq(C) /\ Len([channel EXCEPT ![i] = v]) = Len(channel)
  BY <1>1, <1>3, <1>4, ExceptSeq
<1> QED BY <1>1, <1>2, <1>3, <1>5

LEMMA DropReceiverKept ==
  ASSUME StateInv, NEW id \in alive, DropReceiver(id)
  PROVE  StateInv'
<1>1. /\ alive' = alive \ {id} /\ channel' = [channel EXCEPT ![id + 1] = None]
      /\ UNCHANGED <<queues, waiters, nextId, routing, purged>>
  BY DEF DropReceiver
<1>2. Sane'
  <2>1. id \in 0..(nextId - 1)
    BY DEF StateInv, Sane
  <2>2. channel' \in Seq(Envelopes \cup {None}) /\ Len(channel') = nextId
    BY <1>1, <2>1, ChannelSet
  <2> QED BY <1>1, <2>2 DEF StateInv, Sane, Record, Job, Tidy
<1>3. Settled'
  BY <1>1 DEF StateInv, Settled
<1> QED BY <1>2, <1>3 DEF StateInv

LEMMA BeginRouteKept ==
  ASSUME StateInv, NEW env \in Envelopes, NEW p \in Placements, BeginRoute(env, p)
  PROVE  StateInv' /\ purged = {} /\ purged' = {}
<1>1. /\ UNCHANGED <<queues, waiters, nextId, alive, channel, purged>>
      /\ routing = None /\ routing' = [env |-> env, placement |-> p]
  BY DEF BeginRoute
<1>2. purged = {}
  BY <1>1 DEF StateInv, Settled
<1>3. routing' \in Job
  BY <1>1 DEF Job
<1>4. Sane'
  BY <1>1, <1>3 DEF StateInv, Sane, Record, Job, Tidy
<1>5. Settled'
  BY <1>1, <1>2 DEF Settled
<1> QED BY <1>1, <1>2, <1>4, <1>5 DEF StateInv

\* The waiter the running loop has found, and what is left without it.
LEMMA BestFound ==
  ASSUME StateInv, RemoveBest, NEW env, env = routing.env, NEW w, w = waiters[env.to][Best]
  PROVE  /\ env \in Envelopes /\ env.to \in Names
         /\ Tidy(waiters', Record(nextId))
         /\ \A m \in Names : InOrder(Entry(waiters', m))
         /\ w \in Record(nextId) /\ w \in ToSet(Entry(waiters, env.to))
         /\ Matches(w.filter, env)
         /\ \A m \in Names : ToSet(Entry(waiters', m)) =
              IF m = env.to THEN ToSet(Entry(waiters, m)) \ {w} ELSE ToSet(Entry(waiters, m))
         /\ \A v \in ToSet(Entry(waiters, env.to)) \ {w} :
              v.id # w.id /\ (Matches(v.filter, env) => Outranks(w, v))
<1>1. /\ routing # None /\ Best # 0
      /\ waiters' = Put(waiters, env.to, Without(waiters[env.to], Best))
  BY DEF RemoveBest
<1>2. routing \in Job /\ env \in Envelopes /\ env.to \in Names
  BY <1>1, HubStateAssumption DEF StateInv, Sane, Job
<1>3. PICK n \in Names : n = env.to
  BY <1>2
<1>4. PICK ws : ws = Entry(waiters, n)
  OBVIOUS
<1>5. Tidy(waiters, Record(nextId)) /\ nextId \in Nat /\ InOrder(ws)
  BY <1>3, <1>4 DEF StateInv, Sane
<1>6. ws \in Seq(Record(nextId)) /\ DOMAIN ws = 1..Len(ws)
  BY <1>4, <1>5, TidyEntry
<1>7. PICK b : b = Best
  OBVIOUS
<1>8. BestOfFirst(b, Len(ws), ws, env)
  BY <1>3, <1>4, <1>6, <1>7, BestIndexIsBest DEF Best
<1>9. /\ b \in DOMAIN ws /\ Matches(ws[b].filter, env)
      /\ \A i \in DOMAIN ws : Matches(ws[i].filter, env) =>
           \/ Specificity(ws[i].filter) < Specificity(ws[b].filter)
           \/ (Specificity(ws[i].filter) = Specificity(ws[b].filter) /\ b <= i)
  BY <1>1, <1>6, <1>7, <1>8 DEF BestOfFirst
<1>10. /\ Tidy(waiters', Record(nextId))
       /\ \A m \in Names : InOrder(Entry(waiters', m))
       /\ waiters[n] = ws
       /\ waiters[n][b] \in Record(nextId) /\ waiters[n][b] \in ToSet(ws)
       /\ \A m \in Names : ToSet(Entry(waiters', m)) =
            IF m = n THEN ToSet(ws) \ {waiters[n][b]} ELSE ToSet(Entry(waiters, m))
       /\ \A v \in ToSet(ws) \ {waiters[n][b]} : v.id # waiters[n][b].id
  <2>1. waiters' = Put(waiters, n, Without(waiters[n], b)) /\ b \in DOMAIN Entry(waiters, n)
    BY <1>1, <1>3, <1>4, <1>7, <1>9
  <2>2. /\ Tidy(waiters', Record(nextId))
        /\ \A m \in Names : InOrder(Entry(waiters', m))
        /\ waiters[n] = Entry(waiters, n)
        /\ waiters[n][b] \in Record(nextId) /\ waiters[n][b] \in ToSet(Entry(waiters, n))
        /\ \A m \in Names : ToSet(Entry(waiters', m)) =
             IF m = n THEN ToSet(Entry(waiters, n)) \ {waiters[n][b]}
             ELSE ToSet(Entry(waiters, m))
        /\ \A v \in ToSet(Entry(waiters, n)) \ {waiters[n][b]} : v.id # waiters[n][b].id
    BY <2>1, VecKept
  <2> QED BY <1>4, <2>2
<1>11. w = ws[b]
  BY <1>3, <1>7, <1>10
<1>12. ASSUME NEW v \in ToSet(ws) \ {w}, Matches(v.filter, env) PROVE Outranks(w, v)
  <2>1. PICK i \in DOMAIN ws : v = ws[i]
    BY DEF ToSet
  <2>2. i # b
    BY <1>11, <2>1
  <2>3. b < i => w.id < v.id
    BY <1>5, <1>9, <1>11, <2>1 DEF InOrder
  <2>4. b <= i => b < i
    BY <1>6, <1>9, <2>1, <2>2
  <2>5. \/ Specificity(v.filter) < Specificity(w.filter)
        \/ (Specificity(v.filter) = Specificity(w.filter) /\ b <= i)
    BY <1>9, <1>11, <1>12, <2>1
  <2>6. Specificity(v.filter) \in Nat /\ Specificity(w.filter) \in Nat
    BY RankIsNat
  <2>7. Specificity(v.filter) < Specificity(w.filter) => Specificity(w.filter) > Specificity(v.filter)
    BY <2>6
  <2> QED BY <2>3, <2>4, <2>5, <2>7 DEF Outranks
<1> QED BY <1>2, <1>3, <1>4, <1>9, <1>10, <1>11, <1>12

LEMMA PurgeKept ==
  ASSUME StateInv, Purge
  PROVE  /\ StateInv'
         /\ UNCHANGED <<queues, nextId, alive, channel, routing>> /\ routing # None
         /\ \E w \in ToSet(Entry(waiters, routing.env.to)) :
              /\ purged' = purged \cup {w}
              /\ \A m \in Names : ToSet(Entry(waiters', m)) =
                   IF m = routing.env.to THEN ToSet(Entry(waiters, m)) \ {w}
                   ELSE ToSet(Entry(waiters, m))
<1>1. PICK env : env = routing.env
  OBVIOUS
<1>2. PICK w : w = waiters[env.to][Best]
  OBVIOUS
<1>3. /\ UNCHANGED <<queues, nextId, alive, channel, routing>> /\ routing # None /\ RemoveBest
      /\ w.id \notin alive /\ purged' = purged \cup {w}
  BY <1>1, <1>2 DEF Purge, RemoveBest
<1>4. /\ env \in Envelopes /\ env.to \in Names
      /\ Tidy(waiters', Record(nextId))
      /\ \A m \in Names : InOrder(Entry(waiters', m))
      /\ w \in Record(nextId) /\ w \in ToSet(Entry(waiters, env.to))
      /\ Matches(w.filter, env)
      /\ \A m \in Names : ToSet(Entry(waiters', m)) =
           IF m = env.to THEN ToSet(Entry(waiters, m)) \ {w} ELSE ToSet(Entry(waiters, m))
      /\ \A v \in ToSet(Entry(waiters, env.to)) \ {w} :
           v.id # w.id /\ (Matches(v.filter, env) => Outranks(w, v))
  BY <1>1, <1>2, <1>3, BestFound
<1>5. Sane'
  BY <1>3, <1>4 DEF StateInv, Sane, Record, Job
<1>6. Settled'
  <2>1. ASSUME NEW d \in purged'
        PROVE  /\ d.id \notin alive
               /\ Matches(d.filter, env)
               /\ \A v \in ToSet(Entry(waiters', env.to)) :
                    v.id # d.id /\ (Matches(v.filter, env) => Outranks(d, v))
    <3>1. ToSet(Entry(waiters', env.to)) = ToSet(Entry(waiters, env.to)) \ {w}
      BY <1>4
    <3>2. CASE d = w
      BY <1>3, <1>4, <3>1, <3>2
    <3>3. CASE d \in purged
      BY <1>1, <1>3, <3>1, <3>3 DEF StateInv, Settled
    <3> QED BY <1>3, <3>2, <3>3
  <2> QED BY <1>1, <1>3, <2>1 DEF Settled
<1> QED BY <1>1, <1>3, <1>4, <1>5, <1>6 DEF StateInv

\* What a hand-off does: the waiter it picks is the best of those that live, and
\* exactly it and the dead that outrank it are gone.
LEMMA HandOverKept ==
  ASSUME StateInv, HandOver
  PROVE  /\ StateInv' /\ UNCHANGED <<queues, nextId, alive>> /\ purged' = {}
         /\ routing # None /\ routing.env \in Envelopes /\ routing.env.to \in Names
         /\ \E w \in ToSet(Entry(waiters, routing.env.to)) :
              /\ w.id \in alive /\ Matches(w.filter, routing.env)
              /\ channel' = [channel EXCEPT ![w.id + 1] = routing.env]
              /\ \A v \in ToSet(Entry(waiters, routing.env.to)) \ {w} :
                   Matches(v.filter, routing.env) => Outranks(w, v)
              /\ \A m \in Names : ToSet(Entry(waiters', m)) =
                   IF m = routing.env.to THEN ToSet(Entry(waiters, m)) \ {w}
                   ELSE ToSet(Entry(waiters, m))
<1>1. PICK env : env = routing.env
  OBVIOUS
<1>2. PICK w : w = waiters[env.to][Best]
  OBVIOUS
<1>3. /\ UNCHANGED <<queues, nextId, alive>> /\ routing # None /\ RemoveBest
      /\ w.id \in alive /\ channel' = [channel EXCEPT ![w.id + 1] = env]
      /\ purged' = {} /\ routing' = None
  BY <1>1, <1>2 DEF HandOver, RemoveBest
<1>4. /\ env \in Envelopes /\ env.to \in Names
      /\ Tidy(waiters', Record(nextId))
      /\ \A m \in Names : InOrder(Entry(waiters', m))
      /\ w \in Record(nextId) /\ w \in ToSet(Entry(waiters, env.to))
      /\ Matches(w.filter, env)
      /\ \A m \in Names : ToSet(Entry(waiters', m)) =
           IF m = env.to THEN ToSet(Entry(waiters, m)) \ {w} ELSE ToSet(Entry(waiters, m))
      /\ \A v \in ToSet(Entry(waiters, env.to)) \ {w} :
           v.id # w.id /\ (Matches(v.filter, env) => Outranks(w, v))
  BY <1>1, <1>2, <1>3, BestFound
<1>5. channel' \in Seq(Envelopes \cup {None}) /\ Len(channel') = nextId
  <2>1. w.id \in 0..(nextId - 1) /\ env \in Envelopes \cup {None}
    BY <1>3, <1>4 DEF StateInv, Sane
  <2> QED BY <1>3, <2>1, ChannelSet
<1>6. Sane'
  BY <1>3, <1>4, <1>5 DEF StateInv, Sane, Record, Job
<1>7. Settled'
  BY <1>3 DEF Settled
<1> QED BY <1>1, <1>3, <1>4, <1>6, <1>7 DEF StateInv

LEMMA ParkKept ==
  ASSUME StateInv, Park
  PROVE  /\ StateInv' /\ UNCHANGED <<waiters, nextId, alive, channel>> /\ purged' = {}
         /\ routing # None /\ routing.env \in Envelopes /\ routing.env.to \in Names
         /\ \A w \in ToSet(Entry(waiters, routing.env.to)) : ~Matches(w.filter, routing.env)
         /\ \E s \in {Append(Entry(queues, routing.env.to), routing.env),
                      <<routing.env>> \o Entry(queues, routing.env.to)} :
              queues' = Put(queues, routing.env.to, s)
<1>1. PICK env : env = routing.env
  OBVIOUS
<1>2. PICK q : q = Entry(queues, env.to)
  OBVIOUS
<1>3. PICK s : s \in {Append(q, env), <<env>> \o q} /\ queues' = Put(queues, env.to, s)
  BY <1>1, <1>2 DEF Park
<1>4. /\ UNCHANGED <<waiters, nextId, alive, channel>> /\ purged' = {} /\ routing' = None
      /\ routing # None /\ Best = 0
  BY DEF Park
<1>5. env \in Envelopes /\ env.to \in Names
  BY <1>1, <1>4, HubStateAssumption DEF StateInv, Sane, Job
<1>6. Tidy(queues, Envelopes) /\ q \in Seq(Envelopes)
  BY <1>2, TidyEntry DEF StateInv, Sane
<1>7. s \in Seq(Envelopes)
  BY <1>3, <1>5, <1>6, EndsElements
<1>8. Tidy(queues', Envelopes)
  BY <1>3, <1>5, <1>6, <1>7, PutTidy
<1>9. Sane'
  BY <1>4, <1>8 DEF StateInv, Sane, Record, Job
<1>10. Settled'
  BY <1>4 DEF Settled
<1>11. \A w \in ToSet(Entry(waiters, env.to)) : ~Matches(w.filter, env)
  <2>1. PICK ws : ws = Entry(waiters, env.to)
    OBVIOUS
  <2>2. ws \in Seq(Record(nextId)) /\ DOMAIN ws = 1..Len(ws)
    BY <2>1, TidyEntry DEF StateInv, Sane
  <2>3. BestOfFirst(0, Len(ws), ws, env)
    BY <1>1, <1>4, <2>1, <2>2, BestIndexIsBest DEF Best
  <2> QED BY <2>1, <2>2, <2>3 DEF BestOfFirst, ToSet
<1> QED BY <1>1, <1>2, <1>3, <1>4, <1>5, <1>9, <1>10, <1>11 DEF StateInv

\* Every operation keeps the maps tidy and the loop settled.
THEOREM StateInductive ==
  ASSUME StateInv, [Next]_vars
  PROVE  StateInv'
<1>1. CASE \E n \in Names, f \in Filters : TakeQueued(n, f) \/ Register(n, f)
  BY <1>1, TakeQueuedKept, RegisterKept
<1>2. CASE \E n \in Names, id \in 0..(nextId - 1) : RemoveWaiter(n, id)
  BY <1>2, RemoveWaiterKept
<1>3. CASE \E id \in alive : DropReceiver(id)
  BY <1>3, DropReceiverKept
<1>4. CASE \E env \in Envelopes, p \in Placements : BeginRoute(env, p)
  BY <1>4, BeginRouteKept
<1>5. CASE UNCHANGED vars
  <2>1. UNCHANGED <<queues, waiters, nextId, alive, channel, routing, purged>>
    BY <1>5 DEF vars
  <2> QED BY <2>1 DEF StateInv, Sane, Settled, Tidy, Record, Job
<1> QED BY <1>1, <1>2, <1>3, <1>4, <1>5, HandOverKept, PurgeKept, ParkKept DEF Next

THEOREM StateSafety == Spec => []StateInv
<1>1. Init => StateInv
  BY StateBegins
<1>2. StateInv /\ [Next]_vars => StateInv'
  BY StateInductive
<1> QED BY <1>1, <1>2, PTL DEF Spec

\* A Vec lists its waiters in the order they were registered, however waiters
\* come, die, are removed or purged (handle_await, remove_waiter, route_envelope).
THEOREM StateTypeCorrect == Spec => []TypeOK
<1>1. StateInv => TypeOK
  <2>1. SUFFICES ASSUME StateInv
                 PROVE  TypeOK
    OBVIOUS
  <2>2. \A n \in DOMAIN waiters : \A i, j \in DOMAIN waiters[n] :
          i < j => waiters[n][i].id < waiters[n][j].id
    BY <2>1 DEF StateInv, Sane, Tidy, InOrder, Entry
  <2> QED BY <2>1, <2>2 DEF StateInv, Sane, Tidy, TypeOK, Record, Job
<1> QED BY <1>1, StateSafety, PTL

\* No entry of either map outlives its last envelope or waiter, so names nobody
\* registered cannot grow the maps ("drop the entry when emptied").
THEOREM EmptyEntriesGo == Spec => []NoEmptyEntry
<1>1. StateInv => NoEmptyEntry
  BY DEF StateInv, Sane, Tidy, NoEmptyEntry
<1> QED BY <1>1, StateSafety, PTL

-----------------------------------------------------------------------------
(* The refinement of the atomic registry. *)

Queues == [n \in Names |-> Entry(queues, n)]

\* The waiters of every name when the loop has removed none.
Parked == [n \in Names |-> ToSet(Entry(waiters, n))]

LEMMA Resting ==
  purged = {} => AllWaiters = Parked
BY DEF AllWaiters, Parked

LEMMA SameSemantics ==
  /\ \A filter, env : Atomic!Matches(filter, env) <=> Matches(filter, env)
  /\ \A v, w : Atomic!Outranks(v, w) <=> Outranks(v, w)
  /\ \A i, q, filter : Atomic!IsFirstMatch(i, q, filter) <=> IsFirstMatch(i, q, filter)
  /\ \A q, i : Atomic!RemoveAt(q, i) = RemoveAt(q, i)
  /\ \A reg, env : Atomic!Candidates(reg, env) = Candidates(reg, env)
  /\ \A w, c : Atomic!IsBest(w, c) <=> IsBest(w, c)
<1>1. \A filter, env : Atomic!Matches(filter, env) <=> Matches(filter, env)
  BY DEF Matches, Atomic!Matches
<1>2. \A f : Atomic!Specificity(f) = Specificity(f)
  BY DEF Specificity, Atomic!Specificity
<1>3. \A v, w : Atomic!Outranks(v, w) <=> Outranks(v, w)
  BY <1>2 DEF Outranks, Atomic!Outranks
<1>4. \A i, q, filter : Atomic!IsFirstMatch(i, q, filter) <=> IsFirstMatch(i, q, filter)
  BY <1>1 DEF IsFirstMatch, Atomic!IsFirstMatch
<1>5. \A q, i : Atomic!RemoveAt(q, i) = RemoveAt(q, i)
  BY DEF RemoveAt, Atomic!RemoveAt
<1>6. \A reg, env : Atomic!Candidates(reg, env) = Candidates(reg, env)
  BY <1>1 DEF Candidates, Atomic!Candidates
<1>7. \A w, c : Atomic!IsBest(w, c) <=> IsBest(w, c)
  BY <1>3 DEF IsBest, Atomic!IsBest
<1> QED BY <1>1, <1>3, <1>4, <1>5, <1>6, <1>7

LEMMA TakeStep ==
  ASSUME StateInv, NEW n \in Names, NEW filter \in Filters, TakeQueued(n, filter)
  PROVE  Atomic!Take(n, filter)
<1>1. PICK i \in DOMAIN Entry(queues, n) :
        /\ IsFirstMatch(i, Entry(queues, n), filter)
        /\ queues' = Put(queues, n, RemoveAt(Entry(queues, n), i))
  BY TakeQueuedKept
<1>2. UNCHANGED <<waiters, nextId, alive, channel, routing, purged>>
  BY DEF TakeQueued
<1>3. AllWaiters' = AllWaiters
  BY <1>2 DEF AllWaiters
<1>4. Queues' = [Queues EXCEPT ![n] = RemoveAt(@, i)]
  <2>1. PICK s : s = RemoveAt(Entry(queues, n), i)
    OBVIOUS
  <2>2. IsPut(queues', queues, n, s)
    BY <1>1, <2>1, PutEntries
  <2>3. \A m : Entry(queues', m) = IF m = n THEN s ELSE Entry(queues, m)
    BY <2>2 DEF IsPut
  <2> QED BY <2>1, <2>3 DEF Queues
<1>5. i \in DOMAIN Queues[n] /\ IsFirstMatch(i, Queues[n], filter)
  BY <1>1 DEF Queues
<1> QED BY <1>2, <1>3, <1>4, <1>5, SameSemantics DEF Atomic!Take, Queues

LEMMA RegisterStep ==
  ASSUME StateInv, NEW n \in Names, NEW filter \in Filters, Register(n, filter)
  PROVE  Atomic!Register(n, filter)
<1>1. /\ UNCHANGED <<queues, routing, purged>> /\ routing = None
      /\ nextId' = nextId + 1 /\ alive' = alive \cup {nextId}
      /\ channel' = Append(channel, None)
  BY DEF Register
<1>2. /\ \A i \in DOMAIN Entry(queues, n) : ~Matches(filter, Entry(queues, n)[i])
      /\ \A m \in Names : ToSet(Entry(waiters', m)) =
           IF m = n THEN ToSet(Entry(waiters, n)) \cup {[id |-> nextId, filter |-> filter]}
           ELSE ToSet(Entry(waiters, m))
  BY RegisterKept
<1>3. purged = {} /\ purged' = {}
  BY <1>1 DEF StateInv, Settled
<1>4. AllWaiters = Parked /\ AllWaiters' = Parked'
  <2>1. (purged = {} => AllWaiters = Parked)'
    BY Resting, PTL
  <2> QED BY <1>3, <2>1, Resting
<1>5. Parked' = [Parked EXCEPT ![n] = @ \cup {[id |-> nextId, filter |-> filter]}]
  BY <1>2 DEF Parked
<1>6. \A i \in DOMAIN Queues[n] : ~Matches(filter, Queues[n][i])
  BY <1>2 DEF Queues
<1>7. Queues' = Queues
  BY <1>1 DEF Queues
<1> QED BY <1>1, <1>4, <1>5, <1>6, <1>7, SameSemantics DEF Atomic!Register, Queues

LEMMA RemoveWaiterStep ==
  ASSUME StateInv, NEW n \in Names, NEW id \in 0..(nextId - 1), RemoveWaiter(n, id)
  PROVE  Atomic!Deregister(n, id)
<1>1. /\ UNCHANGED <<queues, nextId, alive, channel, routing, purged>> /\ routing = None
  BY DEF RemoveWaiter
<1>2. \A m \in Names : ToSet(Entry(waiters', m)) =
        IF m = n THEN {w \in ToSet(Entry(waiters, n)) : w.id # id}
        ELSE ToSet(Entry(waiters, m))
  BY RemoveWaiterKept
<1>3. purged = {} /\ purged' = {}
  BY <1>1 DEF StateInv, Settled
<1>4. AllWaiters = Parked /\ AllWaiters' = Parked'
  <2>1. (purged = {} => AllWaiters = Parked)'
    BY Resting, PTL
  <2> QED BY <1>3, <2>1, Resting
<1>5. Parked' = [Parked EXCEPT ![n] = {w \in @ : w.id # id}]
  BY <1>2 DEF Parked
<1>6. Queues' = Queues
  BY <1>1 DEF Queues
<1> QED BY <1>1, <1>4, <1>5, <1>6 DEF Atomic!Deregister, Queues

LEMMA DropReceiverStep ==
  ASSUME NEW id \in alive, DropReceiver(id)
  PROVE  Atomic!Drop(id)
<1>1. /\ alive' = alive \ {id} /\ channel' = [channel EXCEPT ![id + 1] = None]
      /\ UNCHANGED <<queues, waiters, nextId, routing, purged>>
  BY DEF DropReceiver
<1>2. AllWaiters' = AllWaiters /\ Queues' = Queues
  BY <1>1 DEF AllWaiters, Queues
<1> QED BY <1>1, <1>2 DEF Atomic!Drop, Queues

\* The steps of the loop that the registry does not see.
LEMMA BeginRouteStep ==
  ASSUME StateInv, NEW env \in Envelopes, NEW p \in Placements, BeginRoute(env, p)
  PROVE  UNCHANGED Atomic!vars
<1>1. UNCHANGED <<queues, waiters, nextId, alive, channel>> /\ purged = {} /\ purged' = {}
  BY BeginRouteKept DEF BeginRoute
<1>2. AllWaiters = Parked /\ AllWaiters' = Parked'
  <2>1. (purged = {} => AllWaiters = Parked)'
    BY Resting, PTL
  <2> QED BY <1>1, <2>1, Resting
<1>3. Parked' = Parked /\ Queues' = Queues
  BY <1>1 DEF Parked, Queues
<1> QED BY <1>1, <1>2, <1>3 DEF Atomic!vars, Queues

LEMMA PurgeStep ==
  ASSUME StateInv, Purge
  PROVE  UNCHANGED Atomic!vars
<1>1. /\ UNCHANGED <<queues, nextId, alive, channel, routing>> /\ routing # None
  BY PurgeKept
<1>2. PICK w \in ToSet(Entry(waiters, routing.env.to)) :
        /\ purged' = purged \cup {w}
        /\ \A m \in Names : ToSet(Entry(waiters', m)) =
             IF m = routing.env.to THEN ToSet(Entry(waiters, m)) \ {w}
             ELSE ToSet(Entry(waiters, m))
  BY PurgeKept
<1>3. PICK now : now = ToSet(Entry(waiters, routing.env.to))
  OBVIOUS
<1>4. (now \ {w}) \cup (purged \cup {w}) = now \cup purged
  BY <1>2, <1>3
<1>5. ASSUME NEW n \in Names
      PROVE  ToSet(Entry(waiters', n)) \cup (IF routing # None /\ routing.env.to = n THEN purged' ELSE {})
             = ToSet(Entry(waiters, n)) \cup (IF routing # None /\ routing.env.to = n THEN purged ELSE {})
  <2>1. CASE n = routing.env.to
    <3>1. ToSet(Entry(waiters', n)) = now \ {w} /\ ToSet(Entry(waiters, n)) = now
      BY <1>2, <1>3, <2>1
    <3> QED BY <1>1, <1>2, <1>4, <2>1, <3>1
  <2>2. CASE n # routing.env.to
    BY <1>2, <2>2
  <2> QED BY <2>1, <2>2
<1>6. AllWaiters' = AllWaiters
  BY <1>1, <1>5 DEF AllWaiters
<1>7. Queues' = Queues
  BY <1>1 DEF Queues
<1> QED BY <1>1, <1>6, <1>7 DEF Atomic!vars, Queues

\* Outranking is an order, so nothing outranks what outranks it.
LEMMA OutranksIsStrict ==
  ASSUME NEW v, NEW w, v.id \in Nat, w.id \in Nat, Outranks(v, w)
  PROVE  ~Outranks(w, v)
<1>1. Specificity(v.filter) \in Nat /\ Specificity(w.filter) \in Nat
  BY RankIsNat
<1> QED BY <1>1 DEF Outranks

\* A hand-off, after however many purges, is one hand-off of the registry.
LEMMA HandOverStep ==
  ASSUME StateInv, HandOver
  PROVE  Atomic!HandOff(routing.env) /\ routing.env \in Envelopes
<1>1. PICK env \in Envelopes : env = routing.env /\ env.to \in Names
  BY HandOverKept
<1>2. PICK vec : vec = ToSet(Entry(waiters, env.to))
  OBVIOUS
<1>3. UNCHANGED <<queues, nextId, alive>> /\ purged' = {} /\ routing # None
  BY HandOverKept
<1>4. PICK w \in vec :
        /\ w.id \in alive /\ Matches(w.filter, env)
        /\ channel' = [channel EXCEPT ![w.id + 1] = env]
        /\ \A v \in vec \ {w} : Matches(v.filter, env) => Outranks(w, v)
        /\ \A m \in Names : ToSet(Entry(waiters', m)) =
             IF m = env.to THEN ToSet(Entry(waiters, m)) \ {w} ELSE ToSet(Entry(waiters, m))
  BY <1>1, <1>2, HandOverKept
<1>5. \A d \in purged :
        /\ d.id \notin alive /\ Matches(d.filter, env)
        /\ \A v \in vec : v.id # d.id /\ (Matches(v.filter, env) => Outranks(d, v))
  BY <1>1, <1>2, <1>3 DEF StateInv, Settled
<1>6. \A v \in vec : v.id \in Nat
  <2>1. Entry(waiters, env.to) \in Seq(Record(nextId))
    BY TidyEntry DEF StateInv, Sane
  <2>2. vec \subseteq Record(nextId)
    BY <1>2, <2>1 DEF ToSet
  <2> QED BY <2>2 DEF Record
<1>7. PICK all : all = vec \cup purged
  OBVIOUS
<1>8. PICK candidates : candidates = Candidates(all, env)
  OBVIOUS
<1>9. \A v : v \in candidates <=> v \in all /\ Matches(v.filter, env)
  BY <1>8 DEF Candidates
<1>10. PICK live : live = {v \in candidates : v.id \in alive}
  OBVIOUS
<1>11. w \in live /\ IsBest(w, live)
  <2>1. w \in live
    BY <1>4, <1>7, <1>9, <1>10
  <2>2. ASSUME NEW v \in live \ {w} PROVE Outranks(w, v)
    BY <1>4, <1>5, <1>7, <1>9, <1>10
  <2> QED BY <2>1, <2>2 DEF IsBest
<1>12. vec \ {w} = all \ ({w} \cup {d \in candidates : Outranks(d, w)})
  <2>1. ASSUME NEW v \in vec \ {w} PROVE ~(v \in candidates /\ Outranks(v, w))
    BY <1>4, <1>6, <1>9, OutranksIsStrict
  <2>2. ASSUME NEW d \in purged PROVE d \in candidates /\ Outranks(d, w)
    BY <1>4, <1>5, <1>7, <1>9
  <2> QED BY <1>7, <2>1, <2>2
<1>13. /\ AllWaiters[env.to] = all
       /\ \A m \in Names \ {env.to} : AllWaiters[m] = ToSet(Entry(waiters, m))
  BY <1>1, <1>2, <1>3, <1>7 DEF AllWaiters
<1>14. AllWaiters' = [AllWaiters EXCEPT ![env.to] =
                        @ \ ({w} \cup {d \in candidates : Outranks(d, w)})]
  <2>1. AllWaiters' = Parked'
    <3>1. (purged = {} => AllWaiters = Parked)'
      BY Resting, PTL
    <3> QED BY <1>3, <3>1
  <2>2. DOMAIN AllWaiters = Names /\ AllWaiters = [m \in Names |-> AllWaiters[m]]
    BY DEF AllWaiters
  <2>3. PICK gone : gone = {w} \cup {d \in candidates : Outranks(d, w)}
    OBVIOUS
  <2>4. ASSUME NEW m \in Names
        PROVE  ToSet(Entry(waiters', m)) = IF m = env.to THEN all \ gone ELSE AllWaiters[m]
    BY <1>2, <1>4, <1>12, <1>13, <2>3
  <2>5. Parked' = [m \in Names |-> IF m = env.to THEN all \ gone ELSE AllWaiters[m]]
    BY <2>4 DEF Parked
  <2>6. [AllWaiters EXCEPT ![env.to] = @ \ gone]
          = [m \in Names |-> IF m = env.to THEN all \ gone ELSE AllWaiters[m]]
    BY <1>13, <2>2
  <2> QED BY <2>1, <2>3, <2>5, <2>6
<1>15. Queues' = Queues
  BY <1>3 DEF Queues
<1>16. /\ candidates = Atomic!Candidates(AllWaiters[env.to], env)
       /\ {d \in candidates : Outranks(d, w)} = {d \in candidates : Atomic!Outranks(d, w)}
       /\ Atomic!IsBest(w, live)
  BY <1>8, <1>11, <1>13, SameSemantics
<1>17. Atomic!HandOff(env)
  BY <1>3, <1>4, <1>10, <1>11, <1>14, <1>15, <1>16 DEF Atomic!HandOff, Queues
<1> QED BY <1>1, <1>17

LEMMA ParkStep ==
  ASSUME StateInv, Park
  PROVE  Atomic!Route(routing.env) /\ routing.env \in Envelopes
<1>1. PICK env \in Envelopes : env = routing.env /\ env.to \in Names
  BY ParkKept
<1>2. PICK vec : vec = ToSet(Entry(waiters, env.to))
  OBVIOUS
<1>3. /\ UNCHANGED <<waiters, nextId, alive, channel>> /\ purged' = {} /\ routing # None
      /\ \A v \in vec : ~Matches(v.filter, env)
  BY <1>1, <1>2, ParkKept
<1>4. PICK s \in {Append(Entry(queues, env.to), env), <<env>> \o Entry(queues, env.to)} :
        queues' = Put(queues, env.to, s)
  BY <1>1, ParkKept
<1>5. \A d \in purged : d.id \notin alive /\ Matches(d.filter, env)
  BY <1>1, <1>3 DEF StateInv, Settled
<1>6. /\ AllWaiters[env.to] = vec \cup purged
      /\ \A m \in Names \ {env.to} : AllWaiters[m] = ToSet(Entry(waiters, m))
  BY <1>1, <1>2, <1>3 DEF AllWaiters
<1>7. Candidates(AllWaiters[env.to], env) = purged
  BY <1>3, <1>5, <1>6 DEF Candidates
<1>8. (vec \cup purged) \ purged = vec
  BY <1>3, <1>5
<1>9. AllWaiters' = [AllWaiters EXCEPT ![env.to] = @ \ purged]
  <2>1. AllWaiters' = Parked'
    <3>1. (purged = {} => AllWaiters = Parked)'
      BY Resting, PTL
    <3> QED BY <1>3, <3>1
  <2>2. Parked' = Parked
    BY <1>3 DEF Parked
  <2>3. DOMAIN AllWaiters = Names /\ AllWaiters = [m \in Names |-> AllWaiters[m]]
    BY DEF AllWaiters
  <2>4. [AllWaiters EXCEPT ![env.to] = @ \ purged]
          = [m \in Names |-> IF m = env.to THEN vec ELSE ToSet(Entry(waiters, m))]
    BY <1>6, <1>8, <2>3
  <2>5. Parked = [m \in Names |-> IF m = env.to THEN vec ELSE ToSet(Entry(waiters, m))]
    BY <1>2 DEF Parked
  <2> QED BY <2>1, <2>2, <2>4, <2>5
<1>10. Queues' = [Queues EXCEPT ![env.to] = s]
  <2>1. IsPut(queues', queues, env.to, s)
    BY <1>4, PutEntries
  <2>2. \A m : Entry(queues', m) = IF m = env.to THEN s ELSE Entry(queues, m)
    BY <2>1 DEF IsPut
  <2> QED BY <2>2 DEF Queues
<1>11. Queues[env.to] = Entry(queues, env.to)
  BY <1>1 DEF Queues
<1>12. Atomic!Candidates(AllWaiters[env.to], env) = purged
  BY <1>7, SameSemantics
<1>13. Atomic!Enqueue(env, s)
  BY <1>3, <1>5, <1>9, <1>10, <1>12 DEF Atomic!Enqueue, Queues
<1>14. Atomic!Route(env)
  BY <1>4, <1>11, <1>13 DEF Atomic!Route, Queues
<1> QED BY <1>1, <1>14

\* The loop over the Vec, with its strict comparison and its retries, does at
\* once what the match semantics promises (route_envelope, handle_await): the
\* most specific live waiter, the oldest of its rank, gets the envelope.
THEOREM HubStateIsRegistry == Spec => ImplementsRegistry
<1>1. Init => Atomic!Init
  <2>1. SUFFICES ASSUME Init
                 PROVE  Atomic!Init
    OBVIOUS
  <2>2. /\ queues = <<>> /\ waiters = <<>> /\ nextId = 0 /\ alive = {}
        /\ channel = <<>> /\ purged = {}
    BY <2>1 DEF Init
  <2>3. \A n : Entry(queues, n) = <<>> /\ Entry(waiters, n) = <<>>
    BY <2>2 DEF Entry
  <2>4. ToSet(<<>>) = {}
    BY DEF ToSet
  <2>5. AllWaiters = [n \in Names |-> {}]
    BY <2>2, <2>3, <2>4, Resting DEF Parked
  <2>6. Queues = [n \in Names |-> <<>>]
    BY <2>3 DEF Queues
  <2> QED BY <2>2, <2>5, <2>6 DEF Atomic!Init, Queues
<1>2. StateInv /\ [Next]_vars => [Atomic!Next]_(Atomic!vars)
  <2>1. SUFFICES ASSUME StateInv, [Next]_vars
                 PROVE  [Atomic!Next]_(Atomic!vars)
    OBVIOUS
  <2>2. CASE \E n \in Names, f \in Filters : TakeQueued(n, f) \/ Register(n, f)
    BY <2>1, <2>2, TakeStep, RegisterStep DEF Atomic!Next
  <2>3. CASE \E n \in Names, id \in 0..(nextId - 1) : RemoveWaiter(n, id)
    BY <2>1, <2>3, RemoveWaiterStep DEF Atomic!Next
  <2>4. CASE \E id \in alive : DropReceiver(id)
    BY <2>4, DropReceiverStep DEF Atomic!Next
  <2>5. CASE \E env \in Envelopes, p \in Placements : BeginRoute(env, p)
    BY <2>1, <2>5, BeginRouteStep
  <2>6. CASE HandOver
    <3>1. PICK env \in Envelopes : Atomic!Route(env)
      BY <2>1, <2>6, HandOverStep DEF Atomic!Route
    <3> QED BY <3>1 DEF Atomic!Next
  <2>7. CASE Purge
    BY <2>1, <2>7, PurgeStep
  <2>8. CASE Park
    <3>1. PICK env \in Envelopes : Atomic!Route(env)
      BY <2>1, <2>8, ParkStep
    <3> QED BY <3>1 DEF Atomic!Next
  <2>9. CASE UNCHANGED vars
    <3>1. UNCHANGED <<queues, waiters, nextId, alive, channel, routing, purged>>
      BY <2>9 DEF vars
    <3>2. AllWaiters' = AllWaiters /\ Queues' = Queues
      BY <3>1 DEF AllWaiters, Queues
    <3> QED BY <3>1, <3>2 DEF Atomic!vars, Queues
  <2> QED BY <2>1, <2>2, <2>3, <2>4, <2>5, <2>6, <2>7, <2>8, <2>9 DEF Next
<1> QED BY <1>1, <1>2, StateSafety, PTL DEF Spec, ImplementsRegistry, Atomic!Spec
=============================================================================
