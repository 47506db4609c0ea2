------------------------ MODULE CacheHistory_proofs ------------------------
(***************************************************************************)
(* Proofs about MessageCache: what its operations do to the order of the   *)
(* ids, and that it is an LRU cache, for any set of ids and any size.      *)
(***************************************************************************)
EXTENDS CacheHistory, SequenceTheorems, TLAPS

(* The elements of the sequences that the operations build. *)
LEMMA AppendAt ==
    ASSUME NEW S, NEW q \in Seq(S), NEW e \in S
    PROVE  /\ Append(q, e) \in Seq(S) /\ Len(Append(q, e)) = Len(q) + 1
           /\ \A i \in 1..(Len(q) + 1) : Append(q, e)[i] = IF i <= Len(q) THEN q[i] ELSE e
  OBVIOUS

\* r is q without its element at k.
Drops(r, q, k) ==
    /\ Len(r) = Len(q) - 1
    /\ \A i \in 1..(Len(q) - 1) : r[i] = IF i < k THEN q[i] ELSE q[i + 1]

LEMMA TailDrops ==
    ASSUME NEW S, NEW q \in Seq(S), q # <<>>
    PROVE  Tail(q) \in Seq(S) /\ Drops(Tail(q), q, 1)
  <1>1. /\ Tail(q) \in Seq(S) /\ Len(Tail(q)) = Len(q) - 1
        /\ \A i \in 1..(Len(q) - 1) : Tail(q)[i] = q[i + 1]
    OBVIOUS
  <1> QED
    BY <1>1 DEF Drops

(* Taking an id out of an order in which it is once. *)
LEMMA RemoveFirstDrops ==
    ASSUME NEW S, NEW q \in Seq(S), IsInjective(q), NEW k \in 1..Len(q)
    PROVE  RemoveFirst(q, q[k]) \in Seq(S) /\ Drops(RemoveFirst(q, q[k]), q, k)
  <1> DEFINE front == SubSeq(q, 1, k - 1)
             back == SubSeq(q, k + 1, Len(q))
  <1>1. {i \in 1..Len(q) : q[i] = q[k]} = {k}
    BY DEF IsInjective
  <1>2. Min({k}) = k
    BY DEF Min
  <1>3. RemoveFirst(q, q[k]) = front \o back
    BY <1>1, <1>2 DEF RemoveFirst, SelectInSeq, RemoveAt
  <1>4. /\ front \in Seq(S) /\ Len(front) = k - 1
        /\ \A i \in 1..(k - 1) : front[i] = q[i]
    OBVIOUS
  <1>5. /\ back \in Seq(S) /\ Len(back) = Len(q) - k
        /\ \A i \in 1..(Len(q) - k) : back[i] = q[i + k]
    OBVIOUS
  <1> HIDE DEF front, back
  <1>6. /\ front \o back \in Seq(S)
        /\ Len(front \o back) = Len(front) + Len(back)
        /\ \A i \in 1..(Len(front) + Len(back)) :
              (front \o back)[i] = IF i <= Len(front) THEN front[i] ELSE back[i - Len(front)]
    BY <1>4, <1>5, ConcatProperties
  <1>7. Len(front) + Len(back) = Len(q) - 1
    BY <1>4, <1>5
  <1>8. ASSUME NEW i \in 1..(Len(q) - 1)
        PROVE  (front \o back)[i] = IF i < k THEN q[i] ELSE q[i + 1]
    <2>1. CASE i < k
      <3>1. i \in 1..(k - 1) /\ i <= k - 1
        BY <2>1
      <3> QED
        BY <1>4, <1>6, <1>7, <2>1, <3>1
    <2>2. CASE ~(i < k)
      <3>1. i - (k - 1) \in 1..(Len(q) - k) /\ (i - (k - 1)) + k = i + 1 /\ ~(i <= k - 1)
        BY <2>2
      <3>2. (front \o back)[i] = back[i - (k - 1)]
        BY <1>4, <1>6, <1>7, <3>1
      <3> QED
        BY <1>5, <2>2, <3>1, <3>2
    <2> QED
      BY <2>1, <2>2
  <1> QED
    BY <1>3, <1>6, <1>7, <1>8 DEF Drops

LEMMA RemoveFirstAbsent ==
    ASSUME NEW q, NEW e, ~Contains(q, e)
    PROVE  RemoveFirst(q, e) = q
  BY Zenon DEF RemoveFirst, Contains

-----------------------------------------------------------------------------

\* c is the end of u, as long as MaxSize allows.
EndOf(c, u) ==
    /\ Len(c) = Smaller(MaxSize, Len(u))
    /\ \A i \in 1..Len(c) : c[i] = u[Len(u) - Len(c) + i]

\* MostRecentlyUsed, element by element; an id is in the history once.
HistoryInv ==
    /\ cache \in Seq(Ids)
    /\ used \in Seq(Ids) /\ IsInjective(used)
    /\ EndOf(cache, used)

LEMMA EndOfIsSubSeq ==
    ASSUME NEW S, NEW c \in Seq(S), NEW u \in Seq(S), EndOf(c, u)
    PROVE  LET n == Smaller(MaxSize, Len(u)) IN c = SubSeq(u, Len(u) - n + 1, Len(u))
  <1>1. Len(u) \in Nat /\ Len(c) \in Nat /\ Len(c) <= Len(u) /\ Len(c) = Smaller(MaxSize, Len(u))
    BY MaxSizeAssumption DEF EndOf, Smaller
  <1>2. PICK w : w = SubSeq(u, Len(u) - Len(c) + 1, Len(u))
    OBVIOUS
  <1>3. /\ w \in Seq(S) /\ Len(w) = Len(c)
        /\ \A i \in 1..Len(c) : w[i] = u[Len(u) - Len(c) + i]
    <2>1. \A i \in (Len(u) - Len(c) + 1)..Len(u) : u[i] \in S
      BY <1>1
    <2>2. /\ w \in Seq(S)
          /\ Len(w) = IF Len(u) - Len(c) + 1 <= Len(u)
                      THEN Len(u) - (Len(u) - Len(c) + 1) + 1 ELSE 0
          /\ \A i \in 1..(Len(u) - (Len(u) - Len(c) + 1) + 1) :
                w[i] = u[(Len(u) - Len(c) + 1) + i - 1]
      BY <1>1, <1>2, <2>1, SubSeqProperties
    <2> QED
      BY <1>1, <2>2
  <1>4. c = w
    BY <1>3, SeqEqual DEF EndOf
  <1> QED
    BY <1>1, <1>2, <1>4

(* The history after an id that was not in it, or was at position j. *)
LEMMA HistoryGrows ==
    ASSUME NEW u \in Seq(Ids), IsInjective(u), NEW k \in Ids, ~Contains(u, k)
    PROVE  /\ MoveToEnd(u, k) = Append(u, k)
           /\ MoveToEnd(u, k) \in Seq(Ids) /\ IsInjective(MoveToEnd(u, k))
  <1>1. MoveToEnd(u, k) = Append(u, k)
    BY RemoveFirstAbsent, Zenon DEF MoveToEnd
  <1>2. PICK v : v = Append(u, k)
    OBVIOUS
  <1>3. /\ v \in Seq(Ids) /\ Len(v) = Len(u) + 1 /\ DOMAIN v = 1..(Len(u) + 1)
        /\ DOMAIN u = 1..Len(u)
        /\ \A i \in 1..(Len(u) + 1) : v[i] = IF i <= Len(u) THEN u[i] ELSE k
    BY <1>2, AppendAt
  <1>4. \A i, j \in 1..Len(u) : u[i] = u[j] => i = j
    BY <1>3 DEF IsInjective
  <1>5. \A i \in 1..Len(u) : u[i] # k
    BY DEF Contains
  <1>6. ASSUME NEW i \in 1..(Len(u) + 1), NEW j \in 1..(Len(u) + 1), v[i] = v[j]
        PROVE  i = j
    BY <1>3, <1>4, <1>5, <1>6
  <1> QED
    BY <1>1, <1>2, <1>3, <1>6 DEF IsInjective

Rotates(v, u, j) ==
    /\ Len(v) = Len(u)
    /\ \A i \in 1..Len(u) : v[i] = IF i = Len(u) THEN u[j]
                                   ELSE IF i < j THEN u[i] ELSE u[i + 1]

LEMMA HistoryMoves ==
    ASSUME NEW u \in Seq(Ids), IsInjective(u), NEW j \in 1..Len(u)
    PROVE  /\ MoveToEnd(u, u[j]) \in Seq(Ids) /\ IsInjective(MoveToEnd(u, u[j]))
           /\ Rotates(MoveToEnd(u, u[j]), u, j)
  <1>1. PICK w : w = RemoveFirst(u, u[j])
    OBVIOUS
  <1>2. w \in Seq(Ids) /\ Drops(w, u, j)
    BY <1>1, RemoveFirstDrops
  <1>3. PICK v : v = Append(w, u[j])
    OBVIOUS
  <1>4. v = MoveToEnd(u, u[j])
    BY <1>1, <1>3, Zenon DEF MoveToEnd
  <1>5. Len(w) = Len(u) - 1 /\ Len(u) \in Nat /\ u[j] \in Ids
    BY <1>2 DEF Drops
  <1>6. /\ v \in Seq(Ids) /\ Len(v) = Len(u) /\ DOMAIN v = 1..Len(u) /\ DOMAIN u = 1..Len(u)
        /\ \A i \in 1..Len(u) : v[i] = IF i <= Len(u) - 1 THEN w[i] ELSE u[j]
    BY <1>2, <1>3, <1>5, AppendAt
  <1>7. \A i \in 1..Len(u) : v[i] = IF i = Len(u) THEN u[j]
                                    ELSE IF i < j THEN u[i] ELSE u[i + 1]
    <2> SUFFICES ASSUME NEW i \in 1..Len(u)
                 PROVE  v[i] = IF i = Len(u) THEN u[j] ELSE IF i < j THEN u[i] ELSE u[i + 1]
      OBVIOUS
    <2>1. CASE i = Len(u)
      BY <1>5, <1>6, <2>1
    <2>2. CASE i # Len(u)
      <3>1. i \in 1..(Len(u) - 1) /\ i <= Len(u) - 1
        BY <1>5, <2>2
      <3> QED
        BY <1>2, <1>6, <2>2, <3>1 DEF Drops
    <2> QED
      BY <2>1, <2>2
  <1>8. \A a, b \in 1..Len(u) : u[a] = u[b] => a = b
    BY <1>6 DEF IsInjective
  <1>9. ASSUME NEW a \in 1..Len(u), NEW b \in 1..Len(u), v[a] = v[b]
        PROVE  a = b
    BY <1>5, <1>7, <1>8, <1>9
  <1> QED
    BY <1>4, <1>6, <1>7, <1>9 DEF IsInjective, Rotates

(* A new id takes the place of the victim, in the cache and at its end. *)
Inserts(v, c, k) ==
    /\ Len(v) = IF Len(c) = MaxSize THEN MaxSize ELSE Len(c) + 1
    /\ \A i \in 1..Len(v) : v[i] = IF i = Len(v) THEN k
                                   ELSE IF Len(c) = MaxSize THEN c[i + 1] ELSE c[i]

LEMMA InsertResult ==
    ASSUME NEW c \in Seq(Ids), NEW k \in Ids, Len(c) <= MaxSize
    PROVE  Insert(c, k) \in Seq(Ids) /\ Inserts(Insert(c, k), c, k)
  <1>1. MaxSize \in Nat /\ MaxSize >= 1 /\ Len(c) \in Nat
    BY MaxSizeAssumption
  <1>2. CASE Len(c) = MaxSize
    <2>1. c # <<>>
      BY <1>1, <1>2
    <2>2. PICK t \in Seq(Ids) : t = Tail(c) /\ Drops(t, c, 1)
      BY <2>1, TailDrops
    <2>3. /\ Insert(c, k) = Append(t, k) /\ Len(t) = MaxSize - 1
          /\ \A i \in 1..(MaxSize - 1) : t[i] = c[i + 1]
      BY <1>1, <1>2, <2>2 DEF Insert, Drops
    <2>4. PICK r : r = Append(t, k)
      OBVIOUS
    <2>5. /\ r \in Seq(Ids) /\ Len(r) = MaxSize
          /\ \A i \in 1..MaxSize : r[i] = IF i <= MaxSize - 1 THEN t[i] ELSE k
      BY <1>1, <2>2, <2>3, <2>4, AppendAt
    <2>6. ASSUME NEW i \in 1..MaxSize
          PROVE  r[i] = IF i = MaxSize THEN k ELSE c[i + 1]
      <3>1. CASE i = MaxSize
        BY <1>1, <2>5, <3>1
      <3>2. CASE i # MaxSize
        <4>1. i \in 1..(MaxSize - 1) /\ i <= MaxSize - 1
          BY <1>1, <3>2
        <4> QED
          BY <2>3, <2>5, <3>2, <4>1
      <3> QED
        BY <3>1, <3>2
    <2> QED
      BY <1>2, <2>3, <2>4, <2>5, <2>6 DEF Inserts
  <1>3. CASE Len(c) # MaxSize
    <2>1. ~(Len(c) >= MaxSize)
      BY <1>1, <1>3
    <2>2. PICK r : r = Append(c, k) /\ Insert(c, k) = r
      BY <2>1 DEF Insert
    <2>3. /\ r \in Seq(Ids) /\ Len(r) = Len(c) + 1
          /\ \A i \in 1..(Len(c) + 1) : r[i] = IF i <= Len(c) THEN c[i] ELSE k
      BY <2>2, AppendAt
    <2> QED
      BY <1>1, <1>3, <2>2, <2>3 DEF Inserts
  <1> QED
    BY <1>2, <1>3

LEMMA HistoryInvInit == HistoryInit => HistoryInv
  BY MaxSizeAssumption DEF HistoryInit, CacheInit, HistoryInv, EndOf, Smaller, IsInjective

(* c is what is left of u without its first d ids. *)
EndFrom(c, u, d) ==
    /\ Len(u) = d + Len(c)
    /\ \A i \in 1..Len(c) : c[i] = u[d + i]

LEMMA EndOfIsEndFrom ==
    ASSUME NEW S, NEW c \in Seq(S), NEW u \in Seq(S)
    PROVE  EndOf(c, u) <=> /\ Len(c) = Smaller(MaxSize, Len(u))
                           /\ \E d \in Nat : EndFrom(c, u, d)
  <1>1. Len(c) \in Nat /\ Len(u) \in Nat /\ MaxSize \in Nat
    BY MaxSizeAssumption
  <1>2. ASSUME EndOf(c, u)
        PROVE  \E d \in Nat : EndFrom(c, u, d)
    <2>1. Len(c) = Smaller(MaxSize, Len(u))
      BY <1>2 DEF EndOf
    <2>2. Len(u) - Len(c) \in Nat
      BY <1>1, <2>1 DEF Smaller
    <2>3. PICK d \in Nat : d = Len(u) - Len(c)
      BY <2>2
    <2>4. EndFrom(c, u, d)
      BY <1>1, <1>2, <2>3 DEF EndOf, EndFrom
    <2> QED
      BY <2>4
  <1>3. ASSUME NEW d \in Nat, EndFrom(c, u, d), Len(c) = Smaller(MaxSize, Len(u))
        PROVE  EndOf(c, u)
    <2>1. Len(u) - Len(c) = d
      BY <1>1, <1>3 DEF EndFrom
    <2> QED
      BY <1>3, <2>1 DEF EndOf, EndFrom
  <1> QED
    BY <1>2, <1>3 DEF EndOf

(* A new id that the cache does not hold: it may have been forgotten. *)
LEMMA InsertKeepsEnd ==
    ASSUME NEW c \in Seq(Ids), NEW u \in Seq(Ids), IsInjective(u), EndOf(c, u),
           NEW k \in Ids, ~Contains(c, k)
    PROVE  /\ Insert(c, k) \in Seq(Ids)
           /\ MoveToEnd(u, k) \in Seq(Ids) /\ IsInjective(MoveToEnd(u, k))
           /\ EndOf(Insert(c, k), MoveToEnd(u, k))
  <1>1. PICK d \in Nat : EndFrom(c, u, d)
    BY EndOfIsEndFrom
  <1>2. PICK n \in Nat : n = Len(c)
    OBVIOUS
  <1>3. /\ Len(u) = d + n /\ MaxSize \in Nat /\ MaxSize >= 1
        /\ \A i \in 1..n : c[i] = u[d + i]
        /\ n = Smaller(MaxSize, d + n)
    BY <1>1, <1>2, MaxSizeAssumption DEF EndFrom, EndOf
  <1>4. n <= MaxSize /\ (d > 0 => n = MaxSize)
    BY <1>3 DEF Smaller
  <1>5. PICK c2 \in Seq(Ids) : c2 = Insert(c, k) /\ Inserts(c2, c, k)
    BY <1>2, <1>4, InsertResult
  <1>6. /\ c2 \in Seq(Ids) /\ c2 = Insert(c, k)
        /\ Len(c2) = IF n = MaxSize THEN MaxSize ELSE n + 1
        /\ \A i \in 1..Len(c2) : c2[i] = IF i = Len(c2) THEN k
                                         ELSE IF n = MaxSize THEN c[i + 1] ELSE c[i]
    BY <1>2, <1>5 DEF Inserts
  <1>7. CASE ~Contains(u, k)
    <2>1. PICK u2 \in Seq(Ids) : u2 = MoveToEnd(u, k) /\ u2 = Append(u, k) /\ IsInjective(u2)
      BY <1>7, HistoryGrows
    <2>2. /\ Len(u2) = d + n + 1
          /\ \A i \in 1..(d + n + 1) : u2[i] = IF i <= d + n THEN u[i] ELSE k
      BY <1>3, <2>1, AppendAt
    <2>3. CASE n = MaxSize
      <3>1. Len(c2) = n /\ Len(u2) = (d + 1) + Len(c2)
        BY <1>3, <1>6, <2>2, <2>3
      <3>2. ASSUME NEW i \in 1..n
            PROVE  c2[i] = u2[(d + 1) + i]
        <4>1. PICK x \in 1..(d + n + 1) : x = (d + 1) + i
          OBVIOUS
        <4>2. CASE i = n
          BY <1>6, <2>2, <2>3, <3>1, <4>1, <4>2
        <4>3. CASE i # n
          <5>1. i + 1 \in 1..n /\ x <= d + n /\ x = d + (i + 1)
            BY <4>1, <4>3
          <5>2. c2[i] = c[i + 1] /\ u2[x] = u[x]
            BY <1>6, <2>2, <2>3, <3>1, <4>3, <5>1
          <5> QED
            BY <1>3, <4>1, <5>1, <5>2
        <4> QED
          BY <4>2, <4>3
      <3>3. EndFrom(c2, u2, d + 1) /\ Len(c2) = Smaller(MaxSize, Len(u2))
        BY <1>3, <2>3, <3>1, <3>2 DEF EndFrom, Smaller
      <3>4. d + 1 \in Nat
        OBVIOUS
      <3>5. \E e \in Nat : EndFrom(c2, u2, e)
        BY <3>3, <3>4
      <3> QED
        BY <1>6, <2>1, <3>3, <3>5, EndOfIsEndFrom
    <2>4. CASE n # MaxSize
      <3>1. d = 0 /\ Len(c2) = n + 1 /\ Len(u2) = 0 + Len(c2)
        BY <1>3, <1>4, <1>6, <2>2, <2>4
      <3>2. ASSUME NEW i \in 1..(n + 1)
            PROVE  c2[i] = u2[0 + i]
        BY <1>3, <1>6, <2>2, <2>4, <3>1
      <3>3. EndFrom(c2, u2, 0)
        BY <3>1, <3>2 DEF EndFrom
      <3>4. Len(c2) = Smaller(MaxSize, Len(u2))
        BY <1>3, <1>4, <2>4, <3>1 DEF Smaller
      <3> QED
        BY <1>6, <2>1, <3>3, <3>4, EndOfIsEndFrom
    <2> QED
      BY <2>3, <2>4
  <1>8. CASE Contains(u, k)
    <2>1. PICK j \in 1..Len(u) : u[j] = k
      BY <1>8 DEF Contains
    <2>2. j <= d
      <3>1. CASE j > d
        <4>1. j - d \in 1..n /\ d + (j - d) = j
          BY <1>3, <3>1
        <4>2. c[j - d] = k
          BY <1>3, <2>1, <4>1
        <4> QED
          BY <1>2, <4>1, <4>2 DEF Contains
      <3> QED
        BY <1>3, <3>1
    <2>3. n = MaxSize
      BY <1>3, <1>4, <2>2
    <2>4. PICK u2 \in Seq(Ids) :
             u2 = MoveToEnd(u, k) /\ IsInjective(u2) /\ Rotates(u2, u, j)
      BY <2>1, HistoryMoves
    <2>5. /\ Len(u2) = d + n
          /\ \A i \in 1..(d + n) : u2[i] = IF i = d + n THEN k
                                           ELSE IF i < j THEN u[i] ELSE u[i + 1]
      BY <1>3, <2>1, <2>4 DEF Rotates
    <2>6. Len(c2) = n /\ Len(u2) = d + Len(c2)
      BY <1>6, <2>3, <2>5
    <2>7. ASSUME NEW i \in 1..n
          PROVE  c2[i] = u2[d + i]
      <3>1. CASE i = n
        BY <1>3, <1>6, <2>3, <2>6, <2>5, <3>1
      <3>2. CASE i # n
        <4>1. /\ i + 1 \in 1..n /\ d + i \in 1..(d + n) /\ d + i # d + n
              /\ ~(d + i < j) /\ (d + i) + 1 = d + (i + 1)
          BY <2>2, <3>2
        <4>2. u2[d + i] = u[d + (i + 1)]
          BY <2>5, <4>1
        <4>3. c2[i] = c[i + 1]
          BY <1>6, <2>3, <2>6, <3>2
        <4> QED
          BY <1>3, <4>1, <4>2, <4>3
      <3> QED
        BY <3>1, <3>2
    <2>8. EndFrom(c2, u2, d) /\ Len(c2) = Smaller(MaxSize, Len(u2))
      BY <1>3, <2>6, <2>7 DEF EndFrom
    <2> QED
      BY <1>6, <2>4, <2>8, EndOfIsEndFrom
  <1> QED
    BY <1>7, <1>8

(* An id that the cache holds. *)
LEMMA MoveKeepsEnd ==
    ASSUME NEW c \in Seq(Ids), NEW u \in Seq(Ids), IsInjective(u), EndOf(c, u),
           NEW k \in Ids, Contains(c, k)
    PROVE  /\ MoveToEnd(c, k) \in Seq(Ids)
           /\ MoveToEnd(u, k) \in Seq(Ids) /\ IsInjective(MoveToEnd(u, k))
           /\ EndOf(MoveToEnd(c, k), MoveToEnd(u, k))
  <1>1. PICK d \in Nat : EndFrom(c, u, d)
    BY EndOfIsEndFrom
  <1>2. PICK n \in Nat : n = Len(c)
    OBVIOUS
  <1>3. /\ Len(u) = d + n /\ DOMAIN c = 1..n /\ DOMAIN u = 1..(d + n)
        /\ \A i \in 1..n : c[i] = u[d + i]
        /\ n = Smaller(MaxSize, d + n)
    <2>1. Len(u) = d + n /\ \A i \in 1..n : c[i] = u[d + i]
      BY <1>1, <1>2 DEF EndFrom
    <2>2. Len(c) = Smaller(MaxSize, Len(u))
      BY DEF EndOf
    <2>3. DOMAIN c = 1..Len(c) /\ DOMAIN u = 1..Len(u)
      OBVIOUS
    <2> QED
      BY <1>2, <2>1, <2>2, <2>3
  <1>4. \A a, b \in 1..(d + n) : u[a] = u[b] => a = b
    BY <1>3 DEF IsInjective
  <1>5. IsInjective(c)
    <2> SUFFICES ASSUME NEW a \in 1..n, NEW b \in 1..n, c[a] = c[b]
                 PROVE  a = b
      BY <1>3 DEF IsInjective
    <2>1. d + a \in 1..(d + n) /\ d + b \in 1..(d + n) /\ u[d + a] = u[d + b]
      BY <1>3
    <2>2. d + a = d + b
      BY <1>4, <2>1
    <2> QED
      BY <2>2
  <1>6. PICK p \in 1..n : c[p] = k
    BY <1>2 DEF Contains
  <1>7. d + p \in 1..(d + n) /\ u[d + p] = k
    BY <1>3, <1>6
  <1>8. PICK c2 \in Seq(Ids) : c2 = MoveToEnd(c, k) /\ Rotates(c2, c, p)
    BY <1>2, <1>5, <1>6, HistoryMoves
  <1>9. PICK j \in 1..Len(u) : j = d + p
    BY <1>3, <1>7
  <1>10. PICK u2 \in Seq(Ids) : u2 = MoveToEnd(u, k) /\ IsInjective(u2) /\ Rotates(u2, u, j)
    BY <1>7, <1>9, HistoryMoves
  <1>11. /\ Len(c2) = n /\ Len(u2) = d + n
         /\ \A i \in 1..n : c2[i] = IF i = n THEN k ELSE IF i < p THEN c[i] ELSE c[i + 1]
         /\ \A i \in 1..(d + n) : u2[i] = IF i = d + n THEN k
                                          ELSE IF i < d + p THEN u[i] ELSE u[i + 1]
    BY <1>2, <1>3, <1>6, <1>7, <1>8, <1>9, <1>10 DEF Rotates
  <1>12. ASSUME NEW i \in 1..n
         PROVE  c2[i] = u2[d + i]
    <2>1. CASE i = n
      BY <1>11, <2>1
    <2>2. CASE i # n
      <3>1. /\ i + 1 \in 1..n /\ d + i \in 1..(d + n) /\ d + i # d + n
            /\ (d + i) + 1 = d + (i + 1) /\ (i < p <=> d + i < d + p)
        BY <2>2
      <3>2. c2[i] = IF i < p THEN c[i] ELSE c[i + 1]
        BY <1>11, <2>2
      <3>3. u2[d + i] = IF i < p THEN u[d + i] ELSE u[d + (i + 1)]
        BY <1>11, <3>1
      <3> QED
        BY <1>3, <3>1, <3>2, <3>3
    <2> QED
      BY <2>1, <2>2
  <1>13. EndFrom(c2, u2, d) /\ Len(c2) = Smaller(MaxSize, Len(u2))
    BY <1>3, <1>12, <1>11 DEF EndFrom
  <1> QED
    BY <1>8, <1>13, <1>10, EndOfIsEndFrom

LEMMA HistoryInvStep == HistoryInv /\ [HistoryNext]_historyVars => HistoryInv'
  <1> SUFFICES ASSUME HistoryInv, [HistoryNext]_historyVars
               PROVE  HistoryInv'
    OBVIOUS
  <1>1. CASE HistoryNext
    <2>1. PICK k \in Ids : (SetIfAbsent(k) \/ Get(k)) /\ used' = MoveToEnd(used, k)
      BY <1>1 DEF HistoryNext
    <2>2. CASE SetIfAbsent(k)
      BY <2>1, <2>2, InsertKeepsEnd DEF HistoryInv, SetIfAbsent
    <2>3. CASE Get(k)
      BY <2>1, <2>3, MoveKeepsEnd DEF HistoryInv, Get, AfterGet
    <2> QED
      BY <2>1, <2>2, <2>3
  <1>2. CASE UNCHANGED historyVars
    BY <1>2 DEF historyVars, HistoryInv, EndOf
  <1> QED
    BY <1>1, <1>2

(* An id is forgotten only after MaxSize others were used since its own last   *)
(* use, and the cache holds all the others: for any ids and any size.          *)
THEOREM MostRecentlyUsedHolds == HistorySpec => []MostRecentlyUsed
  <1>1. HistoryInv => MostRecentlyUsed
    BY EndOfIsSubSeq DEF HistoryInv, MostRecentlyUsed
  <1>2. HistorySpec => []HistoryInv
    BY HistoryInvInit, HistoryInvStep, PTL DEF HistorySpec
  <1> QED
    BY <1>1, <1>2, PTL
=============================================================================
