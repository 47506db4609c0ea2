-------------------------- MODULE Webhook_proofs --------------------------
(***************************************************************************)
(* Proofs about HttpSend and, from there, about Webhook: for any set of    *)
(* messages, deliveries and calls, any size of the cache and any number of *)
(* permits, attempts and restarts.                                         *)
(*                                                                         *)
(* The lemmas about the cache come from CacheHistory_proofs; `used`, the   *)
(* history CacheHistory keeps, is not mentioned by the handlers.           *)
(***************************************************************************)
EXTENDS Webhook, CacheHistory_proofs, FiniteSetTheorems, SequenceTheorems, TLAPS

-----------------------------------------------------------------------------
(* HttpSend. *)

(* The elements of a queue without repetitions, after one was added, after the *)
(* first has gone, and after any one has gone.                                 *)
LEMMA QueueAppend ==
    ASSUME NEW S, NEW q \in Seq(S), IsInjective(q), NEW e \in S, e \notin ToSet(q)
    PROVE  /\ Append(q, e) \in Seq(S) /\ IsInjective(Append(q, e))
           /\ ToSet(Append(q, e)) = ToSet(q) \cup {e}
           /\ Append(q, e) # <<>>
  <1>1. /\ Append(q, e) \in Seq(S) /\ Len(q) \in Nat /\ DOMAIN q = 1..Len(q)
        /\ DOMAIN Append(q, e) = 1..(Len(q) + 1)
        /\ \A i \in 1..Len(q) : Append(q, e)[i] = q[i]
        /\ Append(q, e)[Len(q) + 1] = e /\ Append(q, e) # <<>>
    OBVIOUS
  <1>2. 1..(Len(q) + 1) = 1..Len(q) \cup {Len(q) + 1}
    BY <1>1
  <1>3. ToSet(Append(q, e)) = ToSet(q) \cup {e}
    BY <1>1, <1>2 DEF ToSet
  <1>4. IsInjective(Append(q, e))
    BY <1>1, <1>2 DEF ToSet, IsInjective
  <1> QED
    BY <1>1, <1>3, <1>4

\* r is q without its element at k.
Skips(r, q, k) ==
    /\ Len(r) = Len(q) - 1
    /\ \A i \in 1..(Len(q) - 1) : r[i] = IF i < k THEN q[i] ELSE q[i + 1]

LEMMA OneLess ==
    ASSUME NEW S, NEW q \in Seq(S), IsInjective(q), NEW k \in 1..Len(q),
           NEW r \in Seq(S), Skips(r, q, k)
    PROVE  IsInjective(r) /\ ToSet(r) = ToSet(q) \ {q[k]}
  <1>1. /\ Len(q) \in Nat /\ Len(q) >= 1 /\ DOMAIN q = 1..Len(q)
        /\ DOMAIN r = 1..(Len(q) - 1)
        /\ \A i \in 1..(Len(q) - 1) : r[i] = IF i < k THEN q[i] ELSE q[i + 1]
    BY DEF Skips
  <1>2. \A i \in 1..(Len(q) - 1) : i \in 1..Len(q) /\ i + 1 \in 1..Len(q)
    BY <1>1
  <1>3. \A a, b \in 1..Len(q) : q[a] = q[b] => a = b
    BY <1>1 DEF IsInjective
  <1>4. IsInjective(r)
    <2> SUFFICES ASSUME NEW i \in 1..(Len(q) - 1), NEW j \in 1..(Len(q) - 1), r[i] = r[j]
                 PROVE  i = j
      BY <1>1 DEF IsInjective
    <2> QED
      BY <1>1, <1>2, <1>3
  <1>5. \A i \in 1..(Len(q) - 1) : \E j \in 1..Len(q) : j # k /\ r[i] = q[j]
    <2> SUFFICES ASSUME NEW i \in 1..(Len(q) - 1)
                 PROVE  \E j \in 1..Len(q) : j # k /\ r[i] = q[j]
      OBVIOUS
    <2>1. CASE i < k
      BY <1>1, <1>2, <2>1
    <2>2. CASE ~(i < k)
      <3>1. i + 1 \in 1..Len(q) /\ i + 1 # k /\ r[i] = q[i + 1]
        BY <1>1, <1>2, <2>2
      <3> QED
        BY <3>1
    <2> QED
      BY <2>1, <2>2
  <1>6. ASSUME NEW i \in 1..Len(q), i # k
        PROVE  \E j \in 1..(Len(q) - 1) : r[j] = q[i]
    <2>1. CASE i < k
      BY <1>1, <2>1
    <2>2. CASE i > k
      <3>1. i - 1 \in 1..(Len(q) - 1) /\ ~(i - 1 < k) /\ (i - 1) + 1 = i
        BY <1>1, <2>2
      <3> QED
        BY <1>1, <3>1
    <2> QED
      BY <1>6, <2>1, <2>2
  <1>7. ToSet(q) = {q[i] : i \in 1..Len(q)} /\ ToSet(r) = {r[i] : i \in 1..(Len(q) - 1)}
    BY <1>1 DEF ToSet
  <1>8. ToSet(r) \subseteq ToSet(q) \ {q[k]}
    BY <1>3, <1>5, <1>7
  <1>9. ToSet(q) \ {q[k]} \subseteq ToSet(r)
    BY <1>6, <1>7
  <1> QED
    BY <1>4, <1>8, <1>9

LEMMA QueueWithout ==
    ASSUME NEW S, NEW q \in Seq(S), IsInjective(q), NEW k \in 1..Len(q)
    PROVE  /\ RemoveAt(q, k) \in Seq(S) /\ IsInjective(RemoveAt(q, k))
           /\ ToSet(RemoveAt(q, k)) = ToSet(q) \ {q[k]}
  <1> DEFINE front == SubSeq(q, 1, k - 1)
             back == SubSeq(q, k + 1, Len(q))
  <1>1. /\ front \in Seq(S) /\ Len(front) = k - 1
        /\ \A i \in 1..(k - 1) : front[i] = q[i]
    OBVIOUS
  <1>2. /\ back \in Seq(S) /\ Len(back) = Len(q) - k
        /\ \A i \in 1..(Len(q) - k) : back[i] = q[i + k]
    OBVIOUS
  <1>3. RemoveAt(q, k) = front \o back
    BY DEF RemoveAt
  <1> HIDE DEF front, back
  <1>4. /\ front \o back \in Seq(S)
        /\ Len(front \o back) = Len(front) + Len(back)
        /\ \A i \in 1..(Len(front) + Len(back)) :
              (front \o back)[i] = IF i <= Len(front) THEN front[i] ELSE back[i - Len(front)]
    BY <1>1, <1>2, ConcatProperties
  <1>5. Len(front) + Len(back) = Len(q) - 1
    BY <1>1, <1>2
  <1>6. ASSUME NEW i \in 1..(Len(q) - 1)
        PROVE  (front \o back)[i] = IF i < k THEN q[i] ELSE q[i + 1]
    <2>1. CASE i < k
      <3>1. i \in 1..(k - 1) /\ i <= k - 1
        BY <2>1
      <3> QED
        BY <1>1, <1>4, <1>5, <2>1, <3>1
    <2>2. CASE ~(i < k)
      <3>1. i - (k - 1) \in 1..(Len(q) - k) /\ (i - (k - 1)) + k = i + 1 /\ ~(i <= k - 1)
        BY <2>2
      <3>2. (front \o back)[i] = back[i - (k - 1)]
        BY <1>1, <1>4, <1>5, <3>1
      <3> QED
        BY <1>2, <2>2, <3>1, <3>2
    <2> QED
      BY <2>1, <2>2
  <1>7. Skips(front \o back, q, k)
    BY <1>4, <1>5, <1>6 DEF Skips
  <1>8. PICK r \in Seq(S) : r = RemoveAt(q, k) /\ Skips(r, q, k)
    BY <1>3, <1>4, <1>7
  <1>9. IsInjective(r) /\ ToSet(r) = ToSet(q) \ {q[k]}
    BY <1>8, OneLess
  <1> QED
    BY <1>8, <1>9

LEMMA QueueTail ==
    ASSUME NEW S, NEW q \in Seq(S), IsInjective(q), q # <<>>
    PROVE  /\ Head(q) \in S /\ Head(q) \in ToSet(q)
           /\ Tail(q) \in Seq(S) /\ IsInjective(Tail(q))
           /\ ToSet(Tail(q)) = ToSet(q) \ {Head(q)}
  <1>1. /\ Len(q) \in Nat /\ Len(q) >= 1 /\ 1 \in 1..Len(q) /\ Head(q) = q[1] /\ Head(q) \in S
        /\ DOMAIN q = 1..Len(q)
    OBVIOUS
  <1>2. /\ Tail(q) \in Seq(S) /\ Len(Tail(q)) = Len(q) - 1
        /\ \A i \in 1..(Len(q) - 1) : Tail(q)[i] = q[i + 1]
    OBVIOUS
  <1>3. Skips(Tail(q), q, 1)
    BY <1>1, <1>2 DEF Skips
  <1>4. PICK r \in Seq(S) : r = Tail(q) /\ Skips(r, q, 1)
    BY <1>2, <1>3
  <1>5. IsInjective(r) /\ ToSet(r) = ToSet(q) \ {q[1]}
    BY <1>1, <1>4, OneLess
  <1>6. Head(q) \in ToSet(q)
    BY <1>1 DEF ToSet
  <1> QED
    BY <1>1, <1>2, <1>4, <1>5, <1>6

-----------------------------------------------------------------------------

\* What the POSTs of call i have come to.
Counts(i) ==
    /\ copies[i] <= attempt[i]
    /\ send[i] \in {"idle", "waiting"} => attempt[i] = 0
    /\ send[i] = "posting" => copies[i] < attempt[i]
    /\ send[i] = "sleeping" => attempt[i] < Retries
    /\ send[i] \in {"accepted", "sent"} => copies[i] > 0

Waiters == {i \in Sends : send[i] = "waiting"}

\* PermitsKept, where the holders can be counted whatever the set of calls.
SendInv ==
    /\ SendTypeOK
    /\ \A i \in Sends : Counts(i)
    /\ IsFiniteSet(Holders)
    /\ PermitsKept

LEMMA SendInvInit == SendInit => SendInv
  <1> SUFFICES ASSUME SendInit
               PROVE  SendInv
    OBVIOUS
  <1>1. Holders = {} /\ Waiters = {}
    BY DEF SendInit, Holders, Holding, Waiters
  <1>2. /\ IsFiniteSet(Holders) /\ Cardinality(Holders) = 0
        /\ ToSet(queue) = {} /\ IsInjective(queue) /\ queue = <<>>
    BY <1>1, FS_EmptySet DEF SendInit, ToSet, IsInjective
  <1>3. SendTypeOK /\ \A i \in Sends : Counts(i)
    BY SendAssumption DEF SendInit, SendTypeOK, Counts, Pending, Holding, Returned
  <1> QED
    BY <1>1, <1>2, <1>3, SendAssumption DEF SendInv, PermitsKept, Waiters

(* A step of call i alone: who holds a permit and who waits, before and after. *)
LEMMA SetsAfter ==
    ASSUME SendTypeOK, NEW i \in Sends, NEW label, send' = [send EXCEPT ![i] = label]
    PROVE  /\ Holders' = IF label \in Holding THEN Holders \cup {i} ELSE Holders \ {i}
           /\ Waiters' = IF label = "waiting" THEN Waiters \cup {i} ELSE Waiters \ {i}
           /\ send'[i] = label /\ \A j \in Sends \ {i} : send'[j] = send[j]
  BY DEF SendTypeOK, Holders, Waiters

(* Steps that neither take nor release a permit nor touch the queue. *)
LEMMA SamePermits ==
    ASSUME SendInv, SendTypeOK', \A i \in Sends : Counts(i)',
           Holders' = Holders, Waiters' = Waiters, queue' = queue
    PROVE  SendInv'
  BY DEF SendInv, PermitsKept, Waiters

LEMMA CallKeepsSendInv ==
    ASSUME SendInv, NEW i \in Sends, Call(i)
    PROVE  SendInv'
  <1>1. /\ SendTypeOK /\ send[i] = "idle" /\ attempt[i] = 0 /\ copies[i] = 0
        /\ i \notin Holders /\ i \notin Waiters /\ i \notin ToSet(queue)
        /\ IsFiniteSet(Holders) /\ Cardinality(Holders) \in Nat
    BY FS_CardinalityType
       DEF SendInv, SendTypeOK, Counts, PermitsKept, Call, CallNow, CallAndWait, Holders,
           Waiters, Holding
  <1>2. CASE CallNow(i)
    <2>1. /\ Cardinality(Holders) < Permits /\ queue = <<>> /\ queue' = queue
          /\ Holders' = Holders \cup {i} /\ Waiters' = Waiters
      <3>1. send' = [send EXCEPT ![i] = "posting"] /\ queue' = queue /\ ~Locked
        BY <1>2 DEF CallNow
      <3>2. Holders' = Holders \cup {i} /\ Waiters' = Waiters \ {i}
        BY <1>1, <3>1, SetsAfter DEF Holding
      <3> QED
        BY <1>1, <3>1, <3>2, SendAssumption DEF Locked
    <2>2. IsFiniteSet(Holders') /\ Cardinality(Holders') = Cardinality(Holders) + 1
      BY <1>1, <2>1, FS_AddElement
    <2>3. Cardinality(Holders') <= Permits
      BY <1>1, <2>1, <2>2, SendAssumption
    <2>4. SendTypeOK' /\ \A j \in Sends : Counts(j)'
      BY <1>1, <1>2, SendAssumption
         DEF CallNow, SendInv, SendTypeOK, Counts, Pending, Holding
    <2> QED
      BY <2>1, <2>2, <2>3, <2>4 DEF SendInv, PermitsKept, Waiters
  <1>3. CASE CallAndWait(i)
    <2>1. /\ queue' = Append(queue, i) /\ Holders' = Holders /\ Waiters' = Waiters \cup {i}
      <3>1. send' = [send EXCEPT ![i] = "waiting"] /\ queue' = Append(queue, i)
        BY <1>3 DEF CallAndWait
      <3>2. Holders' = Holders \ {i} /\ Waiters' = Waiters \cup {i}
        BY <1>1, <3>1, SetsAfter DEF Holding
      <3> QED
        BY <1>1, <3>1, <3>2
    <2>2. Cardinality(Holders) = Permits
      BY <1>1, <1>3, SendAssumption DEF CallAndWait, Locked, SendInv, PermitsKept
    <2>3. /\ queue' \in Seq(Sends) /\ IsInjective(queue')
          /\ ToSet(queue') = ToSet(queue) \cup {i}
      BY <1>1, <2>1, QueueAppend DEF SendInv, SendTypeOK, PermitsKept
    <2>4. SendTypeOK' /\ \A j \in Sends : Counts(j)'
      BY <1>1, <1>3, <2>3 DEF CallAndWait, SendInv, SendTypeOK, Counts, Pending
    <2> QED
      BY <1>1, <2>1, <2>2, <2>3, <2>4 DEF SendInv, PermitsKept, Waiters
  <1> QED
    BY <1>2, <1>3 DEF Call

(* The end of a call that held a permit: nobody waits, or the first one gets it. *)
LEMMA LeaveKeepsSendInv ==
    ASSUME SendInv, NEW i \in Sends, send[i] \in Holding, NEW outcome \in Returned,
           Leave(i, outcome), UNCHANGED copies, outcome = "sent" => copies[i] > 0
    PROVE  SendInv'
  <1>1. /\ SendTypeOK /\ i \in Holders /\ i \notin Waiters
        /\ outcome \notin Holding /\ outcome # "waiting"
        /\ IsFiniteSet(Holders) /\ Cardinality(Holders) \in Nat
        /\ Cardinality(Holders) <= Permits
    BY FS_CardinalityType DEF SendInv, PermitsKept, Holders, Waiters, Holding, Returned
  <1>2. /\ IsFiniteSet(Holders \ {i})
        /\ Cardinality(Holders \ {i}) = Cardinality(Holders) - 1
    BY <1>1, FS_RemoveElement
  <1>3. CASE queue = <<>>
    <2>1. Holders' = Holders \ {i} /\ Waiters' = Waiters /\ queue' = queue
      <3>1. send' = [send EXCEPT ![i] = outcome] /\ queue' = queue
        BY <1>3 DEF Leave
      <3>2. Holders' = Holders \ {i} /\ Waiters' = Waiters \ {i}
        BY <1>1, <3>1, SetsAfter
      <3> QED
        BY <1>1, <3>1, <3>2
    <2>2. Cardinality(Holders') <= Permits
      BY <1>1, <1>2, <2>1, SendAssumption
    <2>3. SendTypeOK' /\ \A j \in Sends : Counts(j)'
      BY <1>1, <1>3 DEF Leave, SendInv, SendTypeOK, Counts, Returned
    <2> QED
      BY <1>2, <1>3, <2>1, <2>2, <2>3 DEF SendInv, PermitsKept, Waiters
  <1>4. CASE queue # <<>>
    <2>1. PICK h \in Sends :
             /\ h = Head(queue) /\ h \in Waiters /\ h # i /\ h \notin Holders
             /\ queue' = Tail(queue) /\ queue' \in Seq(Sends) /\ IsInjective(queue')
             /\ ToSet(queue') = Waiters \ {h}
      <3>1. ToSet(queue) = Waiters /\ IsInjective(queue) /\ queue \in Seq(Sends)
        BY DEF SendInv, SendTypeOK, PermitsKept, Waiters
      <3>2. /\ Head(queue) \in Sends /\ Head(queue) \in Waiters
            /\ Tail(queue) \in Seq(Sends) /\ IsInjective(Tail(queue))
            /\ ToSet(Tail(queue)) = Waiters \ {Head(queue)}
        BY <1>4, <3>1, QueueTail
      <3>3. queue' = Tail(queue)
        BY <1>4 DEF Leave
      <3>4. \A h \in Waiters : h # i /\ h \notin Holders
        BY <1>1 DEF Waiters, Holders, Holding
      <3> QED
        BY <3>2, <3>3, <3>4
    <2>2. /\ send' = [send EXCEPT ![i] = outcome, ![h] = "posting"]
          /\ attempt' = [attempt EXCEPT ![h] = 1]
      BY <1>4, <2>1 DEF Leave
    <2>3. /\ send'[i] = outcome /\ send'[h] = "posting"
          /\ \A j \in Sends \ {i, h} : send'[j] = send[j]
      BY <1>1, <2>1, <2>2 DEF SendTypeOK
    <2>4. Holders' = (Holders \ {i}) \cup {h} /\ Waiters' = Waiters \ {h}
      BY <1>1, <2>1, <2>3 DEF Holders, Waiters, Holding, Returned
    <2>5. IsFiniteSet(Holders') /\ Cardinality(Holders') = Cardinality(Holders)
      <3>1. h \notin Holders \ {i}
        BY <2>1
      <3>2. /\ IsFiniteSet((Holders \ {i}) \cup {h})
            /\ Cardinality((Holders \ {i}) \cup {h}) = Cardinality(Holders \ {i}) + 1
        BY <1>2, <3>1, FS_AddElement
      <3> QED
        BY <1>1, <1>2, <2>4, <3>2
    <2>6. SendTypeOK'
      <3>1. send' \in [Sends -> {"idle"} \cup Pending \cup Returned]
        BY <1>1, <2>2 DEF SendTypeOK, Pending, Holding, Returned
      <3>2. 1 \in 0..Retries
        BY SendAssumption
      <3>3. attempt' \in [Sends -> 0..Retries]
        BY <1>1, <2>2, <3>2 DEF SendTypeOK
      <3> QED
        BY <1>1, <2>1, <3>1, <3>3 DEF SendTypeOK
    <2>7. ASSUME NEW j \in Sends
          PROVE  Counts(j)'
      <3>1. Counts(j) /\ copies'[j] = copies[j]
        BY DEF SendInv
      <3>2. attempt'[j] = IF j = h THEN 1 ELSE attempt[j]
        BY <1>1, <2>2 DEF SendTypeOK
      <3>3. CASE j = h
        <4>1. copies[h] = 0
          BY <1>1, <2>1, <3>1, <3>3 DEF Counts, Waiters, SendTypeOK
        <4> QED
          BY <2>3, <3>1, <3>2, <3>3, <4>1 DEF Counts
      <3>4. CASE j # h
        BY <2>3, <3>1, <3>2, <3>4 DEF Counts, Returned
      <3> QED
        BY <3>3, <3>4
    <2>8. Cardinality(Holders) = Permits
      BY <1>4 DEF SendInv, PermitsKept
    <2> QED
      BY <1>1, <2>1, <2>4, <2>5, <2>6, <2>7, <2>8 DEF SendInv, PermitsKept, Waiters
  <1> QED
    BY <1>3, <1>4

LEMMA PostKeepsSendInv ==
    ASSUME SendInv, NEW i \in Sends, Accepted(i) \/ PostOk(i) \/ PostFails(i) \/ Wake(i)
    PROVE  SendInv'
  <1>1. SendTypeOK /\ Counts(i)
    BY DEF SendInv
  <1>2. CASE Accepted(i)
    <2>1. Holders' = Holders /\ Waiters' = Waiters /\ queue' = queue
      BY <1>1, <1>2, SetsAfter DEF Accepted, Holders, Waiters, Holding
    <2>2. SendTypeOK' /\ \A j \in Sends : Counts(j)'
      BY <1>1, <1>2, SendAssumption DEF Accepted, SendInv, SendTypeOK, Counts, Pending, Holding
    <2> QED
      BY <2>1, <2>2, SamePermits
  <1>3. CASE PostOk(i)
    BY <1>1, <1>3, LeaveKeepsSendInv DEF PostOk, Holding, Returned, Counts
  <1>4. CASE PostFails(i) /\ LastAttempt(i)
    BY <1>4, LeaveKeepsSendInv DEF PostFails, Holding, Returned
  <1>5. CASE PostFails(i) /\ ~LastAttempt(i)
    <2>1. Holders' = Holders /\ Waiters' = Waiters /\ queue' = queue
      BY <1>1, <1>5, SetsAfter DEF PostFails, Holders, Waiters, Holding
    <2>2. /\ send' = [send EXCEPT ![i] = "sleeping"] /\ attempt[i] < Retries
          /\ UNCHANGED <<queue, attempt, copies>>
      BY <1>1, <1>5, SendAssumption DEF PostFails, LastAttempt, SendTypeOK
    <2>3. SendTypeOK'
      BY <1>1, <2>2 DEF SendTypeOK, Pending, Holding
    <2>4. ASSUME NEW j \in Sends
          PROVE  Counts(j)'
      BY <1>1, <1>5, <2>2 DEF PostFails, SendInv, SendTypeOK, Counts
    <2> QED
      BY <2>1, <2>3, <2>4, SamePermits
  <1>6. CASE Wake(i)
    <2>1. Holders' = Holders /\ Waiters' = Waiters /\ queue' = queue
      BY <1>1, <1>6, SetsAfter DEF Wake, Holders, Waiters, Holding
    <2>2. SendTypeOK' /\ \A j \in Sends : Counts(j)'
      BY <1>1, <1>6, SendAssumption DEF Wake, SendInv, SendTypeOK, Counts, Pending, Holding
    <2> QED
      BY <2>1, <2>2, SamePermits
  <1> QED
    BY <1>2, <1>3, <1>4, <1>5, <1>6

LEMMA CancelKeepsSendInv ==
    ASSUME SendInv, NEW i \in Sends, CancelWaiting(i) \/ CancelHolding(i)
    PROVE  SendInv'
  <1>1. CASE CancelHolding(i)
    BY <1>1, LeaveKeepsSendInv DEF CancelHolding, Returned
  <1>2. CASE CancelWaiting(i)
    <2>1. SendTypeOK /\ i \in Waiters /\ i \notin Holders
      BY <1>2 DEF CancelWaiting, SendInv, Waiters, Holders, Holding
    <2>2. Holders' = Holders /\ Waiters' = Waiters \ {i}
      <3>1. /\ SendTypeOK /\ send' = [send EXCEPT ![i] = "cancelled"]
            /\ "cancelled" \notin Holding /\ "cancelled" # "waiting"
        BY <1>2, <2>1 DEF CancelWaiting, Holding
      <3>2. Holders' = Holders \ {i} /\ Waiters' = Waiters \ {i}
        BY <3>1, SetsAfter
      <3> QED
        BY <2>1, <3>2
    <2>3. PICK k \in 1..Len(queue) : queue[k] = i /\ queue' = RemoveAt(queue, k)
      BY <1>2 DEF CancelWaiting
    <2>4. /\ queue' \in Seq(Sends) /\ IsInjective(queue')
          /\ ToSet(queue') = ToSet(queue) \ {i}
      BY <2>1, <2>3, QueueWithout DEF SendInv, SendTypeOK, PermitsKept
    <2>5. queue # <<>>
      BY <2>1, <2>3 DEF SendTypeOK
    <2>6. SendTypeOK' /\ \A j \in Sends : Counts(j)'
      BY <1>2, <2>1, <2>4 DEF CancelWaiting, SendInv, SendTypeOK, Counts, Returned
    <2> QED
      BY <2>2, <2>4, <2>5, <2>6 DEF SendInv, PermitsKept, Waiters
  <1> QED
    BY <1>1, <1>2

LEMMA SendInvStep == SendInv /\ [SendNext]_sendVars => SendInv'
  <1> SUFFICES ASSUME SendInv, [SendNext]_sendVars
               PROVE  SendInv'
    OBVIOUS
  <1>1. CASE UNCHANGED sendVars
    <2>1. SendTypeOK' /\ \A i \in Sends : Counts(i)'
      BY <1>1 DEF SendInv, SendTypeOK, Counts, sendVars
    <2> QED
      BY <1>1, <2>1, SamePermits DEF Holders, Waiters, sendVars
  <1>2. CASE SendNext
    BY <1>2, CallKeepsSendInv, PostKeepsSendInv, CancelKeepsSendInv DEF SendNext, SendStep
  <1> QED
    BY <1>1, <1>2

LEMMA SendInvHolds == SendSpec => []SendInv
  BY SendInvInit, SendInvStep, PTL DEF SendSpec

(* Types; no call begins more POSTs than it may, nor has more copies accepted. *)
THEOREM SendTypeCorrect == SendSpec => []SendTypeOK
  <1>1. SendInv => SendTypeOK
    BY DEF SendInv
  <1> QED
    BY <1>1, SendInvHolds, PTL

(* No permit is lost and none is invented, whichever way calls end, for any     *)
(* number of permits, and even if there is no end of calls.                    *)
THEOREM PermitsKeptHolds == SendSpec => []PermitsKept
  <1>1. SendInv => PermitsKept
    BY DEF SendInv
  <1> QED
    BY <1>1, SendInvHolds, PTL

-----------------------------------------------------------------------------
(* Webhook. *)

(* What the cache's operations keep: its type, its bound, each id once. *)
CacheInv(c) == c \in Seq(Ids) /\ Len(c) <= MaxSize /\ IsInjective(c)

LEMMA ContainsIsMember ==
    ASSUME NEW S, NEW c \in Seq(S), NEW k
    PROVE  Contains(c, k) <=> k \in ToSet(c)
  <1>1. DOMAIN c = 1..Len(c)
    OBVIOUS
  <1> QED
    BY <1>1 DEF Contains, ToSet

LEMMA InsertKeepsCacheInv ==
    ASSUME NEW c, CacheInv(c), NEW k \in Ids, ~Contains(c, k)
    PROVE  CacheInv(Insert(c, k))
  <1>1. /\ c \in Seq(Ids) /\ Len(c) <= MaxSize /\ DOMAIN c = 1..Len(c) /\ Len(c) \in Nat
        /\ MaxSize \in Nat /\ MaxSize >= 1
    BY MaxSizeAssumption DEF CacheInv
  <1>2. PICK n \in Nat : n = Len(c)
    BY <1>1
  <1>3. PICK v \in Seq(Ids) : v = Insert(c, k) /\ Inserts(v, c, k)
    BY <1>1, InsertResult
  <1>4. /\ DOMAIN v = 1..Len(v)
        /\ Len(v) = IF n = MaxSize THEN MaxSize ELSE n + 1
        /\ \A i \in 1..Len(v) : v[i] = IF i = Len(v) THEN k
                                       ELSE IF n = MaxSize THEN c[i + 1] ELSE c[i]
    BY <1>2, <1>3 DEF Inserts
  <1>5. \A i, j \in 1..n : c[i] = c[j] => i = j
    BY <1>1, <1>2 DEF CacheInv, IsInjective
  <1>6. \A i \in 1..n : c[i] # k
    BY <1>2 DEF Contains
  <1>7. PICK m \in Nat : m = Len(v) /\ m <= MaxSize
    <2>1. n <= MaxSize /\ Len(v) \in Nat
      BY <1>1, <1>2
    <2>2. Len(v) <= MaxSize
      BY <1>1, <1>4, <2>1
    <2> QED
      BY <2>1, <2>2
  <1>8. \A i \in 1..m : IF i = m THEN v[i] = k
                        ELSE \E x \in 1..n : v[i] = c[x] /\ x = IF n = MaxSize THEN i + 1 ELSE i
    <2> SUFFICES ASSUME NEW i \in 1..m, i # m
                 PROVE  \E x \in 1..n : v[i] = c[x] /\ x = IF n = MaxSize THEN i + 1 ELSE i
      BY <1>4, <1>7
    <2>1. v[i] = IF n = MaxSize THEN c[i + 1] ELSE c[i]
      BY <1>4, <1>7
    <2>2. m = IF n = MaxSize THEN n ELSE n + 1
      BY <1>4, <1>7
    <2>3. CASE n = MaxSize
      <3>1. i + 1 \in 1..n
        BY <2>2, <2>3
      <3> QED
        BY <2>1, <2>3, <3>1
    <2>4. CASE n # MaxSize
      <3>1. i \in 1..n
        BY <2>2, <2>4
      <3> QED
        BY <2>1, <2>4, <3>1
    <2> QED
      BY <2>3, <2>4
  <1>9. ASSUME NEW i \in 1..m, NEW j \in 1..m, v[i] = v[j]
        PROVE  i = j
    <2>1. i = m <=> j = m
      BY <1>6, <1>8, <1>9
    <2>2. CASE i # m
      <3>1. PICK x \in 1..n : v[i] = c[x] /\ x = IF n = MaxSize THEN i + 1 ELSE i
        BY <1>8, <2>2
      <3>2. PICK y \in 1..n : v[j] = c[y] /\ y = IF n = MaxSize THEN j + 1 ELSE j
        BY <1>8, <2>1, <2>2
      <3>3. x = y
        BY <1>5, <1>9, <3>1, <3>2
      <3> QED
        BY <3>1, <3>2, <3>3
    <2> QED
      BY <2>1, <2>2
  <1>10. IsInjective(v)
    BY <1>4, <1>7, <1>9 DEF IsInjective
  <1> QED
    BY <1>3, <1>7, <1>10 DEF CacheInv

LEMMA GetKeepsCache ==
    ASSUME NEW c, CacheInv(c), NEW k
    PROVE  CacheInv(AfterGet(c, k)) /\ ToSet(AfterGet(c, k)) = ToSet(c)
  <1>1. CASE ~Contains(c, k)
    BY <1>1 DEF AfterGet
  <1>2. CASE Contains(c, k)
    <2>1. PICK j \in 1..Len(c) : c[j] = k
      BY <1>2 DEF Contains
    <2>2. c \in Seq(Ids) /\ IsInjective(c) /\ Len(c) \in Nat /\ DOMAIN c = 1..Len(c)
      BY DEF CacheInv
    <2>3. PICK v \in Seq(Ids) : v = MoveToEnd(c, k) /\ IsInjective(v) /\ Rotates(v, c, j)
      BY <2>1, <2>2, HistoryMoves
    <2>4. PICK n \in Nat : n = Len(c) /\ j \in 1..n
      BY <2>2
    <2>5. /\ Len(v) = n /\ DOMAIN v = 1..n /\ DOMAIN c = 1..n
          /\ \A i \in 1..n : v[i] = IF i = n THEN c[j] ELSE IF i < j THEN c[i] ELSE c[i + 1]
      <3>1. Len(v) = n /\ DOMAIN v = 1..Len(v)
        BY <2>3, <2>4 DEF Rotates
      <3> QED
        BY <2>2, <2>3, <2>4, <3>1 DEF Rotates
    <2>6. ASSUME NEW i \in 1..n
          PROVE  \E e \in 1..n : v[i] = c[e]
      <3>1. CASE i = n
        BY <2>4, <2>5, <3>1
      <3>2. CASE i # n
        <4>1. i + 1 \in 1..n
          BY <3>2
        <4> QED
          BY <2>5, <3>2, <4>1
      <3> QED
        BY <3>1, <3>2
    <2>7. ASSUME NEW e \in 1..n
          PROVE  \E i \in 1..n : v[i] = c[e]
      <3>1. CASE e = j
        <4>1. n \in 1..n
          OBVIOUS
        <4> QED
          BY <2>5, <3>1, <4>1
      <3>2. CASE e < j
        <4>1. e # n
          BY <2>4, <3>2
        <4> QED
          BY <2>5, <3>2, <4>1
      <3>3. CASE e > j
        <4>1. e - 1 \in 1..n /\ e - 1 # n /\ ~(e - 1 < j) /\ (e - 1) + 1 = e
          BY <2>4, <3>3
        <4> QED
          BY <2>5, <4>1
      <3> QED
        BY <2>4, <3>1, <3>2, <3>3
    <2>8. ToSet(v) = {v[i] : i \in 1..n} /\ ToSet(c) = {c[i] : i \in 1..n}
      BY <2>5 DEF ToSet
    <2>9. ToSet(v) = ToSet(c)
      BY <2>6, <2>7, <2>8
    <2> QED
      BY <1>2, <2>3, <2>4, <2>5, <2>9 DEF AfterGet, CacheInv
  <1> QED
    BY <1>1, <1>2

-----------------------------------------------------------------------------

(* The end of the process ends every call that has not returned. *)
LEMMA RestartKeepsSendInv ==
    ASSUME SendInv, Restart
    PROVE  SendInv'
  <1>1. /\ SendTypeOK /\ Jobs = Sends /\ queue' = <<>>
        /\ send' = [i \in Jobs |-> IF send[i] \in Pending THEN "cancelled" ELSE send[i]]
        /\ attempt' = attempt /\ copies' = copies
    BY WebhookAssumption DEF SendInv, Restart
  <1>2. Holders' = {} /\ Waiters' = {}
    BY <1>1 DEF Holders, Waiters, Pending, Holding
  <1>3. /\ IsFiniteSet(Holders') /\ Cardinality(Holders') = 0
        /\ ToSet(queue') = {} /\ IsInjective(queue')
    BY <1>1, <1>2, FS_EmptySet DEF ToSet, IsInjective
  <1>4. SendTypeOK'
    BY <1>1 DEF SendTypeOK, Pending, Holding, Returned
  <1>5. \A i \in Sends : Counts(i)'
    BY <1>1 DEF SendInv, SendTypeOK, Counts, Pending, Holding
  <1> QED
    BY <1>1, <1>2, <1>3, <1>4, <1>5, SendAssumption DEF SendInv, PermitsKept, Waiters

\* WebhookTypeOK, and what it leaves out: the calls' own invariant, each id is
\* once in the cache, and a job that has begun handles a real event.
WebhookInv ==
    /\ SendInv
    /\ CacheInv(cache)
    /\ job \in [Jobs -> {"free", "ready", "ignored", "silent", "raised",
                         "fetching", "sending", "lost"}]
    /\ event \in [Jobs -> Events \cup {NoEvent}]
    /\ \A i \in Jobs : job[i] # "free" => event[i] \in Events
    /\ context \in [Jobs -> {"none", "found", "missing"}]
    /\ arrived \in {0} \cup Jobs
    /\ restarts \in 0..MaxRestarts
    /\ channel \in Channels

LEMMA WebhookInvInit == WebhookInit => WebhookInv
  <1> SUFFICES ASSUME WebhookInit
               PROVE  WebhookInv
    OBVIOUS
  <1>1. SendInv
    BY SendInvInit DEF WebhookInit
  <1>2. CacheInv(cache)
    BY MaxSizeAssumption DEF WebhookInit, CacheInit, CacheInv, IsInjective
  <1> QED
    BY <1>1, <1>2, WebhookAssumption DEF WebhookInit, WebhookInv

(* What Meta delivers is an event. *)
LEMMA DeliveredAreEvents ==
    ASSUME WebhookInv, NEW e \in CustomerEvents \cup EchoEvents
    PROVE  e \in Events
  <1>1. Seen \subseteq Ids
    <2> SUFFICES ASSUME NEW j \in Jobs, NEW k \in 1..copies[j]
                 PROVE  Out(j, k) \in Ids
      BY DEF Seen
    <2>1. k \in 1..Retries
      BY SendAssumption, WebhookAssumption DEF WebhookInv, SendInv, SendTypeOK
    <2> QED
      BY <2>1, WebhookAssumption
  <1>2. ASSUME NEW m \in Msgs
        PROVE  In(m) \in Ids /\ Quotable(m) \subseteq Ids \cup {NoId}
    BY <1>1, WebhookAssumption DEF Quotable
  <1>3. CASE e \in CustomerEvents
    <2>1. PICK m \in Msgs : e \in [id : {In(m)}, kind : Kinds, quotes : Quotable(m)]
      BY <1>3 DEF CustomerEvents
    <2> QED
      BY <1>2, <2>1 DEF Events
  <1>4. CASE e \in EchoEvents
    BY <1>1, <1>4 DEF EchoEvents, Events
  <1> QED
    BY <1>3, <1>4

LEMMA SameSendInv == SendInv /\ UNCHANGED sendVars => SendInv'
  BY SendInvStep

(* The start of a reply: the job leaves the reach of a second one. *)
Replied == {"silent", "raised", "sending"}

LEMMA ReplyKeeps ==
    ASSUME WebhookInv, NEW i \in Jobs, Reply(i)
    PROVE  /\ SendInv'
           /\ \E s \in Replied : job' = [job EXCEPT ![i] = s]
           /\ copies' = copies /\ \A j \in Jobs : send'[j] = "sent" => send[j] = "sent"
  <1>1. SendInv /\ SendTypeOK /\ i \in Sends /\ Jobs = Sends
    BY WebhookAssumption DEF WebhookInv, SendInv
  <1>2. CASE UNCHANGED sendVars
    BY <1>1, <1>2, SameSendInv DEF Reply, Replied, sendVars, Call, CallNow, CallAndWait
  <1>3. CASE Call(i) /\ job' = [job EXCEPT ![i] = "sending"]
    <2>1. SendInv'
      BY <1>1, <1>3, CallKeepsSendInv
    <2>2. copies' = copies /\ \A j \in Jobs : send'[j] = "sent" => send[j] = "sent"
      BY <1>1, <1>3 DEF SendTypeOK, Call, CallNow, CallAndWait
    <2> QED
      BY <1>3, <2>1, <2>2 DEF Replied
  <1> QED
    BY <1>2, <1>3 DEF Reply

(* A step of a call: no other call returns from it, and it returns from a copy. *)
LEMMA StepKeeps ==
    ASSUME SendInv, NEW i \in Sends, SendStep(i)
    PROVE  /\ SendInv'
           /\ \A j \in Sends \ {i} :
                 send'[j] = "sent" => send[j] = "sent" /\ copies'[j] = copies[j]
           /\ send'[i] = "sent" => copies' = copies /\ copies[i] \in 1..Retries
  <1>1. SendInv'
    BY PostKeepsSendInv DEF SendStep
  <1>2. SendTypeOK /\ queue \in Seq(Sends)
    BY DEF SendInv, SendTypeOK
  <1>3. ASSUME NEW outcome, Leave(i, outcome), NEW j \in Sends \ {i}
        PROVE  send'[j] = "sent" => send[j] = "sent"
    BY <1>2, <1>3 DEF Leave, SendTypeOK
  <1>4. ASSUME NEW j \in Sends \ {i}
        PROVE  (send'[j] = "sent" => send[j] = "sent") /\ copies'[j] = copies[j]
    BY <1>2, <1>3 DEF SendStep, Accepted, PostOk, PostFails, Wake, SendTypeOK
  <1>5. ASSUME send'[i] = "sent"
        PROVE  copies' = copies /\ copies[i] \in 1..Retries
    <2>1. copies' = copies
      BY <1>2, <1>5 DEF SendStep, Accepted, PostOk, PostFails, Wake, SendTypeOK
    <2>2. copies'[i] > 0 /\ copies'[i] \in 0..Retries
      BY <1>1, <1>5 DEF SendInv, SendTypeOK, Counts
    <2> QED
      BY <2>1, <2>2, SendAssumption
  <1> QED
    BY <1>1, <1>4, <1>5

LEMMA WebhookInvStep == WebhookInv /\ [WebhookNext]_webhookVars => WebhookInv'
  <1> SUFFICES ASSUME WebhookInv, [WebhookNext]_webhookVars
               PROVE  WebhookInv'
    OBVIOUS
  <1> USE WebhookAssumption
  <1>1. ASSUME NEW i \in Jobs, job[i] # "free", ~Contains(cache, event[i].id)
        PROVE  CacheInv(Marked(i))
    BY <1>1, InsertKeepsCacheInv DEF WebhookInv, Marked, Events
  <1>2. ASSUME NEW e \in CustomerEvents \cup EchoEvents, Deliver(e)
        PROVE  WebhookInv'
    BY <1>2, DeliveredAreEvents, SameSendInv DEF WebhookInv, Deliver
  <1>3. ASSUME NEW i \in Jobs, Echo(i)
        PROVE  WebhookInv'
    <2>1. CacheInv(cache') /\ SendInv'
      BY <1>1, <1>3, SameSendInv DEF Echo, Marked, WebhookInv
    <2> QED
      BY <1>3, <2>1 DEF WebhookInv, Echo
  <1>4. ASSUME NEW i \in Jobs, Duplicate(i)
        PROVE  WebhookInv'
    BY <1>4, SameSendInv DEF WebhookInv, Duplicate
  <1>5. ASSUME NEW i \in Jobs, Answer(i)
        PROVE  WebhookInv'
    <2>1. job[i] # "free" /\ ~Contains(cache, event[i].id) /\ Reply(i)
      BY <1>5 DEF Answer, New
    <2>2. CacheInv(cache')
      BY <1>1, <1>5, <2>1, GetKeepsCache DEF Answer
    <2>3. SendInv' /\ \E s \in Replied : job' = [job EXCEPT ![i] = s]
      BY <2>1, ReplyKeeps
    <2>4. context' \in [Jobs -> {"none", "found", "missing"}]
      BY <1>5 DEF Answer, WebhookInv
    <2> QED
      BY <1>5, <2>1, <2>2, <2>3, <2>4 DEF WebhookInv, Answer, Replied
  <1>6. ASSUME NEW i \in Jobs, Fetch(i)
        PROVE  WebhookInv'
    <2>1. CacheInv(cache') /\ SendInv'
      BY <1>1, <1>6, SameSendInv DEF Fetch, New, WebhookInv
    <2> QED
      BY <1>6, <2>1 DEF WebhookInv, Fetch, New
  <1>7. ASSUME NEW i \in Jobs, Fetched(i)
        PROVE  WebhookInv'
    <2>1. SendInv' /\ \E s \in Replied : job' = [job EXCEPT ![i] = s]
      BY <1>7, ReplyKeeps DEF Fetched
    <2> QED
      BY <1>7, <2>1 DEF WebhookInv, Fetched, Replied
  <1>8. ASSUME NEW i \in Jobs, Send(i)
        PROVE  WebhookInv'
    <2>1. SendInv'
      BY <1>8, StepKeeps DEF WebhookInv, Send
    <2>2. CacheInv(cache')
      <3>1. send'[i] = "sent" => SentId(i) \in Ids
        BY <1>8, StepKeeps DEF WebhookInv, Send, SentId
      <3> QED
        BY <1>8, <3>1, InsertKeepsCacheInv DEF WebhookInv, Send
    <2> QED
      BY <1>8, <2>1, <2>2 DEF WebhookInv, Send, jobVars
  <1>9. CASE Restart
    <2>1. SendInv'
      BY <1>9, RestartKeepsSendInv DEF WebhookInv
    <2>2. CacheInv(cache')
      BY <1>9, MaxSizeAssumption DEF Restart, CacheInv, IsInjective
    <2> QED
      BY <1>9, <2>1, <2>2 DEF WebhookInv, Restart, Unfinished
  <1>10. CASE UNCHANGED webhookVars
    <2>1. SendInv'
      BY <1>10, SameSendInv DEF WebhookInv, webhookVars
    <2> QED
      BY <1>10, <2>1 DEF WebhookInv, webhookVars, jobVars
  <1> QED
    BY <1>2, <1>3, <1>4, <1>5, <1>6, <1>7, <1>8, <1>9, <1>10 DEF WebhookNext, Handle

LEMMA WebhookInvHolds == WebhookSpec => []WebhookInv
  BY WebhookInvInit, WebhookInvStep, PTL DEF WebhookSpec

(* Types of the handlers' variables; the cache never holds more than it may. *)
THEOREM WebhookTypeCorrect == WebhookSpec => []WebhookTypeOK
  <1>1. WebhookInv => WebhookTypeOK
    BY DEF WebhookInv, WebhookTypeOK, SendInv, CacheInv
  <1> QED
    BY <1>1, WebhookInvHolds, PTL

(* No permit is lost and none is invented, also when the process ends in the   *)
(* middle of calls.                                                            *)
THEOREM WebhookPermitsKept == WebhookSpec => []PermitsKept
  <1>1. WebhookInv => PermitsKept
    BY DEF WebhookInv, SendInv
  <1> QED
    BY <1>1, WebhookInvHolds, PTL

-----------------------------------------------------------------------------

\* The cache has room for every id there is, so it never forgets one.
Room == IsFiniteSet(Ids) /\ Cardinality(Ids) <= MaxSize

LEMMA CacheCounts ==
    ASSUME NEW c, CacheInv(c)
    PROVE  IsFiniteSet(ToSet(c)) /\ Cardinality(ToSet(c)) = Len(c) /\ ToSet(c) \subseteq Ids
  <1>1. c \in Seq(Ids) /\ DOMAIN c = 1..Len(c) /\ Len(c) \in Nat /\ IsInjective(c)
    BY DEF CacheInv
  <1>2. /\ c \in [1..Len(c) -> ToSet(c)]
        /\ \A t \in ToSet(c) : \E s \in 1..Len(c) : c[s] = t
        /\ ToSet(c) \subseteq Ids
    BY <1>1 DEF ToSet
  <1>3. ExistsBijection(1..Len(c), ToSet(c))
    BY <1>1, <1>2 DEF ExistsBijection, Bijection, Injection, Surjection
  <1>4. IsFiniteSet(1..Len(c)) /\ Cardinality(1..Len(c)) = Len(c)
    BY <1>1, FS_Interval
  <1> QED
    BY <1>2, <1>3, <1>4, FS_Bijection

(* With room, a new id takes nobody's place. *)
LEMMA InsertForgetsNone ==
    ASSUME Room, NEW c, CacheInv(c), NEW k \in Ids, ~Contains(c, k)
    PROVE  CacheInv(Insert(c, k)) /\ ToSet(Insert(c, k)) = ToSet(c) \cup {k}
  <1>1. c \in Seq(Ids) /\ IsInjective(c) /\ Len(c) \in Nat /\ MaxSize \in Nat
    BY MaxSizeAssumption DEF CacheInv
  <1>2. k \notin ToSet(c)
    BY <1>1, ContainsIsMember
  <1>3. /\ IsFiniteSet(ToSet(c)) /\ Cardinality(ToSet(c)) = Len(c)
        /\ ToSet(c) \subseteq Ids /\ ToSet(c) # Ids
    BY <1>2, CacheCounts
  <1>4. /\ Cardinality(ToSet(c)) <= Cardinality(Ids)
        /\ Cardinality(Ids) # Cardinality(ToSet(c))
        /\ Cardinality(Ids) \in Nat
    BY <1>3, FS_Subset, FS_CardinalityType DEF Room
  <1>5. ~(Len(c) >= MaxSize)
    BY <1>1, <1>3, <1>4 DEF Room
  <1>6. Insert(c, k) = Append(c, k)
    BY <1>5 DEF Insert
  <1>7. ToSet(Append(c, k)) = ToSet(c) \cup {k}
    BY <1>1, <1>2, QueueAppend
  <1> QED
    BY <1>6, <1>7, InsertKeepsCacheInv

\* Jobs take a message as new once in each life of the process, and then it is in
\* the cache; and without a restart the cache holds every id the process knows.
MemoryInv ==
    /\ \A m \in Msgs :
          /\ IsFiniteSet(Takers(m))
          /\ Cardinality(Takers(m)) <= restarts + IF In(m) \in ToSet(cache) THEN 1 ELSE 0
    /\ restarts = 0 => Known \subseteq ToSet(cache)

(* Steps in which no job takes a message and the process meets no id. *)
LEMMA NothingTaken ==
    ASSUME WebhookInv, MemoryInv, restarts' = restarts,
           ToSet(cache) \subseteq ToSet(cache'),
           \A m \in Msgs : Takers(m)' \subseteq Takers(m),
           Known' \subseteq Known \cup ToSet(cache')
    PROVE  MemoryInv'
  <1> SUFFICES ASSUME NEW m \in Msgs
               PROVE  /\ IsFiniteSet(Takers(m)')
                      /\ Cardinality(Takers(m)') <=
                            restarts' + IF In(m) \in ToSet(cache') THEN 1 ELSE 0
    BY DEF MemoryInv
  <1>1. restarts \in Nat
    BY WebhookAssumption DEF WebhookInv
  <1>2. /\ IsFiniteSet(Takers(m)') /\ Cardinality(Takers(m)') \in Nat
        /\ Cardinality(Takers(m)) \in Nat
        /\ Cardinality(Takers(m)') <= Cardinality(Takers(m))
    BY FS_Subset, FS_CardinalityType DEF MemoryInv
  <1>3. Cardinality(Takers(m)) <= restarts + IF In(m) \in ToSet(cache) THEN 1 ELSE 0
    BY DEF MemoryInv
  <1> QED
    BY <1>1, <1>2, <1>3

(* A job takes a message that was not in the cache. *)
LEMMA OneTakes ==
    ASSUME WebhookInv, MemoryInv, restarts' = restarts, NEW i \in Jobs,
           event[i].id \notin ToSet(cache),
           ToSet(cache') = ToSet(cache) \cup {event[i].id},
           \A m \in Msgs : Takers(m)' \subseteq IF event[i].id = In(m) THEN Takers(m) \cup {i}
                                                                       ELSE Takers(m),
           Known' \subseteq Known \cup ToSet(cache')
    PROVE  MemoryInv'
  <1> SUFFICES ASSUME NEW m \in Msgs
               PROVE  /\ IsFiniteSet(Takers(m)')
                      /\ Cardinality(Takers(m)') <=
                            restarts' + IF In(m) \in ToSet(cache') THEN 1 ELSE 0
    BY DEF MemoryInv
  <1>1. /\ restarts \in Nat /\ IsFiniteSet(Takers(m)) /\ Cardinality(Takers(m)) \in Nat
        /\ Cardinality(Takers(m)) <= restarts + IF In(m) \in ToSet(cache) THEN 1 ELSE 0
    BY WebhookAssumption, FS_CardinalityType DEF WebhookInv, MemoryInv
  <1>2. CASE event[i].id # In(m)
    <2>1. Takers(m)' \subseteq Takers(m)
      BY <1>2
    <2>2. /\ IsFiniteSet(Takers(m)') /\ Cardinality(Takers(m)') \in Nat
          /\ Cardinality(Takers(m)') <= Cardinality(Takers(m))
      BY <1>1, <2>1, FS_Subset, FS_CardinalityType
    <2>3. In(m) \in ToSet(cache') <=> In(m) \in ToSet(cache)
      BY <1>2
    <2> QED
      BY <1>1, <2>2, <2>3
  <1>3. CASE event[i].id = In(m)
    <2>1. Takers(m)' \subseteq Takers(m) \cup {i}
      BY <1>3
    <2>2. /\ IsFiniteSet(Takers(m) \cup {i}) /\ Cardinality(Takers(m) \cup {i}) \in Nat
          /\ Cardinality(Takers(m) \cup {i}) <= Cardinality(Takers(m)) + 1
      <3>1. /\ IsFiniteSet(Takers(m) \cup {i})
            /\ Cardinality(Takers(m) \cup {i}) = IF i \in Takers(m) THEN Cardinality(Takers(m))
                                                 ELSE Cardinality(Takers(m)) + 1
        BY <1>1, FS_AddElement
      <3> QED
        BY <1>1, <3>1, FS_CardinalityType
    <2>3. /\ IsFiniteSet(Takers(m)') /\ Cardinality(Takers(m)') \in Nat
          /\ Cardinality(Takers(m)') <= Cardinality(Takers(m) \cup {i})
      BY <2>1, <2>2, FS_Subset, FS_CardinalityType
    <2>4. Cardinality(Takers(m)) <= restarts
      BY <1>1, <1>3
    <2>5. In(m) \in ToSet(cache')
      BY <1>3
    <2> QED
      BY <1>1, <2>2, <2>3, <2>4, <2>5
  <1> QED
    BY <1>2, <1>3

LEMMA MemoryInvInit == WebhookInit => MemoryInv
  <1> SUFFICES ASSUME WebhookInit
               PROVE  MemoryInv
    OBVIOUS
  <1>1. \A m \in Msgs : Takers(m) = {}
    BY DEF WebhookInit, Takers
  <1>2. Known = {} /\ restarts = 0
    BY WebhookAssumption DEF WebhookInit, SendInit, Known, Handled
  <1> QED
    BY <1>1, <1>2, FS_EmptySet DEF MemoryInv

LEMMA MemoryInvStep ==
    ASSUME Room, WebhookInv, MemoryInv, [WebhookNext]_webhookVars
    PROVE  MemoryInv'
  <1> USE WebhookAssumption
  <1>1. cache \in Seq(Ids) /\ CacheInv(cache)
    BY DEF WebhookInv, CacheInv
  <1>2. \A k : Contains(cache, k) <=> k \in ToSet(cache)
    BY <1>1, ContainsIsMember
  <1>3. ASSUME NEW i \in Jobs, New(i)
        PROVE  /\ event[i].id \in Ids /\ event[i].id \notin ToSet(cache)
               /\ CacheInv(Marked(i))
               /\ ToSet(Marked(i)) = ToSet(cache) \cup {event[i].id}
    BY <1>1, <1>2, <1>3, InsertForgetsNone DEF New, Marked, WebhookInv, Events
  <1>4. ASSUME NEW e, Deliver(e)
        PROVE  MemoryInv'
    <2>1. \A m \in Msgs : Takers(m)' \subseteq Takers(m)
      BY <1>4 DEF Deliver, Takers, WebhookInv
    <2>2. Known' \subseteq Known
      BY <1>4 DEF Deliver, Known, Handled, SentId, WebhookInv, sendVars
    <2> QED
      BY <1>4, <2>1, <2>2, NothingTaken DEF Deliver
  <1>5. ASSUME NEW i \in Jobs, Echo(i) \/ Duplicate(i)
        PROVE  MemoryInv'
    <2>1. /\ job' = [job EXCEPT ![i] = "ignored"]
          /\ UNCHANGED <<sendVars, event, restarts, channel>>
      BY <1>5 DEF Echo, Duplicate
    <2>2. ToSet(cache') = ToSet(cache) \cup {event[i].id}
      <3>1. event[i].id \in Ids
        BY <1>5 DEF Echo, Duplicate, WebhookInv, Events
      <3>2. CASE Contains(cache, event[i].id)
        BY <1>2, <1>5, <3>2 DEF Echo, Duplicate
      <3>3. CASE ~Contains(cache, event[i].id)
        BY <1>1, <1>5, <3>1, <3>3, InsertForgetsNone DEF Echo, Duplicate
      <3> QED
        BY <3>2, <3>3
    <2>3. \A m \in Msgs : Takers(m)' \subseteq Takers(m)
      BY <2>1 DEF Takers, WebhookInv
    <2>4. Known' \subseteq Known \cup {event[i].id}
      BY <2>1 DEF Known, Handled, SentId, WebhookInv, sendVars
    <2> QED
      BY <2>1, <2>2, <2>3, <2>4, NothingTaken
  <1>6. ASSUME NEW i \in Jobs, Answer(i) \/ Fetch(i)
        PROVE  MemoryInv'
    <2>1. PICK s \in Replied \cup {"fetching"} : job' = [job EXCEPT ![i] = s]
      BY <1>6, ReplyKeeps DEF Answer, Fetch
    <2>2. New(i) /\ UNCHANGED <<event, restarts, channel>>
      BY <1>6 DEF Answer, Fetch
    <2>3. copies' = copies /\ \A j \in Jobs : send'[j] = "sent" => send[j] = "sent"
      BY <1>6, ReplyKeeps DEF Answer, Fetch, sendVars
    <2>4. ToSet(cache') = ToSet(cache) \cup {event[i].id}
      BY <1>3, <1>6, <2>2, GetKeepsCache DEF Answer, Fetch
    <2>5. ASSUME NEW m \in Msgs
          PROVE  Takers(m)' \subseteq IF event[i].id = In(m) THEN Takers(m) \cup {i}
                                                            ELSE Takers(m)
      BY <2>1, <2>2 DEF Takers, WebhookInv
    <2>6. Known' \subseteq Known \cup {event[i].id}
      BY <2>1, <2>2, <2>3 DEF Known, Handled, SentId, WebhookInv
    <2> QED
      BY <1>3, <2>2, <2>4, <2>5, <2>6, OneTakes
  <1>7. ASSUME NEW i \in Jobs, Fetched(i)
        PROVE  MemoryInv'
    <2>1. PICK s \in Replied : job' = [job EXCEPT ![i] = s]
      BY <1>7, ReplyKeeps DEF Fetched
    <2>2. job[i] = "fetching" /\ UNCHANGED <<cache, event, restarts, channel>>
      BY <1>7 DEF Fetched
    <2>3. copies' = copies /\ \A j \in Jobs : send'[j] = "sent" => send[j] = "sent"
      BY <1>7, ReplyKeeps DEF Fetched
    <2>4. \A m \in Msgs : Takers(m)' \subseteq Takers(m)
      BY <2>1, <2>2 DEF Takers, WebhookInv
    <2>5. Known' \subseteq Known
      BY <2>1, <2>2, <2>3 DEF Known, Handled, SentId, WebhookInv
    <2> QED
      BY <2>2, <2>4, <2>5, NothingTaken
  <1>8. ASSUME NEW i \in Jobs, Send(i)
        PROVE  MemoryInv'
    <2>1. /\ \A j \in Jobs \ {i} :
                send'[j] = "sent" => send[j] = "sent" /\ SentId(j)' = SentId(j)
          /\ send'[i] = "sent" => SentId(i)' = SentId(i) /\ SentId(i) \in Ids
      BY <1>8, StepKeeps DEF Send, WebhookInv, SentId
    <2>2. UNCHANGED <<job, event, restarts, channel>>
      BY <1>8 DEF Send, jobVars
    <2>3. /\ ToSet(cache) \subseteq ToSet(cache')
          /\ send'[i] = "sent" /\ channel = "whatsapp" => SentId(i)' \in ToSet(cache')
      BY <1>1, <1>2, <1>8, <2>1, InsertForgetsNone DEF Send
    <2>4. \A m \in Msgs : Takers(m)' \subseteq Takers(m)
      BY <2>2 DEF Takers
    <2>5. Known' \subseteq Known \cup ToSet(cache')
      BY <2>1, <2>2, <2>3 DEF Known, Handled
    <2> QED
      BY <2>2, <2>3, <2>4, <2>5, NothingTaken
  <1>9. CASE Restart
    <2>1. restarts \in Nat /\ restarts' = restarts + 1
      BY <1>9 DEF Restart, WebhookInv
    <2>2. \A m \in Msgs : Takers(m)' \subseteq Takers(m)
      BY <1>9 DEF Restart, Takers, Unfinished
    <2>3. ASSUME NEW m \in Msgs
          PROVE  /\ IsFiniteSet(Takers(m)')
                 /\ Cardinality(Takers(m)') <=
                       restarts' + IF In(m) \in ToSet(cache') THEN 1 ELSE 0
      <3>1. /\ IsFiniteSet(Takers(m)') /\ Cardinality(Takers(m)') \in Nat
            /\ Cardinality(Takers(m)) \in Nat
            /\ Cardinality(Takers(m)') <= Cardinality(Takers(m))
        BY <2>2, FS_Subset, FS_CardinalityType DEF MemoryInv
      <3>2. Cardinality(Takers(m)) <= restarts + IF In(m) \in ToSet(cache) THEN 1 ELSE 0
        BY DEF MemoryInv
      <3> QED
        BY <2>1, <3>1, <3>2
    <2> QED
      BY <2>1, <2>3 DEF MemoryInv
  <1>10. CASE UNCHANGED webhookVars
    <2>1. UNCHANGED <<cache, send, copies, channel, job, event, restarts>>
      BY <1>10 DEF webhookVars, jobVars, sendVars
    <2> QED
      BY <2>1 DEF MemoryInv, Known, Handled, SentId, Takers
  <1> QED
    BY <1>4, <1>5, <1>6, <1>7, <1>8, <1>9, <1>10 DEF WebhookNext, Handle

LEMMA MemoryInvHolds ==
    ASSUME Room
    PROVE  WebhookSpec => []MemoryInv
  <1>1. WebhookInv /\ MemoryInv /\ [WebhookNext]_webhookVars => MemoryInv'
    BY MemoryInvStep
  <1> QED
    BY <1>1, MemoryInvInit, WebhookInvHolds, PTL DEF WebhookSpec

(* However often and in whatever order Meta delivers a message, each life of   *)
(* the process takes it as new at most once, if the cache has room for all ids.*)
THEOREM TakenOnceHolds ==
    ASSUME Room
    PROVE  WebhookSpec => []TakenOnce
  <1>1. WebhookInv /\ MemoryInv => TakenOnce
    <2> SUFFICES ASSUME WebhookInv, MemoryInv, NEW m \in Msgs
                 PROVE  Cardinality(Takers(m)) <= 1 + restarts
      BY DEF TakenOnce
    <2>1. restarts \in Nat /\ IsFiniteSet(Takers(m)) /\ Cardinality(Takers(m)) \in Nat
      BY WebhookAssumption, FS_CardinalityType DEF WebhookInv, MemoryInv
    <2> QED
      BY <2>1 DEF MemoryInv
  <1> QED
    BY <1>1, WebhookInvHolds, MemoryInvHolds, PTL

(* A customer who quotes a message whose id this process knows, which may not  *)
(* be that of every copy of a reply, gets an answer that knows its text, if    *)
(* there was no restart and the cache has room for all ids.                    *)
THEOREM QuotesAreFoundHolds ==
    ASSUME Room
    PROVE  WebhookSpec => QuotesAreFound
  <1> DEFINE Found ==
          \A i \in Jobs :
             /\ restarts = 0
             /\ job[i] = "ready" /\ job'[i] \in {"silent", "raised", "fetching", "sending"}
             /\ event[i].quotes \in Known
             => context'[i] = "found"
  <1>1. WebhookInv /\ MemoryInv /\ [WebhookNext]_webhookVars => Found
    <2> SUFFICES ASSUME WebhookInv, MemoryInv, [WebhookNext]_webhookVars, NEW i \in Jobs,
                        restarts = 0, job[i] = "ready",
                        job'[i] \in {"silent", "raised", "fetching", "sending"},
                        event[i].quotes \in Known
                 PROVE  context'[i] = "found"
      OBVIOUS
    <2> USE WebhookAssumption
    <2>1. cache \in Seq(Ids) /\ CacheInv(cache)
      BY DEF WebhookInv, CacheInv
    <2>2. event[i].quotes \in ToSet(cache) /\ event[i].quotes \in Ids
      <3>1. Known \subseteq ToSet(cache)
        BY DEF MemoryInv
      <3> QED
        BY <2>1, <3>1, CacheCounts
    <2>3. event[i].quotes # NoId
      BY <2>2 DEF NoId, In, Out
    <2>4. New(i) => Contains(Marked(i), event[i].quotes)
      <3> SUFFICES ASSUME New(i)
                   PROVE  Contains(Marked(i), event[i].quotes)
        OBVIOUS
      <3>1. event[i].id \in Ids /\ ~Contains(cache, event[i].id)
        BY DEF New, WebhookInv, Events
      <3>2. CacheInv(Marked(i)) /\ ToSet(Marked(i)) = ToSet(cache) \cup {event[i].id}
        BY <2>1, <3>1, InsertForgetsNone DEF Marked
      <3> QED
        BY <2>2, <3>2, ContainsIsMember DEF CacheInv
    <2>5. CASE Answer(i)
      BY <2>3, <2>4, <2>5 DEF Answer, WebhookInv
    <2>6. ~Fetch(i) /\ ~Fetched(i)
      BY <2>4 DEF Fetch, Fetched
    <2>7. job' = job \/ (\E e : Deliver(e)) \/ Restart \/ \E j \in Jobs : Handle(j)
      BY DEF WebhookNext, webhookVars, jobVars
    <2>8. ASSUME NEW e, Deliver(e)
          PROVE  FALSE
      BY <2>8 DEF Deliver, WebhookInv
    <2>9. ~Restart
      BY DEF Restart, WebhookInv, Unfinished
    <2>10. ASSUME NEW j \in Jobs, Handle(j), j # i
           PROVE  FALSE
      <3>1. job'[i] = job[i]
        BY <2>10, ReplyKeeps DEF Handle, Echo, Duplicate, Answer, Fetch, Fetched, Send,
                                 jobVars, WebhookInv
      <3> QED
        BY <3>1
    <2>11. ~Echo(i) /\ ~Duplicate(i) /\ ~Send(i)
      BY DEF Echo, Duplicate, Send, jobVars, WebhookInv
    <2> QED
      BY <2>5, <2>6, <2>7, <2>8, <2>9, <2>10, <2>11 DEF Handle
  <1>2. WebhookSpec => [][Found]_webhookVars
    BY <1>1, WebhookInvHolds, MemoryInvHolds, PTL DEF WebhookSpec
  <1> QED
    BY <1>2 DEF QuotesAreFound
=============================================================================
