------------------------- MODULE LazyClient_proofs -------------------------
(***************************************************************************)
(* Proofs about LazyClient, for any set of threads, finite or not.         *)
(***************************************************************************)
EXTENDS LazyClient, TLAPS

\* The lock is held exactly by the thread inside, and what that thread has read
\* there stays true until it leaves.
LazyInv ==
    /\ LazyTypeOK
    /\ \A t \in Threads : at[t] \in Inside <=> lock = t
    /\ client = made /\ made <= 1
    /\ \A t \in Threads :
          /\ at[t] = "construct" => client = None
          /\ at[t] \in {"leave", "return"} => client = 1
          /\ got[t] \in {None, 1}

LEMMA LazyInvInit == LazyInit => LazyInv
  BY ThreadsAssumption DEF LazyInit, LazyInv, LazyTypeOK, Calling, Inside, None

LEMMA LazyInvStep == LazyInv /\ [LazyNext]_lazyVars => LazyInv'
  <1> SUFFICES ASSUME LazyInv, [LazyNext]_lazyVars
               PROVE  LazyInv'
    OBVIOUS
  <1> USE ThreadsAssumption DEF LazyInv, LazyTypeOK, Calling, Inside, None, GoTo
  <1>1. CASE UNCHANGED lazyVars
    BY <1>1 DEF lazyVars
  <1>2. ASSUME NEW t \in Threads, Called(t)
        PROVE  LazyInv'
    BY <1>2 DEF Called
  <1>3. ASSUME NEW t \in Threads, FirstTest(t)
        PROVE  LazyInv'
    BY <1>3 DEF FirstTest
  <1>4. ASSUME NEW t \in Threads, Acquire(t)
        PROVE  LazyInv'
    BY <1>4 DEF Acquire
  <1>5. ASSUME NEW t \in Threads, SecondTest(t)
        PROVE  LazyInv'
    BY <1>5 DEF SecondTest, AfterCheck
  \* No other thread is inside, so nobody else has read that there is no client.
  <1>6. ASSUME NEW t \in Threads, Construct(t)
        PROVE  LazyInv'
    BY <1>6 DEF Construct
  <1>7. ASSUME NEW t \in Threads, ConstructFails(t)
        PROVE  LazyInv'
    BY <1>7 DEF ConstructFails, Release
  <1>8. ASSUME NEW t \in Threads, Leave(t)
        PROVE  LazyInv'
    BY <1>8 DEF Leave, Release
  <1>9. ASSUME NEW t \in Threads, Return(t)
        PROVE  LazyInv'
    BY <1>9 DEF Return
  <1> QED
    BY <1>1, <1>2, <1>3, <1>4, <1>5, <1>6, <1>7, <1>8, <1>9 DEF LazyNext, LazyStep

(* "creating it once under a lock" (clients.py, lines 37-110): whatever the    *)
(* number of threads, at most one client is constructed and every call that    *)
(* returns returns it.                                                         *)
THEOREM OneClientHolds == LazySpec => []OneClient
  <1>1. LazyInv => OneClient
    BY DEF LazyInv, LazyTypeOK, OneClient
  <1> QED
    BY <1>1, LazyInvInit, LazyInvStep, PTL DEF LazySpec
=============================================================================
