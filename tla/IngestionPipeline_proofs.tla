---------------------- MODULE IngestionPipeline_proofs ----------------------
(***************************************************************************)
(* Proofs about IngestionPipeline, for every number of documents, runs,    *)
(* workers, chunks and attempts.                                           *)
(***************************************************************************)
EXTENDS IngestionPipeline, FiniteSetTheorems, TLAPS

\* What the collection can hold for g, as far as the run of g has counted.
Contents(g) ==
    /\ store[g] \subseteq 0 .. (size[g] - 1)
    /\ store[g] \subseteq 0 .. (MaxChunks - 1)
    /\ pc[g] \in {"pull", "embed"} => store[g] \subseteq 0 .. (stored[g] - 1)
    /\ pc[g] = "upsert" => store[g] \subseteq 0 .. (stored[g] + BatchLen(g) - 1)
    /\ pc[g] = "failed" => store[g] \subseteq 0 .. (BatchSize - 1)
    /\ pc[g] = "rolled_back" => store[g] = {}

\* What is known of the local variables of the run of g.
Counters(g) ==
    /\ stored[g] <= size[g]
    /\ stored[g] <= MaxChunks
    /\ pc[g] \in {"embed", "upsert"} => stored[g] < size[g] /\ FitsLimit(g)
    /\ pc[g] = "commit" => stored[g] = size[g] /\ size[g] > 0

\* A generation that has not been drawn yet.
Untouched(g) ==
    /\ pc[g] = "unused"
    /\ doc[g] = NoDoc
    /\ size[g] = 0
    /\ stored[g] = 0
    /\ store[g] = {}

\* Inductive, whatever runs at the same time.
Inv ==
    /\ TypeOK
    /\ \A g \in Gens : Contents(g) /\ Counters(g)
    /\ \A g \in Gens : g > started => Untouched(g)
    /\ \A g \in Gens : g <= started => pc[g] # "unused" /\ doc[g] \in Docs

\* Where a run stands that has its document to itself.
Alone(g) ==
    /\ pc[g] \in {"pull", "embed"} => store[g] = 0 .. (stored[g] - 1)
    /\ pc[g] = "upsert" => 0 .. (stored[g] - 1) \subseteq store[g]
    /\ pc[g] = "commit" => Complete(g)

\* Inductive as long as no two runs work on the same document.
SerialInv ==
    /\ \A g \in Gens : Alone(g)
    /\ \A g, h \in Gens : Active(g) /\ doc[h] = doc[g] /\ h > g
                            => pc[h] = "failed" /\ store[h] = {}
    /\ LatestDoneIsTheOnlyOne

-----------------------------------------------------------------------------
(* The batch a run is writing lies within its file and, in the loop, within    *)
(* the limit (_batched and the test of line 239).                              *)
LEMMA BatchBounds ==
    ASSUME NEW g \in Gens, TypeOK, Counters(g)
    PROVE  /\ BatchLen(g) \in 0..BatchSize
           /\ stored[g] + BatchLen(g) <= size[g]
           /\ pc[g] \in {"embed", "upsert"} => stored[g] + BatchLen(g) <= MaxChunks
  BY SizesAssumption DEF TypeOK, Counters, BatchLen, FitsLimit

(* What a request can do to the collection: to other generations only delete,  *)
(* to the run's own generation at most add the current batch.                  *)
LEMMA RequestEffect ==
    ASSUME NEW g \in Gens, NEW S \in {store, Applied(g)}, Inv
    PROVE  /\ S \in [Gens -> SUBSET (0 .. (MaxFile - 1))]
           /\ \A h \in Gens \ {g} : S[h] \subseteq store[h]
           /\ pc[g] = "upsert" => S[g] \subseteq 0 .. (stored[g] + BatchLen(g) - 1)
           /\ pc[g] # "upsert" => S[g] \subseteq store[g]
  <1>1. /\ store \in [Gens -> SUBSET (0 .. (MaxFile - 1))]
        /\ stored[g] \in Nat /\ size[g] \in 0..MaxFile
        /\ pc[g] = "upsert" => store[g] \subseteq 0 .. (stored[g] + BatchLen(g) - 1)
    BY DEF Inv, TypeOK, Contents
  <1>2. BatchLen(g) \in Nat /\ stored[g] + BatchLen(g) <= size[g]
    BY BatchBounds, SizesAssumption DEF Inv
  <1>3. CASE S = store
    BY <1>1, <1>3
  <1>4. CASE S = Applied(g) /\ pc[g] = "upsert"
    <2>1. S = [store EXCEPT ![g] = @ \cup Batch(g)]
      BY <1>4 DEF Applied
    <2>2. Batch(g) \subseteq 0 .. (stored[g] + BatchLen(g) - 1)
      BY <1>1, <1>2 DEF Batch
    <2>3. Batch(g) \subseteq 0 .. (MaxFile - 1)
      BY <1>1, <1>2, SizesAssumption DEF Batch
    <2>4. S[g] = store[g] \cup Batch(g) /\ \A h \in Gens \ {g} : S[h] = store[h]
      BY <2>1, <1>1
    <2> QED
      BY <1>1, <1>4, <2>1, <2>2, <2>3, <2>4
  <1>5. CASE S = Applied(g) /\ pc[g] = "rollback"
    BY <1>1, <1>5 DEF Applied, OwnDeleted
  <1>6. CASE S = Applied(g) /\ pc[g] = "commit"
    BY <1>1, <1>6 DEF Applied, OthersDeleted
  <1>7. CASE S = Applied(g) /\ pc[g] \notin {"upsert", "rollback", "commit"}
    BY <1>1, <1>7 DEF Applied
  <1> QED
    BY <1>3, <1>4, <1>5, <1>6, <1>7

(* The invariant survives a step that leaves the jobs alone and changes the    *)
(* collection only by a request of the run g, provided that g itself is fine.  *)
LEMMA OwnStep ==
    ASSUME NEW g \in Gens, Inv, Active(g),
           NEW label \in Running \cup Settled, pc' = [pc EXCEPT ![g] = label],
           store' \in {store, Applied(g)},
           NEW n \in 0..MaxFile, stored' = [stored EXCEPT ![g] = n],
           attempt' \in [Gens -> 1..MaxAttempts],
           UNCHANGED <<jobVars, started, now>>,
           Contents(g)', Counters(g)'
    PROVE  Inv'
  <1> USE DEF jobVars
  <1>1. /\ store' \in [Gens -> SUBSET (0 .. (MaxFile - 1))]
        /\ \A h \in Gens \ {g} : store'[h] \subseteq store[h]
    BY RequestEffect
  <1>2. TypeOK'
    BY <1>1 DEF Inv, TypeOK
  <1>3. ASSUME NEW h \in Gens \ {g}
        PROVE  /\ pc'[h] = pc[h] /\ doc'[h] = doc[h] /\ size'[h] = size[h]
               /\ stored'[h] = stored[h] /\ BatchLen(h)' = BatchLen(h)
               /\ store'[h] \subseteq store[h]
    BY <1>1 DEF Inv, TypeOK, BatchLen
  <1>4. ASSUME NEW h \in Gens
        PROVE  Contents(h)' /\ Counters(h)'
    <2>1. CASE h = g
      BY <2>1
    <2>2. CASE h # g
      BY <2>2, <1>3 DEF Inv, Contents, Counters, FitsLimit
    <2> QED
      BY <2>1, <2>2
  <1>5. g <= started
    BY DEF Inv, Active, Running, Writing, Untouched, TypeOK, Gens
  <1>6. ASSUME NEW h \in Gens, h > started
        PROVE  Untouched(h)'
    BY <1>3, <1>5, <1>6, SizesAssumption DEF Inv, Untouched, TypeOK, Gens
  <1>7. ASSUME NEW h \in Gens, h <= started
        PROVE  pc'[h] # "unused" /\ doc'[h] \in Docs
    <2>1. CASE h = g
      BY <2>1, <1>7, label # "unused" DEF Inv, TypeOK, Running, Writing, Settled
    <2>2. CASE h # g
      BY <2>2, <1>3, <1>7 DEF Inv
    <2> QED
      BY <2>1, <2>2
  <1> QED
    BY <1>2, <1>4, <1>6, <1>7 DEF Inv

(* The invariant survives an exception that leaves a request: what the handler *)
(* finds is what the label it goes to may hold.                                *)
LEMMA ExceptionStep ==
    ASSUME NEW g \in Gens, Inv, pc[g] \in Running,
           RequestRaises(g), NEW label \in {Handler(g), "crashed"}, Goto(g, label),
           UNCHANGED <<jobVars, stored, started, now>>
    PROVE  Inv'
  <1>1. label \in {"rollback", "failed", "rollback_failed", "cleanup_failed", "crashed"}
    BY DEF Handler
  <1>2. pc' = [pc EXCEPT ![g] = label] /\ pc'[g] = label
    BY DEF Goto, Inv, TypeOK
  <1>3. attempt' \in [Gens -> 1..MaxAttempts]
    BY SizesAssumption DEF Goto, Inv, TypeOK
  <1>4. stored[g] \in 0..MaxFile /\ stored' = [stored EXCEPT ![g] = stored[g]]
    BY DEF Inv, TypeOK
  <1>5. Counters(g)'
    BY <1>1, <1>2 DEF jobVars, Inv, Counters
  <1>6. /\ store'[g] \in SUBSET (0 .. (MaxFile - 1))
        /\ pc[g] = "upsert" => store'[g] \subseteq 0 .. (stored[g] + BatchLen(g) - 1)
        /\ pc[g] # "upsert" => store'[g] \subseteq store[g]
    BY RequestEffect DEF RequestRaises
  <1>7. /\ BatchLen(g) \in 0..BatchSize
        /\ stored[g] + BatchLen(g) <= size[g]
        /\ pc[g] = "upsert" => stored[g] + BatchLen(g) <= MaxChunks
    BY BatchBounds DEF Inv
  <1>8. /\ store'[g] \subseteq 0 .. (size[g] - 1)
        /\ store'[g] \subseteq 0 .. (MaxChunks - 1)
    BY <1>4, <1>6, <1>7, SizesAssumption DEF Inv, TypeOK, Contents
  <1>9. ASSUME label = "failed"
        PROVE  store'[g] \subseteq 0 .. (BatchSize - 1)
    <2>1. stored[g] = 0 /\ pc[g] \in Writing
      BY <1>9 DEF Handler
    <2>2. CASE pc[g] = "upsert"
      BY <2>1, <2>2, <1>6, <1>7, SizesAssumption
    <2>3. CASE pc[g] \in {"pull", "embed"}
      BY <2>1, <2>3, <1>6 DEF Inv, Contents
    <2> QED
      BY <2>1, <2>2, <2>3 DEF Writing
  <1>10. Contents(g)'
    BY <1>1, <1>2, <1>8, <1>9 DEF jobVars, Contents
  <1>11. label \in Running \cup Settled /\ store' \in {store, Applied(g)} /\ Active(g)
    BY <1>1 DEF Running, Settled, RequestRaises, Active
  <1> QED
    BY <1>2, <1>3, <1>4, <1>5, <1>10, <1>11, OwnStep

(* Every step of every process keeps the invariant. *)
LEMMA InvStep == Inv /\ [Next]_vars => Inv'
  <1> SUFFICES ASSUME Inv, [Next]_vars
               PROVE  Inv'
    OBVIOUS
  <1> USE DEF jobVars
  <1>a. TypeOK
    BY DEF Inv
  <1>1. ASSUME NEW d \in Docs, NEW n \in 0..MaxFile, StartRun(d, n)
        PROVE  Inv'
    <2> DEFINE g == started + 1
    <2>1. g \in Gens /\ Untouched(g)
      BY <1>1, SizesAssumption DEF StartRun, Inv, TypeOK, Gens
    <2>2. TypeOK'
      <3>1. started' \in 0..MaxRuns /\ now' \in 0..MaxTime /\ attempt' = attempt
        BY <1>1, <1>a, SizesAssumption DEF StartRun, TypeOK
      <3>2. pc' \in [Gens -> {"unused"} \cup Running \cup Settled]
        BY <1>1, <1>a, <2>1 DEF StartRun, TypeOK, Running, Writing
      <3>3. doc' \in [Gens -> Docs \cup {NoDoc}] /\ size' \in [Gens -> 0..MaxFile]
        BY <1>1, <1>a, <2>1 DEF StartRun, TypeOK
      <3>4. created' \in [Gens -> 0..MaxTime]
        BY <1>1, <1>a, <2>1 DEF StartRun, TypeOK
      <3> QED
        BY <1>1, <1>a, <3>1, <3>2, <3>3, <3>4 DEF StartRun, TypeOK
    <2>3. ASSUME NEW h \in Gens
          PROVE  Contents(h)' /\ Counters(h)'
      <3>1. CASE h = g
        BY <1>1, <2>1, <3>1, SizesAssumption
        DEF StartRun, Inv, TypeOK, Contents, Counters, Untouched
      <3>2. CASE h # g
        BY <1>1, <2>1, <3>2
        DEF StartRun, Inv, TypeOK, Contents, Counters, BatchLen, FitsLimit
      <3> QED
        BY <3>1, <3>2
    <2>4. ASSUME NEW h \in Gens, h > started'
          PROVE  Untouched(h)'
      BY <1>1, <2>1, <2>4, SizesAssumption DEF StartRun, Inv, TypeOK, Untouched, Gens
    <2>5. ASSUME NEW h \in Gens, h <= started'
          PROVE  pc'[h] # "unused" /\ doc'[h] \in Docs
      BY <1>1, <2>1, <2>5, SizesAssumption DEF StartRun, Inv, TypeOK, Gens
    <2> QED
      BY <2>2, <2>3, <2>4, <2>5 DEF Inv
  <1>2. ASSUME NEW d \in Docs, RejectRun(d)
        PROVE  Inv'
    <2> DEFINE g == started + 1
    <2>1. g \in Gens /\ Untouched(g)
      BY <1>2, SizesAssumption DEF RejectRun, Inv, TypeOK, Gens
    <2>2. TypeOK'
      <3>1. started' \in 0..MaxRuns /\ now' \in 0..MaxTime /\ attempt' = attempt
        BY <1>2, <1>a, SizesAssumption DEF RejectRun, TypeOK
      <3>2. pc' \in [Gens -> {"unused"} \cup Running \cup Settled]
        BY <1>2, <1>a, <2>1 DEF RejectRun, TypeOK, Settled
      <3>3. doc' \in [Gens -> Docs \cup {NoDoc}] /\ size' \in [Gens -> 0..MaxFile]
        BY <1>2, <1>a, <2>1 DEF RejectRun, TypeOK
      <3>4. created' \in [Gens -> 0..MaxTime]
        BY <1>2, <1>a, <2>1 DEF RejectRun, TypeOK
      <3> QED
        BY <1>2, <1>a, <3>1, <3>2, <3>3, <3>4 DEF RejectRun, TypeOK
    <2>3. ASSUME NEW h \in Gens
          PROVE  Contents(h)' /\ Counters(h)'
      <3>1. CASE h = g
        BY <1>2, <2>1, <3>1, SizesAssumption
        DEF RejectRun, Inv, TypeOK, Contents, Counters, Untouched
      <3>2. CASE h # g
        BY <1>2, <2>1, <3>2
        DEF RejectRun, Inv, TypeOK, Contents, Counters, BatchLen, FitsLimit
      <3> QED
        BY <3>1, <3>2
    <2>4. ASSUME NEW h \in Gens, h > started'
          PROVE  Untouched(h)'
      BY <1>2, <2>1, <2>4, SizesAssumption DEF RejectRun, Inv, TypeOK, Untouched, Gens
    <2>5. ASSUME NEW h \in Gens, h <= started'
          PROVE  pc'[h] # "unused" /\ doc'[h] \in Docs
      BY <1>2, <2>1, <2>5, SizesAssumption DEF RejectRun, Inv, TypeOK, Gens
    <2> QED
      BY <2>2, <2>3, <2>4, <2>5 DEF Inv
  <1>3. ASSUME NEW g \in Gens, Step(g)
        PROVE  Inv'
    <2>a. /\ stored[g] \in 0..MaxFile /\ size[g] \in 0..MaxFile
          /\ store[g] \subseteq 0 .. (MaxFile - 1)
          /\ pc \in [Gens -> {"unused"} \cup Running \cup Settled]
          /\ attempt \in [Gens -> 1..MaxAttempts]
          /\ stored \in [Gens -> 0..MaxFile]
          /\ Contents(g) /\ Counters(g)
      BY DEF Inv, TypeOK
    <2>b. ASSUME NEW label, Goto(g, label)
          PROVE  /\ pc' = [pc EXCEPT ![g] = label] /\ pc'[g] = label
                 /\ attempt' \in [Gens -> 1..MaxAttempts]
      BY <2>a, <2>b, SizesAssumption DEF Goto
    <2>c. UNCHANGED stored => stored' = [stored EXCEPT ![g] = stored[g]]
      BY <2>a
    <2> DEFINE Same == UNCHANGED <<store, jobVars, stored, started, now>>
    <2>1. CASE PullBatch(g)
      <3>1. Contents(g)' /\ Counters(g)'
        BY <2>1, <2>a, <2>b DEF PullBatch, Contents, Counters, FitsLimit, BatchLen
      <3> QED
        BY <2>1, <2>a, <2>b, <2>c, <3>1, OwnStep
        DEF PullBatch, Active, Running, Writing
    <2>2. CASE RejectTooLarge(g)
      BY <2>2, ExceptionStep DEF RejectTooLarge, RequestRaises, Running, Writing
    <2>3. CASE EndOfStream(g)
      <3> DEFINE label == IF stored[g] = 0 THEN "failed" ELSE "commit"
      <3>1. Contents(g)' /\ Counters(g)'
        BY <2>3, <2>a, <2>b, SizesAssumption DEF EndOfStream, Contents, Counters
      <3> QED
        BY <2>3, <2>a, <2>b, <2>c, <3>1, OwnStep
        DEF EndOfStream, Active, Running, Writing, Settled
    <2>4. CASE EmbedOk(g)
      <3>1. Contents(g)' /\ Counters(g)'
        <4>1. BatchLen(g) \in Nat /\ UNCHANGED <<store, doc, size, stored>>
          BY <2>4, BatchBounds, SizesAssumption DEF EmbedOk, Inv
        <4>2. pc[g] = "embed" /\ pc'[g] = "upsert"
          BY <2>4, <2>b DEF EmbedOk
        <4>3. BatchLen(g)' = BatchLen(g)
          BY <4>1 DEF BatchLen
        <4>4. Contents(g)'
          BY <2>a, <4>1, <4>2, <4>3 DEF Contents
        <4>5. Counters(g)'
          BY <2>a, <4>1, <4>2, <4>3 DEF Counters, FitsLimit
        <4> QED
          BY <4>4, <4>5
      <3> QED
        BY <2>4, <2>a, <2>b, <2>c, <3>1, OwnStep
        DEF EmbedOk, Active, Running, Writing
    <2>5. CASE UpsertOk(g)
      <3> DEFINE n == stored[g] + BatchLen(g)
      <3>1. BatchLen(g) \in Nat /\ n \in 0..MaxFile /\ n <= size[g] /\ n <= MaxChunks
        BY <2>5, <2>a, BatchBounds, SizesAssumption DEF UpsertOk, Inv
      <3>2. stored' = [stored EXCEPT ![g] = n] /\ stored'[g] = n
        BY <2>5, <2>a DEF UpsertOk
      <3>3. store'[g] \subseteq 0 .. (n - 1)
        <4>1. pc[g] = "upsert" /\ store' = Applied(g)
          BY <2>5 DEF UpsertOk
        <4>2. Applied(g)[g] \subseteq 0 .. (stored[g] + BatchLen(g) - 1)
          BY <4>1, RequestEffect
        <4>3. stored[g] + BatchLen(g) - 1 = n - 1
          BY <2>a, <3>1
        <4> QED
          BY <4>1, <4>2, <4>3
      <3>4. pc'[g] = "pull" /\ size' = size
        BY <2>5, <2>b DEF UpsertOk
      <3>5. Contents(g)' /\ Counters(g)'
        BY <2>a, <3>1, <3>2, <3>3, <3>4, SizesAssumption DEF Contents, Counters
      <3> QED
        BY <2>5, <2>b, <3>1, <3>2, <3>5, OwnStep
        DEF UpsertOk, Active, Running, Writing
    <2>6. CASE CommitOk(g)
      <3>1. store'[g] \subseteq store[g]
        BY <2>6, RequestEffect DEF CommitOk
      <3>2. Contents(g)' /\ Counters(g)'
        BY <2>6, <2>a, <2>b, <3>1 DEF CommitOk, Contents, Counters
      <3> QED
        BY <2>6, <2>a, <2>b, <2>c, <3>2, OwnStep
        DEF CommitOk, Active, Running, Settled
    <2>7. CASE RollbackOk(g)
      <3>1. store'[g] = {}
        BY <2>7 DEF RollbackOk, Applied, OwnDeleted, Inv, TypeOK
      <3>2. Contents(g)' /\ Counters(g)'
        BY <2>7, <2>a, <2>b, <3>1 DEF RollbackOk, Contents, Counters
      <3> QED
        BY <2>7, <2>a, <2>b, <2>c, <3>2, OwnStep
        DEF RollbackOk, Active, Running, Settled
    <2>8. CASE Retry(g)
      <3>1. attempt' \in [Gens -> 1..MaxAttempts]
        BY <2>8, <2>a, SizesAssumption DEF Retry
      <3>2. pc' = [pc EXCEPT ![g] = pc[g]] /\ pc[g] \in Running
        BY <2>8, <2>a DEF Retry, Requesting, Running, Writing
      <3>3. /\ pc[g] = "upsert" => store'[g] \subseteq 0 .. (stored[g] + BatchLen(g) - 1)
            /\ pc[g] # "upsert" => store'[g] \subseteq store[g]
        BY <2>8, RequestEffect DEF Retry, RequestRaises
      <3>4. /\ BatchLen(g) \in Nat /\ stored[g] + BatchLen(g) <= size[g]
            /\ pc[g] = "upsert" => stored[g] + BatchLen(g) <= MaxChunks
        BY BatchBounds, SizesAssumption DEF Inv
      <3>5. UNCHANGED <<pc, doc, size, stored>> /\ BatchLen(g)' = BatchLen(g)
        BY <2>8 DEF Retry, BatchLen
      <3>6. /\ store'[g] \subseteq 0 .. (size[g] - 1)
            /\ store'[g] \subseteq 0 .. (MaxChunks - 1)
        BY <2>a, <3>3, <3>4, SizesAssumption DEF Contents
      <3>7. Contents(g)' /\ Counters(g)'
        BY <2>8, <2>a, <3>3, <3>5, <3>6 DEF Retry, Requesting, Contents, Counters, FitsLimit
      <3> QED
        BY <2>8, <2>a, <2>c, <3>1, <3>2, <3>7, OwnStep DEF Retry, RequestRaises, Active
    <2>9. CASE GiveUp(g)
      BY <2>9, ExceptionStep DEF GiveUp, Requesting, Running, Writing
    <2> QED
      BY <1>3, <2>1, <2>2, <2>3, <2>4, <2>5, <2>6, <2>7, <2>8, <2>9 DEF Step
  <1>4. ASSUME NEW g \in Gens, Raise(g) \/ Crash(g)
        PROVE  Inv'
    BY <1>4, ExceptionStep DEF Raise, Crash
  <1>5. CASE Tick
    <2>1. UNCHANGED <<store, pc, doc, size, created, stored, attempt, started>>
      BY <1>5 DEF Tick
    <2>2. now' \in 0..MaxTime
      BY <1>5, <1>a, SizesAssumption DEF Tick, TypeOK
    <2>3. TypeOK'
      BY <1>a, <2>1, <2>2 DEF TypeOK
    <2> QED
      BY <2>1, <2>3 DEF Inv, Contents, Counters, Untouched, BatchLen, FitsLimit
  <1>6. CASE UNCHANGED vars
    BY <1>6 DEF vars, Inv, TypeOK, Contents, Counters, Untouched, BatchLen, FitsLimit
  <1> QED
    BY <1>1, <1>2, <1>3, <1>4, <1>5, <1>6 DEF Next

(* A fresh collection satisfies the invariant. *)
LEMMA InvInit == Init => Inv
  BY SizesAssumption
  DEF Init, Inv, TypeOK, Contents, Counters, Untouched, Gens

(* Every reachable state satisfies the invariant. *)
THEOREM InvHolds == Spec => []Inv
  BY InvInit, InvStep, PTL DEF Spec

(* The variables keep their types. *)
THEOREM TypeCorrect == Spec => []TypeOK
  BY InvHolds, PTL DEF Inv

(* No generation outgrows _MAX_CHUNKS_PER_DOC (the test of line 239), however   *)
(* many runs and workers there are and however its upserts are repeated.       *)
THEOREM ChunkLimitHolds == Spec => []WithinChunkLimit
  <1>1. Inv => WithinChunkLimit
    BY DEF Inv, Contents, WithinChunkLimit
  <1> QED
    BY <1>1, InvHolds, PTL

(* What failed runs leave behind (lines 315-328): nothing after a rollback that *)
(* succeeded, part of the first batch when the rollback was skipped.           *)
THEOREM FailureResidueHolds == Spec => []FailureResidue
  <1>1. Inv => FailureResidue
    BY DEF Inv, Contents, FailureResidue
  <1> QED
    BY <1>1, InvHolds, PTL

-----------------------------------------------------------------------------
(* Runs that have their document to themselves. *)

RunStep(g) == Step(g) \/ Raise(g) \/ Crash(g)

(* What all the steps of a run have in common: they move that run only, change *)
(* the collection by its request only, and leave a commit for good.            *)
LEMMA RunStepShape ==
    ASSUME NEW g \in Gens, Inv, RunStep(g)
    PROVE  /\ pc[g] \in Running /\ pc'[g] \in Running \cup Settled
           /\ \A h \in Gens \ {g} : pc'[h] = pc[h]
           /\ store' \in {store, Applied(g)}
           /\ UNCHANGED <<doc, size, created, started, now>>
           /\ pc[g] = "commit" => pc'[g] \in {"commit", "done", "cleanup_failed", "crashed"}
           /\ pc'[g] = "done" => pc[g] = "commit" /\ store' = Applied(g)
  <1> USE DEF jobVars, Running, Writing, Settled
  <1>1. pc \in [Gens -> {"unused"} \cup Running \cup Settled]
    BY DEF Inv, TypeOK
  <1>2. ASSUME NEW label, Goto(g, label)
        PROVE  pc'[g] = label /\ \A h \in Gens \ {g} : pc'[h] = pc[h]
    BY <1>1, <1>2 DEF Goto
  <1>3. /\ Handler(g) \in {"rollback", "failed", "rollback_failed", "cleanup_failed"}
        /\ pc[g] = "commit" => Handler(g) = "cleanup_failed"
    BY DEF Handler
  <1>4. CASE PullBatch(g) \/ EndOfStream(g) \/ EmbedOk(g)
    BY <1>4, <1>2 DEF PullBatch, EndOfStream, EmbedOk
  <1>5. CASE RejectTooLarge(g)
    BY <1>5, <1>2, <1>3 DEF RejectTooLarge
  <1>6. CASE UpsertOk(g) \/ CommitOk(g) \/ RollbackOk(g)
    BY <1>6, <1>2 DEF UpsertOk, CommitOk, RollbackOk
  <1>7. CASE Retry(g)
    BY <1>7 DEF Retry, Requesting, RequestRaises
  <1>8. CASE GiveUp(g)
    BY <1>8, <1>2, <1>3 DEF GiveUp, Requesting, RequestRaises
  <1>9. CASE Raise(g) \/ Crash(g)
    BY <1>9, <1>2, <1>3 DEF Raise, Crash, RequestRaises
  <1> QED
    BY <1>4, <1>5, <1>6, <1>7, <1>8, <1>9 DEF RunStep, Step

(* A request reaches another generation only as the delete of a commit, and    *)
(* then only a generation of the same document, which is not being written.    *)
LEMMA OthersUntouched ==
    ASSUME NEW g \in Gens, NEW S \in {store, Applied(g)}, NEW h \in Gens \ {g},
           Inv, OneRunPerDoc, Active(g),
           pc[g] # "commit" \/ doc[h] # doc[g] \/ Active(h)
    PROVE  S[h] = store[h]
  <1>1. store \in [Gens -> SUBSET (0 .. (MaxFile - 1))]
    BY DEF Inv, TypeOK
  <1>2. CASE pc[g] = "upsert"
    BY <1>1, <1>2 DEF Applied
  <1>3. CASE pc[g] = "rollback"
    BY <1>1, <1>3 DEF Applied, OwnDeleted
  <1>4. CASE pc[g] = "commit"
    <2>1. doc[h] # doc[g]
      BY <1>4 DEF OneRunPerDoc
    <2> QED
      BY <1>1, <1>4, <2>1 DEF Applied, OthersDeleted
  <1>5. CASE pc[g] \notin {"upsert", "rollback", "commit"}
    BY <1>5 DEF Applied
  <1> QED
    BY <1>2, <1>3, <1>4, <1>5

(* The delete of a commit spares the generation that commits. *)
LEMMA CommitSparesOwn ==
    ASSUME NEW g \in Gens, NEW S \in {store, Applied(g)}, pc[g] = "commit"
    PROVE  S[g] = store[g]
  BY DEF Applied, OthersDeleted

(* The run that steps keeps track of exactly what it has written. *)
LEMMA AloneStep ==
    ASSUME NEW g \in Gens, Inv, Alone(g), RunStep(g)
    PROVE  Alone(g)'
  <1> USE DEF jobVars
  <1>a. /\ stored[g] \in Nat /\ size[g] \in Nat
        /\ pc \in [Gens -> {"unused"} \cup Running \cup Settled]
        /\ stored \in [Gens -> 0..MaxFile]
        /\ store \in [Gens -> SUBSET (0 .. (MaxFile - 1))]
        /\ BatchLen(g) \in Nat
    BY BatchBounds, SizesAssumption DEF Inv, TypeOK
  <1>b. ASSUME NEW label, Goto(g, label)
        PROVE  pc'[g] = label
    BY <1>a, <1>b DEF Goto
  <1>1. CASE PullBatch(g)
    BY <1>1, <1>b DEF PullBatch, Alone
  <1>2. CASE EndOfStream(g)
    <2>1. CASE stored[g] = 0
      BY <1>2, <1>b, <2>1 DEF EndOfStream, Alone
    <2>2. CASE stored[g] # 0
      <3>1. pc'[g] = "commit" /\ UNCHANGED <<store, size>>
        BY <1>2, <1>b, <2>2 DEF EndOfStream
      <3>2. store[g] = 0 .. (size[g] - 1) /\ size[g] > 0
        BY <1>2, <1>a, <2>2 DEF EndOfStream, Alone
      <3> QED
        BY <3>1, <3>2 DEF Alone, Complete
    <2> QED
      BY <2>1, <2>2
  <1>3. CASE EmbedOk(g)
    BY <1>3, <1>b DEF EmbedOk, Alone
  <1>4. CASE UpsertOk(g)
    <2>1. store'[g] = store[g] \cup Batch(g)
      BY <1>4, <1>a DEF UpsertOk, Applied
    <2>2. /\ 0 .. (stored[g] - 1) \subseteq store[g]
          /\ store[g] \subseteq 0 .. (stored[g] + BatchLen(g) - 1)
      BY <1>4 DEF UpsertOk, Inv, Contents, Alone
    <2>3. store'[g] = 0 .. (stored[g] + BatchLen(g) - 1)
      BY <1>a, <2>1, <2>2 DEF Batch
    <2>4. stored'[g] = stored[g] + BatchLen(g) /\ pc'[g] = "pull"
      BY <1>4, <1>a, <1>b DEF UpsertOk
    <2>5. stored'[g] - 1 = stored[g] + BatchLen(g) - 1
      BY <1>a, <2>4
    <2> QED
      BY <2>3, <2>4, <2>5 DEF Alone
  <1>5. CASE Retry(g)
    <2>1. UNCHANGED <<pc, doc, size, stored>> /\ store' \in {store, Applied(g)}
      BY <1>5 DEF Retry, RequestRaises
    <2>2. CASE pc[g] = "embed"
      BY <2>1, <2>2 DEF Applied, Alone
    <2>3. CASE pc[g] = "upsert"
      <3>1. store[g] \subseteq store'[g]
        BY <1>a, <2>1, <2>3 DEF Applied
      <3> QED
        BY <2>1, <2>3, <3>1 DEF Alone
    <2>4. CASE pc[g] = "commit"
      BY <2>1, <2>4, CommitSparesOwn DEF Alone, Complete
    <2>5. CASE pc[g] = "rollback"
      BY <2>1, <2>5 DEF Alone
    <2> QED
      BY <1>5, <2>2, <2>3, <2>4, <2>5 DEF Retry, Requesting
  <1>6. CASE CommitOk(g) \/ RollbackOk(g)
    BY <1>6, <1>b DEF CommitOk, RollbackOk, Alone
  <1>7. CASE RejectTooLarge(g) \/ GiveUp(g) \/ Raise(g) \/ Crash(g)
    <2>1. Handler(g) \notin {"pull", "embed", "upsert", "commit"}
      BY DEF Handler
    <2> QED
      BY <1>7, <1>b, <2>1 DEF RejectTooLarge, GiveUp, Raise, Crash, Alone
  <1> QED
    BY <1>1, <1>2, <1>3, <1>4, <1>5, <1>6, <1>7 DEF RunStep, Step

(* A new run meets a document on which no other run is active. *)
LEMMA StartKeepsSerial ==
    ASSUME Inv, SerialInv, OneRunPerDoc', NEW d \in Docs,
           (\E n \in 0..MaxFile : StartRun(d, n)) \/ RejectRun(d)
    PROVE  SerialInv'
  <1> DEFINE g == started + 1
  <1>1. g \in Gens /\ Untouched(g) /\ d # NoDoc
    BY SizesAssumption, DocsAssumption DEF StartRun, RejectRun, Inv, TypeOK, Gens
  <1>2. /\ UNCHANGED <<store, stored>>
        /\ doc'[g] = d /\ pc'[g] \in {"pull", "failed"}
    BY <1>1 DEF StartRun, RejectRun, Inv, TypeOK
  <1>3. ASSUME NEW h \in Gens \ {g}
        PROVE  doc'[h] = doc[h] /\ size'[h] = size[h] /\ pc'[h] = pc[h]
    BY <1>1 DEF StartRun, RejectRun, Inv, TypeOK
  <1>4. ASSUME NEW h \in Gens, h > g
        PROVE  Untouched(h)
    BY <1>4 DEF Inv, TypeOK, Gens
  <1>5. ASSUME NEW h \in Gens
        PROVE  Alone(h)'
    <2>1. CASE h = g
      <3>1. stored'[h] = 0 /\ store'[h] = {} /\ 0 .. (0 - 1) = {}
        BY <1>1, <1>2, <2>1 DEF Untouched
      <3>2. stored'[h] - 1 = 0 - 1
        BY <3>1
      <3>3. pc'[h] \in {"pull", "failed"}
        BY <1>2, <2>1
      <3> QED
        BY <3>1, <3>2, <3>3 DEF Alone
    <2>2. CASE h # g
      BY <1>2, <1>3, <2>2 DEF SerialInv, Alone, Complete
    <2> QED
      BY <2>1, <2>2
  <1>6. ASSUME NEW k \in Gens, NEW h \in Gens, Active(k)', doc'[h] = doc'[k], h > k
        PROVE  pc'[h] = "failed" /\ store'[h] = {}
    <2>1. CASE k = g
      <3>1. h # g /\ doc[h] = NoDoc
        BY <1>4, <1>6, <2>1 DEF Untouched, Gens
      <3> QED
        BY <1>1, <1>2, <1>3, <1>6, <2>1, <3>1
    <2>2. CASE h = g
      <3>1. pc'[g] = "failed"
        BY <1>2, <1>6, <2>2 DEF OneRunPerDoc, Active, Running, Writing, Gens
      <3> QED
        BY <1>1, <1>2, <2>2, <3>1 DEF Untouched
    <2>3. CASE k # g /\ h # g
      BY <1>2, <1>3, <1>6, <2>3 DEF SerialInv, Active
    <2> QED
      BY <2>1, <2>2, <2>3
  <1>7. ASSUME NEW k \in Gens, pc'[k] = "done",
               \A h \in Gens : doc'[h] = doc'[k] => h <= k
        PROVE  /\ Complete(k)'
               /\ \A h \in Gens : doc'[h] = doc'[k] /\ h # k => store'[h] = {}
    <2>1. k # g
      BY <1>2, <1>7
    <2>2. pc[k] = "done" /\ doc[k] # NoDoc
      <3>1. pc[k] = "done"
        BY <1>3, <1>7, <2>1
      <3>2. ~(k > started)
        BY <3>1 DEF Inv, Untouched
      <3> QED
        BY <3>1, <3>2, DocsAssumption DEF Inv, TypeOK, Gens
    <2>3. \A h \in Gens : doc[h] = doc[k] => h <= k
      BY <1>1, <1>3, <1>7, <2>1, <2>2 DEF Untouched
    <2>4. /\ Complete(k)
          /\ \A h \in Gens : doc[h] = doc[k] /\ h # k => store[h] = {}
      BY <2>2, <2>3 DEF SerialInv, LatestDoneIsTheOnlyOne
    <2> QED
      BY <1>1, <1>2, <1>3, <2>1, <2>4 DEF Complete, Untouched
  <1> QED
    BY <1>5, <1>6, <1>7 DEF SerialInv, LatestDoneIsTheOnlyOne

(* A run that steps has its document to itself and is the newest run of it     *)
(* that stored anything.                                                       *)
LEMMA RunKeepsSerial ==
    ASSUME Inv, SerialInv, OneRunPerDoc, NEW g \in Gens, RunStep(g)
    PROVE  SerialInv'
  <1>1. /\ Active(g)
        /\ pc'[g] \in Running \cup Settled
        /\ \A h \in Gens \ {g} : pc'[h] = pc[h]
        /\ store' \in {store, Applied(g)}
        /\ UNCHANGED <<doc, size, created, started, now>>
        /\ pc'[g] = "done" => pc[g] = "commit" /\ store' = Applied(g)
    BY RunStepShape DEF Active
  <1>2. ASSUME NEW h \in Gens \ {g}
        PROVE  stored'[h] = stored[h]
    BY DEF RunStep, Step, PullBatch, RejectTooLarge, EndOfStream, EmbedOk, UpsertOk,
           CommitOk, RollbackOk, Retry, GiveUp, Raise, Crash, Inv, TypeOK
  <1>3. ASSUME NEW h \in Gens \ {g}, doc[h] # doc[g] \/ Active(h)
        PROVE  store'[h] = store[h]
    BY <1>1, <1>3, OthersUntouched
  <1>4. ASSUME NEW h \in Gens
        PROVE  Alone(h)'
    <2>1. CASE h = g
      BY <2>1, AloneStep DEF SerialInv
    <2>2. CASE h # g /\ Active(h)
      BY <1>1, <1>2, <1>3, <2>2 DEF SerialInv, Alone, Complete
    <2>3. CASE h # g /\ ~Active(h)
      BY <1>1, <2>3 DEF Alone, Active, Running, Writing
    <2> QED
      BY <2>1, <2>2, <2>3
  <1>5. \A h \in Gens \ {g} : store'[h] \subseteq store[h]
    BY <1>1, RequestEffect
  <1>6. ASSUME NEW k \in Gens, NEW h \in Gens, Active(k)', doc'[h] = doc'[k], h > k
        PROVE  pc'[h] = "failed" /\ store'[h] = {}
    <2>1. Active(k) /\ doc[h] = doc[k]
      BY <1>1, <1>6 DEF Active
    <2>2. pc[h] = "failed" /\ store[h] = {}
      BY <1>6, <2>1 DEF SerialInv
    <2>3. h # g
      BY <1>1, <2>2 DEF Active, Running, Writing
    <2> QED
      BY <1>1, <1>5, <2>2, <2>3
  <1>7. ASSUME NEW k \in Gens, pc'[k] = "done",
               \A h \in Gens : doc'[h] = doc'[k] => h <= k
        PROVE  /\ Complete(k)'
               /\ \A h \in Gens : doc'[h] = doc'[k] /\ h # k => store'[h] = {}
    <2>1. CASE k = g
      <3>1. pc[g] = "commit" /\ store' = OthersDeleted(g)
        BY <1>1, <1>7, <2>1 DEF Applied
      <3>2. Complete(g)
        BY <3>1 DEF SerialInv, Alone
      <3> QED
        BY <1>1, <2>1, <3>1, <3>2 DEF OthersDeleted, Complete
    <2>2. CASE k # g
      <3>1. /\ Complete(k)
            /\ \A h \in Gens : doc[h] = doc[k] /\ h # k => store[h] = {}
            /\ pc[k] = "done"
        BY <1>1, <1>7, <2>2 DEF SerialInv, LatestDoneIsTheOnlyOne
      <3>2. doc[k] # doc[g]
        <4>1. doc[g] = doc[k] => k > g
          BY <1>1, <1>7, <2>2 DEF Gens
        <4> QED
          BY <1>1, <3>1, <4>1 DEF SerialInv
      <3> QED
        BY <1>1, <1>3, <1>5, <2>2, <3>1, <3>2 DEF Complete
    <2> QED
      BY <2>1, <2>2
  <1> QED
    BY <1>4, <1>6, <1>7 DEF SerialInv, LatestDoneIsTheOnlyOne

(* The serial invariant is kept by every step, as long as no two runs work on  *)
(* one document.                                                               *)
LEMMA SerialStep ==
    Inv /\ SerialInv /\ OneRunPerDoc /\ OneRunPerDoc' /\ [Next]_vars => SerialInv'
  <1> SUFFICES ASSUME Inv, SerialInv, OneRunPerDoc, OneRunPerDoc', [Next]_vars
               PROVE  SerialInv'
    OBVIOUS
  <1>1. CASE UNCHANGED <<store, pc, doc, size, stored>>
    BY <1>1 DEF SerialInv, Alone, Active, Complete, LatestDoneIsTheOnlyOne
  <1> QED
    BY <1>1, StartKeepsSerial, RunKeepsSerial DEF Next, vars, Tick, jobVars, RunStep

LEMMA SerialInit == Init => SerialInv
  BY DEF Init, SerialInv, Alone, Active, Running, Writing, LatestDoneIsTheOnlyOne

(* Where no two runs ever share a document, the invariant of serial runs holds.*)
THEOREM SerialInvHolds == Spec /\ []OneRunPerDoc => []SerialInv
  BY InvHolds, SerialInit, SerialStep, PTL DEF Spec

(* After a successful run, and until the document is uploaded again, its        *)
(* generation is complete and alone in the collection (lines 330-369), however *)
(* many earlier runs failed or crashed.                                        *)
THEOREM LatestDoneHolds == Spec /\ []OneRunPerDoc => []LatestDoneIsTheOnlyOne
  <1>1. SerialInv => LatestDoneIsTheOnlyOne
    BY DEF SerialInv
  <1> QED
    BY <1>1, SerialInvHolds, PTL

-----------------------------------------------------------------------------
(* The runs implement the abstract store of versions. *)

\* The refinement mapping.
VersionMap == [d \in Docs |-> Versions(d)]

(* A generation of which nothing is stored is not a version. *)
LEMMA EmptyIsIncomplete ==
    ASSUME NEW g \in Gens, Complete(g), size[g] \in Nat
    PROVE  store[g] # {}
  <1>1. store[g] = 0 .. (size[g] - 1) /\ size[g] > 0
    BY DEF Complete
  <1>2. 0 \in 0 .. (size[g] - 1)
    BY <1>1
  <1> QED
    BY <1>1, <1>2

(* A run only adds itself to the versions of its document, and only as the     *)
(* newest; a commit leaves itself as the only version.                         *)
LEMMA RunRefines ==
    ASSUME Inv, SerialInv, OneRunPerDoc, NEW g \in Gens, RunStep(g)
    PROVE  \/ VersionMap' = VersionMap
           \/ Abs!Publish(doc[g], g)
           \/ Abs!Supersede(doc[g], g)
  <1>1. /\ Active(g)
        /\ \A h \in Gens \ {g} : pc'[h] = pc[h]
        /\ store' \in {store, Applied(g)}
        /\ UNCHANGED <<doc, size>>
        /\ pc[g] = "commit" => pc'[g] \in {"commit", "done", "cleanup_failed", "crashed"}
    BY RunStepShape DEF Active
  <1>2. doc[g] \in Docs /\ \A h \in Gens : size[h] \in Nat
    <2>1. g <= started
      BY <1>1 DEF Inv, Untouched, Active, Running, Writing, TypeOK, Gens
    <2> QED
      BY <2>1, SizesAssumption DEF Inv, TypeOK
  <1>e. PICK e \in Docs : e = doc[g]
    BY <1>2
  <1>3. ASSUME NEW h \in Versions(e)
        PROVE  h <= g
    <2>1. h \in Gens /\ doc[h] = doc[g] /\ store[h] # {}
      BY <1>e, <1>2, <1>3, EmptyIsIncomplete DEF Versions
    <2>2. ~(h > g)
      BY <1>e, <1>1, <2>1 DEF SerialInv
    <2> QED
      BY <2>1, <2>2 DEF Gens
  <1>4. ASSUME NEW h \in Gens \ {g}, store'[h] = store[h]
        PROVE  \A d \in Docs : h \in Versions(d)' <=> h \in Versions(d)
    BY <1>e, <1>1, <1>4 DEF Versions, Settling, Complete
  <1>5. CASE pc[g] = "commit" /\ store' = store
    <2>1. \A d \in Docs : g \in Versions(d)' <=> g \in Versions(d)
      BY <1>e, <1>1, <1>5 DEF Versions, Settling, Complete, Settled
    <2>2. \A d \in Docs : Versions(d)' = Versions(d)
      BY <1>4, <1>5, <2>1 DEF Versions
    <2> QED
      BY <2>2 DEF VersionMap
  <1>6. CASE pc[g] = "commit" /\ store' = OthersDeleted(g)
    <2>1. Complete(g) /\ Complete(g)'
      BY <1>e, <1>1, <1>6 DEF SerialInv, Alone, OthersDeleted, Complete
    <2>2. g \in Versions(e) /\ g \in Versions(e)'
      BY <1>e, <1>1, <1>6, <2>1 DEF Versions, Settling, Settled
    <2>3. ASSUME NEW h \in Gens \ {g}, doc[h] = e
          PROVE  h \notin Versions(e)'
      <3>1. store'[h] = {}
        BY <1>e, <1>6, <2>3 DEF OthersDeleted
      <3>2. size'[h] \in Nat
        BY <1>e, <1>1, <1>2
      <3>3. \A n \in Nat : n > 0 => 0 \in 0 .. (n - 1)
        OBVIOUS
      <3>4. ~Complete(h)'
        BY <3>1, <3>2, <3>3 DEF Complete
      <3> QED
        BY <3>4 DEF Versions
    <2>4. Versions(e)' = {g}
      BY <1>e, <1>1, <2>2, <2>3 DEF Versions
    <2>5. ASSUME NEW d \in Docs \ {e}
          PROVE  Versions(d)' = Versions(d)
      <3>1. ASSUME NEW h \in Gens, doc[h] = d
            PROVE  h # g /\ store'[h] = store[h]
        BY <1>e, <1>6, <2>5, <3>1 DEF OthersDeleted
      <3>2. \A h \in Gens : doc[h] = d => (h \in Versions(d)' <=> h \in Versions(d))
        BY <1>4, <3>1
      <3> QED
        BY <1>e, <1>1, <3>2 DEF Versions
    <2>6. VersionMap' = [VersionMap EXCEPT ![e] = {g}]
      <3> DEFINE W(d) == IF d = e THEN {g} ELSE Versions(d)
      <3>1. \A d \in Docs : Versions(d)' = W(d)
        BY <2>4, <2>5
      <3>2. VersionMap' = [d \in Docs |-> W(d)]
        BY <3>1 DEF VersionMap
      <3> QED
        BY <1>e, <1>2, <3>2 DEF VersionMap
    <2> QED
      BY <1>e, <1>2, <1>3, <2>2, <2>6 DEF Abs!Supersede, VersionMap
  <1>7. CASE pc[g] # "commit"
    <2>1. \A h \in Gens \ {g} : store'[h] = store[h]
      BY <1>e, <1>1, <1>7, OthersUntouched
    <2>2. \A d \in Docs : g \notin Versions(d)
      BY <1>e, <1>1, <1>7 DEF Versions, Settling, Settled, Active, Running, Writing
    <2>3. ASSUME NEW d \in Docs, d # e \/ g \notin Versions(e)'
          PROVE  Versions(d)' = Versions(d)
      <3>1. g \notin Versions(d)'
        BY <1>e, <1>1, <2>3 DEF Versions
      <3> QED
        BY <1>4, <2>1, <2>2, <3>1 DEF Versions
    <2>4. CASE g \in Versions(e)'
      <3>1. Versions(e)' = Versions(e) \cup {g}
        <4>1. \A h \in Gens \ {g} : h \in Versions(e)' <=> h \in Versions(e)
          BY <1>e, <1>2, <1>4, <2>1
        <4>2. Versions(e)' \subseteq Gens /\ Versions(e) \subseteq Gens
          BY DEF Versions
        <4> QED
          BY <2>4, <4>1, <4>2
      <3>2. VersionMap' = [VersionMap EXCEPT ![e] = @ \cup {g}]
        <4> DEFINE W(d) == IF d = e THEN Versions(e) \cup {g} ELSE Versions(d)
        <4>1. \A d \in Docs : Versions(d)' = W(d)
          BY <2>3, <3>1
        <4>2. VersionMap' = [d \in Docs |-> W(d)]
          BY <4>1 DEF VersionMap
        <4> QED
          BY <1>e, <1>2, <4>2 DEF VersionMap
      <3>3. \A h \in Versions(e) : h < g
        BY <1>e, <1>2, <1>3, <2>2 DEF Versions, Gens
      <3> QED
        BY <1>e, <1>2, <3>2, <3>3 DEF Abs!Publish, VersionMap
    <2>5. CASE g \notin Versions(e)'
      BY <2>3, <2>5 DEF VersionMap
    <2> QED
      BY <2>4, <2>5
  <1> QED
    <2>1. pc[g] = "commit" => Applied(g) = OthersDeleted(g)
      BY DEF Applied
    <2> QED
      BY <1>e, <1>1, <1>5, <1>6, <1>7, <2>1

(* A run that starts is not a version yet. *)
LEMMA StartRefines ==
    ASSUME Inv, NEW d \in Docs,
           (\E n \in 0..MaxFile : StartRun(d, n)) \/ RejectRun(d)
    PROVE  VersionMap' = VersionMap
  <1>g. PICK g \in Gens : g = started + 1
    BY SizesAssumption DEF StartRun, RejectRun, Inv, TypeOK, Gens
  <1>1. Untouched(g)
    BY <1>g, SizesAssumption DEF Inv, TypeOK, Gens
  <1>2. store'[g] = {} /\ size'[g] \in Nat /\ size[g] \in Nat
    BY <1>g, <1>1, SizesAssumption DEF StartRun, RejectRun, Untouched, Inv, TypeOK
  <1>3. ~Complete(g)' /\ ~Complete(g)
    <2>1. \A n \in Nat : n > 0 => 0 \in 0 .. (n - 1)
      OBVIOUS
    <2> QED
      BY <1>1, <1>2, <2>1 DEF Complete, Untouched
  <1>4. ASSUME NEW h \in Gens \ {g}
        PROVE  /\ doc'[h] = doc[h] /\ size'[h] = size[h] /\ pc'[h] = pc[h]
               /\ store'[h] = store[h]
    BY <1>g, <1>1 DEF StartRun, RejectRun, Inv, TypeOK
  <1>5. ASSUME NEW e \in Docs
        PROVE  Versions(e)' = Versions(e)
    <2>1. g \notin Versions(e)' /\ g \notin Versions(e)
      BY <1>3 DEF Versions
    <2>2. \A h \in Gens \ {g} : h \in Versions(e)' <=> h \in Versions(e)
      BY <1>4 DEF Versions, Settling, Complete
    <2>3. Versions(e)' \subseteq Gens /\ Versions(e) \subseteq Gens
      BY DEF Versions
    <2> QED
      BY <2>1, <2>2, <2>3
  <1> QED
    BY <1>5 DEF VersionMap

LEMMA NextRefines ==
    Inv /\ SerialInv /\ OneRunPerDoc /\ [Next]_vars => [Abs!Next]_VersionMap
  <1> SUFFICES ASSUME Inv, SerialInv, OneRunPerDoc, [Next]_vars
               PROVE  [Abs!Next]_VersionMap
    OBVIOUS
  <1>1. CASE UNCHANGED <<store, pc, doc, size>>
    BY <1>1 DEF VersionMap, Versions, Settling, Complete
  <1>2. ASSUME NEW d \in Docs,
               (\E n \in 0..MaxFile : StartRun(d, n)) \/ RejectRun(d)
        PROVE  VersionMap' = VersionMap
    BY <1>2, StartRefines
  <1>3. ASSUME NEW g \in Gens, RunStep(g)
        PROVE  [Abs!Next]_VersionMap
    <2>1. doc[g] \in Docs
      <3>1. g <= started
        BY <1>3, RunStepShape
        DEF Inv, Untouched, Running, Writing, TypeOK, Gens
      <3> QED
        BY <3>1 DEF Inv
    <2> QED
      BY <1>3, <2>1, RunRefines DEF Abs!Next
  <1> QED
    BY <1>1, <1>2, <1>3 DEF Next, vars, Tick, jobVars, RunStep

LEMMA InitRefines == Init => Abs!Init
  BY DEF Init, Abs!Init, Versions, Complete

(* Ingestion implements the abstract store of versions wherever no two runs    *)
(* work on one document at the same time: versions appear whole and newest,    *)
(* and disappear only by being superseded.                                     *)
THEOREM Refinement == Spec /\ []OneRunPerDoc => ImplementsVersions
  <1>1. Inv /\ SerialInv /\ OneRunPerDoc /\ [Next]_vars
            => [Abs!Next]_[d \in Docs |-> Versions(d)]
    BY NextRefines DEF VersionMap
  <1> QED
    BY <1>1, InitRefines, InvHolds, SerialInvHolds, PTL
    DEF Spec, Abs!Spec, ImplementsVersions

(* What the abstract store keeps available, the steps of ingestion keep        *)
(* available: a document that has a complete version never loses its last one  *)
(* (the safety model of lines 15-16).                                          *)
THEOREM ServedHolds == Spec /\ []OneRunPerDoc => AlwaysServed
  <1>1. Inv /\ SerialInv /\ OneRunPerDoc /\ [Next]_vars => StaysServed
    <2> SUFFICES ASSUME [Abs!Next]_VersionMap
                 PROVE  StaysServed
      BY NextRefines
    <2>1. \A d \in Docs : VersionMap[d] = Versions(d)
      BY DEF VersionMap
    <2>2. \A d \in Docs : VersionMap'[d] = Versions(d)'
      BY DEF VersionMap
    <2>3. CASE VersionMap' = VersionMap
      BY <2>1, <2>2, <2>3 DEF StaysServed
    <2>4. ASSUME NEW e \in Docs, NEW g \in Gens, Abs!Publish(e, g)
          PROVE  StaysServed
      <3>1. VersionMap' = [VersionMap EXCEPT ![e] = @ \cup {g}]
        BY <2>4 DEF Abs!Publish, VersionMap
      <3>2. \A d \in Docs : VersionMap[d] # {} => VersionMap'[d] # {}
        BY <3>1 DEF VersionMap
      <3> QED
        BY <2>1, <2>2, <3>2 DEF StaysServed
    <2>5. ASSUME NEW e \in Docs, NEW g \in Gens, Abs!Supersede(e, g)
          PROVE  StaysServed
      <3>1. VersionMap' = [VersionMap EXCEPT ![e] = {g}]
        BY <2>5 DEF Abs!Supersede, VersionMap
      <3>2. \A d \in Docs : VersionMap[d] # {} => VersionMap'[d] # {}
        BY <3>1 DEF VersionMap
      <3> QED
        BY <2>1, <2>2, <3>2 DEF StaysServed
    <2> QED
      BY <2>3, <2>4, <2>5 DEF Abs!Next
  <1> QED
    BY <1>1, InvHolds, SerialInvHolds, PTL DEF Spec, AlwaysServed

-----------------------------------------------------------------------------
(* One worker process is enough. *)

(* With one worker process, as in the README's deployment, no two runs are     *)
(* active at the same time, on one document or on several.                     *)
THEOREM OneWorkerSerializes ==
    ASSUME NumWorkers = 1
    PROVE  Spec => []OneRunPerDoc
  <1> DEFINE Single == \A g, h \in Gens : Active(g) /\ Active(h) => g = h
  <1>1. Init => Single
    BY DEF Init, Active, Running, Writing
  <1>2. BusyWorkers < NumWorkers => \A g \in Gens : ~Active(g)
    <2> DEFINE B == {g \in Gens : Active(g)}
    <2>1. IsFiniteSet(Gens)
      BY FS_Interval, SizesAssumption DEF Gens
    <2>2. IsFiniteSet(B)
      BY <2>1, FS_Subset
    <2>3. Cardinality(B) \in Nat /\ (Cardinality(B) = 0 <=> B = {})
      BY <2>2, FS_CardinalityType, FS_EmptySet
    <2> QED
      BY <2>3, NumWorkers = 1 DEF BusyWorkers
  <1>3. Inv /\ Single /\ [Next]_vars => Single'
    <2> SUFFICES ASSUME Inv, Single, [Next]_vars
                 PROVE  Single'
      OBVIOUS
    <2>1. CASE UNCHANGED pc
      BY <2>1 DEF Active
    <2>2. ASSUME NEW d \in Docs,
                 (\E n \in 0..MaxFile : StartRun(d, n)) \/ RejectRun(d)
          PROVE  Single'
      <3>1. /\ \A g \in Gens : ~Active(g)
            /\ \A g \in Gens \ {started + 1} : pc'[g] = pc[g]
        BY <1>2, <2>2 DEF StartRun, RejectRun, Inv, TypeOK
      <3> QED
        BY <3>1 DEF Active
    <2>3. ASSUME NEW g \in Gens, RunStep(g)
          PROVE  Single'
      <3>1. Active(g) /\ \A h \in Gens \ {g} : pc'[h] = pc[h]
        BY <2>3, RunStepShape DEF Active
      <3> QED
        BY <3>1 DEF Active
    <2> QED
      BY <2>1, <2>2, <2>3 DEF Next, vars, Tick, RunStep
  <1>4. Single => OneRunPerDoc
    BY DEF OneRunPerDoc
  <1> HIDE DEF Single
  <1> QED
    BY <1>1, <1>3, <1>4, InvHolds, PTL DEF Spec
=============================================================================
