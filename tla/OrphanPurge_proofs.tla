------------------------ MODULE OrphanPurge_proofs ------------------------
(***************************************************************************)
(* Proofs about the sweep beside the ingestion runs, for every number of   *)
(* documents, runs and workers and for every grace period longer than the  *)
(* hard time limit.                                                        *)
(***************************************************************************)
EXTENDS OrphanPurge, IngestionPipeline_proofs

\* What the sweep remembers, and how old it is: a generation it may delete was
\* created at least MinAge before the sweep began, and an active run is younger.
SweepInv ==
    /\ PurgeTypeOK
    /\ \A g \in Gens : Active(g) => now - created[g] <= HardLimit
    /\ sweep # "idle" => cutoff <= now - MinAge
    /\ \A g \in seen : g <= started
    /\ \A g \in victims : pc[g] \in Settled

(* Deleting points never breaks the invariant of the runs. *)
LEMMA ShrinkKeepsInv ==
    ASSUME Inv, UNCHANGED runVars, store' \in [Gens -> SUBSET (0 .. (MaxFile - 1))],
           \A g \in Gens : store'[g] \subseteq store[g]
    PROVE  Inv'
  <1>1. UNCHANGED <<pc, doc, size, created, stored, attempt, started, now>>
    BY DEF runVars, jobVars
  <1>2. TypeOK'
    BY <1>1 DEF Inv, TypeOK
  <1>3. \A g \in Gens : Contents(g)' /\ Counters(g)'
    BY <1>1 DEF Inv, Contents, Counters, BatchLen, FitsLimit
  <1>4. /\ \A g \in Gens : g > started => Untouched(g)'
        /\ \A g \in Gens : g <= started => pc'[g] # "unused" /\ doc'[g] \in Docs
    BY <1>1 DEF Inv, Untouched
  <1> QED
    BY <1>1, <1>2, <1>3, <1>4 DEF Inv

(* A step of the sweep changes the collection by deleting one victim, if at    *)
(* all, and nothing else of the runs.                                          *)
LEMMA SweepShape ==
    ASSUME Inv, PurgeStep
    PROVE  /\ UNCHANGED runVars
           /\ \/ UNCHANGED store
              \/ \E g \in victims : store' = OwnDeleted(g)
           /\ store' \in [Gens -> SUBSET (0 .. (MaxFile - 1))]
           /\ \A g \in Gens : store'[g] \subseteq store[g]
  <1>1. store \in [Gens -> SUBSET (0 .. (MaxFile - 1))]
    BY DEF Inv, TypeOK
  <1>2. UNCHANGED runVars /\ (UNCHANGED store \/ \E g \in victims : store' = OwnDeleted(g))
    BY DEF PurgeStep, StartSweep, PassPoints, DeleteVictim, DeleteFails, ScanEnds,
           ScanFails, ChooseVictims, EndSweep, SweepDies, vars, runVars, jobVars
  <1> QED
    BY <1>1, <1>2 DEF OwnDeleted

(* What the sweep chooses to delete has settled: it is older than any run can  *)
(* be.                                                                         *)
LEMMA DeletableHaveSettled ==
    ASSUME Inv, SweepInv, sweep = "scan"
    PROVE  Deletable \subseteq Gens /\ \A g \in Deletable : pc[g] \in Settled
  <1> SUFFICES ASSUME NEW g \in Deletable
               PROVE  g \in Gens /\ pc[g] \in Settled
    OBVIOUS
  <1>1. g \in Gens /\ g <= started /\ created[g] <= cutoff
    BY DEF Deletable, SweepInv, PurgeTypeOK
  <1>2. cutoff <= now - MinAge
    BY DEF SweepInv
  <1>3. /\ created[g] \in Int /\ now \in Int /\ cutoff \in Int
        /\ pc[g] \in {"unused"} \cup Running \cup Settled
    BY <1>1, SizesAssumption DEF SweepInv, PurgeTypeOK, TypeOK
  <1>4. ~(now - created[g] <= HardLimit)
    BY <1>1, <1>2, <1>3, GracePeriodAssumption, SizesAssumption
  <1>5. ~Active(g) /\ pc[g] # "unused"
    BY <1>1, <1>4 DEF SweepInv, Inv
  <1> QED
    BY <1>1, <1>3, <1>5 DEF Active

(* Every step of the runs keeps what the sweep relies on. *)
LEMMA RunsKeepSweepInv ==
    ASSUME Inv, SweepInv, Inv', [Next]_vars, UNCHANGED purgeVars
    PROVE  SweepInv'
  <1>1. UNCHANGED <<sweep, cutoff, unread, seen, victims>> /\ TypeOK'
    BY DEF purgeVars, Inv
  <1>2. /\ started \in Nat /\ now \in Int /\ cutoff \in Int
        /\ victims \subseteq Gens /\ seen \subseteq Gens
        /\ \A g \in Gens : created[g] \in Int
        /\ pc \in [Gens -> {"unused"} \cup Running \cup Settled]
        /\ created \in [Gens -> 0..MaxTime]
    BY SizesAssumption DEF SweepInv, PurgeTypeOK, TypeOK
  <1>3. PurgeTypeOK'
    BY <1>1 DEF SweepInv, PurgeTypeOK
  <1>4. CASE UNCHANGED <<pc, created, started, now>>
    BY <1>1, <1>3, <1>4 DEF SweepInv, Active
  <1>5. ASSUME NEW d \in Docs,
               (\E n \in 0..MaxFile : StartRun(d, n)) \/ RejectRun(d)
        PROVE  SweepInv'
    <2>g. PICK g \in Gens : g = started + 1
      BY <1>5, SizesAssumption DEF StartRun, RejectRun, TypeOK, Inv, Gens
    <2>1. /\ started' = g /\ now' = now
          /\ created'[g] = now
          /\ \A h \in Gens \ {g} : pc'[h] = pc[h] /\ created'[h] = created[h]
      BY <1>2, <1>5, <2>g DEF StartRun, RejectRun
    <2>2. pc[g] = "unused"
      BY <1>2, <2>g DEF Inv, Untouched, Gens
    <2>3. \A h \in Gens : Active(h)' => now' - created'[h] <= HardLimit
      BY <1>2, <2>1, SizesAssumption DEF SweepInv, Active
    <2>4. g \notin victims
      BY <2>2 DEF SweepInv, Settled
    <2>5. \A h \in victims : pc'[h] \in Settled
      BY <1>2, <2>1, <2>4 DEF SweepInv
    <2>6. \A h \in seen : h <= started'
      BY <1>2, <2>g, <2>1 DEF SweepInv, Gens
    <2> QED
      BY <1>1, <1>3, <2>1, <2>3, <2>5, <2>6 DEF SweepInv
  <1>6. ASSUME NEW g \in Gens, RunStep(g)
        PROVE  SweepInv'
    <2>1. /\ pc[g] \in Running
          /\ \A h \in Gens \ {g} : pc'[h] = pc[h]
          /\ UNCHANGED <<created, started, now>>
      BY <1>6, RunStepShape
    <2>2. g \notin victims
      BY <2>1 DEF SweepInv, Running, Writing, Settled
    <2>3. \A h \in Gens : Active(h)' => Active(h)
      BY <2>1 DEF Active
    <2> QED
      BY <1>1, <1>2, <1>3, <2>1, <2>2, <2>3 DEF SweepInv
  <1>7. CASE Tick
    <2>1. now' = now + 1 /\ UNCHANGED <<pc, created, started>>
      BY <1>7 DEF Tick, jobVars
    <2>2. \A h \in Gens : Active(h)' => now' - created'[h] <= HardLimit
      BY <1>2, <1>7, <2>1, SizesAssumption DEF Tick, Active
    <2>3. sweep' # "idle" => cutoff' <= now' - MinAge
      BY <1>1, <1>2, <2>1, GracePeriodAssumption DEF SweepInv
    <2> QED
      BY <1>1, <1>3, <2>1, <2>2, <2>3 DEF SweepInv
  <1> QED
    BY <1>4, <1>5, <1>6, <1>7 DEF Next, vars, jobVars, RunStep

(* Every step of the sweep keeps it. *)
LEMMA SweepKeepsSweepInv ==
    ASSUME Inv, SweepInv, PurgeStep
    PROVE  SweepInv' /\ Inv'
  <1>1. UNCHANGED <<pc, created, started, now>>
    BY SweepShape DEF runVars, jobVars
  <1>2. Inv'
    BY SweepShape, ShrinkKeepsInv
  <1>3. /\ started \in Nat /\ now \in Int /\ cutoff \in Int
        /\ victims \subseteq Gens /\ seen \subseteq Gens /\ unread \subseteq Gens
        /\ TypeOK' /\ MinAge \in Nat
    BY <1>2, SizesAssumption, GracePeriodAssumption DEF Inv, SweepInv, PurgeTypeOK, TypeOK
  <1>4. \A g \in Gens : Active(g)' => now' - created'[g] <= HardLimit
    BY <1>1 DEF SweepInv, Active
  <1>5. CASE StartSweep
    <2>1. cutoff' = now - MinAge /\ cutoff' \in Int /\ cutoff' <= now' - MinAge
      BY <1>1, <1>3, <1>5 DEF StartSweep
    <2>2. sweep' = "scan" /\ unread' = Gens /\ seen' = seen /\ victims' = victims
      BY <1>5 DEF StartSweep
    <2>3. PurgeTypeOK'
      BY <1>3, <2>1, <2>2 DEF PurgeTypeOK
    <2> QED
      BY <1>1, <1>2, <1>4, <2>1, <2>2, <2>3 DEF SweepInv
  <1>6. ASSUME NEW g \in Gens, PassPoints(g)
        PROVE  SweepInv'
    <2>1. store[g] # {} => g <= started
      BY <1>3 DEF Inv, Untouched, Gens
    <2> QED
      BY <1>1, <1>3, <1>4, <1>6, <2>1 DEF PassPoints, SweepInv, PurgeTypeOK
  <1>7. ASSUME NEW g \in Gens, DeleteVictim(g) \/ DeleteFails(g)
        PROVE  SweepInv'
    BY <1>1, <1>3, <1>4, <1>7 DEF DeleteVictim, DeleteFails, SweepInv, PurgeTypeOK
  <1>8. CASE ScanEnds \/ ScanFails
    <2>1. /\ sweep = "scan" /\ sweep' = "delete" /\ cutoff' = cutoff
          /\ victims' = Deletable /\ unread' = {} /\ seen' = {}
      BY <1>8 DEF ScanEnds, ScanFails, ChooseVictims
    <2>2. Deletable \subseteq Gens /\ \A g \in Deletable : pc[g] \in Settled
      BY <2>1, DeletableHaveSettled
    <2>3. PurgeTypeOK'
      BY <1>3, <2>1, <2>2 DEF PurgeTypeOK
    <2>4. cutoff' <= now' - MinAge
      BY <1>1, <2>1 DEF SweepInv
    <2> QED
      BY <1>1, <1>2, <1>4, <2>1, <2>2, <2>3, <2>4 DEF SweepInv
  <1>9. CASE EndSweep \/ SweepDies
    <2>1. /\ sweep' = "idle" /\ cutoff' = 0
          /\ unread' \subseteq unread /\ seen' \subseteq seen /\ victims' \subseteq victims
      BY <1>9 DEF EndSweep, SweepDies
    <2>2. PurgeTypeOK'
      BY <1>3, <2>1 DEF PurgeTypeOK
    <2>3. sweep' # "idle" => cutoff' <= now' - MinAge
      BY <2>1
    <2>4. \A g \in seen' : g <= started'
      BY <1>1, <2>1 DEF SweepInv
    <2>5. \A g \in victims' : pc'[g] \in Settled
      BY <1>1, <2>1 DEF SweepInv
    <2> QED
      BY <1>2, <1>4, <2>2, <2>3, <2>4, <2>5 DEF SweepInv
  <1> QED
    BY <1>2, <1>5, <1>6, <1>7, <1>8, <1>9 DEF PurgeStep

LEMMA SweepInvInit == SystemInit => Inv /\ SweepInv
  <1> SUFFICES ASSUME SystemInit
               PROVE  Inv /\ SweepInv
    OBVIOUS
  <1>1. Inv
    BY InvInit DEF SystemInit
  <1> QED
    BY <1>1 DEF SystemInit, Init, PurgeInit, Inv, SweepInv, PurgeTypeOK, Active, Running,
                Writing

LEMMA SweepInvStep == Inv /\ SweepInv /\ [SystemNext]_allVars => Inv' /\ SweepInv'
  <1> SUFFICES ASSUME Inv, SweepInv, [SystemNext]_allVars
               PROVE  Inv' /\ SweepInv'
    OBVIOUS
  <1>1. CASE [Next]_vars /\ UNCHANGED purgeVars
    BY <1>1, InvStep, RunsKeepSweepInv
  <1>2. CASE PurgeStep
    BY <1>2, SweepKeepsSweepInv
  <1> QED
    BY <1>1, <1>2 DEF SystemNext, allVars

THEOREM SystemInvHolds == SystemSpec => [](Inv /\ SweepInv)
  BY SweepInvInit, SweepInvStep, PTL DEF SystemSpec

(* "an ingestion that is still legitimately in flight is never touched"        *)
(* (purge_orphaned_generations, lines 390-392): whatever the sweep is about to *)
(* delete belongs to a run that has settled, with any number of workers, since *)
(* the grace period is longer than the hard time limit.                        *)
THEOREM InFlightIsNeverSwept == SystemSpec => []VictimsHaveSettled
  <1>1. SweepInv => VictimsHaveSettled
    BY DEF SweepInv, VictimsHaveSettled
  <1> QED
    BY <1>1, SystemInvHolds, PTL

(* The types of all variables. *)
THEOREM SystemTypeCorrect == SystemSpec => []PurgeTypeOK
  <1>1. SweepInv => PurgeTypeOK
    BY DEF SweepInv
  <1> QED
    BY <1>1, SystemInvHolds, PTL

-----------------------------------------------------------------------------
\* Whatever the sweep is about to delete has a newer generation beside it, so it
\* is never the latest of its document: a fact that no later run can undo.
VictimsAreOld ==
    \A g \in victims : \E h \in Gens : doc[h] = doc[g] /\ h > g /\ h <= started

LEMMA DeletableAreOld ==
    ASSUME SweepInv
    PROVE  \A g \in Deletable : \E h \in Gens : doc[h] = doc[g] /\ h > g /\ h <= started
  BY DEF Deletable, SweepInv, PurgeTypeOK

LEMMA VictimsStayOld ==
    ASSUME Inv, SweepInv, VictimsAreOld, [SystemNext]_allVars
    PROVE  VictimsAreOld'
  <1>1. started \in Nat /\ victims \subseteq Gens /\ (\A g \in victims : g <= started)
    <2>1. started \in Nat /\ victims \subseteq Gens
      BY SizesAssumption DEF Inv, TypeOK, SweepInv, PurgeTypeOK
    <2>2. ASSUME NEW g \in victims
          PROVE  g <= started
      BY <2>1 DEF VictimsAreOld, Gens
    <2> QED
      BY <2>1, <2>2
  <1>2. CASE [Next]_vars /\ UNCHANGED purgeVars
    <2>1. victims' = victims
      BY <1>2 DEF purgeVars
    <2>2. started' >= started /\ \A h \in Gens : h <= started => doc'[h] = doc[h]
      <3>1. CASE UNCHANGED <<doc, started>>
        BY <1>1, <3>1
      <3>2. ASSUME NEW d \in Docs,
                   (\E n \in 0..MaxFile : StartRun(d, n)) \/ RejectRun(d)
            PROVE  started' >= started /\ \A h \in Gens : h <= started => doc'[h] = doc[h]
        <4>1. started' = started + 1 /\ doc' = [doc EXCEPT ![started + 1] = d]
          BY <3>2 DEF StartRun, RejectRun
        <4>2. ASSUME NEW h \in Gens, h <= started
              PROVE  doc'[h] = doc[h]
          <5>1. h # started + 1
            BY <1>1, <4>2 DEF Gens
          <5>2. doc \in [Gens -> Docs \cup {NoDoc}]
            BY DEF Inv, TypeOK
          <5> QED
            BY <4>1, <5>1, <5>2
        <4> QED
          BY <1>1, <4>1, <4>2
      <3>3. ASSUME NEW g \in Gens, RunStep(g)
            PROVE  UNCHANGED <<doc, started>>
        BY <3>3, RunStepShape DEF jobVars
      <3> QED
        BY <1>2, <3>1, <3>2, <3>3 DEF Next, RunStep, Tick, vars, jobVars
    <2>3. started' \in Nat
      <3>1. started' \in 0..MaxRuns
        BY <1>2, InvStep DEF Inv, TypeOK
      <3> QED
        BY <3>1, SizesAssumption
    <2>4. ASSUME NEW g \in victims
          PROVE  \E h \in Gens : doc'[h] = doc'[g] /\ h > g /\ h <= started'
      <3>1. PICK h \in Gens : doc[h] = doc[g] /\ h > g /\ h <= started
        BY DEF VictimsAreOld
      <3>2. h <= started'
        BY <1>1, <2>2, <2>3, <3>1 DEF Gens
      <3>3. doc'[h] = doc[h] /\ doc'[g] = doc[g]
        BY <1>1, <2>2, <3>1
      <3> QED
        BY <3>1, <3>2, <3>3
    <2> QED
      BY <2>1, <2>4 DEF VictimsAreOld
  <1>3. CASE PurgeStep
    <2>1. UNCHANGED <<doc, started>>
      BY <1>3, SweepShape DEF runVars, jobVars
    <2>2. victims' \subseteq victims \/ victims' = Deletable
      BY <1>3 DEF PurgeStep, StartSweep, PassPoints, DeleteVictim, DeleteFails, ScanEnds,
                  ScanFails, ChooseVictims, EndSweep, SweepDies
    <2> QED
      BY <2>1, <2>2, DeletableAreOld DEF VictimsAreOld
  <1> QED
    BY <1>2, <1>3 DEF SystemNext, allVars

(* A sweep spares the runs in flight and the latest generation of a document,  *)
(* so it never breaks what holds while the runs of a document are serial.      *)
LEMMA SweepKeepsSerial ==
    ASSUME Inv, SweepInv, VictimsAreOld, SerialInv, PurgeStep
    PROVE  SerialInv'
  <1>1. UNCHANGED <<pc, doc, size, stored>>
    BY SweepShape DEF runVars, jobVars
  <1>2. \A g \in Gens : store'[g] \subseteq store[g]
    BY SweepShape
  <1>3. ASSUME NEW g \in Gens, g \notin victims
        PROVE  store'[g] = store[g]
    BY <1>3, SweepShape DEF OwnDeleted, Inv, TypeOK
  <1>4. ASSUME NEW g \in Gens, Active(g)
        PROVE  g \notin victims
    BY <1>4 DEF SweepInv, Active, Running, Writing, Settled
  <1>5. \A g \in Gens : Alone(g)'
    <2> SUFFICES ASSUME NEW g \in Gens
                 PROVE  Alone(g)'
      OBVIOUS
    <2>1. CASE Active(g)
      BY <1>1, <1>3, <1>4, <2>1 DEF SerialInv, Alone, Complete
    <2>2. CASE ~Active(g)
      BY <1>1, <2>2 DEF Alone, Active, Running, Writing
    <2> QED
      BY <2>1, <2>2
  <1>6. \A g, h \in Gens : Active(g)' /\ doc'[h] = doc'[g] /\ h > g
                              => pc'[h] = "failed" /\ store'[h] = {}
    BY <1>1, <1>2 DEF SerialInv, Active
  <1>7. LatestDoneIsTheOnlyOne'
    <2> SUFFICES ASSUME NEW g \in Gens, pc[g] = "done",
                        \A h \in Gens : doc[h] = doc[g] => h <= g
                 PROVE  /\ Complete(g)'
                        /\ \A h \in Gens : doc[h] = doc[g] /\ h # g => store'[h] = {}
      BY <1>1 DEF LatestDoneIsTheOnlyOne
    <2>1. Complete(g) /\ \A h \in Gens : doc[h] = doc[g] /\ h # g => store[h] = {}
      BY DEF SerialInv, LatestDoneIsTheOnlyOne
    <2>2. g \notin victims
      BY DEF VictimsAreOld, Gens
    <2> QED
      BY <1>1, <1>2, <1>3, <2>1, <2>2 DEF Complete
  <1> QED
    BY <1>5, <1>6, <1>7 DEF SerialInv

THEOREM SystemSerialInvHolds ==
    SystemSpec /\ []OneRunPerDoc => [](SerialInv /\ VictimsAreOld)
  <1>1. SystemInit => SerialInv /\ VictimsAreOld
    BY SerialInit DEF SystemInit, PurgeInit, VictimsAreOld
  <1>2. /\ Inv /\ SweepInv /\ OneRunPerDoc /\ OneRunPerDoc' /\ [SystemNext]_allVars
        /\ SerialInv /\ VictimsAreOld
        => SerialInv' /\ VictimsAreOld'
    <2> SUFFICES ASSUME Inv, SweepInv, OneRunPerDoc, OneRunPerDoc', [SystemNext]_allVars,
                        SerialInv, VictimsAreOld
                 PROVE  SerialInv' /\ VictimsAreOld'
      OBVIOUS
    <2>1. VictimsAreOld'
      BY VictimsStayOld
    <2>2. CASE [Next]_vars /\ UNCHANGED purgeVars
      BY <2>1, <2>2, SerialStep
    <2>3. CASE PurgeStep
      BY <2>1, <2>3, SweepKeepsSerial
    <2> QED
      BY <2>2, <2>3 DEF SystemNext, allVars
  <1> QED
    BY <1>1, <1>2, SystemInvHolds, PTL DEF SystemSpec

(* While runs of one document are serial, a success leaves its complete        *)
(* generation and no other, and no sweep, whatever it read before, takes any   *)
(* of it away or brings anything back.                                         *)
THEOREM LatestDoneDespiteSweep == SystemSpec /\ []OneRunPerDoc => []LatestDoneIsTheOnlyOne
  <1>1. SerialInv => LatestDoneIsTheOnlyOne
    BY DEF SerialInv
  <1> QED
    BY <1>1, SystemSerialInvHolds, PTL
=============================================================================
