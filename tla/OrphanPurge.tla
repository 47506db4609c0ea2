---------------------------- MODULE OrphanPurge ----------------------------
(***************************************************************************)
(* purge_orphaned_generations beside the ingestion runs.                   *)
(*                                                                         *)
(* The sweep scrolls through the collection and remembers the generations  *)
(* it meets, per document; then it deletes, for each document of which it  *)
(* met several, all but the newest, provided they are older than the grace *)
(* period.  It shares nothing with the runs but the collection, and what it*)
(* remembers may be stale when it deletes.  Nothing in the repository      *)
(* calls it: a scheduler does, at any time.                                *)
(***************************************************************************)
EXTENDS IngestionPipeline

CONSTANTS
    MinAge,   \* min_age_seconds, in ticks
    MaxDocs   \* max_docs

\* 3600 s against the 720 s after which a run is killed.
ASSUME GracePeriodAssumption ==
    /\ MinAge \in Nat
    /\ MinAge > HardLimit
    /\ MaxDocs \in Nat

VARIABLES
    sweep,    \* "idle", "scan" or "delete"
    cutoff,   \* creation times up to this one are old
    unread,   \* generations whose points the scroll has not passed yet
    seen,     \* generations met so far
    victims   \* generations still to be deleted

purgeVars == <<sweep, cutoff, unread, seen, victims>>
runVars == <<pc, jobVars, stored, attempt, started, now>>
allVars == <<vars, purgeVars>>

PurgeInit ==
    /\ sweep = "idle"
    /\ cutoff = 0
    /\ unread = {}
    /\ seen = {}
    /\ victims = {}

StartSweep ==
    /\ sweep = "idle"
    /\ sweep' = "scan"
    /\ cutoff' = now - MinAge
    /\ unread' = Gens
    /\ UNCHANGED <<seen, victims, vars>>

\* The scroll passes the points of generation g (point ids are hashes: in any
\* order).  A document beyond the first MaxDocs is skipped.
SeenDocs == {doc[g] : g \in seen}

PassPoints(g) ==
    /\ sweep = "scan"
    /\ g \in unread
    /\ unread' = unread \ {g}
    /\ seen' = IF /\ store[g] # {}
                  /\ doc[g] \in SeenDocs \/ Cardinality(SeenDocs) < MaxDocs
               THEN seen \cup {g} ELSE seen
    /\ UNCHANGED <<sweep, cutoff, victims, vars>>

\* Mutant of Deletable: the grace period is not checked.
DeletableAtAnyAge == {g \in seen : \E h \in seen : doc[h] = doc[g] /\ h > g}
\* Mutant of Deletable: the oldest generation is kept, not the newest.
DeletableButOldest == {g \in seen : /\ \E h \in seen : doc[h] = doc[g] /\ h < g
                                    /\ created[g] <= cutoff}
\* Mutant of Deletable: a document with a single generation is not skipped.
DeletableEvenSingle == {g \in seen : created[g] <= cutoff}

\* Every old generation but the newest of its document, as the scan saw them.
\* created_at has the resolution of a float: it orders runs as their numbers do.
Deletable == {g \in seen : /\ \E h \in seen : doc[h] = doc[g] /\ h > g
                           /\ created[g] <= cutoff}

ChooseVictims ==
    /\ sweep = "scan"
    /\ sweep' = "delete"
    /\ victims' = Deletable
    /\ unread' = {}
    /\ seen' = {}
    /\ UNCHANGED <<cutoff, vars>>

ScanEnds == unread = {} /\ ChooseVictims

\* scroll raises: the sweep goes on with what it has.
ScanFails == unread # {} /\ ChooseVictims

DeleteVictim(g) ==
    /\ sweep = "delete"
    /\ g \in victims
    /\ victims' = victims \ {g}
    /\ store' = OwnDeleted(g)
    /\ UNCHANGED <<sweep, cutoff, unread, seen, runVars>>

\* The delete raises; it is logged and not repeated.  (Raising after it was
\* applied makes no difference: see DeleteVictim.)
DeleteFails(g) ==
    /\ sweep = "delete"
    /\ g \in victims
    /\ victims' = victims \ {g}
    /\ UNCHANGED <<sweep, cutoff, unread, seen, vars>>

EndSweep ==
    /\ sweep = "delete"
    /\ victims = {}
    /\ sweep' = "idle"
    /\ cutoff' = 0
    /\ UNCHANGED <<unread, seen, victims, vars>>

\* The process that sweeps dies with work left.
SweepDies ==
    /\ sweep = "scan" \/ victims # {}
    /\ sweep' = "idle"
    /\ cutoff' = 0
    /\ unread' = {}
    /\ seen' = {}
    /\ victims' = {}
    /\ UNCHANGED vars

PurgeStep ==
    \/ StartSweep
    \/ \E g \in Gens : PassPoints(g) \/ DeleteVictim(g) \/ DeleteFails(g)
    \/ ScanEnds \/ ScanFails
    \/ EndSweep \/ SweepDies

SystemInit == Init /\ PurgeInit
SystemNext == (Next /\ UNCHANGED purgeVars) \/ PurgeStep
SystemSpec == SystemInit /\ [][SystemNext]_allVars

SweepFault ==
    \/ ScanFails \/ SweepDies
    \/ \E g \in Gens : store[g] # {} /\ DeleteFails(g)

SweepProgress ==
    \/ StartSweep
    \/ \E g \in Gens : PassPoints(g) \/ DeleteVictim(g)
    \/ ScanEnds \/ EndSweep

\* The sweep is scheduled again and again, and there comes a time after which it
\* no longer dies and Qdrant answers it.  The runs make progress.
SystemFairSpec ==
    /\ SystemSpec
    /\ \A g \in Gens : WF_allVars(Step(g) /\ UNCHANGED purgeVars)
    /\ WF_allVars(SweepProgress)
    /\ <>[][~SweepFault]_allVars

-----------------------------------------------------------------------------
(* Properties. *)

(* Types of the sweep's variables. *)
PurgeTypeOK ==
    /\ TypeOK
    /\ sweep \in {"idle", "scan", "delete"}
    /\ cutoff \in Int
    /\ unread \subseteq Gens
    /\ seen \subseteq Gens
    /\ victims \subseteq Gens

(* "an ingestion that is still legitimately in flight is never touched" (lines *)
(* 390-392): whatever the sweep still has to delete has settled, although the  *)
(* sweep decided on what it read earlier.                                      *)
VictimsHaveSettled == \A g \in victims : pc[g] \in Settled

(* A leftover of a settled run, older than the grace period, is eventually     *)
(* removed when its document also has a newer generation to stay.              *)
Superseded(g) ==
    /\ pc[g] \in Settled
    /\ created[g] <= now - MinAge
    /\ store[g] # {}
    /\ \E h \in Gens : doc[h] = doc[g] /\ h > g /\ pc[h] \in Settled /\ store[h] # {}
SupersededAreSwept == \A g \in Gens : Superseded(g) ~> (store[g] = {})
=============================================================================
