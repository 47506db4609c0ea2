------------------------- MODULE IngestionPipeline -------------------------
(***************************************************************************)
(* IngestionPipeline.ingest_file and the Qdrant collection it writes.      *)
(*                                                                         *)
(* Every call is a run, and owns one generation (a fresh uuid): runs are   *)
(* numbered in the order they start, and the number is the generation.     *)
(* A run pulls batches of chunks, embeds and upserts each one, and then    *)
(* commits by deleting every other generation of its document.  An         *)
(* exception while writing rolls the generation back.  Requests to the     *)
(* embedding service and to Qdrant go through _retry.  A request that      *)
(* raises may or may not have taken effect.  A process may die anywhere.   *)
(***************************************************************************)
EXTENDS Integers, FiniteSets

CONSTANTS
    Docs,        \* (user_id, doc_id) pairs
    NoDoc,       \* the document of a run that has not started
    MaxRuns,     \* bound: number of ingest_file calls in a behaviour
    NumWorkers,  \* Celery worker processes
    BatchSize,   \* _BATCH_SIZE
    MaxChunks,   \* _MAX_CHUNKS_PER_DOC
    MaxFile,     \* bound: the largest number of chunks a file produces
    MaxAttempts, \* attempts of _retry (_QDRANT_MAX_RETRIES, _EMBED_MAX_RETRIES)
    HardLimit,   \* task_time_limit, in ticks
    MaxTime      \* bound: the clock stops here

ASSUME DocsAssumption == NoDoc \notin Docs
ASSUME SizesAssumption ==
    /\ MaxRuns \in Nat
    /\ NumWorkers \in Nat \ {0}
    /\ BatchSize \in Nat \ {0}
    /\ MaxChunks \in Nat
    /\ MaxFile \in Nat
    /\ MaxAttempts \in Nat \ {0}
    /\ HardLimit \in Nat
    /\ MaxTime \in Nat

VARIABLES
    store,    \* the collection: chunk indexes present, per generation
    pc,       \* where the run of each generation is
    doc,      \* its document: payload fields user_id, doc_id
    size,     \* the number of chunks its file produces
    created,  \* payload field created_at
    stored,   \* the local variable `stored`
    attempt,  \* attempt number of the _retry in progress
    started,  \* number of runs started so far
    now       \* the clock

jobVars == <<doc, size, created>>
vars == <<store, pc, doc, size, created, stored, attempt, started, now>>

Gens == 1..MaxRuns

Writing == {"pull", "embed", "upsert"}        \* inside the try of lines 236-313
Requesting == {"embed", "upsert", "rollback", "commit"}  \* inside a _retry
Running == Writing \cup {"rollback", "commit"}
Settled == {"failed", "rolled_back", "rollback_failed",
            "cleanup_failed", "done", "crashed"}

Active(g) == pc[g] \in Running

Init ==
    /\ store = [g \in Gens |-> {}]
    /\ pc = [g \in Gens |-> "unused"]
    /\ doc = [g \in Gens |-> NoDoc]
    /\ size = [g \in Gens |-> 0]
    /\ created = [g \in Gens |-> 0]
    /\ stored = [g \in Gens |-> 0]
    /\ attempt = [g \in Gens |-> 1]
    /\ started = 0
    /\ now = 0

-----------------------------------------------------------------------------
(* The current batch and the effect of the current request on Qdrant. *)

\* _batched: the next BatchSize chunks, fewer at the end of the stream.
BatchLen(g) == IF size[g] - stored[g] < BatchSize THEN size[g] - stored[g]
                                                  ELSE BatchSize

\* Point ids derive from generation and chunk index, so an upsert that is
\* repeated writes the same points again.
Batch(g) == stored[g] .. (stored[g] + BatchLen(g) - 1)

\* Mutant of OthersDeleted: the filter forgets must_not.
DocumentDeleted(g) == [h \in Gens |-> IF doc[h] = doc[g] THEN {} ELSE store[h]]
\* Mutant of OthersDeleted: only the preceding generation is deleted.
PrecedingDeleted(g) ==
    [h \in Gens |-> IF doc[h] = doc[g] /\ h = g - 1 THEN {} ELSE store[h]]

\* The delete of the commit: all other generations of the same document.
OthersDeleted(g) == [h \in Gens |-> IF doc[h] = doc[g] /\ h # g THEN {} ELSE store[h]]

\* Mutant of OwnDeleted: only the chunks counted in `stored` are deleted.
OnlyCountedDeleted(g) == [store EXCEPT ![g] = @ \ (0 .. (stored[g] - 1))]
\* Mutant of OwnDeleted: the filter forgets the generation.
AllDeleted(g) == [h \in Gens |-> IF doc[h] = doc[g] THEN {} ELSE store[h]]

\* The delete of the rollback: the run's own generation.
OwnDeleted(g) == [store EXCEPT ![g] = {}]

\* The collection after the request that run g is making has been applied.
Applied(g) ==
    CASE pc[g] = "upsert"   -> [store EXCEPT ![g] = @ \cup Batch(g)]
      [] pc[g] = "rollback" -> OwnDeleted(g)
      [] pc[g] = "commit"   -> OthersDeleted(g)
      [] OTHER              -> store

\* A request that raises (connection lost, read timeout) may have been applied.
RequestRaises(g) == store' \in {store, Applied(g)}

Goto(g, label) ==
    /\ pc' = [pc EXCEPT ![g] = label]
    /\ attempt' = [attempt EXCEPT ![g] = 1]

\* Mutant of Handler: a rollback that fails starts again.
HandlerInsists(g) ==
    CASE pc[g] \in Writing /\ stored[g] = 0 -> "failed"
      [] pc[g] = "commit"                   -> "cleanup_failed"
      [] OTHER                              -> "rollback"

\* Where an exception that escapes from the current step takes the run: the
\* handlers of lines 315-320, 186-192 and 352-363.
Handler(g) ==
    CASE pc[g] \in Writing /\ stored[g] > 0 -> "rollback"
      [] pc[g] \in Writing /\ stored[g] = 0 -> "failed"
      [] pc[g] = "rollback"                 -> "rollback_failed"
      [] OTHER                              -> "cleanup_failed"

-----------------------------------------------------------------------------
(* Starting a run. *)

BusyWorkers == Cardinality({g \in Gens : Active(g)})

\* A worker takes a task.  The file passes the checks of lines 215-219 and will
\* produce n chunks; the generation is drawn and created_at is stamped now.
StartRun(d, n) ==
    LET g == started + 1 IN
    /\ started < MaxRuns
    /\ BusyWorkers < NumWorkers
    /\ started' = g
    /\ doc' = [doc EXCEPT ![g] = d]
    /\ size' = [size EXCEPT ![g] = n]
    /\ created' = [created EXCEPT ![g] = now]
    /\ pc' = [pc EXCEPT ![g] = "pull"]
    /\ UNCHANGED <<store, stored, attempt, now>>

\* The checks, or the clients' constructors, raise before anything is written.
RejectRun(d) ==
    LET g == started + 1 IN
    /\ started < MaxRuns
    /\ BusyWorkers < NumWorkers
    /\ started' = g
    /\ doc' = [doc EXCEPT ![g] = d]
    /\ created' = [created EXCEPT ![g] = now]
    /\ pc' = [pc EXCEPT ![g] = "failed"]
    /\ UNCHANGED <<store, size, stored, attempt, now>>

-----------------------------------------------------------------------------
(* The loop of lines 237-313. *)

\* Mutant of FitsLimit: the batch about to be written is not counted.
FitsLimitBefore(g) == stored[g] <= MaxChunks

FitsLimit(g) == stored[g] + BatchLen(g) <= MaxChunks

PullBatch(g) ==
    /\ pc[g] = "pull"
    /\ stored[g] < size[g]
    /\ FitsLimit(g)
    /\ Goto(g, "embed")
    /\ UNCHANGED <<store, jobVars, stored, started, now>>

RejectTooLarge(g) ==
    /\ pc[g] = "pull"
    /\ stored[g] < size[g]
    /\ ~FitsLimit(g)
    /\ Goto(g, Handler(g))
    /\ UNCHANGED <<store, jobVars, stored, started, now>>

\* The stream is exhausted: commit, unless the file had no text at all.
EndOfStream(g) ==
    /\ pc[g] = "pull"
    /\ stored[g] = size[g]
    /\ Goto(g, IF stored[g] = 0 THEN "failed" ELSE "commit")
    /\ UNCHANGED <<store, jobVars, stored, started, now>>

EmbedOk(g) ==
    /\ pc[g] = "embed"
    /\ Goto(g, "upsert")
    /\ UNCHANGED <<store, jobVars, stored, started, now>>

\* The upsert returns and `stored` is advanced.  The progress callback follows;
\* whatever it raises is swallowed.
UpsertOk(g) ==
    /\ pc[g] = "upsert"
    /\ store' = Applied(g)
    /\ stored' = [stored EXCEPT ![g] = @ + BatchLen(g)]
    /\ Goto(g, "pull")
    /\ UNCHANGED <<jobVars, started, now>>

-----------------------------------------------------------------------------
(* Commit and rollback. *)

CommitOk(g) ==
    /\ pc[g] = "commit"
    /\ store' = Applied(g)
    /\ Goto(g, "done")
    /\ UNCHANGED <<jobVars, stored, started, now>>

RollbackOk(g) ==
    /\ pc[g] = "rollback"
    /\ store' = Applied(g)
    /\ Goto(g, "rolled_back")
    /\ UNCHANGED <<jobVars, stored, started, now>>

-----------------------------------------------------------------------------
(* Exceptions.  _retry, around each request; what escapes it; a dying process. *)

\* Mutant of Retry: one attempt too many.
RetryOnceMore(g) ==
    /\ pc[g] \in Requesting
    /\ attempt[g] <= MaxAttempts
    /\ RequestRaises(g)
    /\ attempt' = [attempt EXCEPT ![g] = @ + 1]
    /\ UNCHANGED <<pc, jobVars, stored, started, now>>

\* An attempt raises and another one is left.
Retry(g) ==
    /\ pc[g] \in Requesting
    /\ attempt[g] < MaxAttempts
    /\ RequestRaises(g)
    /\ attempt' = [attempt EXCEPT ![g] = @ + 1]
    /\ UNCHANGED <<pc, jobVars, stored, started, now>>

\* The last attempt raises: the exception escapes to the handler.
GiveUp(g) ==
    /\ pc[g] \in Requesting
    /\ attempt[g] = MaxAttempts
    /\ RequestRaises(g)
    /\ Goto(g, Handler(g))
    /\ UNCHANGED <<jobVars, stored, started, now>>

\* An exception that _retry does not absorb: an IngestionError of the loader or
\* of the vector count, a failure of the sparse model, SoftTimeLimitExceeded
\* outside the calls of _retry (in its sleep, or right after its return).
Raise(g) ==
    /\ pc[g] \in Running
    /\ RequestRaises(g)
    /\ Goto(g, Handler(g))
    /\ UNCHANGED <<jobVars, stored, started, now>>

\* SIGKILL, OOM, node loss, or the hard time limit.
Crash(g) ==
    /\ pc[g] \in Running
    /\ RequestRaises(g)
    /\ Goto(g, "crashed")
    /\ UNCHANGED <<jobVars, stored, started, now>>

\* Time passes; a run never outlives the hard time limit.
Tick ==
    /\ now < MaxTime
    /\ \A g \in Gens : Active(g) => now - created[g] < HardLimit
    /\ now' = now + 1
    /\ UNCHANGED <<store, pc, jobVars, stored, attempt, started>>

-----------------------------------------------------------------------------

\* What the process does when left alone.
Step(g) ==
    \/ PullBatch(g) \/ RejectTooLarge(g) \/ EndOfStream(g)
    \/ EmbedOk(g) \/ UpsertOk(g)
    \/ CommitOk(g) \/ RollbackOk(g)
    \/ Retry(g) \/ GiveUp(g)

Next ==
    \/ \E d \in Docs :
          \/ \E n \in 0..MaxFile : StartRun(d, n)
          \/ RejectRun(d)
    \/ \E g \in Gens : Step(g) \/ Raise(g) \/ Crash(g)
    \/ Tick

Spec == Init /\ [][Next]_vars

\* A worker process executes its task; each request ends or times out.
FairSpec == Spec /\ \A g \in Gens : WF_vars(Step(g))

-----------------------------------------------------------------------------
(* Properties. *)

(* Types of the variables; a store entry is a chunk index of a file. *)
TypeOK ==
    /\ store \in [Gens -> SUBSET (0 .. (MaxFile - 1))]
    /\ pc \in [Gens -> {"unused"} \cup Running \cup Settled]
    /\ doc \in [Gens -> Docs \cup {NoDoc}]
    /\ size \in [Gens -> 0..MaxFile]
    /\ created \in [Gens -> 0..MaxTime]
    /\ stored \in [Gens -> 0..MaxFile]
    /\ attempt \in [Gens -> 1..MaxAttempts]
    /\ started \in 0..MaxRuns
    /\ now \in 0..MaxTime

\* Every chunk that the file of generation g produces is present.
Complete(g) == size[g] > 0 /\ store[g] = 0 .. (size[g] - 1)

\* The run of g will not delete its own generation any more.
Settling(g) == pc[g] \in Settled \cup {"commit"}

\* The complete versions of document d.
Versions(d) == {g \in Gens : doc[g] = d /\ Settling(g) /\ Complete(g)}

\* No two runs work on the same document at the same time.  One worker process,
\* as the README deploys it, makes it so; the code itself does not.
OneRunPerDoc ==
    \A g, h \in Gens : Active(g) /\ Active(h) /\ doc[g] = doc[h] => g = h

(* A document that has a complete version has one after every step: uploads    *)
(* that fail, are rolled back, crash or commit never take the last one away.   *)
(* The safety model in the docstring of ingestion_pipeline.py, lines 15-16.    *)
StaysServed == \A d \in Docs : Versions(d) # {} => Versions(d)' # {}
AlwaysServed == [][StaysServed]_vars

(* Ingestion implements the abstract store of versions: a version appears      *)
(* whole and newest, and versions disappear only by being superseded.          *)
Abs == INSTANCE DocumentVersions WITH versions <- [d \in Docs |-> Versions(d)]
ImplementsVersions == Abs!Spec

(* After a successful run and until another run of the document starts, its    *)
(* generation is complete and is the only one: no leftover of an earlier       *)
(* failure survives, however many runs failed before.                          *)
LatestDoneIsTheOnlyOne ==
    \A g \in Gens :
        pc[g] = "done" /\ (\A h \in Gens : doc[h] = doc[g] => h <= g)
            => /\ Complete(g)
               /\ \A h \in Gens : doc[h] = doc[g] /\ h # g => store[h] = {}

(* What a failed run can leave: nothing once its rollback succeeded, not even  *)
(* a batch whose upsert was applied but reported as an error; at most the      *)
(* first batch when `stored` was still 0 and the rollback was skipped.         *)
FailureResidue ==
    \A g \in Gens :
        /\ pc[g] = "rolled_back" => store[g] = {}
        /\ pc[g] = "failed" => store[g] \subseteq 0 .. (BatchSize - 1)

(* No generation ever holds more than _MAX_CHUNKS_PER_DOC chunks, also at the  *)
(* boundary of a batch and when an upsert is repeated.                         *)
WithinChunkLimit == \A g \in Gens : store[g] \subseteq 0 .. (MaxChunks - 1)

(* Retries are bounded: every run that has started settles.                    *)
RunsTerminate == \A g \in Gens : Active(g) ~> ~Active(g)
=============================================================================
