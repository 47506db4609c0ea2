----------------------------- MODULE IngestTask -----------------------------
(***************************************************************************)
(* From the broker to the end of a task: delivery, execution by a pool of  *)
(* worker processes, retries, redelivery, and the daily purge of uploads.  *)
(*                                                                         *)
(* Celery and its Redis transport are external, modelled as celery_app.py  *)
(* configures them.  A message stays unacknowledged until its execution has*)
(* ended (task_acks_late); one that is not acknowledged within the         *)
(* visibility timeout returns to the queue, and so does one whose process  *)
(* died (task_reject_on_worker_lost).  A retry is a new message with a     *)
(* countdown, and the worker holds it until that has passed.               *)
(*                                                                         *)
(* Two names that tasks.py imports or calls are defined nowhere.  The      *)
(* pattern STORED_NAME_RE is taken to match the names submit_upload makes, *)
(* and guaranteed_file_cleanup to try _remove_file however the block ends, *)
(* or to leave the file for a retry: the file may be gone or not.          *)
(***************************************************************************)
EXTENDS Upload

CONSTANTS
    Workers,     \* the processes of the pool
    NoMsg,       \* what an idle process executes
    MaxRetries,  \* max_retries
    MaxCopies,   \* bound: retry messages of a task
    HardLimit,   \* task_time_limit, in ticks
    Visibility,  \* visibility_timeout
    Countdown,   \* the countdown of a retry
    PurgeAge,    \* 24 hours
    MaxLosses    \* bound: deaths of worker processes

ASSUME TaskAssumption ==
    /\ IsFiniteSet(Workers)
    /\ NoMsg \notin Uploads \X (0..MaxCopies)
    /\ {MaxRetries, MaxCopies, HardLimit, Countdown, MaxLosses} \subseteq Nat
    /\ PurgeAge \in Nat \ {0}
    /\ Visibility \in Nat /\ Visibility > HardLimit

VARIABLES
    queue,     \* messages in the broker's queue
    unacked,   \* messages delivered and not acknowledged
    reserved,  \* messages in the memory of the worker, not begun
    copies,    \* retry messages of each task
    retries,   \* request.retries of each message
    begun,     \* how often the execution of a message was begun
    held,      \* ticks since a message was delivered
    eta,       \* ticks until a message may be executed
    exec,      \* the message each process executes
    phase,     \* where its execution is
    ran,       \* ticks since it began
    age,       \* ticks since the last write to the file of an upload
    result,    \* the status in the result backend
    losses

brokerVars == <<queue, unacked, reserved, copies, retries, held, eta>>
execVars == <<exec, phase, ran, begun>>
taskVars == <<uploadVars, brokerVars, execVars, age, result, losses>>

\* <<u, 0>> is the first message of task u, <<u, k>> its k-th retry message.
Msgs == Uploads \X (0..MaxCopies)

Final == {"done", "failed", "FAILURE"}
Statuses == {"PENDING", "STARTED", "PROGRESS", "RETRY"} \cup Final

Executing == {"validating", "ingesting", "broken", "done", "failed", "raised", "again"}

TaskInit ==
    /\ UploadInit
    /\ queue = {} /\ unacked = {} /\ reserved = {}
    /\ copies = [u \in Uploads |-> 0]
    /\ retries = [m \in Msgs |-> 0]
    /\ begun = [m \in Msgs |-> 0]
    /\ held = [m \in Msgs |-> 0]
    /\ eta = [m \in Msgs |-> 0]
    /\ exec = [w \in Workers |-> NoMsg]
    /\ phase = [w \in Workers |-> "idle"]
    /\ ran = [w \in Workers |-> 0]
    /\ age = [u \in Uploads |-> 0]
    /\ result = [u \in Uploads |-> "PENDING"]
    /\ losses = 0

-----------------------------------------------------------------------------
(* The API side, and the broker. *)

\* A step of an upload; a task that it pushes is in the queue.
Submit ==
    /\ UploadNext
    /\ queue' = queue \cup {<<u, 0>> : u \in pushed' \ pushed}
    /\ age' = [u \in Uploads |-> IF u \in files /\ written'[u] # written[u] THEN 0 ELSE age[u]]
    /\ UNCHANGED <<unacked, reserved, copies, retries, held, eta, execVars, result, losses>>

\* Messages that count against worker_prefetch_multiplier = 1; one that waits
\* for its countdown does not.
Prefetched ==
    {m \in reserved : eta[m] = 0} \cup {exec[w] : w \in {v \in Workers : exec[v] # NoMsg}}

\* A message that returned while the worker has it in memory is there once.
Deliver(m) ==
    /\ m \in queue
    /\ Cardinality(Prefetched) < Cardinality(Workers)
    /\ queue' = queue \ {m}
    /\ unacked' = unacked \cup {m}
    /\ reserved' = reserved \cup {m}
    /\ held' = [held EXCEPT ![m] = 0]
    /\ UNCHANGED <<uploadVars, copies, retries, eta, execVars, age, result, losses>>

\* The visibility timeout.
Lapse(m) ==
    /\ m \in unacked
    /\ held[m] = Visibility
    /\ unacked' = unacked \ {m}
    /\ queue' = queue \cup {m}
    /\ UNCHANGED <<uploadVars, reserved, copies, retries, held, eta, execVars, age, result, losses>>

-----------------------------------------------------------------------------
(* ingest_document, in worker process w. *)

Moved(w, label) == phase' = [phase EXCEPT ![w] = label]

File(w) == exec[w][1]

\* Mutant of Startable: the countdown is ignored.
StartableAtOnce(w, m) == exec[w] = NoMsg /\ m \in reserved

Startable(w, m) == exec[w] = NoMsg /\ m \in reserved /\ eta[m] = 0

\* Mutant of Begin: task_track_started is not set.
BeginUnseen(w, m) ==
    /\ Startable(w, m)
    /\ reserved' = reserved \ {m}
    /\ exec' = [exec EXCEPT ![w] = m]
    /\ ran' = [ran EXCEPT ![w] = 0]
    /\ begun' = [begun EXCEPT ![m] = @ + 1]
    /\ Moved(w, "validating")
    /\ UNCHANGED <<uploadVars, queue, unacked, copies, retries, held, eta, age, result, losses>>

Begin(w, m) ==
    /\ Startable(w, m)
    /\ reserved' = reserved \ {m}
    /\ exec' = [exec EXCEPT ![w] = m]
    /\ ran' = [ran EXCEPT ![w] = 0]
    /\ begun' = [begun EXCEPT ![m] = @ + 1]
    /\ result' = [result EXCEPT ![m[1]] = "STARTED"]
    /\ Moved(w, "validating")
    /\ UNCHANGED <<uploadVars, queue, unacked, copies, retries, held, eta, age, losses>>

\* validate_file_reference finds a file of an acceptable size.
Validated(w) ==
    /\ phase[w] = "validating"
    /\ File(w) \in files
    /\ written[File(w)] \in 1..MaxParts
    /\ Moved(w, "ingesting")
    /\ UNCHANGED <<uploadVars, brokerVars, exec, ran, begun, age, result, losses>>

\* The file is missing, or the system refuses access: a failure is returned.
Invalid(w) ==
    /\ phase[w] = "validating"
    /\ Moved(w, "failed")
    /\ UNCHANGED <<uploadVars, brokerVars, exec, ran, begun, age, result, losses>>

\* progress_cb
Progress(w) ==
    /\ phase[w] = "ingesting"
    /\ result' = [result EXCEPT ![File(w)] = "PROGRESS"]
    /\ UNCHANGED <<uploadVars, brokerVars, execVars, age, losses>>

\* The block ends: ingest_file returned, or raised an IngestionError or the soft
\* time limit ("failed"), or something unexpected ("broken").
Leave(w) ==
    /\ phase[w] = "ingesting"
    /\ \E outcome \in {"done", "failed", "broken"} : Moved(w, outcome)
    /\ files' \in {files, Unlinked(File(w))}
    /\ UNCHANGED <<upload, sent, opens, written, pushed, brokerVars, exec, ran, begun, age, result, losses>>

\* The soft time limit strikes where nothing catches it: before the block, or in
\* the handler of the unexpected error.
SoftLimit(w) ==
    /\ phase[w] \in {"validating", "broken"}
    /\ Moved(w, "raised")
    /\ UNCHANGED <<uploadVars, brokerVars, exec, ran, begun, age, result, losses>>

\* Mutant of LastTry: it counts from one.
LastTryLater(w) == retries[exec[w]] > MaxRetries

LastTry(w) == retries[exec[w]] >= MaxRetries

Rethrow(w) ==
    /\ phase[w] = "broken"
    /\ LastTry(w)
    /\ Moved(w, "raised")
    /\ UNCHANGED <<uploadVars, brokerVars, exec, ran, begun, age, result, losses>>

\* The next message reaches the broker.
Published(w) ==
    LET u == File(w)
        m == <<u, copies[u] + 1>> IN
    /\ copies[u] < MaxCopies
    /\ copies' = [copies EXCEPT ![u] = @ + 1]
    /\ retries' = [retries EXCEPT ![m] = retries[exec[w]] + 1]
    /\ eta' = [eta EXCEPT ![m] = Countdown]
    /\ queue' = queue \cup {m}

\* self.retry publishes it and raises Retry.
PublishRetry(w) ==
    /\ phase[w] = "broken"
    /\ ~LastTry(w)
    /\ Published(w)
    /\ Moved(w, "again")
    /\ UNCHANGED <<uploadVars, unacked, reserved, held, exec, ran, begun, age, result, losses>>

\* Publishing raises, although the message may have reached the broker: Celery
\* makes it Reject(requeue=False), and stores no status for this execution.
RetryRaises(w) ==
    /\ phase[w] = "broken"
    /\ ~LastTry(w)
    /\ Published(w) \/ UNCHANGED <<copies, retries, eta, queue>>
    /\ Moved(w, "rejected")
    /\ UNCHANGED <<uploadVars, unacked, reserved, held, exec, ran, begun, age, result, losses>>

\* The status with which an execution ends.
Outcome(w) ==
    CASE phase[w] = "again"  -> "RETRY"
      [] phase[w] = "raised" -> "FAILURE"
      [] OTHER               -> phase[w]

Store(w) ==
    /\ phase[w] \in {"done", "failed", "raised", "again"}
    /\ result' = [result EXCEPT ![File(w)] = Outcome(w)]
    /\ Moved(w, "stored")
    /\ UNCHANGED <<uploadVars, brokerVars, exec, ran, begun, age, losses>>

Idle(w) ==
    /\ exec' = [exec EXCEPT ![w] = NoMsg]
    /\ ran' = [ran EXCEPT ![w] = 0]
    /\ Moved(w, "idle")

\* Mutant of Acked: acknowledged only when the file was ingested.
AckedIfDone(w) == IF result[File(w)] = "done" THEN unacked \ {exec[w]} ELSE unacked

\* The unacknowledged messages once that of w is acknowledged.
Acked(w) == unacked \ {exec[w]}

\* A rejection without requeue is to the broker what an acknowledgement is.
Ack(w) ==
    /\ phase[w] \in {"stored", "rejected"}
    /\ unacked' = Acked(w)
    /\ Idle(w)
    /\ UNCHANGED <<uploadVars, queue, reserved, copies, retries, held, eta, begun, age, result, losses>>

-----------------------------------------------------------------------------
(* Time limits and deaths. *)

\* The hard time limit kills the process; the task fails and is acknowledged.  A
\* retry is published and its status is stored in no time that counts.
HardKill(w) ==
    /\ phase[w] \in Executing \ {"again"}
    /\ ran[w] = HardLimit
    /\ result' = [result EXCEPT ![File(w)] = "FAILURE"]
    /\ unacked' = Acked(w)
    /\ Idle(w)
    /\ UNCHANGED <<uploadVars, queue, reserved, copies, retries, held, eta, begun, age, losses>>

\* Mutant of Rejected: the message of a dead process is not given back.
Dropped(m) == unacked' = unacked \ {m} /\ UNCHANGED queue

\* task_reject_on_worker_lost: the message returns to the queue at once.
Rejected(m) ==
    /\ unacked' = unacked \ {m}
    /\ queue' = IF m \in unacked THEN queue \cup {m} ELSE queue

ProcessDies(w) ==
    /\ exec[w] # NoMsg
    /\ losses < MaxLosses
    /\ losses' = losses + 1
    /\ Rejected(exec[w])
    /\ Idle(w)
    /\ UNCHANGED <<uploadVars, reserved, copies, retries, held, eta, begun, age, result>>

\* The whole worker dies: only the visibility timeout brings its messages back.
NodeDies ==
    /\ unacked # {}
    /\ losses < MaxLosses
    /\ losses' = losses + 1
    /\ reserved' = {}
    /\ exec' = [w \in Workers |-> NoMsg]
    /\ phase' = [w \in Workers |-> "idle"]
    /\ ran' = [w \in Workers |-> 0]
    /\ UNCHANGED <<uploadVars, queue, unacked, copies, retries, held, eta, begun, age, result>>

Older(n, bound) == IF n < bound THEN n + 1 ELSE bound

\* Time passes, but neither beyond the hard limit of an execution, nor while a
\* process could begin one, nor between the publication of a retry and its status.
Tick ==
    /\ \A w \in Workers : exec[w] # NoMsg => ran[w] < HardLimit /\ phase[w] # "again"
    /\ ~\E w \in Workers, m \in reserved : Startable(w, m)
    /\ ran' = [w \in Workers |-> IF exec[w] # NoMsg THEN ran[w] + 1 ELSE ran[w]]
    /\ held' = [m \in Msgs |-> IF m \in unacked THEN Older(held[m], Visibility) ELSE 0]
    /\ eta' = [m \in Msgs |-> IF eta[m] > 0 THEN eta[m] - 1 ELSE 0]
    /\ age' = [u \in Uploads |-> IF u \in files THEN Older(age[u], PurgeAge) ELSE age[u]]
    /\ UNCHANGED <<uploadVars, queue, unacked, reserved, copies, retries, exec, phase, begun, result, losses>>

\* Mutant of Stale: only the files of finished tasks are swept.
StaleAndFinal(u) == age[u] = PurgeAge /\ result[u] \in Final

Stale(u) == age[u] = PurgeAge

\* purge_stale_local_uploads meets the file of u.
PurgeFile(u) ==
    /\ u \in files
    /\ Stale(u)
    /\ files' = Unlinked(u)
    /\ UNCHANGED <<upload, sent, opens, written, pushed, brokerVars, execVars, age, result, losses>>

-----------------------------------------------------------------------------

TaskStep(w) ==
    \/ \E m \in Msgs : Begin(w, m)
    \/ Validated(w) \/ Invalid(w) \/ Leave(w) \/ SoftLimit(w)
    \/ Rethrow(w) \/ PublishRetry(w) \/ RetryRaises(w)
    \/ Store(w) \/ Ack(w) \/ HardKill(w)

TaskNext ==
    \/ Submit
    \/ \E m \in Msgs : Deliver(m) \/ Lapse(m)
    \/ \E w \in Workers : TaskStep(w) \/ Progress(w) \/ ProcessDies(w)
    \/ NodeDies
    \/ Tick
    \/ \E u \in Uploads : PurgeFile(u)

TaskSpec == TaskInit /\ [][TaskNext]_taskVars

\* Time passes; Redis and Celery deliver; processes execute what they hold; the
\* daily purge removes what it meets; clients end their requests or are cut off.
TaskFairSpec ==
    /\ TaskSpec
    /\ WF_taskVars(Tick)
    /\ \A m \in Msgs : WF_taskVars(Deliver(m)) /\ WF_taskVars(Lapse(m))
    /\ \A w \in Workers : WF_taskVars(TaskStep(w))
    /\ \A u \in Uploads : WF_taskVars(PurgeFile(u)) /\ WF_taskVars(Submit /\ UploadStep(u))
-----------------------------------------------------------------------------
(* Properties. *)

(* Types of the variables; a message is in the queue or unacknowledged, not both. *)
TaskTypeOK ==
    /\ UploadTypeOK
    /\ queue \subseteq Msgs /\ unacked \subseteq Msgs \ queue /\ reserved \subseteq Msgs
    /\ copies \in [Uploads -> 0..MaxCopies]
    /\ retries \in [Msgs -> 0..MaxRetries]
    /\ begun \in [Msgs -> Nat]
    /\ held \in [Msgs -> 0..Visibility]
    /\ eta \in [Msgs -> 0..Countdown]
    /\ exec \in [Workers -> Msgs \cup {NoMsg}]
    /\ phase \in [Workers -> {"idle", "stored", "rejected"} \cup Executing]
    /\ ran \in [Workers -> 0..HardLimit]
    /\ age \in [Uploads -> 0..PurgeAge]
    /\ result \in [Uploads -> Statuses]
    /\ losses \in 0..MaxLosses

(* A task that no process has begun finds the whole file it was pushed for,    *)
(* however its request ended (answered 503, cancelled while the push went on,  *)
(* the process died); only a wait of 24 hours in the queue, after which the    *)
(* purge may take the file, can prevent it.                                    *)
FilesAwaitTasks ==
    \A u \in pushed :
        result[u] = "PENDING" /\ age[u] < PurgeAge => u \in files /\ Whole(u)

(* The execution of a message is begun once, and again only if worker processes*)
(* died: "Must be greater than task_time_limit to prevent duplicate execution" *)
(* (celery_app.py:46).                                                         *)
BegunOnce == \A m \in Msgs : begun[m] <= 1 + losses

(* A final status is taken back only where a message of the task was delivered *)
(* a second time and begun again, and perhaps finds that the first execution   *)
(* has removed the file (tasks.py:190): never by the retries of the task, nor  *)
(* by the execution that published a retry and has still to end (tasks.py:237).*)
FinalStatusStays ==
    [][\A u \in Uploads :
          result[u] \in Final /\ result'[u] # result[u]
              => \E k \in 0..copies[u] : begun'[<<u, k>>] > 1]_taskVars

(* What the result backend shows is what TaskLifecycle describes.              *)
Busy(u) == {w \in Workers : phase[w] \in Executing /\ File(w) = u}
Active == [u \in Uploads |-> Cardinality(Busy(u))]
Lifecycle == INSTANCE TaskLifecycle WITH Tasks <- Uploads, active <- Active,
                                    MaxActive <- Cardinality(Workers)
ImplementsLifecycle == Lifecycle!LifecycleSpec

\* An execution of u could not publish its retry.
Unheard(u) == \E w \in Workers : phase[w] = "rejected" /\ File(w) = u

(* Every task that was pushed gets a final status, although processes die at   *)
(* any step, messages have to be given back, and retries have to come round;   *)
(* unless the broker cannot be reached when a retry is due (tasks.py:237).     *)
TasksEnd == \A u \in Uploads :
    []~Unheard(u) => (u \in pushed ~> result[u] \in Final)

(* No file stays in UPLOAD_DIR for ever: not that of a request answered 503,   *)
(* nor of one whose process died, nor of a task that was killed or could not   *)
(* remove it ("Guaranteed Cleanup", tasks.py:182, and "Fallback", tasks.py:243).*)
FilesGo == \A u \in Uploads : u \in files ~> u \notin files
=============================================================================
