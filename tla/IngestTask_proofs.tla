------------------------- MODULE IngestTask_proofs -------------------------
(***************************************************************************)
(* Proofs about Upload and IngestTask, for any number of uploads and any   *)
(* size limit, of worker processes, retries and deaths, and for all time   *)
(* limits.                                                                 *)
(***************************************************************************)
EXTENDS IngestTask, FiniteSetTheorems, TLAPS

(* Upload. *)

\* Requests whose file passed every check.
Checked == {"enqueuing", "accepted", "unavailable", "cancelled"}

\* A file that is being streamed has passed the checks so far; one that is there
\* belongs to a request that has begun and was not turned down; a thread creates
\* only the file of a request that has written nothing; and only a task with a
\* whole file is pushed.
UploadInv ==
    /\ UploadTypeOK
    /\ \A u \in Uploads :
          /\ upload[u] = "streaming" =>
                /\ written[u] <= sent[u].parts
                /\ written[u] <= MaxParts
                /\ written[u] > 0 => sent[u].genuine
          /\ upload[u] \in Checked => Whole(u)
          /\ upload[u] \in {"idle", "opening", "abandoned"} => written[u] = 0
          /\ u \in opens => upload[u] \in {"opening", "abandoned"}
          /\ upload[u] \in {"idle", "refused", "aborted"} \/ u \in opens => u \notin files
          /\ u \in pushed => upload[u] \in (Checked \ {"enqueuing"}) \cup {"died"} /\ Whole(u)

LEMMA UploadInvInit == UploadInit => UploadInv
  BY UploadAssumption DEF UploadInit, UploadInv, UploadTypeOK, Inputs, NoInput, Checked, Ended

LEMMA UploadInvStep == UploadInv /\ [UploadNext]_uploadVars => UploadInv'
  <1> SUFFICES ASSUME UploadInv, [UploadNext]_uploadVars
               PROVE  UploadInv'
    OBVIOUS
  <1> USE UploadAssumption
      DEF UploadInv, UploadTypeOK, Inputs, Checked, Ended, Whole, Goto
  <1>1. CASE UNCHANGED uploadVars
    BY <1>1 DEF uploadVars
  <1>2. ASSUME NEW u \in Uploads, Refuse(u)
        PROVE  UploadInv'
    BY <1>2 DEF Refuse
  <1>3. ASSUME NEW u \in Uploads, NEW input \in Inputs, Open(u, input)
        PROVE  UploadInv'
    BY <1>3 DEF Open
  <1>4. ASSUME NEW u \in Uploads, WritePart(u)
        PROVE  UploadInv'
    BY <1>4 DEF WritePart, More, Unacceptable
  <1>5. ASSUME NEW u \in Uploads, RefusePart(u)
        PROVE  UploadInv'
    BY <1>5 DEF RefusePart, More, Unlinked
  <1>6. ASSUME NEW u \in Uploads, EndOfUpload(u)
        PROVE  UploadInv'
    BY <1>6 DEF EndOfUpload, Unlinked
  <1>7. ASSUME NEW u \in Uploads, Abort(u)
        PROVE  UploadInv'
    BY <1>7 DEF Abort, Unlinked
  <1>8. ASSUME NEW u \in Uploads, PushOk(u)
        PROVE  UploadInv'
    BY <1>8 DEF PushOk
  <1>9. ASSUME NEW u \in Uploads, PushRaises(u)
        PROVE  UploadInv'
    BY <1>9 DEF PushRaises
  <1>10. ASSUME NEW u \in Uploads, PushUnawaited(u)
         PROVE  UploadInv'
    BY <1>10 DEF PushUnawaited
  <1>11. CASE ApiDies
    BY <1>11 DEF ApiDies
  <1>12. ASSUME NEW u \in Uploads, Create(u)
         PROVE  UploadInv'
    BY <1>12 DEF Create
  <1>13. ASSUME NEW u \in Uploads, Opened(u)
         PROVE  UploadInv'
    BY <1>13 DEF Opened
  <1>14. ASSUME NEW u \in Uploads, AbandonOpen(u)
         PROVE  UploadInv'
    BY <1>14 DEF AbandonOpen, Unlinked
  <1> QED
    BY <1>1, <1>2, <1>3, <1>4, <1>5, <1>6, <1>7, <1>8, <1>9, <1>10, <1>11, <1>12, <1>13, <1>14
       DEF UploadNext, UploadStep

LEMMA UploadInvHolds == UploadSpec => []UploadInv
  BY UploadInvInit, UploadInvStep, PTL DEF UploadSpec

(* The variables of submit_upload keep their types, for any number of requests.*)
THEOREM UploadTypeCorrect == UploadSpec => []UploadTypeOK
  <1>1. UploadInv => UploadTypeOK
    BY DEF UploadInv
  <1> QED
    BY <1>1, UploadInvHolds, PTL

(* However requests end, what they leave in UPLOAD_DIR has passed every check, *)
(* unless the process died, or the request was cancelled while a thread opened *)
(* its file, which can stay without a byte in it.                              *)
THEOREM OnlyWholeFilesStayHolds == UploadSpec => []OnlyWholeFilesStay
  <1>1. UploadInv => OnlyWholeFilesStay
    BY DEF UploadInv, UploadTypeOK, OnlyWholeFilesStay, Checked, Ended
  <1> QED
    BY <1>1, UploadInvHolds, PTL

-----------------------------------------------------------------------------
(* IngestTask: what is where, and the files of the tasks. *)

\* A request whose file is there, or will be, for a task.
Waiting(u) ==
    \/ upload[u] = "opening" /\ u \notin opens
    \/ upload[u] \in {"streaming", "enqueuing"}
    \/ u \in pushed

\* Messages are those of tasks that were pushed, numbered as they were published;
\* a task that is being executed has a status; and the file of one that is not
\* has been there since it was begun, unless it became 24 hours old.
TaskInv ==
    /\ TaskTypeOK
    /\ UploadInv
    /\ \A m \in queue \cup unacked \cup reserved : m[1] \in pushed /\ m[2] <= copies[m[1]]
    /\ \A w \in Workers :
          /\ exec[w] = NoMsg <=> phase[w] = "idle"
          /\ exec[w] # NoMsg => exec[w][1] \in pushed /\ result[exec[w][1]] # "PENDING"
    /\ \A u \in Uploads :
          Waiting(u) /\ result[u] = "PENDING" => u \in files \/ age[u] = PurgeAge

LEMMA TaskInvInit == TaskInit => TaskInv
  <1> SUFFICES ASSUME TaskInit
               PROVE  TaskInv
    OBVIOUS
  <1>1. UploadInv
    BY UploadInvInit DEF TaskInit
  <1>2. TaskTypeOK
    BY <1>1, TaskAssumption DEF TaskInit, TaskTypeOK, UploadInv, Msgs, Statuses, Executing
  <1>3. \A u \in Uploads : ~Waiting(u)
    BY DEF TaskInit, UploadInit, Waiting
  <1> QED
    BY <1>1, <1>2, <1>3 DEF TaskInit, TaskInv

(* What a step of an upload means for the broker and for the file's age. *)
LEMMA UploadShape ==
    ASSUME UploadInv, UploadNext
    PROVE  /\ pushed \subseteq pushed'
           /\ \A u \in Uploads :
                 /\ Waiting(u)' =>
                       \/ u \in opens /\ u \in files'
                       \/ Waiting(u) /\ (u \in files => u \in files')
                 /\ written'[u] # written[u] => upload[u] = "streaming"
  <1> DEFINE Shape ==
        /\ pushed \subseteq pushed'
        /\ \A u \in Uploads :
              /\ Waiting(u)' =>
                    \/ u \in opens /\ u \in files'
                    \/ Waiting(u) /\ (u \in files => u \in files')
              /\ written'[u] # written[u] => upload[u] = "streaming"
  <1> SUFFICES Shape
    OBVIOUS
  <1> USE DEF UploadInv, UploadTypeOK, Waiting, Goto, Ended, Checked, Unlinked
  <1>1. ASSUME NEW v \in Uploads,
               Refuse(v) \/ (\E input \in Inputs : Open(v, input)) \/ Create(v)
        PROVE  Shape
    BY <1>1 DEF Refuse, Open, Create
  <1>2. ASSUME NEW v \in Uploads, WritePart(v) \/ RefusePart(v)
        PROVE  Shape
    BY <1>2 DEF WritePart, RefusePart, More
  <1>3. ASSUME NEW v \in Uploads, Opened(v) \/ AbandonOpen(v) \/ EndOfUpload(v) \/ Abort(v)
        PROVE  Shape
    BY <1>3 DEF Opened, AbandonOpen, EndOfUpload, Abort
  <1>4. ASSUME NEW v \in Uploads, PushOk(v) \/ PushRaises(v) \/ PushUnawaited(v)
        PROVE  Shape
    BY <1>4 DEF PushOk, PushRaises, PushUnawaited
  <1>5. CASE ApiDies
    BY <1>5 DEF ApiDies
  <1> QED
    BY <1>1, <1>2, <1>3, <1>4, <1>5 DEF UploadNext, UploadStep

(* Removing a file breaks nothing that holds of the uploads. *)
LEMMA FewerFilesKeepUploadInv ==
    ASSUME UploadInv, files' \subseteq files, UNCHANGED <<upload, sent, opens, written, pushed>>
    PROVE  UploadInv'
  BY DEF UploadInv, UploadTypeOK, Whole

(* Steps of uploads. *)
LEMMA SubmitKeepsTaskInv ==
    ASSUME TaskInv, Submit
    PROVE  TaskInv'
  <1>1. UploadInv'
    BY UploadInvStep DEF TaskInv, Submit
  <1>2. pushed \subseteq pushed' /\ pushed' \subseteq Uploads
    BY <1>1, UploadShape DEF TaskInv, Submit, UploadInv, UploadTypeOK
  <1>3. \A m \in queue' \cup unacked' \cup reserved' : m[1] \in pushed' /\ m[2] <= copies'[m[1]]
    <2>1. \A u \in pushed' : 0 <= copies[u]
      BY <1>2 DEF TaskInv, TaskTypeOK
    <2> QED
      BY <1>2, <2>1 DEF TaskInv, Submit
  <1>4. TaskTypeOK'
    <2>1. queue' \subseteq Msgs /\ unacked' \subseteq Msgs \ queue'
      BY <1>2, TaskAssumption DEF TaskInv, TaskTypeOK, Submit, Msgs
    <2>2. age' \in [Uploads -> 0..PurgeAge]
      BY TaskAssumption DEF TaskInv, TaskTypeOK, Submit
    <2> QED
      BY <1>1, <2>1, <2>2 DEF TaskInv, TaskTypeOK, Submit, execVars, UploadInv
  <1>5. ASSUME NEW u \in Uploads, Waiting(u)', result'[u] = "PENDING"
        PROVE  u \in files' \/ age'[u] = PurgeAge
    BY <1>5, UploadShape DEF TaskInv, Submit
  <1>6. ASSUME NEW w \in Workers
        PROVE  /\ exec'[w] = NoMsg <=> phase'[w] = "idle"
               /\ exec'[w] # NoMsg =>
                     exec'[w][1] \in pushed' /\ result'[exec'[w][1]] # "PENDING"
    BY <1>2 DEF TaskInv, Submit, execVars
  <1> QED
    BY <1>1, <1>3, <1>4, <1>5, <1>6 DEF TaskInv

(* Steps of the broker. *)
LEMMA BrokerKeepsTaskInv ==
    ASSUME TaskInv, NEW m \in Msgs, Deliver(m) \/ Lapse(m)
    PROVE  TaskInv'
  <1>1. UploadInv'
    BY FewerFilesKeepUploadInv DEF TaskInv, Deliver, Lapse, uploadVars
  <1>2. TaskTypeOK'
    BY <1>1, TaskAssumption DEF TaskInv, TaskTypeOK, Deliver, Lapse, execVars, UploadInv
  <1> QED
    BY <1>1, <1>2 DEF TaskInv, Deliver, Lapse, execVars, uploadVars, Waiting

(* Steps of an execution, up to the end of its block. *)
LEMMA ExecutionKeepsTaskInv ==
    ASSUME TaskInv, NEW w \in Workers,
           \/ \E m \in Msgs : Begin(w, m)
           \/ Validated(w) \/ Invalid(w) \/ Progress(w) \/ Leave(w) \/ SoftLimit(w)
    PROVE  TaskInv'
  <1> USE TaskAssumption DEF TaskInv, TaskTypeOK, Moved, File, Msgs
  <1>1. files' \subseteq files /\ UNCHANGED <<upload, sent, opens, written, pushed>>
    BY DEF Begin, Validated, Invalid, Progress, Leave, SoftLimit, Unlinked, uploadVars
  <1>2. UploadInv' /\ UploadTypeOK'
    BY <1>1, FewerFilesKeepUploadInv DEF UploadInv
  <1>3. ASSUME NEW m \in Msgs, Begin(w, m)
        PROVE  TaskInv'
    BY <1>2, <1>3 DEF Begin, Startable, Statuses, Executing, uploadVars, Waiting
  <1>4. CASE Validated(w) \/ Invalid(w) \/ SoftLimit(w)
    BY <1>2, <1>4 DEF Validated, Invalid, SoftLimit, Executing, uploadVars, brokerVars, Waiting
  <1>5. CASE Progress(w)
    BY <1>2, <1>5 DEF Progress, Statuses, uploadVars, brokerVars, execVars, Waiting
  <1>6. CASE Leave(w)
    BY <1>2, <1>6 DEF Leave, Unlinked, Executing, brokerVars, Waiting
  <1> QED
    BY <1>3, <1>4, <1>5, <1>6

(* The end of an execution: its retry, its status, its acknowledgement. *)
LEMMA EndKeepsTaskInv ==
    ASSUME TaskInv, NEW w \in Workers,
           \/ Rethrow(w) \/ PublishRetry(w) \/ RetryRaises(w)
           \/ Store(w) \/ Ack(w) \/ HardKill(w)
    PROVE  TaskInv'
  <1> USE TaskAssumption DEF TaskInv, TaskTypeOK, Moved, File, Msgs
  <1>1. UNCHANGED uploadVars
    BY DEF Rethrow, PublishRetry, RetryRaises, Store, Ack, HardKill
  <1>2. UploadInv' /\ UploadTypeOK'
    BY <1>1, FewerFilesKeepUploadInv DEF UploadInv, uploadVars
  <1>3. CASE Rethrow(w)
    BY <1>2, <1>3 DEF Rethrow, Executing, uploadVars, brokerVars, Waiting
  <1>4. ASSUME Published(w), phase[w] = "broken", ~LastTry(w),
               NEW label \in {"again", "rejected"}, Moved(w, label),
               UNCHANGED <<unacked, reserved, held, exec, ran, begun, age, result, losses>>
        PROVE  TaskInv'
    <2>1. PICK u \in Uploads : u = exec[w][1] /\ exec[w] \in Msgs
      BY <1>4
    <2> DEFINE next == <<u, copies[u] + 1>>
    <2>2. next \in Msgs /\ next \notin unacked /\ retries[exec[w]] + 1 \in 0..MaxRetries
      BY <1>4, <2>1 DEF Published, LastTry
    <2>3. /\ queue' = queue \cup {next} /\ copies' = [copies EXCEPT ![u] = @ + 1]
          /\ retries' = [retries EXCEPT ![next] = retries[exec[w]] + 1]
          /\ eta' = [eta EXCEPT ![next] = Countdown]
      BY <1>4, <2>1 DEF Published
    <2>4. u \in pushed /\ copies[u] + 1 \in 0..MaxCopies
      BY <1>4, <2>1, <2>2
    <2>5. TaskTypeOK'
      BY <1>2, <1>4, <2>2, <2>3, <2>4 DEF Executing
    <2>6. \A m \in queue' \cup unacked' \cup reserved' : m[1] \in pushed' /\ m[2] <= copies'[m[1]]
      BY <1>1, <1>4, <2>2, <2>3, <2>4 DEF uploadVars
    <2>7. \A v \in Workers :
             /\ exec'[v] = NoMsg <=> phase'[v] = "idle"
             /\ exec'[v] # NoMsg =>
                   exec'[v][1] \in pushed' /\ result'[exec'[v][1]] # "PENDING"
      BY <1>1, <1>4 DEF uploadVars
    <2> QED
      BY <1>1, <1>2, <1>4, <2>5, <2>6, <2>7 DEF uploadVars, Waiting
  <1>8. ASSUME RetryRaises(w), UNCHANGED <<copies, retries, eta, queue>>
        PROVE  TaskInv'
    BY <1>2, <1>8 DEF RetryRaises, uploadVars, Waiting
  <1>5. CASE Store(w)
    BY <1>2, <1>5 DEF Store, Outcome, Statuses, Final, Executing, uploadVars, brokerVars, Waiting
  <1>6. CASE Ack(w)
    BY <1>2, <1>6 DEF Ack, Acked, Idle, uploadVars, Waiting
  <1>7. CASE HardKill(w)
    BY <1>2, <1>7 DEF HardKill, Acked, Idle, Statuses, Final, Executing, uploadVars, Waiting
  <1> QED
    BY <1>3, <1>4, <1>5, <1>6, <1>7, <1>8 DEF PublishRetry, RetryRaises

(* Deaths, the clock and the sweep. *)
LEMMA OthersKeepTaskInv ==
    ASSUME TaskInv,
           \/ \E w \in Workers : ProcessDies(w)
           \/ NodeDies \/ Tick
           \/ \E u \in Uploads : PurgeFile(u)
    PROVE  TaskInv'
  <1> USE TaskAssumption DEF TaskInv, TaskTypeOK, Moved
  <1>1. files' \subseteq files /\ UNCHANGED <<upload, sent, opens, written, pushed>>
    BY DEF ProcessDies, NodeDies, Tick, PurgeFile, Unlinked, uploadVars
  <1>2. UploadInv' /\ UploadTypeOK'
    BY <1>1, FewerFilesKeepUploadInv DEF UploadInv
  <1>3. ASSUME NEW w \in Workers, ProcessDies(w)
        PROVE  TaskInv'
    BY <1>2, <1>3 DEF ProcessDies, Rejected, Idle, uploadVars, Waiting
  <1>4. CASE NodeDies
    BY <1>2, <1>4 DEF NodeDies, uploadVars, Waiting
  <1>5. CASE Tick
    BY <1>2, <1>5 DEF Tick, Older, uploadVars, Waiting
  <1>6. ASSUME NEW u \in Uploads, PurgeFile(u)
        PROVE  TaskInv'
    BY <1>2, <1>6 DEF PurgeFile, Stale, Unlinked, brokerVars, execVars, Waiting
  <1> QED
    BY <1>3, <1>4, <1>5, <1>6

LEMMA TaskInvStep == TaskInv /\ [TaskNext]_taskVars => TaskInv'
  <1> SUFFICES ASSUME TaskInv, [TaskNext]_taskVars
               PROVE  TaskInv'
    OBVIOUS
  <1>1. CASE UNCHANGED taskVars
    <2>1. UploadInv'
      BY <1>1, FewerFilesKeepUploadInv DEF TaskInv, taskVars, uploadVars
    <2> QED
      BY <1>1, <2>1 DEF TaskInv, TaskTypeOK, UploadInv, taskVars, uploadVars, brokerVars,
                        execVars, Waiting
  <1>2. CASE TaskNext
    BY <1>2, SubmitKeepsTaskInv, BrokerKeepsTaskInv, ExecutionKeepsTaskInv,
       EndKeepsTaskInv, OthersKeepTaskInv DEF TaskNext, TaskStep
  <1> QED
    BY <1>1, <1>2

LEMMA TaskInvHolds == TaskSpec => []TaskInv
  BY TaskInvInit, TaskInvStep, PTL DEF TaskSpec

(* Messages, counters and statuses keep their types, and no message is in the   *)
(* queue and unacknowledged at once: whatever is delivered again, retried or   *)
(* killed, a task is never tried more often than max_retries allows.           *)
THEOREM TaskTypeCorrect == TaskSpec => []TaskTypeOK
  <1>1. TaskInv => TaskTypeOK
    BY DEF TaskInv
  <1> QED
    BY <1>1, TaskInvHolds, PTL

(* A task that no process has begun finds the whole file it was pushed for,     *)
(* however its request ended, unless it has waited for 24 hours.               *)
THEOREM FilesAwaitTasksHolds == TaskSpec => []FilesAwaitTasks
  <1>1. TaskInv => FilesAwaitTasks
    <2> SUFFICES ASSUME TaskInv, NEW u \in pushed,
                        result[u] = "PENDING", age[u] < PurgeAge
                 PROVE  u \in files /\ Whole(u)
      BY DEF FilesAwaitTasks
    <2>1. u \in Uploads /\ Waiting(u) /\ Whole(u)
      BY DEF TaskInv, UploadInv, UploadTypeOK, Waiting
    <2> QED
      BY <2>1, TaskAssumption DEF TaskInv, TaskTypeOK
  <1> QED
    BY <1>1, TaskInvHolds, PTL

-----------------------------------------------------------------------------
(* How often a message is executed. *)

\* A retry that the worker holds gets a process while its execution can still end
\* before its visibility timeout: with the code's numbers, it waits for at most
\* 1000 - 720 s from its delivery, countdown included.
RetriesStartInTime ==
    \A m \in reserved : m[2] > 0 => held[m] + HardLimit < Visibility

\* A message that no process executes, and one will.
Owed(m) == m \in queue \cup unacked /\ \A w \in Workers : exec[w] # m

\* What a process executes is unacknowledged, it alone executes it, and it will have
\* ended before the visibility timeout.
RunsAlone(w) ==
    exec[w] # NoMsg =>
        /\ exec[w] \in unacked \ reserved
        /\ eta[exec[w]] = 0
        /\ held[exec[w]] + HardLimit < Visibility + ran[w]
        /\ \A v \in Workers : exec[v] = exec[w] => v = w

\* A first message is delivered only when a process is free for it: no time passes
\* before it is begun.
StartsAtOnce(m) ==
    m[2] = 0 => held[m] = 0 /\ Cardinality(Prefetched) <= Cardinality(Workers)

\* Begun once, and once more for each death, the execution that is owed included.
Counted(m) ==
    /\ begun[m] + (IF Owed(m) THEN 1 ELSE 0) <= 1 + losses
    /\ m[2] = 0 => eta[m] = 0
    /\ m[1] \notin pushed \/ m[2] > copies[m[1]] => begun[m] = 0

BegunInv ==
    /\ IsFiniteSet(reserved) /\ reserved \subseteq unacked
    /\ \A w \in Workers : RunsAlone(w)
    /\ \A m \in reserved : StartsAtOnce(m)
    /\ \A m \in Msgs : Counted(m)

LEMMA BegunInvInit == TaskInit => BegunInv
  <1> SUFFICES ASSUME TaskInit
               PROVE  BegunInv
    OBVIOUS
  <1>1. IsFiniteSet(reserved) /\ reserved \subseteq unacked
    BY FS_EmptySet DEF TaskInit
  <1>2. \A m \in Msgs : Counted(m)
    BY TaskAssumption DEF TaskInit, Counted, Owed
  <1> QED
    BY <1>1, <1>2 DEF TaskInit, BegunInv, RunsAlone

LEMMA PrefetchedIsFinite ==
    ASSUME IsFiniteSet(reserved)
    PROVE  IsFiniteSet(Prefetched) /\ Cardinality(Prefetched) \in Nat
  <1> DEFINE busy == {v \in Workers : exec[v] # NoMsg}
             due == {m \in reserved : eta[m] = 0}
  <1>1. IsFiniteSet(busy) /\ IsFiniteSet(due)
    BY TaskAssumption, FS_Subset
  <1>2. IsFiniteSet({exec[w] : w \in busy})
    <2> DEFINE T == {exec[w] : w \in busy}
               f == [w \in busy |-> exec[w]]
    <2>1. f \in Surjection(busy, T)
      BY DEF Surjection
    <2>2. IsFiniteSet(T)
      BY <1>1, <2>1, FS_Surjection
    <2> QED
      BY <2>2
  <1>3. IsFiniteSet(due \cup {exec[w] : w \in busy})
    BY <1>1, <1>2, FS_Union
  <1> QED
    BY <1>3, FS_CardinalityType DEF Prefetched

(* Fewer messages count against the prefetch limit. *)
LEMMA FewerPrefetched ==
    ASSUME IsFiniteSet(reserved), Prefetched' \subseteq Prefetched,
           Cardinality(Prefetched) <= Cardinality(Workers)
    PROVE  Cardinality(Prefetched') <= Cardinality(Workers)
  <1>1. IsFiniteSet(Prefetched) /\ Cardinality(Prefetched) \in Nat
    BY PrefetchedIsFinite
  <1>2. IsFiniteSet(Prefetched') /\ Cardinality(Prefetched') <= Cardinality(Prefetched)
    BY <1>1, FS_Subset
  <1>3. Cardinality(Prefetched') \in Nat /\ Cardinality(Workers) \in Nat
    BY <1>2, FS_CardinalityType, TaskAssumption
  <1> QED
    BY <1>1, <1>2, <1>3

(* Among no more messages than processes, one that is not executed finds a process. *)
LEMMA ProcessIsFree ==
    ASSUME TaskInv, BegunInv,
           NEW S, IsFiniteSet(S), Cardinality(S) <= Cardinality(Workers),
           \A w \in Workers : exec[w] # NoMsg => exec[w] \in S,
           NEW m \in S, \A w \in Workers : exec[w] # m
    PROVE  \E w \in Workers : exec[w] = NoMsg
  <1> SUFFICES ASSUME \A w \in Workers : exec[w] # NoMsg
               PROVE  FALSE
    OBVIOUS
  <1> DEFINE E == {exec[w] : w \in Workers}
  <1>1. exec \in [Workers -> E]
    BY DEF TaskInv, TaskTypeOK
  <1>2. \A v, w \in Workers : exec[v] = exec[w] => v = w
    BY DEF BegunInv, RunsAlone
  <1>3. ExistsBijection(Workers, E)
    BY <1>1, <1>2 DEF ExistsBijection, Bijection, Injection, Surjection, IsInjective
  <1>4. IsFiniteSet(E) /\ Cardinality(E) = Cardinality(Workers)
    BY <1>3, FS_Bijection, TaskAssumption
  <1>5. m \notin E /\ E \cup {m} \subseteq S
    OBVIOUS
  <1>6. Cardinality(E \cup {m}) = Cardinality(E) + 1 /\ IsFiniteSet(E \cup {m})
    BY <1>4, <1>5, FS_AddElement
  <1>7. Cardinality(E \cup {m}) <= Cardinality(S)
    BY <1>5, FS_Subset
  <1>8. Cardinality(S) \in Nat /\ Cardinality(Workers) \in Nat
    BY FS_CardinalityType, TaskAssumption
  <1> QED
    BY <1>4, <1>6, <1>7, <1>8

LEMMA SubmitKeepsBegunInv ==
    ASSUME TaskInv, TaskInv', BegunInv, Submit
    PROVE  BegunInv'
  <1>1. /\ pushed \subseteq pushed' /\ pushed' \subseteq Uploads
        /\ queue' = queue \cup {<<u, 0>> : u \in pushed' \ pushed}
        /\ UNCHANGED <<unacked, reserved, copies, held, eta, exec, ran, begun, losses>>
    BY UploadShape DEF TaskInv, Submit, UploadInv, UploadTypeOK, execVars
  <1>2. UNCHANGED Prefetched
    BY <1>1 DEF Prefetched
  <1>3. ASSUME NEW m \in Msgs
        PROVE  Counted(m)'
    <2>1. CASE m \in queue' \ queue
      <3>1. m[1] \notin pushed
        BY <1>1, <2>1
      <3>2. begun[m] = 0 /\ losses \in Nat
        BY <3>1, TaskAssumption DEF BegunInv, Counted, TaskInv, TaskTypeOK
      <3> QED
        BY <1>1, <3>2 DEF BegunInv, Counted
    <2>2. CASE m \notin queue' \ queue
      <3>1. m \in queue' <=> m \in queue
        BY <1>1, <2>2
      <3>2. Owed(m)' <=> Owed(m)
        BY <1>1, <3>1 DEF Owed
      <3> QED
        BY <1>1, <3>2 DEF BegunInv, Counted
    <2> QED
      BY <2>1, <2>2
  <1> QED
    BY <1>1, <1>2, <1>3 DEF BegunInv, RunsAlone, StartsAtOnce

LEMMA BrokerKeepsBegunInv ==
    ASSUME TaskInv, BegunInv, RetriesStartInTime, NEW m \in Msgs, Deliver(m) \/ Lapse(m)
    PROVE  BegunInv'
  <1> USE TaskAssumption
  <1>1. CASE Deliver(m)
    <2>1. /\ m \in queue /\ m \notin unacked /\ m \notin reserved
          /\ queue' = queue \ {m} /\ unacked' = unacked \cup {m}
          /\ reserved' = reserved \cup {m} /\ held' = [held EXCEPT ![m] = 0]
          /\ UNCHANGED <<uploadVars, copies, eta, execVars, losses>>
          /\ Cardinality(Prefetched) < Cardinality(Workers)
      BY <1>1 DEF Deliver, TaskInv, TaskTypeOK, BegunInv
    <2>2. IsFiniteSet(reserved') /\ reserved' \subseteq unacked'
      BY <2>1, FS_AddElement DEF BegunInv
    <2>3. Cardinality(Prefetched') <= Cardinality(Workers)
      <3>1. Prefetched' \subseteq Prefetched \cup {m}
        BY <2>1 DEF Prefetched, execVars
      <3>2. /\ IsFiniteSet(Prefetched) /\ Cardinality(Prefetched) \in Nat
            /\ Cardinality(Workers) \in Nat
        BY PrefetchedIsFinite, FS_CardinalityType DEF BegunInv
      <3>3. /\ IsFiniteSet(Prefetched \cup {m})
            /\ Cardinality(Prefetched \cup {m}) = IF m \in Prefetched THEN Cardinality(Prefetched)
                                                 ELSE Cardinality(Prefetched) + 1
        BY <3>2, FS_AddElement
      <3>4. /\ IsFiniteSet(Prefetched')
            /\ Cardinality(Prefetched') <= Cardinality(Prefetched \cup {m})
        BY <3>1, <3>3, FS_Subset
      <3>5. Cardinality(Prefetched') \in Nat
        BY <3>4, FS_CardinalityType
      <3> QED
        BY <2>1, <3>2, <3>3, <3>4, <3>5
    <2>4. \A n \in reserved' : StartsAtOnce(n)'
      BY <2>1, <2>3 DEF StartsAtOnce, BegunInv, TaskInv, TaskTypeOK
    <2>5. ASSUME NEW w \in Workers
          PROVE  RunsAlone(w)'
      BY <2>1 DEF RunsAlone, BegunInv, TaskInv, TaskTypeOK, execVars
    <2>6. ASSUME NEW n \in Msgs
          PROVE  Counted(n)'
      BY <2>1 DEF Counted, Owed, BegunInv, execVars, uploadVars
    <2> QED
      BY <2>2, <2>4, <2>5, <2>6 DEF BegunInv
  <1>2. CASE Lapse(m)
    <2>1. /\ m \in unacked /\ held[m] = Visibility
          /\ queue' = queue \cup {m} /\ unacked' = unacked \ {m}
          /\ UNCHANGED <<uploadVars, reserved, copies, held, eta, execVars, losses>>
      BY <1>2 DEF Lapse
    <2>2. m \notin reserved
      BY <2>1 DEF RetriesStartInTime, BegunInv, StartsAtOnce, Msgs
    <2>3. ASSUME NEW w \in Workers, exec[w] = m
          PROVE  FALSE
      <3>1. held[m] + HardLimit < Visibility + ran[w]
        BY <2>3 DEF BegunInv, RunsAlone, Msgs
      <3>2. ran[w] \in 0..HardLimit
        BY DEF TaskInv, TaskTypeOK
      <3> QED
        BY <2>1, <3>1, <3>2
    <2>4. \A n \in reserved' : StartsAtOnce(n)'
      BY <2>1 DEF StartsAtOnce, BegunInv, Prefetched, execVars
    <2>5. \A w \in Workers : RunsAlone(w)'
      BY <2>1, <2>3 DEF RunsAlone, BegunInv, execVars
    <2>6. \A n \in Msgs : Counted(n)'
      BY <2>1 DEF Counted, Owed, BegunInv, execVars, uploadVars
    <2> QED
      BY <2>1, <2>2, <2>4, <2>5, <2>6 DEF BegunInv
  <1> QED
    BY <1>1, <1>2

LEMMA BeginKeepsBegunInv ==
    ASSUME TaskInv, BegunInv, RetriesStartInTime,
           NEW w \in Workers, NEW m \in Msgs, Begin(w, m)
    PROVE  BegunInv'
  <1> USE TaskAssumption
  <1>1. /\ exec[w] = NoMsg /\ m \in reserved /\ m \in unacked /\ eta[m] = 0 /\ m # NoMsg
        /\ reserved' = reserved \ {m} /\ exec' = [exec EXCEPT ![w] = m]
        /\ ran' = [ran EXCEPT ![w] = 0] /\ begun' = [begun EXCEPT ![m] = @ + 1]
        /\ UNCHANGED <<uploadVars, queue, unacked, copies, held, eta, losses>>
    BY DEF Begin, Startable, BegunInv, Msgs
  <1>2. /\ exec'[w] = m /\ ran'[w] = 0 /\ begun'[m] = begun[m] + 1 /\ begun[m] \in Nat
        /\ \A v \in Workers \ {w} : exec'[v] = exec[v] /\ ran'[v] = ran[v]
        /\ \A n \in Msgs \ {m} : begun'[n] = begun[n]
    BY <1>1 DEF TaskInv, TaskTypeOK
  <1>3. IsFiniteSet(reserved') /\ reserved' \subseteq unacked'
    BY <1>1, FS_Subset DEF BegunInv
  <1>4. held[m] + HardLimit < Visibility
    BY <1>1 DEF RetriesStartInTime, BegunInv, StartsAtOnce, Msgs
  <1>5. \A v \in Workers : exec[v] # m
    BY <1>1 DEF BegunInv, RunsAlone
  <1>6. ASSUME NEW v \in Workers
        PROVE  RunsAlone(v)'
    <2>1. CASE v = w
      BY <1>1, <1>2, <1>4, <1>5, <2>1 DEF RunsAlone, TaskInv, TaskTypeOK
    <2>2. CASE v # w
      BY <1>1, <1>2, <1>5, <2>2 DEF RunsAlone, BegunInv
    <2> QED
      BY <2>1, <2>2
  <1>7. Prefetched' \subseteq Prefetched
    BY <1>1, <1>2 DEF Prefetched
  <1>8. ASSUME NEW n \in reserved'
        PROVE  StartsAtOnce(n)'
    BY <1>1, <1>7, FewerPrefetched DEF BegunInv, StartsAtOnce
  <1>9. ASSUME NEW n \in Msgs
        PROVE  Counted(n)'
    <2>1. CASE n = m
      <3>1. Owed(m) /\ ~Owed(m)'
        BY <1>1, <1>2, <1>5 DEF Owed
      <3>2. m[1] \in pushed /\ m[2] <= copies[m[1]]
        BY <1>1 DEF TaskInv
      <3>3. ~(m[2] > copies[m[1]])
        BY <3>2 DEF TaskInv, TaskTypeOK, Msgs
      <3>4. begun[m] + 1 <= 1 + losses /\ (m[2] = 0 => eta[m] = 0) /\ losses \in Nat
        BY <3>1 DEF BegunInv, Counted, TaskInv, TaskTypeOK
      <3>5. begun'[m] + 0 <= 1 + losses
        BY <1>2, <3>4
      <3> QED
        BY <1>1, <2>1, <3>1, <3>2, <3>3, <3>4, <3>5 DEF Counted, uploadVars
    <2>2. CASE n # m
      <3>1. Owed(n)' <=> Owed(n)
        BY <1>1, <1>2, <2>2 DEF Owed, Msgs
      <3> QED
        BY <1>1, <1>2, <2>2, <3>1 DEF Counted, BegunInv, uploadVars
    <2> QED
      BY <2>1, <2>2
  <1> QED
    BY <1>3, <1>6, <1>8, <1>9 DEF BegunInv

(* Steps that leave the broker alone, but for a retry, and the messages executed. *)
LEMMA SameExecutions ==
    ASSUME TaskInv, BegunInv,
           UNCHANGED <<unacked, reserved, held, exec, ran, begun, losses, pushed>>,
           \/ UNCHANGED <<queue, copies, eta>>
           \/ \E w \in Workers : exec[w] # NoMsg /\ Published(w)
    PROVE  BegunInv'
  <1> USE TaskAssumption
  <1>1. CASE UNCHANGED <<queue, copies, eta>>
    BY <1>1 DEF BegunInv, RunsAlone, StartsAtOnce, Counted, Owed, Prefetched
  <1>2. ASSUME NEW w \in Workers, exec[w] # NoMsg, Published(w)
        PROVE  BegunInv'
    <2>1. PICK u \in Uploads : u = exec[w][1] /\ exec[w] \in Msgs
      BY <1>2 DEF TaskInv, TaskTypeOK, Msgs
    <2>2. PICK k \in Nat : k = copies[u] + 1
      BY DEF TaskInv, TaskTypeOK
    <2>3. PICK next \in Msgs : next = <<u, k>>
      BY <1>2, <2>1, <2>2 DEF Published, File, Msgs, TaskInv, TaskTypeOK
    <2>4. /\ queue' = queue \cup {next} /\ copies' = [copies EXCEPT ![u] = @ + 1]
          /\ eta' = [eta EXCEPT ![next] = Countdown]
      BY <1>2, <2>1, <2>2, <2>3 DEF Published, File
    <2>5. next \notin unacked /\ next \notin reserved /\ begun[next] = 0 /\ next[2] # 0
      <3>1. copies[u] \in Nat /\ next[1] = u /\ next[2] = k
        BY <2>3 DEF TaskInv, TaskTypeOK
      <3>2. next[2] > copies[next[1]] /\ ~(next[2] <= copies[next[1]]) /\ next[2] # 0
        BY <2>2, <3>1
      <3>3. next \notin unacked /\ next \notin reserved
        BY <3>2 DEF TaskInv
      <3> QED
        BY <3>2, <3>3 DEF BegunInv, Counted
    <2>6. \A n \in Msgs \ {next} : eta'[n] = eta[n]
      BY <2>4 DEF TaskInv, TaskTypeOK
    <2>7. \A v \in Workers : exec[v] # NoMsg => exec[v] # next /\ exec[v] \in Msgs
      BY <2>5 DEF BegunInv, RunsAlone, TaskInv, TaskTypeOK
    <2>8. \A v \in Workers : RunsAlone(v)'
      BY <2>6, <2>7 DEF BegunInv, RunsAlone
    <2>9. Prefetched' = Prefetched
      <3>1. \A n \in reserved : n \in Msgs /\ n # next /\ eta'[n] = eta[n]
        BY <2>5, <2>6 DEF TaskInv, TaskTypeOK
      <3> QED
        BY <3>1 DEF Prefetched
    <2>10. \A n \in reserved' : StartsAtOnce(n)'
      BY <2>9 DEF BegunInv, StartsAtOnce
    <2>11. ASSUME NEW n \in Msgs
           PROVE  Counted(n)'
      <3>1. CASE n = next
        <4>1. begun'[n] = 0 /\ losses' \in Nat /\ n[2] # 0 /\ n[2] = k /\ n[1] = u
          BY <2>3, <2>5, <3>1 DEF TaskInv, TaskTypeOK
        <4> QED
          BY <4>1 DEF Counted
      <3>2. CASE n # next
        <4>1. Owed(n)' <=> Owed(n)
          BY <2>4, <3>2 DEF Owed
        <4>2. n[1] \in Uploads /\ n[2] \in Nat /\ (n[2] > copies'[n[1]] => n[2] > copies[n[1]])
          BY <2>4 DEF TaskInv, TaskTypeOK, Msgs
        <4> QED
          BY <2>6, <3>2, <4>1, <4>2 DEF BegunInv, Counted
      <3> QED
        BY <3>1, <3>2
    <2> QED
      BY <2>8, <2>10, <2>11 DEF BegunInv
  <1> QED
    BY <1>1, <1>2

(* A process that becomes idle: its message is acknowledged, or it dies. *)
LEMMA IdleKeepsBegunInv ==
    ASSUME TaskInv, BegunInv, NEW w \in Workers, Ack(w) \/ HardKill(w) \/ ProcessDies(w)
    PROVE  BegunInv'
  <1> USE TaskAssumption
  <1>1. /\ exec[w] # NoMsg /\ exec[w] \in Msgs
        /\ exec' = [exec EXCEPT ![w] = NoMsg] /\ ran' = [ran EXCEPT ![w] = 0]
        /\ unacked' = unacked \ {exec[w]}
        /\ UNCHANGED <<uploadVars, reserved, copies, held, eta, begun>>
    BY DEF Ack, HardKill, ProcessDies, Idle, Acked, Rejected, TaskInv, TaskTypeOK, Executing
  <1>2. PICK m \in Msgs : m = exec[w] /\ m \in unacked /\ m \notin reserved
    BY <1>1 DEF BegunInv, RunsAlone
  <1>3. \A v \in Workers \ {w} : exec'[v] = exec[v] /\ ran'[v] = ran[v] /\ exec[v] # m
    BY <1>1, <1>2 DEF TaskInv, TaskTypeOK, BegunInv, RunsAlone
  <1>4. exec'[w] = NoMsg
    BY <1>1 DEF TaskInv, TaskTypeOK
  <1>5. IsFiniteSet(reserved') /\ reserved' \subseteq unacked'
    BY <1>1, <1>2 DEF BegunInv
  <1>6. \A v \in Workers : RunsAlone(v)'
    BY <1>1, <1>2, <1>3, <1>4 DEF BegunInv, RunsAlone
  <1>7. Prefetched' \subseteq Prefetched
    BY <1>1, <1>3, <1>4 DEF Prefetched
  <1>8. \A n \in reserved' : StartsAtOnce(n)'
    BY <1>1, <1>7, FewerPrefetched DEF BegunInv, StartsAtOnce
  <1>9. \/ queue' = queue /\ losses' = losses
        \/ queue' = queue \cup {m} /\ losses' = losses + 1
    BY <1>2 DEF Ack, HardKill, ProcessDies, Rejected
  <1>10. losses \in Nat /\ \A n \in Msgs : begun[n] \in Nat
    BY DEF TaskInv, TaskTypeOK
  <1>11. ASSUME NEW n \in Msgs
         PROVE  Counted(n)'
    <2>1. CASE n = m
      <3>1. ~Owed(m) /\ m \notin queue
        BY <1>2 DEF Owed, TaskInv, TaskTypeOK
      <3>2. Owed(m)' => losses' = losses + 1
        BY <1>1, <1>2, <1>9, <3>1 DEF Owed
      <3>3. begun[m] <= 1 + losses
        BY <1>10, <3>1 DEF BegunInv, Counted
      <3>4. begun'[m] + (IF Owed(m)' THEN 1 ELSE 0) <= 1 + losses'
        BY <1>1, <1>9, <1>10, <3>2, <3>3
      <3> QED
        BY <1>1, <2>1, <3>4 DEF BegunInv, Counted, uploadVars
    <2>2. CASE n # m
      <3>1. Owed(n)' <=> Owed(n)
        BY <1>1, <1>2, <1>3, <1>4, <1>9, <2>2 DEF Owed, Msgs
      <3>2. begun[n] + (IF Owed(n) THEN 1 ELSE 0) <= 1 + losses'
        BY <1>9, <1>10 DEF BegunInv, Counted
      <3> QED
        BY <1>1, <3>1, <3>2 DEF BegunInv, Counted, uploadVars
    <2> QED
      BY <2>1, <2>2
  <1> QED
    BY <1>5, <1>6, <1>8, <1>11 DEF BegunInv

LEMMA NodeDeathKeepsBegunInv ==
    ASSUME TaskInv, BegunInv, NodeDies
    PROVE  BegunInv'
  <1> USE TaskAssumption
  <1>1. /\ reserved' = {} /\ exec' = [w \in Workers |-> NoMsg] /\ losses' = losses + 1
        /\ UNCHANGED <<uploadVars, queue, unacked, copies, held, eta, begun>>
    BY DEF NodeDies
  <1>2. losses \in Nat /\ \A n \in Msgs : begun[n] \in Nat
    BY DEF TaskInv, TaskTypeOK
  <1>3. ASSUME NEW n \in Msgs
        PROVE  Counted(n)'
    <2>1. begun[n] <= 1 + losses
      BY <1>2 DEF BegunInv, Counted
    <2>2. begun'[n] + (IF Owed(n)' THEN 1 ELSE 0) <= 1 + losses'
      BY <1>1, <1>2, <2>1
    <2> QED
      BY <1>1, <2>2 DEF BegunInv, Counted, uploadVars
  <1> QED
    BY <1>1, <1>3, FS_EmptySet DEF BegunInv, RunsAlone

LEMMA TickKeepsBegunInv ==
    ASSUME TaskInv, BegunInv, Tick
    PROVE  BegunInv'
  <1> USE TaskAssumption
  <1>1. /\ ran' = [w \in Workers |-> IF exec[w] # NoMsg THEN ran[w] + 1 ELSE ran[w]]
        /\ held' = [m \in Msgs |-> IF m \in unacked THEN Older(held[m], Visibility) ELSE 0]
        /\ eta' = [m \in Msgs |-> IF eta[m] > 0 THEN eta[m] - 1 ELSE 0]
        /\ UNCHANGED <<uploadVars, queue, unacked, reserved, copies, exec, begun, losses>>
    BY DEF Tick
  <1>2. ASSUME NEW m \in reserved, m[2] = 0
        PROVE  FALSE
    <2>1. /\ m \in Msgs /\ eta[m] = 0 /\ m \in Prefetched
          /\ Cardinality(Prefetched) <= Cardinality(Workers)
      BY <1>2 DEF BegunInv, StartsAtOnce, Counted, TaskInv, TaskTypeOK, Prefetched
    <2>2. \A w \in Workers : exec[w] # m
      BY <1>2, <2>1 DEF BegunInv, RunsAlone, Msgs
    <2>3. \A w \in Workers : exec[w] # NoMsg => exec[w] \in Prefetched
      BY DEF Prefetched
    <2>4. PICK w \in Workers : exec[w] = NoMsg
      BY <2>1, <2>2, <2>3, PrefetchedIsFinite, ProcessIsFree DEF BegunInv
    <2>5. Startable(w, m)
      BY <1>2, <2>1, <2>4 DEF Startable
    <2> QED
      BY <2>5 DEF Tick
  <1>3. ASSUME NEW w \in Workers
        PROVE  RunsAlone(w)'
    <2> SUFFICES ASSUME exec[w] # NoMsg
                 PROVE  RunsAlone(w)'
      BY <1>1 DEF RunsAlone
    <2>1. PICK m \in Msgs : m = exec[w]
      BY DEF TaskInv, TaskTypeOK
    <2>2. /\ m \in unacked \ reserved /\ eta[m] = 0
          /\ held[m] + HardLimit < Visibility + ran[w]
          /\ \A v \in Workers : exec[v] = m => v = w
      BY <2>1 DEF BegunInv, RunsAlone
    <2>3. held[m] \in Nat /\ ran[w] \in Nat
      BY DEF TaskInv, TaskTypeOK
    <2>4. held'[m] <= held[m] + 1 /\ held'[m] \in Nat /\ ran'[w] = ran[w] + 1 /\ eta'[m] = 0
      BY <1>1, <2>2, <2>3 DEF Older, TaskInv, TaskTypeOK
    <2>5. held'[m] + HardLimit < Visibility + ran'[w]
      BY <2>2, <2>3, <2>4
    <2> QED
      BY <1>1, <2>1, <2>2, <2>4, <2>5 DEF RunsAlone
  <1>4. ASSUME NEW m \in Msgs
        PROVE  Counted(m)'
    <2>1. Owed(m)' <=> Owed(m)
      BY <1>1 DEF Owed
    <2> QED
      BY <1>1, <2>1 DEF BegunInv, Counted, uploadVars
  <1> QED
    BY <1>1, <1>2, <1>3, <1>4 DEF BegunInv, StartsAtOnce

LEMMA BegunInvStep ==
    TaskInv /\ TaskInv' /\ BegunInv /\ RetriesStartInTime /\ [TaskNext]_taskVars => BegunInv'
  <1> SUFFICES ASSUME TaskInv, TaskInv', BegunInv, RetriesStartInTime, [TaskNext]_taskVars
               PROVE  BegunInv'
    OBVIOUS
  <1>1. ASSUME NEW w \in Workers,
               \/ Validated(w) \/ Invalid(w) \/ Leave(w) \/ Progress(w) \/ SoftLimit(w)
               \/ Rethrow(w) \/ PublishRetry(w) \/ RetryRaises(w) \/ Store(w)
        PROVE  BegunInv'
    <2>1. /\ UNCHANGED <<unacked, reserved, held, exec, ran, begun, losses, pushed>>
          /\ UNCHANGED <<queue, copies, eta>> \/ (phase[w] = "broken" /\ Published(w))
      BY <1>1 DEF Validated, Invalid, Leave, Progress, SoftLimit, Rethrow, PublishRetry,
                  RetryRaises, Store, uploadVars, brokerVars, execVars
    <2>2. phase[w] = "broken" => exec[w] # NoMsg
      BY DEF TaskInv
    <2> QED
      BY <2>1, <2>2, SameExecutions
  <1>2. CASE (\E u \in Uploads : PurgeFile(u)) \/ UNCHANGED taskVars
    BY <1>2, SameExecutions DEF PurgeFile, taskVars, uploadVars, brokerVars, execVars
  <1> QED
    BY <1>1, <1>2, SubmitKeepsBegunInv, BrokerKeepsBegunInv, BeginKeepsBegunInv,
       IdleKeepsBegunInv, NodeDeathKeepsBegunInv, TickKeepsBegunInv DEF TaskNext, TaskStep

LEMMA BegunInvImplies == TaskInv /\ BegunInv => BegunOnce
  <1> SUFFICES ASSUME TaskInv, BegunInv, NEW m \in Msgs
               PROVE  begun[m] <= 1 + losses
    BY DEF BegunOnce
  <1>1. begun[m] \in Nat /\ losses \in Nat
    BY TaskAssumption DEF TaskInv, TaskTypeOK
  <1> QED
    BY <1>1 DEF BegunInv, Counted

(* The execution of a message is begun once, and once more for each death of   *)
(* worker processes, as long as no retry that the worker holds waits too long  *)
(* for a process.  That the visibility timeout is greater than the time limit  *)
(* is enough for first messages; for retries it is not.                        *)
THEOREM BegunOnceHolds == TaskSpec /\ []RetriesStartInTime => []BegunOnce
  BY BegunInvInit, BegunInvStep, BegunInvImplies, TaskInvHolds, PTL DEF TaskSpec

-----------------------------------------------------------------------------
(* A final status is the last word on a task, unless a message of it is begun again. *)

\* No message of task u was begun twice.
Once(u) == \A k \in 0..copies[u] : begun[<<u, k>>] <= 1

\* The messages of task u that are still to be begun, and the one whose execution may
\* still store a final status: not one that has published a retry, or failed to.
Live(u) ==
    {m \in Msgs :
        /\ m[1] = u /\ u \in pushed /\ m[2] <= copies[u]
        /\ \/ begun[m] = 0
           \/ \E w \in Workers : exec[w] = m /\ phase[w] \in Executing \ {"again"}}

\* A task has one live message or none, none once its status is final, and its retry
\* cannot begin before the status of the execution that published it is stored.
Settles(u) ==
    /\ \A m, n \in Live(u) : m = n
    /\ \A w \in Workers :
          phase[w] = "again" /\ File(w) = u =>
              result[u] \notin Final /\ \A m \in Live(u) : begun[m] = 0 /\ eta[m] > 0
    /\ result[u] \in Final => Live(u) = {}

\* A task that was not pushed has no status and no retry, what is executed was begun,
\* and two processes execute a message only if it was begun twice.
FinalInv ==
    /\ \A u \in Uploads : u \notin pushed => result[u] = "PENDING" /\ copies[u] = 0
    /\ \A m \in Msgs : m[1] \notin pushed \/ m[2] > copies[m[1]] => begun[m] = 0
    /\ \A w \in Workers : exec[w] # NoMsg => begun[exec[w]] > 0
    /\ \A v, w \in Workers : exec[v] = exec[w] /\ exec[w] # NoMsg /\ begun[exec[w]] <= 1 => v = w
    /\ \A u \in Uploads : Once(u) => Settles(u)

LEMMA FinalInvInit == TaskInit => FinalInv
  BY DEF TaskInit, UploadInit, FinalInv, Settles, Live, Final

(* What FinalInv says of the message of a process. *)
LEMMA OfAProcess ==
    ASSUME TaskInv, FinalInv, NEW w \in Workers, exec[w] # NoMsg
    PROVE  /\ exec[w] \in Msgs /\ File(w) \in Uploads /\ exec[w][2] \in 0..copies[File(w)]
           /\ File(w) \in pushed /\ begun[exec[w]] > 0
           /\ exec[w] = <<File(w), exec[w][2]>>
  <1>1. exec[w] \in Msgs /\ File(w) \in Uploads /\ begun[exec[w]] > 0 /\ File(w) \in pushed
    BY DEF FinalInv, TaskInv, TaskTypeOK, File, Msgs
  <1>2. /\ exec[w][2] \in Nat /\ copies[File(w)] \in Nat /\ begun[exec[w]] \in Nat
        /\ exec[w] = <<File(w), exec[w][2]>>
    BY <1>1, TaskAssumption DEF TaskInv, TaskTypeOK, Msgs, File
  <1>3. ~(exec[w][2] > copies[File(w)])
    BY <1>1, <1>2 DEF FinalInv, File
  <1> QED
    BY <1>1, <1>2, <1>3

(* A process that may still store a final status of u: nothing else of u is live, *)
(* and no other process can store a status of u.                                 *)
LEMMA OnlyLiveMessage ==
    ASSUME TaskInv, FinalInv, NEW w \in Workers, phase[w] \in Executing \ {"again"},
           Once(File(w))
    PROVE  /\ Settles(File(w)) /\ Live(File(w)) = {exec[w]} /\ result[File(w)] \notin Final
           /\ \A v \in Workers : File(v) = File(w) /\ v # w => phase[v] \notin Executing
  <1>1. exec[w] # NoMsg
    BY DEF TaskInv, Executing
  <1>2. /\ exec[w] \in Msgs /\ File(w) \in Uploads /\ begun[exec[w]] > 0 /\ begun[exec[w]] \in Nat
        /\ begun[exec[w]] <= 1 /\ exec[w] \in Live(File(w))
    <2>1. begun[exec[w]] \in Nat /\ begun[exec[w]] <= 1
      BY <1>1, OfAProcess DEF Once, TaskInv, TaskTypeOK
    <2>2. exec[w][1] = File(w) /\ exec[w][2] <= copies[File(w)]
      BY <1>1, OfAProcess DEF File
    <2> QED
      BY <1>1, <2>1, <2>2, OfAProcess DEF Live
  <1>3. Settles(File(w))
    BY <1>2 DEF FinalInv
  <1>4. ASSUME NEW v \in Workers, File(v) = File(w), v # w, phase[v] \in Executing
        PROVE  FALSE
    <2>1. phase[v] # "again"
      BY <1>2, <1>3, <1>4 DEF Settles
    <2>2. exec[v] # NoMsg
      BY <1>4 DEF TaskInv, Executing
    <2>3. exec[v] \in Live(File(w))
      <3>1. exec[v][1] = File(w) /\ exec[v][2] <= copies[File(w)] /\ exec[v] \in Msgs
        BY <1>4, <2>2, OfAProcess DEF File, TaskInv, TaskTypeOK, Msgs
      <3> QED
        BY <1>1, <1>4, <2>1, <3>1, OfAProcess DEF Live
    <2>4. exec[v] = exec[w]
      BY <1>2, <1>3, <2>3 DEF Settles
    <2> QED
      BY <1>1, <1>2, <1>4, <2>4 DEF FinalInv
  <1> QED
    BY <1>2, <1>3, <1>4 DEF Settles

(* What keeps a task settled: it has no new message, none of its executions begins, and *)
(* those that publish a retry, or wait to store RETRY, are the same.                    *)
LEMMA StaysSettled ==
    ASSUME NEW u \in Uploads, Settles(u),
           u \in pushed' => u \in pushed, copies'[u] = copies[u],
           \A m \in Msgs : m[1] = u => begun'[m] = begun[m],
           result'[u] = result[u] \/ result'[u] \notin Final,
           \A w \in Workers : phase'[w] \in Executing /\ exec'[w][1] = u =>
               /\ exec'[w] = exec[w] /\ phase[w] \in Executing
               /\ phase'[w] = "again" <=> phase[w] = "again",
           \/ \A m \in Msgs : m[1] = u => eta'[m] = eta[m]
           \/ \A w \in Workers : phase[w] # "again"
    PROVE  Settles(u)'
  <1>1. Live(u)' \subseteq Live(u)
    BY DEF Live
  <1>2. \A m \in Live(u)' : m \in Msgs /\ m[1] = u
    BY DEF Live
  <1>3. \A w \in Workers : phase'[w] = "again" /\ exec'[w][1] = u =>
            phase[w] = "again" /\ File(w) = u
    BY DEF Executing, File
  <1> QED
    BY <1>1, <1>2, <1>3 DEF Settles, File

(* Steps that begin nothing, publish nothing and store no final status. *)
LEMMA QuietKeepsFinalInv ==
    ASSUME TaskInv, FinalInv, UNCHANGED <<pushed, copies, begun>>,
           \A u \in Uploads : \/ result'[u] = result[u]
                              \/ u \in pushed /\ result'[u] \notin Final,
           \A w \in Workers : exec'[w] \in {exec[w], NoMsg},
           \A w \in Workers : phase'[w] \in Executing =>
               /\ exec'[w] = exec[w] /\ phase[w] \in Executing
               /\ phase'[w] = "again" <=> phase[w] = "again",
           UNCHANGED eta \/ \A w \in Workers : phase[w] # "again"
    PROVE  FinalInv'
  <1>1. ASSUME NEW u \in Uploads, Once(u)'
        PROVE  Settles(u)'
    <2>1. Once(u)
      BY <1>1 DEF Once
    <2>2. Settles(u)
      BY <2>1 DEF FinalInv
    <2> QED
      BY <2>2, StaysSettled
  <1>2. \A u \in Uploads : u \notin pushed' => result'[u] = "PENDING" /\ copies'[u] = 0
    BY DEF FinalInv
  <1>3. \A m \in Msgs : m[1] \notin pushed' \/ m[2] > copies'[m[1]] => begun'[m] = 0
    BY DEF FinalInv
  <1>4. \A v, w \in Workers :
            /\ exec'[w] # NoMsg => begun'[exec'[w]] > 0
            /\ exec'[v] = exec'[w] /\ exec'[w] # NoMsg /\ begun'[exec'[w]] <= 1 => v = w
    BY DEF FinalInv
  <1> QED
    BY <1>1, <1>2, <1>3, <1>4 DEF FinalInv

LEMMA QuietSteps ==
    ASSUME TaskInv, FinalInv,
           \/ \E m \in Msgs : Deliver(m) \/ Lapse(m)
           \/ \E w \in Workers :
                 \/ Validated(w) \/ Invalid(w) \/ Progress(w) \/ Leave(w) \/ SoftLimit(w)
                 \/ Rethrow(w) \/ Ack(w) \/ ProcessDies(w)
                 \/ Store(w) /\ phase[w] = "again"
                 \/ RetryRaises(w) /\ ~Published(w)
           \/ NodeDies \/ Tick \/ UNCHANGED taskVars
           \/ \E u \in Uploads : PurgeFile(u)
    PROVE  FinalInv'
  <1>1. ASSUME \/ \E m \in Msgs : Deliver(m) \/ Lapse(m)
               \/ UNCHANGED taskVars \/ \E u \in Uploads : PurgeFile(u)
        PROVE  FinalInv'
    <2>1. UNCHANGED <<pushed, copies, begun, result, exec, phase, eta>>
      BY <1>1 DEF Deliver, Lapse, PurgeFile, taskVars, uploadVars, brokerVars, execVars
    <2> QED
      BY <2>1, QuietKeepsFinalInv
  <1>2. ASSUME NEW w \in Workers,
               \/ Validated(w) \/ Invalid(w) \/ Leave(w) \/ SoftLimit(w) \/ Rethrow(w) \/ Progress(w)
        PROVE  FinalInv'
    <2>1. /\ TaskTypeOK /\ exec[w] # NoMsg /\ UNCHANGED <<pushed, copies, begun, exec, eta>>
          /\ phase[w] \in Executing \ {"again"} /\ phase'[w] # "again"
          /\ \A v \in Workers \ {w} : phase'[v] = phase[v]
      BY <1>2 DEF TaskInv, TaskTypeOK, Validated, Invalid, Leave, SoftLimit, Rethrow, Progress,
                  Moved, uploadVars, brokerVars, execVars, Executing
    <2>2. File(w) \in pushed
      BY <2>1, OfAProcess
    <2>3. \A u \in Uploads : result'[u] = result[u] \/ (u \in pushed /\ result'[u] \notin Final)
      BY <1>2, <2>1, <2>2
         DEF TaskTypeOK, Validated, Invalid, Leave, SoftLimit, Rethrow, Progress, Final
    <2> QED
      BY <2>1, <2>3, QuietKeepsFinalInv
  <1>3. ASSUME NEW w \in Workers, Ack(w) \/ ProcessDies(w)
        PROVE  FinalInv'
    <2>1. /\ TaskTypeOK /\ UNCHANGED <<pushed, copies, begun, result, eta>>
          /\ exec'[w] = NoMsg /\ phase'[w] = "idle"
          /\ \A v \in Workers \ {w} : phase'[v] = phase[v] /\ exec'[v] = exec[v]
      BY <1>3 DEF TaskInv, TaskTypeOK, Ack, ProcessDies, Idle, Moved, uploadVars
    <2> QED
      BY <2>1, QuietKeepsFinalInv DEF Executing
  <1>4. ASSUME NEW w \in Workers,
               (Store(w) /\ phase[w] = "again") \/ (RetryRaises(w) /\ ~Published(w))
        PROVE  FinalInv'
    <2>1. /\ TaskTypeOK /\ exec[w] # NoMsg /\ UNCHANGED <<pushed, copies, begun, exec, eta>>
          /\ phase'[w] \notin Executing
          /\ \A v \in Workers \ {w} : phase'[v] = phase[v]
      BY <1>4 DEF TaskInv, TaskTypeOK, Store, RetryRaises, Moved, uploadVars, brokerVars, Executing
    <2>2. File(w) \in pushed
      BY <2>1, OfAProcess
    <2>3. \A u \in Uploads : result'[u] = result[u] \/ (u \in pushed /\ result'[u] \notin Final)
      BY <1>4, <2>1, <2>2 DEF TaskTypeOK, Store, Outcome, RetryRaises, Final
    <2> QED
      BY <2>1, <2>3, QuietKeepsFinalInv
  <1>5. CASE NodeDies
    <2>1. /\ UNCHANGED <<pushed, copies, begun, result, eta>>
          /\ \A w \in Workers : exec'[w] = NoMsg /\ phase'[w] = "idle"
      BY <1>5 DEF NodeDies, uploadVars
    <2> QED
      BY <2>1, QuietKeepsFinalInv DEF Executing
  <1>6. CASE Tick
    <2>1. /\ UNCHANGED <<pushed, copies, begun, result, exec, phase>>
          /\ \A w \in Workers : phase[w] # "again"
      BY <1>6 DEF Tick, TaskInv, uploadVars
    <2> QED
      BY <2>1, QuietKeepsFinalInv
  <1> QED
    BY <1>1, <1>2, <1>3, <1>4, <1>5, <1>6

(* A task that is pushed has one message, and nothing was done for it yet. *)
LEMMA SubmitKeepsFinalInv ==
    ASSUME TaskInv, FinalInv, Submit
    PROVE  FinalInv'
  <1>1. /\ UNCHANGED <<copies, begun, result, exec, phase, eta>>
        /\ pushed \subseteq pushed'
    BY UploadShape DEF TaskInv, Submit, execVars
  <1>2. ASSUME NEW u \in Uploads, Once(u)'
        PROVE  Settles(u)'
    <2>1. CASE u \in pushed' \ pushed
      <3>1. result[u] = "PENDING" /\ copies[u] = 0
        BY <2>1 DEF FinalInv
      <3>2. \A w \in Workers : phase[w] \in Executing => exec[w][1] # u
        BY <2>1 DEF TaskInv, Executing
      <3>3. \A m \in Live(u)' : m \in Msgs /\ m[1] = u /\ m[2] <= 0
        BY <1>1, <3>1 DEF Live
      <3>4. \A m \in Live(u)' : m = <<u, 0>>
        BY <3>3, TaskAssumption DEF Msgs
      <3> QED
        BY <1>1, <3>1, <3>2, <3>4 DEF Settles, File, Final, Executing
    <2>2. CASE u \notin pushed' \ pushed
      <3>1. Settles(u)
        BY <1>1, <1>2 DEF FinalInv, Once
      <3> QED
        BY <1>1, <2>2, <3>1, StaysSettled
    <2> QED
      BY <2>1, <2>2
  <1>3. \A u \in Uploads : u \notin pushed' => result'[u] = "PENDING" /\ copies'[u] = 0
    BY <1>1 DEF FinalInv
  <1>4. \A m \in Msgs : m[1] \notin pushed' \/ m[2] > copies'[m[1]] => begun'[m] = 0
    BY <1>1 DEF FinalInv
  <1> QED
    BY <1>1, <1>2, <1>3, <1>4 DEF FinalInv

(* An execution that begins is that of the live message, unless it begins again. *)
LEMMA BeginKeepsFinalInv ==
    ASSUME TaskInv, FinalInv, NEW w \in Workers, NEW m \in Msgs, Begin(w, m)
    PROVE  FinalInv'
  <1>1. /\ TaskTypeOK /\ exec[w] = NoMsg /\ m \in reserved /\ eta[m] = 0 /\ m # NoMsg
        /\ m[1] \in pushed /\ m[2] <= copies[m[1]]
        /\ UNCHANGED <<pushed, copies, eta>>
    BY TaskAssumption DEF TaskInv, Begin, Startable, uploadVars, Msgs
  <1>2. /\ exec'[w] = m /\ phase'[w] = "validating" /\ begun'[m] = begun[m] + 1 /\ begun[m] \in Nat
        /\ m[1] \in Uploads /\ m[2] \in Nat /\ result'[m[1]] = "STARTED" /\ m = <<m[1], m[2]>>
        /\ copies[m[1]] \in Nat
        /\ \A v \in Workers \ {w} : exec'[v] = exec[v] /\ phase'[v] = phase[v]
        /\ \A n \in Msgs \ {m} : begun'[n] = begun[n] /\ begun[n] \in Nat
        /\ \A u \in Uploads \ {m[1]} : result'[u] = result[u]
    BY <1>1, TaskAssumption DEF Begin, Moved, TaskTypeOK, Msgs
  <1>3. ASSUME NEW u \in Uploads, Once(u)'
        PROVE  Settles(u)'
    <2>1. Once(u)
      <3> SUFFICES ASSUME NEW k \in 0..copies[u]
                   PROVE  begun[<<u, k>>] <= 1
        BY DEF Once
      <3>1. begun'[<<u, k>>] <= 1
        BY <1>1, <1>3 DEF Once
      <3>2. <<u, k>> \in Msgs
        BY <1>1, TaskAssumption DEF TaskTypeOK, Msgs
      <3> QED
        BY <1>2, <3>1, <3>2
    <2>2. Settles(u)
      BY <2>1 DEF FinalInv
    <2>3. CASE u # m[1]
      BY <1>1, <1>2, <2>2, <2>3, StaysSettled
    <2>4. CASE u = m[1]
      <3>1. begun[m] = 0
        <4>1. begun'[m] <= 1
          BY <1>1, <1>2, <1>3, <2>4 DEF Once
        <4> QED
          BY <1>2, <4>1
      <3>2. m \in Live(u)
        BY <1>1, <2>4, <3>1 DEF Live
      <3>3. \A v \in Workers : ~(phase[v] = "again" /\ File(v) = u)
        BY <1>1, <2>2, <3>2 DEF Settles
      <3>4. Live(u)' \subseteq Live(u)
        <4>1. \A n \in Live(u)' : n \in Msgs /\ n[1] = u /\ n[2] <= copies[u] /\ u \in pushed
          BY <1>1 DEF Live
        <4>2. ASSUME NEW n \in Live(u)', n # m
              PROVE  n \in Live(u)
          <5>1. \/ begun[n] = 0
                \/ \E v \in Workers : exec[v] = n /\ phase[v] \in Executing \ {"again"}
            BY <1>2, <4>1, <4>2 DEF Live
          <5> QED
            BY <4>1, <5>1 DEF Live
        <4> QED
          BY <3>2, <4>2
      <3> QED
        BY <1>2, <2>2, <2>4, <3>3, <3>4 DEF Settles, File, Final
    <2> QED
      BY <2>3, <2>4
  <1>4. \A u \in Uploads : u \notin pushed' => result'[u] = "PENDING" /\ copies'[u] = 0
    BY <1>1, <1>2 DEF FinalInv
  <1>5. \A n \in Msgs : n[1] \notin pushed' \/ n[2] > copies'[n[1]] => begun'[n] = 0
    BY <1>1, <1>2 DEF FinalInv
  <1>6. \A v \in Workers : exec'[v] # NoMsg => begun'[exec'[v]] > 0
    <2>1. \A v \in Workers : exec[v] # NoMsg => exec[v] \in Msgs
      BY <1>1 DEF TaskTypeOK
    <2> QED
      BY <1>2, <2>1 DEF FinalInv
  <1>7. ASSUME NEW v \in Workers, NEW x \in Workers,
               exec'[v] = exec'[x], exec'[x] # NoMsg, begun'[exec'[x]] <= 1
        PROVE  v = x
    <2>1. \A y \in Workers : exec[y] # NoMsg => exec[y] \in Msgs
      BY <1>1 DEF TaskTypeOK
    <2>2. CASE exec'[x] = m
      <3>1. begun[m] = 0
        BY <1>2, <1>7, <2>2
      <3>2. \A y \in Workers : exec[y] # m
        BY <1>1, <3>1 DEF FinalInv
      <3> QED
        BY <1>2, <1>7, <2>2, <3>2
    <2>3. CASE exec'[x] # m
      BY <1>2, <1>7, <2>1, <2>3 DEF FinalInv
    <2> QED
      BY <2>2, <2>3
  <1> QED
    BY <1>3, <1>4, <1>5, <1>6, <1>7 DEF FinalInv

(* A published retry takes the place of the message whose execution published it. *)
LEMMA PublishedKeepsFinalInv ==
    ASSUME TaskInv, FinalInv, Countdown > 0, NEW w \in Workers, phase[w] = "broken", Published(w),
           NEW label \in {"again", "rejected"}, Moved(w, label),
           UNCHANGED <<pushed, begun, exec, result>>
    PROVE  FinalInv'
  <1>1. /\ TaskTypeOK /\ exec[w] # NoMsg /\ phase[w] \in Executing \ {"again"}
        /\ File(w) \in Uploads /\ copies[File(w)] \in Nat /\ File(w) \in pushed
    BY OfAProcess DEF TaskInv, TaskTypeOK, Executing
  <1>2. PICK next \in Msgs : /\ next = <<File(w), copies[File(w)] + 1>>
                             /\ next[1] = File(w) /\ next[2] = copies[File(w)] + 1
    <2>1. copies[File(w)] + 1 \in 0..MaxCopies
      BY <1>1, TaskAssumption DEF Published
    <2>2. <<File(w), copies[File(w)] + 1>> \in Msgs
      BY <1>1, <2>1 DEF Msgs
    <2> QED
      BY <2>2
  <1>3. /\ copies'[File(w)] = copies[File(w)] + 1 /\ eta'[next] = Countdown
        /\ \A u \in Uploads \ {File(w)} : copies'[u] = copies[u]
        /\ \A n \in Msgs \ {next} : eta'[n] = eta[n]
        /\ phase'[w] = label /\ \A v \in Workers \ {w} : phase'[v] = phase[v]
    BY <1>1, <1>2 DEF Published, Moved, TaskTypeOK
  <1>4. begun[next] = 0
    BY <1>1, <1>2 DEF FinalInv
  <1>5. ASSUME NEW u \in Uploads, Once(u)'
        PROVE  Settles(u)'
    <2>1. Once(u)
      <3>1. copies[u] \in Nat /\ copies'[u] \in Nat /\ copies[u] <= copies'[u]
        BY <1>1, <1>3 DEF TaskTypeOK
      <3>2. \A k \in 0..copies[u] : k \in 0..copies'[u]
        BY <3>1
      <3> QED
        BY <1>5, <3>2 DEF Once
    <2>2. CASE u # File(w)
      <3>1. Settles(u)
        BY <2>1 DEF FinalInv
      <3>2. \A m \in Msgs : m[1] = u => eta'[m] = eta[m]
        BY <1>2, <1>3, <2>2
      <3>3. \A v \in Workers : phase'[v] \in Executing /\ exec'[v][1] = u => v # w
        BY <2>2 DEF File
      <3>4. copies'[u] = copies[u]
        BY <1>3, <2>2
      <3>5. \A v \in Workers : phase'[v] \in Executing /\ exec'[v][1] = u =>
               /\ exec'[v] = exec[v] /\ phase[v] \in Executing
               /\ phase'[v] = "again" <=> phase[v] = "again"
        BY <1>3, <3>3
      <3> QED
        BY <3>1, <3>2, <3>4, <3>5, StaysSettled
    <2>3. CASE u = File(w)
      <3>1. /\ Live(u) = {exec[w]} /\ result[u] \notin Final
            /\ \A v \in Workers : File(v) = u /\ v # w => phase[v] \notin Executing
        BY <1>1, <2>1, <2>3, OnlyLiveMessage
      <3>2. ASSUME NEW m \in Live(u)'
            PROVE  m = next
        <4>1. /\ m \in Msgs /\ m[1] = u /\ m[2] \in Nat /\ m[2] <= copies[u] + 1 /\ m = <<u, m[2]>>
          BY <1>3, <2>3, TaskAssumption DEF Live, Msgs
        <4>2. ~\E v \in Workers : exec'[v] = m /\ phase'[v] \in Executing \ {"again"}
          BY <1>3, <2>3, <3>1, <4>1 DEF File, Executing
        <4>3. begun[m] = 0
          BY <4>2 DEF Live
        <4>4. m # exec[w]
          BY <1>1, <4>3, OfAProcess
        <4>5. ~(m[2] <= copies[u])
          BY <1>1, <2>3, <3>1, <4>1, <4>3, <4>4 DEF Live
        <4>6. m[2] = copies[u] + 1
          BY <1>1, <2>3, <4>1, <4>5
        <4> QED
          BY <1>2, <2>3, <4>1, <4>6
      <3> QED
        BY <1>3, <1>4, <3>1, <3>2, TaskAssumption DEF Settles
    <2> QED
      BY <2>2, <2>3
  <1>6. \A u \in Uploads : u \notin pushed' => result'[u] = "PENDING" /\ copies'[u] = 0
    BY <1>1, <1>3 DEF FinalInv
  <1>7. ASSUME NEW m \in Msgs, m[1] \notin pushed' \/ m[2] > copies'[m[1]]
        PROVE  begun'[m] = 0
    <2>1. m[1] \in Uploads /\ m[2] \in Nat /\ copies[m[1]] \in Nat
      BY <1>1, TaskAssumption DEF Msgs, TaskTypeOK
    <2>2. m[1] \notin pushed \/ m[2] > copies[m[1]]
      BY <1>1, <1>3, <1>7, <2>1
    <2> QED
      BY <2>2 DEF FinalInv
  <1> QED
    BY <1>5, <1>6, <1>7 DEF FinalInv

(* A final status is stored when nothing of the task is left but the execution itself. *)
LEMMA EndKeepsFinalInv ==
    ASSUME TaskInv, FinalInv, NEW w \in Workers,
           (Store(w) /\ phase[w] # "again") \/ HardKill(w)
    PROVE  FinalInv'
  <1>1. /\ TaskTypeOK /\ phase[w] \in Executing \ {"again"} /\ exec[w] # NoMsg
        /\ phase'[w] \notin Executing
        /\ exec'[w] \in {exec[w], NoMsg}
        /\ \A v \in Workers \ {w} : phase'[v] = phase[v] /\ exec'[v] = exec[v]
        /\ \A u \in Uploads \ {File(w)} : result'[u] = result[u]
        /\ UNCHANGED <<pushed, copies, begun, eta>>
    BY DEF TaskInv, TaskTypeOK, Store, HardKill, Idle, Moved, Executing, uploadVars, brokerVars
  <1>2. ASSUME NEW u \in Uploads, Once(u)'
        PROVE  Settles(u)'
    <2>1. Once(u)
      BY <1>1, <1>2 DEF Once
    <2>2. CASE u # File(w)
      <3>1. Settles(u)
        BY <2>1 DEF FinalInv
      <3> QED
        BY <1>1, <2>2, <3>1, StaysSettled
    <2>3. CASE u = File(w)
      <3>1. /\ Live(u) = {exec[w]}
            /\ \A v \in Workers : File(v) = u /\ v # w => phase[v] \notin Executing
        BY <1>1, <2>1, <2>3, OnlyLiveMessage
      <3>2. \A v \in Workers : exec'[v][1] = u => phase'[v] \notin Executing
        BY <1>1, <3>1 DEF File
      <3>3. ASSUME NEW m \in Live(u)'
            PROVE  FALSE
        <4>1. m \in Msgs /\ m[1] = u /\ begun[m] = 0
          BY <1>1, <3>2 DEF Live
        <4>2. m \in Live(u)
          BY <1>1, <4>1 DEF Live
        <4> QED
          BY <1>1, <3>1, <4>1, <4>2, OfAProcess
      <3> QED
        BY <3>2, <3>3 DEF Settles, File, Executing
    <2> QED
      BY <2>2, <2>3
  <1>3. \A u \in Uploads : u \notin pushed' => result'[u] = "PENDING" /\ copies'[u] = 0
    <2>1. File(w) \in pushed
      BY <1>1, OfAProcess
    <2> QED
      BY <1>1, <2>1 DEF FinalInv
  <1>4. \A m \in Msgs : m[1] \notin pushed' \/ m[2] > copies'[m[1]] => begun'[m] = 0
    BY <1>1 DEF FinalInv
  <1>5. \A v, x \in Workers :
            /\ exec'[x] # NoMsg => begun'[exec'[x]] > 0
            /\ exec'[v] = exec'[x] /\ exec'[x] # NoMsg /\ begun'[exec'[x]] <= 1 => v = x
    BY <1>1 DEF FinalInv
  <1> QED
    BY <1>2, <1>3, <1>4, <1>5 DEF FinalInv

LEMMA FinalInvStep ==
    ASSUME Countdown > 0, TaskInv, FinalInv, [TaskNext]_taskVars
    PROVE  FinalInv'
  <1>1. ASSUME NEW w \in Workers, PublishRetry(w) \/ (RetryRaises(w) /\ Published(w))
        PROVE  FinalInv'
    <2>1. /\ phase[w] = "broken" /\ Published(w) /\ (Moved(w, "again") \/ Moved(w, "rejected"))
          /\ UNCHANGED <<pushed, begun, exec, result>>
      BY <1>1 DEF PublishRetry, RetryRaises, uploadVars
    <2> QED
      BY <1>1, <2>1, PublishedKeepsFinalInv DEF PublishRetry, RetryRaises
  <1>2. ASSUME NEW w \in Workers, RetryRaises(w)
        PROVE  FinalInv'
    BY <1>1, <1>2, QuietSteps
  <1>3. ASSUME NEW w \in Workers, Store(w)
        PROVE  FinalInv'
    BY <1>3, QuietSteps, EndKeepsFinalInv
  <1>4. ASSUME NEW w \in Workers, TaskStep(w) \/ Progress(w) \/ ProcessDies(w)
        PROVE  FinalInv'
    <2>1. CASE \/ Validated(w) \/ Invalid(w) \/ Progress(w) \/ Leave(w) \/ SoftLimit(w)
               \/ Rethrow(w) \/ Ack(w) \/ ProcessDies(w)
      BY <2>1, QuietSteps
    <2>2. CASE PublishRetry(w) \/ RetryRaises(w) \/ Store(w)
      BY <1>1, <1>2, <1>3, <2>2
    <2>3. CASE HardKill(w)
      BY <2>3, EndKeepsFinalInv
    <2>4. CASE \E m \in Msgs : Begin(w, m)
      BY <2>4, BeginKeepsFinalInv
    <2> QED
      BY <1>4, <2>1, <2>2, <2>3, <2>4 DEF TaskStep
  <1>5. CASE UNCHANGED taskVars
    BY <1>5, QuietSteps
  <1>6. CASE \/ \E m \in Msgs : Deliver(m) \/ Lapse(m)
             \/ NodeDies \/ Tick \/ \E u \in Uploads : PurgeFile(u)
    BY <1>6, QuietSteps
  <1> QED
    BY <1>4, <1>5, <1>6, SubmitKeepsFinalInv DEF TaskNext

\* What a step may not do, in FinalStatusStays.
FinalStays ==
    \A u \in Uploads :
        result[u] \in Final /\ result'[u] # result[u]
            => \E k \in 0..copies[u] : begun'[<<u, k>>] > 1

(* Of a task whose status is final and that was not begun twice, nothing is executed *)
(* or can begin.                                                                     *)
LEMMA FinalInvKeepsFinals ==
    ASSUME TaskInv, FinalInv, [TaskNext]_taskVars
    PROVE  FinalStays
  <1> SUFFICES ASSUME NEW u \in Uploads, result[u] \in Final,
                      \A k \in 0..copies[u] : ~(begun'[<<u, k>>] > 1)
               PROVE  result'[u] = result[u]
    BY DEF FinalStays
  <1>1. TaskTypeOK
    BY DEF TaskInv
  <1>2. \A k \in 0..copies[u] : <<u, k>> \in Msgs /\ begun[<<u, k>>] \in Nat
    BY <1>1, TaskAssumption DEF TaskTypeOK, Msgs
  <1>3. ASSUME NEW w \in Workers, Store(w) \/ HardKill(w) \/ Progress(w)
        PROVE  result'[u] = result[u]
    <2>1. exec[w] # NoMsg /\ phase[w] \in Executing /\ UNCHANGED begun
      BY <1>3 DEF Store, HardKill, Progress, TaskInv, execVars, Executing
    <2>2. Once(u)
      BY <1>2, <2>1 DEF Once
    <2>3. Settles(u)
      BY <2>2 DEF FinalInv
    <2>4. File(w) # u
      BY <2>1, <2>2, <2>3, OnlyLiveMessage DEF Settles
    <2> QED
      BY <1>1, <1>3, <2>4 DEF Store, HardKill, Progress, TaskTypeOK
  <1>4. ASSUME NEW w \in Workers, NEW m \in Msgs, Begin(w, m)
        PROVE  result'[u] = result[u]
    <2>1. /\ begun'[m] = begun[m] + 1 /\ begun[m] \in Nat
          /\ \A n \in Msgs \ {m} : begun'[n] = begun[n]
          /\ m[1] \in pushed /\ m[2] <= copies[m[1]]
      BY <1>1, <1>4 DEF Begin, Startable, TaskTypeOK, TaskInv
    <2>2. ASSUME m[1] = u
          PROVE  FALSE
      <3>1. Once(u)
        BY <1>2, <2>1 DEF Once
      <3>2. m[2] \in 0..copies[u] /\ m = <<u, m[2]>>
        BY <1>1, <2>1, <2>2, TaskAssumption DEF Msgs, TaskTypeOK
      <3>3. begun[m] = 0
        BY <2>1, <3>2
      <3>4. m \in Live(u)
        BY <2>1, <2>2, <3>3 DEF Live
      <3> QED
        BY <3>1, <3>4 DEF FinalInv, Settles
    <2> QED
      BY <1>1, <1>4, <2>2 DEF Begin, TaskTypeOK
  <1> QED
    BY <1>3, <1>4
       DEF TaskNext, TaskStep, Submit, Deliver, Lapse, Validated, Invalid, Leave, SoftLimit, Rethrow,
           PublishRetry, RetryRaises, Ack, ProcessDies, NodeDies, Tick, PurgeFile, taskVars

(* A final status is taken back only by a message of the task that was begun a  *)
(* second time: by no retry, which is begun once the execution that published  *)
(* it has stored RETRY, and by no execution that has published one; whatever   *)
(* dies, lapses or cannot be published.                                        *)
THEOREM FinalStatusStaysHolds ==
    ASSUME Countdown > 0
    PROVE  TaskSpec => FinalStatusStays
  <1>1. TaskInv /\ FinalInv /\ [TaskNext]_taskVars => FinalInv'
    BY FinalInvStep
  <1>2. TaskInv /\ FinalInv /\ [TaskNext]_taskVars => FinalStays
    BY FinalInvKeepsFinals
  <1>3. TaskSpec => [][FinalStays]_taskVars
    BY <1>1, <1>2, FinalInvInit, TaskInvHolds, PTL DEF TaskSpec
  <1> QED
    BY <1>3 DEF FinalStatusStays, FinalStays

-----------------------------------------------------------------------------
(* When retries start in time: while there are processes enough. *)

\* Never more messages on their way than processes.
NotOverloaded ==
    /\ IsFiniteSet(queue \cup unacked)
    /\ Cardinality(queue \cup unacked) <= Cardinality(Workers)

\* A message waits in the worker's memory for its countdown only.
HeldInv == \A m \in reserved : held[m] + eta[m] <= Countdown

LEMMA HeldInvStep ==
    ASSUME TaskInv, BegunInv, HeldInv, NotOverloaded, [TaskNext]_taskVars
    PROVE  HeldInv'
  <1>1. \A m \in reserved : m \in Msgs /\ held[m] \in Nat /\ eta[m] \in Nat /\ eta[m] <= Countdown
    BY TaskAssumption DEF TaskInv, TaskTypeOK
  <1>2. ASSUME NEW m \in Msgs, Deliver(m)
        PROVE  HeldInv'
    <2>1. /\ held'[m] = 0 /\ \A n \in Msgs \ {m} : held'[n] = held[n]
          /\ reserved' = reserved \cup {m} /\ eta' = eta
          /\ eta[m] \in 0..Countdown /\ Countdown \in Nat
      BY <1>2, TaskAssumption DEF Deliver, TaskInv, TaskTypeOK
    <2> QED
      BY <1>1, <2>1 DEF HeldInv
  <1>3. ASSUME NEW w \in Workers, phase[w] = "broken", Published(w), UNCHANGED <<reserved, held>>
        PROVE  HeldInv'
    <2>1. copies[File(w)] \in Nat /\ held' = held /\ reserved' = reserved
      BY <1>3 DEF TaskInv, TaskTypeOK, File, Msgs
    <2>2. PICK k \in Nat : k = copies[File(w)] + 1
      BY <2>1
    <2>3. eta' = [eta EXCEPT ![<<File(w), k>>] = Countdown]
      BY <1>3, <2>2 DEF Published
    <2>4. \A m \in reserved : m # <<File(w), k>>
      <3>1. ~(k <= copies[File(w)])
        BY <2>1, <2>2
      <3> QED
        BY <3>1 DEF TaskInv
    <2>5. \A m \in reserved : eta'[m] = eta[m]
      BY <1>1, <2>3, <2>4 DEF TaskInv, TaskTypeOK
    <2> QED
      BY <2>1, <2>5 DEF HeldInv
  <1>4. CASE Tick
    <2> SUFFICES ASSUME NEW m \in reserved
                 PROVE  held'[m] + eta'[m] <= Countdown
      BY <1>4 DEF HeldInv, Tick
    <2>1. m \in unacked /\ \A w \in Workers : exec[w] # m
      BY <1>1, TaskAssumption DEF BegunInv, RunsAlone, Msgs
    <2>2. \A w \in Workers : exec[w] # NoMsg => exec[w] \in queue \cup unacked
      BY DEF BegunInv, RunsAlone
    <2>3. PICK w \in Workers : exec[w] = NoMsg
      BY <2>1, <2>2, ProcessIsFree DEF NotOverloaded
    <2>4. eta[m] > 0
      BY <1>1, <1>4, <2>3 DEF Tick, Startable
    <2>5. eta'[m] = eta[m] - 1 /\ held'[m] \in Nat /\ held'[m] <= held[m] + 1
      BY <1>1, <1>4, <2>1, <2>4, TaskAssumption DEF Tick, Older
    <2>6. held[m] + eta[m] <= Countdown
      BY DEF HeldInv
    <2> QED
      BY <1>1, <2>5, <2>6, TaskAssumption
  <1>5. CASE reserved' \subseteq reserved /\ UNCHANGED <<held, eta>>
    BY <1>5 DEF HeldInv
  <1> QED
    BY <1>2, <1>3, <1>4, <1>5
       DEF TaskNext, TaskStep, Submit, Lapse, Begin, Validated, Invalid, Leave, SoftLimit, Rethrow,
           PublishRetry, RetryRaises, Store, Ack, HardKill, Progress, ProcessDies, NodeDies,
           PurgeFile, taskVars, brokerVars

LEMMA RetriesStartWithinCapacity ==
    ASSUME Visibility > HardLimit + Countdown
    PROVE  TaskSpec /\ []NotOverloaded => []RetriesStartInTime
  <1>1. TaskInit => HeldInv
    BY DEF TaskInit, HeldInv
  <1>2. TaskInv /\ HeldInv => RetriesStartInTime
    <2> SUFFICES ASSUME TaskInv, HeldInv, NEW m \in reserved
                 PROVE  held[m] + HardLimit < Visibility
      BY DEF RetriesStartInTime
    <2>1. held[m] \in Nat /\ eta[m] \in Nat /\ held[m] + eta[m] <= Countdown
      BY TaskAssumption DEF TaskInv, TaskTypeOK, HeldInv
    <2> QED
      BY <2>1, TaskAssumption
  <1>3. TaskInv /\ TaskInv' /\ BegunInv /\ HeldInv /\ NotOverloaded /\ [TaskNext]_taskVars
          => BegunInv' /\ HeldInv'
    BY <1>2, BegunInvStep, HeldInvStep
  <1> QED
    BY <1>1, <1>2, <1>3, BegunInvInit, TaskInvHolds, PTL DEF TaskSpec

\* While no process has died, a final status is the last one.
FinalUntilDeath ==
    [][\A u \in Uploads : losses' = 0 /\ result[u] \in Final => result'[u] = result[u]]_taskVars

(* With the code's numbers, 1000 > 720 + 60 and a countdown of 5 at least: while *)
(* there are no more messages on their way than processes, no execution is begun *)
(* twice but for a death, and no final status is taken back before one.          *)
THEOREM BegunOnceWithinCapacity ==
    ASSUME Visibility > HardLimit + Countdown, Countdown > 0
    PROVE  TaskSpec /\ []NotOverloaded => []BegunOnce /\ FinalUntilDeath
  <1>1. TaskSpec /\ []NotOverloaded => []BegunOnce
    BY RetriesStartWithinCapacity, BegunOnceHolds, PTL
  <1>2. TaskSpec => [][FinalStays]_taskVars
    BY FinalStatusStaysHolds DEF FinalStatusStays, FinalStays
  <1> DEFINE Kept == \A u \in Uploads :
                         losses' = 0 /\ result[u] \in Final => result'[u] = result[u]
  <1>3. TaskInv /\ TaskInv' /\ BegunOnce' /\ [FinalStays]_taskVars => [Kept]_taskVars
    <2> SUFFICES ASSUME TaskInv, TaskInv', BegunOnce', FinalStays, losses' = 0,
                        NEW u \in Uploads, result[u] \in Final, result'[u] # result[u]
                 PROVE  FALSE
      OBVIOUS
    <2>1. PICK k \in 0..copies[u] : begun'[<<u, k>>] > 1
      BY DEF FinalStays
    <2>2. <<u, k>> \in Msgs
      BY TaskAssumption DEF TaskInv, TaskTypeOK, Msgs
    <2>3. begun'[<<u, k>>] <= 1 /\ begun'[<<u, k>>] \in Nat
      BY <2>2 DEF BegunOnce, TaskInv, TaskTypeOK, Msgs
    <2> QED
      BY <2>1, <2>3
  <1> HIDE DEF Kept
  <1>4. TaskSpec /\ []NotOverloaded => []BegunOnce /\ [][Kept]_taskVars
    BY <1>1, <1>2, <1>3, TaskInvHolds, PTL
  <1> QED
    BY <1>4 DEF FinalUntilDeath, Kept

-----------------------------------------------------------------------------
(* IngestTask implements TaskLifecycle. *)

LEMMA WorkerSets ==
    ASSUME NEW S \in SUBSET Workers
    PROVE  /\ IsFiniteSet(S) /\ Cardinality(S) \in 0..Cardinality(Workers)
           /\ \A w \in Workers \ S :
                 /\ Cardinality(S \cup {w}) = Cardinality(S) + 1
                 /\ Cardinality(S) < Cardinality(Workers)
           /\ \A w \in S : /\ Cardinality(S \ {w}) = Cardinality(S) - 1
                           /\ Cardinality(S) > 0
  <1>1. /\ IsFiniteSet(Workers) /\ IsFiniteSet(S)
        /\ Cardinality(S) \in Nat /\ Cardinality(Workers) \in Nat
        /\ Cardinality(S) <= Cardinality(Workers)
    BY TaskAssumption, FS_Subset, FS_CardinalityType
  <1>2. ASSUME NEW w \in Workers \ S
        PROVE  /\ Cardinality(S \cup {w}) = Cardinality(S) + 1
               /\ Cardinality(S) < Cardinality(Workers)
    <2>1. Cardinality(S \cup {w}) = Cardinality(S) + 1
      BY <1>1, <1>2, FS_AddElement
    <2>2. Cardinality(S \cup {w}) <= Cardinality(Workers)
      BY <1>1, <1>2, FS_Subset
    <2> QED
      BY <1>1, <2>1, <2>2
  <1>3. ASSUME NEW w \in S
        PROVE  Cardinality(S \ {w}) = Cardinality(S) - 1 /\ Cardinality(S) > 0
    <2>1. Cardinality(S \ {w}) = Cardinality(S) - 1 /\ IsFiniteSet(S \ {w})
      BY <1>1, <1>3, FS_RemoveElement
    <2>2. Cardinality(S \ {w}) \in Nat
      BY <2>1, FS_CardinalityType
    <2> QED
      BY <1>1, <2>1, <2>2
  <1>4. Cardinality(S) \in 0..Cardinality(Workers)
    BY <1>1
  <1> QED
    BY <1>1, <1>2, <1>3, <1>4

LEMMA LifecycleInitHolds == TaskInit => Lifecycle!LifecycleInit
  <1> SUFFICES ASSUME TaskInit
               PROVE  Lifecycle!LifecycleInit
    OBVIOUS
  <1>1. \A u \in Uploads : Busy(u) = {}
    BY DEF TaskInit, Busy, Executing
  <1> QED
    BY <1>1, FS_EmptySet DEF TaskInit, Lifecycle!LifecycleInit, Active

(* A step of process w: who executes what before and after. *)
LEMMA BusyAfter ==
    ASSUME NEW w \in Workers,
           TaskTypeOK,
           phase' = [phase EXCEPT ![w] = phase'[w]],
           exec' = [exec EXCEPT ![w] = exec'[w]],
           NEW u \in Uploads
    PROVE  Busy(u)' = IF phase'[w] \in Executing /\ exec'[w][1] = u
                      THEN Busy(u) \cup {w} ELSE Busy(u) \ {w}
  <1>1. \A v \in Workers \ {w} : phase'[v] = phase[v] /\ exec'[v] = exec[v]
    BY DEF TaskTypeOK
  <1> QED
    BY <1>1 DEF Busy, File

(* A step after which the same processes execute the same tasks. *)
LEMMA SameBusy ==
    ASSUME UNCHANGED result, \A u \in Uploads : Busy(u)' = Busy(u)
    PROVE  UNCHANGED Lifecycle!lifecycleVars
  <1>1. Active' = Active
    BY DEF Active
  <1> QED
    BY <1>1 DEF Lifecycle!lifecycleVars

(* The first step of an execution is a start. *)
LEMMA BeginStarts ==
    ASSUME TaskInv, NEW w \in Workers, NEW m \in Msgs, Begin(w, m)
    PROVE  Lifecycle!LifecycleNext
  <1> DEFINE u == m[1]
  <1>1. /\ u \in Uploads /\ phase[w] = "idle" /\ phase'[w] = "validating" /\ exec'[w] = m
        /\ result' = [result EXCEPT ![u] = "STARTED"] /\ TaskTypeOK
        /\ phase' = [phase EXCEPT ![w] = phase'[w]] /\ exec' = [exec EXCEPT ![w] = exec'[w]]
    BY DEF TaskInv, TaskTypeOK, Begin, Startable, Moved, Msgs
  <1>2. /\ w \in Workers \ Busy(u) /\ Busy(u)' = Busy(u) \cup {w}
        /\ \A v \in Uploads \ {u} : Busy(v)' = Busy(v)
    BY <1>1, BusyAfter DEF Busy, Executing
  <1>3. Active[u] < Cardinality(Workers) /\ Active' = [Active EXCEPT ![u] = Active[u] + 1]
    <2>1. Busy(u) \in SUBSET Workers
      BY DEF Busy
    <2>2. /\ Cardinality(Busy(u)) < Cardinality(Workers)
          /\ Cardinality(Busy(u)') = Cardinality(Busy(u)) + 1
      BY <1>2, <2>1, WorkerSets
    <2> QED
      BY <1>1, <1>2, <2>2 DEF Active
  <1>4. Lifecycle!Start(u)
    BY <1>1, <1>3 DEF Lifecycle!Start
  <1> QED
    BY <1>1, <1>4 DEF Lifecycle!LifecycleNext

(* An execution that stores its result, or is killed, ends with a status. *)
LEMMA EndEnds ==
    ASSUME TaskInv, NEW w \in Workers, Store(w) \/ HardKill(w)
    PROVE  Lifecycle!LifecycleNext
  <1>0. File(w) \in Uploads
    BY DEF TaskInv, TaskTypeOK, Store, HardKill, File, Msgs, Executing
  <1> PICK u \in Uploads : u = File(w)
    BY <1>0
  <1> DEFINE status == result'[u]
  <1>1. /\ phase[w] \in Executing /\ phase'[w] \notin Executing
        /\ TaskTypeOK
        /\ result' = [result EXCEPT ![u] = status]
        /\ status \in Final \cup {"RETRY"}
        /\ phase' = [phase EXCEPT ![w] = phase'[w]] /\ exec' = [exec EXCEPT ![w] = exec'[w]]
    BY DEF TaskInv, TaskTypeOK, Store, HardKill, Moved, Idle, File, Msgs, Outcome, Executing, Final
  <1>2. /\ w \in Busy(u) /\ Busy(u)' = Busy(u) \ {w}
        /\ \A v \in Uploads \ {u} : Busy(v)' = Busy(v)
    <2>1. w \in Busy(u) /\ \A v \in Uploads \ {u} : w \notin Busy(v)
      BY <1>1 DEF Busy, File
    <2>2. \A v \in Uploads : Busy(v)' = Busy(v) \ {w}
      BY <1>1, BusyAfter
    <2> QED
      BY <2>1, <2>2
  <1>3. Active[u] > 0 /\ Active' = [Active EXCEPT ![u] = Active[u] - 1]
    <2>1. Busy(u) \in SUBSET Workers
      BY DEF Busy
    <2>2. /\ Cardinality(Busy(u)) > 0
          /\ Cardinality(Busy(u)') = Cardinality(Busy(u)) - 1
      BY <1>2, <2>1, WorkerSets
    <2> QED
      BY <1>1, <1>2, <2>2 DEF Active
  <1>4. Lifecycle!End(u, status)
    BY <1>1, <1>3 DEF Lifecycle!End, Lifecycle!Final, Final
  <1> QED
    BY <1>1, <1>4 DEF Lifecycle!LifecycleNext, Lifecycle!Final, Final

(* Progress is a report. *)
LEMMA ProgressReports ==
    ASSUME TaskInv, NEW w \in Workers, Progress(w)
    PROVE  Lifecycle!LifecycleNext
  <1> DEFINE u == File(w)
  <1>1. /\ u \in Uploads /\ w \in Busy(u) /\ Active' = Active
        /\ result' = [result EXCEPT ![u] = "PROGRESS"]
    BY DEF TaskInv, TaskTypeOK, Progress, execVars, Busy, File, Active, Msgs, Executing
  <1>2. Active[u] > 0
    BY <1>1, WorkerSets DEF Active, Busy
  <1>3. Lifecycle!Report(u)
    BY <1>1, <1>2 DEF Lifecycle!Report
  <1> QED
    BY <1>1, <1>3 DEF Lifecycle!LifecycleNext

(* A death ends executions without a word, and so does a retry that cannot be *)
(* published.                                                                 *)
LEMMA DeathsVanish ==
    ASSUME TaskInv, (\E w \in Workers : ProcessDies(w) \/ RetryRaises(w)) \/ NodeDies
    PROVE  Lifecycle!LifecycleNext
  <1> DEFINE dead == [u \in Uploads |-> Cardinality(Busy(u)) - Cardinality(Busy(u)')]
  <1>1. result' = result /\ \A u \in Uploads : Busy(u)' \subseteq Busy(u)
    <2>1. ASSUME NEW w \in Workers, ProcessDies(w) \/ RetryRaises(w)
          PROVE  result' = result /\ \A u \in Uploads : Busy(u)' \subseteq Busy(u)
      <3>1. /\ TaskTypeOK /\ result' = result /\ phase'[w] \notin Executing
            /\ phase' = [phase EXCEPT ![w] = phase'[w]]
            /\ exec' = [exec EXCEPT ![w] = exec'[w]]
        BY <2>1 DEF TaskInv, TaskTypeOK, ProcessDies, RetryRaises, Idle, Moved, Executing
      <3> QED
        BY <3>1, BusyAfter
    <2>2. ASSUME NodeDies
          PROVE  result' = result /\ \A u \in Uploads : Busy(u)' \subseteq Busy(u)
      BY <2>2 DEF NodeDies, Busy, Executing
    <2> QED
      BY <2>1, <2>2
  <1>2. ASSUME NEW u \in Uploads
        PROVE  /\ Active[u] \in Nat /\ dead[u] \in 0..Active[u]
               /\ dead[u] \in 0..Cardinality(Workers) /\ Active'[u] = Active[u] - dead[u]
    <2>1. Busy(u) \in SUBSET Workers /\ Busy(u)' \in SUBSET Busy(u)
      BY <1>1 DEF Busy
    <2>2. /\ Cardinality(Busy(u)) \in 0..Cardinality(Workers)
          /\ IsFiniteSet(Busy(u)) /\ IsFiniteSet(Busy(u)')
          /\ Cardinality(Busy(u)') \in Nat /\ Cardinality(Busy(u)') <= Cardinality(Busy(u))
          /\ Cardinality(Workers) \in Nat
      BY <2>1, WorkerSets, FS_Subset, FS_CardinalityType, TaskAssumption
    <2> QED
      BY <2>2 DEF Active
  <1> HIDE DEF dead
  <1>3. dead \in [Uploads -> 0..Cardinality(Workers)]
    BY <1>2 DEF dead
  <1>4. Active' = [u \in Uploads |-> Active[u] - dead[u]]
    BY <1>2 DEF Active
  <1>5. Lifecycle!Vanish(dead)
    BY <1>1, <1>2, <1>4 DEF Lifecycle!Vanish
  <1> QED
    BY <1>3, <1>5 DEF Lifecycle!LifecycleNext

(* The other steps are not seen in the result backend. *)
LEMMA OtherStepsStutter ==
    ASSUME TaskInv, TaskTypeOK',
           \/ Submit \/ Tick \/ UNCHANGED taskVars
           \/ \E m \in Msgs : Deliver(m) \/ Lapse(m)
           \/ \E u \in Uploads : PurgeFile(u)
           \/ \E w \in Workers : \/ Validated(w) \/ Invalid(w) \/ Leave(w)
                                \/ SoftLimit(w) \/ Rethrow(w) \/ PublishRetry(w) \/ Ack(w)
    PROVE  UNCHANGED Lifecycle!lifecycleVars
  <1>1. CASE \/ Submit \/ Tick \/ UNCHANGED taskVars
             \/ \E m \in Msgs : Deliver(m) \/ Lapse(m)
             \/ \E u \in Uploads : PurgeFile(u)
    <2>1. UNCHANGED <<phase, exec, result>>
      BY <1>1 DEF Submit, Tick, Deliver, Lapse, PurgeFile, taskVars, execVars
    <2> QED
      BY <2>1, SameBusy DEF Busy, File
  <1>2. ASSUME NEW w \in Workers,
               \/ Validated(w) \/ Invalid(w) \/ Leave(w)
               \/ SoftLimit(w) \/ Rethrow(w) \/ PublishRetry(w) \/ Ack(w)
        PROVE  UNCHANGED Lifecycle!lifecycleVars
    <2>1. /\ TaskTypeOK /\ UNCHANGED result
          /\ phase' = [phase EXCEPT ![w] = phase'[w]] /\ exec' = [exec EXCEPT ![w] = exec'[w]]
          /\ \/ phase[w] \in Executing /\ phase'[w] \in Executing /\ exec'[w] = exec[w]
             \/ phase[w] \notin Executing /\ phase'[w] \notin Executing
      BY <1>2 DEF TaskInv, TaskTypeOK, Validated, Invalid, Leave, SoftLimit, Rethrow, PublishRetry,
                  Ack, Moved, Idle, Executing
    <2>2. \A u \in Uploads : Busy(u)' = Busy(u)
      BY <2>1, BusyAfter DEF Busy, File
    <2> QED
      BY <2>1, <2>2, SameBusy
  <1> QED
    BY <1>1, <1>2

LEMMA LifecycleStep ==
    TaskInv /\ TaskInv' /\ [TaskNext]_taskVars
        => [Lifecycle!LifecycleNext]_(Lifecycle!lifecycleVars)
  <1> SUFFICES ASSUME TaskInv, TaskInv', [TaskNext]_taskVars
               PROVE  Lifecycle!LifecycleNext \/ UNCHANGED Lifecycle!lifecycleVars
    OBVIOUS
  <1>1. TaskTypeOK'
    BY DEF TaskInv
  <1> QED
    BY <1>1, BeginStarts, EndEnds, ProgressReports, DeathsVanish, OtherStepsStutter
       DEF TaskNext, TaskStep

(* The broker, the pool and the purge, with their deliveries, retries, kills and *)
(* deaths, show in the result backend only what TaskLifecycle describes, which is *)
(* what the readers of TaskStatus rely on.                                       *)
THEOREM TasksImplementLifecycle == TaskSpec => ImplementsLifecycle
  <1>1. TaskSpec => [][Lifecycle!LifecycleNext]_(Lifecycle!lifecycleVars)
    BY LifecycleStep, TaskInvHolds, PTL DEF TaskSpec
  <1> QED
    BY <1>1, LifecycleInitHolds, PTL
       DEF TaskSpec, ImplementsLifecycle, Lifecycle!LifecycleSpec
=============================================================================
