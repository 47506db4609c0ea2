------------------------------- MODULE Upload -------------------------------
(***************************************************************************)
(* submit_upload: a client's file is streamed into UPLOAD_DIR and a task   *)
(* for it is pushed to the broker.                                         *)
(*                                                                         *)
(* Every request stores under a fresh uuid, so the file of a request is    *)
(* named after it.  A coroutine can be cancelled at every await (the client*)
(* goes away), and the API process can die at any time.  What it awaits may*)
(* be done by a thread, which goes on: aiofiles opens the file in one, and *)
(* to_thread pushes the task.  A push that raises may have reached the     *)
(* broker.                                                                 *)
(***************************************************************************)
EXTENDS Integers, FiniteSets

CONSTANTS
    Uploads,    \* bound: the upload requests of a behaviour
    MaxParts,   \* the size limit (MAX_UPLOAD_MB), in parts of READ_CHUNK_BYTES
    MaxSent     \* bound: the most parts a client sends

ASSUME UploadAssumption == MaxParts \in Nat /\ MaxSent \in Nat

VARIABLES
    upload,   \* where each request is
    sent,     \* what its client sends
    opens,    \* the requests whose file a thread has still to create
    files,    \* the requests that have a file in UPLOAD_DIR
    written,  \* the local variable `written`, in parts
    pushed    \* the requests whose task has reached the broker

uploadVars == <<upload, sent, opens, files, written, pushed>>

Inputs == [parts : 0..MaxSent, genuine : BOOLEAN]
NoInput == [parts |-> 0, genuine |-> FALSE]

UploadInit ==
    /\ upload = [u \in Uploads |-> "idle"]
    /\ sent = [u \in Uploads |-> NoInput]
    /\ opens = {}
    /\ files = {}
    /\ written = [u \in Uploads |-> 0]
    /\ pushed = {}

Goto(u, label) == upload' = [upload EXCEPT ![u] = label]

-----------------------------------------------------------------------------

\* The checks of the name and of the declared size refuse the request.
Refuse(u) ==
    /\ upload[u] = "idle"
    /\ Goto(u, "refused")
    /\ UNCHANGED <<sent, opens, files, written, pushed>>

\* aiofiles.open: a thread is to open the file for writing.
Open(u, input) ==
    /\ upload[u] = "idle"
    /\ Goto(u, "opening")
    /\ sent' = [sent EXCEPT ![u] = input]
    /\ opens' = opens \cup {u}
    /\ UNCHANGED <<files, written, pushed>>

\* In the thread, whether or not the coroutine still waits.
Create(u) ==
    /\ u \in opens
    /\ opens' = opens \ {u}
    /\ files' = files \cup {u}
    /\ UNCHANGED <<upload, sent, written, pushed>>

Opened(u) ==
    /\ upload[u] = "opening"
    /\ u \notin opens
    /\ Goto(u, "streaming")
    /\ UNCHANGED <<sent, opens, files, written, pushed>>

More(u) == upload[u] = "streaming" /\ written[u] < sent[u].parts

\* The first part does not look like a file of this type, or a part goes beyond
\* the limit.
Unacceptable(u) == (written[u] = 0 /\ ~sent[u].genuine) \/ written[u] + 1 > MaxParts

\* Mutant of Unlinked: the file that was begun stays.
LeftBehind(u) == files

\* The directory after dest.unlink(missing_ok=True).
Unlinked(u) == files \ {u}

WritePart(u) ==
    /\ More(u)
    /\ ~Unacceptable(u)
    /\ written' = [written EXCEPT ![u] = @ + 1]
    /\ UNCHANGED <<upload, sent, opens, files, pushed>>

RefusePart(u) ==
    /\ More(u)
    /\ Unacceptable(u)
    /\ files' = Unlinked(u)
    /\ Goto(u, "refused")
    /\ UNCHANGED <<sent, opens, written, pushed>>

\* The stream ends; an empty file is refused.
EndOfUpload(u) ==
    /\ upload[u] = "streaming"
    /\ written[u] = sent[u].parts
    /\ IF written[u] = 0
       THEN Goto(u, "refused") /\ files' = Unlinked(u)
       ELSE Goto(u, "enqueuing") /\ UNCHANGED files
    /\ UNCHANGED <<sent, opens, written, pushed>>

\* Opening raises, or the coroutine is cancelled meanwhile: `except BaseException`
\* removes what is there, but a thread that has begun still creates the file.
AbandonOpen(u) ==
    /\ upload[u] = "opening"
    /\ files' = Unlinked(u)
    /\ opens' \in {opens, opens \ {u}}
    /\ Goto(u, "abandoned")
    /\ UNCHANGED <<sent, written, pushed>>

\* Reading or writing raises, or the coroutine is cancelled.
Abort(u) ==
    /\ upload[u] = "streaming"
    /\ files' = Unlinked(u)
    /\ Goto(u, "aborted")
    /\ UNCHANGED <<sent, opens, written, pushed>>

\* send_task returns.
PushOk(u) ==
    /\ upload[u] = "enqueuing"
    /\ pushed' = pushed \cup {u}
    /\ Goto(u, "accepted")
    /\ UNCHANGED <<sent, opens, files, written>>

\* Mutant of PushRaises: the file is taken back when the push raises.
PushRaisesTidily(u) ==
    /\ upload[u] = "enqueuing"
    /\ pushed' \in {pushed, pushed \cup {u}}
    /\ Goto(u, "unavailable")
    /\ files' = Unlinked(u)
    /\ UNCHANGED <<sent, opens, written>>

\* send_task raises, although the task may have been pushed: 503, and the file stays.
PushRaises(u) ==
    /\ upload[u] = "enqueuing"
    /\ pushed' \in {pushed, pushed \cup {u}}
    /\ Goto(u, "unavailable")
    /\ UNCHANGED <<sent, opens, files, written>>

\* The coroutine is cancelled while a thread runs send_task, which goes on.
PushUnawaited(u) ==
    /\ upload[u] = "enqueuing"
    /\ pushed' \in {pushed, pushed \cup {u}}
    /\ Goto(u, "cancelled")
    /\ UNCHANGED <<sent, opens, files, written>>

\* The API process dies with its threads; nothing is tidied up.
ApiDies ==
    LET lost == {u \in Uploads : upload[u] \in {"opening", "streaming", "enqueuing"}} IN
    /\ lost # {}
    /\ upload' = [u \in Uploads |-> IF u \in lost THEN "died" ELSE upload[u]]
    /\ \E S \in SUBSET {u \in lost : upload[u] = "enqueuing"} : pushed' = pushed \cup S
    /\ opens' = {}
    /\ UNCHANGED <<sent, files, written>>

UploadStep(u) ==
    \/ Create(u) \/ Opened(u)
    \/ WritePart(u) \/ RefusePart(u) \/ EndOfUpload(u)
    \/ PushOk(u) \/ PushRaises(u)

UploadNext ==
    \/ \E u \in Uploads :
          \/ Refuse(u) \/ UploadStep(u)
          \/ AbandonOpen(u) \/ Abort(u) \/ PushUnawaited(u)
          \/ \E input \in Inputs : Open(u, input)
    \/ ApiDies

UploadSpec == UploadInit /\ [][UploadNext]_uploadVars

-----------------------------------------------------------------------------
(* Properties. *)

Ended == {"refused", "abandoned", "aborted", "accepted", "unavailable", "cancelled", "died"}

(* Types of the variables. *)
UploadTypeOK ==
    /\ upload \in [Uploads -> {"idle", "opening", "streaming", "enqueuing"} \cup Ended]
    /\ sent \in [Uploads -> Inputs]
    /\ opens \subseteq Uploads
    /\ files \subseteq Uploads
    /\ written \in [Uploads -> 0..MaxSent]
    /\ pushed \subseteq Uploads

\* The file holds all that the client sent, and that is what a worker may open.
Whole(u) ==
    /\ sent[u].genuine
    /\ written[u] = sent[u].parts
    /\ written[u] \in 1..MaxParts

(* What ended requests leave in UPLOAD_DIR: whole files that passed every check,*)
(* and nothing of a request that was refused, or aborted once its file was open;*)
(* a request that is cancelled while a thread opens its file (line 58) may leave*)
(* an empty one, for which the unlink of line 88 came too early, and only a    *)
(* process that dies leaves a part of a file (both are left to the daily purge,*)
(* "orphaned files caused by catastrophic crashes", tasks.py:244).             *)
OnlyWholeFilesStay ==
    \A u \in files :
        \/ upload[u] \in {"enqueuing", "accepted", "unavailable", "cancelled"} /\ Whole(u)
        \/ upload[u] \in {"opening", "streaming", "died"}
        \/ upload[u] = "abandoned" /\ written[u] = 0
=============================================================================
