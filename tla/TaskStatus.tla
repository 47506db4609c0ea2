----------------------------- MODULE TaskStatus -----------------------------
(***************************************************************************)
(* How clients learn the status of a task: by polling, and from a stream of*)
(* server-sent events that joins one look at the stored result to the      *)
(* messages of a channel of the task.                                      *)
(*                                                                         *)
(* What is stored changes as TaskLifecycle says.  The channel is external: *)
(* every status is taken to be published after it was stored, in that      *)
(* order, at some later time; Redis gives a message to those who are       *)
(* subscribed when it is published.  The reader's database and the worker's*)
(* are taken to be one.                                                    *)
(***************************************************************************)
EXTENDS TaskLifecycle, SequencesExt

CONSTANTS
    Clients,
    MaxPending,  \* bound: statuses stored and not yet published, per task
    MaxInbox     \* bound: messages that a subscription has not yet read

ASSUME StatusAssumption == MaxPending \in Nat /\ MaxInbox \in Nat

VARIABLES
    ended,        \* history: what the executions of each task have ended with
    unpublished,  \* statuses of each task that are stored and not yet published
    stream,       \* where each stream is
    seen,         \* its local variable `state`
    inbox,        \* what its subscription has received
    late,         \* whether it is older than max_stream_duration
    told          \* the status its client was last told

streamVars == <<stream, seen, inbox, late, told>>
statusVars == <<lifecycleVars, ended, unpublished, streamVars>>

\* <<t, c>> is the stream that client c has opened on task t.
Streams == Tasks \X Clients

Replies == {"queued", "running", "retrying", "done", "failed"}

StatusInit ==
    /\ LifecycleInit
    /\ ended = [t \in Tasks |-> {}]
    /\ unpublished = [t \in Tasks |-> <<>>]
    /\ stream = [s \in Streams |-> "idle"]
    /\ seen = [s \in Streams |-> "PENDING"]
    /\ inbox = [s \in Streams |-> <<>>]
    /\ late = [s \in Streams |-> FALSE]
    /\ told = [s \in Streams |-> "nothing"]

-----------------------------------------------------------------------------
(* The result backend and the channel. *)

\* The reply to a poll.
Polled(status) ==
    CASE status = "PENDING"               -> "queued"
      [] status \in {"STARTED", "PROGRESS"} -> "running"
      [] status = "RETRY"                 -> "retrying"
      [] status = "FAILURE"               -> "failed"
      [] OTHER                            -> status

\* A step of the task's executions, with the message that is to follow.
Work ==
    LET news == {t \in Tasks : result'[t] # result[t]} IN
    /\ LifecycleNext
    /\ \A t \in news : Len(unpublished[t]) < MaxPending
    /\ unpublished' = [t \in Tasks |->
           IF t \in news THEN Append(unpublished[t], Polled(result'[t])) ELSE unpublished[t]]
    /\ ended' = [t \in Tasks |->
           IF t \in news /\ result'[t] \in Final THEN ended[t] \cup {Polled(result'[t])}
                                                 ELSE ended[t]]
    /\ UNCHANGED streamVars

\* result_expires, after which the key is gone.
Expire(t) ==
    /\ result[t] \in Final
    /\ active[t] = 0
    /\ result' = [result EXCEPT ![t] = "PENDING"]
    /\ UNCHANGED <<active, ended, unpublished, streamVars>>

Open == {"subscribed", "fetched", "looping", "waiting"}

\* Mutant of Subscribed: the subscription comes after the first look.
SubscribedLater(t) == {s \in {t} \X Clients : stream[s] \in {"looping", "waiting"}}

Subscribed(t) == {s \in {t} \X Clients : stream[s] \in Open}

Publish(t) ==
    /\ unpublished[t] # <<>>
    /\ \A s \in Subscribed(t) : Len(inbox[s]) < MaxInbox
    /\ unpublished' = [unpublished EXCEPT ![t] = Tail(@)]
    /\ inbox' = [s \in Streams |->
           IF s \in Subscribed(t) THEN Append(inbox[s], Head(unpublished[t])) ELSE inbox[s]]
    /\ UNCHANGED <<lifecycleVars, ended, stream, seen, late, told>>

-----------------------------------------------------------------------------
(* _sse_status_generator, and polling. *)

Terminal == {"done", "failed"}

\* Mutant of Closed: the subscription stays.
ClosedQuietly(s, label) ==
    stream' = [stream EXCEPT ![s] = label] /\ UNCHANGED inbox

\* The `finally` clause: the subscription is given up.
Closed(s, label) ==
    /\ stream' = [stream EXCEPT ![s] = label]
    /\ inbox' = [inbox EXCEPT ![s] = <<>>]

Subscribe(s) ==
    /\ stream[s] = "idle"
    /\ stream' = [stream EXCEPT ![s] = "subscribed"]
    /\ UNCHANGED <<lifecycleVars, ended, unpublished, seen, inbox, late, told>>

\* Mutant of InitialStatus: initial_status wins over the status in `info`.
InitialStatusWins(status) ==
    CASE status \in {"PENDING", "RETRY"}    -> "queued"
      [] status \in {"STARTED", "PROGRESS"} -> "running"
      [] status = "FAILURE"                 -> "failed"
      [] OTHER                              -> "done"

\* The first payload.  A task that returned a failure is stored as SUCCESS, and
\* the status in what it returned replaces initial_status.
InitialStatus(status) ==
    IF status = "RETRY" THEN "queued" ELSE Polled(status)

\* The first look at the result.
Fetch(s) ==
    /\ stream[s] = "subscribed"
    /\ seen' = [seen EXCEPT ![s] = result[s[1]]]
    /\ stream' = [stream EXCEPT ![s] = "fetched"]
    /\ UNCHANGED <<lifecycleVars, ended, unpublished, inbox, late, told>>

\* What was seen is passed on; the stream ends if the task had.
TellFirst(s) ==
    /\ stream[s] = "fetched"
    /\ told' = [told EXCEPT ![s] = InitialStatus(seen[s])]
    /\ IF seen[s] \in Final
       THEN Closed(s, "ended")
       ELSE stream' = [stream EXCEPT ![s] = "looping"] /\ UNCHANGED inbox
    /\ UNCHANGED <<lifecycleVars, ended, unpublished, seen, late>>

\* Mutant of TimeIsUp: messages go first.
TimeIsUpAndNoMessage(s) == late[s] /\ inbox[s] = <<>>

TimeIsUp(s) == late[s]

\* The head of the loop.  A stream that is too old says "failed" and ends.
CheckTime(s) ==
    /\ stream[s] = "looping"
    /\ IF TimeIsUp(s)
       THEN Closed(s, "timed out") /\ told' = [told EXCEPT ![s] = "failed"]
       ELSE /\ stream' = [stream EXCEPT ![s] = "waiting"]
            /\ UNCHANGED <<inbox, told>>
    /\ UNCHANGED <<lifecycleVars, ended, unpublished, seen, late>>

\* get_message returns a message, which is passed on.
Receive(s) ==
    /\ stream[s] = "waiting"
    /\ inbox[s] # <<>>
    /\ told' = [told EXCEPT ![s] = Head(inbox[s])]
    /\ IF Head(inbox[s]) \in Terminal
       THEN Closed(s, "ended")
       ELSE /\ stream' = [stream EXCEPT ![s] = "looping"]
            /\ inbox' = [inbox EXCEPT ![s] = Tail(@)]
    /\ UNCHANGED <<lifecycleVars, ended, unpublished, seen, late>>

\* get_message times out.
KeepAlive(s) ==
    /\ stream[s] = "waiting"
    /\ inbox[s] = <<>>
    /\ stream' = [stream EXCEPT ![s] = "looping"]
    /\ UNCHANGED <<lifecycleVars, ended, unpublished, seen, inbox, late, told>>

\* The client goes away: is_disconnected, or the generator is cancelled.
Disconnect(s) ==
    /\ stream[s] \in Open
    /\ Closed(s, "left")
    /\ UNCHANGED <<lifecycleVars, ended, unpublished, seen, late, told>>

\* 15 minutes have passed.
GrowOld(s) ==
    /\ stream[s] \in Open
    /\ ~late[s]
    /\ late' = [late EXCEPT ![s] = TRUE]
    /\ UNCHANGED <<lifecycleVars, ended, unpublished, stream, seen, inbox, told>>

\* A client without a stream polls.
Poll(s) ==
    /\ stream[s] \notin Open
    /\ told' = [told EXCEPT ![s] = Polled(result[s[1]])]
    /\ UNCHANGED <<lifecycleVars, ended, unpublished, stream, seen, inbox, late>>

-----------------------------------------------------------------------------

StreamStep(s) == Fetch(s) \/ TellFirst(s) \/ CheckTime(s) \/ Receive(s) \/ KeepAlive(s)

StatusNext ==
    \/ Work
    \/ \E t \in Tasks : Expire(t) \/ Publish(t)
    \/ \E s \in Streams :
          Subscribe(s) \/ StreamStep(s) \/ Disconnect(s) \/ GrowOld(s) \/ Poll(s)

StatusSpec == StatusInit /\ [][StatusNext]_statusVars

\* The event loop runs every stream, and time passes.
StatusFairSpec ==
    /\ StatusSpec
    /\ \A s \in Streams : WF_statusVars(StreamStep(s)) /\ WF_statusVars(GrowOld(s))

-----------------------------------------------------------------------------
(* Properties. *)

(* Types; and a stream that has ended has no subscription left ("Safe cleanup   *)
(* of Pub/Sub resources", ingestion.py:275).                                   *)
StatusTypeOK ==
    /\ result \in [Tasks -> Statuses]
    /\ active \in [Tasks -> 0..MaxActive]
    /\ ended \in [Tasks -> SUBSET Terminal]
    /\ unpublished \in [Tasks -> Seq(Replies)]
    /\ \A t \in Tasks : Len(unpublished[t]) <= MaxPending
    /\ stream \in [Streams -> {"idle", "ended", "timed out", "left"} \cup Open]
    /\ seen \in [Streams -> Statuses]
    /\ late \in [Streams -> BOOLEAN]
    /\ told \in [Streams -> {"nothing"} \cup Replies]
    /\ inbox \in [Streams -> Seq(Replies)]
    /\ \A s \in Streams :
          /\ Len(inbox[s]) <= MaxInbox
          /\ stream[s] \notin Open => inbox[s] = <<>>

(* A stream that is past its first look does not wait for an end that has gone *)
(* by: when the result is final and all was published, a final message is in   *)
(* its inbox ("Subscribe to channel first so Redis buffers messages sent during *)
(* initial status fetch", ingestion.py:207).                                   *)
NoEndMissed ==
    \A s \in Streams :
        /\ stream[s] \in {"looping", "waiting"}
        /\ result[s[1]] \in Final
        /\ ToSet(unpublished[s[1]]) \cap Terminal = {}
        => ToSet(inbox[s]) \cap Terminal # {}

(* A client is told that its task is done, or that it failed, only if an       *)
(* execution has ended that way, although a failure that a task returned is    *)
(* stored as a success; a stream that timed out says "failed" of a task that   *)
(* may still be at work.                                                       *)
ToldTruth ==
    \A s \in Streams :
        told[s] \in Terminal =>
            \/ told[s] \in ended[s[1]]
            \/ told[s] = "failed" /\ stream[s] = "timed out"

(* Every stream ends, also one whose messages never stop and one that hears    *)
(* nothing ("prevent zombie connections", ingestion.py:197).                   *)
StreamsEnd == \A s \in Streams : stream[s] \in Open ~> stream[s] \notin Open
=============================================================================
