---------------------------- MODULE TaskLifecycle ----------------------------
(***************************************************************************)
(* What Celery's result backend shows of a task: its status is written by  *)
(* executions of the task, of which there may be several, one after the    *)
(* other or at the same time, and which may vanish without a word.         *)
(***************************************************************************)
EXTENDS Integers

CONSTANTS
    Tasks,
    MaxActive   \* bound: executions of one task at a time (the pool's processes)

ASSUME LifecycleAssumption == MaxActive \in Nat

VARIABLES
    result,   \* the status stored for each task
    active    \* the number of its executions

lifecycleVars == <<result, active>>

\* SUCCESS is stored for both values that ingest_document returns.
Final == {"done", "failed", "FAILURE"}
Statuses == {"PENDING", "STARTED", "PROGRESS", "RETRY"} \cup Final

LifecycleInit ==
    /\ result = [t \in Tasks |-> "PENDING"]
    /\ active = [t \in Tasks |-> 0]

\* An execution begins; task_track_started shows it.
Start(t) ==
    /\ active[t] < MaxActive
    /\ result' = [result EXCEPT ![t] = "STARTED"]
    /\ active' = [active EXCEPT ![t] = @ + 1]

Report(t) ==
    /\ active[t] > 0
    /\ result' = [result EXCEPT ![t] = "PROGRESS"]
    /\ UNCHANGED active

\* An execution ends with a status, and another execution may follow.
End(t, status) ==
    /\ active[t] > 0
    /\ status \in Final \cup {"RETRY"}
    /\ result' = [result EXCEPT ![t] = status]
    /\ active' = [active EXCEPT ![t] = @ - 1]

\* Executions end without a word: their processes die, or Celery rejects them.
Vanish(dead) ==
    /\ \A t \in Tasks : dead[t] \in 0..active[t]
    /\ active' = [t \in Tasks |-> active[t] - dead[t]]
    /\ UNCHANGED result

LifecycleNext ==
    \/ \E t \in Tasks :
          \/ Start(t) \/ Report(t)
          \/ \E status \in Final \cup {"RETRY"} : End(t, status)
    \/ \E dead \in [Tasks -> 0..MaxActive] : Vanish(dead)

LifecycleSpec == LifecycleInit /\ [][LifecycleNext]_lifecycleVars
=============================================================================
