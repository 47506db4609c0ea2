------------------------------ MODULE HttpSend ------------------------------
(***************************************************************************)
(* send_message_with_retry: at most Permits calls at a time, each with up  *)
(* to Retries POSTs and a sleep between them.  A permit is held from the   *)
(* first POST to the return of the call, sleeps included.                  *)
(*                                                                         *)
(* asyncio.Semaphore is FIFO: a released permit goes to the caller that has*)
(* waited longest.  The lifespan sets http_client before the first request *)
(* is served, so the early return of lines 29-31 is never taken.           *)
(***************************************************************************)
EXTENDS Integers, SequencesExt, FiniteSets

CONSTANTS Sends,    \* bound: the calls of a behaviour
          Permits,  \* asyncio.Semaphore(10)
          Retries   \* retries

ASSUME SendAssumption == Permits \in Nat \ {0} /\ Retries \in Nat \ {0}

VARIABLES
    send,     \* where each call is
    queue,    \* calls waiting for a permit
    attempt,  \* POSTs a call has begun
    copies    \* copies of the message that Meta has accepted

sendVars == <<send, queue, attempt, copies>>

Holding == {"posting", "accepted", "sleeping"}
Pending == Holding \cup {"waiting"}
Returned == {"sent", "failed", "cancelled"}

Holders == {i \in Sends : send[i] \in Holding}

SendInit ==
    /\ send = [i \in Sends |-> "idle"]
    /\ queue = <<>>
    /\ attempt = [i \in Sends |-> 0]
    /\ copies = [i \in Sends |-> 0]

-----------------------------------------------------------------------------

Locked == Cardinality(Holders) >= Permits \/ queue # <<>>

CallNow(i) ==
    /\ send[i] = "idle"
    /\ ~Locked
    /\ send' = [send EXCEPT ![i] = "posting"]
    /\ attempt' = [attempt EXCEPT ![i] = 1]
    /\ UNCHANGED <<queue, copies>>

CallAndWait(i) ==
    /\ send[i] = "idle"
    /\ Locked
    /\ send' = [send EXCEPT ![i] = "waiting"]
    /\ queue' = Append(queue, i)
    /\ UNCHANGED <<attempt, copies>>

Call(i) == CallNow(i) \/ CallAndWait(i)

\* Mutant of Leave: the permit is released but no waiter is woken.
LeaveUnnoticed(i, outcome) ==
    /\ send' = [send EXCEPT ![i] = outcome]
    /\ UNCHANGED <<queue, attempt>>

\* `async with` ends: the call returns, and its permit passes to the first waiter.
Leave(i, outcome) ==
    IF queue = <<>>
    THEN /\ send' = [send EXCEPT ![i] = outcome]
         /\ UNCHANGED <<queue, attempt>>
    ELSE /\ send' = [send EXCEPT ![i] = outcome, ![Head(queue)] = "posting"]
         /\ attempt' = [attempt EXCEPT ![Head(queue)] = 1]
         /\ queue' = Tail(queue)

\* Meta accepts the message; the response is still to come.
Accepted(i) ==
    /\ send[i] = "posting"
    /\ send' = [send EXCEPT ![i] = "accepted"]
    /\ copies' = [copies EXCEPT ![i] = @ + 1]
    /\ UNCHANGED <<queue, attempt>>

\* Status 200, with a JSON body.
PostOk(i) ==
    /\ send[i] = "accepted"
    /\ Leave(i, "sent")
    /\ UNCHANGED copies

\* Mutant of LastAttempt: one more POST.
NeverLast(i) == attempt[i] > Retries

LastAttempt(i) == attempt[i] >= Retries

\* Another status, an exception, or an accepted message whose response is lost.
PostFails(i) ==
    /\ send[i] \in {"posting", "accepted"}
    /\ IF LastAttempt(i)
       THEN Leave(i, "failed")
       ELSE /\ send' = [send EXCEPT ![i] = "sleeping"]
            /\ UNCHANGED <<queue, attempt>>
    /\ UNCHANGED copies

Wake(i) ==
    /\ send[i] = "sleeping"
    /\ send' = [send EXCEPT ![i] = "posting"]
    /\ attempt' = [attempt EXCEPT ![i] = @ + 1]
    /\ UNCHANGED <<queue, copies>>

\* The background task is cancelled while the call waits, or during a POST or a sleep.
CancelWaiting(i) ==
    /\ send[i] = "waiting"
    /\ send' = [send EXCEPT ![i] = "cancelled"]
    /\ \E k \in 1..Len(queue) : queue[k] = i /\ queue' = RemoveAt(queue, k)
    /\ UNCHANGED <<attempt, copies>>

CancelHolding(i) ==
    /\ send[i] \in Holding
    /\ Leave(i, "cancelled")
    /\ UNCHANGED copies

SendStep(i) == Accepted(i) \/ PostOk(i) \/ PostFails(i) \/ Wake(i)

SendNext == \E i \in Sends : Call(i) \/ SendStep(i) \/ CancelWaiting(i) \/ CancelHolding(i)

SendSpec == SendInit /\ [][SendNext]_sendVars

\* The client has a timeout of 10 s, and a sleep ends.
SendFairSpec == SendSpec /\ \A i \in Sends : WF_sendVars(SendStep(i))

-----------------------------------------------------------------------------
(* Properties. *)

(* Types; a call never begins more than Retries POSTs. *)
SendTypeOK ==
    /\ send \in [Sends -> {"idle"} \cup Pending \cup Returned]
    /\ queue \in Seq(Sends)
    /\ attempt \in [Sends -> 0..Retries]
    /\ copies \in [Sends -> 0..Retries]

(* No permit is lost and none is invented, whichever way a call ends: never    *)
(* more than Permits calls are inside, and a call waits only while all permits *)
(* are in use; the waiting calls are exactly those in the queue, once each.    *)
PermitsKept ==
    /\ Cardinality(Holders) <= Permits
    /\ queue # <<>> => Cardinality(Holders) = Permits
    /\ ToSet(queue) = {i \in Sends : send[i] = "waiting"}
    /\ IsInjective(queue)

(* Every call returns, also one that waits behind calls that hold their permit *)
(* through all their POSTs and sleeps.                                         *)
CallsReturn == \A i \in Sends : send[i] \in Pending ~> send[i] \in Returned
=============================================================================
