----------------------------- MODULE LazyClient -----------------------------
(***************************************************************************)
(* _get_qdrant, _get_genai_client and _get_sparse_model: three process-wide*)
(* singletons, each created once under a lock of its own by a double-      *)
(* checked test.  They share no state, so one of them is modelled.         *)
(*                                                                         *)
(* Reading and assigning the global is atomic.  A constructor that raises, *)
(* or a setting that is missing, raises IngestionError through the `with`. *)
(***************************************************************************)
EXTENDS Naturals

CONSTANTS Threads,   \* threads of one process
          NoThread   \* the holder of a lock that is free

ASSUME ThreadsAssumption == NoThread \notin Threads

None == 0   \* a client is the number of its construction; None is no client

VARIABLES
    client,   \* the global
    lock,     \* the thread that holds the lock
    at,       \* where each thread is
    got,      \* what its last call returned
    made      \* clients constructed so far

lazyVars == <<client, lock, at, got, made>>

Inside == {"check", "construct", "leave"}   \* in the body of `with`
Calling == {"start", "acquire", "return"} \cup Inside

LazyInit ==
    /\ client = None
    /\ lock = NoThread
    /\ at = [t \in Threads |-> "idle"]
    /\ got = [t \in Threads |-> None]
    /\ made = 0

-----------------------------------------------------------------------------

GoTo(t, label) == at' = [at EXCEPT ![t] = label]

Called(t) ==
    /\ at[t] = "idle"
    /\ GoTo(t, "start")
    /\ UNCHANGED <<client, lock, got, made>>

\* The test outside the lock.
FirstTest(t) ==
    /\ at[t] = "start"
    /\ GoTo(t, IF client # None THEN "return" ELSE "acquire")
    /\ UNCHANGED <<client, lock, got, made>>

Acquire(t) ==
    /\ at[t] = "acquire"
    /\ lock = NoThread
    /\ lock' = t
    /\ GoTo(t, "check")
    /\ UNCHANGED <<client, got, made>>

\* Mutant of AfterCheck: the second test is dropped.
AlwaysConstruct == "construct"

AfterCheck == IF client # None THEN "leave" ELSE "construct"

\* The test under the lock.
SecondTest(t) ==
    /\ at[t] = "check"
    /\ GoTo(t, AfterCheck)
    /\ UNCHANGED <<client, lock, got, made>>

Construct(t) ==
    /\ at[t] = "construct"
    /\ made' = made + 1
    /\ client' = made'
    /\ GoTo(t, "leave")
    /\ UNCHANGED <<lock, got>>

\* Mutant of Release: an exception keeps the lock.
ReleaseUnlessRaised(t) == lock' = IF at[t] = "construct" THEN lock ELSE NoThread

Release(t) == lock' = NoThread

ConstructFails(t) ==
    /\ at[t] = "construct"
    /\ Release(t)
    /\ GoTo(t, "idle")
    /\ UNCHANGED <<client, got, made>>

Leave(t) ==
    /\ at[t] = "leave"
    /\ Release(t)
    /\ GoTo(t, "return")
    /\ UNCHANGED <<client, got, made>>

\* `return _qdrant_client`: the global is read again, without the lock.
Return(t) ==
    /\ at[t] = "return"
    /\ got' = [got EXCEPT ![t] = client]
    /\ GoTo(t, "idle")
    /\ UNCHANGED <<client, lock, made>>

LazyStep(t) ==
    FirstTest(t) \/ Acquire(t) \/ SecondTest(t) \/ Construct(t) \/ Leave(t) \/ Return(t)

LazyNext == \E t \in Threads : Called(t) \/ LazyStep(t) \/ ConstructFails(t)

LazySpec == LazyInit /\ [][LazyNext]_lazyVars

\* Threads run, and there comes a time when constructing no longer fails.
LazyFairSpec ==
    /\ LazySpec
    /\ \A t \in Threads : WF_lazyVars(LazyStep(t))
    /\ <>[][\A t \in Threads : ~ConstructFails(t)]_lazyVars

-----------------------------------------------------------------------------
(* Properties. *)

LazyTypeOK ==
    /\ client \in Nat /\ made \in Nat
    /\ lock \in Threads \cup {NoThread}
    /\ at \in [Threads -> {"idle"} \cup Calling]
    /\ got \in [Threads -> Nat]

(* "Returns the process-level client, creating it once under a lock": however  *)
(* threads interleave and however often the constructor fails, at most one     *)
(* client is ever constructed, and a call that returns returns that one: the   *)
(* read after the lock was released never finds None.                          *)
OneClient ==
    /\ made <= 1
    /\ \A t \in Threads : at[t] = "return" => client = 1
    /\ \A t \in Threads : got[t] \in {None, 1}

(* Every call ends, also after calls that raised while they held the lock.     *)
ClientCallsReturn == \A t \in Threads : at[t] \in Calling ~> at[t] = "idle"
=============================================================================
