------------------------- MODULE TaskStatus_proofs -------------------------
(***************************************************************************)
(* Proofs about TaskStatus, for any number of tasks, executions and        *)
(* clients, and for queues of any length.                                  *)
(***************************************************************************)
EXTENDS TaskStatus, TLAPS

(* The elements of a sequence, after one is added and before the first goes. *)
LEMMA Elements ==
    ASSUME NEW S, NEW q \in Seq(S)
    PROVE  ToSet(q) = {q[i] : i \in 1..Len(q)}
  BY DEF ToSet

LEMMA ToSetOfAppend ==
    ASSUME NEW S, NEW q \in Seq(S), NEW e \in S
    PROVE  Append(q, e) \in Seq(S) /\ ToSet(Append(q, e)) = ToSet(q) \cup {e}
  <1>1. /\ Append(q, e) \in Seq(S) /\ Len(q) \in Nat
        /\ Len(Append(q, e)) = Len(q) + 1
        /\ \A i \in 1..Len(q) : Append(q, e)[i] = q[i]
        /\ Append(q, e)[Len(q) + 1] = e
    OBVIOUS
  <1>2. 1..(Len(q) + 1) = 1..Len(q) \cup {Len(q) + 1}
    BY <1>1
  <1>3. {Append(q, e)[i] : i \in 1..(Len(q) + 1)} = {q[i] : i \in 1..Len(q)} \cup {e}
    BY <1>1, <1>2
  <1> QED
    BY <1>1, <1>3, Elements

LEMMA ToSetOfTail ==
    ASSUME NEW S, NEW q \in Seq(S), q # <<>>
    PROVE  /\ Head(q) \in S /\ Tail(q) \in Seq(S)
           /\ ToSet(q) = {Head(q)} \cup ToSet(Tail(q))
           /\ Len(Tail(q)) \in Nat /\ Len(Tail(q)) + 1 = Len(q)
  <1>1. /\ Head(q) = q[1] /\ Head(q) \in S /\ Tail(q) \in Seq(S)
        /\ Len(q) \in Nat /\ Len(q) >= 1 /\ Len(Tail(q)) = Len(q) - 1
        /\ \A i \in 1..(Len(q) - 1) : Tail(q)[i] = q[i + 1]
    OBVIOUS
  <1>2. {q[i] : i \in 1..Len(q)} = {q[1]} \cup {q[i + 1] : i \in 1..(Len(q) - 1)}
    <2>1. \A i \in 1..Len(q) : i = 1 \/ (i - 1 \in 1..(Len(q) - 1) /\ i = (i - 1) + 1)
      BY <1>1
    <2>2. 1 \in 1..Len(q) /\ \A i \in 1..(Len(q) - 1) : i + 1 \in 1..Len(q)
      BY <1>1
    <2> QED
      BY <2>1, <2>2
  <1>3. {Tail(q)[i] : i \in 1..(Len(q) - 1)} = {q[i + 1] : i \in 1..(Len(q) - 1)}
    BY <1>1
  <1>4. ToSet(q) = {Head(q)} \cup ToSet(Tail(q))
    BY <1>1, <1>2, <1>3, Elements
  <1> QED
    BY <1>1, <1>4

-----------------------------------------------------------------------------

\* What stream s has seen so far does not tell it that its task has ended.
Listening(s) ==
    \/ stream[s] \in {"looping", "waiting"}
    \/ stream[s] = "fetched" /\ seen[s] \notin Final

\* Every end that stream s has on its way, has seen or has told has happened;
\* and while it listens, an end that is stored is on its way to it.
StreamInv(s) ==
    /\ ToSet(inbox[s]) \cap Terminal \subseteq ended[s[1]]
    /\ stream[s] = "fetched" /\ seen[s] \in Final => Polled(seen[s]) \in ended[s[1]]
    /\ told[s] \in Terminal =>
          \/ told[s] \in ended[s[1]]
          \/ told[s] = "failed" /\ stream[s] = "timed out"
    /\ Listening(s) /\ result[s[1]] \in Final =>
          (ToSet(unpublished[s[1]]) \cup ToSet(inbox[s])) \cap Terminal # {}

\* Every end that is stored for task t, or waits to be published, has happened.
EndsInv(t) ==
    /\ result[t] \in Final => Polled(result[t]) \in ended[t]
    /\ ToSet(unpublished[t]) \cap Terminal \subseteq ended[t]

StatusInv ==
    /\ StatusTypeOK
    /\ \A t \in Tasks : EndsInv(t)
    /\ \A s \in Streams : StreamInv(s)

LEMMA PolledType ==
    ASSUME NEW status \in Statuses
    PROVE  /\ Polled(status) \in Replies
           /\ InitialStatus(status) \in Replies
           /\ status \in Final => Polled(status) \in Terminal
           /\ InitialStatus(status) \in Terminal =>
                 status \in Final /\ InitialStatus(status) = Polled(status)
  BY DEF Polled, InitialStatus, Statuses, Final, Replies, Terminal

LEMMA StatusInvInit == StatusInit => StatusInv
  <1> SUFFICES ASSUME StatusInit
               PROVE  StatusInv
    OBVIOUS
  <1>1. ToSet(<<>>) = {}
    BY DEF ToSet
  <1>2. StatusTypeOK
    BY LifecycleAssumption, StatusAssumption
       DEF StatusInit, LifecycleInit, StatusTypeOK, Statuses, Open
  <1> QED
    BY <1>1, <1>2 DEF StatusInit, LifecycleInit, StatusInv, StreamInv, EndsInv, Listening,
                      Final, Terminal, Streams

(* Steps of the executions. *)
LEMMA WorkKeepsStatusInv ==
    ASSUME StatusInv, Work
    PROVE  StatusInv'
  <1> DEFINE news == {t \in Tasks : result'[t] # result[t]}
  <1>1. /\ \A t \in news : Len(unpublished[t]) < MaxPending
        /\ unpublished' = [t \in Tasks |->
               IF t \in news THEN Append(unpublished[t], Polled(result'[t])) ELSE unpublished[t]]
        /\ ended' = [t \in Tasks |->
               IF t \in news /\ result'[t] \in Final THEN ended[t] \cup {Polled(result'[t])}
                                                     ELSE ended[t]]
        /\ UNCHANGED <<stream, seen, inbox, late, told>>
    BY DEF Work, streamVars
  <1>2. result' \in [Tasks -> Statuses] /\ active' \in [Tasks -> 0..MaxActive]
    <2>1. /\ LifecycleNext /\ MaxActive \in Nat
          /\ result \in [Tasks -> Statuses] /\ active \in [Tasks -> 0..MaxActive]
      BY LifecycleAssumption DEF Work, StatusInv, StatusTypeOK
    <2> HIDE DEF news
    <2>2. ASSUME NEW t \in Tasks, Start(t)
          PROVE  result' \in [Tasks -> Statuses] /\ active' \in [Tasks -> 0..MaxActive]
      BY <2>1, <2>2 DEF Start, Statuses
    <2>3. ASSUME NEW t \in Tasks, Report(t)
          PROVE  result' \in [Tasks -> Statuses] /\ active' \in [Tasks -> 0..MaxActive]
      BY <2>1, <2>3 DEF Report, Statuses
    <2>4. ASSUME NEW t \in Tasks, NEW status \in Final \cup {"RETRY"}, End(t, status)
          PROVE  result' \in [Tasks -> Statuses] /\ active' \in [Tasks -> 0..MaxActive]
      <3>1. active[t] \in 0..MaxActive /\ active[t] > 0 /\ status \in Statuses
        BY <2>1, <2>4 DEF End, Statuses
      <3>2. active[t] - 1 \in 0..MaxActive
        BY <2>1, <3>1
      <3>3. /\ result' = [result EXCEPT ![t] = status]
            /\ active' = [active EXCEPT ![t] = active[t] - 1]
        BY <2>4 DEF End
      <3> QED
        BY <2>1, <3>1, <3>2, <3>3
    <2>5. ASSUME NEW dead \in [Tasks -> 0..MaxActive], Vanish(dead)
          PROVE  result' \in [Tasks -> Statuses] /\ active' \in [Tasks -> 0..MaxActive]
      <3>1. ASSUME NEW t \in Tasks
            PROVE  active[t] - dead[t] \in 0..MaxActive
        <4>1. active[t] \in 0..MaxActive /\ dead[t] \in 0..active[t]
          BY <2>1, <2>5 DEF Vanish
        <4> QED
          BY <2>1, <4>1
      <3>2. result' = result /\ active' = [t \in Tasks |-> active[t] - dead[t]]
        BY <2>5 DEF Vanish
      <3> QED
        BY <2>1, <3>1, <3>2
    <2> QED
      BY <2>1, <2>2, <2>3, <2>4, <2>5 DEF LifecycleNext
  <1>3. ASSUME NEW t \in Tasks
        PROVE  /\ ended[t] \subseteq ended'[t] /\ ended'[t] \subseteq Terminal
               /\ unpublished'[t] \in Seq(Replies) /\ Len(unpublished'[t]) <= MaxPending
               /\ ToSet(unpublished[t]) \subseteq ToSet(unpublished'[t])
               /\ result'[t] \in Final => Polled(result'[t]) \in ended'[t]
               /\ ToSet(unpublished'[t]) \cap Terminal \subseteq ended'[t]
               /\ result'[t] \in Final /\ result'[t] # result[t] =>
                     ToSet(unpublished'[t]) \cap Terminal # {}
    <2>1. /\ unpublished[t] \in Seq(Replies) /\ Len(unpublished[t]) <= MaxPending
          /\ ended[t] \subseteq Terminal /\ result'[t] \in Statuses
      BY <1>2 DEF StatusInv, StreamInv, EndsInv, StatusTypeOK
    <2>2. /\ Polled(result'[t]) \in Replies
          /\ (result'[t] \in Final => Polled(result'[t]) \in Terminal)
      BY <2>1, PolledType
    <2>3. CASE t \notin news
      BY <1>1, <2>1, <2>3 DEF StatusInv, StreamInv, EndsInv
    <2>4. CASE t \in news
      <3>1. /\ unpublished'[t] = Append(unpublished[t], Polled(result'[t]))
            /\ unpublished'[t] \in Seq(Replies)
            /\ ToSet(unpublished'[t]) = ToSet(unpublished[t]) \cup {Polled(result'[t])}
        BY <1>1, <2>1, <2>2, <2>4, ToSetOfAppend
      <3>2. Len(unpublished'[t]) <= MaxPending
        BY <1>1, <2>1, <2>2, <2>4, <3>1, StatusAssumption
      <3>3. Polled(result'[t]) \in Terminal => result'[t] \in Final
        BY <2>1 DEF Polled, Statuses, Terminal, Final
      <3> QED
        BY <1>1, <2>1, <2>2, <2>4, <3>1, <3>2, <3>3 DEF StatusInv, StreamInv, EndsInv
    <2> QED
      BY <2>3, <2>4
  <1>4. StatusTypeOK'
    <2>1. unpublished' \in [Tasks -> Seq(Replies)] /\ ended' \in [Tasks -> SUBSET Terminal]
      BY <1>1, <1>3
    <2> QED
      BY <1>1, <1>2, <1>3, <2>1 DEF StatusInv, StreamInv, EndsInv, StatusTypeOK
  <1>5. \A s \in Streams : s[1] \in Tasks
    BY DEF Streams
  <1>6. ASSUME NEW s \in Streams
        PROVE  /\ ToSet(inbox'[s]) \cap Terminal \subseteq ended'[s[1]]
               /\ stream'[s] = "fetched" /\ seen'[s] \in Final => Polled(seen'[s]) \in ended'[s[1]]
               /\ told'[s] \in Terminal =>
                     \/ told'[s] \in ended'[s[1]]
                     \/ told'[s] = "failed" /\ stream'[s] = "timed out"
    <2>1. ended[s[1]] \subseteq ended'[s[1]]
      BY <1>3, <1>5
    <2> QED
      BY <1>1, <2>1 DEF StatusInv, StreamInv, EndsInv
  <1>7. ASSUME NEW s \in Streams, Listening(s)', result'[s[1]] \in Final
        PROVE  (ToSet(unpublished'[s[1]]) \cup ToSet(inbox'[s])) \cap Terminal # {}
    <2>1. Listening(s)
      BY <1>1, <1>7 DEF Listening
    <2>2. CASE result'[s[1]] = result[s[1]]
      <3>1. (ToSet(unpublished[s[1]]) \cup ToSet(inbox[s])) \cap Terminal # {}
        BY <1>7, <2>1, <2>2 DEF StatusInv, StreamInv, EndsInv
      <3>2. ToSet(unpublished[s[1]]) \subseteq ToSet(unpublished'[s[1]])
        BY <1>3, <1>5
      <3> QED
        BY <1>1, <3>1, <3>2
    <2>3. CASE result'[s[1]] # result[s[1]]
      BY <1>3, <1>5, <1>7, <2>3
    <2> QED
      BY <2>2, <2>3
  <1>8. \A t \in Tasks :
           /\ result'[t] \in Final => Polled(result'[t]) \in ended'[t]
           /\ ToSet(unpublished'[t]) \cap Terminal \subseteq ended'[t]
    BY <1>3
  <1> QED
    BY <1>4, <1>6, <1>7, <1>8 DEF StatusInv, StreamInv, EndsInv

(* A result expires. *)
LEMMA ExpireKeepsStatusInv ==
    ASSUME StatusInv, NEW t \in Tasks, Expire(t)
    PROVE  StatusInv'
  <1>1. \A s \in Streams : s[1] \in Tasks
    BY DEF Streams
  <1> QED
    BY <1>1 DEF StatusInv, StreamInv, EndsInv, StatusTypeOK, Expire, streamVars,
                  Listening, Statuses, Final

(* A step that touches one stream only. *)
LEMMA OneStream ==
    ASSUME StatusInv, NEW s \in Streams,
           UNCHANGED <<result, active, ended, unpublished>>,
           stream' = [stream EXCEPT ![s] = stream'[s]],
           seen' = [seen EXCEPT ![s] = seen'[s]],
           inbox' = [inbox EXCEPT ![s] = inbox'[s]],
           late' = [late EXCEPT ![s] = late'[s]],
           told' = [told EXCEPT ![s] = told'[s]],
           stream'[s] \in {"idle", "ended", "timed out", "left"} \cup Open,
           seen'[s] \in Statuses, late'[s] \in BOOLEAN,
           told'[s] \in {"nothing"} \cup Replies,
           inbox'[s] \in Seq(Replies), Len(inbox'[s]) <= MaxInbox,
           stream'[s] \notin Open => inbox'[s] = <<>>,
           StreamInv(s)'
    PROVE  StatusInv'
  <1>1. ASSUME NEW r \in Streams, r # s
        PROVE  /\ stream'[r] = stream[r] /\ seen'[r] = seen[r] /\ inbox'[r] = inbox[r]
               /\ late'[r] = late[r] /\ told'[r] = told[r]
    BY <1>1 DEF StatusInv, StatusTypeOK
  <1>2. StatusTypeOK'
    BY <1>1 DEF StatusInv, StatusTypeOK
  <1>3. ASSUME NEW r \in Streams, r # s
        PROVE  StreamInv(r)'
    BY <1>1, <1>3 DEF StatusInv, StreamInv, Listening
  <1>4. \A t \in Tasks : EndsInv(t)'
    BY DEF StatusInv, EndsInv
  <1> QED
    BY <1>2, <1>3, <1>4 DEF StatusInv

(* What the invariant says of one stream. *)
LEMMA StreamTypes ==
    ASSUME StatusInv, NEW s \in Streams
    PROVE  /\ stream[s] \in {"idle", "ended", "timed out", "left"} \cup Open
           /\ seen[s] \in Statuses /\ late[s] \in BOOLEAN
           /\ told[s] \in {"nothing"} \cup Replies
           /\ inbox[s] \in Seq(Replies) /\ Len(inbox[s]) <= MaxInbox
           /\ stream[s] \notin Open => inbox[s] = <<>>
           /\ stream = [stream EXCEPT ![s] = stream[s]]
           /\ seen = [seen EXCEPT ![s] = seen[s]]
           /\ inbox = [inbox EXCEPT ![s] = inbox[s]]
           /\ late = [late EXCEPT ![s] = late[s]]
           /\ told = [told EXCEPT ![s] = told[s]]
           /\ s[1] \in Tasks /\ result[s[1]] \in Statuses
           /\ EndsInv(s[1]) /\ StreamInv(s)
  BY DEF StatusInv, StatusTypeOK, Streams

(* Nothing is in the empty sequence, a value of every inbox. *)
LEMMA EmptyInbox == ToSet(<<>>) = {} /\ <<>> \in Seq(Replies) /\ Len(<<>>) <= MaxInbox
  BY StatusAssumption DEF ToSet

LEMMA SubscribeKeepsStatusInv ==
    ASSUME StatusInv, NEW s \in Streams, Subscribe(s)
    PROVE  StatusInv'
  <1>1. stream'[s] = "subscribed" /\ inbox'[s] = inbox[s] /\ "subscribed" \in Open
    BY DEF Subscribe, StatusInv, StatusTypeOK, Open
  <1>2. StreamInv(s)'
    BY <1>1, StreamTypes DEF Subscribe, lifecycleVars, StreamInv, Listening
  <1> QED
    BY <1>1, <1>2, StreamTypes, OneStream DEF Subscribe, lifecycleVars

LEMMA FetchKeepsStatusInv ==
    ASSUME StatusInv, NEW s \in Streams, Fetch(s)
    PROVE  StatusInv'
  <1>1. /\ stream'[s] = "fetched" /\ seen'[s] = result[s[1]] /\ inbox'[s] = inbox[s]
        /\ "fetched" \in Open
    BY DEF Fetch, StatusInv, StatusTypeOK, Open
  <1>2. StreamInv(s)'
    BY <1>1, StreamTypes DEF Fetch, lifecycleVars, StreamInv, EndsInv, Listening
  <1> QED
    BY <1>1, <1>2, StreamTypes, OneStream DEF Fetch, lifecycleVars

LEMMA TellFirstKeepsStatusInv ==
    ASSUME StatusInv, NEW s \in Streams, TellFirst(s)
    PROVE  StatusInv'
  <1>1. /\ told'[s] = InitialStatus(seen[s]) /\ seen'[s] = seen[s] /\ late'[s] = late[s]
        /\ stream[s] = "fetched"
    BY DEF TellFirst, StatusInv, StatusTypeOK
  <1>2. /\ told'[s] \in Replies
        /\ told'[s] \in Terminal => told'[s] \in ended[s[1]]
    <2>1. seen[s] \in Statuses /\ StreamInv(s)
      BY StreamTypes
    <2>2. /\ InitialStatus(seen[s]) \in Replies
          /\ InitialStatus(seen[s]) \in Terminal =>
                seen[s] \in Final /\ InitialStatus(seen[s]) = Polled(seen[s])
      BY <2>1, PolledType
    <2> QED
      BY <1>1, <2>1, <2>2 DEF StreamInv
  <1>3. CASE seen[s] \in Final
    <2>1. /\ stream'[s] = "ended" /\ inbox'[s] = <<>>
          /\ stream' = [stream EXCEPT ![s] = "ended"] /\ inbox' = [inbox EXCEPT ![s] = <<>>]
      BY <1>3 DEF TellFirst, Closed, StatusInv, StatusTypeOK
    <2>2. StreamInv(s)'
      BY <1>1, <1>2, <2>1, EmptyInbox DEF TellFirst, lifecycleVars, StreamInv, Listening
    <2> QED
      BY <1>1, <1>2, <2>1, <2>2, StreamTypes, OneStream, EmptyInbox DEF TellFirst, lifecycleVars
  <1>4. CASE seen[s] \notin Final
    <2>1. /\ stream'[s] = "looping" /\ inbox' = inbox /\ "looping" \in Open
          /\ stream' = [stream EXCEPT ![s] = "looping"]
      BY <1>4 DEF TellFirst, StatusInv, StatusTypeOK, Open
    <2>2. StreamInv(s)'
      BY <1>1, <1>2, <1>4, <2>1, StreamTypes DEF TellFirst, lifecycleVars, StreamInv, Listening
    <2> QED
      BY <1>1, <1>2, <2>1, <2>2, StreamTypes, OneStream DEF TellFirst, lifecycleVars
  <1> QED
    BY <1>3, <1>4

LEMMA CheckTimeKeepsStatusInv ==
    ASSUME StatusInv, NEW s \in Streams, CheckTime(s)
    PROVE  StatusInv'
  <1>1. stream[s] = "looping" /\ seen'[s] = seen[s] /\ late'[s] = late[s]
    BY DEF CheckTime, StatusInv, StatusTypeOK
  <1>2. CASE TimeIsUp(s)
    <2>1. /\ stream'[s] = "timed out" /\ inbox'[s] = <<>>
          /\ stream' = [stream EXCEPT ![s] = "timed out"] /\ inbox' = [inbox EXCEPT ![s] = <<>>]
          /\ told'[s] = "failed" /\ told' = [told EXCEPT ![s] = "failed"] /\ "failed" \in Replies
      BY <1>2 DEF CheckTime, Closed, StatusInv, StatusTypeOK, Replies
    <2>2. StreamInv(s)'
      BY <1>1, <2>1, EmptyInbox DEF CheckTime, lifecycleVars, StreamInv, Listening
    <2> QED
      BY <1>1, <2>1, <2>2, StreamTypes, OneStream, EmptyInbox DEF CheckTime, lifecycleVars
  <1>3. CASE ~TimeIsUp(s)
    <2>1. /\ stream'[s] = "waiting" /\ inbox' = inbox /\ told' = told /\ "waiting" \in Open
          /\ stream' = [stream EXCEPT ![s] = "waiting"]
      BY <1>3 DEF CheckTime, StatusInv, StatusTypeOK, Open
    <2>2. StreamInv(s)'
      BY <1>1, <2>1, StreamTypes DEF CheckTime, lifecycleVars, StreamInv, Listening
    <2> QED
      BY <1>1, <2>1, <2>2, StreamTypes, OneStream DEF CheckTime, lifecycleVars
  <1> QED
    BY <1>2, <1>3

LEMMA KeepAliveKeepsStatusInv ==
    ASSUME StatusInv, NEW s \in Streams, KeepAlive(s)
    PROVE  StatusInv'
  <1>1. stream[s] = "waiting" /\ stream'[s] = "looping" /\ "looping" \in Open
    BY DEF KeepAlive, StatusInv, StatusTypeOK, Open
  <1>2. StreamInv(s)'
    BY <1>1, StreamTypes DEF KeepAlive, lifecycleVars, StreamInv, Listening
  <1> QED
    BY <1>1, <1>2, StreamTypes, OneStream DEF KeepAlive, lifecycleVars

LEMMA ReceiveKeepsStatusInv ==
    ASSUME StatusInv, NEW s \in Streams, Receive(s)
    PROVE  StatusInv'
  <1> DEFINE e == Head(inbox[s])
  <1>1. /\ stream[s] = "waiting" /\ inbox[s] # <<>> /\ told'[s] = e
        /\ told' = [told EXCEPT ![s] = e] /\ seen'[s] = seen[s] /\ late'[s] = late[s]
    BY DEF Receive, StatusInv, StatusTypeOK
  <1>2. /\ e \in Replies /\ Tail(inbox[s]) \in Seq(Replies)
        /\ ToSet(inbox[s]) = {e} \cup ToSet(Tail(inbox[s]))
        /\ Len(Tail(inbox[s])) \in Nat /\ Len(Tail(inbox[s])) + 1 = Len(inbox[s])
    BY <1>1, StreamTypes, ToSetOfTail
  <1>3. Len(Tail(inbox[s])) <= MaxInbox
    <2>1. Len(inbox[s]) <= MaxInbox
      BY StreamTypes
    <2> QED
      BY <1>2, <2>1, StatusAssumption
  <1>4. e \in Terminal => e \in ended[s[1]]
    BY <1>2, StreamTypes DEF StreamInv
  <1> HIDE DEF e
  <1>5. CASE e \in Terminal
    <2>1. /\ stream'[s] = "ended" /\ inbox'[s] = <<>>
          /\ stream' = [stream EXCEPT ![s] = "ended"] /\ inbox' = [inbox EXCEPT ![s] = <<>>]
      BY <1>5 DEF Receive, Closed, StatusInv, StatusTypeOK, e
    <2>2. StreamInv(s)'
      BY <1>1, <1>4, <2>1, EmptyInbox DEF Receive, lifecycleVars, StreamInv, Listening
    <2> QED
      BY <1>1, <1>2, <2>1, <2>2, StreamTypes, OneStream, EmptyInbox DEF Receive, lifecycleVars
  <1>6. CASE e \notin Terminal
    <2>1. /\ stream'[s] = "looping" /\ inbox'[s] = Tail(inbox[s]) /\ "looping" \in Open
          /\ stream' = [stream EXCEPT ![s] = "looping"]
          /\ inbox' = [inbox EXCEPT ![s] = Tail(inbox[s])]
      BY <1>6 DEF Receive, StatusInv, StatusTypeOK, Open, e
    <2>2. ToSet(inbox'[s]) \cap Terminal = ToSet(inbox[s]) \cap Terminal
      BY <1>2, <1>6, <2>1
    <2>3. StreamInv(s)'
      <3>1. StreamInv(s) /\ Listening(s)
        BY <1>1, StreamTypes DEF Listening
      <3> QED
        BY <1>1, <1>6, <2>1, <2>2, <3>1 DEF Receive, lifecycleVars, StreamInv
    <2> QED
      BY <1>1, <1>2, <1>3, <2>1, <2>3, StreamTypes, OneStream DEF Receive, lifecycleVars
  <1> QED
    BY <1>5, <1>6

LEMMA DisconnectKeepsStatusInv ==
    ASSUME StatusInv, NEW s \in Streams, Disconnect(s)
    PROVE  StatusInv'
  <1>1. /\ stream'[s] = "left" /\ inbox'[s] = <<>> /\ stream[s] \in Open
        /\ stream' = [stream EXCEPT ![s] = "left"] /\ inbox' = [inbox EXCEPT ![s] = <<>>]
    BY DEF Disconnect, Closed, StatusInv, StatusTypeOK
  <1>2. StreamInv(s)'
    BY <1>1, StreamTypes, EmptyInbox DEF Disconnect, lifecycleVars, StreamInv, Listening, Open
  <1> QED
    BY <1>1, <1>2, StreamTypes, OneStream, EmptyInbox DEF Disconnect, lifecycleVars

LEMMA GrowOldKeepsStatusInv ==
    ASSUME StatusInv, NEW s \in Streams, GrowOld(s)
    PROVE  StatusInv'
  <1>1. late'[s] = TRUE
    BY DEF GrowOld, StatusInv, StatusTypeOK
  <1>2. StreamInv(s)'
    BY StreamTypes DEF GrowOld, lifecycleVars, StreamInv, Listening
  <1> QED
    BY <1>1, <1>2, StreamTypes, OneStream DEF GrowOld, lifecycleVars

LEMMA PollKeepsStatusInv ==
    ASSUME StatusInv, NEW s \in Streams, Poll(s)
    PROVE  StatusInv'
  <1>1. told'[s] = Polled(result[s[1]]) /\ stream[s] \notin Open
    BY DEF Poll, StatusInv, StatusTypeOK
  <1>2. result[s[1]] \in Statuses /\ EndsInv(s[1])
    BY StreamTypes
  <1>3. /\ Polled(result[s[1]]) \in Replies
        /\ Polled(result[s[1]]) \in Terminal => result[s[1]] \in Final
    BY <1>2 DEF Polled, Statuses, Replies, Terminal, Final
  <1>4. StreamInv(s)'
    BY <1>1, <1>2, <1>3, StreamTypes DEF Poll, lifecycleVars, StreamInv, EndsInv, Listening, Open
  <1> QED
    BY <1>1, <1>3, <1>4, StreamTypes, OneStream DEF Poll, lifecycleVars

(* A message goes to those who are subscribed. *)
LEMMA PublishKeepsStatusInv ==
    ASSUME StatusInv, NEW t \in Tasks, Publish(t)
    PROVE  StatusInv'
  <1> DEFINE e == Head(unpublished[t])
  <1>1. /\ result' = result /\ active' = active /\ ended' = ended
        /\ UNCHANGED <<stream, seen, late, told>>
        /\ unpublished' = [unpublished EXCEPT ![t] = Tail(unpublished[t])]
        /\ unpublished[t] # <<>>
        /\ inbox' = [s \in Streams |->
               IF s \in Subscribed(t) THEN Append(inbox[s], e) ELSE inbox[s]]
        /\ \A s \in Subscribed(t) : Len(inbox[s]) < MaxInbox
    BY DEF Publish, lifecycleVars
  <1>2. /\ unpublished[t] \in Seq(Replies) /\ Len(unpublished[t]) <= MaxPending
        /\ ToSet(unpublished[t]) \cap Terminal \subseteq ended[t]
    BY DEF StatusInv, StatusTypeOK, EndsInv
  <1>3. /\ e \in Replies /\ Tail(unpublished[t]) \in Seq(Replies)
        /\ ToSet(unpublished[t]) = {e} \cup ToSet(Tail(unpublished[t]))
        /\ Len(Tail(unpublished[t])) \in Nat
        /\ Len(Tail(unpublished[t])) + 1 = Len(unpublished[t])
    BY <1>1, <1>2, ToSetOfTail
  <1> HIDE DEF e
  <1>4. ASSUME NEW r \in Tasks
        PROVE  /\ unpublished'[r] \in Seq(Replies) /\ Len(unpublished'[r]) <= MaxPending
               /\ unpublished'[r] = IF r = t THEN Tail(unpublished[t]) ELSE unpublished[r]
               /\ EndsInv(r)'
    <2>1. /\ unpublished[r] \in Seq(Replies) /\ Len(unpublished[r]) <= MaxPending
          /\ EndsInv(r)
      BY DEF StatusInv, StatusTypeOK
    <2>2. unpublished'[r] = IF r = t THEN Tail(unpublished[t]) ELSE unpublished[r]
      BY <1>1 DEF StatusInv, StatusTypeOK
    <2>3. CASE r = t
      <3>1. Len(unpublished'[r]) <= MaxPending
        BY <1>2, <1>3, <2>2, <2>3, StatusAssumption
      <3> QED
        BY <1>1, <1>2, <1>3, <2>1, <2>2, <2>3, <3>1 DEF EndsInv
    <2>4. CASE r # t
      BY <1>1, <2>1, <2>2, <2>4 DEF EndsInv
    <2> QED
      BY <2>3, <2>4
  <1>5. ASSUME NEW s \in Streams
        PROVE  /\ inbox'[s] \in Seq(Replies) /\ Len(inbox'[s]) <= MaxInbox
               /\ stream[s] \notin Open => inbox'[s] = <<>>
               /\ s \in Subscribed(t) => ToSet(inbox'[s]) = ToSet(inbox[s]) \cup {e}
               /\ s \notin Subscribed(t) => inbox'[s] = inbox[s]
    <2>1. /\ inbox[s] \in Seq(Replies) /\ Len(inbox[s]) <= MaxInbox
          /\ stream[s] \notin Open => inbox[s] = <<>>
      BY DEF StatusInv, StatusTypeOK
    <2>2. CASE s \in Subscribed(t)
      <3>1. /\ inbox'[s] = Append(inbox[s], e) /\ Len(inbox[s]) < MaxInbox
            /\ stream[s] \in Open
        BY <1>1, <2>2 DEF Subscribed
      <3>2. /\ Append(inbox[s], e) \in Seq(Replies)
            /\ ToSet(Append(inbox[s], e)) = ToSet(inbox[s]) \cup {e}
        BY <1>3, <2>1, ToSetOfAppend
      <3>3. Len(Append(inbox[s], e)) <= MaxInbox
        BY <1>3, <2>1, <3>1, StatusAssumption
      <3> QED
        BY <2>2, <3>1, <3>2, <3>3
    <2>3. CASE s \notin Subscribed(t)
      BY <1>1, <2>1, <2>3
    <2> QED
      BY <2>2, <2>3
  <1>6. StatusTypeOK'
    <2>1. unpublished' \in [Tasks -> Seq(Replies)] /\ inbox' \in [Streams -> Seq(Replies)]
      BY <1>1, <1>4, <1>5 DEF StatusInv, StatusTypeOK
    <2> QED
      BY <1>1, <1>4, <1>5, <2>1 DEF StatusInv, StatusTypeOK
  <1>7. ASSUME NEW s \in Streams
        PROVE  StreamInv(s)'
    <2>1. /\ StreamInv(s) /\ s[1] \in Tasks
          /\ unpublished'[s[1]] = IF s[1] = t THEN Tail(unpublished[t]) ELSE unpublished[s[1]]
      BY <1>4, StreamTypes
    <2>2. CASE s \in Subscribed(t)
      <3>1. s[1] = t
        BY <2>2 DEF Subscribed
      <3>2. ToSet(inbox'[s]) = ToSet(inbox[s]) \cup {e}
        BY <1>5, <2>2
      <3>3. ToSet(inbox'[s]) \cap Terminal \subseteq ended[s[1]]
        BY <1>2, <1>3, <2>1, <3>1, <3>2 DEF StreamInv
      <3>4. ToSet(unpublished'[s[1]]) \cup ToSet(inbox'[s])
            = ToSet(unpublished[s[1]]) \cup ToSet(inbox[s])
        BY <1>3, <2>1, <3>1, <3>2
      <3> QED
        BY <1>1, <2>1, <3>3, <3>4 DEF StreamInv, Listening
    <2>3. CASE s \notin Subscribed(t)
      <3>1. inbox'[s] = inbox[s]
        BY <1>5, <2>3
      <3>2. s[1] # t \/ ~Listening(s)
        BY <2>3 DEF Streams, Subscribed, Listening, Open
      <3> QED
        BY <1>1, <2>1, <3>1, <3>2 DEF StreamInv, Listening
    <2> QED
      BY <2>2, <2>3
  <1> QED
    BY <1>4, <1>6, <1>7 DEF StatusInv

-----------------------------------------------------------------------------

LEMMA StatusInvStep == StatusInv /\ [StatusNext]_statusVars => StatusInv'
  <1> SUFFICES ASSUME StatusInv, [StatusNext]_statusVars
               PROVE  StatusInv'
    OBVIOUS
  <1>1. CASE Work
    BY <1>1, WorkKeepsStatusInv
  <1>2. CASE \E t \in Tasks : Expire(t) \/ Publish(t)
    BY <1>2, ExpireKeepsStatusInv, PublishKeepsStatusInv
  <1>3. CASE \E s \in Streams : StreamStep(s)
    BY <1>3, FetchKeepsStatusInv, TellFirstKeepsStatusInv, CheckTimeKeepsStatusInv,
       ReceiveKeepsStatusInv, KeepAliveKeepsStatusInv DEF StreamStep
  <1>4. CASE \E s \in Streams : Subscribe(s) \/ Disconnect(s) \/ GrowOld(s) \/ Poll(s)
    BY <1>4, SubscribeKeepsStatusInv, DisconnectKeepsStatusInv, GrowOldKeepsStatusInv,
       PollKeepsStatusInv
  <1>5. CASE UNCHANGED statusVars
    <2>1. UNCHANGED <<result, active, ended, unpublished, stream, seen, inbox, late, told>>
      BY <1>5 DEF statusVars, lifecycleVars, streamVars
    <2>2. StatusTypeOK'
      BY <2>1 DEF StatusInv, StatusTypeOK
    <2>3. /\ \A t \in Tasks : EndsInv(t)'
          /\ \A s \in Streams : StreamInv(s)'
      BY <2>1 DEF StatusInv, EndsInv, StreamInv, Listening
    <2> QED
      BY <2>2, <2>3 DEF StatusInv
  <1> QED
    BY <1>1, <1>2, <1>3, <1>4, <1>5 DEF StatusNext

LEMMA StatusInvHolds == StatusSpec => []StatusInv
  BY StatusInvInit, StatusInvStep, PTL DEF StatusSpec

(* The types of TaskStatus; a stream that has ended has no subscription left. *)
THEOREM StatusTypeCorrect == StatusSpec => []StatusTypeOK
  <1>1. StatusInv => StatusTypeOK
    BY DEF StatusInv
  <1> QED
    BY <1>1, StatusInvHolds, PTL

(* A stream that has looked at the result does not wait for an end that has    *)
(* gone by: the subscription, made before the look, has it.                    *)
THEOREM NoEndMissedHolds == StatusSpec => []NoEndMissed
  <1>1. StatusInv => NoEndMissed
    BY DEF StatusInv, StreamInv, Listening, NoEndMissed
  <1> QED
    BY <1>1, StatusInvHolds, PTL

(* No client is told of an end that has not happened, but by a stream that has *)
(* timed out.                                                                  *)
THEOREM ToldTruthHolds == StatusSpec => []ToldTruth
  <1>1. StatusInv => ToldTruth
    BY DEF StatusInv, StreamInv, ToldTruth
  <1> QED
    BY <1>1, StatusInvHolds, PTL
=============================================================================
