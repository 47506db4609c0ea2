------------------------------ MODULE Webhook ------------------------------
(***************************************************************************)
(* The webhook handlers of one channel: from the delivery of an event by   *)
(* Meta to the reply, over the channel's MessageCache and the shared       *)
(* send_message_with_retry.                                                *)
(*                                                                         *)
(* receive_webhook answers Meta first and handles the events afterwards, in*)
(* background coroutines.  A job is the handling of one delivered event; a *)
(* coroutine runs alone between two awaits.  Meta may deliver an event     *)
(* several times and in any order.  A restart loses cache and coroutines.  *)
(***************************************************************************)
EXTENDS MessageCache, HttpSend

CONSTANTS
    Channels,     \* the channels to consider
    Kinds,        \* kinds of message customers send: "text", "media"
    Msgs,         \* the customers' messages
    Jobs,         \* bound: numbers of the deliveries of a behaviour
    MaxRestarts   \* bound: restarts of the API process

NoId == <<"none", 0>>
In(m) == <<"in", m>>     \* the id of a customer's message

\* The id of the k-th copy that Meta has accepted of the reply of job i.
Out(i, k) == <<"out", i, k>>

ASSUME WebhookAssumption ==
    /\ Channels \subseteq {"instagram", "messenger", "whatsapp"}
    /\ Jobs = Sends
    /\ MaxRestarts \in Nat
    /\ Ids = {In(m) : m \in Msgs} \cup {Out(i, k) : i \in Jobs, k \in 1..Retries}

VARIABLES
    channel,   \* the channel whose handlers run; it never changes
    job,       \* where each job is
    event,     \* the event it handles
    context,   \* the quoted text: none wanted, found or missing
    arrived,   \* number of deliveries so far
    restarts

jobVars == <<channel, job, event, context, arrived, restarts>>
webhookVars == <<cache, sendVars, jobVars>>

Events == [id : Ids, kind : Kinds \cup {"echo"}, quotes : Ids \cup {NoId}]
NoEvent == [id |-> NoId, kind |-> "echo", quotes |-> NoId]

WebhookInit ==
    /\ CacheInit
    /\ SendInit
    /\ channel \in Channels
    /\ job = [i \in Jobs |-> "free"]
    /\ event = [i \in Jobs |-> NoEvent]
    /\ context = [i \in Jobs |-> "none"]
    /\ arrived = 0
    /\ restarts = 0

-----------------------------------------------------------------------------
(* What Meta delivers. *)

\* The copies of replies that customers have received, and may quote.
Seen == UNION {{Out(j, k) : k \in 1..copies[j]} : j \in Jobs}

Quotable(m) == ({In(n) : n \in Msgs \ {m}} \cup Seen \cup {NoId})

CustomerEvents ==
    UNION {[id : {In(m)}, kind : Kinds, quotes : Quotable(m)] : m \in Msgs}

\* Instagram and Messenger report the page's own messages as well.
EchoEvents ==
    IF channel = "whatsapp" THEN {} ELSE [id : Seen, kind : {"echo"}, quotes : {NoId}]

\* A redelivery repeats the event.
Deliver(e) ==
    LET i == arrived + 1 IN
    /\ i \in Jobs
    /\ \A j \in Jobs : event[j].id = e.id => event[j] = e
    /\ arrived' = i
    /\ job' = [job EXCEPT ![i] = "ready"]
    /\ event' = [event EXCEPT ![i] = e]
    /\ UNCHANGED <<cache, sendVars, context, restarts, channel>>

-----------------------------------------------------------------------------
(* _handle_single_event, up to its first await. *)

Echo(i) ==
    /\ job[i] = "ready"
    /\ event[i].kind = "echo"
    /\ job' = [job EXCEPT ![i] = "ignored"]
    /\ cache' = IF Contains(cache, event[i].id) THEN cache ELSE Insert(cache, event[i].id)
    /\ UNCHANGED <<sendVars, event, context, arrived, restarts, channel>>

Duplicate(i) ==
    /\ job[i] = "ready"
    /\ event[i].kind # "echo"
    /\ Contains(cache, event[i].id)
    /\ job' = [job EXCEPT ![i] = "ignored"]
    /\ UNCHANGED <<cache, sendVars, event, context, arrived, restarts, channel>>

\* Instagram answers media too, with a placeholder for the text.
WantsReply(i) == event[i].kind = "text" \/ channel = "instagram"

\* send_auto_reply.  Instagram's calls srg.answer, which does not exist: the
\* AttributeError ends the job (gather keeps it from the other jobs).
Reply(i) ==
    IF ~WantsReply(i)
    THEN job' = [job EXCEPT ![i] = "silent"] /\ UNCHANGED sendVars
    ELSE IF channel = "instagram"
    THEN job' = [job EXCEPT ![i] = "raised"] /\ UNCHANGED sendVars
    ELSE job' = [job EXCEPT ![i] = "sending"] /\ Call(i)

\* Mutant of Marked: the id is looked up but not stored before the reply.
Unmarked(i) == cache

\* The cache once the message is recorded as met, by set_if_absent.
Marked(i) == Insert(cache, event[i].id)

New(i) ==
    /\ job[i] = "ready"
    /\ event[i].kind # "echo"
    /\ ~Contains(cache, event[i].id)

\* A new message that quotes nothing, or a message that is in the cache (or was
\* quoted on WhatsApp, where nobody asks Meta for it).
Answer(i) ==
    LET q == event[i].quotes
        found == Contains(Marked(i), q) IN
    /\ New(i)
    /\ q = NoId \/ found \/ channel = "whatsapp"
    /\ cache' = AfterGet(Marked(i), q)
    /\ context' = [context EXCEPT ![i] = IF q = NoId THEN "none"
                                         ELSE IF found THEN "found" ELSE "missing"]
    /\ Reply(i)
    /\ UNCHANGED <<event, arrived, restarts, channel>>

\* A new message that quotes one that is not in the cache: ask Meta for it.
Fetch(i) ==
    /\ New(i)
    /\ event[i].quotes # NoId
    /\ ~Contains(Marked(i), event[i].quotes)
    /\ channel # "whatsapp"
    /\ cache' = Marked(i)
    /\ job' = [job EXCEPT ![i] = "fetching"]
    /\ UNCHANGED <<sendVars, event, context, arrived, restarts, channel>>

\* Mutant of Fetched: a fetch that fails ends the job.
FetchedOrLost(i) ==
    /\ job[i] = "fetching"
    /\ \/ context' = [context EXCEPT ![i] = "found"] /\ Reply(i)
       \/ /\ context' = [context EXCEPT ![i] = "missing"]
          /\ job' = [job EXCEPT ![i] = "raised"]
          /\ UNCHANGED sendVars
    /\ UNCHANGED <<cache, event, arrived, restarts, channel>>

\* get_message_by_mid returns; it never raises.
Fetched(i) ==
    /\ job[i] = "fetching"
    /\ \E outcome \in {"found", "missing"} : context' = [context EXCEPT ![i] = outcome]
    /\ Reply(i)
    /\ UNCHANGED <<cache, event, arrived, restarts, channel>>

-----------------------------------------------------------------------------
(* The reply, and the end of the process. *)

\* The id in the response, which is that of the last copy: the ids of copies whose
\* response was lost are never known.
SentId(i) == Out(i, copies[i])

\* On WhatsApp the id in the response is stored when the call returns.
Send(i) ==
    /\ SendStep(i)
    /\ cache' = IF send'[i] = "sent" /\ channel = "whatsapp" /\ ~Contains(cache, SentId(i))
                THEN Insert(cache, SentId(i)) ELSE cache
    /\ UNCHANGED jobVars

Unfinished(i) == job[i] \in {"ready", "fetching"}

Restart ==
    /\ restarts < MaxRestarts
    /\ restarts' = restarts + 1
    /\ cache' = <<>>
    /\ queue' = <<>>
    /\ send' = [i \in Jobs |-> IF send[i] \in Pending THEN "cancelled" ELSE send[i]]
    /\ job' = [i \in Jobs |-> IF Unfinished(i) THEN "lost" ELSE job[i]]
    /\ UNCHANGED <<attempt, copies, event, context, arrived, channel>>

Handle(i) ==
    \/ Echo(i) \/ Duplicate(i) \/ Answer(i) \/ Fetch(i) \/ Fetched(i)
    \/ Send(i)

WebhookNext ==
    \/ \E e \in CustomerEvents \cup EchoEvents : Deliver(e)
    \/ \E i \in Jobs : Handle(i)
    \/ Restart

WebhookSpec == WebhookInit /\ [][WebhookNext]_webhookVars

\* The event loop runs every coroutine that can run; requests end or time out.
WebhookFairSpec == WebhookSpec /\ \A i \in Jobs : WF_webhookVars(Handle(i))

-----------------------------------------------------------------------------
(* Properties. *)

(* Types of the handlers' variables. *)
WebhookTypeOK ==
    /\ SendTypeOK
    /\ cache \in Seq(Ids) /\ Len(cache) <= MaxSize
    /\ job \in [Jobs -> {"free", "ready", "ignored", "silent", "raised",
                         "fetching", "sending", "lost"}]
    /\ event \in [Jobs -> Events \cup {NoEvent}]
    /\ context \in [Jobs -> {"none", "found", "missing"}]
    /\ arrived \in {0} \cup Jobs
    /\ restarts \in 0..MaxRestarts
    /\ channel \in Channels

\* Jobs that took message m as a new one.
Takers(m) == {i \in Jobs : /\ event[i].id = In(m)
                           /\ job[i] \in {"silent", "raised", "fetching", "sending"}}

(* However often Meta delivers a message, alone, in one batch or while an      *)
(* earlier delivery is being handled, each life of the process takes it as new *)
(* at most once, as long as the cache has room for all ids ("Only the first    *)
(* must invoke RAG", tests/edge_cases/test_webhook_advanced_chaos.py).         *)
TakenOnce == \A m \in Msgs : Cardinality(Takers(m)) <= 1 + restarts

\* Ids this process has stored: of events it has handled, and on WhatsApp those in
\* the responses to its replies.
Handled == {event[j].id : j \in {i \in Jobs : job[i] \notin {"free", "ready", "lost"}}}
Known == Handled \cup IF channel = "whatsapp"
                     THEN {SentId(j) : j \in {i \in Jobs : send[i] = "sent"}}
                     ELSE {}

(* A customer who quotes a message gets an answer that knows its text, if this *)
(* process has handled that message, received the echo of that copy of a reply,*)
(* or (on WhatsApp) met its id in the response of the call that sent it (not in*)
(* one that was lost, before the POST was repeated); without a restart, and    *)
(* with room in the cache.                                                     *)
QuotesAreFound ==
    [][\A i \in Jobs :
          /\ restarts = 0
          /\ job[i] = "ready" /\ job'[i] \in {"silent", "raised", "fetching", "sending"}
          /\ event[i].quotes \in Known
          => context'[i] = "found"]_webhookVars

\* A restart took the handling of job i away.
LostJob(i) == job[i] = "lost" \/ send[i] = "cancelled"

(* A text that was delivered is answered: some delivery of it gets as far as a *)
(* POST, although a redelivery is dropped as a duplicate while the first is    *)
(* still waiting for Meta or for a permit.  Only a restart can prevent it (and *)
(* on Instagram the reply always raises, see Reply).                           *)
TextsAreAnswered ==
    \A m \in Msgs :
        (/\ channel # "instagram"
         /\ \E i \in Jobs : event[i].id = In(m) /\ event[i].kind = "text")
            ~> (\E i \in Jobs : event[i].id = In(m) /\ (attempt[i] > 0 \/ LostJob(i)))
=============================================================================
