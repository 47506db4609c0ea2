------------------------------ MODULE MCWebhook ------------------------------
(***************************************************************************)
(* Model checking of Webhook on small instances: messages and jobs are     *)
(* numbers, and the ids are exactly those of the messages and the replies. *)
(***************************************************************************)
EXTENDS Webhook

MCMsgs == {1, 2}
MCJobs == 1..3
AllIds == {<<"in", m>> : m \in MCMsgs} \cup {<<"out", i, k>> : i \in MCJobs, k \in 1..Retries}
=============================================================================
