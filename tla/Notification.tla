---------------------------- MODULE Notification ----------------------------
(***************************************************************************)
(* What happens to one Kafka message in the notification service:          *)
(* eachMessage of NotificationKafkaWorker and NotificationDispatcher with  *)
(* its retries, delivery rows and dead letters.                            *)
(*                                                                         *)
(* The jobs of the message are dispatched one after the other.  A dispatch *)
(* that throws ends the message; the error is caught and the message       *)
(* counts as consumed.  A replica that dies leaves the message to another  *)
(* one, which starts from its first job.  Every channel the jobs use has a *)
(* provider, so dispatch never finds one missing.                          *)
(***************************************************************************)
EXTENDS Naturals, Sequences

CONSTANTS Jobs,
          JobLists,     \* the jobs that a message may have, in their order
          Forced,       \* jobs with force
          OptedOut,     \* jobs on a channel that their user has disabled
          MaxAttempts,  \* MAX_ATTEMPTS
          MaxDeaths     \* bound: how often a replica dies at the message

(* The jobs of each topic.  They all have one priority, so that sorting    *)
(* them by it, which is stable, keeps this order.                          *)
On(channel, type) == [channel |-> channel, type |-> type]

TopicJobs ==
    [ UserOtpRequested   |-> <<On("email", "otp")>>,
      UserRegistered     |-> <<On("email", "welcome"), On("in_app", "welcome")>>,
      OrderCreated       |-> <<On("in_app", "order_created")>>,
      OrderPaid          |-> <<On("email", "order_paid"), On("push", "order_paid"),
                               On("in_app", "order_paid")>>,
      OrderFailed        |-> <<On("email", "order_failed"), On("in_app", "order_failed")>>,
      OrderStatusChanged |-> <<On("push", "order_status")>> ]

(* Nothing in the code writes notification_preferences, so OptedOut never  *)
(* changes.  A message has a job at most once.                             *)
ASSUME NotificationAssumption ==
    /\ JobLists \subseteq Seq(Jobs)
    /\ \A l \in JobLists : \A i, k \in 1..Len(l) : l[i] = l[k] => i = k
    /\ Forced \subseteq Jobs
    /\ OptedOut \subseteq Jobs
    /\ MaxAttempts \in Nat \ {0}
    /\ MaxDeaths \in Nat

VARIABLES jobs,      \* the jobs of the message
          pc,        \* the await its delivery is at
          next,      \* the index of the job it is at
          attempt,   \* attempt of that job
          rows,      \* the notification_delivery rows
          stored,    \* the jobs in notifications
          letters,   \* the jobs in a DLQ topic
          accepted,  \* history: how often the provider took each job
          unsure,    \* history: jobs taken by the provider, and not known to be
          threw,     \* history: a dispatch threw
          deaths     \* how often a replica died

deliveryVars == <<pc, next, attempt>>
recordVars == <<rows, stored, letters>>
historyVars == <<accepted, unsure, threw, deaths>>
vars == <<jobs, deliveryVars, recordVars, historyVars>>

Attempts == 1..MaxAttempts
Row == [job : Jobs, status : {"sent", "failed", "dlq"}, attempts : Attempts]

Working == {"check", "store", "send", "saveSent", "saveFailed", "dlq"}

Job == jobs[next]

(* What the variables hold: attempts stay within MAX_ATTEMPTS and the      *)
(* delivery rows are of the enum.                                          *)
TypeOK ==
    /\ jobs \in JobLists
    /\ pc \in {"idle", "over"} \cup Working
    /\ next \in Nat \ {0}
    /\ attempt \in Attempts
    /\ rows \subseteq Row
    /\ stored \subseteq Jobs
    /\ letters \subseteq Jobs
    /\ accepted \in [Jobs -> Nat]
    /\ unsure \subseteq Jobs
    /\ threw \in BOOLEAN
    /\ deaths \in 0..MaxDeaths

Init ==
    /\ jobs \in JobLists
    /\ pc = "idle"
    /\ next = 1
    /\ attempt = 1
    /\ rows = {}
    /\ stored = {}
    /\ letters = {}
    /\ accepted = [j \in Jobs |-> 0]
    /\ unsure = {}
    /\ threw = FALSE
    /\ deaths = 0

Goto(label) == pc' = label

(* The loop in eachMessage: to the next job, or the message is done. *)
NextJob ==
    IF next < Len(jobs)
      THEN Goto("check") /\ next' = next + 1
      ELSE Goto("over") /\ UNCHANGED next

RowOf(status) == [job |-> Job, status |-> status, attempts |-> attempt]
AddRow(status) == rows' = rows \cup {RowOf(status)}

-----------------------------------------------------------------------------
(* eachMessage: a message without a user or of no known topic has no jobs. *)
Receive ==
    /\ pc = "idle"
    /\ Goto(IF jobs = <<>> THEN "over" ELSE "check")
    /\ UNCHANGED <<jobs, next, attempt, recordVars, historyVars>>

(* isChannelEnabled, unless the job is forced; a disabled channel ends the *)
(* job.                                                                    *)
CheckPreference ==
    /\ pc = "check"
    /\ IF Job \in OptedOut \ Forced
         THEN NextJob
         ELSE Goto("store") /\ UNCHANGED next
    /\ UNCHANGED <<jobs, attempt, recordVars, historyVars>>

(* The notification is saved, and the attempts start. *)
Store ==
    /\ pc = "store"
    /\ stored' = stored \cup {Job}
    /\ attempt' = 1
    /\ Goto("send")
    /\ UNCHANGED <<jobs, next, rows, letters, historyVars>>

Accept == accepted' = [accepted EXCEPT ![Job] = @ + 1]

(* provider.send resolves ... *)
Send ==
    /\ pc = "send"
    /\ Accept
    /\ Goto("saveSent")
    /\ UNCHANGED <<jobs, next, attempt, recordVars, unsure, threw, deaths>>

(* ... or rejects, because nothing was sent or because SMTP's answer to an *)
(* accepted mail was lost.                                                 *)
SendFails ==
    /\ pc = "send"
    /\ \/ UNCHANGED <<accepted, unsure>>
       \/ Accept /\ unsure' = unsure \cup {Job}
    /\ Goto("saveFailed")
    /\ UNCHANGED <<jobs, next, attempt, recordVars, threw, deaths>>

(* Mutant: the row "sent" does not end the attempts. *)
SaveSentGoesOn ==
    /\ pc = "saveSent"
    /\ AddRow("sent")
    /\ IF attempt < MaxAttempts
         THEN attempt' = attempt + 1 /\ Goto("send") /\ UNCHANGED next
         ELSE NextJob /\ UNCHANGED attempt
    /\ UNCHANGED <<jobs, stored, letters, historyVars>>

(* The row "sent" ends the job. *)
SaveSent ==
    /\ pc = "saveSent"
    /\ AddRow("sent")
    /\ NextJob
    /\ UNCHANGED <<jobs, attempt, stored, letters, historyVars>>

(* That save is inside the try: when it rejects, having saved the row or   *)
(* not, the attempt counts as failed although the job was sent.            *)
SaveSentFails ==
    /\ pc = "saveSent"
    /\ AddRow("sent") \/ UNCHANGED rows
    /\ unsure' = unsure \cup {Job}
    /\ Goto("saveFailed")
    /\ UNCHANGED <<jobs, next, attempt, stored, letters, accepted, threw, deaths>>

(* Mutant: the last attempt is left out.                                   *)
SaveFailedEarly ==
    LET last == attempt >= MaxAttempts - 1
    IN  /\ pc = "saveFailed"
        /\ AddRow(IF last THEN "dlq" ELSE "failed")
        /\ attempt' = IF last THEN attempt ELSE attempt + 1
        /\ Goto(IF last THEN "dlq" ELSE "send")
        /\ UNCHANGED <<jobs, next, stored, letters, historyVars>>

(* Mutant: the last attempt is counted on. *)
SaveFailedCountsOn ==
    LET last == attempt >= MaxAttempts
    IN  /\ pc = "saveFailed"
        /\ AddRow(IF last THEN "dlq" ELSE "failed")
        /\ attempt' = attempt + 1
        /\ Goto(IF last THEN "dlq" ELSE "send")
        /\ UNCHANGED <<jobs, next, stored, letters, historyVars>>

(* The catch: the row "failed" and another attempt, or "dlq" after the     *)
(* last one.                                                               *)
SaveFailed ==
    LET last == attempt >= MaxAttempts
    IN  /\ pc = "saveFailed"
        /\ AddRow(IF last THEN "dlq" ELSE "failed")
        /\ attempt' = IF last THEN attempt ELSE attempt + 1
        /\ Goto(IF last THEN "dlq" ELSE "send")
        /\ UNCHANGED <<jobs, next, stored, letters, historyVars>>

(* publishDlq, the end of a job that could not be sent. *)
PublishDlq ==
    /\ pc = "dlq"
    /\ letters' = letters \cup {Job}
    /\ NextJob
    /\ UNCHANGED <<jobs, attempt, rows, stored, historyVars>>

(* The write that the message is at may have been done when it ends there. *)
LastWrite ==
    \/ UNCHANGED recordVars
    \/ pc = "store" /\ stored' = stored \cup {Job} /\ UNCHANGED <<rows, letters>>
    \/ /\ pc \in {"saveSent", "saveFailed"}
       /\ AddRow(IF pc = "saveSent" THEN "sent"
                 ELSE IF attempt >= MaxAttempts THEN "dlq" ELSE "failed")
       /\ UNCHANGED <<stored, letters>>
    \/ pc = "dlq" /\ letters' = letters \cup {Job} /\ UNCHANGED <<rows, stored>>

(* Postgres or Kafka rejects where dispatch does not catch it: the jobs    *)
(* that are left are not looked at, and the message is consumed.           *)
Throws ==
    /\ pc \in {"check", "store", "saveFailed", "dlq"}
    /\ LastWrite
    /\ Goto("over")
    /\ threw' = TRUE
    /\ UNCHANGED <<jobs, next, attempt, accepted, unsure, deaths>>

(* The replica dies before its offset is committed, and another one gets   *)
(* the message.  It cannot know what was sent.                             *)
Dies ==
    /\ pc \in Working
    /\ deaths < MaxDeaths
    /\ deaths' = deaths + 1
    /\ LastWrite
    /\ \/ UNCHANGED accepted
       \/ pc = "send" /\ Accept
    /\ unsure' = unsure \cup {j \in Jobs : accepted'[j] > 0}
    /\ Goto("idle")
    /\ next' = 1
    /\ attempt' = 1
    /\ UNCHANGED <<jobs, threw>>

-----------------------------------------------------------------------------
Works ==
    \/ Receive \/ CheckPreference \/ Store \/ Send \/ SendFails \/ SaveSent
    \/ SaveSentFails \/ SaveFailed \/ PublishDlq

Next == Works \/ Throws \/ Dies

Spec == Init /\ [][Next]_vars

-----------------------------------------------------------------------------
(* Properties. *)

Has(j, status) == \E r \in rows : r.job = j /\ r.status = status

(* A message that was consumed without a throw had every job dealt with:   *)
(* it was sent and a row says so, it is in the DLQ topic and a row says    *)
(* so, or its user does not want it.  One job's failures never cost the    *)
(* jobs after it, nor does a replica's death.                              *)
NoJobIsLost ==
    pc = "over" /\ ~threw
    => \A i \in 1..Len(jobs) :
         \/ jobs[i] \in OptedOut \ Forced
         \/ accepted[jobs[i]] > 0 /\ Has(jobs[i], "sent")
         \/ jobs[i] \in letters /\ Has(jobs[i], "dlq")

(* A job goes to its provider again only when nobody could know of the     *)
(* first time, and MAX_ATTEMPTS times at most in the life of a replica.    *)
SentOnceIfKnown ==
    \A j \in Jobs :
        /\ accepted[j] <= MaxAttempts * (deaths + 1)
        /\ j \notin unsure => accepted[j] <= 1

(* A job becomes a dead letter after MAX_ATTEMPTS tries, each with its     *)
(* row, and when its provider has not taken it yet, but for a send whose   *)
(* outcome was lost.                                                       *)
LettersWereTried ==
    [][ \A j \in letters' \ letters :
          /\ [job |-> j, status |-> "dlq", attempts |-> MaxAttempts] \in rows
          /\ \A n \in 1 .. MaxAttempts - 1 :
               [job |-> j, status |-> "failed", attempts |-> n] \in rows
          /\ j \notin unsure => accepted[j] = 0 ]_vars

-----------------------------------------------------------------------------
(* The inductive invariant: the jobs before the one it is at are settled,  *)
(* and what the delivery is about to do follows from what it has recorded. *)
Settled(j) ==
    \/ j \in OptedOut \ Forced
    \/ accepted[j] > 0 /\ Has(j, "sent")
    \/ j \in letters /\ Has(j, "dlq")

JobsBefore == \A i \in 1 .. next - 1 : Settled(jobs[i])

(* Taken together: attempts stay within MAX_ATTEMPTS, and the jobs before  *)
(* the one the dispatcher is at were sent, dead-lettered or unwanted.      *)
NotificationInv ==
    /\ TypeOK
    /\ pc = "idle" => next = 1
    /\ pc \in Working => next <= Len(jobs) /\ JobsBefore
    /\ pc = "saveSent" => accepted[Job] > 0
    /\ pc = "dlq" => Has(Job, "dlq")
    /\ NoJobIsLost
=============================================================================
