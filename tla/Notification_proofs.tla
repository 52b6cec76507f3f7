------------------------- MODULE Notification_proofs -------------------------
(* Proofs about Notification for any jobs, preferences, number of attempts *)
(* and number of deaths.                                                   *)
EXTENDS Notification, TLAPS

-----------------------------------------------------------------------------
(* The initial state has the types.                                        *)
LEMMA TypeInit == Init => TypeOK
<1>1. 1 \in Attempts /\ 0 \in 0..MaxDeaths
  BY NotificationAssumption DEF Attempts
<1>2. Init => accepted \in [Jobs -> Nat]
  BY DEF Init
<1>3. Init => rows \subseteq Row /\ stored \subseteq Jobs /\ letters \subseteq Jobs
              /\ unsure \subseteq Jobs
  BY DEF Init
<1>4. Init => threw \in BOOLEAN /\ pc \in {"idle", "over"} \cup Working
  BY DEF Init
<1> QED
  BY <1>1, <1>2, <1>3, <1>4 DEF Init, TypeOK

(* The job a delivery is at is one of the message's.                       *)
LEMMA JobIsJob ==
  ASSUME TypeOK, next <= Len(jobs)
  PROVE  Job \in Jobs
BY NotificationAssumption DEF TypeOK, Job

(* A delivery row as dispatch saves it is one.                             *)
LEMMA RowIsRow ==
  ASSUME TypeOK, next <= Len(jobs), NEW s \in {"sent", "failed", "dlq"}
  PROVE  RowOf(s) \in Row
BY JobIsJob DEF TypeOK, RowOf, Row

AtJob ==
    /\ pc = "idle" => next = 1
    /\ pc \in Working => next <= Len(jobs)

(* Every step keeps the types, and the dispatcher within its list.         *)
LEMMA TypeNext == TypeOK /\ AtJob /\ [Next]_vars => TypeOK' /\ AtJob'
<1> SUFFICES ASSUME TypeOK, AtJob, [Next]_vars
             PROVE  TypeOK' /\ AtJob'
  OBVIOUS
<1> USE NotificationAssumption
    DEF TypeOK, AtJob, Working, Goto, Attempts, recordVars, historyVars
<1>1. CASE Receive
  <2>1. jobs # <<>> => 1 <= Len(jobs)
    BY NotificationAssumption
  <2> QED
    BY <1>1, <2>1 DEF Receive
<1>2. CASE CheckPreference
  BY <1>2 DEF CheckPreference, NextJob
<1>3. CASE Store
  BY <1>3, JobIsJob DEF Store
<1>4. CASE Send
  BY <1>4, JobIsJob DEF Send, Accept
<1>5. CASE SendFails
  BY <1>5, JobIsJob DEF SendFails, Accept
<1>6. CASE SaveSent
  BY <1>6, RowIsRow DEF SaveSent, AddRow, NextJob
<1>7. CASE SaveSentFails
  BY <1>7, RowIsRow, JobIsJob DEF SaveSentFails, AddRow
<1>8. CASE SaveFailed
  BY <1>8, RowIsRow DEF SaveFailed, AddRow
<1>9. CASE PublishDlq
  BY <1>9, JobIsJob DEF PublishDlq, NextJob
<1>10. ASSUME LastWrite, pc \in Working
       PROVE  rows' \subseteq Row /\ stored' \subseteq Jobs /\ letters' \subseteq Jobs
  <2>1. CASE UNCHANGED recordVars
    BY <2>1
  <2>2. CASE ~UNCHANGED recordVars
    BY <1>10, <2>2, RowIsRow, JobIsJob DEF LastWrite, AddRow
  <2> QED
    BY <2>1, <2>2
<1>11. CASE Throws
  BY <1>10, <1>11 DEF Throws
<1>12. CASE Dies
  <2>1. accepted' \in [Jobs -> Nat]
    BY <1>12, JobIsJob DEF Dies, Accept
  <2> QED
    BY <1>10, <1>12, <2>1 DEF Dies
<1>13. CASE UNCHANGED vars
  BY <1>13 DEF vars, deliveryVars
<1> QED
  BY <1>1, <1>2, <1>3, <1>4, <1>5, <1>6, <1>7, <1>8, <1>9, <1>11, <1>12, <1>13
     DEF Next, Works

(* Every variable of Notification keeps its type.                          *)
THEOREM NotificationTyped == Spec => []TypeOK
<1>1. Init => AtJob
  BY DEF Init, AtJob, Working
<1> QED
  BY <1>1, TypeInit, TypeNext, PTL DEF Spec

-----------------------------------------------------------------------------
(* A settled job stays settled: rows and letters are only added, and what  *)
(* the provider took it has.                                               *)
LEMMA SettledStays ==
  ASSUME rows \subseteq rows', letters \subseteq letters',
         \A j \in Jobs : accepted[j] > 0 => accepted'[j] > 0
  PROVE  \A j \in Jobs : Settled(j) => Settled(j)'
BY DEF Settled, Has

(* Rows, letters and what the providers took only grow.                    *)
LEMMA LogsGrow ==
  ASSUME TypeOK, AtJob, [Next]_vars
  PROVE  /\ rows \subseteq rows' /\ letters \subseteq letters'
         /\ \A j \in Jobs : accepted[j] > 0 => accepted'[j] > 0
         /\ jobs' = jobs
<1> USE DEF recordVars, historyVars, AddRow, LastWrite
<1>1. Accept => \A j \in Jobs : accepted[j] > 0 => accepted'[j] > 0
  BY DEF Accept, TypeOK
<1>2. CASE Receive \/ CheckPreference \/ Store
  BY <1>2 DEF Receive, CheckPreference, Store
<1>3. CASE Send \/ SendFails
  BY <1>1, <1>3 DEF Send, SendFails
<1>4. CASE SaveSent \/ SaveSentFails \/ SaveFailed
  BY <1>4 DEF SaveSent, SaveSentFails, SaveFailed
<1>5. CASE PublishDlq
  BY <1>5 DEF PublishDlq
<1>6. CASE Throws
  BY <1>6 DEF Throws
<1>7. CASE Dies
  BY <1>1, <1>7 DEF Dies
<1>8. CASE UNCHANGED vars
  BY <1>8 DEF vars, deliveryVars
<1> QED
  BY <1>2, <1>3, <1>4, <1>5, <1>6, <1>7, <1>8 DEF Next, Works

(* A job that settles in this step takes the delivery to the next one, or  *)
(* ends the message with every job settled.                                *)
LEMMA NextJobSettles ==
  ASSUME NotificationInv, pc \in Working, [Next]_vars, NextJob,
         NEW j \in Jobs, j = Job, Settled(j)'
  PROVE  /\ pc' \in Working => JobsBefore'
         /\ NoJobIsLost'
<1> USE DEF NotificationInv, TypeOK, Working, Goto, NextJob
<1>1. AtJob
  BY DEF AtJob
<1>2. jobs \in Seq(Jobs) /\ jobs' = jobs
  BY <1>1, LogsGrow, NotificationAssumption
<1>3. \A i \in 1 .. next - 1 : jobs[i] \in Jobs /\ Settled(jobs[i])'
  <2>1. \A i \in 1 .. next - 1 : jobs[i] \in Jobs /\ Settled(jobs[i])
    BY <1>2 DEF JobsBefore
  <2> QED
    BY <1>1, <2>1, LogsGrow, SettledStays
<1>4. CASE next < Len(jobs)
  <2>1. next' = next + 1 /\ pc' = "check"
    BY <1>4
  <2>2. \A i \in 1 .. next : Settled(jobs[i])'
    BY <1>3, <1>2, <2>1 DEF Job
  <2> QED
    BY <2>1, <2>2, <1>2 DEF JobsBefore, NoJobIsLost
<1>5. CASE ~(next < Len(jobs))
  <2>1. next' = next /\ pc' = "over" /\ next = Len(jobs)
    BY <1>5, <1>2
  <2>2. \A i \in 1 .. Len(jobs) : Settled(jobs[i])'
    BY <1>3, <1>2, <2>1 DEF Job
  <2> QED
    BY <2>1, <2>2, <1>2 DEF NoJobIsLost, Settled
<1> QED
  BY <1>4, <1>5
(* NotificationInv is inductive.                                           *)
LEMMA NotificationInvNext == NotificationInv /\ [Next]_vars => NotificationInv'
<1> SUFFICES ASSUME NotificationInv, [Next]_vars
             PROVE  NotificationInv'
  OBVIOUS
<1> USE DEF NotificationInv, Working, Goto
<1>1. AtJob /\ TypeOK /\ TypeOK'
  BY TypeNext DEF AtJob
<1>2. /\ rows \subseteq rows' /\ letters \subseteq letters' /\ jobs' = jobs
      /\ \A j \in Jobs : accepted[j] > 0 => accepted'[j] > 0
  BY <1>1, LogsGrow
<1>3. pc \in Working => Job \in Jobs
  BY <1>1, JobIsJob DEF AtJob
<1>4. jobs \in Seq(Jobs)
  BY <1>1, NotificationAssumption DEF TypeOK
<1>5. ASSUME JobsBefore, next' = next, pc \in Working
      PROVE  JobsBefore'
  <2>1. \A i \in 1 .. next - 1 : jobs[i] \in Jobs
    BY <1>1, <1>4, <1>5 DEF TypeOK
  <2>2. \A i \in 1 .. next - 1 : Settled(jobs[i])'
    BY <1>2, <1>5, <2>1, SettledStays DEF JobsBefore
  <2> QED
    BY <1>2, <1>5, <2>2 DEF JobsBefore
<1>6. ASSUME pc' # "over"
      PROVE  NoJobIsLost'
  BY <1>6 DEF NoJobIsLost
<1>7. CASE Receive
  <2>1. CASE jobs = <<>>
    BY <1>1, <1>2, <1>7, <2>1 DEF Receive, NoJobIsLost, AtJob
  <2>2. CASE jobs # <<>>
    <3>1. next' = 1 /\ pc' = "check" /\ 1 <= Len(jobs)
      BY <1>4, <1>7, <2>2 DEF Receive
    <3>2. JobsBefore'
      BY <3>1 DEF JobsBefore
    <3> QED
      BY <1>1, <1>2, <1>6, <3>1, <3>2
  <2> QED
    BY <2>1, <2>2
<1>8. ASSUME NEW j \in Jobs, j = Job, Settled(j)', NextJob, pc \in Working
      PROVE  NotificationInv'
  <2>1. (pc' \in Working => JobsBefore') /\ NoJobIsLost'
    BY <1>8, NextJobSettles
  <2>2. pc' \in {"check", "over"} /\ (pc' = "check" => next' <= Len(jobs'))
    BY <1>1, <1>2, <1>4, <1>8 DEF NextJob, TypeOK
  <2> QED
    BY <1>1, <2>1, <2>2
<1>9. CASE CheckPreference
  <2>1. CASE Job \in OptedOut \ Forced
    BY <1>3, <1>8, <1>9, <2>1 DEF CheckPreference, Settled
  <2>2. CASE Job \notin OptedOut \ Forced
    BY <1>1, <1>2, <1>5, <1>6, <1>9, <2>2 DEF CheckPreference
  <2> QED
    BY <2>1, <2>2
<1>10. CASE Store
  BY <1>1, <1>2, <1>5, <1>6, <1>10 DEF Store
<1>11. CASE Send
  <2>1. Job' = Job /\ accepted'[Job] > 0
    BY <1>1, <1>2, <1>3, <1>11 DEF Send, Accept, TypeOK, Job
  <2> QED
    BY <1>1, <1>2, <1>5, <1>6, <1>11, <2>1 DEF Send
<1>12. CASE SendFails
  BY <1>1, <1>2, <1>5, <1>6, <1>12 DEF SendFails
<1>13. CASE SaveSent
  <2>. PICK j \in Jobs : j = Job
    BY <1>3, <1>13 DEF SaveSent
  <2>1. accepted[j] > 0
    BY <1>13 DEF SaveSent
  <2>2. RowOf("sent") \in rows' /\ RowOf("sent").job = j /\ RowOf("sent").status = "sent"
    BY <1>13 DEF SaveSent, AddRow, RowOf
  <2>3. NextJob /\ pc \in Working
    BY <1>13 DEF SaveSent
  <2>4. Settled(j)'
    BY <1>2, <2>1, <2>2 DEF Settled, Has
  <2> QED
    BY <1>8, <2>3, <2>4
<1>14. CASE SaveSentFails
  BY <1>1, <1>2, <1>5, <1>6, <1>14 DEF SaveSentFails
<1>15. CASE SaveFailed
  <2>1. Job' = Job
    BY <1>2, <1>15 DEF SaveFailed, Job
  <2>2. attempt >= MaxAttempts => Has(Job, "dlq")'
    <3>1. CASE attempt >= MaxAttempts
      <4>1. RowOf("dlq") \in rows'
        BY <1>15, <3>1 DEF SaveFailed, AddRow
      <4>2. RowOf("dlq").job = Job' /\ RowOf("dlq").status = "dlq"
        BY <2>1 DEF RowOf
      <4> QED
        BY <4>1, <4>2 DEF Has
    <3> QED
      BY <3>1
  <2>3. pc' \in {"dlq", "send"} /\ (pc' = "dlq" => attempt >= MaxAttempts)
    BY <1>15 DEF SaveFailed
  <2>4. next' = next /\ pc \in Working
    BY <1>15 DEF SaveFailed
  <2>5. JobsBefore'
    BY <1>5, <2>4
  <2> QED
    BY <1>1, <1>2, <1>6, <2>2, <2>3, <2>4, <2>5
<1>16. CASE PublishDlq
  <2>. PICK j \in Jobs : j = Job
    BY <1>3, <1>16 DEF PublishDlq
  <2>1. Has(j, "dlq") /\ j \in letters' /\ NextJob /\ pc \in Working
    BY <1>16 DEF PublishDlq
  <2>2. Settled(j)'
    BY <1>2, <2>1 DEF Settled, Has
  <2> QED
    BY <1>8, <2>1, <2>2
<1>17. CASE Throws
  BY <1>1, <1>17 DEF Throws, NoJobIsLost
<1>18. CASE Dies
  BY <1>1, <1>6, <1>18 DEF Dies
<1>19. CASE UNCHANGED vars
  BY <1>1, <1>19
     DEF vars, deliveryVars, recordVars, historyVars, NoJobIsLost, JobsBefore, Settled, Has, Job
<1> QED
  BY <1>7, <1>9, <1>10, <1>11, <1>12, <1>13, <1>14, <1>15, <1>16, <1>17, <1>18, <1>19
     DEF Next, Works

(* The jobs before the current one are settled, through throws and deaths. *)
THEOREM NotificationInvariant == Spec => []NotificationInv
<1>1. Init => NotificationInv
  BY TypeInit DEF Init, NotificationInv, Working, NoJobIsLost
<1> QED
  BY <1>1, NotificationInvNext, PTL DEF Spec

(* Every job of a message that is consumed without a throw was sent, is a  *)
(* dead letter, or is not wanted, whatever failed and whoever died.        *)
THEOREM JobsAreNotLost == Spec => []NoJobIsLost
<1>1. NotificationInv => NoJobIsLost
  BY DEF NotificationInv
<1> QED
  BY <1>1, NotificationInvariant, PTL

-----------------------------------------------------------------------------
(* Who took a job how often, in the lives before this one at most ...      *)
Earlier == MaxAttempts * deaths

(* ... and, where it is not one that is known to have been sent, never.    *)
Fresh(j) == accepted[j] <= Earlier /\ (j \notin unsure => accepted[j] = 0)

(* A job that is ahead is fresh; of the one it is at, an attempt was taken *)
(* by the provider at most once.                                           *)
SendsInv ==
    /\ \A j \in Jobs : /\ accepted[j] <= Earlier + MaxAttempts
                       /\ j \notin unsure => accepted[j] <= 1
    /\ pc = "idle" => \A j \in Jobs : Fresh(j)
    /\ pc \in Working => \A i \in next + 1 .. Len(jobs) : Fresh(jobs[i])
    /\ pc \in {"check", "store"} => Fresh(Job)
    /\ pc = "send" => accepted[Job] <= Earlier + attempt - 1
    /\ pc \in {"saveSent", "saveFailed"} => accepted[Job] <= Earlier + attempt
    /\ pc \in {"send", "saveFailed", "dlq"} /\ Job \notin unsure => accepted[Job] = 0

(* Every failed attempt at the job it is at has its row.                   *)
TriesInv ==
    /\ pc \in {"send", "saveSent", "saveFailed"} =>
         \A n \in 1 .. attempt - 1 :
             [job |-> Job, status |-> "failed", attempts |-> n] \in rows
    /\ pc = "dlq" =>
         /\ [job |-> Job, status |-> "dlq", attempts |-> MaxAttempts] \in rows
         /\ \A n \in 1 .. MaxAttempts - 1 :
              [job |-> Job, status |-> "failed", attempts |-> n] \in rows

(* The sends that the replicas that died may have made are a number, and   *)
(* the bound of all sends is that number and one replica's tries.          *)
LEMMA EarlierNat ==
  ASSUME TypeOK
  PROVE  /\ Earlier \in Nat
         /\ MaxAttempts * (deaths + 1) = Earlier + MaxAttempts
BY NotificationAssumption DEF TypeOK, Earlier

(* The jobs of a message are distinct.                                     *)
LEMMA JobsDiffer ==
  ASSUME TypeOK, NEW i \in 1 .. Len(jobs), NEW k \in 1 .. Len(jobs)
  PROVE  jobs[i] \in Jobs /\ (i # k => jobs[i] # jobs[k])
BY NotificationAssumption DEF TypeOK

(* To the next job: it was ahead, and it is fresh.                         *)
LEMMA NextJobIsFresh ==
  ASSUME TypeOK, AtJob, SendsInv, pc \in Working, NextJob,
         UNCHANGED <<jobs, accepted, unsure, deaths>>
  PROVE  SendsInv'
<1> USE DEF NextJob, Goto, SendsInv, TypeOK, AtJob, Working
<1>1. Earlier' = Earlier /\ jobs \in Seq(Jobs)
  BY NotificationAssumption DEF Earlier
<1>2. CASE next < Len(jobs)
  <2>1. next' = next + 1 /\ pc' = "check"
    BY <1>2
  <2>2. Fresh(jobs[next + 1])
    BY <1>1, <1>2
  <2>3. Job' = jobs[next + 1]
    BY <2>1 DEF Job
  <2>4. \A i \in next' + 1 .. Len(jobs) : Fresh(jobs[i])
    BY <1>1, <2>1
  <2> QED
    BY <1>1, <2>1, <2>2, <2>3, <2>4 DEF Fresh
<1>3. CASE ~(next < Len(jobs))
  BY <1>1, <1>3
<1> QED
  BY <1>2, <1>3

(* Every step keeps count of the sends.                                    *)
LEMMA SendsNext ==
  ASSUME TypeOK, AtJob, SendsInv, [Next]_vars
  PROVE  SendsInv'
<1> USE NotificationAssumption DEF TypeOK, Goto, recordVars, historyVars
<1>1. Earlier \in Nat /\ MaxAttempts * (deaths + 1) = Earlier + MaxAttempts
  BY EarlierNat
<1>2. pc \in Working => /\ next <= Len(jobs) /\ next \in 1 .. Len(jobs)
                        /\ Job \in Jobs
                        /\ \A i \in next + 1 .. Len(jobs) : jobs[i] \in Jobs \ {Job}
  BY JobsDiffer DEF AtJob, Job
<1>3. deaths' = deaths => Earlier' = Earlier
  BY DEF Earlier
<1>4. ASSUME Accept, pc = "send"
      PROVE  /\ accepted' \in [Jobs -> Nat] /\ accepted'[Job] = accepted[Job] + 1
             /\ \A j \in Jobs \ {Job} : accepted'[j] = accepted[j]
             /\ \A i \in next + 1 .. Len(jobs) : accepted'[jobs[i]] = accepted[jobs[i]]
             /\ \A j \in Jobs : accepted'[j] <= Earlier + MaxAttempts
  <2>1. /\ accepted' \in [Jobs -> Nat] /\ accepted'[Job] = accepted[Job] + 1
        /\ \A j \in Jobs \ {Job} : accepted'[j] = accepted[j]
    BY <1>2, <1>4 DEF Accept, Working
  <2>2. accepted[Job] <= Earlier + attempt - 1 /\ attempt <= MaxAttempts
    BY <1>4 DEF SendsInv, Attempts
  <2>3. accepted'[Job] <= Earlier + MaxAttempts
    BY <1>1, <1>2, <1>4, <2>1, <2>2 DEF Working, Attempts
  <2>4. \A j \in Jobs : accepted'[j] <= Earlier + MaxAttempts
    BY <2>1, <2>3 DEF SendsInv
  <2>5. \A i \in next + 1 .. Len(jobs) : accepted'[jobs[i]] = accepted[jobs[i]]
    BY <1>2, <1>4, <2>1 DEF Working
  <2> QED
    BY <2>1, <2>4, <2>5
<1>5. CASE Receive
  <2>1. \A i \in 1 .. Len(jobs) : jobs[i] \in Jobs
    BY JobsDiffer
  <2>2. next = 1 /\ \A j \in Jobs : Fresh(j)
    BY <1>5 DEF Receive, AtJob, SendsInv
  <2>3. pc' = "check" => Fresh(Job)' /\ \A i \in next + 1 .. Len(jobs) : Fresh(jobs[i])'
    <3>1. pc' = "check" => jobs # <<>> /\ 1 \in 1 .. Len(jobs)
      BY <1>5 DEF Receive
    <3> QED
      BY <1>3, <1>5, <2>1, <2>2, <3>1 DEF Receive, Job, Fresh
  <2> QED
    BY <1>3, <1>5, <2>3 DEF Receive, SendsInv, Working
<1>6. CASE CheckPreference
  <2>1. CASE NextJob
    BY <1>6, <2>1, NextJobIsFresh DEF CheckPreference, Working
  <2>2. CASE pc' = "store" /\ UNCHANGED next
    BY <1>3, <1>6, <2>2 DEF CheckPreference, SendsInv, Working, Job, Fresh
  <2> QED
    BY <1>6, <2>1, <2>2 DEF CheckPreference
<1>7. CASE Store
  BY <1>1, <1>2, <1>3, <1>7 DEF Store, SendsInv, Working, Job, Fresh
<1>8. CASE Send
  <2>1. Job' = Job
    BY <1>8 DEF Send, Job
  <2>2. accepted'[Job] <= Earlier + attempt /\ (Job \notin unsure => accepted'[Job] <= 1)
    BY <1>1, <1>2, <1>4, <1>8 DEF Send, SendsInv, Attempts, Working
  <2>3. /\ pc = "send" /\ pc' = "saveSent" /\ Accept
        /\ UNCHANGED <<jobs, next, attempt, unsure, deaths>>
    BY <1>8 DEF Send
  <2>4. \A j \in Jobs : /\ accepted'[j] <= Earlier + MaxAttempts
                        /\ j \notin unsure => accepted'[j] <= 1
    BY <1>4, <2>2, <2>3 DEF SendsInv
  <2>5. \A i \in next + 1 .. Len(jobs) : Fresh(jobs[i])'
    BY <1>3, <1>4, <2>3 DEF SendsInv, Working, Fresh
  <2> QED
    BY <1>3, <2>1, <2>2, <2>3, <2>4, <2>5 DEF SendsInv
<1>9. CASE SendFails
  <2>1. Job' = Job
    BY <1>9 DEF SendFails, Job
  <2>2. CASE UNCHANGED <<accepted, unsure>>
    BY <1>1, <1>2, <1>3, <1>9, <2>1, <2>2 DEF SendFails, SendsInv, Working, Fresh, Attempts
  <2>3. CASE Accept /\ unsure' = unsure \cup {Job}
    <3>1. accepted'[Job] <= Earlier + attempt
      BY <1>1, <1>2, <1>4, <1>9, <2>3 DEF SendFails, SendsInv, Attempts, Working
    <3> QED
      BY <1>2, <1>3, <1>4, <1>9, <2>1, <2>3, <3>1 DEF SendFails, SendsInv, Working, Fresh
  <2> QED
    BY <1>9, <2>2, <2>3 DEF SendFails
<1>10. CASE SaveSent
  BY <1>10, NextJobIsFresh DEF SaveSent, Working
<1>11. CASE SaveSentFails
  BY <1>1, <1>2, <1>3, <1>11 DEF SaveSentFails, SendsInv, Working, Job, Fresh
<1>12. CASE SaveFailed
  BY <1>1, <1>2, <1>3, <1>12 DEF SaveFailed, SendsInv, Working, Job, Fresh, Attempts
<1>13. CASE PublishDlq
  BY <1>13, NextJobIsFresh DEF PublishDlq, Working
<1>14. CASE Throws
  BY <1>3, <1>14 DEF Throws, SendsInv, Working
<1>15. CASE Dies
  <2>1. Earlier' = Earlier + MaxAttempts
    BY <1>1, <1>15 DEF Dies, Earlier
  <2>2. \A j \in Jobs : accepted'[j] <= Earlier + MaxAttempts /\ accepted'[j] \in Nat
    BY <1>4, <1>15 DEF Dies, SendsInv
  <2>3. \A j \in Jobs \ unsure' : accepted'[j] = 0
    BY <1>15, <2>2 DEF Dies
  <2> QED
    BY <1>1, <1>15, <2>1, <2>2, <2>3 DEF Dies, SendsInv, Working, Fresh
<1>16. CASE UNCHANGED vars
  BY <1>3, <1>16 DEF vars, deliveryVars, SendsInv, Working, Job, Fresh
<1> QED
  BY <1>5, <1>6, <1>7, <1>8, <1>9, <1>10, <1>11, <1>12, <1>13, <1>14, <1>15, <1>16
     DEF Next, Works

(* Nothing was sent when the message arrives.                              *)
LEMMA SendsInit == Init => SendsInv
<1> SUFFICES ASSUME Init
             PROVE  SendsInv
  OBVIOUS
<1>1. Earlier \in Nat /\ MaxAttempts \in Nat
  BY TypeInit, EarlierNat, NotificationAssumption
<1>2. \A j \in Jobs : accepted[j] = 0
  BY DEF Init
<1> QED
  BY <1>1, <1>2 DEF Init, SendsInv, Fresh, Working

(* A job goes to its provider again only when nobody could know of the     *)
(* first time, and MAX_ATTEMPTS times at most in the life of a replica.    *)
THEOREM JobsAreSentOnceIfKnown == Spec => []SentOnceIfKnown
<1>1. Init => AtJob
  BY DEF Init, AtJob, Working
<1>2. TypeOK /\ SendsInv => SentOnceIfKnown
  BY EarlierNat DEF SendsInv, SentOnceIfKnown
<1> QED
  BY <1>1, <1>2, TypeInit, TypeNext, SendsInit, SendsNext, PTL DEF Spec

(* Every step keeps the rows of the attempts.                              *)
LEMMA TriesNext ==
  ASSUME TypeOK, AtJob, TriesInv, [Next]_vars
  PROVE  TriesInv'
<1> USE NotificationAssumption DEF TypeOK, Goto, TriesInv, Attempts, recordVars, historyVars
<1>1. rows \subseteq rows' /\ jobs' = jobs
  BY LogsGrow
<1>2. CASE Receive \/ CheckPreference
  BY <1>2 DEF Receive, CheckPreference, NextJob
<1>3. CASE Store
  BY <1>3 DEF Store
<1>4. CASE Send \/ SendFails \/ SaveSentFails
  <2>1. Job' = Job /\ UNCHANGED attempt
    BY <1>4 DEF Send, SendFails, SaveSentFails, Job
  <2> QED
    BY <1>1, <1>4, <2>1 DEF Send, SendFails, SaveSentFails
<1>5. CASE SaveSent \/ PublishDlq
  BY <1>5 DEF SaveSent, PublishDlq, NextJob
<1>6. CASE SaveFailed
  <2>1. Job' = Job /\ pc = "saveFailed"
    BY <1>6 DEF SaveFailed, Job
  <2>2. CASE attempt >= MaxAttempts
    <3>1. attempt = MaxAttempts /\ pc' = "dlq"
      BY <1>6, <2>2 DEF SaveFailed
    <3>2. [job |-> Job, status |-> "dlq", attempts |-> MaxAttempts] \in rows'
      BY <1>6, <2>2, <3>1 DEF SaveFailed, AddRow, RowOf
    <3> QED
      BY <1>1, <2>1, <3>1, <3>2
  <2>3. CASE ~(attempt >= MaxAttempts)
    <3>1. attempt' = attempt + 1 /\ pc' = "send"
      BY <1>6, <2>3 DEF SaveFailed
    <3>2. [job |-> Job, status |-> "failed", attempts |-> attempt] \in rows'
      BY <1>6, <2>3 DEF SaveFailed, AddRow, RowOf
    <3> QED
      BY <1>1, <2>1, <3>1, <3>2
  <2> QED
    BY <2>2, <2>3
<1>7. CASE Throws \/ Dies
  <2>1. pc' \in {"over", "idle"}
    BY <1>7 DEF Throws, Dies
  <2> QED
    BY <2>1
<1>8. CASE UNCHANGED vars
  <2>1. Job' = Job
    BY <1>8 DEF vars, deliveryVars, Job
  <2> QED
    BY <1>8, <2>1 DEF vars, deliveryVars
<1> QED
  BY <1>2, <1>3, <1>4, <1>5, <1>6, <1>7, <1>8 DEF Next, Works

(* A dead letter had MAX_ATTEMPTS tries, each with its row, and nobody who *)
(* took it for sure.                                                       *)
THEOREM LettersHadTheirTries == Spec => LettersWereTried
<1> DEFINE Tried ==
      \A j \in letters' \ letters :
        /\ [job |-> j, status |-> "dlq", attempts |-> MaxAttempts] \in rows
        /\ \A n \in 1 .. MaxAttempts - 1 :
             [job |-> j, status |-> "failed", attempts |-> n] \in rows
        /\ j \notin unsure => accepted[j] = 0
<1>1. Init => AtJob /\ TriesInv
  BY DEF Init, AtJob, TriesInv, Working
<1>2. ASSUME TypeOK, SendsInv, TriesInv, [Next]_vars
      PROVE  Tried \/ UNCHANGED vars
  <2>1. \A j \in letters' \ letters : j = Job /\ pc = "dlq"
    BY <1>2 DEF Next, Works, Receive, CheckPreference, Store, Send, SendFails, SaveSent,
                SaveSentFails, SaveFailed, PublishDlq, Throws, Dies, LastWrite, vars,
                recordVars, historyVars
  <2> QED
    BY <1>2, <2>1 DEF SendsInv, TriesInv
<1>3. TypeOK /\ SendsInv /\ TriesInv /\ [Next]_vars => [Tried]_vars
  BY <1>2
<1> QED
  BY <1>1, <1>3, TypeInit, TypeNext, SendsInit, SendsNext, TriesNext, PTL
     DEF Spec, LettersWereTried
=============================================================================
