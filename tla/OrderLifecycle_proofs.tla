------------------------ MODULE OrderLifecycle_proofs ------------------------
(* Proofs about OrderLifecycle for any orders, any number of tasks of any  *)
(* kind, and any number of errors and crashes.                             *)
EXTENDS OrderLifecycle, TLAPS

(* What is appended to the events of an order is in them, after what was.  *)
LEMMA EventsGrow ==
  ASSUME NEW h \in Seq(Status), NEW s \in Status
  PROVE  /\ Append(h, s) \in Seq(Status)
         /\ Len(Append(h, s)) = Len(h) + 1
         /\ Append(h, s)[Len(h) + 1] = s
         /\ \A i \in 1..Len(h) : Append(h, s)[i] = h[i]
OBVIOUS

(* A task writes a status that CHK_orders_status knows.                    *)
LEMMA TargetIsStatus ==
  ASSUME NEW t \in Tasks
  PROVE  Target(t) \in Status
BY LifecycleAssumption DEF Target, Status, Finalizers

(* An order has a number of history rows.                                  *)
LEMMA RowsAreCounted ==
  ASSUME TypeOK, NEW o \in Orders
  PROVE  Rows(o) \in Nat /\ \A s \in Status : history[o][s] \in Nat
<1>1. history[o] \in [Status -> Nat]
  BY DEF TypeOK
<1> QED
  BY <1>1 DEF Rows, Status

(* What a transaction reads is a status and a number of rows.              *)
LEMMA ReadRowTyped ==
  ASSUME NEW t \in Tasks, TypeOK, ReadRow(t)
  PROVE  seen' \in [Tasks -> [status : Status, rows : Nat]]
<1> DEFINE o == OrderOf[t]
           row == [status |-> status[o], rows |-> Rows(o)]
<1>1. o \in Orders
  BY LifecycleAssumption
<1>2. status[o] \in Status /\ Rows(o) \in Nat
  BY <1>1, RowsAreCounted DEF TypeOK
<1>3. row \in [status : Status, rows : Nat]
  BY <1>2
<1>4. seen' = [seen EXCEPT ![t] = row]
  BY DEF ReadRow
<1> HIDE DEF row
<1> QED
  BY <1>3, <1>4 DEF TypeOK

(* Every variable of OrderLifecycle keeps its type. *)
THEOREM LifecycleTyped == Spec => []TypeOK
<1>1. Init => TypeOK
  BY DEF Init, TypeOK, Status
<1>2. TypeOK /\ [Next]_vars => TypeOK'
  <2> SUFFICES ASSUME TypeOK, [Next]_vars
               PROVE  TypeOK'
    OBVIOUS
  <2> USE LifecycleAssumption DEF TypeOK, Goto
  <2>1. ASSUME NEW t \in Tasks, CancelLookup(t)
        PROVE  TypeOK'
    BY <2>1 DEF CancelLookup, rowVars, eventVars
  <2>2. ASSUME NEW t \in Tasks, CancelRead(t)
        PROVE  TypeOK'
    <3>1. seen' \in [Tasks -> [status : Status, rows : Nat]]
      BY <2>2, ReadRowTyped DEF CancelRead
    <3> QED
      BY <2>2, <3>1 DEF CancelRead, rowVars, eventVars
  <2>3. ASSUME NEW t \in Tasks, FinalizeLookup(t)
        PROVE  TypeOK'
    BY <2>3 DEF FinalizeLookup, rowVars, eventVars
  <2>4. ASSUME NEW t \in Tasks, ChargePayment(t)
        PROVE  TypeOK'
    BY <2>4 DEF ChargePayment, rowVars, eventVars
  <2>5. ASSUME NEW t \in Tasks, MarkRead(t)
        PROVE  TypeOK'
    <3>1. seen' \in [Tasks -> [status : Status, rows : Nat]]
      BY <2>5, ReadRowTyped DEF MarkRead
    <3> QED
      BY <2>5, <3>1 DEF MarkRead, rowVars, eventVars
  <2>6. ASSUME NEW t \in Tasks, SaveSelect(t)
        PROVE  TypeOK'
    BY <2>6 DEF SaveSelect, rowVars, eventVars
  <2>7. ASSUME NEW t \in Tasks, SaveWrite(t)
        PROVE  TypeOK'
    <3>1. history' \in [Orders -> [Status -> Nat]]
      <4>1. OrderOf[t] \in Orders /\ Target(t) \in Status
        BY TargetIsStatus
      <4> QED
        BY <2>7, <4>1 DEF SaveWrite
    <3>2. status' \in [Orders -> Status] /\ softDeleted' \in [Orders -> BOOLEAN]
      BY <2>7, TargetIsStatus DEF SaveWrite
    <3> QED
      BY <2>7, <3>1, <3>2 DEF SaveWrite, eventVars
  <2>8. ASSUME NEW t \in Tasks, Announce(t)
        PROVE  TypeOK'
    <3>1. announced' \in [Orders -> Seq(Status)]
      BY <2>8, TargetIsStatus, EventsGrow DEF Announce
    <3>2. UNCHANGED <<status, softDeleted, history, charges, settled, seen, errors, crashes>>
      BY <2>8 DEF Announce, rowVars
    <3>3. /\ pc' = [pc EXCEPT ![t] = IF t \in Finalizers THEN "settle" ELSE "done"]
          /\ returned' \in {returned, returned \cup {t}}
      BY <2>8 DEF Announce
    <3> QED
      BY <3>1, <3>2, <3>3
  <2>9. ASSUME NEW t \in Tasks, AnnounceSettled(t)
        PROVE  TypeOK'
    <3>1. settled' \in [Orders -> SUBSET Status]
      BY <2>9, TargetIsStatus DEF AnnounceSettled
    <3> QED
      BY <2>9, <3>1 DEF AnnounceSettled, rowVars
  <2>10. ASSUME NEW t \in Tasks, StepRejects(t)
         PROVE  TypeOK'
    BY <2>10 DEF StepRejects, rowVars, eventVars
  <2>11. ASSUME NEW t \in Tasks, Crash(t)
         PROVE  TypeOK'
    BY <2>11 DEF Crash, rowVars, eventVars
  <2>12. CASE UNCHANGED vars
    BY <2>12 DEF vars
  <2> QED
    BY <2>1, <2>2, <2>3, <2>4, <2>5, <2>6, <2>7, <2>8, <2>9, <2>10, <2>11, <2>12
       DEF Next, Step
<1> QED
  BY <1>1, <1>2, PTL DEF Spec

-----------------------------------------------------------------------------
(* SaveWrite, the one step that changes an order row, as the other parts   *)
(* of the invariant see it: one more row, and not a pending one.           *)
LEMMA SaveWriteRecords ==
  ASSUME TypeOK, NEW t \in Tasks, SaveWrite(t)
  PROVE  /\ Recorded(OrderOf[t], Target(t))'
         /\ \A o \in Orders, s \in Status : Recorded(o, s) => Recorded(o, s)'
         /\ \A o \in Orders : history'[o]["pending"] = history[o]["pending"]
         /\ Rows(OrderOf[t])' = Rows(OrderOf[t]) + 1
         /\ \A o \in Orders \ {OrderOf[t]} : Rows(o)' = Rows(o)
<1> DEFINE o == OrderOf[t]
<1>1. o \in Orders /\ Target(t) \in Status \ {"pending"}
  BY LifecycleAssumption DEF Target, Status, Finalizers
<1>2. /\ history' = [history EXCEPT ![o] = [history[o] EXCEPT ![Target(t)] = @ + 1]]
      /\ history \in [Orders -> [Status -> Nat]]
  BY DEF SaveWrite, TypeOK
<1>3. \A p \in Orders \ {o} : history'[p] = history[p]
  BY <1>2
<1>4. \A s \in Status : /\ history[o][s] \in Nat
                        /\ history'[o][s] = IF s = Target(t) THEN history[o][s] + 1
                                                             ELSE history[o][s]
  BY <1>1, <1>2
<1> HIDE DEF o
<1>5. Recorded(o, Target(t))' /\ \A s \in Status : Recorded(o, s) => Recorded(o, s)'
  BY <1>1, <1>4 DEF Recorded
<1>6. history'[o]["pending"] = history[o]["pending"]
  BY <1>1, <1>4 DEF Status
<1>7. Rows(o)' = Rows(o) + 1
  BY <1>1, <1>4 DEF Rows, Status
<1>8. \A p \in Orders \ {o} : /\ Rows(p)' = Rows(p)
                              /\ \A s \in Status : Recorded(p, s)' <=> Recorded(p, s)
  BY <1>3 DEF Rows, Recorded
<1> QED
  BY <1>3, <1>5, <1>6, <1>7, <1>8 DEF o

(* Announce, the one step that sends order.status.changed. *)
LEMMA AnnounceAppends ==
  ASSUME TypeOK, NEW t \in Tasks, Announce(t)
  PROVE  /\ Announced(OrderOf[t], Target(t))'
         /\ \A o \in Orders, s \in Status : Announced(o, s) => Announced(o, s)'
         /\ \A o \in Orders, s \in Status :
              Announced(o, s)' => Announced(o, s) \/ (o = OrderOf[t] /\ s = Target(t))
<1> DEFINE o == OrderOf[t]
<1>1. o \in Orders /\ Target(t) \in Status
  BY LifecycleAssumption, TargetIsStatus
<1>2. /\ announced' = [announced EXCEPT ![o] = Append(announced[o], Target(t))]
      /\ announced[o] \in Seq(Status)
  BY <1>1 DEF Announce, TypeOK
<1>3. /\ announced'[o] = Append(announced[o], Target(t))
      /\ \A p \in Orders \ {o} : announced'[p] = announced[p]
  BY <1>1, <1>2 DEF TypeOK
<1>4. Len(announced[o]) \in Nat
  BY <1>2
<1>5. Announced(o, Target(t))'
  BY <1>1, <1>2, <1>3, <1>4, EventsGrow DEF Announced
<1>6. \A s \in Status : Announced(o, s) => Announced(o, s)'
  BY <1>1, <1>2, <1>3, <1>4, EventsGrow DEF Announced
<1>7. \A s \in Status : Announced(o, s)' => Announced(o, s) \/ s = Target(t)
  BY <1>1, <1>2, <1>3, <1>4, EventsGrow DEF Announced
<1> QED
  BY <1>3, <1>5, <1>6, <1>7 DEF Announced

(* Steps that leave the rows, or the events, alone. *)
LEMMA RecordedKept ==
  ASSUME UNCHANGED history
  PROVE  /\ \A o, s : Recorded(o, s)' <=> Recorded(o, s)
BY DEF Recorded

(* An event that was sent stays sent.                                      *)
LEMMA AnnouncedKept ==
  ASSUME UNCHANGED announced
  PROVE  \A o, s : Announced(o, s)' <=> Announced(o, s)
BY DEF Announced

-----------------------------------------------------------------------------
(* A pending order satisfies the inductive invariant.                      *)
LEMMA LifecycleInvInit == Init => LifecycleInv
<1> SUFFICES ASSUME Init PROVE LifecycleInv
  OBVIOUS
<1>1. TypeOK
  BY DEF Init, TypeOK, Status
<1>2. \A o \in Orders : history[o]["pending"] = 1 /\ announced[o] = <<>>
  BY DEF Init, Status
<1>3. \A o \in Orders : Recorded(o, "pending")
  <2>1. \A n : n = 1 => n > 0
    OBVIOUS
  <2> QED
    BY <1>2, <2>1, Zenon DEF Recorded
<1>4. \A o \in Orders, s \in Status : ~Announced(o, s)
  BY <1>2 DEF Announced
<1>5. SettledAsCharged /\ ReturnedMeansCancelled
  BY DEF Init, SettledAsCharged, ReturnedMeansCancelled
<1>6. StatusIsRecorded
  BY <1>2, <1>3 DEF Init, StatusIsRecorded
<1>7. EventsFollowFacts
  BY <1>4 DEF Init, EventsFollowFacts
<1>8. \A t \in Tasks : TaskInv(t)
  BY DEF Init, TaskInv
<1> QED
  BY <1>1, <1>5, <1>6, <1>7, <1>8 DEF LifecycleInv

(* The steps that touch neither rows nor events. *)
LEMMA QuietStepKeepsInv ==
  ASSUME LifecycleInv, TypeOK', NEW t \in Tasks, UNCHANGED <<rowVars, eventVars>>,
         \/ CancelLookup(t) \/ CancelRead(t) \/ FinalizeLookup(t) \/ ChargePayment(t)
         \/ MarkRead(t) \/ SaveSelect(t) \/ StepRejects(t) \/ Crash(t)
  PROVE  LifecycleInv'
<1> USE LifecycleAssumption DEF LifecycleInv, rowVars, eventVars
<1>1. /\ \A o, s : Recorded(o, s)' <=> Recorded(o, s)
      /\ \A o, s : Announced(o, s)' <=> Announced(o, s)
  BY RecordedKept, AnnouncedKept
<1>2. \A o \in Orders : charges[o] > 0 => charges'[o] > 0
  <2>1. CASE ChargePayment(t)
    BY <2>1 DEF ChargePayment, TypeOK
  <2>2. CASE UNCHANGED charges
    BY <2>2
  <2> QED
    BY <2>1, <2>2 DEF CancelLookup, CancelRead, FinalizeLookup, MarkRead, SaveSelect,
                      StepRejects, Crash
<1>3. SettledAsCharged'
  BY <1>2 DEF SettledAsCharged
<1>4. StatusIsRecorded'
  BY <1>1 DEF StatusIsRecorded
<1>5. EventsFollowFacts'
  BY <1>1, <1>2 DEF EventsFollowFacts
<1>6. ReturnedMeansCancelled'
  <2>1. CASE CancelLookup(t)
    BY <1>1, <2>1 DEF CancelLookup, ReturnedMeansCancelled, StatusIsRecorded, Cancellers
  <2>2. CASE UNCHANGED returned
    BY <1>1, <2>2 DEF ReturnedMeansCancelled
  <2> QED
    BY <2>1, <2>2 DEF CancelRead, FinalizeLookup, ChargePayment, MarkRead, SaveSelect,
                      StepRejects, Crash
<1>7. ASSUME NEW s \in Tasks \ {t}
      PROVE  TaskInv(s)'
  <2>1. pc'[s] = pc[s] /\ seen'[s] = seen[s]
    <3> USE DEF Goto, ReadRow, TypeOK
    <3>1. CASE CancelLookup(t)    BY <3>1 DEF CancelLookup
    <3>2. CASE CancelRead(t)      BY <3>2 DEF CancelRead
    <3>3. CASE FinalizeLookup(t)  BY <3>3 DEF FinalizeLookup
    <3>4. CASE ChargePayment(t)   BY <3>4 DEF ChargePayment
    <3>5. CASE MarkRead(t)
      BY <3>5, SMTT(30) DEF MarkRead
    <3>6. CASE SaveSelect(t)      BY <3>6 DEF SaveSelect
    <3>7. CASE StepRejects(t)     BY <3>7 DEF StepRejects
    <3>8. CASE Crash(t)           BY <3>8 DEF Crash
    <3> QED
      BY <3>1, <3>2, <3>3, <3>4, <3>5, <3>6, <3>7, <3>8
  <2> QED
    BY <1>1, <1>2, <2>1 DEF TaskInv
<1>8. TaskInv(t)'
  <2> USE DEF TaskInv, Goto, TypeOK
  <2>1. CASE CancelLookup(t)
    BY <1>1, <2>1 DEF CancelLookup, Cancellers
  <2>2. CASE CancelRead(t)
    BY <1>1, <2>2 DEF CancelRead, Cancellers, ReadRow, StatusIsRecorded
  <2>3. CASE FinalizeLookup(t)
    BY <1>1, <2>3 DEF FinalizeLookup
  <2>4. CASE ChargePayment(t)
    BY <1>1, <2>4 DEF ChargePayment
  <2>5. CASE MarkRead(t)
    BY <1>1, <2>5 DEF MarkRead, ReadRow
  <2>6. CASE SaveSelect(t)
    BY <1>1, <2>6 DEF SaveSelect
  <2>7. CASE StepRejects(t)
    BY <1>1, <2>7 DEF StepRejects
  <2>8. CASE Crash(t)
    BY <1>1, <2>8 DEF Crash
  <2> QED
    BY <2>1, <2>2, <2>3, <2>4, <2>5, <2>6, <2>7, <2>8
<1> QED
  BY <1>3, <1>4, <1>5, <1>6, <1>7, <1>8

(* So does a commit, over whatever was committed since its select.         *)
LEMMA SaveWriteKeepsInv ==
  ASSUME LifecycleInv, TypeOK', NEW t \in Tasks, SaveWrite(t)
  PROVE  LifecycleInv'
<1> USE LifecycleAssumption DEF LifecycleInv
<1> DEFINE o == OrderOf[t]
<1>1. /\ Recorded(o, Target(t))'
      /\ \A p \in Orders, s \in Status : Recorded(p, s) => Recorded(p, s)'
  BY SaveWriteRecords
<1>2. \A p, s : Announced(p, s)' <=> Announced(p, s)
  BY AnnouncedKept DEF SaveWrite, eventVars
<1>3. UNCHANGED <<charges, announced, settled, returned, seen>>
  BY DEF SaveWrite, eventVars
<1>4. o \in Orders /\ Target(t) \in Status
  BY TargetIsStatus
<1>5. /\ \A p \in Orders \ {o} : status'[p] = status[p] /\ softDeleted'[p] = softDeleted[p]
      /\ status'[o] \in {status[o], Target(t)}
      /\ status'[o] = status[o] => seen[t].status = Target(t) \/ status[o] = Target(t)
      /\ softDeleted'[o] => softDeleted[o] \/ Kind[t] = "admin"
  BY <1>4 DEF SaveWrite, TypeOK
<1>6. SettledAsCharged'
  <2>1. Target(t) \in {"paid", "failed"} => Target(t) = Charge[o] /\ charges[o] > 0
    BY DEF TaskInv, SaveWrite, Target
  <2> QED
    BY <1>3, <1>4, <1>5, <2>1 DEF SettledAsCharged
<1>7. StatusIsRecorded'
  <2>1. Kind[t] = "admin" => Target(t) = "cancelled"
    BY DEF Target, Finalizers
  <2>2. \A p \in Orders : history'[p]["pending"] = 1
    BY SaveWriteRecords DEF StatusIsRecorded
  <2>3. ASSUME NEW p \in Orders
        PROVE  Recorded(p, status[p])' /\ (softDeleted'[p] => Recorded(p, "cancelled")')
    <3>1. Recorded(p, status[p]) /\ (softDeleted[p] => Recorded(p, "cancelled"))
      BY DEF StatusIsRecorded
    <3>2. status[p] \in Status /\ "cancelled" \in Status
      BY DEF TypeOK, Status
    <3>3. CASE p # o
      BY <1>1, <1>5, <3>1, <3>2, <3>3
    <3>4. CASE p = o /\ status'[o] = status[o]
      BY <1>1, <1>5, <2>1, <3>1, <3>2, <3>4
    <3>5. CASE p = o /\ status'[o] = Target(t)
      BY <1>1, <1>5, <2>1, <3>1, <3>2, <3>5
    <3> QED
      BY <1>5, <3>3, <3>4, <3>5
  <2> QED
    BY <2>2, <2>3 DEF StatusIsRecorded
<1>8. EventsFollowFacts'
  BY <1>1, <1>2, <1>3 DEF EventsFollowFacts
<1>9. ReturnedMeansCancelled'
  BY <1>1, <1>3 DEF ReturnedMeansCancelled, Status, TypeOK
<1>10. ASSUME NEW s \in Tasks
       PROVE  TaskInv(s)'
  <2>1. \A p \in Orders : status[p] # "pending" => status'[p] # "pending"
    BY <1>4, <1>5 DEF Target
  <2>2. CASE s = t
    <3>1. pc'[t] = "announce"
      BY DEF SaveWrite, Goto, TypeOK
    <3> QED
      BY <1>1, <1>3, <2>2, <3>1 DEF TaskInv, Target, SaveWrite
  <2>3. CASE s # t
    <3>1. pc'[s] = pc[s]
      BY <2>3 DEF SaveWrite, Goto, TypeOK
    <3> QED
      BY <1>1, <1>2, <1>3, <2>1, <3>1 DEF TaskInv, Status
  <2> QED
    BY <2>2, <2>3
<1> QED
  BY <1>6, <1>7, <1>8, <1>9, <1>10

(* Publishing order.status.changed keeps the inductive invariant.          *)
LEMMA AnnounceKeepsInv ==
  ASSUME LifecycleInv, TypeOK', NEW t \in Tasks, Announce(t)
  PROVE  LifecycleInv'
<1> USE LifecycleAssumption DEF LifecycleInv
<1> DEFINE o == OrderOf[t]
<1>1. \A p, s : Recorded(p, s)' <=> Recorded(p, s)
  BY RecordedKept DEF Announce, rowVars
<1>2. /\ Announced(o, Target(t))'
      /\ \A p \in Orders, s \in Status : Announced(p, s) => Announced(p, s)'
      /\ \A p \in Orders, s \in Status :
            Announced(p, s)' => Announced(p, s) \/ (p = o /\ s = Target(t))
  BY AnnounceAppends
<1>3. UNCHANGED <<status, softDeleted, history, charges, settled, seen>>
  BY DEF Announce, rowVars
<1>4. o \in Orders /\ Target(t) \in Status
  BY TargetIsStatus
<1>5. IF t \in Finalizers THEN charges[o] > 0 /\ Target(t) = Charge[o]
                          ELSE Recorded(o, "cancelled") /\ Target(t) = "cancelled"
  BY DEF TaskInv, Announce, Target
<1>6. SettledAsCharged' /\ StatusIsRecorded'
  BY <1>1, <1>3 DEF SettledAsCharged, StatusIsRecorded
<1>7. EventsFollowFacts'
  BY <1>1, <1>2, <1>3, <1>4, <1>5 DEF EventsFollowFacts
<1>8. ReturnedMeansCancelled'
  BY <1>1, <1>5 DEF ReturnedMeansCancelled, Announce, Cancellers
<1>9. ASSUME NEW s \in Tasks
      PROVE  TaskInv(s)'
  <2>1. CASE s = t
    <3>1. pc'[t] = IF t \in Finalizers THEN "settle" ELSE "done"
      BY DEF Announce, Goto, TypeOK
    <3> QED
      BY <1>2, <1>3, <1>5, <2>1, <3>1 DEF TaskInv
  <2>2. CASE s # t
    <3>1. pc'[s] = pc[s]
      BY <2>2 DEF Announce, Goto, TypeOK
    <3>2. Charge[OrderOf[s]] \in Status /\ OrderOf[s] \in Orders
      BY DEF Status
    <3> QED
      BY <1>1, <1>2, <1>3, <3>1, <3>2 DEF TaskInv
  <2> QED
    BY <2>1, <2>2
<1> QED
  BY <1>6, <1>7, <1>8, <1>9

(* Publishing order.paid or order.failed keeps the inductive invariant.    *)
LEMMA AnnounceSettledKeepsInv ==
  ASSUME LifecycleInv, TypeOK', NEW t \in Tasks, AnnounceSettled(t)
  PROVE  LifecycleInv'
<1> USE LifecycleAssumption DEF LifecycleInv
<1>1. /\ \A p, s : Recorded(p, s)' <=> Recorded(p, s)
      /\ \A p, s : Announced(p, s)' <=> Announced(p, s)
  BY RecordedKept, AnnouncedKept DEF AnnounceSettled, rowVars
<1>2. UNCHANGED <<status, softDeleted, history, charges, announced, seen, returned>>
  BY DEF AnnounceSettled, rowVars
<1>3. t \in Finalizers /\ Target(t) = Charge[OrderOf[t]] /\ Announced(OrderOf[t], Target(t))
  BY DEF TaskInv, AnnounceSettled, Target
<1>4. SettledAsCharged' /\ StatusIsRecorded' /\ ReturnedMeansCancelled'
  BY <1>1, <1>2 DEF SettledAsCharged, StatusIsRecorded, ReturnedMeansCancelled
<1>5. EventsFollowFacts'
  BY <1>1, <1>2, <1>3 DEF EventsFollowFacts, AnnounceSettled, TypeOK
<1>6. ASSUME NEW s \in Tasks
      PROVE  TaskInv(s)'
  <2>1. pc'[s] = IF s = t THEN "done" ELSE pc[s]
    BY DEF AnnounceSettled, Goto, TypeOK
  <2> QED
    BY <1>1, <1>2, <2>1 DEF TaskInv
<1> QED
  BY <1>4, <1>5, <1>6

(* Every step keeps the inductive invariant.                               *)
LEMMA LifecycleInvNext ==
  ASSUME LifecycleInv, TypeOK', [Next]_vars
  PROVE  LifecycleInv'
<1>1. ASSUME NEW t \in Tasks,
             \/ CancelLookup(t) \/ CancelRead(t) \/ FinalizeLookup(t)
             \/ ChargePayment(t) \/ MarkRead(t) \/ SaveSelect(t)
             \/ StepRejects(t) \/ Crash(t)
      PROVE  LifecycleInv'
  <2>1. UNCHANGED <<rowVars, eventVars>>
    BY <1>1 DEF CancelLookup, CancelRead, FinalizeLookup, ChargePayment, MarkRead,
                SaveSelect, StepRejects, Crash
  <2> QED
    BY <1>1, <2>1, QuietStepKeepsInv
<1>2. CASE UNCHANGED vars
  BY <1>2 DEF vars, LifecycleInv, SettledAsCharged, StatusIsRecorded, EventsFollowFacts,
              ReturnedMeansCancelled, TaskInv, Recorded, Announced
<1> QED
  BY <1>1, <1>2, SaveWriteKeepsInv, AnnounceKeepsInv, AnnounceSettledKeepsInv DEF Next, Step

(* However cancellations and deliveries race, fail and repeat: an outcome  *)
(* shown was charged, every status shown is in the history, no event is    *)
(* ahead of the fact it announces, and a cancellation that returned is on  *)
(* record.                                                                 *)
THEOREM OrdersStayConsistent == Spec => []LifecycleInv
<1>1. LifecycleInv /\ TypeOK' /\ [Next]_vars => LifecycleInv'
  BY LifecycleInvNext
<1> QED
  BY <1>1, LifecycleInvInit, LifecycleTyped, PTL DEF Spec

(* No event is ahead of what it announces.                                 *)
THEOREM EventsAreNeverAhead == Spec => []EventsFollowFacts
<1>1. LifecycleInv => EventsFollowFacts
  BY DEF LifecycleInv
<1> QED
  BY <1>1, OrdersStayConsistent, PTL

-----------------------------------------------------------------------------
(* A finalizer that lets go of its message without an error has seen the   *)
(* order leave "pending", or done it: what AcceptedIsFinalizedUnlessError  *)
(* asks of the steps, and not of the scheduling.                           *)
NoneLeftPending ==
    \A t \in Finalizers :
        pc[t] \in {"announce", "settle", "done"} /\ errors = 0
        => status[OrderOf[t]] # "pending"

(* Inductive with this: an order is pending as long as its history has the *)
(* one row it was placed with, so that a save which finds another has seen *)
(* that somebody else decided.                                             *)
PendingHasOneRow == \A o \in Orders : status[o] = "pending" <=> Rows(o) = 1

(* What a transaction has read: one row if it read "pending", and no       *)
(* outcome if a customer asks for it.                                      *)
SeenWell(t) ==
    pc[t] \in {"save", "write"} =>
        /\ seen[t].status = "pending" => seen[t].rows = 1
        /\ Kind[t] # "admin" => seen[t].status \in {"pending", "cancelled"}

DecisionInv ==
    /\ PendingHasOneRow
    /\ NoneLeftPending
    /\ \A t \in Tasks : SeenWell(t)

(* An order has the row it was placed with, at least.                      *)
LEMMA RowsAreStarted ==
  ASSUME LifecycleInv, NEW o \in Orders
  PROVE  Rows(o) \in Nat /\ Rows(o) >= 1
<1>1. history[o]["pending"] = 1 /\ \A s \in Status : history[o][s] \in Nat
  BY RowsAreCounted DEF LifecycleInv, StatusIsRecorded
<1> QED
  BY <1>1 DEF Rows, Status

(* A save decides its order, whatever was committed since it read.         *)
LEMMA SaveWriteDecides ==
  ASSUME LifecycleInv, DecisionInv, NEW t \in Tasks, SaveWrite(t)
  PROVE  DecisionInv'
<1> DEFINE o == OrderOf[t]
<1> USE DEF LifecycleInv, TypeOK, DecisionInv
<1>1. o \in Orders /\ Target(t) \in Status /\ Target(t) # "pending"
  BY LifecycleAssumption, TargetIsStatus DEF Target, Finalizers
<1>2. Rows(o) \in Nat /\ Rows(o) >= 1
  BY <1>1, RowsAreStarted
<1>3. Rows(o)' = Rows(o) + 1 /\ \A p \in Orders \ {o} : Rows(p)' = Rows(p)
  BY SaveWriteRecords
<1>4. status'[o] # "pending"
  <2>1. CASE seen[t].status = Target(t)
    <3>1. t \notin Finalizers
      BY <2>1, LifecycleAssumption DEF TaskInv, Target, SaveWrite, Finalizers
    <3> QED
      BY <2>1, <3>1 DEF TaskInv, Target, SaveWrite
  <2>2. CASE seen[t].status # Target(t)
    BY <1>1, <2>2 DEF SaveWrite
  <2> QED
    BY <2>1, <2>2
<1>5. \A p \in Orders \ {o} : status'[p] = status[p]
  BY <1>1 DEF SaveWrite
<1>6. PendingHasOneRow'
  <2>1. status'[o] # "pending" /\ Rows(o)' # 1
    BY <1>2, <1>3, <1>4
  <2>2. \A p \in Orders \ {o} : status'[p] = "pending" <=> Rows(p)' = 1
    BY <1>3, <1>5 DEF PendingHasOneRow
  <2> HIDE DEF o
  <2> QED
    BY <2>1, <2>2 DEF PendingHasOneRow
<1>7. /\ \A s \in Tasks : pc'[s] = IF s = t THEN "announce" ELSE pc[s]
      /\ UNCHANGED <<seen, errors>>
  BY DEF SaveWrite, Goto
<1>8. NoneLeftPending'
  <2> SUFFICES ASSUME NEW s \in Finalizers, pc'[s] \in {"announce", "settle", "done"},
                      errors = 0, OrderOf[s] # o
               PROVE  status'[OrderOf[s]] # "pending"
    BY <1>4, <1>7 DEF NoneLeftPending
  <2>1. s \in Tasks /\ OrderOf[s] \in Orders /\ s # t
    BY LifecycleAssumption DEF Finalizers
  <2> QED
    BY <1>5, <1>7, <2>1 DEF NoneLeftPending
<1>9. \A s \in Tasks : SeenWell(s)'
  BY <1>7 DEF SeenWell
<1> QED
  BY <1>6, <1>8, <1>9

(* Every other step leaves rows alone, and lets go of a message only if    *)
(* the row it has just read is decided.                                    *)
LEMMA OthersDecideNothing ==
  ASSUME LifecycleInv, DecisionInv, UNCHANGED rowVars, NEW t \in Tasks,
         \/ CancelLookup(t) \/ CancelRead(t) \/ FinalizeLookup(t) \/ ChargePayment(t)
         \/ MarkRead(t) \/ SaveSelect(t) \/ Announce(t) \/ AnnounceSettled(t)
         \/ StepRejects(t) \/ Crash(t)
  PROVE  DecisionInv'
<1> USE DEF LifecycleInv, TypeOK, DecisionInv, rowVars
<1>1. PendingHasOneRow'
  BY DEF PendingHasOneRow, Rows
<1>2. \A s \in Tasks : OrderOf[s] \in Orders
  BY LifecycleAssumption
<1>3. ASSUME NEW s \in Tasks, s # t
      PROVE  pc'[s] = pc[s] /\ seen'[s] = seen[s] /\ (errors' = 0 => errors = 0)
  <2> QED
    BY <1>3 DEF CancelLookup, CancelRead, FinalizeLookup, ChargePayment, MarkRead,
                 SaveSelect, Announce, AnnounceSettled, StepRejects, Crash, ReadRow, Goto
<1>4. ASSUME t \in Finalizers
      PROVE  pc'[t] \in {"announce", "settle", "done"} /\ errors' = 0
               => status[OrderOf[t]] # "pending"
  <2>1. CASE FinalizeLookup(t) \/ ChargePayment(t)
    BY <1>4, <2>1 DEF FinalizeLookup, ChargePayment, Goto
  <2>2. CASE MarkRead(t)
    BY <1>4, <2>2 DEF MarkRead, Goto
  <2>3. CASE SaveSelect(t)
    <3>1. seen[t].rows = 1 /\ pc[t] = "save"
      BY <1>4, <2>3 DEF SaveSelect, TaskInv, SeenWell, Finalizers
    <3> QED
      BY <1>2, <1>4, <2>3, <3>1 DEF SaveSelect, Goto, PendingHasOneRow
  <2>4. CASE Announce(t) \/ AnnounceSettled(t)
    BY <1>4, <2>4 DEF Announce, AnnounceSettled, Goto, NoneLeftPending
  <2>5. CASE StepRejects(t) \/ Crash(t)
    BY <1>4, <2>5 DEF StepRejects, Crash, Goto
  <2>6. CASE CancelLookup(t) \/ CancelRead(t)
    BY <1>4, <2>6 DEF CancelLookup, CancelRead, Cancellers
  <2> QED
    BY <2>1, <2>2, <2>3, <2>4, <2>5, <2>6
<1>5. SeenWell(t)'
  <2>1. CASE CancelRead(t) \/ MarkRead(t)
    <3>1. CASE pc'[t] = "save" /\ ReadRow(t)
      <4>1. /\ seen'[t].status = status[OrderOf[t]]
            /\ seen'[t].rows = Rows(OrderOf[t])
        BY <3>1 DEF ReadRow
      <4>2. Kind[t] # "admin" => status[OrderOf[t]] \in {"pending", "cancelled"}
        BY <2>1, <3>1 DEF CancelRead, MarkRead, Goto
      <4> QED
        BY <1>2, <4>1, <4>2 DEF SeenWell, PendingHasOneRow
    <3>2. CASE pc'[t] \in {"done", "announce"}
      BY <3>2 DEF SeenWell
    <3> QED
      BY <2>1, <3>1, <3>2 DEF CancelRead, MarkRead, Goto
  <2>2. CASE SaveSelect(t)
    BY <2>2 DEF SaveSelect, Goto, SeenWell
  <2>3. CASE ~(CancelRead(t) \/ MarkRead(t) \/ SaveSelect(t))
    BY <2>3 DEF CancelLookup, FinalizeLookup, ChargePayment, Announce, AnnounceSettled,
                StepRejects, Crash, Goto, SeenWell
  <2> QED
    BY <2>1, <2>2, <2>3
<1>6. NoneLeftPending'
  <2> SUFFICES ASSUME NEW s \in Finalizers, pc'[s] \in {"announce", "settle", "done"},
                      errors' = 0
               PROVE  status[OrderOf[s]] # "pending"
    BY DEF NoneLeftPending
  <2> QED
    BY <1>3, <1>4 DEF NoneLeftPending, Finalizers
<1>7. \A s \in Tasks \ {t} : SeenWell(s)'
  BY <1>3 DEF SeenWell
<1> QED
  BY <1>1, <1>5, <1>6, <1>7

(* Every step keeps it.                                                    *)
LEMMA DecisionsHold == Spec => []DecisionInv
<1>1. Init => DecisionInv
  <2>1. Init => \A o \in Orders :
                  /\ history[o]["pending"] = 1 /\ history[o]["paid"] = 0
                  /\ history[o]["failed"] = 0 /\ history[o]["cancelled"] = 0
    <3> SUFFICES ASSUME Init, NEW o \in Orders
                 PROVE  /\ history[o]["pending"] = 1 /\ history[o]["paid"] = 0
                        /\ history[o]["failed"] = 0 /\ history[o]["cancelled"] = 0
      OBVIOUS
    <3>1. history[o] = [s \in Status |-> IF s = "pending" THEN 1 ELSE 0]
      BY DEF Init
    <3>2. {"pending", "paid", "failed", "cancelled"} \subseteq Status
      BY DEF Status
    <3> QED
      BY <3>1, <3>2
  <2>2. Init => \A o \in Orders : Rows(o) = 1
    <3>1. 1 + 0 + 0 + 0 = 1
      OBVIOUS
    <3> QED
      BY <2>1, <3>1, Zenon DEF Rows
  <2>3. Init => PendingHasOneRow
    BY <2>2 DEF Init, PendingHasOneRow
  <2> QED
    BY <2>3, LifecycleAssumption DEF Init, DecisionInv, NoneLeftPending, SeenWell, Finalizers
<1>2. LifecycleInv /\ DecisionInv /\ [Next]_vars => DecisionInv'
  <2> SUFFICES ASSUME LifecycleInv, DecisionInv, [Next]_vars
               PROVE  DecisionInv'
    OBVIOUS
  <2>1. ASSUME NEW t \in Tasks,
               \/ CancelLookup(t) \/ CancelRead(t) \/ FinalizeLookup(t)
               \/ ChargePayment(t) \/ MarkRead(t) \/ SaveSelect(t) \/ Announce(t)
               \/ AnnounceSettled(t) \/ StepRejects(t) \/ Crash(t)
        PROVE  DecisionInv'
    <3>1. UNCHANGED rowVars
      BY <2>1 DEF CancelLookup, CancelRead, FinalizeLookup, ChargePayment, MarkRead,
                  SaveSelect, Announce, AnnounceSettled, StepRejects, Crash
    <3> QED
      BY <2>1, <3>1, OthersDecideNothing
  <2>2. CASE UNCHANGED vars
    BY <2>2 DEF vars, DecisionInv, PendingHasOneRow, NoneLeftPending, SeenWell, Rows
  <2> QED
    BY <2>1, <2>2, SaveWriteDecides DEF Next, Step
<1> QED
  BY <1>1, <1>2, OrdersStayConsistent, PTL DEF Spec

(* However deliveries and cancellations race, crash and are repeated: no   *)
(* finalizer that met no error is through with an order still pending.     *)
THEOREM FinalizersDecide == Spec => []NoneLeftPending
<1>1. DecisionInv => NoneLeftPending
  BY DEF DecisionInv
<1> QED
  BY <1>1, DecisionsHold, PTL

(* What the code keeps of order.proto:6: no cancellation undoes an outcome *)
(* that it has read, unless an admin's, which hides the order.             *)
THEOREM SettledOrdersAreCancelledByRacesOnly == Spec => CancelsByRaceOnly
<1>1. ASSUME LifecycleInv, DecisionInv, Next, NEW o \in Orders,
             status[o] \in {"paid", "failed"}, status'[o] = "cancelled"
      PROVE  softDeleted'[o] \/ OvertakenCancel(o)
  <2> USE <1>1 DEF LifecycleInv, TypeOK, DecisionInv
  <2> SUFFICES ASSUME ~softDeleted'[o]
               PROVE  OvertakenCancel(o)
    OBVIOUS
  <2>1. PICK t \in Tasks : SaveWrite(t)
    BY DEF Next, Step, CancelLookup, CancelRead, FinalizeLookup, ChargePayment, MarkRead,
           SaveSelect, Announce, AnnounceSettled, StepRejects, Crash, rowVars
  <2>2. OrderOf[t] = o /\ Target(t) = "cancelled" /\ seen[t].status # "cancelled"
    BY <2>1 DEF SaveWrite
  <2>3. t \in Cancellers
    BY <2>2, LifecycleAssumption DEF Target, Cancellers
  <2>4. Kind[t] # "admin"
    BY <2>1, <2>2 DEF SaveWrite
  <2>5. seen[t].status = "pending" /\ seen[t].rows = 1
    BY <2>1, <2>2, <2>4 DEF SaveWrite, SeenWell
  <2>6. Rows(o) > 1
    <3>1. Rows(o) \in Nat /\ Rows(o) >= 1 /\ Rows(o) # 1
      BY RowsAreStarted DEF PendingHasOneRow
    <3> DEFINE n == Rows(o)
    <3>2. n \in Nat /\ n >= 1 /\ n # 1
      BY <3>1
    <3> HIDE DEF n
    <3>3. n > 1
      BY <3>2
    <3> QED
      BY <3>3 DEF n
  <2>7. pc[t] = "write" /\ pc'[t] = "announce"
    BY <2>1 DEF SaveWrite, Goto
  <2>8. seen[t].rows < Rows(o)
    BY <2>5, <2>6
  <2> QED
    BY <2>2, <2>3, <2>5, <2>7, <2>8 DEF OvertakenCancel
<1>2. LifecycleInv /\ DecisionInv /\ [Next]_vars
        => [\A o \in Orders :
               status[o] \in {"paid", "failed"} /\ status'[o] = "cancelled"
               => softDeleted'[o] \/ OvertakenCancel(o)]_vars
  BY <1>1
<1> QED
  BY <1>2, OrdersStayConsistent, DecisionsHold, PTL DEF Spec, CancelsByRaceOnly

-----------------------------------------------------------------------------
(* The order row implements OrderRecord: only SaveWrite moves it, and it   *)
(* settles, cancels or hides.                                              *)
LEMMA SaveWriteIsRecordStep ==
  ASSUME LifecycleInv, NEW t \in Tasks, SaveWrite(t)
  PROVE  [Record!Next]_Record!recordVars
<1> USE LifecycleAssumption DEF Record!Next, Record!recordVars
<1> DEFINE o == OrderOf[t]
<1>1. o \in Orders
  OBVIOUS
<1>2. CASE t \in Finalizers
  <2>1. /\ status' = [status EXCEPT ![o] = Charge[o]]
        /\ UNCHANGED softDeleted
    BY <1>2 DEF SaveWrite, Target, Finalizers, LifecycleInv, TaskInv
  <2>2. status[o] \in {"pending", "cancelled", Charge[o]}
    BY <1>1 DEF LifecycleInv, SettledAsCharged, TypeOK, Status
  <2>3. CASE status[o] = Charge[o]
    BY <2>1, <2>3 DEF LifecycleInv, TypeOK
  <2> QED
    BY <1>1, <2>1, <2>2, <2>3 DEF Record!Settle
<1>3. CASE t \notin Finalizers
  <2>1. Target(t) = "cancelled"
    BY <1>3 DEF Target
  <2>2. softDeleted' \in {softDeleted, [softDeleted EXCEPT ![o] = TRUE]}
    BY DEF SaveWrite
  <2>3. CASE UNCHANGED status
    <3>1. status[o] # "pending"
      <4>1. CASE seen[t].status = "cancelled"
        BY <1>3, <4>1 DEF SaveWrite, LifecycleInv, TaskInv
      <4>2. CASE seen[t].status # "cancelled"
        BY <1>1, <2>1, <2>3, <4>2 DEF SaveWrite, LifecycleInv, TypeOK
      <4> QED
        BY <4>1, <4>2
    <3> QED
      BY <1>1, <2>2, <2>3, <3>1 DEF Record!Hide
  <2>4. CASE status' = [status EXCEPT ![o] = "cancelled"] /\ status[o] # "cancelled"
    BY <1>1, <2>2, <2>4 DEF Record!Cancel
  <2>5. CASE status' = [status EXCEPT ![o] = "cancelled"] /\ status[o] = "cancelled"
    <3>1. UNCHANGED status
      BY <2>5 DEF LifecycleInv, TypeOK
    <3> QED
      BY <2>3, <3>1
  <2> QED
    BY <2>1, <2>3, <2>4, <2>5 DEF SaveWrite
<1> QED
  BY <1>2, <1>3

(* However the writers race, an order row behaves as OrderRecord.          *)
THEOREM LifecycleRefinesOrderRecord == Spec => ImplementsOrderRecord
<1>1. Init => Record!Init
  BY DEF Init, Record!Init
<1>2. LifecycleInv /\ [Next]_vars => [Record!Next]_Record!recordVars
  <2> SUFFICES ASSUME LifecycleInv, [Next]_vars
               PROVE  [Record!Next]_Record!recordVars
    OBVIOUS
  <2>1. ASSUME NEW t \in Tasks,
               \/ CancelLookup(t) \/ CancelRead(t) \/ FinalizeLookup(t)
               \/ ChargePayment(t) \/ MarkRead(t) \/ SaveSelect(t) \/ Announce(t)
               \/ AnnounceSettled(t) \/ StepRejects(t) \/ Crash(t)
        PROVE  UNCHANGED Record!recordVars
    BY <2>1 DEF CancelLookup, CancelRead, FinalizeLookup, ChargePayment, MarkRead,
                SaveSelect, Announce, AnnounceSettled, StepRejects, Crash, rowVars,
                Record!recordVars
  <2>2. CASE UNCHANGED vars
    BY <2>2 DEF vars, Record!recordVars
  <2> QED
    BY <2>1, <2>2, SaveWriteIsRecordStep DEF Next, Step
<1>3. LifecycleInv /\ TypeOK' /\ [Next]_vars => LifecycleInv'
  BY LifecycleInvNext
<1> QED
  BY <1>1, <1>2, <1>3, LifecycleInvInit, LifecycleTyped, PTL
     DEF Spec, ImplementsOrderRecord, Record!Spec
=============================================================================
