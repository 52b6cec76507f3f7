--------------------------- MODULE OrderLifecycle ---------------------------
(***************************************************************************)
(* From "pending" to "paid", "failed" or "cancelled": OrderService's       *)
(* cancelOrder and finalizeOrder, with the transactions cancel and         *)
(* markStatus of TypeOrmOrderRepository, racing on the same order row.     *)
(*                                                                         *)
(* A task is one CancelOrder call or one delivery of order.created to the  *)
(* finalizer.  Tasks run on any replica and interleave at every await.     *)
(* The transactions run at READ COMMITTED and lock nothing when they read. *)
(* TypeORM's save() first selects the row and its history again and writes *)
(* the columns in which the object in memory differs from that; a history  *)
(* row that the object does not know would be detached from its order,     *)
(* which a NOT NULL column forbids, so the transaction rolls back.         *)
(***************************************************************************)
EXTENDS Naturals, Sequences

CONSTANTS Orders,
          Tasks,
          Kind,       \* "owner", "stranger", "admin" or "finalizer"
          OrderOf,    \* the order each task is about
          Charge,     \* what the payment provider answers: "paid" or "failed"
          MaxErrors,  \* bound: awaits that reject
          MaxCrashes  \* bound: replicas that die or lose their partition

(* CodPaymentProvider decides on the payment type and the total alone, so  *)
(* charging an order again gives the same answer.                          *)
ASSUME LifecycleAssumption ==
    /\ Kind \in [Tasks -> {"owner", "stranger", "admin", "finalizer"}]
    /\ OrderOf \in [Tasks -> Orders]
    /\ Charge \in [Orders -> {"paid", "failed"}]
    /\ MaxErrors \in Nat
    /\ MaxCrashes \in Nat

VARIABLES status,      \* orders.status
          softDeleted, \* orders.soft_deleted
          history,     \* order_status_history: how many rows of each status
          charges,     \* how often the provider charged each order
          announced,   \* order.status.changed events of each order, in order
          settled,     \* the topics order.paid / order.failed: what was sent
          pc,          \* the await each task is at
          seen,        \* what a transaction read: the status, and how many
                       \* history rows there were
          returned,    \* CancelOrder calls that returned an order
          errors,      \* awaits that rejected so far
          crashes      \* crashes so far

rowVars == <<status, softDeleted, history>>
eventVars == <<announced, settled>>
vars == <<status, softDeleted, history, charges, announced, settled, pc, seen,
          returned, errors, crashes>>

Status == {"pending", "paid", "failed", "cancelled"}
Finalizers == {t \in Tasks : Kind[t] = "finalizer"}
Cancellers == Tasks \ Finalizers

(* The status a task writes and announces. *)
Target(t) == IF t \in Finalizers THEN Charge[OrderOf[t]] ELSE "cancelled"

(* Rows of order_status_history are counted, never put in order: the table *)
(* has no sequence, `at` is stamped before the row is saved, and nothing   *)
(* sorts what it reads.                                                    *)
Recorded(o, s) == history[o][s] > 0

Rows(o) == history[o]["pending"] + history[o]["paid"] + history[o]["failed"]
             + history[o]["cancelled"]

Announced(o, s) == \E i \in 1..Len(announced[o]) : announced[o][i] = s

(* What the variables hold: the status is one that CHK_orders_status       *)
(* allows, and history rows and events are of such statuses.               *)
TypeOK ==
    /\ status \in [Orders -> Status]
    /\ softDeleted \in [Orders -> BOOLEAN]
    /\ history \in [Orders -> [Status -> Nat]]
    /\ charges \in [Orders -> Nat]
    /\ announced \in [Orders -> Seq(Status)]
    /\ settled \in [Orders -> SUBSET Status]
    /\ pc \in [Tasks -> {"lookup", "charge", "read", "save", "write", "announce",
                         "settle", "done"}]
    /\ seen \in [Tasks -> [status : Status, rows : Nat]]
    /\ returned \in SUBSET Tasks
    /\ errors \in Nat
    /\ crashes \in Nat

(* The rows as TypeOrmOrderRepository.placeOrder saves them. *)
Init ==
    /\ status = [o \in Orders |-> "pending"]
    /\ softDeleted = [o \in Orders |-> FALSE]
    /\ history = [o \in Orders |-> [s \in Status |-> IF s = "pending" THEN 1 ELSE 0]]
    /\ charges = [o \in Orders |-> 0]
    /\ announced = [o \in Orders |-> <<>>]
    /\ settled = [o \in Orders |-> {}]
    /\ pc = [t \in Tasks |-> "lookup"]
    /\ seen = [t \in Tasks |-> [status |-> "pending", rows |-> 0]]
    /\ returned = {}
    /\ errors = 0
    /\ crashes = 0

Goto(t, label) == pc' = [pc EXCEPT ![t] = label]

ReadRow(t) == seen' = [seen EXCEPT ![t] = [status |-> status[OrderOf[t]],
                                           rows |-> Rows(OrderOf[t])]]

-----------------------------------------------------------------------------
(* cancelOrder *)

(* The early returns of cancelOrder: hidden from customers (404), another  *)
(* user's (403), no longer pending (422).                                  *)
Refused(t) ==
    LET o == OrderOf[t]
    IN  /\ Kind[t] # "admin"
        /\ softDeleted[o] \/ Kind[t] = "stranger" \/ status[o] # "pending"

(* findById and the checks.  An order that is already cancelled is         *)
(* returned as it is.                                                      *)
CancelLookup(t) ==
    /\ pc[t] = "lookup"
    /\ t \in Cancellers
    /\ IF Refused(t) \/ status[OrderOf[t]] = "cancelled"
         THEN Goto(t, "done")
         ELSE Goto(t, "read")
    /\ returned' = IF Refused(t) \/ status[OrderOf[t]] # "cancelled"
                     THEN returned
                     ELSE returned \cup {t}
    /\ UNCHANGED <<rowVars, charges, eventVars, seen, errors, crashes>>

(* Mutant: the status is checked at the lookup only. *)
CancelReadUnchecked(t) ==
    /\ pc[t] = "read"
    /\ t \in Cancellers
    /\ Goto(t, "save")
    /\ ReadRow(t)
    /\ UNCHANGED <<rowVars, charges, eventVars, returned, errors, crashes>>

(* The transaction of cancel reads the row and checks the status again. *)
CancelRead(t) ==
    /\ pc[t] = "read"
    /\ t \in Cancellers
    /\ IF Kind[t] # "admin" /\ status[OrderOf[t]] \notin {"pending", "cancelled"}
         THEN Goto(t, "done") /\ UNCHANGED seen
         ELSE Goto(t, "save") /\ ReadRow(t)
    /\ UNCHANGED <<rowVars, charges, eventVars, returned, errors, crashes>>

-----------------------------------------------------------------------------
(* finalizeOrder *)

(* Mutant: the order is marked before it is charged. *)
FinalizeWithoutCharge(t) ==
    /\ pc[t] = "lookup"
    /\ t \in Finalizers
    /\ Goto(t, IF status[OrderOf[t]] = "pending" THEN "read" ELSE "done")
    /\ UNCHANGED <<rowVars, charges, eventVars, seen, returned, errors, crashes>>

(* Mutant: an order that was charged already is left alone. *)
FinalizeUnchargedOnly(t) ==
    /\ pc[t] = "lookup"
    /\ t \in Finalizers
    /\ Goto(t, IF status[OrderOf[t]] = "pending" /\ charges[OrderOf[t]] = 0
                 THEN "charge"
                 ELSE "done")
    /\ UNCHANGED <<rowVars, charges, eventVars, seen, returned, errors, crashes>>

(* findById: an order that is not pending any more is left alone. *)
FinalizeLookup(t) ==
    /\ pc[t] = "lookup"
    /\ t \in Finalizers
    /\ Goto(t, IF status[OrderOf[t]] = "pending" THEN "charge" ELSE "done")
    /\ UNCHANGED <<rowVars, charges, eventVars, seen, returned, errors, crashes>>

ChargePayment(t) ==
    /\ pc[t] = "charge"
    /\ charges' = [charges EXCEPT ![OrderOf[t]] = @ + 1]
    /\ Goto(t, "read")
    /\ UNCHANGED <<rowVars, eventVars, seen, returned, errors, crashes>>

(* The transaction of markStatus reads the row.  An order that has left    *)
(* "pending" is returned unchanged, and announced all the same.            *)
MarkRead(t) ==
    /\ pc[t] = "read"
    /\ t \in Finalizers
    /\ IF status[OrderOf[t]] = "pending"
         THEN Goto(t, "save") /\ ReadRow(t)
         ELSE Goto(t, "announce") /\ UNCHANGED seen
    /\ UNCHANGED <<rowVars, charges, eventVars, returned, errors, crashes>>

-----------------------------------------------------------------------------
(* The shared ends of the two transactions, and the events after them.     *)

(* save() selects row and history again; rows it does not know roll the    *)
(* transaction back.                                                       *)
SaveSelect(t) ==
    /\ pc[t] = "save"
    /\ Goto(t, IF Rows(OrderOf[t]) = seen[t].rows THEN "write" ELSE "done")
    /\ UNCHANGED <<rowVars, charges, eventVars, seen, returned, errors, crashes>>

(* Mutant: every column of the object in memory is written. *)
SaveWriteWholeRow(t) ==
    LET o == OrderOf[t]
    IN  /\ pc[t] = "write"
        /\ status' = [status EXCEPT ![o] = Target(t)]
        /\ softDeleted' = [softDeleted EXCEPT ![o] = Kind[t] = "admin"]
        /\ history' = [history EXCEPT ![o][Target(t)] = @ + 1]
        /\ Goto(t, "announce")
        /\ UNCHANGED <<charges, eventVars, seen, returned, errors, crashes>>

(* The history row is inserted and the columns that differ are updated,    *)
(* which waits for whoever has updated the row and not committed, and both *)
(* become visible as the transaction commits, over whatever was committed  *)
(* since the select.                                                       *)
SaveWrite(t) ==
    LET o == OrderOf[t]
    IN  /\ pc[t] = "write"
        /\ status' = IF seen[t].status = Target(t)
                       THEN status
                       ELSE [status EXCEPT ![o] = Target(t)]
        /\ softDeleted' = IF Kind[t] = "admin"
                            THEN [softDeleted EXCEPT ![o] = TRUE]
                            ELSE softDeleted
        /\ history' = [history EXCEPT ![o][Target(t)] = @ + 1]
        /\ Goto(t, "announce")
        /\ UNCHANGED <<charges, eventVars, seen, returned, errors, crashes>>

(* order.status.changed, sent straight to Kafka. *)
Announce(t) ==
    LET o == OrderOf[t]
    IN  /\ pc[t] = "announce"
        /\ announced' = [announced EXCEPT ![o] = Append(@, Target(t))]
        /\ IF t \in Finalizers
             THEN Goto(t, "settle") /\ UNCHANGED returned
             ELSE Goto(t, "done") /\ returned' = returned \cup {t}
        /\ UNCHANGED <<rowVars, charges, settled, seen, errors, crashes>>

(* order.paid or order.failed *)
AnnounceSettled(t) ==
    /\ pc[t] = "settle"
    /\ settled' = [settled EXCEPT ![OrderOf[t]] = @ \cup {Target(t)}]
    /\ Goto(t, "done")
    /\ UNCHANGED <<rowVars, charges, announced, seen, returned, errors, crashes>>

-----------------------------------------------------------------------------
(* What goes wrong. *)

(* An await rejects: Postgres, the provider or Kafka.  A CancelOrder call  *)
(* ends in an error; the finalizer logs it, and the message is consumed.   *)
StepRejects(t) ==
    /\ pc[t] # "done"
    /\ errors < MaxErrors
    /\ errors' = errors + 1
    /\ Goto(t, "done")
    /\ UNCHANGED <<rowVars, charges, eventVars, seen, returned, crashes>>

(* The replica dies or loses the partition.  Kafka delivers the message    *)
(* again, even after the work was done, since its offset was not           *)
(* committed; a call is lost.                                              *)
Crash(t) ==
    /\ pc[t] # "lookup"
    /\ pc[t] = "done" => t \in Finalizers
    /\ crashes < MaxCrashes
    /\ crashes' = crashes + 1
    /\ Goto(t, IF t \in Finalizers THEN "lookup" ELSE "done")
    /\ UNCHANGED <<rowVars, charges, eventVars, seen, returned, errors>>

-----------------------------------------------------------------------------

Step(t) ==
    \/ CancelLookup(t) \/ CancelRead(t)
    \/ FinalizeLookup(t) \/ ChargePayment(t) \/ MarkRead(t)
    \/ SaveSelect(t) \/ SaveWrite(t) \/ Announce(t) \/ AnnounceSettled(t)

Next == \E t \in Tasks : Step(t) \/ StepRejects(t) \/ Crash(t)

Spec == Init /\ [][Next]_vars

(* Every await of the finalizer settles; kafkajs keeps delivering.  Nobody *)
(* has to cancel.                                                          *)
FairSpec == Spec /\ \A t \in Finalizers : WF_vars(Step(t))

-----------------------------------------------------------------------------
(* Properties. *)

(* An order only shows the outcome of a charge that took place. *)
SettledAsCharged ==
    \A o \in Orders :
        status[o] \in {"paid", "failed"} => charges[o] > 0 /\ status[o] = Charge[o]

(* However the writers race, the status an order shows has a row in the    *)
(* history, which keeps the "pending" row the order was placed with; a     *)
(* soft-deleted order was cancelled at some time.                          *)
StatusIsRecorded ==
    \A o \in Orders :
        /\ Recorded(o, status[o])
        /\ softDeleted[o] => Recorded(o, "cancelled")
        /\ history[o]["pending"] = 1

(* An event is never ahead of what it announces: "cancelled" is sent after *)
(* the cancellation committed, an outcome after the charge, and order.paid *)
(* or order.failed after order.status.changed.                             *)
EventsFollowFacts ==
    \A o \in Orders, s \in Status :
        /\ Announced(o, s) => IF s = "cancelled"
                                THEN Recorded(o, s)
                                ELSE charges[o] > 0 /\ s = Charge[o]
        /\ s \in settled[o] => Announced(o, s) /\ s = Charge[o]

(* A CancelOrder call that returns was not a mere request: the order has a *)
(* cancelled row, even if a payment that raced with it shows by now.       *)
ReturnedMeansCancelled ==
    \A t \in returned : t \in Cancellers /\ Recorded(OrderOf[t], "cancelled")

(* order.proto:6: "CancelOrder: customer (own, pending) or admin (cancel + *)
(* soft-delete)"; so an order that was paid or failed turns cancelled only *)
(* by an admin, who soft-deletes it.                                       *)
CustomersCancelOnlyPending ==
    [][\A o \in Orders :
          status[o] \in {"paid", "failed"} /\ status'[o] = "cancelled"
          => softDeleted'[o]]_vars

(* What the code keeps of that: an order that was settled turns cancelled  *)
(* by an admin, who hides it, or by a transaction that read it pending and *)
(* writes over what was committed since.  No cancellation that reads the   *)
(* outcome undoes it.                                                      *)
OvertakenCancel(o) ==
    \E t \in Cancellers :
        /\ OrderOf[t] = o /\ pc[t] = "write" /\ pc'[t] = "announce"
        /\ seen[t].status = "pending" /\ seen[t].rows < Rows(o)

CancelsByRaceOnly ==
    [][\A o \in Orders :
          status[o] \in {"paid", "failed"} /\ status'[o] = "cancelled"
          => softDeleted'[o] \/ OvertakenCancel(o)]_vars

(* An order whose order.created reaches the finalizer does not stay        *)
(* pending, whatever crashes, is delivered again or is cancelled in        *)
(* between, as long as no await rejects: an error is swallowed, and the    *)
(* message is consumed all the same.                                       *)
AcceptedIsFinalizedUnlessError ==
    \A o \in {OrderOf[t] : t \in Finalizers} : <>[](status[o] # "pending" \/ errors > 0)

-----------------------------------------------------------------------------
(* The inductive invariant: where a task is says what has happened to its  *)
(* order.                                                                  *)

TaskInv(t) ==
    LET o == OrderOf[t]
    IN  IF t \in Finalizers
          THEN /\ pc[t] \in {"read", "save", "write", "announce", "settle"}
                  => charges[o] > 0
               /\ pc[t] \in {"save", "write"} => seen[t].status = "pending"
               /\ pc[t] = "settle" => Announced(o, Charge[o])
          ELSE /\ pc[t] \notin {"charge", "settle"}
               /\ pc[t] \in {"save", "write"} /\ seen[t].status = "cancelled"
                  => status[o] # "pending" /\ Recorded(o, "cancelled")
               /\ pc[t] = "announce" => Recorded(o, "cancelled")

(* Taken together: however cancelOrder and finalizeOrder race, fail and    *)
(* are repeated, an outcome shown was charged, every status shown is in    *)
(* the history, and events and answers follow what was committed.          *)
LifecycleInv ==
    /\ TypeOK
    /\ SettledAsCharged
    /\ StatusIsRecorded
    /\ EventsFollowFacts
    /\ ReturnedMeansCancelled
    /\ \A t \in Tasks : TaskInv(t)

-----------------------------------------------------------------------------
(* The order row implements OrderRecord. *)
Record == INSTANCE OrderRecord WITH shown <- status, hidden <- softDeleted

(* Seen from the table, an order is only settled, cancelled or hidden, in  *)
(* the steps OrderRecord allows.                                           *)
ImplementsOrderRecord == Record!Spec
=============================================================================
