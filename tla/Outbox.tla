------------------------------- MODULE Outbox -------------------------------
(***************************************************************************)
(* From the committed order to the finalizer: the order_outbox table, the  *)
(* OutboxRelay that polls it on every replica, the Kafka topic             *)
(* order.created and the consumer group order-finalizer.                   *)
(*                                                                         *)
(* The relay's timer fires every 500 ms whether or not the last tick has   *)
(* ended, so the ticks of one replica overlap each other as they do those  *)
(* of other replicas; a tick whose await rejects takes its process down,   *)
(* since nobody catches it.  The topic has one partition here: messages of *)
(* different partitions have nothing in common.                            *)
(***************************************************************************)
EXTENDS Integers, Sequences, FiniteSets

CONSTANTS Orders,
          Replicas,        \* the processes of the order service
          Ticks,           \* overlapping runs of OutboxRelay.tick
          ReplicaOf,       \* the replica each tick runs on
          None,            \* no replica
          BatchSize,       \* claimOutboxBatch(50)
          GroupHasOffset,  \* FALSE: order-finalizer has never committed yet
          MaxFaults        \* bound: crashes, lost partitions, repeated sends

ASSUME OutboxAssumption ==
    /\ ReplicaOf \in [Ticks -> Replicas]
    /\ None \notin Replicas
    /\ BatchSize \in Nat \ {0}
    /\ GroupHasOffset \in BOOLEAN
    /\ MaxFaults \in Nat

VARIABLES row,       \* the outbox row of each order
          batch,     \* the rows a tick has claimed, {} when it is not running
          todo,      \* those it has still to publish
          topic,     \* order.created
          owner,     \* the replica the partition is assigned to
          position,  \* the last offset the owner has fetched
          committed, \* the last offset the group has committed
          working,   \* the offset a replica is running the finalizer for
          handled,   \* the orders the finalizer was run for
          faults     \* crashes, lost partitions and repeated sends so far

relayVars == <<batch, todo>>
groupVars == <<owner, position, committed, working, handled>>
vars == <<row, relayVars, topic, groupVars, faults>>

NoOffset == -1
Idle == 0

Unpublished == {o \in Orders : row[o] = "unpublished"}
InTopic(o) == \E i \in 1..Len(topic) : topic[i] = o

(* What the variables hold: a row of order_outbox is there, published or   *)
(* not, and the group has offsets of the topic.                            *)
TypeOK ==
    /\ row \in [Orders -> {"none", "unpublished", "published"}]
    /\ batch \in [Ticks -> SUBSET Orders]
    /\ todo \in [Ticks -> SUBSET Orders]
    /\ topic \in Seq(Orders)
    /\ owner \in Replicas \cup {None}
    /\ position \in Nat
    /\ committed \in Nat \cup {NoOffset}
    /\ working \in [Replicas -> Nat]
    /\ handled \in SUBSET Orders
    /\ faults \in Nat

Init ==
    /\ row = [o \in Orders |-> "none"]
    /\ batch = [t \in Ticks |-> {}]
    /\ todo = [t \in Ticks |-> {}]
    /\ topic = <<>>
    /\ owner = None
    /\ position = 0
    /\ committed = IF GroupHasOffset THEN 0 ELSE NoOffset
    /\ working = [r \in Replicas |-> Idle]
    /\ handled = {}
    /\ faults = 0

-----------------------------------------------------------------------------
(* The order transaction commits, and with it the outbox row. *)
PlaceOrder(o) ==
    /\ row[o] = "none"
    /\ row' = [row EXCEPT ![o] = "unpublished"]
    /\ UNCHANGED <<relayVars, topic, groupVars, faults>>

-----------------------------------------------------------------------------
(* OutboxRelay.tick *)

(* Mutant of Claim: it sees rows of transactions that have not committed. *)
ClaimUncommitted(t) ==
    /\ batch[t] = {}
    /\ \E o \in {p \in Orders : row[p] # "published"} :
          /\ batch' = [batch EXCEPT ![t] = {o}]
          /\ todo' = [todo EXCEPT ![t] = {o}]
    /\ UNCHANGED <<row, topic, groupVars, faults>>

(* claimOutboxBatch: up to BatchSize unpublished rows, and nothing marks   *)
(* them as claimed.  Which ones is up to created_at, a time taken before   *)
(* the commit that made the row visible; the order in which Publish takes  *)
(* them is left open for the same reason.                                  *)
Claim(t) ==
    /\ batch[t] = {}
    /\ \E rows \in SUBSET Unpublished \ {{}} :
          /\ Cardinality(rows) <= BatchSize
          /\ rows = Unpublished \/ Cardinality(rows) = BatchSize
          /\ batch' = [batch EXCEPT ![t] = rows]
          /\ todo' = [todo EXCEPT ![t] = rows]
    /\ UNCHANGED <<row, topic, groupVars, faults>>

(* One row is sent and acknowledged. *)
Publish(t) ==
    /\ \E o \in todo[t] :
          /\ topic' = Append(topic, o)
          /\ todo' = [todo EXCEPT ![t] = @ \ {o}]
    /\ UNCHANGED <<row, batch, groupVars, faults>>

(* The broker wrote the message, the acknowledgement was lost, and kafkajs *)
(* is going to send it again.                                              *)
PublishUnacknowledged(t) ==
    /\ faults < MaxFaults
    /\ faults' = faults + 1
    /\ \E o \in todo[t] : topic' = Append(topic, o)
    /\ UNCHANGED <<row, relayVars, groupVars>>

(* Mutant of MarkPublished: the batch is marked before it is sent. *)
MarkPublishedFirst(t) ==
    /\ batch[t] # {}
    /\ row' = [o \in Orders |-> IF o \in batch[t] THEN "published" ELSE row[o]]
    /\ batch' = [batch EXCEPT ![t] = {}]
    /\ UNCHANGED <<todo, topic, groupVars, faults>>

(* markOutboxPublished, once the whole batch was sent. *)
MarkPublished(t) ==
    /\ batch[t] # {}
    /\ todo[t] = {}
    /\ row' = [o \in Orders |-> IF o \in batch[t] THEN "published" ELSE row[o]]
    /\ batch' = [batch EXCEPT ![t] = {}]
    /\ UNCHANGED <<todo, topic, groupVars, faults>>

-----------------------------------------------------------------------------
(* OrderFinalizerWorker, a member of the group order-finalizer *)

(* Mutant of JoinGroup: every new owner starts at the end of the topic. *)
JoinGroupAtEnd(r) ==
    /\ owner = None
    /\ working[r] = Idle
    /\ owner' = r
    /\ position' = Len(topic)
    /\ UNCHANGED <<row, relayVars, topic, committed, working, handled, faults>>

(* A replica that is not in the middle of a message gets the partition and *)
(* resumes after the last committed offset; with none, at the end of the   *)
(* topic (fromBeginning: false).                                           *)
JoinGroup(r) ==
    /\ owner = None
    /\ working[r] = Idle
    /\ owner' = r
    /\ position' = IF committed = NoOffset THEN Len(topic) ELSE committed
    /\ UNCHANGED <<row, relayVars, topic, committed, working, handled, faults>>

(* eachMessage starts on the next message. *)
Fetch(r) ==
    /\ owner = r
    /\ working[r] = Idle
    /\ position < Len(topic)
    /\ position' = position + 1
    /\ working' = [working EXCEPT ![r] = position + 1]
    /\ UNCHANGED <<row, relayVars, topic, owner, committed, handled, faults>>

(* eachMessage ends, by success or by a caught error.  kafkajs commits the *)
(* offset now or later; a replica that lost the partition cannot.          *)
Handle(r) ==
    /\ working[r] # Idle
    /\ handled' = handled \cup {topic[working[r]]}
    /\ \/ owner = r /\ committed' = working[r]
       \/ UNCHANGED committed
    /\ working' = [working EXCEPT ![r] = Idle]
    /\ UNCHANGED <<row, relayVars, topic, owner, position, faults>>

-----------------------------------------------------------------------------
(* What goes wrong. *)

(* A replica dies and is restarted: its ticks and its message are gone.    *)
(* So does one whose claim, send or mark rejects, unhandled, in a timer.   *)
Crash(r) ==
    /\ faults < MaxFaults
    /\ faults' = faults + 1
    /\ batch' = [t \in Ticks |-> IF ReplicaOf[t] = r THEN {} ELSE batch[t]]
    /\ todo' = [t \in Ticks |-> IF ReplicaOf[t] = r THEN {} ELSE todo[t]]
    /\ working' = [working EXCEPT ![r] = Idle]
    /\ owner' = IF owner = r THEN None ELSE owner
    /\ UNCHANGED <<row, topic, position, committed, handled>>

(* The group takes the partition from a replica that was too slow; the     *)
(* finalizer there runs on.                                                *)
LosePartition ==
    /\ faults < MaxFaults
    /\ faults' = faults + 1
    /\ owner # None
    /\ owner' = None
    /\ UNCHANGED <<row, relayVars, topic, position, committed, working, handled>>

-----------------------------------------------------------------------------

Relay(t) == Claim(t) \/ Publish(t) \/ MarkPublished(t)
Consume(r) == Fetch(r) \/ Handle(r)

Next ==
    \/ \E o \in Orders : PlaceOrder(o)
    \/ \E t \in Ticks : Relay(t) \/ PublishUnacknowledged(t)
    \/ \E r \in Replicas : JoinGroup(r) \/ Consume(r) \/ Crash(r)
    \/ LosePartition

Spec == Init /\ [][Next]_vars

(* The timer keeps firing and every await of a tick settles; the group     *)
(* keeps the partition assigned, and its owner keeps polling.  Nobody has  *)
(* to place an order.                                                      *)
FairSpec ==
    /\ Spec
    /\ \A t \in Ticks : WF_vars(Relay(t))
    /\ WF_vars(\E r \in Replicas : JoinGroup(r))
    /\ \A r \in Replicas : WF_vars(Consume(r))

-----------------------------------------------------------------------------
(* Properties. *)

(* A row is only marked once its message is in the topic, whichever of the *)
(* overlapping ticks sent it and whichever replica died in between.        *)
PublishedReachedTopic ==
    \A o \in Orders : row[o] = "published" => InTopic(o)

(* Everything up to the committed offset went through the finalizer: no    *)
(* crash and no lost partition makes the group skip a message.             *)
CommittedWereHandled ==
    GroupHasOffset =>
        /\ committed <= Len(topic)
        /\ \A i \in 1..committed : topic[i] \in handled

(* runbooks/README.md:38: "Consumers continue from offsets - order intake  *)
(* is replayable (no lost accepted orders)".                               *)
EveryOrderIsHandled ==
    \A o \in Orders : row[o] # "none" ~> o \in handled

-----------------------------------------------------------------------------
(* The inductive invariant. *)

(* A tick claims rows of placed orders, and what it no longer has to do is *)
(* in the topic.                                                           *)
TicksInv ==
    \A t \in Ticks :
        /\ todo[t] \subseteq batch[t]
        /\ \A o \in batch[t] : row[o] # "none"
        /\ \A o \in batch[t] \ todo[t] : InTopic(o)

TopicInv == \A i \in 1..Len(topic) : row[topic[i]] # "none"

(* The owner has handled what it fetched, but for the message it is        *)
(* working on; the group never commits beyond that.                        *)
GroupInv ==
    /\ \A r \in Replicas : working[r] <= Len(topic)
    /\ handled \subseteq {o \in Orders : row[o] # "none"}
    /\ GroupHasOffset =>
         /\ committed \in 0..Len(topic)
         /\ \A i \in 1..committed : topic[i] \in handled
         /\ owner # None =>
              /\ position \in committed..Len(topic)
              /\ working[owner] \in {Idle, position}
              /\ \A i \in 1..position : topic[i] \in handled \/ i = working[owner]

(* Taken together: a row is marked published only once its message is in   *)
(* the topic, ticks publish committed rows only, and the group commits     *)
(* only what it has handled.                                               *)
OutboxInv == TypeOK /\ PublishedReachedTopic /\ TicksInv /\ TopicInv /\ GroupInv

-----------------------------------------------------------------------------
(* Outbox, relay and consumer group implement AtLeastOnce. *)
Delivery == INSTANCE AtLeastOnce WITH
                accepted <- {o \in Orders : row[o] # "none"}

(* Only accepted orders are handed to the finalizer, through every claim,  *)
(* repeated send and crash.                                                *)
ImplementsAtLeastOnce == Delivery!Spec
=============================================================================
