-------------------------- MODULE Delivery_proofs --------------------------
(***************************************************************************)
(* Proofs about the modules an order's status passes on its way: Outbox    *)
(* (for any orders, replicas, overlapping ticks, batch size, and any       *)
(* number of crashes, lost partitions and repeated sends), Realtime (for   *)
(* any sockets, addresses and limits) and OrderTracking (for any number of *)
(* requests under way, statuses and tokens).                               *)
(***************************************************************************)
EXTENDS Outbox, Realtime, OrderTracking, FiniteSetTheorems, TLAPS

-----------------------------------------------------------------------------
(* Outbox: the relay and the consumer group.                               *)

(* A topic only grows, at its end. *)
LEMMA TopicGrows ==
  ASSUME NEW q \in Seq(Orders), NEW o \in Orders
  PROVE  /\ Append(q, o) \in Seq(Orders)
         /\ Len(Append(q, o)) = Len(q) + 1
         /\ Append(q, o)[Len(q) + 1] = o
         /\ \A i \in 1..Len(q) : Append(q, o)[i] = q[i]
OBVIOUS

(* What is in the topic is an order.                                       *)
LEMMA MessagesAreOrders ==
  ASSUME TypeOK
  PROVE  /\ Len(topic) \in Nat
         /\ \A i \in 1..Len(topic) : topic[i] \in Orders
BY DEF TypeOK

(* Both ways of sending a row append it. *)
Sends(t) == Publish(t) \/ PublishUnacknowledged(t)

(* A message that is sent is the last of the topic.                        *)
LEMMA SendAppends ==
  ASSUME TypeOK, NEW t \in Ticks, Sends(t)
  PROVE  \E o \in todo[t] :
            /\ o \in Orders
            /\ topic' = Append(topic, o)
            /\ topic' \in Seq(Orders)
            /\ Len(topic') = Len(topic) + 1
            /\ topic'[Len(topic) + 1] = o
            /\ \A i \in 1..Len(topic) : topic'[i] = topic[i]
            /\ todo' \in {todo, [todo EXCEPT ![t] = @ \ {o}]}
<1>1. PICK o \in todo[t] :
         /\ topic' = Append(topic, o)
         /\ todo' \in {todo, [todo EXCEPT ![t] = @ \ {o}]}
  BY DEF Sends, Publish, PublishUnacknowledged, relayVars
<1>2. o \in Orders /\ topic \in Seq(Orders)
  BY DEF TypeOK
<1> QED
  BY <1>1, <1>2, TopicGrows

-----------------------------------------------------------------------------
(* Every variable keeps its type; that a replica works on a message of the *)
(* topic is needed where it has handled one.                               *)
LEMMA TypeOKNext ==
  ASSUME TypeOK, GroupInv, [Next]_vars
  PROVE  TypeOK'
<1> USE OutboxAssumption DEF TypeOK, relayVars, groupVars
<1>1. ASSUME NEW o \in Orders, PlaceOrder(o)
      PROVE  TypeOK'
  BY <1>1 DEF PlaceOrder
<1>2. ASSUME NEW t \in Ticks, Claim(t)
      PROVE  TypeOK'
  BY <1>2 DEF Claim, Unpublished
<1>3. ASSUME NEW t \in Ticks, Publish(t)
      PROVE  TypeOK'
  BY <1>3, SendAppends DEF Publish, Sends
<1>4. ASSUME NEW t \in Ticks, PublishUnacknowledged(t)
      PROVE  TypeOK'
  BY <1>4, SendAppends DEF PublishUnacknowledged, Sends
<1>5. ASSUME NEW t \in Ticks, MarkPublished(t)
      PROVE  TypeOK'
  BY <1>5 DEF MarkPublished
<1>6. ASSUME NEW r \in Replicas, JoinGroup(r)
      PROVE  TypeOK'
  BY <1>6 DEF JoinGroup, NoOffset
<1>7. ASSUME NEW r \in Replicas, Fetch(r)
      PROVE  TypeOK'
  BY <1>7 DEF Fetch
<1>8. ASSUME NEW r \in Replicas, Handle(r)
      PROVE  TypeOK'
  BY <1>8, MessagesAreOrders DEF Handle, Idle, GroupInv
<1>9. ASSUME NEW r \in Replicas, Crash(r)
      PROVE  TypeOK'
  BY <1>9 DEF Crash, Idle
<1>10. CASE LosePartition
  BY <1>10 DEF LosePartition
<1>11. CASE UNCHANGED vars
  BY <1>11 DEF vars
<1> QED
  BY <1>1, <1>2, <1>3, <1>4, <1>5, <1>6, <1>7, <1>8, <1>9, <1>10, <1>11
     DEF Next, Relay, Consume

(* What is in the topic stays there. *)
LEMMA InTopicStays ==
  ASSUME TypeOK, [Next]_vars, NEW o \in Orders, InTopic(o)
  PROVE  InTopic(o)'
<1>1. ASSUME NEW t \in Ticks, Sends(t)
      PROVE  InTopic(o)'
  BY <1>1, SendAppends, MessagesAreOrders DEF InTopic
<1>2. ASSUME UNCHANGED topic
      PROVE  InTopic(o)'
  BY <1>2 DEF InTopic
<1>3. UNCHANGED topic \/ \E t \in Ticks : Sends(t)
  BY DEF Next, Relay, Consume, Sends, vars, PlaceOrder, Claim, MarkPublished, JoinGroup,
         Fetch, Handle, Crash, LosePartition
<1> QED
  BY <1>1, <1>2, <1>3

(* A row is claimed unpublished, what leaves a tick's list was sent, and a *)
(* crash drops the whole batch.                                            *)
LEMMA TicksInvNext ==
  ASSUME TypeOK, TicksInv, PublishedReachedTopic, [Next]_vars
  PROVE  TicksInv' /\ PublishedReachedTopic'
<1> DEFINE Goal == TicksInv' /\ PublishedReachedTopic'
<1> USE DEF TypeOK, TicksInv, PublishedReachedTopic, relayVars
<1>1. ASSUME NEW p \in Orders, PlaceOrder(p)
      PROVE  Goal
  BY <1>1 DEF PlaceOrder, InTopic
<1>2. ASSUME NEW t \in Ticks, Claim(t)
      PROVE  Goal
  BY <1>2 DEF Claim, Unpublished, InTopic
<1>3. ASSUME NEW t \in Ticks, Sends(t)
      PROVE  Goal
  <2>1. PICK o \in todo[t] :
           /\ o \in Orders
           /\ Len(topic') = Len(topic) + 1
           /\ topic'[Len(topic) + 1] = o
           /\ todo' \in {todo, [todo EXCEPT ![t] = @ \ {o}]}
    BY <1>3, SendAppends
  <2>2. InTopic(o)'
    BY <2>1, MessagesAreOrders DEF InTopic
  <2>3. UNCHANGED <<row, batch>>
    BY <1>3 DEF Sends, Publish, PublishUnacknowledged
  <2>4. \A p \in Orders : InTopic(p) => InTopic(p)'
    BY <1>3, InTopicStays DEF Next, Relay, Sends
  <2>5. PublishedReachedTopic'
    BY <2>3, <2>4
  <2>6. \A u \in Ticks : todo'[u] \subseteq todo[u] /\ todo[u] \ todo'[u] \subseteq {o}
    BY <2>1
  <2>7. TicksInv'
    BY <2>2, <2>3, <2>4, <2>6
  <2> QED
    BY <2>5, <2>7
<1>4. ASSUME NEW t \in Ticks, MarkPublished(t)
      PROVE  Goal
  BY <1>4 DEF MarkPublished, InTopic
<1>5. ASSUME UNCHANGED <<row, relayVars, topic>>
      PROVE  Goal
  BY <1>5 DEF InTopic
<1>6. ASSUME NEW r \in Replicas, Crash(r)
      PROVE  Goal
  BY <1>6 DEF Crash, InTopic
<1> QED
  BY <1>1, <1>2, <1>3, <1>4, <1>5, <1>6
     DEF Next, Relay, Consume, Sends, vars, JoinGroup, Fetch, Handle, LosePartition

(* Only claimed rows are sent, and a placed order stays placed. *)
LEMMA TopicInvNext ==
  ASSUME TypeOK, TicksInv, TopicInv, [Next]_vars
  PROVE  TopicInv'
<1> USE DEF TypeOK, TopicInv, relayVars, groupVars
<1>1. ASSUME NEW p \in Orders, PlaceOrder(p)
      PROVE  TopicInv'
  BY <1>1, MessagesAreOrders DEF PlaceOrder
<1>2. ASSUME NEW t \in Ticks, Sends(t)
      PROVE  TopicInv'
  <2>1. row' = row
    BY <1>2 DEF Sends, Publish, PublishUnacknowledged
  <2>2. PICK o \in todo[t] :
          /\ Len(topic') = Len(topic) + 1
          /\ topic'[Len(topic) + 1] = o
          /\ \A i \in 1..Len(topic) : topic'[i] = topic[i]
    BY <1>2, SendAppends
  <2>3. row[o] # "none"
    BY <2>2 DEF TicksInv
  <2>4. Len(topic) \in Nat
    BY MessagesAreOrders
  <2>5. ASSUME NEW i \in 1..Len(topic')
        PROVE  row'[topic'[i]] # "none"
    <3>1. CASE i = Len(topic) + 1
      BY <2>1, <2>2, <2>3, <3>1
    <3>2. CASE i # Len(topic) + 1
      <4>1. i \in 1..Len(topic)
        BY <2>2, <2>4, <3>2
      <4> QED
        BY <2>1, <2>2, <4>1
    <3> QED
      BY <3>1, <3>2
  <2> QED
    BY <2>5
<1>3. ASSUME NEW t \in Ticks, MarkPublished(t)
      PROVE  TopicInv'
  BY <1>3, MessagesAreOrders DEF MarkPublished
<1>4. ASSUME UNCHANGED <<row, topic>>
      PROVE  TopicInv'
  BY <1>4
<1> QED
  BY <1>1, <1>2, <1>3, <1>4
     DEF Next, Relay, Consume, Sends, vars, Claim, JoinGroup, Fetch, Handle, Crash,
         LosePartition

(* The offsets of the group are offsets of the topic.                      *)
LEMMA OffsetsInTopic ==
  ASSUME TypeOK, GroupInv, GroupHasOffset
  PROVE  /\ committed \in Nat /\ committed <= Len(topic)
         /\ owner # None => position \in Nat /\ position <= Len(topic)
<1>1. Len(topic) \in Nat
  BY MessagesAreOrders
<1>2. committed \in 0..Len(topic)
  BY DEF GroupInv
<1>3. owner # None => position \in committed..Len(topic)
  BY DEF GroupInv
<1> QED
  BY <1>1, <1>2, <1>3

(* The owner fetches in order, one message at a time, and an offset is     *)
(* committed by the owner, when it has handled it.                         *)
LEMMA GroupInvNext ==
  ASSUME TypeOK, TypeOK', TopicInv, GroupInv, [Next]_vars
  PROVE  GroupInv'
<1>1. ASSUME NEW t \in Ticks, Sends(t)
      PROVE  GroupInv'
  <2>1. UNCHANGED <<row, owner, position, committed, working, handled>>
    BY <1>1 DEF Sends, Publish, PublishUnacknowledged, groupVars
  <2>2. /\ Len(topic') = Len(topic) + 1
        /\ \A i \in 1..Len(topic) : topic'[i] = topic[i]
    BY <1>1, SendAppends
  <2>3. Len(topic) \in Nat
    BY MessagesAreOrders
  <2>4. \A u \in Replicas : working'[u] <= Len(topic')
    BY <2>1, <2>2, <2>3 DEF TypeOK, GroupInv
  <2>5. ASSUME GroupHasOffset
        PROVE  /\ committed' \in 0..Len(topic')
               /\ \A i \in 1..committed' : topic'[i] \in handled'
    <3>1. committed \in Nat /\ committed <= Len(topic)
      BY <2>5, OffsetsInTopic
    <3>2. \A i \in 1..committed : topic'[i] = topic[i]
      BY <2>2, <2>3, <3>1
    <3>3. \A i \in 1..committed : topic[i] \in handled
      BY <2>5 DEF GroupInv
    <3> QED
      BY <2>1, <2>2, <2>3, <3>1, <3>2, <3>3
  <2>6. ASSUME GroupHasOffset, owner # None
        PROVE  /\ position' \in committed'..Len(topic')
               /\ working'[owner'] \in {Idle, position'}
               /\ \A i \in 1..position' : topic'[i] \in handled' \/ i = working'[owner']
    <3>1. position \in Nat /\ position <= Len(topic)
      BY <2>6, OffsetsInTopic
    <3>2. \A i \in 1..position : topic'[i] = topic[i]
      BY <2>2, <2>3, <3>1
    <3>3. /\ position \in committed..Len(topic)
          /\ working[owner] \in {Idle, position}
          /\ \A i \in 1..position : topic[i] \in handled \/ i = working[owner]
      BY <2>6 DEF GroupInv
    <3>4. position \in committed..Len(topic')
      BY <2>2, <2>3, <3>1, <3>3
    <3> QED
      BY <2>1, <3>2, <3>3, <3>4
  <2>7. handled \subseteq {o \in Orders : row[o] # "none"}
    BY DEF GroupInv
  <2> QED
    BY <2>1, <2>4, <2>5, <2>6, <2>7 DEF GroupInv
<1> USE OutboxAssumption DEF TypeOK, GroupInv, Idle, groupVars, NoOffset
<1>2. ASSUME NEW r \in Replicas, JoinGroup(r)
      PROVE  GroupInv'
  BY <1>2, MessagesAreOrders DEF JoinGroup
<1>3. ASSUME NEW r \in Replicas, Fetch(r)
      PROVE  GroupInv'
  BY <1>3, MessagesAreOrders DEF Fetch
<1>4. ASSUME NEW r \in Replicas, Handle(r)
      PROVE  GroupInv'
  BY <1>4, MessagesAreOrders DEF Handle, TopicInv
<1>5. ASSUME NEW r \in Replicas, Crash(r)
      PROVE  GroupInv'
  BY <1>5 DEF Crash
<1>6. CASE LosePartition
  BY <1>6 DEF LosePartition
<1>7. ASSUME UNCHANGED <<topic, groupVars>>,
             \A o \in Orders : row[o] # "none" => row'[o] # "none"
      PROVE  GroupInv'
  BY <1>7
<1>8. ASSUME NEW o \in Orders, PlaceOrder(o)
      PROVE  GroupInv'
  BY <1>7, <1>8 DEF PlaceOrder
<1>9. ASSUME NEW t \in Ticks, Claim(t) \/ MarkPublished(t)
      PROVE  GroupInv'
  BY <1>7, <1>9 DEF Claim, MarkPublished
<1> QED
  BY <1>1, <1>2, <1>3, <1>4, <1>5, <1>6, <1>7, <1>8, <1>9
     DEF Next, Relay, Consume, Sends, vars

-----------------------------------------------------------------------------
(* The inductive invariant: the types, what the ticks have in hand, what   *)
(* is in the topic and where the group is.                                 *)
THEOREM OutboxInvariant == Spec => []OutboxInv
<1>1. Init => OutboxInv
  BY OutboxAssumption
     DEF Init, OutboxInv, TypeOK, PublishedReachedTopic, TicksInv, TopicInv, GroupInv,
         NoOffset, Idle
<1>2. OutboxInv /\ [Next]_vars => OutboxInv'
  BY TypeOKNext, TicksInvNext, TopicInvNext, GroupInvNext DEF OutboxInv
<1> QED
  BY <1>1, <1>2, PTL DEF Spec

(* Every variable of Outbox keeps its type. *)
THEOREM OutboxTyped == Spec => []TypeOK
<1>1. OutboxInv => TypeOK
  BY DEF OutboxInv
<1> QED
  BY <1>1, OutboxInvariant, PTL

(* However many ticks of however many replicas overlap, and wherever they  *)
(* die: a row is only marked as published when its message is in the topic.*)
THEOREM MarkedRowsWereSent == Spec => []PublishedReachedTopic
<1>1. OutboxInv => PublishedReachedTopic
  BY DEF OutboxInv
<1> QED
  BY <1>1, OutboxInvariant, PTL

(* However often the partition moves or a replica dies: a group that has   *)
(* an offset never skips a message.                                        *)
THEOREM GroupSkipsNothing == Spec => []CommittedWereHandled
<1>1. OutboxInv => CommittedWereHandled
  <2> SUFFICES ASSUME OutboxInv, GroupHasOffset
               PROVE  /\ committed <= Len(topic)
                      /\ \A i \in 1..committed : topic[i] \in handled
    BY DEF CommittedWereHandled
  <2> QED
    BY MessagesAreOrders DEF OutboxInv, GroupInv
<1> QED
  BY <1>1, OutboxInvariant, PTL

(* What EveryOrderIsHandled asks of the steps, and not of the scheduling:  *)
(* an accepted order that was not handled is a row that the relay is still *)
(* to claim or a message that the group is still to fetch, or is at.       *)
OnItsWay(o) ==
    \/ row[o] = "unpublished"
    \/ \E i \in 1..Len(topic) :
          /\ topic[i] = o
          /\ i > committed
          /\ owner # None => i > position \/ i = working[owner]

NoOrderIsLost == \A o \in Orders : row[o] \in {"unpublished", "published"} =>
                    o \in handled \/ OnItsWay(o)

(* Whichever tick, replica or partition owner dies, and whenever: no       *)
(* accepted order drops out of sight of a group that has an offset.        *)
THEOREM NoAcceptedOrderIsLost == Spec => [](GroupHasOffset => NoOrderIsLost)
<1>1. OutboxInv => (GroupHasOffset => NoOrderIsLost)
  <2> SUFFICES ASSUME OutboxInv, GroupHasOffset, NEW o \in Orders,
                      row[o] = "published", o \notin handled
               PROVE  OnItsWay(o)
    BY DEF NoOrderIsLost, OnItsWay
  <2> USE DEF OutboxInv, TypeOK
  <2>1. PICK i \in 1..Len(topic) : topic[i] = o
    BY DEF PublishedReachedTopic, InTopic
  <2>2. i \in Nat /\ Len(topic) \in Nat /\ i \notin 1..committed /\ committed \in Nat
    BY <2>1 DEF GroupInv
  <2>3. owner # None => i > position \/ i = working[owner]
    BY <2>1, <2>2 DEF GroupInv
  <2> QED
    BY <2>1, <2>2, <2>3 DEF OnItsWay
<1> QED
  BY <1>1, OutboxInvariant, PTL

-----------------------------------------------------------------------------
(* Outbox, relay and consumer group hand accepted orders to the finalizer, *)
(* any number of times, and never anything else.                           *)
THEOREM OutboxRefinesAtLeastOnce == Spec => ImplementsAtLeastOnce
<1> DEFINE placed == {o \in Orders : row[o] # "none"}
<1>1. Init => Delivery!Init
  BY DEF Init, Delivery!Init
<1>2. ASSUME OutboxInv, [Next]_vars
      PROVE  [Delivery!Next]_<<placed, handled>>
  <2> USE <1>2 DEF OutboxInv, TypeOK
  <2>1. ASSUME NEW o \in Orders, PlaceOrder(o)
        PROVE  Delivery!Accept(o)
    <3>1. \A p \in Orders : row'[p] # "none" <=> row[p] # "none" \/ p = o
      BY <2>1 DEF PlaceOrder
    <3>2. placed' = placed \cup {o} /\ o \notin placed
      BY <2>1, <3>1 DEF PlaceOrder
    <3>3. handled' = handled
      BY <2>1 DEF PlaceOrder, groupVars
    <3> QED
      BY <3>2, <3>3 DEF Delivery!Accept
  <2>2. ASSUME NEW t \in Ticks, MarkPublished(t)
        PROVE  UNCHANGED <<placed, handled>>
    <3>1. \A p \in Orders : row'[p] # "none" <=> row[p] # "none"
      BY <2>2 DEF MarkPublished, TicksInv
    <3>2. handled' = handled
      BY <2>2 DEF MarkPublished, groupVars
    <3> QED
      BY <3>1, <3>2
  <2>3. ASSUME NEW r \in Replicas, Handle(r)
        PROVE  \E o \in Orders : Delivery!Handle(o)
    <3> DEFINE o == topic[working[r]]
    <3>1. working[r] \in 1..Len(topic)
      BY <2>3, MessagesAreOrders DEF Handle, Idle, GroupInv
    <3>2. o \in Orders /\ row[o] # "none"
      BY <3>1, MessagesAreOrders DEF TopicInv
    <3>3. handled' = handled \cup {o} /\ UNCHANGED row
      BY <2>3 DEF Handle
    <3> QED
      BY <3>2, <3>3 DEF Delivery!Handle
  <2>4. ASSUME UNCHANGED <<row, handled>>
        PROVE  UNCHANGED <<placed, handled>>
    BY <2>4
  <2> QED
    BY <1>2, <2>1, <2>2, <2>3, <2>4
       DEF Next, Relay, Consume, vars, groupVars, Claim, Publish, PublishUnacknowledged,
           JoinGroup, Fetch, Crash, LosePartition, Delivery!Next
<1> QED
  BY <1>1, <1>2, OutboxInvariant, PTL DEF Spec, ImplementsAtLeastOnce, Delivery!Spec

-----------------------------------------------------------------------------
(* Realtime: the replies that a Redis connection owes. *)

Exact(q, A) ==
    /\ Range(q) = A
    /\ \A i, j \in DOMAIN q : q[i] = q[j] => i = j

(* A command that is not waited for yet is answered last.                  *)
LEMMA SendKeepsExact ==
  ASSUME NEW S, NEW q \in Seq(S), NEW A, Exact(q, A), NEW e \in S, e \notin A
  PROVE  Append(q, e) \in Seq(S) /\ Exact(Append(q, e), A \cup {e})
<1> DEFINE r == Append(q, e)
<1>1. /\ r \in Seq(S)
      /\ Len(r) = Len(q) + 1 /\ r[Len(q) + 1] = e
      /\ \A i \in 1..Len(q) : r[i] = q[i]
      /\ Len(q) \in Nat
  OBVIOUS
<1>2. DOMAIN q = 1..Len(q) /\ DOMAIN r = 1..Len(q) + 1
  BY <1>1
<1>3. Range(q) = A /\ \A i, j \in 1..Len(q) : q[i] = q[j] => i = j
  BY <1>2 DEF Exact
<1>4. \A i \in 1..Len(q) : q[i] # e
  BY <1>2, <1>3 DEF Range
<1> HIDE DEF r
<1>5. Range(r) = A \cup {e}
  <2>1. \A x \in Range(r) : x \in A \cup {e}
    BY <1>1, <1>2, <1>3 DEF Range
  <2>2. \A x \in A : x \in Range(r)
    BY <1>1, <1>2, <1>3 DEF Range
  <2>3. e \in Range(r)
    BY <1>1, <1>2 DEF Range
  <2> QED
    BY <2>1, <2>2, <2>3
<1>6. \A i, j \in DOMAIN r : r[i] = r[j] => i = j
  BY <1>1, <1>2, <1>3, <1>4
<1> QED
  BY <1>1, <1>5, <1>6 DEF Exact, r

(* The first of them is answered.                                          *)
LEMMA ReplyKeepsExact ==
  ASSUME NEW S, NEW q \in Seq(S), NEW A, Exact(q, A), q # <<>>
  PROVE  /\ Tail(q) \in Seq(S) /\ Head(q) \in A
         /\ Exact(Tail(q), A \ {Head(q)})
<1> DEFINE r == Tail(q)
<1>1. /\ r \in Seq(S) /\ Len(q) \in Nat \ {0}
      /\ Len(r) = Len(q) - 1 /\ Head(q) = q[1]
      /\ \A i \in 1..Len(r) : r[i] = q[i + 1]
  OBVIOUS
<1>2. DOMAIN q = 1..Len(q) /\ DOMAIN r = 1..Len(q) - 1
  BY <1>1
<1>3. Range(q) = A /\ \A i, j \in 1..Len(q) : q[i] = q[j] => i = j
  BY <1>2 DEF Exact
<1>4. Head(q) \in A
  BY <1>1, <1>2, <1>3 DEF Range
<1> HIDE DEF r
<1>5. Range(r) = A \ {Head(q)}
  <2>1. ASSUME NEW x \in Range(r)
        PROVE  x \in A \ {Head(q)}
    <3>1. PICK i \in 1..Len(q) - 1 : x = r[i]
      BY <1>2 DEF Range
    <3>2. x = q[i + 1] /\ i + 1 \in 1..Len(q) /\ i + 1 # 1
      BY <1>1, <3>1
    <3>3. x \in A
      BY <1>2, <1>3, <3>2 DEF Range
    <3>4. 1 \in 1..Len(q) /\ Head(q) = q[1]
      BY <1>1
    <3>5. x # Head(q)
      BY <1>3, <3>2, <3>4
    <3> QED
      BY <3>3, <3>5
  <2>2. ASSUME NEW x \in A, x # Head(q)
        PROVE  x \in Range(r)
    <3>1. PICK i \in 1..Len(q) : x = q[i]
      BY <1>2, <1>3 DEF Range
    <3>2. i # 1
      BY <1>1, <2>2, <3>1
    <3>3. i - 1 \in 1..Len(q) - 1 /\ x = r[i - 1]
      BY <1>1, <3>1, <3>2
    <3> QED
      BY <1>2, <3>3 DEF Range
  <2> QED
    BY <2>1, <2>2
<1>6. \A i, j \in DOMAIN r : r[i] = r[j] => i = j
  <2> SUFFICES ASSUME NEW i \in 1..Len(q) - 1, NEW j \in 1..Len(q) - 1, r[i] = r[j]
               PROVE  i = j
    BY <1>2
  <2>1. q[i + 1] = q[j + 1] /\ i + 1 \in 1..Len(q) /\ j + 1 \in 1..Len(q)
    BY <1>1
  <2> QED
    BY <1>3, <2>1
<1> QED
  BY <1>1, <1>4, <1>5, <1>6 DEF Exact, r

Commands == {"connect", "close"} \X Sockets

(* Each connection owes what is awaited of it, once.                       *)
RepliesFit == \A k \in {"command", "subscriber"} : Exact(replies[k], Awaited(k))

(* The awaited replies, in the form that SendKeepsExact and its like       *)
(* speak of.                                                               *)
LEMMA RepliesAreExact == RepliesAreAwaited <=> RepliesFit
BY DEF RepliesAreAwaited, RepliesFit, Exact

(* Every step keeps the replies fitting: a handler that issues a command   *)
(* begins to wait for it, and the reply that arrives lets its handler go   *)
(* on.                                                                     *)
LEMMA RepliesNext ==
  ASSUME RealtimeTypeOK, RepliesFit, [RealtimeNext]_realtimeVars
  PROVE  RepliesFit' /\ replies' \in [{"command", "subscriber"} -> Seq(Commands)]
<1> DEFINE Goal == RepliesFit' /\ replies' \in [{"command", "subscriber"} -> Seq(Commands)]
           Connect(s) == <<"connect", s>>
           DoClose(s) == <<"close", s>>
           cmd == replies["command"]
           sub == replies["subscriber"]
<1>0. /\ cmd \in Seq(Commands) /\ sub \in Seq(Commands)
      /\ Exact(cmd, Awaited("command")) /\ Exact(sub, Awaited("subscriber"))
  BY DEF RealtimeTypeOK, RepliesFit, Commands
<1>t. /\ conn \in [Sockets -> {"new", "refused", "subscribing", "marking", "online"}]
      /\ disc \in [Sockets -> {"open", "getting", "deleting", "unsubscribing", "closed"}]
      /\ replies \in [{"command", "subscriber"} -> Seq(Commands)]
  BY DEF RealtimeTypeOK, Commands
<1>g. ASSUME NEW c, NEW d, replies' = [replies EXCEPT !["command"] = c, !["subscriber"] = d],
             c \in Seq(Commands), d \in Seq(Commands),
             Exact(c, Awaited("command")'), Exact(d, Awaited("subscriber")')
      PROVE  Goal
  <2>1. replies'["command"] = c /\ replies'["subscriber"] = d
    BY <1>g, <1>t
  <2>2. replies' \in [{"command", "subscriber"} -> Seq(Commands)]
    BY <1>g, <1>t
  <2> QED
    BY <1>g, <2>1, <2>2 DEF RepliesFit
<1>1. ASSUME NEW s \in Sockets, Accept(s)
      PROVE  Goal
  <2>1. CASE unsub = NoSocket
    <3>1. /\ conn[s] = "new" /\ conn' = [conn EXCEPT ![s] = "subscribing"] /\ disc' = disc
          /\ replies' = [replies EXCEPT !["command"] = cmd, !["subscriber"] = Append(sub, Connect(s))]
      BY <1>1, <2>1, <1>t DEF Accept
    <3>2. /\ Awaited("command")' = Awaited("command")
          /\ Awaited("subscriber")' = Awaited("subscriber") \cup {Connect(s)}
          /\ Connect(s) \notin Awaited("subscriber") /\ Connect(s) \in Commands
      BY <3>1, <1>t DEF Awaited, Commands
    <3>3. Append(sub, Connect(s)) \in Seq(Commands) /\ Exact(Append(sub, Connect(s)), Awaited("subscriber")')
      BY <1>0, <3>2, SendKeepsExact
    <3> QED
      BY <1>0, <1>g, <3>1, <3>2, <3>3
  <2>2. CASE unsub # NoSocket
    <3>1. /\ conn[s] = "new" /\ conn' = [conn EXCEPT ![s] = "marking"] /\ disc' = disc
          /\ replies' = [replies EXCEPT !["command"] = Append(cmd, Connect(s)), !["subscriber"] = sub]
      BY <1>1, <2>2, <1>t DEF Accept
    <3>2. /\ Awaited("subscriber")' = Awaited("subscriber")
          /\ Awaited("command")' = Awaited("command") \cup {Connect(s)}
          /\ Connect(s) \notin Awaited("command") /\ Connect(s) \in Commands
      BY <3>1, <1>t DEF Awaited, Commands
    <3>3. Append(cmd, Connect(s)) \in Seq(Commands) /\ Exact(Append(cmd, Connect(s)), Awaited("command")')
      BY <1>0, <3>2, SendKeepsExact
    <3> QED
      BY <1>0, <1>g, <3>1, <3>2, <3>3
  <2> QED
    BY <2>1, <2>2
<1>2. ASSUME NEW s \in Sockets, Subscribed(s)
      PROVE  Goal
  <2>1. /\ sub # <<>> /\ Head(sub) = Connect(s)
        /\ conn' = [conn EXCEPT ![s] = "marking"] /\ disc' = disc
        /\ replies' = [replies EXCEPT !["command"] = Append(cmd, Connect(s)), !["subscriber"] = Tail(sub)]
    BY <1>2, <1>t DEF Subscribed, Due
  <2>2. Connect(s) \in Awaited("subscriber")
    BY <1>0, <2>1, ReplyKeepsExact
  <2>3. conn[s] = "subscribing"
    BY <2>2 DEF Awaited
  <2>4. /\ Awaited("subscriber")' = Awaited("subscriber") \ {Connect(s)}
        /\ Awaited("command")' = Awaited("command") \cup {Connect(s)}
        /\ Connect(s) \notin Awaited("command") /\ Connect(s) \in Commands
    BY <2>1, <2>3, <1>t DEF Awaited, Commands
  <2>5. Append(cmd, Connect(s)) \in Seq(Commands) /\ Exact(Append(cmd, Connect(s)), Awaited("command")')
    BY <1>0, <2>4, SendKeepsExact
  <2>6. Tail(sub) \in Seq(Commands) /\ Exact(Tail(sub), Awaited("subscriber")')
    BY <1>0, <2>1, <2>4, ReplyKeepsExact
  <2> QED
    BY <1>g, <2>1, <2>5, <2>6
<1>3. ASSUME NEW s \in Sockets, MarkedOnline(s)
      PROVE  Goal
  <2>1. /\ cmd # <<>> /\ Head(cmd) = Connect(s)
        /\ conn' = [conn EXCEPT ![s] = "online"] /\ disc' = disc
        /\ replies' = [replies EXCEPT !["command"] = Tail(cmd), !["subscriber"] = sub]
    BY <1>3, <1>t DEF MarkedOnline, Due
  <2>2. Connect(s) \in Awaited("command")
    BY <1>0, <2>1, ReplyKeepsExact
  <2>3. conn[s] = "marking"
    BY <2>2 DEF Awaited
  <2>4. /\ Awaited("subscriber")' = Awaited("subscriber")
        /\ Awaited("command")' = Awaited("command") \ {Connect(s)}
    BY <2>1, <2>3, <1>t DEF Awaited
  <2>5. Tail(cmd) \in Seq(Commands) /\ Exact(Tail(cmd), Awaited("command")')
    BY <1>0, <2>1, <2>4, ReplyKeepsExact
  <2> QED
    BY <1>0, <1>g, <2>1, <2>4, <2>5
<1>4. ASSUME NEW s \in Sockets, Close(s)
      PROVE  Goal
  <2>1. /\ disc[s] = "open" /\ disc' = [disc EXCEPT ![s] = "getting"] /\ conn' = conn
        /\ replies' = [replies EXCEPT !["command"] = Append(cmd, DoClose(s)), !["subscriber"] = sub]
    BY <1>4, <1>t DEF Close
  <2>2. /\ Awaited("subscriber")' = Awaited("subscriber")
        /\ Awaited("command")' = Awaited("command") \cup {DoClose(s)}
        /\ DoClose(s) \notin Awaited("command") /\ DoClose(s) \in Commands
    BY <2>1, <1>t DEF Awaited, Commands
  <2>3. Append(cmd, DoClose(s)) \in Seq(Commands) /\ Exact(Append(cmd, DoClose(s)), Awaited("command")')
    BY <1>0, <2>2, SendKeepsExact
  <2> QED
    BY <1>0, <1>g, <2>1, <2>2, <2>3
<1>5. ASSUME NEW s \in Sockets, GotOwnKey(s)
      PROVE  Goal
  <2>1. /\ cmd # <<>> /\ Head(cmd) = DoClose(s)
        /\ disc[s] = "getting" /\ disc' = [disc EXCEPT ![s] = "deleting"] /\ conn' = conn
        /\ replies' = [replies EXCEPT !["command"] = Append(Tail(cmd), DoClose(s)), !["subscriber"] = sub]
    BY <1>5, <1>t DEF GotOwnKey, Due
  <2>2. /\ Tail(cmd) \in Seq(Commands)
        /\ Exact(Tail(cmd), Awaited("command") \ {DoClose(s)})
    BY <1>0, <2>1, ReplyKeepsExact
  <2>3. /\ Awaited("subscriber")' = Awaited("subscriber")
        /\ Awaited("command")' = (Awaited("command") \ {DoClose(s)}) \cup {DoClose(s)}
        /\ DoClose(s) \in Commands
    BY <2>1, <1>t DEF Awaited, Commands
  <2>4. /\ Append(Tail(cmd), DoClose(s)) \in Seq(Commands)
        /\ Exact(Append(Tail(cmd), DoClose(s)), Awaited("command")')
    <3> DEFINE q == Tail(cmd)
               A == Awaited("command") \ {DoClose(s)}
    <3>1. q \in Seq(Commands) /\ Exact(q, A) /\ DoClose(s) \notin A /\ DoClose(s) \in Commands
      BY <2>2, <2>3
    <3>2. Awaited("command")' = A \cup {DoClose(s)}
      BY <2>3
    <3> HIDE DEF q, A
    <3>3. Append(q, DoClose(s)) \in Seq(Commands) /\ Exact(Append(q, DoClose(s)), A \cup {DoClose(s)})
      BY <3>1, SendKeepsExact
    <3> QED
      BY <3>2, <3>3 DEF q
  <2> QED
    BY <1>0, <1>g, <2>1, <2>3, <2>4
<1>6. ASSUME NEW s \in Sockets, Leave(s) \/ LeaveLast(s)
      PROVE  /\ cmd # <<>> /\ Head(cmd) = DoClose(s) /\ conn' = conn
             /\ disc[s] \in {"getting", "deleting"}
             /\ Tail(cmd) \in Seq(Commands)
             /\ Exact(Tail(cmd), Awaited("command") \ {DoClose(s)})
  <2>1. cmd # <<>> /\ Head(cmd) = DoClose(s) /\ conn' = conn
    BY <1>6 DEF Leave, LeaveLast, MarkedOffline, Due
  <2>2. DoClose(s) \in Awaited("command")
    BY <1>0, <2>1, ReplyKeepsExact
  <2>3. disc[s] \in {"getting", "deleting"}
    BY <2>2 DEF Awaited
  <2> QED
    BY <1>0, <2>1, <2>3, ReplyKeepsExact
<1>7. ASSUME NEW s \in Sockets, Leave(s)
      PROVE  Goal
  <2>1. /\ disc' = [disc EXCEPT ![s] = "closed"] /\ conn' = conn
        /\ replies' = [replies EXCEPT !["command"] = Tail(cmd), !["subscriber"] = sub]
    BY <1>7, <1>t DEF Leave
  <2>0. disc[s] \in {"getting", "deleting"}
    BY <1>6, <1>7
  <2>2. /\ Awaited("subscriber")' = Awaited("subscriber")
        /\ Awaited("command")' = Awaited("command") \ {DoClose(s)}
    BY <2>0, <2>1, <1>t DEF Awaited
  <2> QED
    BY <1>0, <1>g, <1>6, <1>7, <2>1, <2>2
<1>8. ASSUME NEW s \in Sockets, LeaveLast(s)
      PROVE  Goal
  <2>1. /\ disc' = [disc EXCEPT ![s] = "unsubscribing"] /\ conn' = conn
        /\ replies' = [replies EXCEPT !["command"] = Tail(cmd), !["subscriber"] = Append(sub, DoClose(s))]
    BY <1>8, <1>t DEF LeaveLast
  <2>2. /\ Awaited("subscriber")' = Awaited("subscriber") \cup {DoClose(s)}
        /\ Awaited("command")' = Awaited("command") \ {DoClose(s)}
        /\ DoClose(s) \notin Awaited("subscriber") /\ DoClose(s) \in Commands
    <3>1. disc[s] \in {"getting", "deleting"}
      BY <1>6, <1>8
    <3>2. DoClose(s) \notin Awaited("subscriber") /\ DoClose(s) \in Commands
      BY <3>1 DEF Awaited, Commands
    <3>3. Awaited("subscriber")' = Awaited("subscriber") \cup {DoClose(s)}
      BY <3>1, <2>1, <1>t DEF Awaited
    <3>4. Awaited("command")' = Awaited("command") \ {DoClose(s)}
      BY <3>1, <2>1, <1>t DEF Awaited
    <3> QED
      BY <3>2, <3>3, <3>4
  <2>3. Append(sub, DoClose(s)) \in Seq(Commands) /\ Exact(Append(sub, DoClose(s)), Awaited("subscriber")')
    BY <1>0, <2>2, SendKeepsExact
  <2> QED
    BY <1>g, <1>6, <1>8, <2>1, <2>2, <2>3
<1>9. ASSUME NEW s \in Sockets, Unsubscribed(s)
      PROVE  Goal
  <2>1. /\ sub # <<>> /\ Head(sub) = DoClose(s)
        /\ disc' = [disc EXCEPT ![s] = "closed"] /\ conn' = conn
        /\ replies' = [replies EXCEPT !["command"] = cmd, !["subscriber"] = Tail(sub)]
    BY <1>9, <1>t DEF Unsubscribed, Due
  <2>2. DoClose(s) \in Awaited("subscriber")
    BY <1>0, <2>1, ReplyKeepsExact
  <2>3. disc[s] = "unsubscribing"
    BY <2>2 DEF Awaited
  <2>4. /\ Awaited("subscriber")' = Awaited("subscriber") \ {DoClose(s)}
        /\ Awaited("command")' = Awaited("command")
    BY <2>1, <2>3, <1>t DEF Awaited
  <2>5. Tail(sub) \in Seq(Commands) /\ Exact(Tail(sub), Awaited("subscriber")')
    BY <1>0, <2>1, <2>4, ReplyKeepsExact
  <2> QED
    BY <1>0, <1>g, <2>1, <2>4, <2>5
<1>10. ASSUME NEW s \in Sockets, Refuse(s)
       PROVE  Goal
  <2>1. /\ conn[s] = "new" /\ conn' = [conn EXCEPT ![s] = "refused"]
        /\ UNCHANGED <<disc, replies>>
    BY <1>10 DEF Refuse
  <2>2. \A k \in {"command", "subscriber"} : Awaited(k)' = Awaited(k)
    BY <2>1, <1>t DEF Awaited
  <2> QED
    BY <1>t, <2>1, <2>2 DEF RepliesFit
<1>11. ASSUME UNCHANGED <<conn, disc, replies>>
       PROVE  Goal
  BY <1>11, <1>t DEF RepliesFit, Awaited
<1>12. PresenceExpires \/ UNCHANGED realtimeVars => UNCHANGED <<conn, disc, replies>>
  BY DEF PresenceExpires, realtimeVars
<1> QED
  BY <1>1, <1>2, <1>3, <1>4, <1>5, <1>7, <1>8, <1>9, <1>10, <1>11, <1>12
     DEF RealtimeNext, Replied

(* A handler gets the reply that it waits for.                             *)
LEMMA RepliesAreTheirs ==
  ASSUME RealtimeTypeOK, RepliesFit, NEW s \in Sockets
  PROVE  /\ Due("subscriber", "connect", s) => conn[s] = "subscribing"
         /\ Due("command", "connect", s) => conn[s] = "marking"
         /\ Due("command", "close", s) => disc[s] \in {"getting", "deleting"}
         /\ Due("subscriber", "close", s) => disc[s] = "unsubscribing"
<1>1. ASSUME NEW k \in {"command", "subscriber"}, NEW h \in {"connect", "close"}, Due(k, h, s)
      PROVE  <<h, s>> \in Awaited(k)
  <2>1. replies[k] \in Seq(Commands) /\ Exact(replies[k], Awaited(k))
    BY DEF RealtimeTypeOK, RepliesFit, Commands
  <2> QED
    BY <1>1, <2>1, ReplyKeepsExact DEF Due
<1> QED
  BY <1>1 DEF Awaited

(* Every variable of Realtime keeps its type. *)
LEMMA RealtimeTypeNext ==
  ASSUME RealtimeTypeOK, RepliesFit, [RealtimeNext]_realtimeVars
  PROVE  RealtimeTypeOK'
<1> DEFINE Rest == /\ conn' \in [Sockets -> {"new", "refused", "subscribing", "marking", "online"}]
                   /\ disc' \in [Sockets -> {"open", "getting", "deleting", "unsubscribing", "closed"}]
                   /\ sockets' \in SUBSET Sockets
                   /\ ipCount' \in [Ips -> Nat]
                   /\ unsub' \in Sockets \cup {NoSocket}
                   /\ listeners' \in SUBSET Sockets
                   /\ channel' \in BOOLEAN
                   /\ presence' \in Sockets \cup {NoSocket}
                   /\ heartbeats' \in SUBSET Sockets
                   /\ seen' \in [Sockets -> Sockets \cup {NoSocket}]
                   /\ overlaps' \in SUBSET {"twoSubscribe", "joinedUnsubscribe", "closedEarly"}
<1>0. /\ conn \in [Sockets -> {"new", "refused", "subscribing", "marking", "online"}]
      /\ disc \in [Sockets -> {"open", "getting", "deleting", "unsubscribing", "closed"}]
      /\ sockets \in SUBSET Sockets
      /\ ipCount \in [Ips -> Nat]
      /\ unsub \in Sockets \cup {NoSocket}
      /\ listeners \in SUBSET Sockets
      /\ channel \in BOOLEAN
      /\ presence \in Sockets \cup {NoSocket}
      /\ heartbeats \in SUBSET Sockets
      /\ seen \in [Sockets -> Sockets \cup {NoSocket}]
      /\ overlaps \in SUBSET {"twoSubscribe", "joinedUnsubscribe", "closedEarly"}
  BY DEF RealtimeTypeOK
<1>i. ipCount \in [Ips -> Nat] /\ \A s \in Sockets : IpOf[s] \in Ips
  BY <1>0, RealtimeAssumption DEF RealtimeAssumption
<1> USE DEF memory, redis
<1>1. ASSUME NEW s \in Sockets, Refuse(s) PROVE Rest
  BY <1>0, <1>1 DEF Refuse
<1>2. ASSUME NEW s \in Sockets, Accept(s) PROVE Rest
  <2>1. ipCount' = [ipCount EXCEPT ![IpOf[s]] = @ + 1]
    BY <1>2 DEF Accept
  <2>2. ipCount' \in [Ips -> Nat]
    BY <2>1, <1>i
  <2>3. /\ conn' \in {[conn EXCEPT ![s] = "subscribing"], [conn EXCEPT ![s] = "marking"]}
        /\ listeners' \in {listeners, listeners \cup {s}} /\ channel' \in {channel, TRUE}
        /\ presence' \in {presence, s} /\ sockets' = sockets \cup {s}
        /\ UNCHANGED <<disc, unsub, heartbeats, seen>>
    BY <1>2 DEF Accept
  <2>4. overlaps' \in SUBSET {"twoSubscribe", "joinedUnsubscribe", "closedEarly"}
    BY <1>0, <1>2 DEF Accept
  <2> QED
    BY <1>0, <2>2, <2>3, <2>4
<1>3. ASSUME NEW s \in Sockets, Subscribed(s) \/ MarkedOnline(s) PROVE Rest
  <2>1. CASE Subscribed(s)
    BY <1>0, <2>1 DEF Subscribed
  <2>2. CASE MarkedOnline(s)
    BY <1>0, <2>2 DEF MarkedOnline
  <2> QED
    BY <1>3, <2>1, <2>2
<1>4. ASSUME NEW s \in Sockets, Close(s) \/ GotOwnKey(s) PROVE Rest
  <2>1. CASE Close(s)
    BY <1>0, <2>1 DEF Close
  <2>2. CASE GotOwnKey(s)
    BY <1>0, <2>2 DEF GotOwnKey
  <2> QED
    BY <1>4, <2>1, <2>2
<1>5. ASSUME NEW s \in Sockets, Leave(s) \/ LeaveLast(s) \/ Unsubscribed(s) PROVE Rest
  <2>1. ASSUME LeaveIp(s) PROVE ipCount' \in [Ips -> Nat]
    BY <2>1, <1>i DEF LeaveIp
  <2>2. CASE Leave(s)
    BY <1>0, <2>1, <2>2 DEF Leave
  <2>3. CASE LeaveLast(s)
    BY <1>0, <2>3 DEF LeaveLast
  <2>4. CASE Unsubscribed(s)
    BY <1>0, <2>1, <2>4 DEF Unsubscribed
  <2> QED
    BY <1>5, <2>2, <2>3, <2>4
<1>6. ASSUME PresenceExpires \/ UNCHANGED realtimeVars PROVE Rest
  <2>1. CASE PresenceExpires
    BY <1>0, <2>1 DEF PresenceExpires
  <2>2. CASE UNCHANGED realtimeVars
    BY <1>0, <2>2 DEF realtimeVars
  <2> QED
    BY <1>6, <2>1, <2>2
<1> HIDE DEF Rest
<1>7. Rest
  BY <1>1, <1>2, <1>3, <1>4, <1>5, <1>6 DEF RealtimeNext, Replied
<1> QED
  BY <1>7, RepliesNext DEF Rest, Commands, RealtimeTypeOK

-----------------------------------------------------------------------------
(* The limits. *)

At(i) == {s \in Admitted : IpOf[s] = i}

(* Counts of sockets, per address, as the code keeps them.                 *)
CountsAreExact ==
    \A i \in Ips : /\ ipCount[i] = Cardinality(At(i))
                   /\ ipCount[i] <= MaxPerIp

(* The user's limit follows from the size of the exact set, so that of     *)
(* the limits only the counts per address remain.                          *)
LEMMA LimitsAreCounts ==
  ASSUME SetIsExact, RealtimeAssumption
  PROVE  LimitsHold <=> CountsAreExact
<1> DEFINE open == {s \in Admitted : disc[s] = "open"}
<1>1. open \in SUBSET sockets
  BY DEF SetIsExact
<1>2. sockets \subseteq Admitted /\ IsFiniteSet(sockets)
  BY FS_Subset DEF SetIsExact
<1>3. Cardinality(open) <= Cardinality(sockets) /\ Cardinality(open) \in Nat
  BY <1>1, <1>2, FS_Subset, FS_CardinalityType
<1>4. Cardinality(sockets) <= MaxPerUser /\ Cardinality(sockets) \in Nat /\ MaxPerUser \in Nat
  BY <1>2, FS_CardinalityType DEF SetIsExact, RealtimeAssumption
<1>5. Cardinality(open) <= MaxPerUser
  BY <1>3, <1>4
<1> QED
  BY <1>5 DEF LimitsHold, CountsAreExact, At

(* A socket is counted when it is let in and when it has left.             *)
LEMMA CountsNext ==
  ASSUME RealtimeTypeOK, RepliesFit, SetIsExact, CountsAreExact, [RealtimeNext]_realtimeVars
  PROVE  SetIsExact' /\ CountsAreExact'
<1> DEFINE Goal == SetIsExact' /\ CountsAreExact'
<1>0. /\ conn \in [Sockets -> {"new", "refused", "subscribing", "marking", "online"}]
      /\ disc \in [Sockets -> {"open", "getting", "deleting", "unsubscribing", "closed"}]
      /\ ipCount \in [Ips -> Nat] /\ IpOf \in [Sockets -> Ips]
      /\ MaxPerUser \in Nat /\ MaxPerIp \in Nat
  BY RealtimeAssumption DEF RealtimeTypeOK, RealtimeAssumption
<1>f. /\ IsFiniteSet(Admitted) /\ IsFiniteSet(sockets)
      /\ Cardinality(sockets) \in Nat /\ Cardinality(sockets) <= MaxPerUser
      /\ \A i \in Ips : IsFiniteSet(At(i)) /\ Cardinality(At(i)) \in Nat
  <2>1. sockets \subseteq Admitted /\ \A i \in Ips : At(i) \subseteq Admitted
    BY DEF SetIsExact, At
  <2> QED
    BY <2>1, FS_Subset, FS_CardinalityType DEF SetIsExact
<1>1. ASSUME Admitted' = Admitted, UNCHANGED <<sockets, ipCount>>,
             \A s \in Sockets : disc'[s] = "unsubscribing" <=> disc[s] = "unsubscribing",
             \A s \in Sockets : conn'[s] \in {"new", "refused"} => disc'[s] = "open"
      PROVE  Goal
  <2>1. \A i \in Ips : At(i)' = At(i)
    BY <1>1 DEF At
  <2>2. Admitted \subseteq Sockets
    BY DEF Admitted
  <2> QED
    BY <1>1, <2>1, <2>2 DEF SetIsExact, CountsAreExact
<1>2. ASSUME NEW s \in Sockets, Accept(s)
      PROVE  Goal
  <2>1. /\ conn[s] = "new" /\ disc' = disc /\ disc[s] = "open"
        /\ conn' \in {[conn EXCEPT ![s] = "subscribing"], [conn EXCEPT ![s] = "marking"]}
        /\ sockets' = sockets \cup {s}
        /\ ipCount' = [ipCount EXCEPT ![IpOf[s]] = @ + 1]
        /\ ipCount[IpOf[s]] < MaxPerIp /\ Cardinality(sockets) < MaxPerUser
    <3>1. /\ conn[s] = "new" /\ disc' = disc /\ sockets' = sockets \cup {s}
          /\ conn' \in {[conn EXCEPT ![s] = "subscribing"], [conn EXCEPT ![s] = "marking"]}
          /\ ipCount' = [ipCount EXCEPT ![IpOf[s]] = @ + 1]
          /\ ~AtLimit(s)
      BY <1>2 DEF Accept
    <3>2. ipCount[IpOf[s]] \in Nat
      BY <1>0
    <3>3. ipCount[IpOf[s]] < MaxPerIp /\ Cardinality(sockets) < MaxPerUser
      BY <3>1, <3>2, <1>0, <1>f DEF AtLimit
    <3> QED
      BY <3>1, <3>3 DEF SetIsExact
  <2>2. Admitted' = Admitted \cup {s} /\ s \notin Admitted /\ s \notin sockets
    BY <2>1, <1>0 DEF Admitted, SetIsExact
  <2>3. IsFiniteSet(Admitted') /\ Cardinality(sockets') <= MaxPerUser
    <3>1. IsFiniteSet(Admitted')
      BY <2>2, <1>f, FS_AddElement
    <3>2. Cardinality(sockets') = Cardinality(sockets) + 1
      BY <2>1, <2>2, <1>f, FS_AddElement
    <3> QED
      BY <2>1, <3>1, <3>2, <1>0, <1>f
  <2>4. SetIsExact'
    BY <2>1, <2>2, <2>3, <1>0 DEF SetIsExact
  <2>5. ASSUME NEW i \in Ips
        PROVE  ipCount'[i] = Cardinality(At(i)') /\ ipCount'[i] <= MaxPerIp
    <3>1. CASE i = IpOf[s]
      <4>1. At(i)' = At(i) \cup {s} /\ s \notin At(i)
        BY <3>1, <2>2 DEF At
      <4>2. Cardinality(At(i)') = Cardinality(At(i)) + 1
        BY <4>1, <1>f, FS_AddElement
      <4>3. ipCount'[i] = ipCount[i] + 1 /\ ipCount[i] < MaxPerIp /\ ipCount[i] \in Nat
        BY <3>1, <2>1, <1>0
      <4> QED
        BY <4>2, <4>3, <1>0 DEF CountsAreExact
    <3>2. CASE i # IpOf[s]
      <4>1. At(i)' = At(i)
        BY <3>2, <2>2 DEF At
      <4> QED
        BY <3>2, <4>1, <2>1, <1>0 DEF CountsAreExact
    <3> QED
      BY <3>1, <3>2
  <2> QED
    BY <2>4, <2>5 DEF CountsAreExact
<1>3. ASSUME NEW s \in Admitted, LeaveIp(s), Admitted' = Admitted \ {s}
      PROVE  CountsAreExact'
  <2>1. s \in Sockets
    BY DEF Admitted
  <2>2. ASSUME NEW i \in Ips
        PROVE  ipCount'[i] = Cardinality(At(i)') /\ ipCount'[i] <= MaxPerIp
    <3>1. CASE i = IpOf[s]
      <4>1. At(i)' = At(i) \ {s} /\ s \in At(i)
        BY <3>1, <1>3 DEF At
      <4>2. Cardinality(At(i)') = Cardinality(At(i)) - 1 /\ Cardinality(At(i)) # 0
        BY <4>1, <1>f, FS_RemoveElement, FS_EmptySet
      <4>3. ipCount'[i] = IF ipCount[i] <= 1 THEN 0 ELSE ipCount[i] - 1
        BY <3>1, <2>1, <1>3, <1>0 DEF LeaveIp
      <4> QED
        BY <4>2, <4>3, <1>0, <1>f DEF CountsAreExact
    <3>2. CASE i # IpOf[s]
      <4>1. At(i)' = At(i)
        BY <3>2, <1>3 DEF At
      <4> QED
        BY <3>2, <4>1, <2>1, <1>3, <1>0 DEF CountsAreExact, LeaveIp
    <3> QED
      BY <3>1, <3>2
  <2> QED
    BY <2>2 DEF CountsAreExact
<1>4. ASSUME NEW s \in Sockets, Leave(s)
      PROVE  Goal
  <2>1. /\ disc[s] \in {"getting", "deleting"} /\ disc' = [disc EXCEPT ![s] = "closed"]
        /\ conn' = conn /\ sockets' = sockets \ {s} /\ LeaveIp(s)
    BY <1>4, RepliesAreTheirs DEF Leave, MarkedOffline
  <2>2. Admitted' = Admitted \ {s} /\ s \in Admitted
    BY <2>1, <1>0 DEF Admitted, SetIsExact
  <2>3. CountsAreExact'
    BY <2>1, <2>2, <1>3
  <2>4. IsFiniteSet(Admitted') /\ Cardinality(sockets') <= MaxPerUser
    <3>1. IsFiniteSet(Admitted')
      BY <2>2, <1>f, FS_RemoveElement
    <3>2. Cardinality(sockets') \in {Cardinality(sockets), Cardinality(sockets) - 1}
      BY <2>1, <1>f, FS_RemoveElement
    <3> QED
      BY <3>1, <3>2, <1>0, <1>f
  <2>5. SetIsExact'
    BY <2>1, <2>2, <2>4, <1>0 DEF SetIsExact
  <2> QED
    BY <2>3, <2>5
<1>5. ASSUME NEW s \in Sockets, LeaveLast(s)
      PROVE  Goal
  <2>1. /\ disc[s] \in {"getting", "deleting"} /\ disc' = [disc EXCEPT ![s] = "unsubscribing"]
        /\ conn' = conn /\ sockets = {s} /\ sockets' = {} /\ ipCount' = ipCount
    BY <1>5, RepliesAreTheirs DEF LeaveLast, MarkedOffline
  <2>2. Admitted' = Admitted
    BY <2>1, <1>0 DEF Admitted
  <2>3. \A i \in Ips : At(i)' = At(i)
    BY <2>2 DEF At
  <2>4. SetIsExact'
    BY <2>1, <2>2, <1>0, <1>f, FS_EmptySet DEF SetIsExact
  <2> QED
    BY <2>1, <2>3, <2>4 DEF CountsAreExact
<1>6. ASSUME NEW s \in Sockets, Unsubscribed(s)
      PROVE  Goal
  <2>1. /\ disc[s] = "unsubscribing" /\ disc' = [disc EXCEPT ![s] = "closed"]
        /\ conn' = conn /\ sockets' = sockets /\ LeaveIp(s)
    BY <1>6, RepliesAreTheirs DEF Unsubscribed
  <2>2. Admitted' = Admitted \ {s} /\ s \in Admitted /\ s \notin sockets
    BY <2>1, <1>0 DEF Admitted, SetIsExact
  <2>3. CountsAreExact'
    BY <2>1, <2>2, <1>3
  <2>4. IsFiniteSet(Admitted')
    BY <2>2, <1>f, FS_RemoveElement
  <2>5. SetIsExact'
    BY <2>1, <2>2, <2>4, <1>0 DEF SetIsExact
  <2> QED
    BY <2>3, <2>5
<1>7. ASSUME NEW s \in Sockets, Subscribed(s) \/ MarkedOnline(s)
      PROVE  Goal
  <2>1. /\ conn[s] \in {"subscribing", "marking"} /\ UNCHANGED <<disc, sockets, ipCount>>
        /\ conn' \in {[conn EXCEPT ![s] = "marking"], [conn EXCEPT ![s] = "online"]}
    BY <1>7, RepliesAreTheirs DEF Subscribed, MarkedOnline
  <2>2. Admitted' = Admitted
    BY <2>1, <1>0 DEF Admitted
  <2> QED
    BY <1>1, <2>1, <2>2, <1>0 DEF SetIsExact
<1>8. ASSUME NEW s \in Sockets, Close(s) \/ GotOwnKey(s)
      PROVE  Goal
  <2>1. /\ conn[s] \notin {"new", "refused"} /\ UNCHANGED <<conn, sockets, ipCount>>
        /\ disc[s] \in {"open", "getting"}
        /\ disc' \in {[disc EXCEPT ![s] = "getting"], [disc EXCEPT ![s] = "deleting"]}
    BY <1>8 DEF Close, GotOwnKey, SetIsExact, memory
  <2>2. Admitted' = Admitted
    BY <2>1, <1>0 DEF Admitted
  <2> QED
    BY <1>1, <2>1, <2>2, <1>0 DEF SetIsExact
<1>9. ASSUME NEW s \in Sockets, Refuse(s)
      PROVE  Goal
  <2>1. /\ conn[s] = "new" /\ conn' = [conn EXCEPT ![s] = "refused"]
        /\ UNCHANGED <<disc, sockets, ipCount>>
    BY <1>9 DEF Refuse, memory
  <2>2. Admitted' = Admitted
    BY <2>1, <1>0 DEF Admitted
  <2> QED
    BY <1>1, <2>1, <2>2, <1>0 DEF SetIsExact
<1>10. CASE PresenceExpires \/ UNCHANGED realtimeVars
  <2>1. UNCHANGED <<conn, disc, sockets, ipCount>>
    BY <1>10 DEF PresenceExpires, realtimeVars, memory
  <2>2. Admitted' = Admitted
    BY <2>1 DEF Admitted
  <2> QED
    BY <1>1, <2>1, <2>2 DEF SetIsExact
<1> QED
  BY <1>2, <1>4, <1>5, <1>6, <1>7, <1>8, <1>9, <1>10 DEF RealtimeNext, Replied

-----------------------------------------------------------------------------
(* The subscription. *)

ClosesFirst(q) ==
    \A i, j \in DOMAIN q : q[i][1] = "connect" /\ q[j][1] = "close" => j < i

(* A queue whose closes come first keeps that order when its head is       *)
(* answered.                                                               *)
LEMMA TailClosesFirst ==
  ASSUME NEW q \in Seq(Commands), q # <<>>, ClosesFirst(q)
  PROVE  ClosesFirst(Tail(q))
<1>1. /\ Len(q) \in Nat \ {0} /\ DOMAIN q = 1..Len(q) /\ DOMAIN Tail(q) = 1..Len(q) - 1
      /\ \A i \in 1..Len(q) - 1 : Tail(q)[i] = q[i + 1] /\ i + 1 \in 1..Len(q)
  OBVIOUS
<1>2. ASSUME NEW i \in 1..Len(q) - 1, NEW j \in 1..Len(q) - 1,
             Tail(q)[i][1] = "connect", Tail(q)[j][1] = "close"
      PROVE  j < i
  <2>1. j + 1 < i + 1
    BY <1>1, <1>2 DEF ClosesFirst
  <2> QED
    BY <1>1, <2>1
<1> QED
  BY <1>1, <1>2 DEF ClosesFirst

(* It keeps it when a connect is appended, or a close that no connect is   *)
(* queued before.                                                          *)
LEMMA AppendClosesFirst ==
  ASSUME NEW q \in Seq(Commands), NEW e \in Commands, ClosesFirst(q),
         e[1] = "connect" \/ \A i \in DOMAIN q : q[i][1] # "connect"
  PROVE  ClosesFirst(Append(q, e))
<1> DEFINE r == Append(q, e)
<1>1. /\ Len(q) \in Nat /\ DOMAIN q = 1..Len(q) /\ DOMAIN r = 1..Len(q) + 1
      /\ r[Len(q) + 1] = e /\ \A i \in 1..Len(q) : r[i] = q[i]
  OBVIOUS
<1> HIDE DEF r
<1>2. ASSUME NEW i \in 1..Len(q) + 1, NEW j \in 1..Len(q) + 1,
             r[i][1] = "connect", r[j][1] = "close"
      PROVE  j < i
  <2>1. CASE i = Len(q) + 1
    <3>1. e[1] = "connect" /\ j # Len(q) + 1
      BY <1>1, <1>2, <2>1
    <3> QED
      BY <1>1, <2>1, <3>1
  <2>2. CASE i # Len(q) + 1 /\ j # Len(q) + 1
    BY <1>1, <1>2, <2>2 DEF ClosesFirst
  <2>3. CASE i # Len(q) + 1 /\ j = Len(q) + 1
    <3>1. e[1] # "connect" /\ i \in DOMAIN q /\ q[i][1] = "connect"
      BY <1>1, <1>2, <2>3
    <3> QED
      BY <3>1
  <2> QED
    BY <2>1, <2>2, <2>3
<1> QED
  BY <1>1, <1>2 DEF ClosesFirst, r

(* If it answers a SUBSCRIBE next, no UNSUBSCRIBE is left to be answered.  *)
LEMMA FirstConnects ==
  ASSUME NEW q \in Seq(Commands), q # <<>>, ClosesFirst(q), NEW s, Head(q) = <<"connect", s>>,
         NEW T, \A t \in T : \E i \in DOMAIN q : q[i] = <<"close", t>>
  PROVE  T = {}
<1>1. /\ Len(q) \in Nat \ {0} /\ DOMAIN q = 1..Len(q) /\ q[1] = Head(q)
  OBVIOUS
<1>2. q[1][1] = "connect" /\ 1 \in DOMAIN q
  BY <1>1
<1>3. ASSUME NEW t \in T
      PROVE  FALSE
  <2>1. PICK i \in DOMAIN q : q[i] = <<"close", t>>
    OBVIOUS
  <2>2. q[i][1] = "close"
    BY <2>1
  <2>3. i < 1
    BY <1>2, <2>2 DEF ClosesFirst
  <2> QED
    BY <1>1, <2>3
<1> QED
  BY <1>3

(* What the subscriber still has to answer tells who subscribes and who    *)
(* unsubscribes.                                                           *)
LEMMA SubscriberReplies ==
  ASSUME RealtimeTypeOK, RepliesFit
  PROVE  /\ replies["subscriber"] \in Seq(Commands)
         /\ \A s \in Unsubscribing : \E i \in DOMAIN replies["subscriber"] :
              replies["subscriber"][i] = <<"close", s>>
         /\ \A s \in Subscribing : \E i \in DOMAIN replies["subscriber"] :
              replies["subscriber"][i] = <<"connect", s>>
         /\ \A i \in DOMAIN replies["subscriber"] :
              LET e == replies["subscriber"][i]
              IN  \/ e[1] = "close" /\ e[2] \in Unsubscribing
                  \/ e[1] = "connect" /\ e[2] \in Subscribing
         /\ \A i, j \in DOMAIN replies["subscriber"] :
              replies["subscriber"][i] = replies["subscriber"][j] => i = j
<1> DEFINE sub == replies["subscriber"]
<1>1. sub \in Seq(Commands) /\ Exact(sub, Awaited("subscriber"))
  BY DEF RealtimeTypeOK, RepliesFit, Commands
<1>2. \A e : e \in Awaited("subscriber") <=> \E i \in DOMAIN sub : sub[i] = e
  BY <1>1 DEF Exact, Range
<1>3. \A i, j \in DOMAIN sub : sub[i] = sub[j] => i = j
  BY <1>1 DEF Exact
<1>4. \A s \in Unsubscribing : <<"close", s>> \in Awaited("subscriber")
  BY DEF Unsubscribing, Awaited
<1>5. \A s \in Subscribing : <<"connect", s>> \in Awaited("subscriber")
  BY DEF Subscribing, Awaited
<1>6. \A e \in Awaited("subscriber") : \/ e[1] = "close" /\ e[2] \in Unsubscribing
                                       \/ e[1] = "connect" /\ e[2] \in Subscribing
  BY DEF Subscribing, Unsubscribing, Awaited
<1> HIDE DEF sub
<1>7. /\ \A s \in Unsubscribing : \E i \in DOMAIN sub : sub[i] = <<"close", s>>
      /\ \A s \in Subscribing : \E i \in DOMAIN sub : sub[i] = <<"connect", s>>
  BY <1>2, <1>4, <1>5
<1>8. \A i \in DOMAIN sub : \/ sub[i][1] = "close" /\ sub[i][2] \in Unsubscribing
                            \/ sub[i][1] = "connect" /\ sub[i][2] \in Subscribing
  BY <1>2, <1>6
<1> QED
  BY <1>1, <1>3, <1>7, <1>8 DEF sub

(* Who is subscribing and who is unsubscribing, step by step.              *)
LEMMA SubscribersNext ==
  ASSUME RealtimeTypeOK, RepliesFit, NEW s \in Sockets
  PROVE  /\ Refuse(s) \/ Close(s) \/ MarkedOnline(s) \/ GotOwnKey(s) \/ Leave(s) =>
              /\ Subscribing' = Subscribing /\ Unsubscribing' = Unsubscribing
              /\ replies'["subscriber"] = replies["subscriber"]
              /\ UNCHANGED <<unsub, listeners, channel>>
         /\ Accept(s) => Unsubscribing' = Unsubscribing
         /\ Accept(s) /\ unsub = NoSocket => Subscribing' = Subscribing \cup {s}
         /\ Accept(s) /\ unsub # NoSocket => Subscribing' = Subscribing
         /\ Subscribed(s) => /\ Subscribing' = Subscribing \ {s} /\ s \in Subscribing
                             /\ Unsubscribing' = Unsubscribing
         /\ LeaveLast(s) => /\ Subscribing' = Subscribing
                            /\ Unsubscribing' = Unsubscribing \cup {s}
         /\ Unsubscribed(s) => /\ Subscribing' = Subscribing
                               /\ Unsubscribing' = Unsubscribing \ {s} /\ s \in Unsubscribing
<1>0. /\ conn \in [Sockets -> {"new", "refused", "subscribing", "marking", "online"}]
      /\ disc \in [Sockets -> {"open", "getting", "deleting", "unsubscribing", "closed"}]
      /\ DOMAIN replies = {"command", "subscriber"}
  BY DEF RealtimeTypeOK
<1> USE <1>0 DEF Subscribing, Unsubscribing, memory, redis
<1>1. Refuse(s) => /\ Subscribing' = Subscribing /\ Unsubscribing' = Unsubscribing
                   /\ replies'["subscriber"] = replies["subscriber"]
                   /\ UNCHANGED <<unsub, listeners, channel>>
  BY DEF Refuse
<1>2. Close(s) => /\ Subscribing' = Subscribing /\ Unsubscribing' = Unsubscribing
                  /\ replies'["subscriber"] = replies["subscriber"]
                  /\ UNCHANGED <<unsub, listeners, channel>>
  BY DEF Close
<1>3. MarkedOnline(s) => /\ Subscribing' = Subscribing /\ Unsubscribing' = Unsubscribing
                         /\ replies'["subscriber"] = replies["subscriber"]
                         /\ UNCHANGED <<unsub, listeners, channel>>
  BY RepliesAreTheirs DEF MarkedOnline
<1>4. GotOwnKey(s) => /\ Subscribing' = Subscribing /\ Unsubscribing' = Unsubscribing
                      /\ replies'["subscriber"] = replies["subscriber"]
                      /\ UNCHANGED <<unsub, listeners, channel>>
  BY DEF GotOwnKey
<1>5. Leave(s) => /\ Subscribing' = Subscribing /\ Unsubscribing' = Unsubscribing
                  /\ replies'["subscriber"] = replies["subscriber"]
                  /\ UNCHANGED <<unsub, listeners, channel>>
  BY RepliesAreTheirs DEF Leave, MarkedOffline
<1>6. Accept(s) => Unsubscribing' = Unsubscribing
  BY DEF Accept
<1>7. ASSUME Accept(s), unsub = NoSocket
      PROVE  Subscribing' = Subscribing \cup {s}
  <2>1. conn' = [conn EXCEPT ![s] = "subscribing"]
    BY <1>7 DEF Accept
  <2> QED
    BY <2>1
<1>8. Accept(s) /\ unsub # NoSocket => Subscribing' = Subscribing
  BY DEF Accept
<1>9. Subscribed(s) => /\ Subscribing' = Subscribing \ {s} /\ s \in Subscribing
                       /\ Unsubscribing' = Unsubscribing
  BY RepliesAreTheirs DEF Subscribed
<1>10. LeaveLast(s) => /\ Subscribing' = Subscribing
                       /\ Unsubscribing' = Unsubscribing \cup {s}
  BY DEF LeaveLast
<1>11. Unsubscribed(s) => /\ Subscribing' = Subscribing
                          /\ Unsubscribing' = Unsubscribing \ {s} /\ s \in Unsubscribing
  BY RepliesAreTheirs DEF Unsubscribed
<1> QED
  BY <1>1, <1>2, <1>3, <1>4, <1>5, <1>6, <1>7, <1>8, <1>9, <1>10, <1>11

(* Handlers that have met have met for good.                               *)
LEMMA MeetingsAreKept ==
  ASSUME [RealtimeNext]_realtimeVars
  PROVE  overlaps \subseteq overlaps'
<1>1. ASSUME NEW s \in Sockets, Refuse(s) \/ Accept(s) \/ Close(s) \/ Replied(s)
      PROVE  overlaps \subseteq overlaps'
  BY <1>1 DEF Refuse, Accept, Close, Replied, Subscribed, MarkedOnline, GotOwnKey, Leave,
              LeaveLast, Unsubscribed
<1>2. PresenceExpires \/ UNCHANGED realtimeVars => overlaps \subseteq overlaps'
  BY DEF PresenceExpires, realtimeVars
<1> QED
  BY <1>1, <1>2 DEF RealtimeNext

(* The steps that do not touch the subscription.                           *)
LEMMA SubscriptionUntouched ==
  ASSUME RealtimeTypeOK, RepliesFit,
         \/ PresenceExpires \/ UNCHANGED realtimeVars
         \/ \E s \in Sockets : Refuse(s) \/ Close(s) \/ MarkedOnline(s) \/ GotOwnKey(s) \/ Leave(s)
  PROVE  /\ Subscribing' = Subscribing /\ Unsubscribing' = Unsubscribing
         /\ replies'["subscriber"] = replies["subscriber"]
         /\ UNCHANGED <<unsub, listeners, channel>>
         /\ sockets' \subseteq sockets
<1>1. PresenceExpires \/ UNCHANGED realtimeVars =>
        UNCHANGED <<conn, disc, replies, sockets, unsub, listeners, channel>>
  BY DEF PresenceExpires, realtimeVars, memory
<1>2. UNCHANGED <<conn, disc>> => Subscribing' = Subscribing /\ Unsubscribing' = Unsubscribing
  BY DEF Subscribing, Unsubscribing
<1>3. ASSUME NEW s \in Sockets,
             Refuse(s) \/ Close(s) \/ MarkedOnline(s) \/ GotOwnKey(s) \/ Leave(s)
      PROVE  sockets' \subseteq sockets
  BY <1>3 DEF Refuse, Close, MarkedOnline, GotOwnKey, Leave, memory
<1> QED
  BY <1>1, <1>2, <1>3, SubscribersNext

OnlyOne ==
    /\ \A s, t \in Subscribing : s = t
    /\ unsub # NoSocket => Subscribing = {}
    /\ listeners \subseteq Subscribing \cup {unsub}
    /\ Unsubscribing # {} => unsub \notin listeners
    /\ ClosesFirst(replies["subscriber"])

(* OneAtATime speaks of the overlap; without it, it is OnlyOne.            *)
LEMMA OnlyOneIs == OneAtATime <=> "twoSubscribe" \in overlaps \/ OnlyOne
BY DEF OneAtATime, OnlyOne, ClosesFirst

(* A second SUBSCRIBE needs a socket that finds neither an unsubscriber    *)
(* nor, unless it met one, somebody who waits for a subscription.          *)
LEMMA OneAtATimeNext ==
  ASSUME RealtimeTypeOK, RepliesFit, OneAtATime, [RealtimeNext]_realtimeVars
  PROVE  OneAtATime'
<1> DEFINE sub == replies["subscriber"]
<1> SUFFICES ASSUME "twoSubscribe" \notin overlaps'
             PROVE  OnlyOne'
  BY OnlyOneIs DEF OneAtATime, OnlyOne, ClosesFirst
<1>0. OnlyOne
  BY MeetingsAreKept, OnlyOneIs
<1>t. /\ listeners \subseteq Sockets /\ unsub \in Sockets \cup {NoSocket} /\ NoSocket \notin Sockets
      /\ replies \in [{"command", "subscriber"} -> Seq(Commands)]
      /\ sub \in Seq(Commands)
  BY RealtimeAssumption DEF RealtimeTypeOK, RealtimeAssumption, Commands
<1>1. ASSUME \/ PresenceExpires \/ UNCHANGED realtimeVars
             \/ \E s \in Sockets : Refuse(s) \/ Close(s) \/ MarkedOnline(s) \/ GotOwnKey(s) \/ Leave(s)
      PROVE  OnlyOne'
  <2>1. /\ Subscribing' = Subscribing /\ Unsubscribing' = Unsubscribing
        /\ replies'["subscriber"] = replies["subscriber"]
        /\ UNCHANGED <<unsub, listeners, channel>>
    BY <1>1, SubscriptionUntouched
  <2> QED
    BY <1>0, <2>1 DEF OnlyOne, ClosesFirst
<1>2. ASSUME NEW s \in Sockets, Accept(s), unsub = NoSocket
      PROVE  OnlyOne'
  <2>1. /\ listeners' = listeners \cup {s} /\ unsub' = NoSocket
        /\ replies'["subscriber"] = Append(sub, <<"connect", s>>)
    BY <1>2, <1>t DEF Accept
  <2>2. Subscribing = {}
    BY <1>2 DEF Accept, Subscribing
  <2>3. Subscribing' = {s}
    BY <1>2, <2>2, SubscribersNext
  <2>4. ClosesFirst(Append(sub, <<"connect", s>>))
    <3>1. ClosesFirst(sub) /\ <<"connect", s>> \in Commands
      BY <1>0 DEF OnlyOne, Commands
    <3> QED
      BY <1>t, <3>1, AppendClosesFirst
  <2>5. ClosesFirst(replies["subscriber"])'
    BY <2>1, <2>4 DEF ClosesFirst
  <2>6. listeners = {}
    BY <1>0, <1>t, <1>2, <2>2 DEF OnlyOne
  <2> QED
    BY <2>1, <2>3, <2>5, <2>6, <1>t DEF OnlyOne
<1>3. ASSUME NEW s \in Sockets, Accept(s), unsub # NoSocket
      PROVE  OnlyOne'
  <2>1. /\ UNCHANGED <<listeners, unsub>> /\ replies'["subscriber"] = sub
    BY <1>3, <1>t DEF Accept
  <2>2. Subscribing' = Subscribing /\ Unsubscribing' = Unsubscribing
    BY <1>3, SubscribersNext
  <2> QED
    BY <1>0, <2>1, <2>2 DEF OnlyOne, ClosesFirst
<1>4. ASSUME NEW s \in Sockets, Subscribed(s)
      PROVE  OnlyOne'
  <2>1. /\ sub # <<>> /\ Head(sub) = <<"connect", s>>
        /\ unsub' = s /\ listeners' = listeners /\ replies'["subscriber"] = Tail(sub)
    BY <1>4, <1>t DEF Subscribed, Due
  <2>2. /\ Subscribing' = Subscribing \ {s} /\ s \in Subscribing
        /\ Unsubscribing' = Unsubscribing
    BY <1>4, SubscribersNext
  <2>3. Subscribing = {s} /\ Subscribing' = {} /\ listeners \subseteq {s}
    <3>1. \A t \in Subscribing : t = s
      BY <1>0, <2>2 DEF OnlyOne
    <3>2. unsub = NoSocket
      BY <1>0, <1>t, <2>2 DEF OnlyOne
    <3>3. listeners \subseteq Subscribing
      BY <1>0, <1>t, <3>2 DEF OnlyOne
    <3> QED
      BY <2>2, <3>1, <3>3
  <2>4. Unsubscribing = {}
    <3>1. \A t \in Unsubscribing : \E i \in DOMAIN sub : sub[i] = <<"close", t>>
      BY SubscriberReplies
    <3>2. ClosesFirst(sub)
      BY <1>0 DEF OnlyOne
    <3> QED
      BY <1>t, <2>1, <3>1, <3>2, FirstConnects
  <2>5. ClosesFirst(replies["subscriber"])'
    <3>1. ClosesFirst(Tail(sub))
      BY <1>0, <1>t, <2>1, TailClosesFirst DEF OnlyOne
    <3> QED
      BY <2>1, <3>1 DEF ClosesFirst
  <2> QED
    BY <2>1, <2>2, <2>3, <2>4, <2>5 DEF OnlyOne
<1>5. ASSUME NEW s \in Sockets, LeaveLast(s)
      PROVE  OnlyOne'
  <2>1. /\ unsub # NoSocket /\ unsub' = unsub /\ listeners' = listeners \ {unsub}
        /\ replies'["subscriber"] = Append(sub, <<"close", s>>)
    BY <1>5, <1>t DEF LeaveLast
  <2>2. Subscribing = {} /\ Subscribing' = {}
    BY <1>0, <1>5, <2>1, SubscribersNext DEF OnlyOne
  <2>3. ClosesFirst(replies["subscriber"])'
    <3>1. \A i \in DOMAIN sub : sub[i][1] # "connect"
      BY <2>2, SubscriberReplies
    <3>2. ClosesFirst(sub) /\ <<"close", s>> \in Commands
      BY <1>0 DEF OnlyOne, Commands
    <3>3. ClosesFirst(Append(sub, <<"close", s>>))
      BY <1>t, <3>1, <3>2, AppendClosesFirst
    <3> QED
      BY <2>1, <3>3 DEF ClosesFirst
  <2> QED
    BY <1>0, <2>1, <2>2, <2>3 DEF OnlyOne
<1>6. ASSUME NEW s \in Sockets, Unsubscribed(s)
      PROVE  OnlyOne'
  <2>1. /\ sub # <<>> /\ unsub' = NoSocket /\ listeners' = listeners
        /\ replies'["subscriber"] = Tail(sub)
    BY <1>6, <1>t DEF Unsubscribed, Due, redis
  <2>2. Subscribing' = Subscribing /\ s \in Unsubscribing
    BY <1>6, SubscribersNext
  <2>3. listeners \subseteq Subscribing /\ NoSocket \notin listeners
    BY <1>0, <1>t, <2>2 DEF OnlyOne
  <2>4. ClosesFirst(replies["subscriber"])'
    <3>1. ClosesFirst(Tail(sub))
      BY <1>0, <1>t, <2>1, TailClosesFirst DEF OnlyOne
    <3> QED
      BY <2>1, <3>1 DEF ClosesFirst
  <2> QED
    BY <1>0, <2>1, <2>2, <2>3, <2>4 DEF OnlyOne
<1> QED
  BY <1>1, <1>2, <1>3, <1>4, <1>5, <1>6 DEF RealtimeNext, Replied

Lasts ==
    /\ \A t \in Unsubscribing :
         /\ sockets = {}
         /\ replies["subscriber"][Len(replies["subscriber"])] = <<"close", t>>
    /\ Subscribing \subseteq listeners
    /\ unsub \notin Subscribing
    /\ sockets \subseteq Subscribing \/ unsub # NoSocket
    /\ Unsubscribing = {} =>
         /\ Subscribing # {} \/ unsub # NoSocket => channel
         /\ unsub # NoSocket => unsub \in listeners

(* SubscriptionLasts speaks of the overlap; without it, it is Lasts.       *)
LEMMA LastsIs == SubscriptionLasts <=> "joinedUnsubscribe" \in overlaps \/ Lasts
BY DEF SubscriptionLasts, Lasts

(* A SUBSCRIBE is no UNSUBSCRIBE, and two UNSUBSCRIBEs of one socket are   *)
(* one command.                                                            *)
LEMMA CommandsDiffer ==
  ASSUME NEW s, NEW t
  PROVE  /\ <<"connect", s>> # <<"close", t>>
         /\ <<"close", s>> = <<"close", t>> => s = t
OBVIOUS

(* What was appended is last.                                              *)
LEMMA LastIsAppended ==
  ASSUME NEW q \in Seq(Commands), NEW e \in Commands
  PROVE  Append(q, e)[Len(Append(q, e))] = e
OBVIOUS

(* What is answered last stays so until it is answered.                    *)
LEMMA LastInTail ==
  ASSUME NEW q \in Seq(Commands), q # <<>>, Head(q) # q[Len(q)]
  PROVE  Tail(q)[Len(Tail(q))] = q[Len(q)]
<1>1. /\ Len(q) \in Nat \ {0} /\ Head(q) = q[1] /\ Len(Tail(q)) = Len(q) - 1
      /\ \A i \in 1..Len(q) - 1 : Tail(q)[i] = q[i + 1]
  OBVIOUS
<1>2. Len(q) # 1
  BY <1>1
<1>3. Len(q) - 1 \in 1..Len(q) - 1
  BY <1>1, <1>2
<1>4. Tail(q)[Len(q) - 1] = q[(Len(q) - 1) + 1]
  BY <1>1, <1>3
<1>5. (Len(q) - 1) + 1 = Len(q)
  BY <1>1
<1> QED
  BY <1>1, <1>4, <1>5

(* A reply that is both the next and the last is the only one.             *)
LEMMA OnlyReply ==
  ASSUME NEW q \in Seq(Commands), q # <<>>, Head(q) = q[Len(q)],
         \A i, j \in DOMAIN q : q[i] = q[j] => i = j
  PROVE  \A i \in DOMAIN q : q[i] = Head(q)
<1>1. Len(q) \in Nat \ {0} /\ Head(q) = q[1] /\ DOMAIN q = 1..Len(q)
  OBVIOUS
<1>2. 1 \in DOMAIN q /\ Len(q) \in DOMAIN q
  BY <1>1
<1>3. Len(q) = 1
  BY <1>1, <1>2
<1> QED
  BY <1>1, <1>3

(* Only a socket that connects while the last one unsubscribes can find an *)
(* unsubscriber that is of no use any more.                                *)
LEMMA SubscriptionLastsNext ==
  ASSUME RealtimeTypeOK, RepliesFit, SubscriptionLasts, [RealtimeNext]_realtimeVars
  PROVE  SubscriptionLasts'
<1> DEFINE sub == replies["subscriber"]
<1> SUFFICES ASSUME "joinedUnsubscribe" \notin overlaps'
             PROVE  Lasts'
  BY LastsIs DEF SubscriptionLasts, Lasts
<1>0. Lasts
  BY MeetingsAreKept, LastsIs
<1>t. /\ listeners \subseteq Sockets /\ unsub \in Sockets \cup {NoSocket} /\ NoSocket \notin Sockets
      /\ replies \in [{"command", "subscriber"} -> Seq(Commands)]
      /\ sub \in Seq(Commands) /\ sockets \subseteq Sockets /\ Subscribing \subseteq Sockets
  BY RealtimeAssumption DEF RealtimeTypeOK, RealtimeAssumption, Commands, Subscribing
<1>1. ASSUME \/ PresenceExpires \/ UNCHANGED realtimeVars
             \/ \E s \in Sockets : Refuse(s) \/ Close(s) \/ MarkedOnline(s) \/ GotOwnKey(s) \/ Leave(s)
      PROVE  Lasts'
  <2>1. /\ Subscribing' = Subscribing /\ Unsubscribing' = Unsubscribing
        /\ replies'["subscriber"] = replies["subscriber"]
        /\ UNCHANGED <<unsub, listeners, channel>>
        /\ sockets' \subseteq sockets
    BY <1>1, SubscriptionUntouched
  <2> QED
    BY <1>0, <2>1 DEF Lasts
<1>2. ASSUME NEW s \in Sockets, Accept(s)
      PROVE  Unsubscribing = {} /\ Unsubscribing' = {}
  <2>1. Unsubscribing = {}
    BY <1>2 DEF Accept, Unsubscribing
  <2> QED
    BY <1>2, <2>1, SubscribersNext
<1>3. ASSUME NEW s \in Sockets, Accept(s), unsub = NoSocket
      PROVE  Lasts'
  <2>1. /\ listeners' = listeners \cup {s} /\ unsub' = NoSocket /\ channel' = TRUE
        /\ sockets' = sockets \cup {s}
    BY <1>3 DEF Accept
  <2>2. Subscribing' = Subscribing \cup {s}
    BY <1>3, SubscribersNext
  <2> QED
    BY <1>0, <1>2, <1>3, <1>t, <2>1, <2>2 DEF Lasts
<1>4. ASSUME NEW s \in Sockets, Accept(s), unsub # NoSocket
      PROVE  Lasts'
  <2>1. UNCHANGED <<listeners, unsub, channel>>
    BY <1>4 DEF Accept
  <2>2. Subscribing' = Subscribing
    BY <1>4, SubscribersNext
  <2> QED
    BY <1>0, <1>2, <1>4, <2>1, <2>2 DEF Lasts
<1>5. ASSUME NEW s \in Sockets, Subscribed(s)
      PROVE  Lasts'
  <2>1. /\ sub # <<>> /\ Head(sub) = <<"connect", s>>
        /\ unsub' = s /\ UNCHANGED <<sockets, listeners, channel>>
        /\ replies'["subscriber"] = Tail(sub)
    BY <1>5, <1>t DEF Subscribed, Due
  <2>2. /\ Subscribing' = Subscribing \ {s} /\ s \in Subscribing
        /\ Unsubscribing' = Unsubscribing
    BY <1>5, SubscribersNext
  <2>3. ASSUME NEW t \in Unsubscribing
        PROVE  /\ sockets = {}
               /\ replies'["subscriber"][Len(replies'["subscriber"])] = <<"close", t>>
    <3>1. sockets = {} /\ sub[Len(sub)] = <<"close", t>>
      BY <1>0 DEF Lasts
    <3>2. Head(sub) # sub[Len(sub)]
      BY <2>1, <3>1, CommandsDiffer
    <3>3. Tail(sub)[Len(Tail(sub))] = sub[Len(sub)]
      BY <1>t, <2>1, <3>2, LastInTail
    <3> QED
      BY <2>1, <3>1, <3>3
  <2>4. s # NoSocket /\ s \in listeners /\ channel' = channel
    BY <1>0, <1>t, <2>1, <2>2 DEF Lasts
  <2>5. Unsubscribing = {} => channel
    BY <1>0, <2>2 DEF Lasts
  <2>6. /\ Subscribing' \subseteq listeners'
        /\ unsub' \notin Subscribing' /\ unsub' # NoSocket
        /\ Unsubscribing' = {} => channel' /\ unsub' \in listeners'
    <3>1. Subscribing \subseteq listeners
      BY <1>0 DEF Lasts
    <3>2. unsub' \notin Subscribing'
      BY <2>1, <2>2
    <3>3. Unsubscribing' = {} => channel'
      BY <2>2, <2>4, <2>5
    <3> QED
      BY <2>1, <2>2, <2>4, <3>1, <3>2, <3>3
  <2>7. \A t \in Unsubscribing' :
          /\ sockets' = {}
          /\ replies'["subscriber"][Len(replies'["subscriber"])] = <<"close", t>>
    BY <2>1, <2>2, <2>3
  <2> QED
    BY <2>6, <2>7 DEF Lasts
<1>6. ASSUME NEW s \in Sockets, LeaveLast(s)
      PROVE  Lasts'
  <2>1. /\ sockets = {s} /\ sockets' = {} /\ unsub' = unsub /\ listeners' = listeners \ {unsub}
        /\ replies'["subscriber"] = Append(sub, <<"close", s>>)
    BY <1>6, <1>t DEF LeaveLast
  <2>2. Subscribing' = Subscribing /\ Unsubscribing' = Unsubscribing \cup {s}
    BY <1>6, SubscribersNext
  <2>3. Unsubscribing = {}
    BY <1>0, <2>1 DEF Lasts
  <2>4. replies'["subscriber"][Len(replies'["subscriber"])] = <<"close", s>>
    <3>1. <<"close", s>> \in Commands
      BY DEF Commands
    <3> QED
      BY <1>t, <2>1, <3>1, LastIsAppended
  <2>5. Unsubscribing' = {s}
    BY <2>2, <2>3
  <2>6. Subscribing \subseteq listeners' /\ unsub' \notin Subscribing'
    BY <1>0, <2>1, <2>2 DEF Lasts
  <2> QED
    BY <2>1, <2>2, <2>4, <2>5, <2>6 DEF Lasts
<1>7. ASSUME NEW s \in Sockets, Unsubscribed(s)
      PROVE  Lasts'
  <2>1. /\ sub # <<>> /\ Head(sub) = <<"close", s>>
        /\ unsub' = NoSocket /\ sockets' = sockets
    BY <1>7, <1>t DEF Unsubscribed, Due
  <2>2. /\ Subscribing' = Subscribing
        /\ Unsubscribing' = Unsubscribing \ {s} /\ s \in Unsubscribing
    BY <1>7, SubscribersNext
  <2>3. sockets = {} /\ Head(sub) = sub[Len(sub)]
    BY <1>0, <2>1, <2>2 DEF Lasts
  <2>4. \A i \in DOMAIN sub : sub[i] = <<"close", s>>
    BY <1>t, <2>1, <2>3, OnlyReply, SubscriberReplies
  <2>5. Subscribing = {} /\ Unsubscribing = {s}
    <3>1. \A t \in Subscribing : \E i \in DOMAIN sub : sub[i] = <<"connect", t>>
      BY SubscriberReplies
    <3>2. \A t \in Unsubscribing : \E i \in DOMAIN sub : sub[i] = <<"close", t>>
      BY SubscriberReplies
    <3> HIDE DEF sub
    <3>3. ASSUME NEW t \in Subscribing
          PROVE  FALSE
      <4>1. PICK i \in DOMAIN sub : sub[i] = <<"connect", t>>
        BY <3>1
      <4>2. sub[i] = <<"close", s>>
        BY <2>4
      <4> QED
        BY <4>1, <4>2, CommandsDiffer
    <3>4. ASSUME NEW t \in Unsubscribing
          PROVE  t = s
      <4>1. PICK i \in DOMAIN sub : sub[i] = <<"close", t>>
        BY <3>2
      <4>2. sub[i] = <<"close", s>>
        BY <2>4
      <4> QED
        BY <4>1, <4>2, CommandsDiffer
    <3> QED
      BY <2>2, <3>3, <3>4
  <2> QED
    BY <1>t, <2>1, <2>2, <2>3, <2>5 DEF Lasts
<1> QED
  BY <1>1, <1>3, <1>4, <1>5, <1>6, <1>7 DEF RealtimeNext, Replied

(* The handlers of a socket that closes when it is online come after its   *)
(* SET, and its GET sees what the key is then.                             *)
LEMMA PresenceFollowsNext ==
  ASSUME RealtimeTypeOK, RepliesFit, SetIsExact, PresenceFollows, [RealtimeNext]_realtimeVars
  PROVE  PresenceFollows'
<1> DEFINE Follows ==
             /\ \A s \in Sockets : disc[s] # "open" => conn[s] = "online"
             /\ \A s \in heartbeats : conn[s] = "online" /\ disc[s] = "open"
             /\ \A s \in Sockets : presence = s => disc[s] \in {"open", "getting"}
             /\ \A s \in Sockets : disc[s] = "getting" /\ presence = s => seen[s] = s
<1> SUFFICES ASSUME "closedEarly" \notin overlaps'
             PROVE  Follows'
  BY DEF PresenceFollows
<1>0. Follows
  BY MeetingsAreKept DEF PresenceFollows
<1>t. /\ conn \in [Sockets -> {"new", "refused", "subscribing", "marking", "online"}]
      /\ disc \in [Sockets -> {"open", "getting", "deleting", "unsubscribing", "closed"}]
      /\ heartbeats \subseteq Sockets
      /\ presence \in Sockets \cup {NoSocket} /\ NoSocket \notin Sockets
      /\ seen \in [Sockets -> Sockets \cup {NoSocket}]
      /\ \A s \in Sockets : conn[s] \in {"new", "refused"} => disc[s] = "open"
  BY RealtimeAssumption DEF RealtimeTypeOK, RealtimeAssumption, SetIsExact
<1>1. ASSUME NEW s \in Sockets, Refuse(s)
      PROVE  Follows'
  BY <1>0, <1>1, <1>t DEF Refuse, memory, redis
<1>2. ASSUME NEW s \in Sockets, Accept(s)
      PROVE  Follows'
  <2>1. /\ conn[s] = "new" /\ disc[s] = "open" /\ UNCHANGED <<disc, heartbeats, seen>>
        /\ conn' \in {[conn EXCEPT ![s] = "subscribing"], [conn EXCEPT ![s] = "marking"]}
        /\ presence' \in {presence, s}
    BY <1>2, <1>t DEF Accept
  <2> QED
    BY <1>0, <1>t, <2>1
<1>3. ASSUME NEW s \in Sockets, Subscribed(s)
      PROVE  Follows'
  <2>1. /\ conn[s] = "subscribing" /\ UNCHANGED <<disc, heartbeats, seen>>
        /\ conn' = [conn EXCEPT ![s] = "marking"] /\ presence' = s
    BY <1>3, RepliesAreTheirs DEF Subscribed
  <2> QED
    BY <1>0, <1>t, <2>1
<1>4. ASSUME NEW s \in Sockets, MarkedOnline(s)
      PROVE  Follows'
  <2>1. /\ conn[s] = "marking" /\ UNCHANGED <<disc, presence, seen>>
        /\ conn' = [conn EXCEPT ![s] = "online"] /\ heartbeats' = heartbeats \cup {s}
    BY <1>4, RepliesAreTheirs DEF MarkedOnline, redis
  <2>2. disc[s] = "open" /\ conn'[s] = "online" /\ \A t \in Sockets \ {s} : conn'[t] = conn[t]
    BY <1>0, <1>t, <2>1
  <2> QED
    BY <1>0, <1>t, <2>1, <2>2
<1>5. ASSUME NEW s \in Sockets, Close(s)
      PROVE  Follows'
  <2>1. /\ disc' = [disc EXCEPT ![s] = "getting"] /\ UNCHANGED <<conn, presence>>
        /\ heartbeats' = heartbeats \ {s} /\ seen' = [seen EXCEPT ![s] = presence]
        /\ conn[s] = "online"
    BY <1>5 DEF Close, redis
  <2> QED
    BY <1>0, <1>t, <2>1
<1>6. ASSUME NEW s \in Sockets, GotOwnKey(s)
      PROVE  Follows'
  <2>1. /\ disc[s] = "getting" /\ disc' = [disc EXCEPT ![s] = "deleting"]
        /\ UNCHANGED <<conn, heartbeats, seen>> /\ presence' = NoSocket
    BY <1>6 DEF GotOwnKey, memory
  <2> QED
    BY <1>0, <1>t, <2>1
<1>7. ASSUME NEW s \in Sockets, Leave(s) \/ LeaveLast(s) \/ Unsubscribed(s)
      PROVE  Follows'
  <2>1. UNCHANGED <<conn, heartbeats, presence>>
    BY <1>7 DEF Leave, LeaveLast, Unsubscribed, redis
  <2>2. /\ disc' \in {[disc EXCEPT ![s] = "closed"], [disc EXCEPT ![s] = "unsubscribing"]}
        /\ seen' \in {seen, [seen EXCEPT ![s] = NoSocket]}
    BY <1>7 DEF Leave, LeaveLast, Unsubscribed
  <2>3. disc[s] # "open" /\ presence # s
    <3>1. CASE Leave(s) \/ LeaveLast(s)
      <4>1. disc[s] \in {"getting", "deleting"} /\ (disc[s] = "deleting" \/ seen[s] # s)
        BY <3>1, RepliesAreTheirs DEF Leave, LeaveLast, MarkedOffline
      <4> QED
        BY <1>0, <4>1
    <3>2. CASE Unsubscribed(s)
      <4>1. disc[s] = "unsubscribing"
        BY <3>2, RepliesAreTheirs DEF Unsubscribed
      <4> QED
        BY <1>0, <4>1
    <3> QED
      BY <1>7, <3>1, <3>2
  <2>4. \A t \in Sockets \ {s} : disc'[t] = disc[t] /\ seen'[t] = seen[t]
    BY <1>t, <2>2
  <2>5. s \notin heartbeats /\ conn[s] = "online"
    BY <1>0, <2>3
  <2> QED
    BY <1>0, <1>t, <2>1, <2>3, <2>4, <2>5
<1>8. CASE PresenceExpires
  <2>1. UNCHANGED <<conn, disc, heartbeats, seen>> /\ presence' = NoSocket
    BY <1>8 DEF PresenceExpires, memory
  <2> QED
    BY <1>0, <1>t, <2>1
<1>9. CASE UNCHANGED realtimeVars
  BY <1>0, <1>9 DEF realtimeVars
<1> QED
  BY <1>1, <1>2, <1>3, <1>4, <1>5, <1>6, <1>7, <1>8, <1>9 DEF RealtimeNext, Replied

(* As long as no handlers meet, whoever unsubscribes was the last one.     *)
LEMMA SubscriptionIsUsedNext ==
  ASSUME RealtimeTypeOK, RepliesFit, SetIsExact,
         SubscriptionLasts, SubscriptionIsUsed, PresenceFollows, [RealtimeNext]_realtimeVars
  PROVE  SubscriptionIsUsed'
<1> DEFINE Used ==
             /\ unsub # NoSocket => sockets # {} \/ Unsubscribing # {}
             /\ channel => Subscribing # {} \/ (unsub # NoSocket /\ Unsubscribing = {})
<1> SUFFICES ASSUME overlaps' = {}
             PROVE  Used'
  BY DEF SubscriptionIsUsed
<1>0. Used /\ Lasts
  BY MeetingsAreKept, LastsIs DEF SubscriptionIsUsed
<1>p. \A s \in Sockets : disc[s] # "open" => conn[s] = "online"
  BY MeetingsAreKept DEF PresenceFollows
<1>t. NoSocket \notin Sockets
  BY RealtimeAssumption DEF RealtimeAssumption
<1>s. \A s \in Sockets :
        conn[s] \notin {"new", "refused"} /\ disc[s] \notin {"unsubscribing", "closed"} => s \in sockets
  BY DEF SetIsExact, Admitted
<1>1. ASSUME \/ PresenceExpires \/ UNCHANGED realtimeVars
             \/ \E s \in Sockets : Refuse(s) \/ Close(s) \/ MarkedOnline(s) \/ GotOwnKey(s) \/ Leave(s)
      PROVE  Used'
  <2>1. /\ Subscribing' = Subscribing /\ Unsubscribing' = Unsubscribing
        /\ UNCHANGED <<unsub, channel>>
    BY <1>1, SubscriptionUntouched
  <2>2. unsub # NoSocket /\ sockets # {} => sockets' # {}
    <3>1. ASSUME NEW s \in Sockets, Leave(s), unsub # NoSocket, sockets # {}
          PROVE  sockets' # {}
      <4>1. sockets # {s} /\ sockets' = sockets \ {s}
        BY <3>1 DEF Leave
      <4> QED
        BY <3>1, <4>1
    <3>2. ASSUME NEW s \in Sockets, Refuse(s) \/ Close(s) \/ MarkedOnline(s) \/ GotOwnKey(s)
          PROVE  sockets' = sockets
      BY <3>2 DEF Refuse, Close, MarkedOnline, GotOwnKey, memory
    <3>3. PresenceExpires \/ UNCHANGED realtimeVars => sockets' = sockets
      BY DEF PresenceExpires, memory, realtimeVars
    <3> QED
      BY <1>1, <3>1, <3>2, <3>3
  <2> QED
    BY <1>0, <2>1, <2>2
<1>2. ASSUME NEW s \in Sockets, Accept(s), unsub = NoSocket
      PROVE  Used'
  <2>1. unsub' = NoSocket
    BY <1>2 DEF Accept
  <2>2. Subscribing' = Subscribing \cup {s}
    BY <1>2, SubscribersNext
  <2> QED
    BY <2>1, <2>2
<1>3. ASSUME NEW s \in Sockets, Accept(s), unsub # NoSocket
      PROVE  Used'
  <2>1. UNCHANGED <<unsub, channel>> /\ sockets' = sockets \cup {s}
    BY <1>3 DEF Accept
  <2>2. Subscribing' = Subscribing /\ Unsubscribing' = Unsubscribing
    BY <1>3, SubscribersNext
  <2> QED
    BY <1>0, <2>1, <2>2
<1>4. ASSUME NEW s \in Sockets, Subscribed(s)
      PROVE  Used'
  <2>1. unsub' = s /\ sockets' = sockets
    BY <1>4 DEF Subscribed
  <2>2. conn[s] = "subscribing"
    BY <1>4, RepliesAreTheirs DEF Subscribed
  <2>3. s \in sockets
    BY <1>p, <1>s, <2>2
  <2>4. Unsubscribing' = {}
    BY <1>0, <1>4, <2>3, SubscribersNext DEF Lasts
  <2> QED
    BY <1>t, <2>1, <2>3, <2>4
<1>5. ASSUME NEW s \in Sockets, LeaveLast(s)
      PROVE  Used'
  <2>1. channel' = FALSE
    BY <1>5 DEF LeaveLast
  <2>2. Unsubscribing' = Unsubscribing \cup {s}
    BY <1>5, SubscribersNext
  <2> QED
    BY <2>1, <2>2
<1>6. ASSUME NEW s \in Sockets, Unsubscribed(s)
      PROVE  Used'
  <2>1. unsub' = NoSocket /\ channel' = channel
    BY <1>6 DEF Unsubscribed, redis
  <2>2. Subscribing' = Subscribing /\ s \in Unsubscribing
    BY <1>6, SubscribersNext
  <2> QED
    BY <1>0, <2>1, <2>2
<1> QED
  BY <1>1, <1>2, <1>3, <1>4, <1>5, <1>6 DEF RealtimeNext, Replied

-----------------------------------------------------------------------------

(* The gateway starts without a connection.                                *)
LEMMA RealtimeStarts == RealtimeInit => RealtimeInv
<1> SUFFICES ASSUME RealtimeInit
             PROVE  RealtimeInv
  OBVIOUS
<1>1. RealtimeTypeOK
  <2>1. replies \in [{"command", "subscriber"} -> Seq({"connect", "close"} \X Sockets)]
    <3>1. <<>> \in Seq({"connect", "close"} \X Sockets)
      OBVIOUS
    <3> QED
      BY <3>1 DEF RealtimeInit
  <2>2. conn \in [Sockets -> {"new"}] /\ disc \in [Sockets -> {"open"}]
    BY DEF RealtimeInit
  <2>3. /\ conn \in [Sockets -> {"new", "refused", "subscribing", "marking", "online"}]
        /\ disc \in [Sockets -> {"open", "getting", "deleting", "unsubscribing", "closed"}]
    BY <2>2
  <2>4. ipCount \in [Ips -> Nat] /\ seen \in [Sockets -> Sockets \cup {NoSocket}]
    BY DEF RealtimeInit
  <2>5. sockets = {} /\ listeners = {} /\ heartbeats = {} /\ overlaps = {} /\ channel = FALSE
        /\ unsub = NoSocket /\ presence = NoSocket
    BY DEF RealtimeInit
  <2> QED
    BY <2>1, <2>3, <2>4, <2>5 DEF RealtimeTypeOK
<1>2. Admitted = {} /\ Subscribing = {} /\ Unsubscribing = {}
  BY DEF RealtimeInit, Admitted, Subscribing, Unsubscribing
<1>3. SetIsExact
  BY <1>2, FS_EmptySet, RealtimeAssumption DEF RealtimeInit, SetIsExact, RealtimeAssumption
<1>4. CountsAreExact
  <2>1. \A i \in Ips : At(i) = {}
    BY <1>2 DEF At
  <2> QED
    <3>1. \A i \in Ips : Cardinality(At(i)) = 0
      BY <2>1, FS_EmptySet
    <3>2. \A i \in Ips : ipCount[i] = 0 /\ 0 <= MaxPerIp
      BY RealtimeAssumption DEF RealtimeInit, RealtimeAssumption
    <3> QED
      BY <3>1, <3>2 DEF CountsAreExact
<1>5. LimitsHold
  BY <1>3, <1>4, LimitsAreCounts, RealtimeAssumption
<1>6. RepliesAreAwaited
  <2>1. \A k \in {"command", "subscriber"} : replies[k] = <<>> /\ Awaited(k) = {}
    BY DEF RealtimeInit, Awaited
  <2> QED
    BY <2>1 DEF RepliesAreAwaited, Range
<1>7. OneAtATime /\ SubscriptionLasts /\ SubscriptionIsUsed
  BY <1>2 DEF RealtimeInit, OneAtATime, SubscriptionLasts, SubscriptionIsUsed
<1>8. PresenceFollows
  BY RealtimeAssumption DEF RealtimeInit, PresenceFollows, RealtimeAssumption
<1> QED
  BY <1>1, <1>3, <1>5, <1>6, <1>7, <1>8 DEF RealtimeInv

(* The maps of the gateway, its replies from Redis, the user's one         *)
(* subscription and the presence key fit each other at every await of      *)
(* handleConnection and handleDisconnect, for any number of sockets and    *)
(* any limits.                                                             *)
THEOREM RealtimeInvariant == RealtimeSpec => []RealtimeInv
<1>1. ASSUME RealtimeInv, [RealtimeNext]_realtimeVars
      PROVE  RealtimeInv'
  <2>1. /\ RealtimeTypeOK /\ RepliesFit /\ SetIsExact /\ CountsAreExact /\ OneAtATime
        /\ SubscriptionLasts /\ SubscriptionIsUsed /\ PresenceFollows
    BY <1>1, RepliesAreExact, LimitsAreCounts, RealtimeAssumption DEF RealtimeInv
  <2>2. RepliesFit'
    BY <1>1, <2>1, RepliesNext
  <2>3. RepliesAreAwaited'
    BY <2>2 DEF RepliesFit, RepliesAreAwaited, Exact
  <2>4. RealtimeTypeOK'
    BY <1>1, <2>1, RealtimeTypeNext
  <2>5. SetIsExact' /\ CountsAreExact'
    BY <1>1, <2>1, CountsNext
  <2>6. LimitsHold'
    BY <2>5, LimitsAreCounts, RealtimeAssumption, PTL
  <2>7. OneAtATime' /\ SubscriptionLasts' /\ SubscriptionIsUsed' /\ PresenceFollows'
    BY <1>1, <2>1, OneAtATimeNext, SubscriptionLastsNext, SubscriptionIsUsedNext,
       PresenceFollowsNext
  <2> QED
    BY <2>3, <2>4, <2>5, <2>6, <2>7 DEF RealtimeInv
<1> QED
  BY <1>1, RealtimeStarts, PTL DEF RealtimeSpec

(* One Redis subscription per user, as the gateway's comment says: no two  *)
(* listeners of a user are left on the subscriber unless two handlers of   *)
(* handleConnection met before SUBSCRIBE was answered.                     *)
THEOREM SubscribedOnce == RealtimeSpec => []OneSubscription
<1>1. RealtimeInv => OneSubscription
  <2> SUFFICES ASSUME RealtimeInv, "twoSubscribe" \notin overlaps
               PROVE  Cardinality(listeners) <= 1
    BY DEF OneSubscription
  <2>1. OnlyOne /\ listeners \subseteq Sockets /\ NoSocket \notin Sockets
    BY OnlyOneIs, RealtimeAssumption DEF RealtimeInv, RealtimeTypeOK, RealtimeAssumption
  <2>2. \A s, t \in listeners : s = t
    BY <2>1 DEF OnlyOne
  <2>3. listeners = {} \/ \E s \in listeners : listeners = {s}
    BY <2>2
  <2>4. CASE listeners = {}
    BY <2>4, FS_EmptySet
  <2>5. ASSUME NEW s \in listeners, listeners = {s}
        PROVE  Cardinality(listeners) <= 1
    BY <2>5, FS_Singleton
  <2> QED
    BY <2>3, <2>4, <2>5
<1> QED
  BY <1>1, RealtimeInvariant, PTL

(* A socket that handleConnection has told it is connected hears what is   *)
(* published to its user, unless one was let in while handleDisconnect     *)
(* waited for its UNSUBSCRIBE.                                             *)
THEOREM OpenSocketsHear == RealtimeSpec => []EverySocketHears
<1>1. RealtimeInv => EverySocketHears
  <2> SUFFICES ASSUME RealtimeInv, "joinedUnsubscribe" \notin overlaps,
                      NEW s \in Sockets, conn[s] = "online", disc[s] = "open"
               PROVE  listeners # {} /\ channel
    BY DEF EverySocketHears
  <2>1. Lasts /\ SetIsExact
    BY LastsIs DEF RealtimeInv
  <2>2. s \in sockets /\ s \notin Subscribing
    BY <2>1 DEF SetIsExact, Admitted, Subscribing
  <2>3. Unsubscribing = {} /\ unsub # NoSocket
    BY <2>1, <2>2 DEF Lasts
  <2> QED
    BY <2>1, <2>3 DEF Lasts
<1> QED
  BY <1>1, RealtimeInvariant, PTL

(* When the last socket of a user has gone, no listener, unsubscriber,     *)
(* subscription or interval is left, unless handlers met on the way.       *)
THEOREM NothingIsLeftBehind == RealtimeSpec => []NothingIsLeft
<1>1. RealtimeInv => NothingIsLeft
  <2> SUFFICES ASSUME RealtimeInv, sockets = {}, overlaps = {},
                      \A k \in DOMAIN replies : replies[k] = <<>>
               PROVE  listeners = {} /\ unsub = NoSocket /\ ~channel /\ heartbeats = {}
    BY DEF NothingIsLeft
  <2>1. /\ RealtimeTypeOK /\ RepliesFit /\ SetIsExact /\ OnlyOne
        /\ SubscriptionIsUsed /\ PresenceFollows
    BY RepliesAreExact, OnlyOneIs DEF RealtimeInv
  <2>2. Subscribing = {} /\ Unsubscribing = {}
    <3>1. replies["subscriber"] = <<>>
      BY <2>1 DEF RealtimeTypeOK
    <3>2. DOMAIN replies["subscriber"] = {}
      BY <3>1
    <3> QED
      BY <2>1, <3>2, SubscriberReplies
  <2>3. unsub = NoSocket /\ ~channel
    BY <2>1, <2>2 DEF SubscriptionIsUsed
  <2>4. listeners = {}
    <3>1. listeners \subseteq Sockets /\ NoSocket \notin Sockets
      BY <2>1, RealtimeAssumption DEF RealtimeTypeOK, RealtimeAssumption
    <3> QED
      BY <2>1, <2>2, <2>3, <3>1 DEF OnlyOne
  <2>5. heartbeats = {}
    <3>1. heartbeats \subseteq Sockets
      BY <2>1 DEF RealtimeTypeOK
    <3>2. \A s \in heartbeats : s \in sockets
      BY <2>1, <3>1 DEF PresenceFollows, SetIsExact, Admitted
    <3> QED
      BY <3>2
  <2> QED
    BY <2>3, <2>4, <2>5
<1> QED
  BY <1>1, RealtimeInvariant, PTL

(* ws:presence of a user never names a socket that markOffline has done    *)
(* with, and no interval renews it for one that has closed, unless that    *)
(* closed before handleConnection was done with it.                        *)
THEOREM PresenceIsOfALiveSocket == RealtimeSpec => []PresenceIsLive
<1>1. RealtimeInv => PresenceIsLive
  <2> SUFFICES ASSUME RealtimeInv, "closedEarly" \notin overlaps
               PROVE  /\ heartbeats \subseteq {s \in Sockets : disc[s] = "open"}
                      /\ presence # NoSocket => disc[presence] \in {"open", "getting"}
    BY DEF PresenceIsLive
  <2>1. PresenceFollows /\ heartbeats \subseteq Sockets /\ presence \in Sockets \cup {NoSocket}
    BY DEF RealtimeInv, RealtimeTypeOK
  <2> QED
    BY <2>1 DEF PresenceFollows
<1> QED
  BY <1>1, RealtimeInvariant, PTL

-----------------------------------------------------------------------------
(* The order page. *)

SocketStates == {"none", "connecting", "open", "closing", "closed"}
Requests == {Free, Asked} \cup {Answer(n) : n \in Statuses}

(* A request that was answered carries a status, and is no open question.  *)
LEMMA Answers ==
  ASSUME NEW r \in Requests
  PROVE  /\ r.stage = "answered" => r.status \in Statuses /\ r = Answer(r.status) /\ r # Asked
         /\ Asked.stage # "answered" /\ Free.stage # "answered" /\ Free # Asked
         /\ \A n \in Statuses : /\ Answer(n).status = n /\ Answer(n).stage = "answered"
                                /\ Answer(n) # Free
BY DEF Requests, Free, Asked, Answer

(* Every variable of the page keeps its type. *)
LEMMA PageTypeNext ==
  ASSUME PageTypeOK, [PageNext]_pageVars
  PROVE  PageTypeOK'
<1>t. /\ MaxStatus \in Nat /\ MaxTokens \in Nat \ {0}
      /\ status \in 0..MaxStatus /\ published \in 0..MaxStatus
      /\ token \in 1..MaxTokens /\ mail \subseteq 0..MaxStatus
      /\ hidden \in BOOLEAN /\ hears \in BOOLEAN /\ wsConnected \in BOOLEAN /\ excused \in BOOLEAN
      /\ socket \in [Hooks -> [Tokens -> SocketStates]]
      /\ load \in [Loads -> Requests]
      /\ first \in Loads \cup {Nothing} /\ shown \in (0..MaxStatus) \cup {Nothing}
  BY TrackingAssumption DEF TrackingAssumption, PageTypeOK, Statuses, Tokens, Requests, SocketStates
<1>g. ASSUME /\ status' \in 0..MaxStatus /\ published' \in 0..MaxStatus
             /\ token' \in 1..MaxTokens /\ mail' \subseteq 0..MaxStatus
             /\ hidden' \in BOOLEAN /\ hears' \in BOOLEAN /\ wsConnected' \in BOOLEAN
             /\ excused' \in BOOLEAN
             /\ socket' \in [Hooks -> [Tokens -> SocketStates]]
             /\ load' \in [Loads -> Requests]
             /\ first' \in Loads \cup {Nothing} /\ shown' \in (0..MaxStatus) \cup {Nothing}
      PROVE  PageTypeOK'
  BY <1>g DEF PageTypeOK, Statuses, Tokens, Requests, SocketStates
<1>r. Free \in Requests /\ Asked \in Requests /\ \A n \in 0..MaxStatus : Answer(n) \in Requests
  BY DEF Requests, Statuses
<1>s. ASSUME NEW k \in Hooks, NEW t \in Tokens, NEW v \in SocketStates,
             socket' = [socket EXCEPT ![k][t] = v]
      PROVE  socket' \in [Hooks -> [Tokens -> SocketStates]]
  <2>1. socket' = [socket EXCEPT ![k] = [socket[k] EXCEPT ![t] = v]]
    BY <1>s, <1>t
  <2>2. [socket[k] EXCEPT ![t] = v] \in [Tokens -> SocketStates]
    BY <1>t
  <2> QED
    BY <1>t, <2>1, <2>2
<1>d. Deafened => hears' \in BOOLEAN /\ mail' \subseteq 0..MaxStatus /\ excused' \in BOOLEAN
  BY <1>t DEF Deafened
<1>1. StatusChanges \/ Forward => PageTypeOK'
  <2>1. CASE StatusChanges
    BY <1>t, <1>g, <2>1 DEF StatusChanges, link, page
  <2>2. CASE Forward
    <3>1. /\ UNCHANGED <<status, hidden, token, socket, hears, wsConnected, load, first, shown>>
          /\ published < status /\ published' = published + 1
          /\ mail' \in {mail, mail \cup {published'}}
      BY <2>2 DEF Forward, page
    <3>2. published' \in 0..MaxStatus /\ mail' \subseteq 0..MaxStatus
      BY <1>t, <3>1
    <3>3. excused' \in BOOLEAN
      BY <1>t, <2>2 DEF Forward
    <3> QED
      BY <1>t, <1>g, <3>1, <3>2, <3>3
  <2> QED
    BY <2>1, <2>2
<1>2. ServerSubscribes \/ ServerForgets => PageTypeOK'
  BY <1>t, <1>g, <1>d DEF ServerSubscribes, ServerForgets, order, page
<1>3. TokenChanges => PageTypeOK'
  <2> SUFFICES ASSUME TokenChanges
               PROVE  PageTypeOK'
    OBVIOUS
  <2>1. token' \in Tokens /\ token \in Tokens
    BY <1>t DEF TokenChanges, Tokens
  <2>2. \A k \in Hooks : [socket[k] EXCEPT ![token] = IF @ = "closed" THEN @ ELSE "closing",
                                           ![token'] = "connecting"]
                         \in [Tokens -> SocketStates]
    BY <1>t, <2>1 DEF SocketStates
  <2>3. socket' \in [Hooks -> [Tokens -> SocketStates]]
    BY <2>2 DEF TokenChanges
  <2> QED
    BY <1>t, <1>g, <1>d, <2>1, <2>3 DEF TokenChanges, Tokens, order, page
<1>4. ASSUME NEW k \in Hooks, Opens(k)
      PROVE  PageTypeOK'
  <2>1. socket' \in [Hooks -> [Tokens -> SocketStates]]
    BY <1>t, <1>s, <1>4 DEF Opens, Tokens, SocketStates
  <2> QED
    BY <1>t, <1>g, <1>4, <2>1 DEF Opens, order, page
<1>5. ASSUME NEW k \in Hooks, NEW t \in Tokens, Closes(k, t)
      PROVE  PageTypeOK'
  <2>1. socket' \in [Hooks -> [Tokens -> SocketStates]]
    BY <1>t, <1>s, <1>5 DEF Closes, SocketStates
  <2>2. /\ hears' \in BOOLEAN /\ mail' \subseteq 0..MaxStatus /\ excused' \in BOOLEAN
    BY <1>t, <1>d, <1>5 DEF Closes
  <2> QED
    BY <1>t, <1>g, <1>5, <2>1, <2>2 DEF Closes, order, page
<1>6. ASSUME NEW l \in Loads, Notified(l) \/ Poll(l) \/ Serve(l)
      PROVE  PageTypeOK'
  <2>1. \E r \in Requests : load' = [load EXCEPT ![l] = r]
    BY <1>t, <1>r, <1>6 DEF Notified, Poll, Serve, Request
  <2>2. load' \in [Loads -> Requests]
    BY <1>t, <2>1
  <2>3. /\ UNCHANGED <<status, published, token, hidden, hears, wsConnected, excused, socket,
                       first, shown>>
        /\ mail' \subseteq mail
    BY <1>6 DEF Notified, Poll, Serve, order, link
  <2> QED
    BY <1>t, <1>g, <2>2, <2>3
<1>7. ASSUME NEW l \in Loads, Ends(l)
      PROVE  PageTypeOK'
  <2>1. load' = [load EXCEPT ![l] = Free] /\ first' \in {first, Nothing}
    BY <1>7 DEF Ends, Loaded, LoadFails, Forget
  <2>2. load' \in [Loads -> Requests]
    BY <1>t, <1>r, <2>1
  <2>3. shown' \in (0..MaxStatus) \cup {Nothing} /\ excused' \in BOOLEAN
    <3>1. CASE Loaded(l)
      <4>1. load[l] \in Requests /\ load[l].stage = "answered"
        BY <1>t, <3>1 DEF Loaded
      <4>2. load[l].status \in 0..MaxStatus
        BY <4>1, Answers DEF Statuses
      <4> QED
        BY <1>t, <3>1, <4>2 DEF Loaded
    <3>2. CASE LoadFails(l)
      BY <1>t, <3>2 DEF LoadFails
    <3> QED
      BY <1>7, <3>1, <3>2 DEF Ends
  <2>4. UNCHANGED <<status, published, token, mail, hidden, hears, wsConnected, socket>>
    BY <1>7 DEF Ends, Loaded, LoadFails, order, link
  <2> QED
    BY <1>t, <1>g, <2>1, <2>2, <2>3, <2>4
<1>8. UNCHANGED pageVars => PageTypeOK'
  BY <1>t, <1>g DEF pageVars, order, link, page
<1> QED
  BY <1>1, <1>2, <1>3, <1>4, <1>5, <1>6, <1>7, <1>8 DEF PageNext

(* Nothing that is forwarded or answered is ahead of the order. *)
NotAhead ==
    /\ published <= status
    /\ \A l \in Loads : load[l].stage = "answered" => load[l].status <= status

(* No step forwards or answers a status that the order has not had.        *)
LEMMA NotAheadNext ==
  ASSUME PageTypeOK, NotAhead, [PageNext]_pageVars
  PROVE  NotAhead'
<1>t. /\ status \in Nat /\ published \in Nat
      /\ load \in [Loads -> Requests]
      /\ \A l \in Loads : load[l].stage = "answered" => load[l].status \in Nat
  <2>1. load \in [Loads -> Requests] /\ status \in 0..MaxStatus /\ published \in 0..MaxStatus
    BY DEF PageTypeOK, Requests, Statuses
  <2>2. \A l \in Loads : load[l].stage = "answered" => load[l].status \in 0..MaxStatus
    BY <2>1, Answers DEF Statuses
  <2> QED
    BY <2>1, <2>2, TrackingAssumption DEF TrackingAssumption
<1>1. CASE StatusChanges
  BY <1>t, <1>1 DEF NotAhead, StatusChanges, page
<1>2. CASE Forward
  BY <1>t, <1>2 DEF NotAhead, Forward, page
<1>3. ASSUME NEW l \in Loads, Notified(l) \/ Poll(l) \/ Serve(l) \/ Ends(l)
      PROVE  NotAhead'
  <2>1. UNCHANGED <<status, published>>
    BY <1>3 DEF Notified, Poll, Serve, Ends, Loaded, LoadFails, order
  <2>2. \E r \in {Free, Asked, Answer(status)} : load' = [load EXCEPT ![l] = r]
    BY <1>3 DEF Notified, Poll, Serve, Ends, Loaded, LoadFails, Request, Forget
  <2>3. \A r \in {Free, Asked, Answer(status)} : r.stage = "answered" => r.status = status
    BY DEF Free, Asked, Answer
  <2> QED
    BY <1>t, <2>1, <2>2, <2>3 DEF NotAhead
<1>4. ASSUME UNCHANGED <<status, published, load>>
      PROVE  NotAhead'
  BY <1>4 DEF NotAhead
<1>5. ServerSubscribes \/ ServerForgets \/ TokenChanges \/ UNCHANGED pageVars =>
        UNCHANGED <<status, published, load>>
  BY DEF ServerSubscribes, ServerForgets, TokenChanges, pageVars, order, page
<1>6. ASSUME NEW k \in Hooks, Opens(k) \/ \E t \in Tokens : Closes(k, t)
      PROVE  UNCHANGED <<status, published, load>>
  BY <1>6 DEF Opens, Closes, order, page
<1> QED
  BY <1>1, <1>2, <1>3, <1>4, <1>5, <1>6 DEF PageNext

(* The flag is reset with every socket that closes, whose ever it was.     *)
LEMMA LiveNext ==
  ASSUME PageTypeOK, LiveMeansOpen, [PageNext]_pageVars
  PROVE  LiveMeansOpen'
<1>t. socket \in [Hooks -> [Tokens -> SocketStates]] /\ token \in Tokens
  BY DEF PageTypeOK, SocketStates
<1>1. ASSUME UNCHANGED <<token, socket, wsConnected>>
      PROVE  LiveMeansOpen'
  BY <1>1 DEF LiveMeansOpen
<1>2. ASSUME wsConnected' = FALSE
      PROVE  LiveMeansOpen'
  BY <1>2 DEF LiveMeansOpen
<1>3. ASSUME NEW k \in Hooks, Opens(k)
      PROVE  LiveMeansOpen'
  <2>1. socket' = [socket EXCEPT ![k] = [socket[k] EXCEPT ![token] = "open"]] /\ token' = token
    BY <1>3, <1>t DEF Opens
  <2>2. socket'[k][token'] = "open"
    BY <1>t, <2>1
  <2> QED
    BY <2>2 DEF LiveMeansOpen
<1>4. StatusChanges \/ Forward \/ ServerSubscribes \/ ServerForgets \/ UNCHANGED pageVars =>
        UNCHANGED <<token, socket, wsConnected>>
  BY DEF StatusChanges, Forward, ServerSubscribes, ServerForgets, pageVars, order, link, page
<1>5. ASSUME NEW l \in Loads, Notified(l) \/ Poll(l) \/ Serve(l) \/ Ends(l)
      PROVE  UNCHANGED <<token, socket, wsConnected>>
  BY <1>5 DEF Notified, Poll, Serve, Ends, Loaded, LoadFails, link
<1>6. TokenChanges => wsConnected' = FALSE
  BY DEF TokenChanges
<1>7. ASSUME NEW k \in Hooks, NEW t \in Tokens, Closes(k, t)
      PROVE  wsConnected' = FALSE
  BY <1>7 DEF Closes
<1> QED
  BY <1>1, <1>2, <1>3, <1>4, <1>5, <1>6, <1>7 DEF PageNext

(* A page that is behind is about to hear of it, or excused.               *)
LEMMA CurrentNext ==
  ASSUME PageTypeOK, NotAhead, shown = status \/ excused \/ Coming, [PageNext]_pageVars
  PROVE  (shown = status \/ excused \/ Coming)'
<1> DEFINE Current == shown = status \/ excused \/ Coming
<1> SUFFICES Current'
  OBVIOUS
<1>t. /\ status \in Nat /\ published \in Nat /\ published <= status
      /\ load \in [Loads -> Requests]
      /\ shown \in Nat \cup {Nothing} /\ Nothing \notin Nat
  BY TrackingAssumption
     DEF TrackingAssumption, PageTypeOK, Requests, Statuses, NotAhead
<1>1. CASE StatusChanges
  <2>1. published' < status'
    BY <1>t, <1>1 DEF StatusChanges
  <2> QED
    BY <2>1 DEF Coming
<1>2. CASE Forward
  <2>1. UNCHANGED <<status, shown, load>> /\ published' = published + 1 /\ published < status
    BY <1>2 DEF Forward, page
  <2>2. CASE excused'
    BY <2>2
  <2>3. CASE mail' = mail \cup {published'} /\ excused' = excused
    <3>1. published' < status' \/ status' \in mail'
      BY <1>t, <2>1, <2>3
    <3> QED
      BY <3>1 DEF Coming
  <2> QED
    BY <1>2, <2>2, <2>3 DEF Forward
<1>3. ASSUME UNCHANGED <<status, published, shown, load>>,
             (mail' = mail /\ excused' = excused) \/ Deafened
      PROVE  Current'
  <2>1. CASE mail' = mail /\ excused' = excused
    BY <1>3, <2>1 DEF Coming
  <2>2. CASE Deafened
    BY <1>3, <2>2 DEF Coming, Deafened
  <2> QED
    BY <1>3, <2>1, <2>2
<1>4. ServerSubscribes \/ ServerForgets \/ TokenChanges \/ UNCHANGED pageVars =>
        /\ UNCHANGED <<status, published, shown, load>>
        /\ (mail' = mail /\ excused' = excused) \/ Deafened
  BY DEF ServerSubscribes, ServerForgets, TokenChanges, pageVars, order, link, page
<1>5. ASSUME NEW k \in Hooks, Opens(k) \/ \E t \in Tokens : Closes(k, t)
      PROVE  /\ UNCHANGED <<status, published, shown, load>>
             /\ (mail' = mail /\ excused' = excused) \/ Deafened
  BY <1>5 DEF Opens, Closes, order, page
<1>6. ASSUME NEW l \in Loads, Notified(l) \/ Poll(l)
      PROVE  Current'
  <2>1. load' = [load EXCEPT ![l] = Asked]
    BY <1>6 DEF Notified, Poll, Request
  <2>2. load'[l] = Asked
    BY <1>t, <2>1
  <2> QED
    BY <2>2 DEF Coming
<1>7. ASSUME NEW l \in Loads, Serve(l)
      PROVE  Current'
  <2>1. load' = [load EXCEPT ![l] = Answer(status)] /\ status' = status
    BY <1>7 DEF Serve, order
  <2>2. load'[l] = Answer(status')
    BY <1>t, <2>1
  <2> QED
    BY <2>2 DEF Coming
<1>8. ASSUME NEW l \in Loads, Loaded(l)
      PROVE  Current'
  <2> DEFINE s == load[l].status
  <2>1. /\ load[l].stage = "answered" /\ shown' = s
        /\ load' = [load EXCEPT ![l] = Free]
        /\ UNCHANGED <<status, published, mail>>
    BY <1>8 DEF Loaded, Forget, order, link
  <2>2. s \in Nat /\ s <= status /\ load[l] = Answer(s) /\ load[l] # Asked
    <3>1. load[l] \in Requests
      BY <1>t
    <3>2. s \in Statuses /\ load[l] = Answer(s) /\ load[l] # Asked
      BY <2>1, <3>1, Answers
    <3> QED
      BY <2>1, <3>2, TrackingAssumption DEF NotAhead, Statuses, TrackingAssumption
  <2> HIDE DEF s
  <2>3. CASE s = status
    BY <2>1, <2>3
  <2>4. CASE s # status /\ excused
    BY <1>8, <2>4 DEF Loaded, s
  <2>5. CASE s # status /\ shown = status
    <3>1. shown # Nothing /\ s < shown
      BY <1>t, <2>2, <2>5
    <3> QED
      BY <1>8, <2>5, <3>1 DEF Loaded, s
  <2>6. CASE s # status /\ Coming
    <3>1. load[l] # Answer(status)
      <4>1. Answer(s).status = s /\ Answer(status).status = status
        BY DEF Answer
      <4> QED
        BY <2>2, <2>6, <4>1
    <3>2. \A k \in Loads : load[k] \in {Asked, Answer(status)} => load'[k] = load[k]
      BY <1>t, <2>1, <2>2, <3>1
    <3>3. Coming'
      BY <2>1, <2>6, <3>2 DEF Coming
    <3> QED
      BY <3>3
  <2> QED
    BY <2>3, <2>4, <2>5, <2>6
<1>9. ASSUME NEW l \in Loads, LoadFails(l)
      PROVE  Current'
  BY <1>9 DEF LoadFails
<1> QED
  BY <1>1, <1>2, <1>3, <1>4, <1>5, <1>6, <1>7, <1>8, <1>9 DEF PageNext, Ends

(* Whatever the sockets do and however the answers of load() overlap: the  *)
(* flag wsConnected is that of an open socket, no answer is ahead of the   *)
(* order, and a page that is behind will ask or has asked, unless an event *)
(* was lost, a request failed or was overtaken since it was last right.    *)
THEOREM TrackingInvariant == PageSpec => []TrackingInv
<1>1. PageInit => TrackingInv
  <2> SUFFICES ASSUME PageInit
               PROVE  TrackingInv
    OBVIOUS
  <2>t. MaxStatus \in Nat /\ MaxTokens \in Nat \ {0} /\ Nothing \notin Nat
    BY TrackingAssumption DEF TrackingAssumption
  <2>1. \A n \in Statuses : n \in Nat
    BY <2>t DEF Statuses
  <2>2. status \in Statuses /\ published \in Statuses /\ published <= status
    BY <2>t DEF PageInit, Statuses
  <2>3. /\ load = [l \in Loads |-> IF l = first THEN Asked ELSE Free] /\ first \in Loads
        /\ load \in [Loads -> Requests] /\ load[first] = Asked
    BY DEF PageInit, Requests
  <2>4. \A l \in Loads : load[l].stage # "answered"
    BY <2>3 DEF Asked, Free
  <2>5. token = 1 /\ token \in Tokens
    BY <2>t DEF PageInit, Tokens
  <2>6. PICK h \in {"connecting", "open", "closed"} :
          /\ socket = [k \in Hooks |-> [t \in Tokens |->
                         IF t # 1 THEN "none" ELSE IF k = "header" THEN h ELSE "connecting"]]
          /\ wsConnected = (h = "open")
    BY DEF PageInit
  <2>7. socket \in [Hooks -> [Tokens -> SocketStates]] /\ wsConnected \in BOOLEAN
    BY <2>6 DEF SocketStates
  <2>8. socket["header"][token] = h
    BY <2>5, <2>6 DEF Hooks
  <2>9. LiveMeansOpen
    BY <2>6, <2>8 DEF LiveMeansOpen, Hooks
  <2>10. PageTypeOK
    BY <2>2, <2>3, <2>5, <2>7 DEF PageInit, PageTypeOK, Requests, SocketStates
  <2>11. Coming
    BY <2>3 DEF Coming
  <2> QED
    BY <2>2, <2>4, <2>9, <2>10, <2>11 DEF TrackingInv
<1>2. ASSUME TrackingInv, [PageNext]_pageVars
      PROVE  TrackingInv'
  <2>1. PageTypeOK /\ NotAhead /\ LiveMeansOpen /\ (shown = status \/ excused \/ Coming)
    BY <1>2 DEF TrackingInv, NotAhead
  <2>2. PageTypeOK'
    BY <1>2, <2>1, PageTypeNext
  <2>3. NotAhead'
    BY <1>2, <2>1, NotAheadNext
  <2>4. LiveMeansOpen'
    BY <1>2, <2>1, LiveNext
  <2>5. (shown = status \/ excused \/ Coming)'
    BY <1>2, <2>1, CurrentNext
  <2> QED
    BY <2>2, <2>3, <2>4, <2>5 DEF TrackingInv, NotAhead
<1> QED
  BY <1>1, <1>2, PTL DEF PageSpec

(* A page with no request under way and no event on its way shows the      *)
(* order as it is, unless it is excused.                                   *)
THEOREM QuietPagesAreCurrent == PageSpec => []QuietPageIsCurrent
<1>1. TrackingInv => QuietPageIsCurrent
  <2> SUFFICES ASSUME TrackingInv, Quiet, shown # status
               PROVE  excused
    BY DEF QuietPageIsCurrent
  <2>1. ~Coming
    <3>1. status \in Nat
      BY TrackingAssumption DEF TrackingInv, PageTypeOK, Statuses, TrackingAssumption
    <3>2. \A l \in Loads : load[l] \notin {Asked, Answer(status)}
      BY DEF Quiet, Free, Asked, Answer
    <3> QED
      BY <3>1, <3>2 DEF Quiet, Coming
  <2> QED
    BY <2>1 DEF TrackingInv
<1> QED
  BY <1>1, TrackingInvariant, PTL
=============================================================================
