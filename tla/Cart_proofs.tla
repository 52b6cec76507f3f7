----------------------------- MODULE Cart_proofs -----------------------------
(* Proofs about Cart for any sets of calls, variants and quantities, and   *)
(* about a tab before it, whatever its bounds.                             *)
EXTENDS Storefront, TLAPS

-----------------------------------------------------------------------------
(* What a request edits keeps its type, and puts no more in a line than is *)
(* there or is asked for.                                                  *)
LEMMA EditedLines ==
  ASSUME NEW r \in Request, NEW lines \in Items
  PROVE  /\ Edited(r, lines) \in Items
         /\ r.op \in {"add", "update"} => r.variant \in Variants /\ r.quantity \in Nat
         /\ r.op = "remove" => r.variant \in Variants
         /\ r.op \in {"add", "update", "remove", "price", "clear"}
<1>1. CASE r \in [op : {"add", "update"}, variant : Variants, quantity : Quantities]
  <2>1. r.op \in {"add", "update"} /\ r.variant \in Variants /\ r.quantity \in Nat
    BY <1>1, CartAssumption
  <2>2. lines[r.variant] + r.quantity \in Nat
    BY <2>1 DEF Items
  <2>3. Edited(r, lines) \in Items
    BY <2>1, <2>2 DEF Edited, Items
  <2> QED
    BY <2>1, <2>3
<1>2. CASE r \in [op : {"remove"}, variant : Variants]
  BY <1>2 DEF Edited, Items
<1>3. CASE r \in [op : {"price", "clear"}]
  BY <1>3 DEF Edited, Items, NoItems
<1> QED
  BY <1>1, <1>2, <1>3 DEF Request

(* A call past its start has a request.                                    *)
HasRequest == \A c \in Calls : pc[c] \in Running => request[c] \in Request

Typed == TypeOK /\ HasRequest

(* The initial state has the types.                                        *)
LEMMA TypedInit == Init => Typed
BY CartAssumption
   DEF Init, Typed, TypeOK, HasRequest, Items, NoItems, Running

(* A call that ends leaves every variable in its type.                     *)
LEMMA EndsTyped ==
  ASSUME Typed, NEW c \in Calls, NEW o \in Over, Ends(c, o)
  PROVE  /\ pc' \in [Calls -> {"idle"} \cup Running \cup Over]
         /\ request' \in [Calls -> Request \cup {NoRequest}]
         /\ items' \in [Calls -> Items]
         /\ todo' \in [Calls -> SUBSET Variants]
         /\ selected' \in [Calls -> Items \cup {NoRow}]
         /\ HasRequest'
BY DEF Typed, TypeOK, HasRequest, Ends, Goto, Items, NoItems, Over, Running

(* Every step of a call or of Redis keeps the types.                       *)
LEMMA TypedNext == Typed /\ [Next]_vars => Typed'
<1> SUFFICES ASSUME Typed, [Next]_vars
             PROVE  Typed'
  OBVIOUS
<1> USE DEF Typed, TypeOK, Goto, callVars, storeVars, historyVars
<1>1. ASSUME NEW c \in Calls, Start(c)
      PROVE  Typed'
  BY <1>1, EditedLines DEF Start, Harmed, HasRequest, Running
<1>2. ASSUME NEW c \in Calls, Resolve(c)
      PROVE  Typed'
  <2>1. CASE Ends(c, "refused")
    BY <1>2, <2>1, EndsTyped DEF Resolve, Over
  <2>2. CASE ~Ends(c, "refused")
    BY <1>2, <2>2 DEF Resolve, IsOp, HasRequest, Running
  <2> QED
    BY <2>1, <2>2
<1>3. ASSUME NEW c \in Calls, Read(c)
      PROVE  Typed'
  <2> DEFINE r == request[c]
  <2>1. r \in Request
    BY <1>3 DEF Read, HasRequest, Running
  <2>2. CASE Ends(c, "refused") /\ UNCHANGED asked
    BY <1>3, <2>2, EndsTyped DEF Read, Over
  <2>3. CASE ~(Ends(c, "refused") /\ UNCHANGED asked)
    <3>1. Edited(r, hash) \in Items
      BY <2>1, EditedLines
    <3>2. asked' \in Items
      BY <1>3, <2>1, <2>3, EditedLines DEF Read, Items
    <3>3. HasRequest'
      BY <1>3, <2>1, <2>3 DEF Read, HasRequest, Running
    <3> QED
      BY <1>3, <2>3, <3>1, <3>2, <3>3 DEF Read, Running
  <2> QED
    BY <2>2, <2>3
<1>4. ASSUME NEW c \in Calls, Del(c)
      PROVE  Typed'
  <2>1. todo' \in [Calls -> SUBSET Variants]
    BY <1>4 DEF Del, LinesOf
  <2>2. hash' \in Items
    BY <1>4 DEF Del, Items, NoItems
  <2>3. pc' \in [Calls -> {"idle"} \cup Running \cup Over] /\ HasRequest'
    BY <1>4 DEF Del, HasRequest, Running
  <2> QED
    BY <1>4, <2>1, <2>2, <2>3 DEF Del
<1>5. ASSUME NEW c \in Calls, HSetLine(c)
      PROVE  Typed'
  BY <1>5 DEF HSetLine, KeyAfterHSet, HasRequest, Items
<1>6. ASSUME NEW c \in Calls, HSetTotal(c) \/ SetExpiry(c) \/ SelectRow(c)
      PROVE  Typed'
  BY <1>6 DEF HSetTotal, SetExpiry, SelectRow, KeyAfterHSet, HasRequest, Running
<1>7. ASSUME NEW c \in Calls, Completes(c) \/ ReplyLost(c), pc[c] \in Running
      PROVE  /\ pc' \in [Calls -> {"idle"} \cup Running \cup Over]
             /\ request' \in [Calls -> Request \cup {NoRequest}]
             /\ items' \in [Calls -> Items]
             /\ todo' \in [Calls -> SUBSET Variants]
             /\ selected' \in [Calls -> Items \cup {NoRow}]
             /\ HasRequest'
             /\ expected' \in Items
             /\ harm' \in SUBSET {"overlap", "broken", "expired"}
  <2>1. CASE Completes(c)
    BY <1>7, <2>1, EndsTyped, EditedLines DEF Completes, Over, HasRequest
  <2>2. CASE ReplyLost(c)
    BY <2>2, EndsTyped DEF ReplyLost, Harmed, Over
  <2> QED
    BY <1>7, <2>1, <2>2
<1>8. ASSUME NEW c \in Calls, WriteRow(c) \/ DeleteRow(c)
      PROVE  Typed'
  <2>1. pc[c] \in Running /\ (Completes(c) \/ ReplyLost(c))
    BY <1>8 DEF WriteRow, DeleteRow, Running
  <2>2. snapshot' \in Items \cup {NoRow} /\ UNCHANGED <<hash, key, asked>>
    BY <1>8 DEF WriteRow, DeleteRow
  <2> QED
    BY <1>7, <2>1, <2>2
<1>9. ASSUME NEW c \in Calls, Fails(c)
      PROVE  Typed'
  BY <1>9, EndsTyped DEF Fails, Harmed, Over
<1>10. ASSUME NEW c \in Calls, PipelineCut(c)
       PROVE  Typed'
  BY <1>10 DEF PipelineCut, InPipeline, IsOp, HasRequest, Running, Harmed
<1>11. CASE CartExpires
  BY <1>11 DEF CartExpires, Harmed, HasRequest, Items, NoItems
<1>12. CASE UNCHANGED vars
  BY <1>12 DEF vars, HasRequest
<1> QED
  BY <1>1, <1>2, <1>3, <1>4, <1>5, <1>6, <1>8, <1>9, <1>10, <1>11, <1>12
     DEF Next, CallStep

(* Every variable of Cart keeps its type.                                  *)
THEOREM CartTyped == Spec => []TypeOK
<1>1. Typed => TypeOK
  BY DEF Typed
<1> QED
  BY <1>1, TypedInit, TypedNext, PTL DEF Spec
-----------------------------------------------------------------------------
(* A cart without a TTL is being written, or a pipeline broke off.         *)
LEMMA CartsExpireNext == TypeOK /\ CartsExpire /\ [Next]_vars => CartsExpire'
<1> SUFFICES ASSUME TypeOK, CartsExpire, [Next]_vars
             PROVE  CartsExpire'
  OBVIOUS
<1> USE DEF TypeOK, CartsExpire, InPipeline, Goto, callVars, storeVars, historyVars
<1>1. ASSUME NEW c \in Calls, Start(c)
      PROVE  CartsExpire'
  BY <1>1 DEF Start, Harmed
<1>2. ASSUME NEW c \in Calls, Resolve(c) \/ Read(c)
      PROVE  CartsExpire'
  BY <1>2 DEF Resolve, Read, Ends
<1>3. ASSUME NEW c \in Calls, Del(c) \/ SetExpiry(c)
      PROVE  CartsExpire'
  BY <1>3 DEF Del, SetExpiry
<1>4. ASSUME NEW c \in Calls, HSetLine(c) \/ HSetTotal(c)
      PROVE  CartsExpire'
  BY <1>4 DEF HSetLine, HSetTotal
<1>5. ASSUME NEW c \in Calls, SelectRow(c)
      PROVE  CartsExpire'
  BY <1>5 DEF SelectRow
<1>6. ASSUME NEW c \in Calls, WriteRow(c) \/ DeleteRow(c)
      PROVE  CartsExpire'
  BY <1>6 DEF WriteRow, DeleteRow, Completes, ReplyLost, Ends, Harmed
<1>7. ASSUME NEW c \in Calls, Fails(c) \/ PipelineCut(c)
      PROVE  CartsExpire'
  BY <1>7 DEF Fails, PipelineCut, Ends, Harmed
<1>8. CASE CartExpires
  BY <1>8 DEF CartExpires
<1>9. CASE UNCHANGED vars
  BY <1>9 DEF vars
<1> QED
  BY <1>1, <1>2, <1>3, <1>4, <1>5, <1>6, <1>7, <1>8, <1>9 DEF Next, CallStep

(* However calls mix their commands, only a broken pipeline leaves a cart  *)
(* that never expires.                                                     *)
THEOREM QuietCartsExpire == Spec => []CartsExpire
<1>1. Init => CartsExpire
  BY DEF Init, CartsExpire
<1> QED
  BY <1>1, CartsExpireNext, CartTyped, PTL DEF Spec

-----------------------------------------------------------------------------
(* What a call has in its copy was asked for as well.                      *)
CopiesAsked == \A c \in Calls, v \in Variants : items[c][v] <= asked[v]

AskedInv == NeverMoreThanAsked /\ CopiesAsked

(* What an edit makes of lines that were asked for, plus its own, was      *)
(* asked for.                                                              *)
LEMMA EditedAsked ==
  ASSUME NEW r \in Request, Typed, NeverMoreThanAsked,
         asked' = IF r.op \in {"add", "update"}
                    THEN [asked EXCEPT ![r.variant] = @ + r.quantity] ELSE asked
  PROVE  \A v \in Variants : asked[v] <= asked'[v] /\ Edited(r, hash)[v] <= asked'[v]
<1> USE DEF Typed, TypeOK, NeverMoreThanAsked, Items
<1>1. CASE r.op \in {"add", "update"}
  <2>1. r.variant \in Variants /\ r.quantity \in Nat
    BY <1>1, EditedLines
  <2>2. asked' = [asked EXCEPT ![r.variant] = @ + r.quantity]
    BY <1>1
  <2>3. CASE r.op = "add"
    <3>1. Edited(r, hash) = [hash EXCEPT ![r.variant] = @ + r.quantity]
      BY <2>3 DEF Edited
    <3> QED
      BY <2>1, <2>2, <3>1
  <2>4. CASE r.op = "update"
    <3>1. Edited(r, hash) = [hash EXCEPT ![r.variant] = r.quantity]
      BY <2>4 DEF Edited
    <3> QED
      BY <2>1, <2>2, <3>1
  <2> QED
    BY <1>1, <2>3, <2>4
<1>2. CASE r.op = "remove"
  BY <1>2, EditedLines DEF Edited
<1>3. CASE r.op \in {"price", "clear"}
  BY <1>3 DEF Edited, NoItems
<1> QED
  BY <1>1, <1>2, <1>3, EditedLines

(* No command of a save puts in hash or snapshot more than was asked for.  *)
LEMMA AskedNext == Typed /\ AskedInv /\ [Next]_vars => AskedInv'
<1> SUFFICES ASSUME Typed, AskedInv, [Next]_vars
             PROVE  AskedInv'
  OBVIOUS
<1> USE CartAssumption
    DEF Typed, TypeOK, AskedInv, NeverMoreThanAsked, CopiesAsked, Items, Goto, callVars,
        storeVars, historyVars
<1>1. ASSUME NEW c \in Calls, Ends(c, "done") \/ Ends(c, "refused") \/ Ends(c, "failed"),
             UNCHANGED asked
      PROVE  CopiesAsked'
  <2>1. items' = [items EXCEPT ![c] = NoItems]
    BY <1>1 DEF Ends
  <2>2. \A v \in Variants : NoItems[v] <= asked[v]
    BY DEF NoItems
  <2> QED
    BY <1>1, <2>1, <2>2
<1>2. ASSUME NEW c \in Calls, Start(c) \/ HSetTotal(c) \/ SetExpiry(c) \/ SelectRow(c)
      PROVE  AskedInv'
  <2>1. CASE Start(c)      BY <2>1 DEF Start
  <2>2. CASE HSetTotal(c)  BY <2>2 DEF HSetTotal
  <2>3. CASE SetExpiry(c)  BY <2>3 DEF SetExpiry
  <2>4. CASE SelectRow(c)  BY <2>4 DEF SelectRow
  <2> QED  BY <1>2, <2>1, <2>2, <2>3, <2>4
<1>3. ASSUME NEW c \in Calls, Resolve(c)
      PROVE  AskedInv'
  BY <1>3, <1>1 DEF Resolve
<1>4. ASSUME NEW c \in Calls, Read(c)
      PROVE  AskedInv'
  <2>1. request[c] \in Request
    BY <1>4 DEF Read, HasRequest, Running
  <2>2. CASE Ends(c, "refused") /\ UNCHANGED asked
    BY <1>4, <1>1, <2>2 DEF Read
  <2>3. CASE ~(Ends(c, "refused") /\ UNCHANGED asked)
    <3>1. \A v \in Variants :
            asked[v] <= asked'[v] /\ Edited(request[c], hash)[v] <= asked'[v]
      BY <1>4, <2>1, <2>3, EditedAsked DEF Read
    <3>2. items' = [items EXCEPT ![c] = Edited(request[c], hash)]
      BY <1>4, <2>3 DEF Read
    <3>3. UNCHANGED storeVars
      BY <1>4 DEF Read
    <3>4. asked' \in Items
      BY TypedNext
    <3> QED
      BY <3>1, <3>2, <3>3, <3>4
  <2> QED
    BY <2>2, <2>3
<1>5. ASSUME NEW c \in Calls, Del(c)
      PROVE  AskedInv'
  BY <1>5 DEF Del, NoItems
<1>6. ASSUME NEW c \in Calls, HSetLine(c)
      PROVE  AskedInv'
  BY <1>6 DEF HSetLine
<1>7. ASSUME NEW c \in Calls, WriteRow(c) \/ DeleteRow(c)
      PROVE  AskedInv'
  <2>1. NeverMoreThanAsked'
    BY <1>7 DEF WriteRow, DeleteRow
  <2>2. CopiesAsked'
    BY <1>7, <1>1 DEF WriteRow, DeleteRow, Completes, ReplyLost
  <2> QED
    BY <2>1, <2>2
<1>8. ASSUME NEW c \in Calls, Fails(c) \/ PipelineCut(c)
      PROVE  AskedInv'
  BY <1>8, <1>1 DEF Fails, PipelineCut
<1>9. CASE CartExpires
  BY <1>9 DEF CartExpires, NoItems
<1>10. CASE UNCHANGED vars
  BY <1>10 DEF vars
<1> QED
  BY <1>2, <1>3, <1>4, <1>5, <1>6, <1>7, <1>8, <1>9, <1>10 DEF Next, CallStep

(* No overlap and no failure puts more into a cart than was asked for.     *)
THEOREM CartsHoldWhatWasAsked == Spec => []NeverMoreThanAsked
<1>1. Init => AskedInv
  BY DEF Init, AskedInv, NeverMoreThanAsked, CopiesAsked, NoItems
<1>2. AskedInv => NeverMoreThanAsked
  BY DEF AskedInv
<1> QED
  BY <1>1, <1>2, AskedNext, TypedInit, TypedNext, PTL DEF Spec

-----------------------------------------------------------------------------
(* With no harm there is one call at work at most, ...                     *)
Solo == \A c, d \in Calls : pc[c] \in Running /\ pc[d] \in Running => c = d

(* ... and how far it is says what hash and row hold: the lines it found,  *)
(* ...                                                                     *)
RowFits == snapshot \in {expected} \cup (IF expected = NoItems THEN {NoRow} ELSE {})
Exact == hash = expected /\ RowFits

(* ... some of the lines it saves, or all of them.                         *)
Saves(c) == items[c] = Edited(request[c], expected)

Stage(c) ==
    /\ pc[c] \in {"read", "resolve", "del"} => Exact
    /\ \/ pc[c] = "resolve" /\ ~IsOp(c, {"add"})
       \/ pc[c] = "del" /\ ~IsOp(c, {"clear"})
       \/ pc[c] \in {"hset", "expire", "select", "write"}
       => Saves(c)
    /\ pc[c] \in {"hset", "expire", "select", "write", "deleteRow"} => RowFits
    /\ pc[c] = "hset" =>
         \A v \in Variants : hash[v] = IF v \in todo[c] THEN 0 ELSE items[c][v]
    /\ pc[c] \in {"expire", "select", "write"} => hash = items[c]
    /\ pc[c] = "write" => selected[c] = snapshot
    /\ pc[c] = "deleteRow" => hash = NoItems /\ request[c].op = "clear"

ExactInv == harm = {} => Solo /\ (Quiet => Exact) /\ \A c \in Calls : Stage(c)

(* A step of the one call at work that leaves it, and only it, at work:    *)
(* what there is to show is its own stage.                                 *)
LEMMA StaysSolo ==
  ASSUME Typed, ExactInv, harm = {}, NEW c \in Calls, pc[c] \in Running,
         NEW l \in Running, Goto(c, l), Stage(c)'
  PROVE  ExactInv'
<1>1. \A d \in Calls : d # c => pc'[d] \notin Running
  BY DEF ExactInv, Solo, Goto, Typed, TypeOK
<1>2. pc'[c] = l
  BY DEF Goto, Typed, TypeOK
<1>3. Solo' /\ ~Quiet'
  BY <1>1, <1>2 DEF Solo, Quiet
<1>4. ASSUME NEW d \in Calls
      PROVE  Stage(d)'
  <2>1. CASE d = c
    BY <2>1
  <2>2. CASE d # c
    BY <1>1, <2>2 DEF Stage, Running
  <2> QED
    BY <2>1, <2>2
<1> QED
  BY <1>3, <1>4 DEF ExactInv

(* A step that ends it: hash and row must be exact.                        *)
LEMMA EndsSolo ==
  ASSUME Typed, ExactInv, harm = {}, NEW c \in Calls, pc[c] \in Running,
         NEW o \in Over, Ends(c, o), Exact'
  PROVE  ExactInv'
<1>1. \A d \in Calls : pc'[d] \notin Running
  BY DEF ExactInv, Solo, Ends, Goto, Typed, TypeOK, Over, Running
<1> QED
  BY <1>1 DEF ExactInv, Solo, Stage, Running

(* The steps of a call that nothing harms.                                 *)
LEMMA ExactStep ==
  ASSUME Typed, ExactInv, harm = {}, harm' = {}, NEW c \in Calls,
         CallStep(c) \/ Fails(c)
  PROVE  ExactInv'
<1> USE DEF Typed, TypeOK, Goto, storeVars, historyVars
<1>1. Stage(c)
  BY DEF ExactInv
<1>2. CASE Start(c)
  <2>1. Quiet
    BY <1>2 DEF Start, Harmed
  <2>2. Exact
    BY <2>1 DEF ExactInv
  <2>3. PICK r \in Request :
          /\ request' = [request EXCEPT ![c] = r]
          /\ Goto(c, IF r.op = "add" THEN "resolve"
                     ELSE IF r.op = "clear" THEN "del" ELSE "read")
    BY <1>2 DEF Start
  <2>4. Stage(c)'
    BY <1>2, <2>2, <2>3 DEF Start, Stage, Exact, RowFits, IsOp
  <2>5. \A d \in Calls : d # c => pc'[d] \notin Running
    BY <2>1, <2>3 DEF Quiet
  <2>6. pc'[c] \in Running
    BY <2>3 DEF Running
  <2>7. \A d \in Calls : d # c => Stage(d)'
    BY <2>5 DEF Stage, Running
  <2>8. Solo' /\ ~Quiet'
    BY <2>5, <2>6 DEF Solo, Quiet
  <2> QED
    BY <2>4, <2>7, <2>8 DEF ExactInv
<1>3. CASE Resolve(c)
  <2>1. pc[c] \in Running
    BY <1>3 DEF Resolve, Running
  <2>2. CASE Ends(c, "refused")
    <3>1. Exact'
      BY <1>1, <1>3, <2>2 DEF Resolve, Stage, Exact, RowFits
    <3> QED
      BY <2>1, <2>2, <3>1, EndsSolo DEF Over
  <2>3. CASE Goto(c, IF IsOp(c, {"add"}) THEN "read" ELSE "del")
             /\ UNCHANGED <<request, items, todo, selected>>
    <3>1. Stage(c)'
      BY <1>1, <1>3, <2>3 DEF Resolve, Stage, Exact, RowFits, Saves, IsOp
    <3> QED
      BY <2>1, <2>3, <3>1, StaysSolo DEF Running
  <2> QED
    BY <1>3, <2>2, <2>3 DEF Resolve
<1>4. CASE Read(c)
  <2>1. pc[c] \in Running
    BY <1>4 DEF Read, Running
  <2>2. Exact /\ UNCHANGED <<storeVars, expected>>
    BY <1>1, <1>4 DEF Stage, Read
  <2>3. CASE Ends(c, "refused")
    BY <2>1, <2>2, <2>3, EndsSolo DEF Over, Exact, RowFits
  <2>4. CASE ~Ends(c, "refused")
    <3>1. /\ Goto(c, IF request[c].op \in {"update", "price"} THEN "resolve" ELSE "del")
          /\ items' = [items EXCEPT ![c] = Edited(request[c], hash)]
          /\ UNCHANGED request
      BY <1>4, <2>4 DEF Read
    <3>2. Stage(c)'
      BY <2>2, <3>1 DEF Stage, Exact, RowFits, Saves, Edited
    <3> QED
      BY <2>1, <3>1, <3>2, StaysSolo DEF Running
  <2> QED
    BY <2>3, <2>4
<1>5. CASE Del(c)
  <2>1. pc[c] \in Running
    BY <1>5 DEF Del, Running
  <2>2. CASE request[c].op = "clear"
    <3>1. Stage(c)'
      BY <1>1, <1>5, <2>2 DEF Del, Stage, IsOp, Exact, RowFits
    <3> QED
      BY <1>5, <2>1, <2>2, <3>1, StaysSolo DEF Del, IsOp, Running
  <2>3. CASE request[c].op # "clear"
    <3>1. /\ pc' = [pc EXCEPT ![c] = "hset"] /\ todo' = [todo EXCEPT ![c] = LinesOf(items[c])]
          /\ hash' = NoItems /\ UNCHANGED <<request, items, snapshot, expected>>
      BY <1>5, <2>3 DEF Del, IsOp
    <3>2. Saves(c)'
      BY <1>1, <1>5, <2>3, <3>1 DEF Del, Stage, IsOp, Saves, Edited
    <3>3. \A v \in Variants : hash'[v] = IF v \in todo'[c] THEN 0 ELSE items'[c][v]
      BY <3>1 DEF LinesOf, NoItems
    <3>4. Stage(c)'
      BY <1>1, <1>5, <3>1, <3>2, <3>3 DEF Del, Stage, Exact, RowFits
    <3> QED
      BY <2>1, <3>1, <3>4, StaysSolo DEF Running
  <2> QED
    BY <2>2, <2>3
<1>6. CASE HSetLine(c)
  <2>1. pc[c] \in Running /\ pc' = [pc EXCEPT ![c] = "hset"]
    BY <1>6 DEF HSetLine, Running
  <2>2. PICK v \in todo[c] : /\ hash' = [hash EXCEPT ![v] = items[c][v]]
                             /\ todo' = [todo EXCEPT ![c] = @ \ {v}]
    BY <1>6 DEF HSetLine
  <2>3. \A w \in Variants : hash'[w] = IF w \in todo'[c] THEN 0 ELSE items[c][w]
    BY <1>1, <1>6, <2>2 DEF HSetLine, Stage, Items
  <2>4. Stage(c)'
    BY <1>1, <1>6, <2>1, <2>3 DEF HSetLine, Stage, Saves, Edited, RowFits
  <2> QED
    BY <2>1, <2>4, StaysSolo DEF Running
<1>7. CASE HSetTotal(c)
  <2>1. hash = items[c]
    BY <1>1, <1>7 DEF HSetTotal, Stage, Items
  <2>2. Stage(c)'
    BY <1>1, <1>7, <2>1 DEF HSetTotal, Stage, Saves, Edited, RowFits
  <2> QED
    BY <1>7, <2>2, StaysSolo DEF HSetTotal, Running
<1>8. CASE SetExpiry(c)
  <2>1. Stage(c)'
    BY <1>1, <1>8 DEF SetExpiry, Stage, Saves, Edited, RowFits
  <2> QED
    BY <1>8, <2>1, StaysSolo DEF SetExpiry, Running
<1>9. CASE SelectRow(c)
  <2>1. Stage(c)'
    BY <1>1, <1>9 DEF SelectRow, Stage, Saves, Edited, RowFits
  <2> QED
    BY <1>9, <2>1, StaysSolo DEF SelectRow, Running
<1>10. CASE WriteRow(c) \/ DeleteRow(c)
  <2>1. Completes(c) /\ pc[c] \in Running /\ UNCHANGED hash
    BY <1>10 DEF WriteRow, DeleteRow, ReplyLost, Harmed, Running
  <2>2. expected' = Edited(request[c], expected)
    BY <2>1 DEF Completes
  <2>3. CASE WriteRow(c)
    <3>1. Saves(c) /\ hash = items[c] /\ selected[c] = snapshot
      BY <1>1, <2>3 DEF WriteRow, Stage
    <3>2. snapshot' = items[c]
      BY <2>3, <3>1 DEF WriteRow
    <3> QED
      BY <2>1, <2>2, <3>1, <3>2, EndsSolo DEF Completes, Over, Saves, Exact, RowFits
  <2>4. CASE DeleteRow(c)
    <3>1. hash = NoItems /\ request[c].op = "clear" /\ snapshot' = NoRow
      BY <1>1, <2>4 DEF DeleteRow, Stage
    <3>2. expected' = NoItems
      BY <2>2, <3>1 DEF Edited
    <3> QED
      BY <2>1, <3>1, <3>2, EndsSolo DEF Completes, Over, Exact, RowFits
  <2> QED
    BY <1>10, <2>3, <2>4
<1>11. CASE Fails(c)
  <2>1. pc[c] \in {"read", "resolve", "del"}
    BY <1>11 DEF Fails, Harmed
  <2>2. Exact'
    BY <1>1, <1>11, <2>1 DEF Fails, Stage, Exact, RowFits
  <2> QED
    BY <1>11, <2>2, EndsSolo DEF Fails, Over
<1> QED
  BY <1>2, <1>3, <1>4, <1>5, <1>6, <1>7, <1>8, <1>9, <1>10, <1>11 DEF CallStep

(* No step takes exactness away: a call that is alone writes what it read  *)
(* and changed, and one that meets another leaves harm.                    *)
LEMMA ExactNext == Typed /\ ExactInv /\ [Next]_vars => ExactInv'
<1> SUFFICES ASSUME Typed, ExactInv, [Next]_vars, harm' = {}
             PROVE  ExactInv'
  BY DEF ExactInv
<1>1. CASE UNCHANGED vars
  BY <1>1 DEF vars, callVars, storeVars, historyVars, ExactInv, Solo, Quiet, Exact,
              RowFits, Stage, Saves, Edited, IsOp
<1>2. CASE Next
  <2>1. harm = {} /\ \E c \in Calls : CallStep(c) \/ Fails(c)
    BY <1>2 DEF Next, CallStep, Start, Resolve, Read, Del, HSetLine, HSetTotal, SetExpiry,
                SelectRow, WriteRow, DeleteRow, Completes, ReplyLost, Fails, PipelineCut,
                CartExpires, Harmed, historyVars, Typed, TypeOK
  <2> QED
    BY <2>1, ExactStep
<1> QED
  BY <1>1, <1>2

(* As long as calls do not overlap, are not cut off after their first      *)
(* write and do not outlive the cart, hash and snapshot hold exactly what  *)
(* the completed calls make, in order.                                     *)
THEOREM QuietCartsAreExact == Spec => []QuietCartIsExact
<1>1. Init => ExactInv
  BY DEF Init, ExactInv, Solo, Exact, RowFits, Stage, Running
<1>2. ExactInv => QuietCartIsExact
  BY DEF ExactInv, QuietCartIsExact, Exact, RowFits
<1> QED
  BY <1>1, <1>2, ExactNext, TypedInit, TypedNext, PTL DEF Spec

-----------------------------------------------------------------------------
(* What a tab, its orders and other devices do to the cart are steps of    *)
(* Cart.                                                                   *)
LEMMA TabsCallTheCart == [StorefrontNext]_frontVars => [Next]_vars
<1> SUFFICES ASSUME [StorefrontNext]_frontVars
             PROVE  Next \/ UNCHANGED vars
  BY DEF vars
<1>1. ASSUME NEW c \in Calls, NEW r, Begins(c, r)
      PROVE  Next
  BY <1>1 DEF Begins, Next, CallStep
<1>2. ASSUME NEW c \in Calls, Edits(c) \/ ClearCart(c) \/ FetchLost(c) \/ OtherDevice(c)
      PROVE  Next \/ UNCHANGED vars
  BY <1>1, <1>2 DEF Edits, Add, Change, Answered, ClearCart, FetchLost, OtherDevice
<1>3. ASSUME NEW c \in Calls, Serves(c)
      PROVE  Next
  BY <1>3 DEF Serves, Works, Next, CallStep
<1>4. ASSUME NEW k \in Keys, Checks(k)
      PROVE  UNCHANGED vars
  BY <1>4 DEF Checks, OpenCheckout, Placed, Refused, TakeOrder, TakeLate, PostLost
<1>5. CASE OpenCart \/ ReadCart \/ ShowCart \/ LoadFails \/ LeaveCheckout \/ Place
  BY <1>5 DEF OpenCart, ReadCart, ShowCart, LoadFails, LeaveCheckout, Place
<1>6. CASE GetCart \/ Commit \/ CartIsCleared \/ OrderFails \/ Expiry \/ Reload \/ Logout
  BY <1>6 DEF GetCart, Commit, CartIsCleared, OrderFails, Expiry, Reload, Logout, Next
<1>7. CASE UNCHANGED frontVars
  BY <1>7 DEF frontVars
<1> QED
  BY <1>2, <1>3, <1>4, <1>5, <1>6, <1>7 DEF StorefrontNext

(* A tab implements any customer that Cart allows: what is proved of the   *)
(* calls holds of the calls of a tab.                                      *)
THEOREM StorefrontImplementsCart == StorefrontSpec => Spec
<1>1. StorefrontInit => Init
  BY DEF StorefrontInit
<1> QED
  BY <1>1, TabsCallTheCart, PTL DEF StorefrontSpec, Spec

(* The bookkeeping of the history keeps its type.                          *)
LEMMA StraysTyped ==
  ASSUME StorefrontTypeOK, NEW unsure \in BOOLEAN, Strays(unsure)
  PROVE  sure' \subseteq Keys /\ astray' \subseteq {"before", "since"}
BY DEF StorefrontTypeOK, Strays

(* What goes wrong in the browser keeps the history's types.               *)
LEMMA MishapTyped ==
  ASSUME StorefrontTypeOK, NEW unsure \in BOOLEAN, Mishap(unsure)
  PROVE  sure' \subseteq Keys /\ astray' \subseteq {"before", "since"} /\ mishaps' \in Nat
BY StraysTyped DEF StorefrontTypeOK, Mishap

(* POSTs that go on without the tab are counted.                           *)
LEMMA GoOnTyped ==
  ASSUME StorefrontTypeOK, NEW ks \in SUBSET Keys, GoOn(ks)
  PROVE  late' \in [Keys -> Nat] /\ \A k \in Keys \ ks : late'[k] = late[k]
BY DEF StorefrontTypeOK, GoOn

(* The tab's edits keep the types.                                         *)
LEMMA EditsTyped ==
  ASSUME TypeOK, StorefrontTypeOK, NEW c \in Calls, Edits(c)
  PROVE  StorefrontTypeOK'
<1> USE DEF StorefrontTypeOK
<1>1. ASSUME NEW from \in {"menu", "product", "cart"}, NEW before \in Items,
             Awaits(c, from, before)
      PROVE  fetch' \in [Calls -> Fetch \cup {None}]
  <2>1. NoItems \in Items
    BY DEF NoItems, Items
  <2>2. [from |-> from, before |-> before, got |-> "nothing", lines |-> NoItems] \in Fetch
    BY <2>1 DEF Fetch
  <2> QED
    BY <1>1, <2>2 DEF Awaits
<1>2. ASSUME NEW v \in Variants, NEW from \in {"menu", "product"}, Add(c, v, from)
      PROVE  StorefrontTypeOK'
  <2>1. store \in Items
    BY <1>2 DEF Add, Open
  <2>2. store' \in Items
    BY <1>2, <2>1 DEF Add, Items
  <2>3. fetch' \in [Calls -> Fetch \cup {None}]
    BY <1>1, <1>2, <2>1 DEF Add, Items, NoItems
  <2>4. sure' \subseteq Keys /\ astray' \subseteq {"before", "since"}
    BY <1>2, StraysTyped DEF Add, Calm
  <2> QED
    BY <1>2, <2>2, <2>3, <2>4 DEF Add, orderVars
<1>3. ASSUME NEW r \in Request, Change(c, r)
      PROVE  StorefrontTypeOK'
  <2>1. fetch' \in [Calls -> Fetch \cup {None}]
    BY <1>1, <1>3 DEF Change, Items, NoItems
  <2>2. sure' \subseteq Keys /\ astray' \subseteq {"before", "since"}
    BY <1>3, StraysTyped DEF Change, Calm
  <2> QED
    BY <1>3, <2>1, <2>2 DEF Change, orderVars
<1>4. CASE Answered(c)
  <2>1. fetch[c] \in Fetch
    BY <1>4 DEF Answered
  <2>2. fetch[c].before \in Items /\ fetch[c].lines \in Items
    BY <2>1 DEF Fetch
  <2>3. store' \in Items \cup {None}
    BY <1>4, <2>2 DEF Answered
  <2>4. fetch' \in [Calls -> Fetch \cup {None}]
    BY <1>4 DEF Answered
  <2>5. sure' \subseteq Keys /\ astray' \subseteq {"before", "since"}
    BY <1>4, StraysTyped DEF Answered
  <2> QED
    BY <1>4, <2>3, <2>4, <2>5 DEF Answered, orderVars
<1> QED
  BY <1>2, <1>3, <1>4 DEF Edits

(* The cart page, the checkout page and what goes wrong keep them.         *)
LEMMA PagesTyped ==
  ASSUME TypeOK, StorefrontTypeOK,
         \/ OpenCart \/ ReadCart \/ ShowCart \/ LoadFails \/ LeaveCheckout \/ Place
         \/ Expiry \/ Reload \/ Logout
  PROVE  StorefrontTypeOK'
<1> USE DEF StorefrontTypeOK, orderVars, tabVars, frontHistory
<1>1. NoItems \in Items
  BY DEF NoItems, Items
<1>2. CASE OpenCart
  <2>1. loading' \in Load
    BY <1>1, <1>2 DEF OpenCart, Load
  <2>2. astray' \subseteq {"before", "since"} /\ sure' \subseteq Keys
    BY <1>2 DEF OpenCart
  <2> QED
    BY <1>2, <2>1, <2>2 DEF OpenCart
<1>3. CASE ReadCart
  BY <1>3 DEF ReadCart, Load, TypeOK
<1>4. CASE ShowCart
  BY <1>4 DEF ShowCart, Load
<1>5. CASE LoadFails
  BY <1>5, MishapTyped DEF LoadFails
<1>6. CASE LeaveCheckout
  BY <1>6 DEF LeaveCheckout
<1>7. CASE Place
  <2>1. page \in Keys
    BY <1>7 DEF Place
  <2>2. sure' \subseteq Keys /\ astray' \subseteq {"before", "since"}
    BY <1>7, <2>1, StraysTyped DEF Place, Calm
  <2>3. post' \in [Keys -> {"idle", "sent", "working", "placed", "refused"}]
    BY <1>7 DEF Place
  <2>4. shown' \in [Keys -> Items]
    BY <1>7, <2>1 DEF Place, Open
  <2> QED
    BY <1>7, <2>2, <2>3, <2>4 DEF Place
<1>8. CASE Expiry
  BY <1>8, MishapTyped DEF Expiry
<1>9. CASE Reload
  <2>1. late' \in [Keys -> Nat]
    BY <1>9, GoOnTyped DEF Reload
  <2> QED
    BY <1>1, <1>9, <2>1, MishapTyped DEF Reload
<1>10. CASE Logout
  BY <1>1, <1>10, MishapTyped DEF Logout
<1> QED
  BY <1>2, <1>3, <1>4, <1>5, <1>6, <1>7, <1>8, <1>9, <1>10

(* The keys and the order service keep them.                               *)
LEMMA OrdersTyped ==
  ASSUME TypeOK, StorefrontTypeOK,
         \/ \E k \in Keys : Checks(k)
         \/ GetCart \/ Commit \/ CartIsCleared \/ OrderFails
         \/ \E c \in Calls : ClearCart(c)
  PROVE  StorefrontTypeOK'
<1> USE DEF StorefrontTypeOK, orderVars, tabVars, frontHistory
<1>1. NoItems \in Items
  BY DEF NoItems, Items
<1>2. ASSUME NEW k \in Keys, NEW answer \in {"placed", "refused"}, Replies(k, answer)
      PROVE  post' \in [Keys -> {"idle", "sent", "working", "placed", "refused"}]
  BY <1>2 DEF Replies
<1>3. job # None => job.key \in Keys /\ job.basket \in Items
  BY DEF Job
<1>4. ASSUME NEW k \in Keys, OpenCheckout(k) \/ Refused(k)
      PROVE  StorefrontTypeOK'
  BY <1>4 DEF OpenCheckout, Refused
<1>5. ASSUME NEW k \in Keys, Placed(k)
      PROVE  StorefrontTypeOK'
  BY <1>1, <1>5, StraysTyped DEF Placed, Keeps
<1>6. ASSUME NEW k \in Keys, TakeOrder(k)
      PROVE  StorefrontTypeOK'
  <2>1. job' \in Job \cup {None}
    BY <1>1, <1>6 DEF TakeOrder, Job
  <2>2. post' \in [Keys -> {"idle", "sent", "working", "placed", "refused"}]
    BY <1>6 DEF TakeOrder
  <2> QED
    BY <1>6, <2>1, <2>2 DEF TakeOrder
<1>7. ASSUME NEW k \in Keys, PostLost(k)
      PROVE  StorefrontTypeOK'
  <2>1. late' \in [Keys -> Nat]
    <3>1. CASE GoOn({k})
      BY <3>1, GoOnTyped
    <3>2. CASE UNCHANGED late
      BY <3>2
    <3> QED
      BY <1>7, <3>1, <3>2 DEF PostLost
  <2> QED
    BY <1>7, <2>1, MishapTyped DEF PostLost
<1>8. CASE GetCart
  <2>1. job' \in Job \cup {None}
    BY <1>8 DEF GetCart, Job, TypeOK
  <2>2. post' \in [Keys -> {"idle", "sent", "working", "placed", "refused"}]
    BY <1>2, <1>3, <1>8 DEF GetCart
  <2> QED
    BY <1>8, <2>1, <2>2 DEF GetCart
<1>9. CASE Commit
  <2>1. job' \in Job
    BY <1>9 DEF Commit, Job
  <2> QED
    BY <1>3, <1>9, <2>1 DEF Commit
<1>10. CASE CartIsCleared
  <2>1. post' \in [Keys -> {"idle", "sent", "working", "placed", "refused"}]
    BY <1>3, <1>10 DEF CartIsCleared, Replies
  <2>2. sure' \subseteq Keys /\ astray' \subseteq {"before", "since"}
    BY <1>10, StraysTyped DEF CartIsCleared
  <2> QED
    BY <1>10, <2>1, <2>2 DEF CartIsCleared
<1>11. CASE OrderFails
  <2>1. post' \in [Keys -> {"idle", "sent", "working", "placed", "refused"}]
    BY <1>2, <1>3, <1>11 DEF OrderFails
  <2>2. sure' \subseteq Keys /\ astray' \subseteq {"before", "since"} /\ mishaps' \in Nat
    <3>1. Mishap(TRUE) \/ Mishap(FALSE)
      BY <1>11 DEF OrderFails, Mishap, Strays
    <3> QED
      BY <3>1, MishapTyped
  <2> QED
    BY <1>11, <2>1, <2>2 DEF OrderFails
<1>12. ASSUME NEW c \in Calls, ClearCart(c)
       PROVE  StorefrontTypeOK'
  <2>1. job' \in Job
    BY <1>3, <1>12 DEF ClearCart, Job
  <2> QED
    BY <1>12, <2>1, StraysTyped DEF ClearCart, Keeps
<1>13. ASSUME NEW k \in Keys, TakeLate(k)
       PROVE  StorefrontTypeOK'
  <2>1. late' \in [Keys -> Nat]
    BY <1>13 DEF TakeLate
  <2>2. [key |-> k, at |-> "getCart", basket |-> NoItems] \in Job
    BY <1>1 DEF Job
  <2>3. job' \in Job \cup {None}
    BY <1>13, <2>2 DEF TakeLate
  <2> QED
    BY <1>13, <2>1, <2>3 DEF TakeLate
<1> QED
  BY <1>4, <1>5, <1>6, <1>7, <1>8, <1>9, <1>10, <1>11, <1>12, <1>13 DEF Checks

(* The calls of Cart keep them: what the tab hears of a call is quantities. *)
LEMMA CallsTyped ==
  ASSUME TypeOK, StorefrontTypeOK, NEW c \in Calls,
         Serves(c) \/ FetchLost(c) \/ OtherDevice(c)
  PROVE  StorefrontTypeOK'
<1> USE DEF StorefrontTypeOK, orderVars, tabVars, frontHistory
<1>1. NoItems \in Items
  BY DEF NoItems, Items
<1>2. ASSUME NEW got \in {"lines", "error"}, NEW lines \in Items, fetch[c] # None,
             fetch' = [fetch EXCEPT ![c].got = got, ![c].lines = lines]
      PROVE  fetch' \in [Calls -> Fetch \cup {None}]
  <2>1. fetch[c] \in Fetch
    BY <1>2
  <2>2. [fetch[c] EXCEPT !.got = got, !.lines = lines] \in Fetch
    BY <2>1 DEF Fetch
  <2>3. fetch' = [fetch EXCEPT ![c] = [fetch[c] EXCEPT !.got = got, !.lines = lines]]
    BY <1>2, <2>1 DEF Fetch
  <2> QED
    BY <2>2, <2>3
<1>3. CASE Serves(c)
  <2>1. fetch' \in [Calls -> Fetch \cup {None}]
    BY <1>1, <1>2, <1>3 DEF Serves, Hears, TypeOK
  <2>2. sure' \subseteq Keys /\ astray' \subseteq {"before", "since"} /\ mishaps' \in Nat
    BY <1>3, StraysTyped, MishapTyped DEF Serves, Keeps
  <2> QED
    BY <1>3, <2>1, <2>2 DEF Serves
<1>4. CASE FetchLost(c)
  <2>1. fetch' \in [Calls -> Fetch \cup {None}]
    BY <1>1, <1>2, <1>4 DEF FetchLost
  <2> QED
    BY <1>4, <2>1, MishapTyped DEF FetchLost
<1>5. CASE OtherDevice(c)
  BY <1>5, MishapTyped DEF OtherDevice
<1> QED
  BY <1>3, <1>4, <1>5

(* Types, and no cart for ever or with more than was asked for, whatever   *)
(* tab, devices and orders call.                                           *)
THEOREM StorefrontsCartHolds == StorefrontSpec => []CartInv
<1>1. StorefrontInit => StorefrontTypeOK
  BY StorefrontAssumption DEF StorefrontInit, StorefrontTypeOK, NoItems, Items
<1>2. TypeOK /\ StorefrontTypeOK /\ [StorefrontNext]_frontVars => StorefrontTypeOK'
  <2>1. CASE UNCHANGED frontVars
    BY <2>1 DEF StorefrontTypeOK, frontVars, tabVars, orderVars, frontHistory
  <2>2. CASE StorefrontNext
    BY <2>2, EditsTyped, PagesTyped, OrdersTyped, CallsTyped DEF StorefrontNext
  <2> QED
    BY <2>1, <2>2
<1>3. TypeOK /\ StorefrontTypeOK /\ NeverMoreThanAsked /\ CartsExpire => CartInv
  BY DEF CartInv
<1> QED
  BY <1>1, <1>2, <1>3, StorefrontImplementsCart, CartTyped, CartsHoldWhatWasAsked,
     QuietCartsExpire, PTL DEF StorefrontSpec

-----------------------------------------------------------------------------
(* The tab: what it knows of its keys, ...                                 *)
NoEdit == \A c \in Calls : fetch[c] = None
NoPost == \A k \in Keys : post[k] = "idle"
NoLate == \A k \in Keys : late[k] = 0

KeysAreKnown ==
    /\ page # None => page \in visited
    /\ job # None => job.key \in visited
    /\ \A k \in Keys \ visited : post[k] = "idle" /\ late[k] = 0 /\ orders[k] = None
    /\ sure \subseteq visited
    /\ ~Open => page = None /\ visited = {} /\ NoEdit /\ loading = None

(* ... and when a key has an order: from the commit of its one job on.     *)
DecidedOnce ==
    /\ job # None => (job.at \in {"getCart", "commit"} <=> orders[job.key] = None)
    /\ \A k \in Keys : post[k] = "placed" => orders[k] # None

(* What the bookkeeping of a step says: the step is not unsure, or the tab *)
(* is astray, and an order is for sure only where there is one.            *)
LEMMA StraysTell ==
  ASSUME NEW unsure \in BOOLEAN, Strays(unsure)
  PROVE  /\ sure' \subseteq sure
         /\ ~unsure => astray' = astray /\ sure' = sure
         /\ unsure /\ Open => "since" \in astray' /\ \A k \in sure' : orders[k] # None
BY DEF Strays

(* The same of a step that goes wrong.                                     *)
LEMMA MishapTells ==
  ASSUME NEW unsure \in BOOLEAN, Mishap(unsure)
  PROVE  /\ sure' \subseteq sure
         /\ ~unsure => astray' = astray /\ sure' = sure
         /\ unsure /\ Open => "since" \in astray' /\ \A k \in sure' : orders[k] # None
BY StraysTell DEF Mishap

(* Only checkout pages that were opened have keys in use.                  *)
LEMMA KeysAreKnownNext ==
  ASSUME TypeOK, StorefrontTypeOK, KeysAreKnown, [StorefrontNext]_frontVars
  PROVE  KeysAreKnown'
<1> USE StorefrontAssumption DEF StorefrontTypeOK, KeysAreKnown, NoEdit, Open
<1>0. NoItems \in Items /\ NoItems # None /\ TRUE \in BOOLEAN /\ FALSE \in BOOLEAN
  BY DEF NoItems, Items
<1>1. ASSUME NEW c \in Calls, Edits(c)
      PROVE  KeysAreKnown'
  <2>1. sure' \subseteq sure /\ Open /\ store' # None
    <3>1. CASE \E v \in Variants, from \in {"menu", "product"} : Add(c, v, from)
      <4>1. PICK v \in Variants, from \in {"menu", "product"} : Add(c, v, from)
        BY <3>1
      <4>2. store' \in Items
        BY <4>1 DEF Add, Items
      <4>3. sure' \subseteq sure
        BY <4>1, StraysTell DEF Add, Calm
      <4> QED
        BY <4>1, <4>2, <4>3 DEF Add
    <3>2. CASE \E r \in Request : Change(c, r)
      BY <3>2, StraysTell DEF Change, Calm
    <3>3. CASE Answered(c)
      <4>1. fetch[c] \in Fetch
        BY <3>3 DEF Answered
      <4>2. store' # None
        BY <3>3, <4>1 DEF Answered, Fetch
      <4> QED
        BY <3>3, <4>2, StraysTell DEF Answered
    <3> QED
      BY <1>1, <3>1, <3>2, <3>3 DEF Edits
  <2> QED
    BY <1>1, <2>1 DEF Edits, Add, Change, Answered, orderVars
<1>2. ASSUME NEW c \in Calls, ClearCart(c)
      PROVE  KeysAreKnown'
  BY <1>2, StraysTell DEF ClearCart, Keeps, tabVars
<1>3. ASSUME NEW c \in Calls, Serves(c) \/ FetchLost(c) \/ OtherDevice(c)
      PROVE  KeysAreKnown'
  <2>1. sure' \subseteq sure
    BY <1>3, StraysTell, MishapTells DEF Serves, FetchLost, OtherDevice, Keeps
  <2> QED
    BY <1>3, <2>1 DEF Serves, Hears, FetchLost, OtherDevice, tabVars, orderVars
<1>4. ASSUME NEW k \in Keys, Checks(k)
      PROVE  KeysAreKnown'
  <2>1. sure' \subseteq sure
    BY <1>4, StraysTell, MishapTells
       DEF Checks, OpenCheckout, Placed, Refused, TakeOrder, TakeLate, PostLost, Keeps,
           frontHistory
  <2>2. CASE OpenCheckout(k)
    BY <2>1, <2>2 DEF OpenCheckout, orderVars
  <2>3. CASE Placed(k) \/ Refused(k)
    BY <1>0, <2>1, <2>3 DEF Placed, Refused, orderVars
  <2>4. CASE PostLost(k)
    <3>1. k \in visited /\ \A j \in Keys \ {k} : late'[j] = late[j] /\ post'[j] = post[j]
      BY <2>4, GoOnTyped DEF PostLost
    <3> QED
      BY <2>1, <2>4, <3>1 DEF PostLost
  <2>5. CASE TakeOrder(k)
    BY <2>1, <2>5 DEF TakeOrder
  <2>6. CASE TakeLate(k)
    <3>1. k \in visited /\ \A j \in Keys \ {k} : late'[j] = late[j]
      BY <2>6 DEF TakeLate
    <3>2. job' # None => job'.key \in visited
      BY <2>6, <3>1 DEF TakeLate
    <3> QED
      BY <2>1, <2>6, <3>1, <3>2 DEF TakeLate, tabVars
  <2> QED
    BY <1>4, <2>2, <2>3, <2>4, <2>5, <2>6 DEF Checks
<1>5. CASE OpenCart \/ ReadCart \/ ShowCart \/ LoadFails
  <2>1. sure' \subseteq sure /\ (Open => store' # None)
    <3>1. CASE LoadFails
      BY <3>1, MishapTells DEF LoadFails
    <3>2. CASE ShowCart
      <4>1. loading.lines \in Items
        BY <3>2 DEF ShowCart, Load
      <4> QED
        BY <3>2, <4>1 DEF ShowCart
    <3>3. CASE OpenCart \/ ReadCart
      BY <3>3 DEF OpenCart, ReadCart, frontHistory
    <3> QED
      BY <1>5, <3>1, <3>2, <3>3
  <2> QED
    BY <1>5, <2>1 DEF OpenCart, ReadCart, ShowCart, LoadFails, orderVars
<1>6. CASE LeaveCheckout
  BY <1>6 DEF LeaveCheckout, orderVars, frontHistory
<1>7. CASE Place
  <2>1. sure' \subseteq sure \cup {page}
    BY <1>7, StraysTell DEF Place, Calm
  <2> QED
    BY <1>7, <2>1 DEF Place, orderVars
<1>8. CASE GetCart \/ Commit \/ CartIsCleared \/ OrderFails
  <2>1. sure' \subseteq sure
    <3>1. CASE OrderFails
      BY <3>1 DEF OrderFails, Mishap, Strays
    <3>2. CASE GetCart \/ Commit \/ CartIsCleared
      BY <3>2, StraysTell DEF GetCart, Commit, CartIsCleared, frontHistory
    <3> QED
      BY <1>8, <3>1, <3>2
  <2>2. job # None /\ job \in Job /\ job.key \in visited
    BY <1>8 DEF GetCart, Commit, CartIsCleared, OrderFails
  <2>3. job' # None => job'.key = job.key
    BY <1>8, <2>2 DEF GetCart, Commit, CartIsCleared, OrderFails, Job
  <2>4. UNCHANGED <<store, fetch, loading, page, visited>>
    BY <1>8 DEF GetCart, Commit, CartIsCleared, OrderFails, tabVars
  <2>5. \A k \in Keys \ visited : post'[k] = "idle" /\ late'[k] = 0 /\ orders'[k] = None
    BY <1>8, <2>2 DEF GetCart, Commit, CartIsCleared, OrderFails, Replies, tabVars, Job
  <2> QED
    BY <2>1, <2>2, <2>3, <2>4, <2>5
<1>9. CASE Expiry \/ Reload \/ Logout
  <2>1. sure' \subseteq sure
    BY <1>9 DEF Expiry, Reload, Logout, Mishap, Strays
  <2>2. CASE Expiry
    BY <2>1, <2>2 DEF Expiry, tabVars, orderVars
  <2>3. CASE Reload
    <3>1. \A k \in Keys \ visited : late'[k] = late[k]
      BY <2>3, GoOnTyped DEF Reload
    <3> QED
      BY <1>0, <2>1, <2>3, <3>1 DEF Reload
  <2>4. CASE Logout
    BY <1>0, <2>1, <2>4 DEF Logout, orderVars
  <2> QED
    BY <1>9, <2>2, <2>3, <2>4
<1>10. CASE UNCHANGED frontVars
  BY <1>10 DEF frontVars, tabVars, orderVars, frontHistory
<1> QED
  BY <1>1, <1>2, <1>3, <1>4, <1>5, <1>6, <1>7, <1>8, <1>9, <1>10 DEF StorefrontNext

(* A job commits before it clears, and no job begins for a key that has an *)
(* order.                                                                  *)
LEMMA DecidedOnceNext ==
  ASSUME TypeOK, StorefrontTypeOK, DecidedOnce, [StorefrontNext]_frontVars
  PROVE  DecidedOnce'
<1> USE StorefrontAssumption DEF StorefrontTypeOK, DecidedOnce
<1>0. job # None => job \in Job /\ job.key \in Keys /\ job.basket \in Items
  BY DEF Job
<1>1. ASSUME NEW c \in Calls, Edits(c)
      PROVE  DecidedOnce'
  BY <1>1 DEF Edits, Add, Change, Answered, orderVars
<1>2. ASSUME NEW c \in Calls, ClearCart(c)
      PROVE  DecidedOnce'
  BY <1>0, <1>2 DEF ClearCart, tabVars
<1>3. ASSUME NEW c \in Calls, Serves(c) \/ FetchLost(c) \/ OtherDevice(c)
      PROVE  DecidedOnce'
  BY <1>3 DEF Serves, FetchLost, OtherDevice, tabVars, orderVars
<1>4. ASSUME NEW k \in Keys, Checks(k)
      PROVE  DecidedOnce'
  <2>1. CASE TakeOrder(k)
    BY <2>1 DEF TakeOrder
  <2>2. CASE OpenCheckout(k) \/ Placed(k) \/ Refused(k) \/ PostLost(k)
    BY <2>2 DEF OpenCheckout, Placed, Refused, PostLost, orderVars
  <2>3. CASE TakeLate(k)
    BY <2>3 DEF TakeLate, tabVars
  <2> QED
    BY <1>4, <2>1, <2>2, <2>3 DEF Checks
<1>5. CASE OpenCart \/ ReadCart \/ ShowCart \/ LoadFails \/ LeaveCheckout \/ Place
  BY <1>5 DEF OpenCart, ReadCart, ShowCart, LoadFails, LeaveCheckout, Place, orderVars
<1>6. CASE GetCart
  <2>1. job' # None => job'.key = job.key /\ job'.at = "commit" /\ job.at = "getCart"
    BY <1>0, <1>6 DEF GetCart, Job
  <2>2. \A k \in Keys : post'[k] = "placed" => post[k] = "placed"
    BY <1>0, <1>6 DEF GetCart, Replies
  <2> QED
    BY <1>0, <1>6, <2>1, <2>2 DEF GetCart
<1>7. CASE Commit
  <2>1. job'.key = job.key /\ job'.at = "clearCart"
    BY <1>0, <1>7 DEF Commit, Job
  <2>2. orders'[job.key] # None /\ \A k \in Keys : orders[k] # None => orders'[k] # None
    BY <1>0, <1>7 DEF Commit
  <2>3. post' = post
    BY <1>7 DEF Commit, tabVars
  <2> QED
    BY <1>0, <2>1, <2>2, <2>3
<1>8. CASE CartIsCleared
  BY <1>0, <1>8 DEF CartIsCleared, Replies
<1>9. CASE OrderFails
  BY <1>0, <1>9 DEF OrderFails, Replies
<1>10. CASE Expiry \/ Reload \/ Logout
  BY <1>10 DEF Expiry, Reload, Logout, tabVars, orderVars
<1>11. CASE UNCHANGED frontVars
  BY <1>11 DEF frontVars, tabVars, orderVars, frontHistory
<1> QED
  BY <1>1, <1>2, <1>3, <1>4, <1>5, <1>6, <1>7, <1>8, <1>9, <1>10, <1>11 DEF StorefrontNext

(* The order of a key never becomes another, in whatever way its page is   *)
(* pressed again, its answer lost or its job repeated.                     *)
OrdersStay == \A k \in Keys : orders[k] # None => orders'[k] = orders[k]

LEMMA OrdersStayNext ==
  ASSUME StorefrontTypeOK, DecidedOnce, [StorefrontNext]_frontVars
  PROVE  OrdersStay
<1> USE DEF StorefrontTypeOK, DecidedOnce, OrdersStay
<1>1. CASE Commit
  <2>1. orders[job.key] = None
    BY <1>1 DEF Commit
  <2>2. orders' = [orders EXCEPT ![job.key] = job.basket]
    BY <1>1 DEF Commit
  <2> QED
    BY <2>1, <2>2
<1>2. ASSUME orders' = orders
      PROVE  OrdersStay
  BY <1>2
<1>3. ASSUME NEW c \in Calls, Edits(c)
      PROVE  orders' = orders
  BY <1>3 DEF Edits, Add, Change, Answered, orderVars
<1>4. ASSUME NEW c \in Calls,
             ClearCart(c) \/ Serves(c) \/ FetchLost(c) \/ OtherDevice(c)
      PROVE  orders' = orders
  BY <1>4 DEF ClearCart, Serves, FetchLost, OtherDevice, orderVars
<1>5. ASSUME NEW k \in Keys, Checks(k)
      PROVE  orders' = orders
  BY <1>5 DEF Checks, OpenCheckout, Placed, Refused, TakeOrder, TakeLate, PostLost, orderVars
<1>6. CASE OpenCart \/ ReadCart \/ ShowCart \/ LoadFails \/ LeaveCheckout \/ Place
  BY <1>2, <1>6 DEF OpenCart, ReadCart, ShowCart, LoadFails, LeaveCheckout, Place, orderVars
<1>7. CASE GetCart \/ CartIsCleared \/ OrderFails \/ Expiry \/ Reload \/ Logout
  BY <1>2, <1>7 DEF GetCart, CartIsCleared, OrderFails, Expiry, Reload, Logout, orderVars
<1>8. CASE UNCHANGED frontVars
  BY <1>2, <1>8 DEF frontVars, orderVars
<1> QED
  BY <1>1, <1>2, <1>3, <1>4, <1>5, <1>6, <1>7, <1>8 DEF StorefrontNext

-----------------------------------------------------------------------------
(* A tab that has not gone astray since it last loaded the cart has one    *)
(* thing on its way at most, and then it is known where the lines are that *)
(* it is to show.                                                          *)
Clean == Open /\ "since" \notin astray

(* What is on show is the cart, but for a load that is still to come.      *)
Fits == astray = {} => store = hash

(* One edit: until its DEL the cart is what the rollback shows again, from *)
(* its last HSET on what the answer brings.                                *)
Before(c) ==
    /\ fetch[c].from = "menu" => (astray = {} => fetch[c].before = hash)
    /\ fetch[c].from = "cart" => Fits

Saving(c) ==
    /\ pc[c] \in {"read", "resolve", "del"} => Before(c)
    /\ pc[c] = "hset" => \A v \in Variants \ todo[c] : hash[v] = items[c][v]
    /\ pc[c] \in {"expire", "select", "write"} => hash = items[c]
    /\ pc[c] # "deleteRow" /\ ~IsOp(c, {"clear"})

Editing(c) ==
    /\ \A d \in Calls \ {c} : fetch[d] = None /\ pc[d] \notin Running
    /\ loading = None /\ job = None /\ NoPost /\ NoLate
    /\ fetch[c] # None
    /\ fetch[c].got = "nothing" => pc[c] \in Running /\ Saving(c)
    /\ fetch[c].got # "nothing" => pc[c] \notin Running
    /\ fetch[c].got = "lines" => fetch[c].lines = hash
    /\ fetch[c].got = "error" => Before(c)

(* One load of the cart page.                                              *)
Loading ==
    /\ Quiet /\ NoEdit /\ job = None /\ NoPost /\ NoLate
    /\ loading # None
    /\ Fits
    /\ loading.got = "lines" => loading.lines = hash

(* One order, which leaves the cart alone until it has its lines, and then *)
(* clears it.                                                              *)
OnlyPost(k) ==
    /\ NoEdit /\ loading = None
    /\ \A l \in Keys \ {k} : post[l] = "idle"

Clearing(c) ==
    /\ \A d \in Calls \ {c} : pc[d] \notin Running
    /\ pc[c] \in Running => pc[c] \in {"del", "deleteRow"} /\ IsOp(c, {"clear"})
    /\ pc[c] \in {"deleteRow", "done"} => hash = NoItems

Working(k) ==
    /\ job # None /\ job.key = k
    /\ IF job.at = "clearing" THEN Clearing(job.call) ELSE Quiet
    /\ job.at \in {"getCart", "commit"} => orders[k] = None /\ Fits

Ordering(k) ==
    /\ OnlyPost(k) /\ NoLate
    /\ post[k] # "idle"
    /\ IF post[k] = "working" THEN Working(k) ELSE job = None /\ Quiet
    /\ post[k] \in {"sent", "refused"} => orders[k] = None /\ Fits
    /\ post[k] = "placed" => hash = NoItems

(* On the checkout page an order is made once: its answer ends the visit.  *)
FreshPage ==
    page # None /\ orders[page] # None => post[page] \in {"working", "placed"}

OneThing ==
    \/ Calm /\ Fits
    \/ Loading
    \/ \E c \in Calls : Editing(c)
    \/ \E k \in Keys : Ordering(k)

InOrder == Clean => FreshPage /\ OneThing

(* While a call is served nothing but the cart, the call and what the tab  *)
(* hears of it changes; an answer that is served is what the call saved,   *)
(* and a call that is refused has saved nothing.                           *)
LEMMA ServedCalls ==
  ASSUME Typed, StorefrontTypeOK, NEW c \in Calls, Serves(c), Clean, Clean'
  PROVE  /\ astray' = astray /\ sure' = sure
         /\ UNCHANGED <<store, loading, page, visited, post, late, job, orders, shown>>
         /\ pc[c] \in Running
         /\ \A d \in Calls \ {c} : pc'[d] = pc[d] /\ fetch'[d] = fetch[d]
         /\ \/ Works(c)
            \/ (WriteRow(c) \/ DeleteRow(c)) /\ pc'[c] = "done"
            \/ Fails(c) /\ pc[c] \in {"read", "resolve", "del"}
<1> USE DEF Typed, TypeOK, StorefrontTypeOK
<1>1. UNCHANGED <<store, loading, page, visited, post, late, job, orders, shown>>
  BY DEF Serves, orderVars
<1>2. ~Mishap(TRUE)
  BY <1>1 DEF Mishap, Strays, Clean, Open
<1>3. /\ \/ Works(c)
         \/ (WriteRow(c) \/ DeleteRow(c)) /\ pc'[c] = "done"
         \/ Fails(c) /\ pc[c] \in {"read", "resolve", "del"}
      /\ Strays(FALSE)
  BY <1>2 DEF Serves, Keeps, Mishap
<1>4. astray' = astray /\ sure' = sure
  BY <1>3 DEF Strays
<1>5. pc[c] \in Running
  BY <1>3 DEF Works, Resolve, Read, Del, HSetLine, HSetTotal, SetExpiry, SelectRow,
              WriteRow, DeleteRow, Fails, Running
<1>6. \A d \in Calls \ {c} : pc'[d] = pc[d]
  BY <1>3 DEF Works, Resolve, Read, Del, HSetLine, HSetTotal, SetExpiry, SelectRow,
              WriteRow, DeleteRow, Fails, Completes, ReplyLost, Ends, Goto
<1>7. \A d \in Calls \ {c} : fetch'[d] = fetch[d]
  BY DEF Serves, Hears
<1> QED
  BY <1>1, <1>3, <1>4, <1>5, <1>6, <1>7

(* The edit's call: what it does to the cart and what the tab hears of it. *)
LEMMA EditIsServed ==
  ASSUME Typed, StorefrontTypeOK, NEW c \in Calls, Editing(c), Serves(c), Clean, Clean'
  PROVE  Editing(c)'
<1> USE DEF Typed, TypeOK, StorefrontTypeOK
<1>1. /\ astray' = astray
      /\ UNCHANGED <<store, loading, post, late, job>>
      /\ pc[c] \in Running
      /\ \A d \in Calls \ {c} : pc'[d] = pc[d] /\ fetch'[d] = fetch[d]
  BY ServedCalls
<1>2. fetch[c] \in Fetch /\ fetch[c].got = "nothing" /\ Saving(c)
  BY <1>1 DEF Editing, Fetch, NoLate
<1>3. \/ Works(c)
      \/ WriteRow(c) /\ pc'[c] = "done"
      \/ Fails(c) /\ pc[c] \in {"read", "resolve", "del"}
  BY <1>2, ServedCalls DEF Saving, DeleteRow
<1>4. ASSUME pc'[c] \in Running, Saving(c)'
      PROVE  Editing(c)'
  <2>1. fetch' = fetch
    BY <1>4 DEF Serves, Hears, Running, Over
  <2> QED
    BY <1>1, <1>2, <1>4, <2>1 DEF Editing, NoPost, NoLate
<1>5. ASSUME NEW o \in Over, pc'[c] = o, hash' = hash,
             IF o = "done" THEN items[c] = hash ELSE Before(c)
      PROVE  Editing(c)'
  <2>1. /\ fetch'[c] # None
        /\ fetch'[c].from = fetch[c].from /\ fetch'[c].before = fetch[c].before
        /\ fetch'[c].got = IF o = "done" THEN "lines" ELSE "error"
        /\ fetch'[c].lines = IF o = "done" THEN items[c] ELSE NoItems
    <3>1. fetch' = [fetch EXCEPT ![c] =
             [fetch[c] EXCEPT !.got = IF o = "done" THEN "lines" ELSE "error",
                              !.lines = IF o = "done" THEN items[c] ELSE NoItems]]
      BY <1>2, <1>5 DEF Serves, Hears, Editing, NoLate
    <3>2. items[c] \in Items /\ NoItems \in Items
      BY DEF NoItems, Items
    <3>3. fetch'[c] = [fetch[c] EXCEPT !.got = IF o = "done" THEN "lines" ELSE "error",
                              !.lines = IF o = "done" THEN items[c] ELSE NoItems]
      BY <3>1
    <3>4. fetch'[c] \in Fetch
      BY <1>2, <3>2, <3>3 DEF Fetch
    <3> QED
      BY <1>2, <3>3, <3>4, StorefrontAssumption DEF Fetch, StorefrontAssumption
  <2>2. pc'[c] \notin Running
    BY <1>5 DEF Over, Running
  <2>3. o # "done" => Before(c)'
    BY <1>1, <1>5, <2>1 DEF Before, Fits
  <2> QED
    BY <1>1, <1>5, <2>1, <2>2, <2>3 DEF Editing, NoPost, NoLate
<1>6. ASSUME NEW l \in Running, pc'[c] = l, hash' = hash, Before(c)
      PROVE  Before(c)'
  <2>1. fetch' = fetch
    BY <1>6 DEF Serves, Hears, Running, Over
  <2> QED
    BY <1>1, <1>6, <2>1 DEF Before, Fits
<1>7. CASE Resolve(c)
  <2>1. hash' = hash /\ Before(c)
    BY <1>2, <1>7 DEF Resolve, Saving, storeVars
  <2>2. CASE Ends(c, "refused")
    <3>1. pc'[c] = "refused"
      BY <2>2 DEF Ends, Goto
    <3> QED
      BY <1>5, <2>1, <3>1 DEF Over
  <2>3. CASE pc'[c] \in {"read", "del"} /\ request' = request
    <3>1. Before(c)'
      BY <1>6, <2>1, <2>3 DEF Running
    <3> QED
      BY <1>2, <1>4, <2>3, <3>1 DEF Saving, IsOp, Running
  <2> QED
    BY <1>7, <2>2, <2>3 DEF Resolve, Goto
<1>8. CASE Read(c)
  <2>1. hash' = hash /\ Before(c)
    BY <1>2, <1>8 DEF Read, Saving, storeVars
  <2>2. CASE Ends(c, "refused")
    <3>1. pc'[c] = "refused"
      BY <2>2 DEF Ends, Goto
    <3> QED
      BY <1>5, <2>1, <3>1 DEF Over
  <2>3. CASE pc'[c] \in {"resolve", "del"} /\ request' = request
    <3>1. Before(c)'
      BY <1>6, <2>1, <2>3 DEF Running
    <3> QED
      BY <1>2, <1>4, <2>3, <3>1 DEF Saving, IsOp, Running
  <2> QED
    BY <1>8, <2>2, <2>3 DEF Read, Goto
<1>9. CASE Del(c)
  <2>1. /\ pc'[c] = "hset" /\ request' = request
        /\ hash' = NoItems /\ items' = items /\ todo'[c] = LinesOf(items[c])
    BY <1>2, <1>9 DEF Del, Goto, Saving
  <2>2. \A v \in Variants \ todo'[c] : hash'[v] = items'[c][v]
    BY <2>1 DEF LinesOf, NoItems
  <2> QED
    BY <1>2, <1>4, <2>1, <2>2 DEF Saving, IsOp, Running
<1>10. CASE HSetLine(c)
  <2>1. /\ pc[c] = "hset" /\ pc' = pc /\ request' = request /\ items' = items
    BY <1>10 DEF HSetLine
  <2>2. PICK v \in todo[c] : /\ hash' = [hash EXCEPT ![v] = items[c][v]]
                            /\ todo' = [todo EXCEPT ![c] = @ \ {v}]
    BY <1>10 DEF HSetLine
  <2>3. ASSUME NEW w \in Variants \ todo'[c]
        PROVE  hash'[w] = items[c][w]
    <3>1. w = v \/ w \notin todo[c]
      BY <2>2
    <3>2. w \notin todo[c] => hash[w] = items[c][w]
      BY <1>2, <2>1 DEF Saving
    <3> QED
      BY <2>2, <3>1, <3>2 DEF Items
  <2> QED
    BY <1>2, <1>4, <2>1, <2>3 DEF Saving, IsOp, Running
<1>11. CASE HSetTotal(c)
  <2>1. /\ pc'[c] = "expire" /\ request' = request /\ items' = items
        /\ hash' = hash /\ \A v \in Variants : hash[v] = items[c][v]
    BY <1>2, <1>11 DEF HSetTotal, Goto, Saving
  <2>2. hash = items[c]
    BY <2>1 DEF Items
  <2> QED
    BY <1>2, <1>4, <2>1, <2>2 DEF Saving, IsOp, Running
<1>12. CASE SetExpiry(c) \/ SelectRow(c)
  <2>1. /\ pc'[c] \in {"select", "write"} /\ request' = request /\ items' = items
        /\ hash' = hash /\ hash = items[c]
    BY <1>2, <1>12 DEF SetExpiry, SelectRow, Goto, Saving, storeVars
  <2> QED
    BY <1>2, <1>4, <2>1 DEF Saving, IsOp, Running
<1>13. CASE WriteRow(c) /\ pc'[c] = "done"
  <2>1. hash' = hash /\ items[c] = hash
    BY <1>2, <1>13 DEF WriteRow, Saving
  <2> QED
    BY <1>5, <1>13, <2>1 DEF Over
<1>14. CASE Fails(c) /\ pc[c] \in {"read", "resolve", "del"}
  <2>1. pc'[c] = "failed" /\ hash' = hash /\ Before(c)
    BY <1>2, <1>14 DEF Fails, Ends, Goto, Saving, storeVars
  <2> QED
    BY <1>5, <2>1 DEF Over
<1> QED
  BY <1>3, <1>7, <1>8, <1>9, <1>10, <1>11, <1>12, <1>13, <1>14 DEF Works

(* The order's call: when it is done the cart is empty.                    *)
LEMMA ClearIsServed ==
  ASSUME Typed, StorefrontTypeOK, NEW k \in Keys, Ordering(k),
         NEW c \in Calls, Serves(c), Clean, Clean'
  PROVE  Ordering(k)'
<1> USE DEF Typed, TypeOK, StorefrontTypeOK
<1>1. /\ astray' = astray
      /\ UNCHANGED <<store, loading, post, late, job, orders>>
      /\ pc[c] \in Running
      /\ \A d \in Calls \ {c} : pc'[d] = pc[d] /\ fetch'[d] = fetch[d]
  BY ServedCalls
<1>2. post[k] = "working" /\ job.at = "clearing" /\ job.call = c /\ Clearing(c)
  BY <1>1 DEF Ordering, Working, Clearing, Quiet, NoLate
<1>3. fetch' = fetch
  BY <1>2 DEF Ordering, OnlyPost, NoEdit, Serves, Hears, NoLate
<1>4. \/ Del(c) /\ pc'[c] = "deleteRow" /\ hash' = NoItems /\ request' = request
      \/ DeleteRow(c) /\ pc'[c] = "done" /\ hash' = hash
      \/ Fails(c) /\ pc'[c] = "failed"
  <2>1. pc[c] \in {"del", "deleteRow"} /\ IsOp(c, {"clear"})
    BY <1>1, <1>2 DEF Clearing
  <2>2. Del(c) \/ (DeleteRow(c) /\ pc'[c] = "done") \/ Fails(c)
    BY <2>1, ServedCalls DEF Works, Resolve, Read, HSetLine, HSetTotal, SetExpiry,
                             SelectRow, WriteRow
  <2>3. CASE Del(c)
    BY <2>1, <2>3 DEF Del, Goto
  <2>4. CASE DeleteRow(c) /\ pc'[c] = "done"
    BY <2>4 DEF DeleteRow
  <2>5. CASE Fails(c)
    BY <2>5 DEF Fails, Ends, Goto
  <2> QED
    BY <2>2, <2>3, <2>4, <2>5
<1>5. Clearing(c)'
  BY <1>1, <1>2, <1>4 DEF Clearing, IsOp, DeleteRow, Running
<1> QED
  BY <1>1, <1>2, <1>3, <1>5 DEF Ordering, Working, OnlyPost, NoEdit, NoLate

(* What is on its way stays as it is where nothing that it is made of      *)
(* changes.                                                                *)
LEMMA OneThingStays ==
  ASSUME OneThing, UNCHANGED <<pc, request, items, todo, hash>>,
         UNCHANGED <<store, fetch, loading, post, late, job, orders, astray>>
  PROVE  OneThing'
<1>1. Calm /\ Fits => (Calm /\ Fits)'
  BY DEF Calm, Fits, Quiet
<1>2. Loading => Loading'
  BY DEF Loading, Fits, Quiet, NoEdit, NoPost, NoLate
<1>3. \A c \in Calls : Editing(c) => Editing(c)'
  BY DEF Editing, Saving, Before, Fits, NoPost, NoLate, IsOp
<1>4. \A k \in Keys : Ordering(k) => Ordering(k)'
  BY DEF Ordering, Working, Clearing, OnlyPost, NoEdit, Fits, Quiet, IsOp, NoLate
<1> QED
  BY <1>1, <1>2, <1>3, <1>4 DEF OneThing

(* A call begins only if the tab is idle or its order clears the cart.     *)
LEMMA BeginsAlone ==
  ASSUME Typed, NEW c \in Calls, NEW r \in Request, Begins(c, r), Quiet
  PROVE  /\ pc'[c] \in Running /\ request'[c] = r
         /\ pc'[c] = IF r.op = "add" THEN "resolve" ELSE IF r.op = "clear" THEN "del" ELSE "read"
         /\ \A d \in Calls \ {c} : pc'[d] \notin Running
         /\ hash' = hash /\ items' = items /\ todo' = todo
BY DEF Typed, TypeOK, Begins, Start, Goto, Quiet, Running, storeVars

(* The tab's edits.                                                        *)
LEMMA EditsInOrder ==
  ASSUME Typed, StorefrontTypeOK, KeysAreKnown, InOrder, NEW c \in Calls, Edits(c), Clean'
  PROVE  FreshPage' /\ OneThing'
<1> USE StorefrontAssumption DEF StorefrontTypeOK, StorefrontAssumption
<1>0. NoItems \in Items
  BY DEF NoItems, Items
<1>1. ASSUME NEW from \in {"menu", "product", "cart"}, NEW before \in Items,
             NEW r \in Request, r.op # "clear", Begins(c, r), Awaits(c, from, before),
             Calm, page' = None, UNCHANGED <<loading, late, job, post>>,
             from = "menu" => (astray' = {} => before = hash),
             from = "cart" => Fits'
      PROVE  FreshPage' /\ OneThing'
  <2>1. /\ pc'[c] \in {"resolve", "read"} /\ IsOp(c, {r.op})'
        /\ \A d \in Calls \ {c} : pc'[d] \notin Running
        /\ hash' = hash
    BY <1>1, BeginsAlone DEF Calm, IsOp
  <2>2. /\ fetch'[c] = [from |-> from, before |-> before, got |-> "nothing", lines |-> NoItems]
        /\ \A d \in Calls \ {c} : fetch'[d] = None
    BY <1>1 DEF Awaits, Calm
  <2>3. fetch'[c] # None
    BY <1>0, <1>1, <2>2 DEF Fetch
  <2>4. Before(c)'
    BY <1>1, <2>1, <2>2 DEF Before
  <2>5. Saving(c)' /\ pc'[c] \in Running
    BY <1>1, <2>1, <2>4 DEF Saving, IsOp, Running
  <2>6. Editing(c)'
    BY <1>1, <2>1, <2>2, <2>3, <2>5 DEF Editing, Calm, NoPost, NoLate
  <2> QED
    BY <1>1, <2>6 DEF OneThing, FreshPage
<1>2. ASSUME NEW v \in Variants, NEW from \in {"menu", "product"}, Add(c, v, from)
      PROVE  FreshPage' /\ OneThing'
  <2>1. Open /\ Calm /\ astray' = astray
    BY <1>2 DEF Add, Strays, Clean
  <2>2. Clean /\ OneThing
    BY <2>1 DEF Clean, InOrder
  <2>3. Fits
    BY <2>1, <2>2 DEF OneThing, Calm, Loading, Editing, Ordering, NoLate
  <2>4. /\ Begins(c, OneOf(v)) /\ Awaits(c, from, IF from = "menu" THEN store ELSE NoItems)
        /\ page' = None /\ UNCHANGED <<loading, late, job, post>>
    BY <1>2 DEF Add, orderVars
  <2>5. OneOf(v) \in Request /\ OneOf(v).op = "add"
    BY <2>4 DEF OneOf, Begins, Start, Typed, TypeOK
  <2>6. (IF from = "menu" THEN store ELSE NoItems) \in Items
    BY <1>0, <2>1 DEF Open
  <2> QED
    BY <1>1, <2>1, <2>3, <2>4, <2>5, <2>6 DEF Fits
<1>3. ASSUME NEW r \in Request, Change(c, r)
      PROVE  FreshPage' /\ OneThing'
  <2>1. Open /\ Calm /\ astray' = astray
    BY <1>3 DEF Change, Strays, Clean
  <2>2. Clean /\ OneThing
    BY <2>1 DEF Clean, InOrder
  <2>3. Fits
    BY <2>1, <2>2 DEF OneThing, Calm, Loading, Editing, Ordering, NoLate
  <2>4. /\ Begins(c, r) /\ Awaits(c, "cart", NoItems) /\ r.op # "clear"
        /\ page' = None /\ UNCHANGED <<store, loading, late, job, post>>
    BY <1>3 DEF Change, orderVars
  <2>5. Fits'
    BY <2>1, <2>3, <2>4 DEF Fits, Begins, Start, storeVars
  <2> QED
    BY <1>0, <1>1, <2>1, <2>4, <2>5
<1>4. CASE Answered(c)
  <2>1. /\ fetch[c] # None /\ fetch[c].got # "nothing"
        /\ UNCHANGED <<pc, hash, loading, page, post, late, job, orders>>
        /\ fetch' = [fetch EXCEPT ![c] = None]
    BY <1>4 DEF Answered, vars, callVars, storeVars, orderVars
  <2>2. fetch[c] \in Fetch
    BY <2>1
  <2>3. /\ Open
        /\ ~(fetch[c].got = "error" /\ fetch[c].from = "product")
        /\ astray' = astray
    <3>1. Open
      BY <2>1 DEF KeysAreKnown, NoEdit
    <3>2. "since" \notin astray'
      BY DEF Clean
    <3>3. Strays(fetch[c].got = "error" /\ fetch[c].from = "product")
      BY <1>4 DEF Answered
    <3> QED
      BY <3>1, <3>2, <3>3 DEF Strays
  <2>4. Editing(c) /\ FreshPage
    BY <2>1, <2>3 DEF InOrder, Clean, OneThing, Calm, Loading, NoEdit,
                      Editing, Ordering, OnlyPost, NoLate
  <2>5. Calm'
    BY <2>1, <2>4 DEF Editing, Calm, Quiet, NoPost, NoLate
  <2>6. Fits'
    BY <1>4, <2>1, <2>2, <2>3, <2>4 DEF Answered, Editing, Before, Fits, Fetch, NoLate
  <2> QED
    BY <2>1, <2>4, <2>5, <2>6 DEF OneThing, FreshPage
<1> QED
  BY <1>2, <1>3, <1>4 DEF Edits

(* The cart page, and what goes wrong.                                     *)
LEMMA PagesInOrder ==
  ASSUME Typed, StorefrontTypeOK, KeysAreKnown, InOrder, Clean',
         \/ OpenCart \/ ReadCart \/ ShowCart \/ LoadFails
         \/ Expiry \/ Reload \/ Logout
         \/ \E c \in Calls : FetchLost(c) \/ OtherDevice(c)
  PROVE  FreshPage' /\ OneThing'
<1> USE StorefrontAssumption DEF StorefrontTypeOK, StorefrontAssumption
<1>0. NoItems \in Items
  BY DEF NoItems, Items
<1>1. CASE OpenCart
  <2>1. Calm /\ astray' = (IF astray = {} THEN {} ELSE {"before"})
    BY <1>1 DEF OpenCart, Clean
  <2>2. Fits'
    <3>1. CASE astray = {}
      <4>1. OneThing
        BY <1>1, <3>1 DEF OpenCart, InOrder, Clean
      <4>2. Fits
        BY <2>1, <4>1 DEF OneThing, Calm, Loading, Editing, Ordering, NoLate
      <4> QED
        BY <1>1, <3>1, <4>2 DEF OpenCart, Fits, vars, storeVars
    <3>2. CASE astray # {}
      BY <2>1, <3>2 DEF Fits
    <3> QED
      BY <3>1, <3>2
  <2>3. loading'.got = "nothing" /\ loading' # None
    BY <1>0, <1>1 DEF OpenCart, Load
  <2>4. Loading'
    BY <1>1, <2>1, <2>2, <2>3
       DEF OpenCart, Loading, Calm, Quiet, NoEdit, NoPost, NoLate, vars, callVars, orderVars
  <2> QED
    BY <1>1, <2>4 DEF OpenCart, FreshPage, OneThing
<1>2. CASE ReadCart \/ ShowCart \/ LoadFails
  <2>1. Clean
    <3>1. Open
      BY <1>2 DEF KeysAreKnown, ReadCart, ShowCart, LoadFails
    <3>2. "since" \in astray => "since" \in astray'
      BY <1>2 DEF ReadCart, ShowCart, LoadFails, Mishap, Strays, frontHistory
    <3> QED
      BY <3>1, <3>2 DEF Clean
  <2>2. Loading /\ FreshPage
    BY <1>2, <2>1 DEF ReadCart, ShowCart, LoadFails, InOrder, OneThing, Calm,
                      Loading, Editing, NoLate,
                      Ordering, OnlyPost
  <2>3. UNCHANGED <<pc, hash, fetch, page, post, late, job, orders>>
    BY <1>2 DEF ReadCart, ShowCart, LoadFails, vars, callVars, storeVars, orderVars
  <2>4. CASE ReadCart
    <3>1. /\ loading' = [got |-> "lines", lines |-> hash]
          /\ UNCHANGED <<store, astray>>
      BY <2>4 DEF ReadCart, frontHistory
    <3>2. loading' # None
      BY <3>1 DEF Load, Typed, TypeOK
    <3>3. Loading'
      BY <2>2, <2>3, <3>1, <3>2 DEF Loading, Fits, Quiet, NoEdit, NoPost, NoLate
    <3> QED
      BY <2>2, <2>3, <3>3 DEF FreshPage, OneThing
  <2>5. CASE ShowCart
    <3>1. store' = hash /\ loading' = None
      BY <2>2, <2>5 DEF ShowCart, Loading, NoLate
    <3>2. Calm' /\ Fits'
      BY <2>2, <2>3, <3>1 DEF Loading, Calm, Fits, Quiet, NoEdit, NoPost, NoLate
    <3> QED
      BY <2>2, <2>3, <3>2 DEF FreshPage, OneThing
  <2>6. CASE LoadFails
    <3>1. UNCHANGED <<store, astray>> /\ loading' = None
      BY <2>6 DEF LoadFails, Mishap, Strays
    <3>2. Calm' /\ Fits'
      BY <2>2, <2>3, <3>1 DEF Loading, Calm, Fits, Quiet, NoEdit, NoPost, NoLate
    <3> QED
      BY <2>2, <2>3, <3>2 DEF FreshPage, OneThing
  <2> QED
    BY <1>2, <2>4, <2>5, <2>6
<1>3. CASE Expiry
  <2>1. UNCHANGED <<callVars, store, fetch, loading, page, post, late, job, orders>>
    BY <1>3 DEF Expiry, CartExpires, tabVars, orderVars
  <2>2. astray' = astray /\ hash' = hash
    BY <1>3, <2>1 DEF Expiry, CartExpires, Mishap, Strays, Clean, Open
  <2>3. FreshPage /\ OneThing
    BY <2>1, <2>2 DEF InOrder, Clean, Open
  <2> QED
    BY <2>1, <2>2, <2>3, OneThingStays DEF FreshPage, callVars
<1>4. CASE Reload \/ Logout
  BY <1>4 DEF Reload, Logout, Mishap, Strays, Clean
<1>5. CASE \E c \in Calls : FetchLost(c) \/ OtherDevice(c)
  <2>1. store' = store /\ Mishap(TRUE)
    BY <1>5 DEF FetchLost, OtherDevice, tabVars
  <2> QED
    BY <2>1 DEF Mishap, Strays, Clean, Open
<1> QED
  BY <1>1, <1>2, <1>3, <1>4, <1>5

(* The checkout page and the order service.                                *)
LEMMA OrdersInOrder ==
  ASSUME Typed, StorefrontTypeOK, KeysAreKnown, InOrder, Clean',
         \/ \E k \in Keys : Checks(k)
         \/ LeaveCheckout \/ Place
         \/ GetCart \/ Commit \/ CartIsCleared \/ OrderFails
         \/ \E c \in Calls : ClearCart(c)
  PROVE  FreshPage' /\ OneThing'
<1> USE StorefrontAssumption DEF StorefrontTypeOK, StorefrontAssumption
<1>0. NoItems \in Items /\ (job # None => job \in Job /\ job.key \in Keys /\ job.basket \in Items)
  BY DEF NoItems, Items, Job
<1>1. ASSUME NEW k \in Keys, OpenCheckout(k)
      PROVE  FreshPage' /\ OneThing'
  <2>1. /\ UNCHANGED <<pc, request, items, todo, hash>>
        /\ UNCHANGED <<store, fetch, loading, post, late, job, orders, astray>>
        /\ page' = k /\ orders[k] = None
    BY <1>1 DEF OpenCheckout, KeysAreKnown, vars, callVars, storeVars, orderVars, frontHistory
  <2>2. OneThing
    BY <2>1 DEF InOrder, Clean, Open
  <2> QED
    BY <2>1, <2>2, OneThingStays DEF FreshPage
<1>2. CASE LeaveCheckout
  <2>1. /\ UNCHANGED <<pc, request, items, todo, hash>>
        /\ UNCHANGED <<store, fetch, loading, post, late, job, orders, astray>>
        /\ page' = None
    BY <1>2 DEF LeaveCheckout, vars, callVars, storeVars, orderVars, frontHistory
  <2>2. OneThing
    BY <2>1 DEF InOrder, Clean, Open
  <2> QED
    BY <2>1, <2>2, OneThingStays DEF FreshPage
<1>3. CASE Place
  <2>1. /\ page \in Keys /\ post[page] = "idle" /\ post' = [post EXCEPT ![page] = "sent"]
        /\ UNCHANGED <<pc, hash, store, fetch, loading, page, late, job, orders>>
    BY <1>3 DEF Place, vars, callVars, storeVars, orderVars
  <2>2. "since" \in astray => "since" \in astray'
    BY <1>3 DEF Place, Strays
  <2>3. Clean /\ FreshPage /\ OneThing
    BY <2>1, <2>2 DEF InOrder, Clean, Open
  <2>4. orders[page] = None
    BY <2>1, <2>3 DEF FreshPage
  <2>5. Calm /\ astray' = astray
    BY <1>3, <2>1, <2>4 DEF Place, Strays, Clean, Open
  <2>6. Fits
    BY <2>3, <2>5 DEF OneThing, Calm, Loading, Editing, Ordering, NoLate
  <2>7. Ordering(page)'
    BY <2>1, <2>4, <2>5, <2>6 DEF Calm, Ordering, OnlyPost, NoEdit, Fits, Quiet, NoLate
  <2> QED
    BY <2>1, <2>4, <2>7 DEF FreshPage, OneThing
<1>4. ASSUME NEW k \in Keys, post[k] # "idle", Clean
      PROVE  Ordering(k) /\ FreshPage
  BY <1>4 DEF InOrder, OneThing, Calm, Loading, Editing, NoPost, NoLate, Ordering, OnlyPost
<1>5. ASSUME job # None, Clean
      PROVE  Ordering(job.key) /\ Working(job.key) /\ post[job.key] = "working" /\ FreshPage
  BY <1>5 DEF InOrder, OneThing, Calm, Loading, Editing, NoPost, NoLate, Ordering, Working
<1>6. ASSUME NEW k \in Keys, Placed(k)
      PROVE  FreshPage' /\ OneThing'
  <2>1. /\ UNCHANGED <<pc, hash, fetch, loading, late, job>>
        /\ page' = None /\ store' = NoItems /\ astray' = astray
        /\ post[k] = "placed" /\ post' = [post EXCEPT ![k] = "idle"]
    BY <1>6 DEF Placed, Keeps, Strays, vars, callVars, storeVars, orderVars
  <2>2. Ordering(k)
    BY <1>4, <2>1 DEF Clean, KeysAreKnown, Open
  <2>3. Calm' /\ Fits'
    BY <2>1, <2>2 DEF Ordering, OnlyPost, NoEdit, Calm, Fits, Quiet, NoLate
  <2> QED
    BY <2>1, <2>3 DEF FreshPage, OneThing
<1>7. ASSUME NEW k \in Keys, Refused(k)
      PROVE  FreshPage' /\ OneThing'
  <2>1. /\ UNCHANGED <<pc, hash, store, fetch, loading, page, late, job, orders, astray>>
        /\ post[k] = "refused" /\ post' = [post EXCEPT ![k] = "idle"]
    BY <1>7 DEF Refused, vars, callVars, storeVars, orderVars, frontHistory
  <2>2. Ordering(k) /\ FreshPage
    BY <1>4, <2>1 DEF Clean, Open
  <2>3. Calm' /\ Fits'
    BY <2>1, <2>2 DEF Ordering, OnlyPost, NoEdit, Calm, Fits, Quiet, NoLate
  <2> QED
    BY <2>1, <2>2, <2>3 DEF FreshPage, OneThing, Ordering, NoLate
<1>8. ASSUME NEW k \in Keys, TakeOrder(k)
      PROVE  FreshPage' /\ OneThing'
  <2>1. /\ UNCHANGED <<pc, hash, store, fetch, loading, page, late, orders, astray>>
        /\ post[k] = "sent"
    BY <1>8 DEF TakeOrder, vars, callVars, storeVars, frontHistory
  <2>2. Ordering(k) /\ FreshPage
    BY <1>4, <2>1 DEF Clean, Open
  <2>3. orders[k] = None /\ job = None /\ Quiet /\ Fits /\ OnlyPost(k) /\ NoLate
    BY <2>1, <2>2 DEF Ordering, NoLate
  <2>4. /\ post' = [post EXCEPT ![k] = "working"]
        /\ job' = [key |-> k, at |-> "getCart", basket |-> NoItems]
    BY <1>8, <2>3 DEF TakeOrder
  <2>5. job' # None
    BY <1>0, <2>4 DEF Job
  <2>6. Ordering(k)'
    BY <2>1, <2>3, <2>4, <2>5 DEF Ordering, Working, OnlyPost, NoEdit, Fits, Quiet, NoLate
  <2> QED
    BY <2>1, <2>2, <2>4, <2>6 DEF FreshPage, OneThing
<1>9. ASSUME NEW k \in Keys, PostLost(k)
      PROVE  FreshPage' /\ OneThing'
  <2>1. /\ UNCHANGED <<pc, hash, store, fetch, loading, page, job, orders>>
        /\ post[k] \in {"sent", "working", "placed"} /\ post' = [post EXCEPT ![k] = "refused"]
    BY <1>9 DEF PostLost, vars, callVars, storeVars
  <2>2. post[k] = "sent" /\ UNCHANGED <<late, astray>>
    BY <1>9, <2>1 DEF PostLost, Mishap, Strays, Clean, Open
  <2>3. Ordering(k) /\ FreshPage
    BY <1>4, <2>1, <2>2 DEF Clean, Open
  <2>4. Ordering(k)'
    BY <2>1, <2>2, <2>3 DEF Ordering, OnlyPost, NoEdit, Fits, Quiet, NoLate
  <2> QED
    BY <2>1, <2>2, <2>3, <2>4 DEF FreshPage, OneThing
<1>10. CASE GetCart
  <2>1. /\ UNCHANGED <<pc, hash, store, fetch, loading, page, late, orders, astray>>
        /\ job # None /\ job.at = "getCart"
    BY <1>10 DEF GetCart, vars, callVars, storeVars, frontHistory
  <2>2. Ordering(job.key) /\ Working(job.key) /\ post[job.key] = "working" /\ FreshPage
    BY <1>5, <2>1 DEF Clean, Open
  <2>3. OnlyPost(job.key) /\ NoLate /\ Quiet /\ orders[job.key] = None /\ Fits
    BY <2>1, <2>2 DEF Ordering, Working, NoLate
  <2>4. CASE hash = NoItems
    <3>1. PICK k \in Keys : k = job.key
      BY <1>0, <2>1
    <3>2. job' = None /\ post' = [post EXCEPT ![k] = "refused"]
      BY <1>10, <2>2, <2>4, <3>1 DEF GetCart, Replies
    <3>3. Ordering(k)'
      BY <2>1, <2>3, <3>1, <3>2 DEF Ordering, OnlyPost, NoEdit, Fits, Quiet, NoLate
    <3> QED
      BY <2>1, <2>2, <2>3, <3>1, <3>2, <3>3 DEF FreshPage, OneThing
  <2>5. CASE hash # NoItems
    <3>1. job' = [job EXCEPT !.at = "commit", !.basket = hash] /\ post' = post
      BY <1>10, <2>5 DEF GetCart
    <3>2. job' \in Job /\ job'.key = job.key /\ job'.at = "commit"
      BY <1>0, <2>1, <3>1 DEF Job, Typed, TypeOK
    <3>3. Ordering(job.key)'
      BY <1>0, <2>1, <2>2, <2>3, <3>1, <3>2 DEF Ordering, Working, OnlyPost,
                                                NoEdit, Fits, Quiet, NoLate
    <3> QED
      BY <1>0, <2>1, <2>2, <3>1, <3>3 DEF FreshPage, OneThing
  <2> QED
    BY <2>4, <2>5
<1>11. CASE Commit
  <2>1. /\ UNCHANGED <<pc, hash, store, fetch, loading, page, post, late, astray>>
        /\ job # None /\ job.at = "commit"
        /\ orders' = [orders EXCEPT ![job.key] = job.basket]
        /\ job' = [job EXCEPT !.at = "clearCart"]
    BY <1>11 DEF Commit, vars, callVars, storeVars, tabVars, frontHistory
  <2>2. Ordering(job.key) /\ Working(job.key) /\ post[job.key] = "working" /\ FreshPage
    BY <1>5, <2>1 DEF Clean, Open
  <2>3. OnlyPost(job.key) /\ Quiet
    BY <2>1, <2>2 DEF Ordering, Working, NoLate
  <2>4. job' \in Job /\ job'.key = job.key /\ job'.at = "clearCart"
    BY <1>0, <2>1 DEF Job
  <2>5. Ordering(job.key)'
    BY <1>0, <2>1, <2>2, <2>3, <2>4 DEF Ordering, Working, OnlyPost, NoEdit, Quiet, NoLate
  <2>6. FreshPage'
    BY <1>0, <2>1, <2>2 DEF FreshPage
  <2> QED
    BY <1>0, <2>1, <2>4, <2>5, <2>6 DEF OneThing
<1>12. ASSUME NEW c \in Calls, ClearCart(c)
       PROVE  FreshPage' /\ OneThing'
  <2>1. /\ UNCHANGED <<store, fetch, loading, page, post, late, orders, astray>>
        /\ job # None /\ job.at = "clearCart" /\ Begins(c, [op |-> "clear"])
        /\ job' = [key |-> job.key, at |-> "clearing", basket |-> job.basket, call |-> c]
    BY <1>12 DEF ClearCart, Keeps, Strays, tabVars
  <2>2. Ordering(job.key) /\ Working(job.key) /\ post[job.key] = "working" /\ FreshPage
    BY <1>5, <2>1 DEF Clean, Open
  <2>3. OnlyPost(job.key) /\ Quiet /\ [op |-> "clear"] \in Request
    BY <2>1, <2>2 DEF Ordering, Working, Request, NoLate
  <2>4. /\ pc'[c] = "del" /\ IsOp(c, {"clear"})'
        /\ \A d \in Calls \ {c} : pc'[d] \notin Running
    BY <2>1, <2>3, BeginsAlone DEF IsOp
  <2>5. Clearing(c)'
    BY <2>4 DEF Clearing
  <2>6. job' \in Job
    BY <1>0, <2>1 DEF Job
  <2>7. Ordering(job.key)'
    BY <1>0, <2>1, <2>2, <2>3, <2>5, <2>6 DEF Ordering, Working, OnlyPost, NoEdit, NoLate
  <2> QED
    BY <1>0, <2>1, <2>2, <2>7 DEF FreshPage, OneThing
<1>13. CASE CartIsCleared
  <2>1. /\ UNCHANGED <<pc, hash, store, fetch, loading, page, late, orders>>
        /\ job # None /\ job.at = "clearing" /\ pc[job.call] \in Over /\ job' = None
    BY <1>13 DEF CartIsCleared, vars, callVars, storeVars
  <2>2. pc[job.call] = "done" /\ astray' = astray
    BY <1>13, <2>1 DEF CartIsCleared, Strays, Clean, Open
  <2>3. Ordering(job.key) /\ Working(job.key) /\ post[job.key] = "working" /\ FreshPage
    BY <1>5, <2>1, <2>2 DEF Clean, Open
  <2>4. OnlyPost(job.key) /\ NoLate /\ hash = NoItems /\ Quiet
    BY <2>1, <2>2, <2>3 DEF Ordering, Working, Clearing, Quiet, Over, Running, NoLate
  <2>5. PICK k \in Keys : k = job.key
    BY <1>0, <2>1
  <2>6. post' = [post EXCEPT ![k] = "placed"]
    BY <1>13, <2>2, <2>3, <2>5 DEF CartIsCleared, Replies
  <2>7. Ordering(k)'
    BY <2>1, <2>4, <2>5, <2>6 DEF Ordering, OnlyPost, NoEdit, Quiet, NoLate
  <2> QED
    BY <2>1, <2>3, <2>5, <2>6, <2>7 DEF FreshPage, OneThing
<1>14. CASE OrderFails
  <2>1. /\ UNCHANGED <<pc, hash, store, fetch, loading, page, late, orders>>
        /\ job # None /\ job' = None
    BY <1>14 DEF OrderFails, vars, callVars, storeVars
  <2>2. job.at \notin {"clearCart", "clearing"} /\ astray' = astray
    BY <1>14, <2>1 DEF OrderFails, Mishap, Strays, Clean, Open
  <2>3. Ordering(job.key) /\ Working(job.key) /\ post[job.key] = "working" /\ FreshPage
    BY <1>5, <2>1, <2>2 DEF Clean, Open
  <2>4. job.at \in {"getCart", "commit"}
    BY <1>0, <2>1, <2>2 DEF Job
  <2>5. OnlyPost(job.key) /\ NoLate /\ Quiet /\ orders[job.key] = None /\ Fits
    BY <2>3, <2>4 DEF Ordering, Working, NoLate
  <2>6. PICK k \in Keys : k = job.key
    BY <1>0, <2>1
  <2>7. post' = [post EXCEPT ![k] = "refused"]
    BY <1>14, <2>3, <2>6 DEF OrderFails, Replies
  <2>8. Ordering(k)'
    BY <2>1, <2>2, <2>5, <2>6, <2>7 DEF Ordering, OnlyPost, NoEdit, Fits, Quiet, NoLate
  <2> QED
    BY <2>1, <2>3, <2>5, <2>6, <2>7, <2>8 DEF FreshPage, OneThing
<1>15. ASSUME NEW k \in Keys, TakeLate(k)
       PROVE  FreshPage' /\ OneThing'
  <2>1. late[k] # 0 /\ Clean
    BY <1>15 DEF TakeLate, tabVars, frontHistory, Clean, Open
  <2>2. NoLate
    BY <2>1 DEF InOrder, OneThing, Calm, Loading, Editing, Ordering, NoLate
  <2> QED
    BY <2>1, <2>2 DEF NoLate
<1> QED
  BY <1>1, <1>2, <1>3, <1>6, <1>7, <1>8, <1>9, <1>10, <1>11, <1>12, <1>13, <1>14, <1>15
     DEF Checks

(* So does every step.                                                     *)
LEMMA InOrderNext ==
  ASSUME Typed, StorefrontTypeOK, KeysAreKnown, InOrder, [StorefrontNext]_frontVars
  PROVE  InOrder'
<1> SUFFICES ASSUME Clean'
             PROVE  FreshPage' /\ OneThing'
  BY DEF InOrder
<1>1. ASSUME NEW c \in Calls, Serves(c)
      PROVE  FreshPage' /\ OneThing'
  <2>1. UNCHANGED <<store, page, late, orders, post>> /\ Clean
    BY <1>1 DEF Serves, Keeps, Mishap, Strays, Clean, Open, orderVars
  <2>2. FreshPage /\ OneThing /\ pc[c] \in Running
    BY <1>1, <2>1, ServedCalls DEF InOrder
  <2>3. Editing(c) \/ \E k \in Keys : Ordering(k)
    BY <2>2 DEF OneThing, Calm, Loading, Quiet, Editing, NoLate
  <2>4. OneThing'
    BY <1>1, <2>1, <2>3, EditIsServed, ClearIsServed DEF OneThing
  <2> QED
    BY <2>1, <2>2, <2>4 DEF FreshPage
<1>2. CASE UNCHANGED frontVars
  <2>1. /\ UNCHANGED <<pc, request, items, todo, hash>>
        /\ UNCHANGED <<store, fetch, loading, post, late, job, orders, astray, page>>
    BY <1>2 DEF frontVars, tabVars, orderVars, frontHistory, vars, callVars, storeVars
  <2>2. FreshPage /\ OneThing
    BY <2>1 DEF InOrder, Clean, Open
  <2> QED
    BY <2>1, <2>2, OneThingStays DEF FreshPage
<1> QED
  BY <1>1, <1>2, EditsInOrder, PagesInOrder, OrdersInOrder DEF StorefrontNext

-----------------------------------------------------------------------------
(* What becomes of an order that was pressed on a true show.  As long as   *)
(* its key can still have an order, the cart waits for it as it was shown; *)
(* as long as its page is open, the tab shows what it showed then.         *)
Undecided(k) ==
    /\ orders[k] = None
    /\ page = k \/ post[k] # "idle" \/ late[k] # 0 \/ (job # None /\ job.key = k)

Waiting(k) ==
    /\ Clean /\ astray = {} /\ Quiet /\ OnlyPost(k) /\ NoLate
    /\ shown[k] = hash
    /\ job # None => job.key = k /\ post[k] = "working"
    /\ job # None /\ job.at = "commit" => job.basket = hash

Pressed(k) ==
    /\ orders[k] # None => orders[k] = shown[k]
    /\ page = k => OnlyPost(k) /\ store = shown[k]
    /\ Undecided(k) => Waiting(k)

PressedInv == \A k \in sure : Pressed(k)

(* The bookkeeping, for one key: it was pressed before, and after an       *)
(* unsure step it has its order.                                           *)
LEMMA StaysSure ==
  ASSUME StorefrontTypeOK, KeysAreKnown, NEW unsure \in BOOLEAN,
         Strays(unsure) \/ Mishap(unsure), NEW k \in sure'
  PROVE  /\ k \in sure /\ k \in Keys /\ k \in visited /\ Open
         /\ ~unsure => astray' = astray
         /\ unsure => orders[k] # None
BY DEF Strays, Mishap, KeysAreKnown, StorefrontTypeOK

(* The tab's edits and their answers.                                      *)
LEMMA EditsKeepPressed ==
  ASSUME Typed, StorefrontTypeOK, KeysAreKnown, PressedInv,
         NEW c \in Calls, Edits(c) \/ FetchLost(c) \/ OtherDevice(c) \/ Serves(c)
  PROVE  PressedInv'
<1> SUFFICES ASSUME NEW k \in sure'
             PROVE  Pressed(k)'
  BY DEF PressedInv
<1>1. /\ UNCHANGED <<page, post, late, job, orders, shown>>
      /\ k \in sure /\ Pressed(k) /\ Open
  <2>1. UNCHANGED <<page, post, late, job, orders, shown>>
    BY DEF Edits, Add, Change, Answered, FetchLost, OtherDevice, Serves, tabVars, orderVars
  <2>2. sure' \subseteq sure
    BY DEF Edits, Add, Change, Answered, FetchLost, OtherDevice, Serves, Keeps, Mishap, Strays
  <2> QED
    BY <2>1, <2>2 DEF PressedInv, KeysAreKnown
<1>2. CASE page = None /\ ~Undecided(k)
  BY <1>1, <1>2, StorefrontAssumption
     DEF Pressed, Undecided, StorefrontTypeOK, StorefrontAssumption
<1>3. CASE Edits(c)
  <2>1. ASSUME page = None, Strays(~Calm)
        PROVE  ~Undecided(k)
    BY <1>1, <2>1, StaysSure, StorefrontAssumption
       DEF Calm, Undecided, Strays, StorefrontAssumption, StorefrontTypeOK
  <2>2. CASE page = None /\ Strays(~Calm)
    BY <1>2, <2>1, <2>2
  <2>3. CASE Answered(c)
    <3>1. page # k /\ ~Undecided(k)
      BY <1>1, <2>3 DEF Answered, Pressed, Waiting, OnlyPost, NoEdit, NoLate
    <3> QED
      BY <1>1, <3>1 DEF Pressed, Undecided
  <2> QED
    BY <1>3, <2>2, <2>3 DEF Edits, Add, Change
<1>4. CASE FetchLost(c)
  <2>1. page # k /\ ~Undecided(k)
    BY <1>1, <1>4 DEF FetchLost, Pressed, Waiting, OnlyPost, NoEdit, NoLate
  <2> QED
    BY <1>1, <2>1 DEF Pressed, Undecided
<1>5. CASE OtherDevice(c)
  <2>1. ~Undecided(k)
    BY <1>5, StaysSure DEF OtherDevice, Undecided
  <2>2. UNCHANGED <<store, fetch, loading>>
    BY <1>5 DEF OtherDevice, tabVars
  <2> QED
    BY <1>1, <2>1, <2>2 DEF Pressed, Undecided, OnlyPost, NoEdit
<1>6. CASE Serves(c)
  <2>1. pc[c] \in Running
    BY <1>6 DEF Serves, Works, Resolve, Read, Del, HSetLine, HSetTotal, SetExpiry, SelectRow,
                WriteRow, DeleteRow, Fails, PipelineCut, InPipeline, Running
  <2>2. ~Undecided(k)
    BY <1>1, <2>1 DEF Pressed, Waiting, Quiet, NoLate
  <2>3. UNCHANGED <<store, loading>> /\ (NoEdit => NoEdit')
    BY <1>6 DEF Serves, Hears, NoEdit
  <2> QED
    BY <1>1, <2>2, <2>3 DEF Pressed, Undecided, OnlyPost
<1> QED
  BY <1>3, <1>4, <1>5, <1>6

(* The pages.                                                              *)
LEMMA PagesKeepPressed ==
  ASSUME Typed, StorefrontTypeOK, KeysAreKnown, DecidedOnce, InOrder, PressedInv,
         \/ OpenCart \/ ReadCart \/ ShowCart \/ LoadFails \/ LeaveCheckout
         \/ Expiry \/ Reload \/ Logout
         \/ \E j \in Keys : OpenCheckout(j) \/ Placed(j) \/ Refused(j)
  PROVE  PressedInv'
<1> SUFFICES ASSUME NEW k \in sure'
             PROVE  Pressed(k)'
  BY DEF PressedInv
<1> USE StorefrontAssumption DEF StorefrontTypeOK, StorefrontAssumption
<1>0. CASE Reload
  <2>1. k \in sure /\ k \in Keys /\ orders[k] # None
    BY <1>0, StaysSure DEF Reload
  <2>2. Pressed(k) /\ page' = None /\ UNCHANGED <<orders, shown>>
    BY <1>0, <2>1 DEF Reload, PressedInv
  <2> QED
    BY <2>1, <2>2 DEF Pressed, Undecided
<1> SUFFICES ASSUME ~Reload
             PROVE  Pressed(k)'
  BY <1>0
<1>1. /\ UNCHANGED <<late, job, orders, shown>>
      /\ k \in sure /\ Pressed(k) /\ Open /\ k \in Keys /\ k \in visited
  <2>1. UNCHANGED <<late, job, orders, shown>>
    BY DEF OpenCart, ReadCart, ShowCart, LoadFails, LeaveCheckout, Expiry, Logout,
           OpenCheckout, Placed, Refused, orderVars, frontHistory
  <2>2. sure' \subseteq sure
    BY DEF OpenCart, ReadCart, ShowCart, LoadFails, LeaveCheckout, Expiry, Logout,
           OpenCheckout, Placed, Refused, frontHistory, Keeps, Mishap, Strays
  <2> QED
    BY <2>1, <2>2 DEF PressedInv, KeysAreKnown
<1>2. ASSUME page' # k, ~Undecided(k)'
      PROVE  Pressed(k)'
  BY <1>1, <1>2 DEF Pressed
<1>3. CASE OpenCart
  <2>1. page' = None /\ page = None /\ post' = post
    BY <1>3 DEF OpenCart
  <2>2. ~Undecided(k)'
    BY <1>1, <1>3, <2>1 DEF OpenCart, Undecided, Calm
  <2> QED
    BY <1>1, <1>2, <2>1, <2>2
<1>4. CASE ReadCart \/ ShowCart \/ LoadFails
  <2>1. loading # None /\ UNCHANGED <<page, post>>
    BY <1>4 DEF ReadCart, ShowCart, LoadFails
  <2>2. page # k /\ ~Undecided(k)
    BY <1>1, <2>1 DEF Pressed, Waiting, OnlyPost, NoLate
  <2> QED
    BY <1>1, <1>2, <2>1, <2>2 DEF Undecided
<1>5. CASE LeaveCheckout \/ \E j \in Keys : OpenCheckout(j)
  <2>1. /\ UNCHANGED <<pc, hash, store, fetch, loading, post, astray>>
        /\ page' # k
    BY <1>1, <1>5
       DEF LeaveCheckout, OpenCheckout, vars, callVars, storeVars, frontHistory
  <2>2. Undecided(k)' => Waiting(k)'
    BY <1>1, <2>1 DEF Undecided, Pressed, Waiting, Clean, Open, Quiet, OnlyPost, NoEdit, NoLate
  <2> QED
    BY <1>1, <2>1, <2>2 DEF Pressed
<1>6. CASE Expiry
  <2>1. UNCHANGED <<pc, store, fetch, loading, post, page>>
    BY <1>6 DEF Expiry, CartExpires, callVars, tabVars
  <2>2. Undecided(k)' => astray' = astray /\ hash' = hash
    BY <1>1, <1>6 DEF Expiry, CartExpires, Mishap, Strays, Undecided
  <2>3. Undecided(k)' => Waiting(k)'
    BY <1>1, <2>1, <2>2 DEF Undecided, Pressed, Waiting, Clean, Open, Quiet,
                            OnlyPost, NoEdit, NoLate
  <2> QED
    BY <1>1, <2>1, <2>3 DEF Pressed, OnlyPost, NoEdit
<1>7. CASE Logout
  <2>1. page' = None /\ orders[k] # None
    BY <1>1, <1>7 DEF Logout, Mishap, Strays
  <2> QED
    BY <1>1, <1>2, <2>1 DEF Undecided
<1>8. ASSUME NEW j \in Keys, Placed(j)
      PROVE  Pressed(k)'
  <2>1. page' = None /\ post[j] = "placed" /\ post' = [post EXCEPT ![j] = "idle"]
    BY <1>8 DEF Placed
  <2>2. ~Undecided(k)'
    <3>1. CASE j = k
      BY <1>1, <2>1, <3>1 DEF DecidedOnce, Undecided
    <3>2. CASE j # k
      BY <1>1, <2>1, <3>2 DEF Undecided, Pressed, Waiting, OnlyPost, NoLate
    <3> QED
      BY <3>1, <3>2
  <2> QED
    BY <1>1, <1>2, <2>1, <2>2
<1>9. ASSUME NEW j \in Keys, Refused(j)
      PROVE  Pressed(k)'
  <2>1. /\ UNCHANGED <<pc, hash, store, fetch, loading, page, astray>>
        /\ post[j] = "refused" /\ post' = [post EXCEPT ![j] = "idle"]
    BY <1>9 DEF Refused, vars, callVars, storeVars, frontHistory
  <2>2. Undecided(k)' => Waiting(k)'
    BY <1>1, <2>1 DEF Undecided, Pressed, Waiting, Clean, Open, Quiet, OnlyPost, NoEdit, NoLate
  <2> QED
    BY <1>1, <2>1, <2>2 DEF Pressed, OnlyPost, NoEdit
<1> QED
  BY <1>3, <1>4, <1>5, <1>6, <1>7, <1>8, <1>9

(* Place Order and the order service.                                      *)
LEMMA OrdersKeepPressed ==
  ASSUME Typed, StorefrontTypeOK, KeysAreKnown, DecidedOnce, InOrder, PressedInv,
         \/ Place \/ GetCart \/ Commit \/ CartIsCleared \/ OrderFails
         \/ \E c \in Calls : ClearCart(c)
         \/ \E j \in Keys : TakeOrder(j) \/ TakeLate(j) \/ PostLost(j)
  PROVE  PressedInv'
<1> SUFFICES ASSUME NEW k \in sure'
             PROVE  Pressed(k)'
  BY DEF PressedInv
<1> USE StorefrontAssumption DEF StorefrontTypeOK, StorefrontAssumption
<1> DEFINE Serving == \/ GetCart \/ Commit \/ CartIsCleared \/ OrderFails
                      \/ \E c \in Calls : ClearCart(c)
                      \/ \E j \in Keys : TakeOrder(j) \/ TakeLate(j) \/ PostLost(j)
<1>0. job # None => job \in Job /\ job.key \in Keys /\ job.basket \in Items
  BY DEF Job
<1>1. CASE Place
  <2>1. /\ page \in Keys /\ post[page] = "idle" /\ post' = [post EXCEPT ![page] = "sent"]
        /\ shown' = [shown EXCEPT ![page] = store] /\ Open /\ store \in Items
        /\ UNCHANGED <<pc, hash, store, fetch, loading, page, late, job, orders>>
    BY <1>1 DEF Place, Open, vars, callVars, storeVars, orderVars
  <2>2. k \in Keys /\ (k \in sure \/ (k = page /\ Calm /\ astray = {} /\ orders[page] = None))
    BY <1>1, <2>1 DEF Place, Strays
  <2>3. k \in sure => Pressed(k)
    BY DEF PressedInv
  <2>4. orders[page] # None => UNCHANGED <<sure, astray>>
    BY <1>1 DEF Place
  <2>5. orders[page] = None =>
          \/ Calm /\ astray = {} /\ astray' = astray
          \/ ~(Calm /\ astray = {}) /\ k \in sure /\ (Calm => astray' = astray)
             /\ (~Calm => orders[k] # None)
    BY <1>1, <2>1 DEF Place, Strays
  <2>6. CASE k # page
    <3>1. k \in sure /\ Pressed(k)
      BY <2>2, <2>3, <2>6
    <3>2. ASSUME Undecided(k)
          PROVE  FALSE
      <4>1. Waiting(k) /\ ~Calm /\ orders[k] = None
        BY <2>6, <3>1, <3>2 DEF Pressed, Undecided, Calm
      <4>2. orders[page] # None
        BY <2>5, <4>1
      <4>3. FreshPage
        BY <4>1 DEF Waiting, InOrder, NoLate
      <4> QED
        BY <2>1, <4>2, <4>3 DEF FreshPage
    <3>3. ~Undecided(k)'
      BY <2>1, <2>2, <2>6, <3>2 DEF Undecided
    <3> QED
      BY <2>1, <2>2, <2>6, <3>1, <3>3 DEF Pressed
  <2>7. CASE k = page /\ orders[page] # None
    <3>1. Pressed(k)
      BY <2>2, <2>3, <2>7
    <3> QED
      BY <2>1, <2>7, <3>1 DEF Pressed, Undecided, OnlyPost, NoEdit
  <2>8. CASE k = page /\ orders[page] = None
    <3>1. Calm /\ astray = {} /\ astray' = astray
      <4>1. CASE k \in sure
        <5>1. Waiting(k)
          BY <2>3, <2>8, <4>1 DEF Pressed, Undecided
        <5>2. Calm /\ astray = {}
          BY <2>1, <2>8, <5>1 DEF Waiting, OnlyPost, NoEdit, Calm, NoLate
        <5> QED
          BY <2>5, <2>8, <5>2
      <4> QED
        BY <2>2, <2>5, <2>8, <4>1
    <3>2. store = hash
      BY <2>1, <3>1 DEF InOrder, Clean, OneThing, Calm, Fits, Loading, Editing, Ordering, NoLate
    <3> QED
      BY <2>1, <2>8, <3>1, <3>2
         DEF Pressed, Waiting, Clean, Open, Calm, Quiet, OnlyPost, NoEdit, NoLate
  <2> QED
    BY <2>6, <2>7, <2>8
<1>2. ASSUME Serving
      PROVE  /\ UNCHANGED <<store, fetch, loading, page, shown>>
             /\ k \in sure /\ Pressed(k) /\ Open /\ k \in Keys
  <2>1. UNCHANGED <<store, fetch, loading, page, shown>>
    BY <1>2 DEF GetCart, Commit, CartIsCleared, OrderFails, ClearCart, TakeOrder, TakeLate,
                PostLost, tabVars, frontHistory
  <2>2. sure' \subseteq sure
    <3>1. ASSUME NEW j \in Keys, PostLost(j)
          PROVE  sure' \subseteq sure
      BY <3>1, MishapTells DEF PostLost
    <3>2. ASSUME NEW j \in Keys, TakeOrder(j) \/ TakeLate(j)
          PROVE  sure' \subseteq sure
      BY <3>2 DEF TakeOrder, TakeLate, frontHistory
    <3>3. ASSUME NEW c \in Calls, ClearCart(c)
          PROVE  sure' \subseteq sure
      BY <3>3, StraysTell DEF ClearCart, Keeps
    <3>4. CASE GetCart \/ Commit \/ CartIsCleared \/ OrderFails
      BY <3>4 DEF GetCart, Commit, CartIsCleared, OrderFails, frontHistory, Mishap, Strays
    <3> QED
      BY <1>2, <3>1, <3>2, <3>3, <3>4
  <2> QED
    BY <2>1, <2>2 DEF PressedInv, KeysAreKnown
<1>3. ASSUME NEW j \in Keys, TakeOrder(j)
      PROVE  Pressed(k)'
  <2>1. /\ UNCHANGED <<pc, hash, store, fetch, loading, page, shown, late, orders, astray>>
        /\ post[j] = "sent" /\ k \in sure /\ Pressed(k) /\ Open /\ k \in Keys
        /\ \A i \in Keys \ {j} : post'[i] = post[i]
    BY <1>2, <1>3 DEF TakeOrder, vars, callVars, storeVars, frontHistory
  <2>2. CASE Undecided(k)
    <3>1. Waiting(k) /\ j = k /\ job = None /\ orders[k] = None
      BY <2>1, <2>2 DEF Pressed, Undecided, Waiting, OnlyPost, NoLate
    <3>2. post' = [post EXCEPT ![k] = "working"]
          /\ job' = [key |-> k, at |-> "getCart", basket |-> NoItems]
      BY <1>3, <3>1 DEF TakeOrder
    <3> QED
      BY <2>1, <3>1, <3>2 DEF Pressed, Waiting, Clean, Open, Quiet, OnlyPost, NoEdit, NoLate
  <2>3. CASE ~Undecided(k)
    <3>1. orders[k] = None =>
            post[k] = "idle" /\ late[k] = 0 /\ page # k /\ (job # None => job.key # k)
      BY <2>3 DEF Undecided
    <3>2. orders[k] = None => j # k
      BY <2>1, <3>1
    <3>3. ~Undecided(k)'
      BY <1>3, <2>1, <3>1, <3>2 DEF TakeOrder, Undecided
    <3>4. page = k => OnlyPost(k)' /\ store' = shown'[k]
      BY <2>1 DEF Pressed, OnlyPost, NoEdit
    <3> QED
      BY <2>1, <3>3, <3>4 DEF Pressed
  <2> QED
    BY <2>2, <2>3
<1>4. ASSUME NEW j \in Keys, PostLost(j)
      PROVE  Pressed(k)'
  <2>1. /\ UNCHANGED <<pc, hash, store, fetch, loading, page, shown, orders, job>>
        /\ post[j] # "idle" /\ k \in sure /\ Pressed(k) /\ Open /\ k \in Keys
        /\ post' = [post EXCEPT ![j] = "refused"]
    BY <1>2, <1>4 DEF PostLost, vars, callVars, storeVars
  <2>2. orders[k] # None \/ (post[j] = "sent" /\ UNCHANGED <<late, astray>>)
    BY <1>4, <2>1 DEF PostLost, Mishap, Strays
  <2>3. ASSUME Undecided(k)'
        PROVE  Waiting(k)'
    <3>1. Undecided(k) /\ Waiting(k)
      BY <2>1, <2>2, <2>3 DEF Undecided, Pressed
    <3>2. j = k /\ post[k] = "sent" /\ job = None
      BY <2>1, <2>2, <3>1 DEF Waiting, OnlyPost, Undecided, NoLate
    <3>3. orders[k] = None
      BY <3>1 DEF Undecided
    <3> QED
      BY <2>1, <2>2, <3>1, <3>2, <3>3
         DEF Waiting, Clean, Open, Quiet, OnlyPost, NoEdit, NoLate
  <2> QED
    BY <2>1, <2>3 DEF Pressed, OnlyPost, NoEdit
<1>5. ASSUME job # None, Serving
      PROVE  Undecided(k) => Waiting(k) /\ job.key = k /\ post[k] = "working"
  BY <1>2, <1>5 DEF Pressed, Waiting, NoLate
<1>6. ASSUME NEW answer, Replies(job.key, answer), job # None, Serving
      PROVE  page = k => OnlyPost(k)' /\ store' = shown'[k]
  BY <1>0, <1>2, <1>6 DEF Replies, Pressed, OnlyPost, NoEdit
<1>7. CASE GetCart
  <2>1. /\ UNCHANGED <<pc, hash, late, orders, astray, page>> /\ job # None /\ job.at = "getCart"
        /\ k \in sure /\ Pressed(k) /\ Open /\ k \in Keys /\ Serving
        /\ UNCHANGED <<store, fetch, loading, shown>>
    BY <1>2, <1>7 DEF GetCart, vars, callVars, storeVars, frontHistory
  <2>2. CASE hash = NoItems
    <3>1. job' = None /\ Replies(job.key, "refused")
      BY <1>7, <2>2 DEF GetCart
    <3>2. Undecided(k)' => Undecided(k)
      BY <1>0, <2>1, <3>1 DEF Undecided, Replies
    <3>3. Undecided(k)' => Waiting(k)'
      BY <1>0, <1>5, <2>1, <3>1, <3>2
         DEF Replies, Waiting, Clean, Open, Quiet, OnlyPost, NoEdit, NoLate
    <3> QED
      BY <1>6, <2>1, <3>1, <3>3 DEF Pressed
  <2>3. CASE hash # NoItems
    <3>1. job' = [job EXCEPT !.at = "commit", !.basket = hash] /\ post' = post
      BY <1>7, <2>3 DEF GetCart
    <3>2. job'.key = job.key /\ job'.basket = hash
      BY <1>0, <2>1, <3>1 DEF Job
    <3>3. Undecided(k)' => Undecided(k)
      BY <2>1, <3>1, <3>2 DEF Undecided
    <3>4. Undecided(k)' => Waiting(k)'
      BY <1>5, <2>1, <3>1, <3>2, <3>3 DEF Waiting, Clean, Open, Quiet, OnlyPost, NoEdit, NoLate
    <3> QED
      BY <2>1, <3>1, <3>4 DEF Pressed, OnlyPost, NoEdit
  <2> QED
    BY <2>2, <2>3
<1>8. CASE Commit
  <2>1. /\ UNCHANGED <<post, page, store, fetch, loading, shown, late>>
        /\ job # None /\ job.at = "commit"
        /\ k \in sure /\ Pressed(k) /\ Open /\ k \in Keys /\ Serving
        /\ orders' = [orders EXCEPT ![job.key] = job.basket]
        /\ job' = [job EXCEPT !.at = "clearCart"]
    BY <1>2, <1>8 DEF Commit, tabVars, frontHistory
  <2>2. orders[job.key] = None
    BY <1>0, <2>1 DEF DecidedOnce
  <2>3. CASE job.key = k
    <3>1. job.basket = shown[k]
      BY <1>5, <2>1, <2>2, <2>3 DEF Undecided, Waiting, NoLate
    <3> QED
      BY <1>0, <2>1, <2>3, <3>1 DEF Pressed, Undecided, OnlyPost, NoEdit
  <2>4. CASE job.key # k
    <3>1. ~Undecided(k) /\ orders'[k] = orders[k]
      BY <1>0, <1>5, <2>1, <2>4
    <3>2. job'.key = job.key
      BY <1>0, <2>1 DEF Job
    <3> QED
      BY <2>1, <2>4, <3>1, <3>2 DEF Pressed, Undecided, OnlyPost, NoEdit
  <2> QED
    BY <2>3, <2>4
<1>9. ASSUME NEW c \in Calls, ClearCart(c)
      PROVE  Pressed(k)'
  <2>1. /\ UNCHANGED <<post, page, store, fetch, loading, shown, late, orders>>
        /\ job # None /\ job.at = "clearCart"
        /\ k \in sure /\ Pressed(k) /\ Open /\ k \in Keys /\ Serving
        /\ job' = [key |-> job.key, at |-> "clearing", basket |-> job.basket, call |-> c]
    BY <1>2, <1>9 DEF ClearCart, tabVars
  <2>2. ~Undecided(k)
    BY <1>5, <2>1 DEF DecidedOnce, Undecided
  <2> QED
    BY <2>1, <2>2 DEF Pressed, Undecided, OnlyPost, NoEdit
<1>10. CASE CartIsCleared
  <2>1. /\ UNCHANGED <<page, store, fetch, loading, shown, late, orders>>
        /\ job # None /\ job.at = "clearing" /\ job' = None
        /\ k \in sure /\ Pressed(k) /\ Open /\ k \in Keys /\ Serving
    BY <1>2, <1>10 DEF CartIsCleared
  <2>2. PICK answer : Replies(job.key, answer)
    BY <1>10 DEF CartIsCleared
  <2>3. ~Undecided(k)
    BY <1>5, <2>1 DEF DecidedOnce, Undecided
  <2>4. ~Undecided(k)'
    BY <1>0, <2>1, <2>2, <2>3 DEF Undecided, Replies
  <2> QED
    BY <1>6, <2>1, <2>2, <2>4 DEF Pressed
<1>11. CASE OrderFails
  <2>1. /\ UNCHANGED <<pc, hash, page, store, fetch, loading, shown, late, orders>>
        /\ job # None /\ job' = None /\ Replies(job.key, "refused")
        /\ k \in sure /\ Pressed(k) /\ Open /\ k \in Keys /\ Serving
    BY <1>2, <1>11 DEF OrderFails, vars, callVars, storeVars
  <2>2. Undecided(k)' => Undecided(k)
    BY <1>0, <2>1 DEF Undecided, Replies
  <2>3. Undecided(k)' => Waiting(k)'
    <3>1. orders[k] = None => astray' = astray
      BY <1>11, <2>1 DEF OrderFails, Mishap, Strays
    <3> QED
      BY <1>0, <1>5, <2>1, <2>2, <3>1
         DEF Replies, Undecided, Waiting, Clean, Open, Quiet, OnlyPost, NoEdit, NoLate
  <2> QED
    BY <1>6, <2>1, <2>3 DEF Pressed
<1>12. ASSUME NEW j \in Keys, TakeLate(j)
       PROVE  Pressed(k)'
  <2>1. /\ UNCHANGED <<store, fetch, loading, page, post, orders, shown, sure>>
        /\ late[j] # 0 /\ late' = [late EXCEPT ![j] = @ - 1]
    BY <1>12 DEF TakeLate, tabVars, frontHistory
  <2>2. Pressed(k) /\ k \in Keys /\ \A i \in Keys \ {j} : late'[i] = late[i]
    BY <2>1 DEF PressedInv
  <2>3. ~Undecided(k)
    BY <2>1, <2>2 DEF Pressed, Waiting, NoLate
  <2>4. ~Undecided(k)'
    BY <1>12, <2>1, <2>2, <2>3 DEF TakeLate, Undecided
  <2> QED
    BY <2>1, <2>2, <2>4 DEF Pressed, OnlyPost, NoEdit
<1> QED
  BY <1>1, <1>3, <1>4, <1>7, <1>8, <1>9, <1>10, <1>11, <1>12

(* Every step keeps the promise to a key that was pressed on a true show.  *)
LEMMA PressedNext ==
  ASSUME Typed, StorefrontTypeOK, KeysAreKnown, DecidedOnce, InOrder, PressedInv,
         [StorefrontNext]_frontVars
  PROVE  PressedInv'
<1>1. CASE UNCHANGED frontVars
  BY <1>1 DEF frontVars, vars, callVars, storeVars, tabVars, orderVars, frontHistory,
              PressedInv, Pressed, Undecided, Waiting, Clean, Open, Quiet, OnlyPost, NoEdit,
              NoLate
<1> QED
  BY <1>1, EditsKeepPressed, PagesKeepPressed, OrdersKeepPressed DEF StorefrontNext, Checks

(* What the tab shows with nothing on its way, and what it orders.         *)
StorefrontInv == KeysAreKnown /\ DecidedOnce /\ InOrder /\ PressedInv

(* It is an invariant: the parts of it need each other, and the types and  *)
(* bounds that Cart gives.                                                 *)
LEMMA StorefrontInvariant == StorefrontSpec => []StorefrontInv
<1>1. StorefrontInit => StorefrontInv
  <2> SUFFICES ASSUME StorefrontInit
               PROVE  StorefrontInv
    OBVIOUS
  <2>1. KeysAreKnown /\ DecidedOnce /\ PressedInv
    BY DEF StorefrontInit, KeysAreKnown, DecidedOnce, PressedInv, NoEdit
  <2>2. FreshPage /\ Calm /\ (Open => Fits)
    BY DEF StorefrontInit, Init, FreshPage, Calm, Quiet, Running, Open, Fits
  <2> QED
    BY <2>1, <2>2 DEF StorefrontInv, InOrder, Clean, OneThing
<1>2. Typed /\ CartInv /\ StorefrontInv /\ [StorefrontNext]_frontVars => StorefrontInv'
  BY KeysAreKnownNext, DecidedOnceNext, InOrderNext, PressedNext
     DEF StorefrontInv, CartInv
<1>3. StorefrontSpec => []Typed
  <2>1. Spec => []Typed
    BY TypedInit, TypedNext, PTL DEF Spec
  <2> QED
    BY <2>1, StorefrontImplementsCart, PTL
<1> QED
  BY <1>1, <1>2, <1>3, StorefrontsCartHolds, PTL DEF StorefrontSpec

(* With nothing on its way the tab shows the customer's cart, unless it    *)
(* went astray and has not loaded the cart since.                          *)
THEOREM QuietStoresAreCarts == StorefrontSpec => []QuietStoreIsCart
<1>1. StorefrontInv => QuietStoreIsCart
  BY DEF StorefrontInv, InOrder, Clean, OneThing, QuietStoreIsCart, Calm, Fits, Loading, NoLate,
         Editing, Ordering
<1> QED
  BY <1>1, StorefrontInvariant, PTL

(* What is ordered is what was on show when Place Order was pressed, if it *)
(* was then a true show and nothing unsure happened before the order.      *)
THEOREM OrdersAreAsShown == StorefrontSpec => []OrderedIsShown
<1>1. StorefrontInv => OrderedIsShown
  BY DEF StorefrontInv, PressedInv, Pressed, OrderedIsShown
<1> QED
  BY <1>1, StorefrontInvariant, PTL

(* A key has one order for good.                                           *)
THEOREM StorefrontOrdersStay == StorefrontSpec => [][OrdersStay]_frontVars
<1>1. StorefrontTypeOK /\ StorefrontInv /\ [StorefrontNext]_frontVars
        => [OrdersStay]_frontVars
  BY OrdersStayNext DEF StorefrontInv
<1>2. CartInv => StorefrontTypeOK
  BY DEF CartInv
<1> QED
  BY <1>1, <1>2, StorefrontInvariant, StorefrontsCartHolds, PTL DEF StorefrontSpec
=============================================================================
