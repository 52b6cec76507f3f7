-------------------------------- MODULE Cart --------------------------------
(***************************************************************************)
(* The cart of one user: CartService over the Redis hash cart:{userId} and *)
(* the Postgres snapshot row of carts.                                     *)
(*                                                                         *)
(* Every call of the service is a process, for the replicas serialise      *)
(* nothing.  addItem, updateItem, removeItem and priceCart read the whole  *)
(* hash, work on a copy and replace the hash by a pipeline whose commands  *)
(* other calls can come between.  Prices and labels are left out: an order *)
(* asks the catalog again.                                                 *)
(***************************************************************************)
EXTENDS Naturals

CONSTANTS Calls,       \* the calls for this user
          Variants,    \* itemKey of a line
          Quantities,  \* what a customer may ask for
          NoRow        \* the user has no row in carts

ASSUME CartAssumption ==
    /\ Quantities \subseteq Nat \ {0}
    /\ NoRow \notin [Variants -> Nat]

VARIABLES pc,        \* the await each call is at
          request,   \* what each call was asked for
          items,     \* the call's copy of the lines
          todo,      \* the lines its pipeline has still to HSET
          selected,  \* the row its save() selected
          hash,      \* the lines in Redis: their quantities, 0 for no line
          key,       \* the Redis key: absent, persistent or volatile (TTL set)
          snapshot,  \* the row of carts
          expected,  \* history: the lines after the completed calls, in order
          asked,     \* history: the quantities that calls have put in their copy
          harm       \* history: what else happened to the cart

callVars == <<pc, request, items, todo, selected>>
storeVars == <<hash, key, snapshot>>
historyVars == <<expected, asked, harm>>
vars == <<callVars, storeVars, historyVars>>

Items == [Variants -> Nat]
NoItems == [v \in Variants |-> 0]
LinesOf(i) == {v \in Variants : i[v] # 0}

Request ==
         [op : {"add", "update"}, variant : Variants, quantity : Quantities]
    \cup [op : {"remove"}, variant : Variants]
    \cup [op : {"price", "clear"}]
NoRequest == [op |-> "none"]

Over == {"done", "refused", "failed"}
Running == {"resolve", "read", "del", "hset", "expire", "select", "write", "deleteRow"}
InPipeline == {"hset", "expire"}

(* What the variables hold: hash, snapshot and every copy of the lines are *)
(* quantities by variant, never less than none.                            *)
TypeOK ==
    /\ pc \in [Calls -> {"idle"} \cup Running \cup Over]
    /\ request \in [Calls -> Request \cup {NoRequest}]
    /\ items \in [Calls -> Items]
    /\ todo \in [Calls -> SUBSET Variants]
    /\ selected \in [Calls -> Items \cup {NoRow}]
    /\ hash \in Items
    /\ key \in {"absent", "persistent", "volatile"}
    /\ snapshot \in Items \cup {NoRow}
    /\ expected \in Items
    /\ asked \in Items
    /\ harm \in SUBSET {"overlap", "broken", "expired"}

Quiet == \A c \in Calls : pc[c] \notin Running

Init ==
    /\ pc = [c \in Calls |-> "idle"]
    /\ request = [c \in Calls |-> NoRequest]
    /\ items = [c \in Calls |-> NoItems]
    /\ todo = [c \in Calls |-> {}]
    /\ selected = [c \in Calls |-> NoRow]
    /\ hash = NoItems
    /\ key = "absent"
    /\ snapshot = NoRow
    /\ expected = NoItems
    /\ asked = NoItems
    /\ harm = {}

Goto(c, label) == pc' = [pc EXCEPT ![c] = label]
IsOp(c, ops) == request[c].op \in ops
Harmed(h) == harm' = harm \cup h

(* A call is over, and what it had in memory is gone. *)
Ends(c, outcome) ==
    /\ Goto(c, outcome)
    /\ request' = [request EXCEPT ![c] = NoRequest]
    /\ items' = [items EXCEPT ![c] = NoItems]
    /\ todo' = [todo EXCEPT ![c] = {}]
    /\ selected' = [selected EXCEPT ![c] = NoRow]

-----------------------------------------------------------------------------
(* A call reaches the service. *)
Start(c) ==
    /\ pc[c] = "idle"
    /\ \E r \in Request :
         /\ request' = [request EXCEPT ![c] = r]
         /\ Goto(c, IF r.op = "add" THEN "resolve"
                    ELSE IF r.op = "clear" THEN "del" ELSE "read")
    /\ Harmed(IF Quiet THEN {} ELSE {"overlap"})
    /\ UNCHANGED <<items, todo, selected, storeVars, expected, asked>>

(* The catalog answers: addItem asks before it reads the cart, updateItem  *)
(* and priceCart after.  A variant that is gone or inactive is a 422.      *)
Resolve(c) ==
    /\ pc[c] = "resolve"
    /\ \/ /\ Goto(c, IF IsOp(c, {"add"}) THEN "read" ELSE "del")
          /\ UNCHANGED <<request, items, todo, selected>>
       \/ Ends(c, "refused")
    /\ UNCHANGED <<storeVars, historyVars>>

(* Mutant: removeItem takes one off the quantity. *)
EditedByOne(r, lines) ==
    IF r.op \in {"add", "update", "remove"}
      THEN [lines EXCEPT ![r.variant] =
              IF r.op = "add" THEN @ + r.quantity
              ELSE IF r.op = "update" THEN r.quantity ELSE @ - 1]
      ELSE IF r.op = "clear" THEN NoItems ELSE lines

(* What the call makes of the lines it reads. *)
Edited(r, lines) ==
    IF r.op \in {"add", "update", "remove"}
      THEN [lines EXCEPT ![r.variant] =
              IF r.op = "add" THEN @ + r.quantity
              ELSE IF r.op = "update" THEN r.quantity ELSE 0]
      ELSE IF r.op = "clear" THEN NoItems ELSE lines

(* HGETALL, and what is done with the answer: updateItem and removeItem    *)
(* refuse a line that is not there (404).                                  *)
Read(c) ==
    LET r == request[c]
    IN  /\ pc[c] = "read"
        /\ IF r.op \in {"update", "remove"} /\ hash[r.variant] = 0
             THEN /\ Ends(c, "refused")
                  /\ UNCHANGED asked
             ELSE /\ Goto(c, IF r.op \in {"update", "price"} THEN "resolve" ELSE "del")
                  /\ items' = [items EXCEPT ![c] = Edited(r, hash)]
                  /\ asked' = IF r.op \in {"add", "update"}
                                THEN [asked EXCEPT ![r.variant] = @ + r.quantity]
                                ELSE asked
                  /\ UNCHANGED <<request, todo, selected>>
        /\ UNCHANGED <<storeVars, expected, harm>>

(* DEL cart:{userId}, by clear() or as the head of the pipeline. *)
Del(c) ==
    /\ pc[c] = "del"
    /\ hash' = NoItems
    /\ key' = "absent"
    /\ IF IsOp(c, {"clear"})
         THEN Goto(c, "deleteRow") /\ UNCHANGED todo
         ELSE Goto(c, "hset") /\ todo' = [todo EXCEPT ![c] = LinesOf(items[c])]
    /\ UNCHANGED <<request, items, selected, snapshot, historyVars>>

(* HSET makes the key, without a TTL, when there is none. *)
KeyAfterHSet == IF key = "absent" THEN "persistent" ELSE key

(* Mutant: the quantity is added to what the hash holds by now. *)
HSetLineIncrements(c) ==
    /\ pc[c] = "hset"
    /\ \E v \in todo[c] :
         /\ hash' = [hash EXCEPT ![v] = @ + items[c][v]]
         /\ todo' = [todo EXCEPT ![c] = @ \ {v}]
    /\ key' = KeyAfterHSet
    /\ UNCHANGED <<pc, request, items, selected, snapshot, historyVars>>

(* HSET cart:{userId} {itemKey} {line}. *)
HSetLine(c) ==
    /\ pc[c] = "hset"
    /\ \E v \in todo[c] :
         /\ hash' = [hash EXCEPT ![v] = items[c][v]]
         /\ todo' = [todo EXCEPT ![c] = @ \ {v}]
    /\ key' = KeyAfterHSet
    /\ UNCHANGED <<pc, request, items, selected, snapshot, historyVars>>

(* HSET cart:{userId} total, after the last line. *)
HSetTotal(c) ==
    /\ pc[c] = "hset"
    /\ todo[c] = {}
    /\ key' = KeyAfterHSet
    /\ Goto(c, "expire")
    /\ UNCHANGED <<request, items, todo, selected, hash, snapshot, historyVars>>

(* Mutant: the pipeline ends without EXPIRE. *)
NoExpiry(c) ==
    /\ pc[c] = "expire"
    /\ Goto(c, "select")
    /\ UNCHANGED <<request, items, todo, selected, storeVars, historyVars>>

(* EXPIRE cart:{userId} 86400; nothing when the key is gone. *)
SetExpiry(c) ==
    /\ pc[c] = "expire"
    /\ key' = IF key = "absent" THEN "absent" ELSE "volatile"
    /\ Goto(c, "select")
    /\ UNCHANGED <<request, items, todo, selected, hash, snapshot, historyVars>>

(* save() of the snapshot first selects the row. *)
SelectRow(c) ==
    /\ pc[c] = "select"
    /\ selected' = [selected EXCEPT ![c] = snapshot]
    /\ Goto(c, "write")
    /\ UNCHANGED <<request, items, todo, storeVars, historyVars>>

(* Done, with what the cart should be by now. *)
Completes(c) ==
    /\ Ends(c, "done")
    /\ expected' = Edited(request[c], expected)
    /\ UNCHANGED harm

(* The statement was executed but its reply was lost. *)
ReplyLost(c) ==
    /\ Ends(c, "failed")
    /\ Harmed({"broken"})
    /\ UNCHANGED expected

(* Mutant: the row is only ever inserted. *)
WriteRowOnce(c) ==
    /\ pc[c] = "write"
    /\ snapshot' = IF snapshot = NoRow THEN items[c] ELSE snapshot
    /\ Completes(c) \/ ReplyLost(c)
    /\ UNCHANGED <<hash, key, asked>>

(* It then inserts a row, which another call must not have done meanwhile, *)
(* or updates the columns that differ from the row it selected, which does *)
(* nothing when that row is gone.                                          *)
WriteRow(c) ==
    /\ pc[c] = "write"
    /\ \/ /\ selected[c] = NoRow
          /\ snapshot = NoRow
          /\ snapshot' = items[c]
       \/ /\ selected[c] # NoRow
          /\ snapshot' = IF snapshot = NoRow \/ items[c] = selected[c]
                           THEN snapshot ELSE items[c]
    /\ Completes(c) \/ ReplyLost(c)
    /\ UNCHANGED <<hash, key, asked>>

(* DELETE FROM carts, the end of clearCart. *)
DeleteRow(c) ==
    /\ pc[c] = "deleteRow"
    /\ snapshot' = NoRow
    /\ Completes(c) \/ ReplyLost(c)
    /\ UNCHANGED <<hash, key, asked>>

-----------------------------------------------------------------------------
(* What goes wrong. *)

(* An await rejects, the duplicate key of WriteRow among them, or the      *)
(* replica dies.  From DEL on the work is left half done.                  *)
Fails(c) ==
    /\ pc[c] \in Running
    /\ Ends(c, "failed")
    /\ Harmed(IF pc[c] \in {"read", "resolve", "del"} THEN {} ELSE {"broken"})
    /\ UNCHANGED <<storeVars, expected, asked>>

(* The commands of a pipeline that Redis did not get are errors in the     *)
(* result of exec(), which nobody looks at: the call goes on.              *)
PipelineCut(c) ==
    /\ \/ pc[c] \in InPipeline
       \/ pc[c] = "del" /\ ~IsOp(c, {"clear"})
    /\ Goto(c, "select")
    /\ Harmed({"broken"})
    /\ todo' = [todo EXCEPT ![c] = {}]
    /\ UNCHANGED <<request, items, selected, storeVars, expected, asked>>

(* A day passes. *)
CartExpires ==
    /\ key = "volatile"
    /\ key' = "absent"
    /\ hash' = NoItems
    /\ Harmed({"expired"})
    /\ UNCHANGED <<callVars, snapshot, expected, asked>>

-----------------------------------------------------------------------------
CallStep(c) ==
    \/ Start(c) \/ Resolve(c) \/ Read(c) \/ Del(c) \/ HSetLine(c) \/ HSetTotal(c)
    \/ SetExpiry(c) \/ SelectRow(c) \/ WriteRow(c) \/ DeleteRow(c)

Next ==
    \/ \E c \in Calls : CallStep(c) \/ Fails(c) \/ PipelineCut(c)
    \/ CartExpires

Spec == Init /\ [][Next]_vars

-----------------------------------------------------------------------------
(* Properties. *)

(* Between calls, and as long as none overlapped another, was cut off or   *)
(* outlived by the cart, the hash and the snapshot both hold exactly what  *)
(* the completed calls make, applied one after the other.                  *)
QuietCartIsExact ==
    Quiet /\ harm = {}
    => /\ hash = expected
       /\ snapshot \in {expected} \cup (IF expected = NoItems THEN {NoRow} ELSE {})

(* However calls overlap and fail, no line of the cart or the snapshot has *)
(* more than the calls that edited it asked for, taken together: what is   *)
(* lost is lost, but the customer is never charged for what nobody added.  *)
NeverMoreThanAsked ==
    \A v \in Variants :
        /\ hash[v] <= asked[v]
        /\ snapshot # NoRow => snapshot[v] <= asked[v]

(* A cart with no call at work on it has a TTL, whatever calls overlapped  *)
(* on it: only a pipeline that broke off can leave a cart for ever.        *)
CartsExpire ==
    key = "persistent"
    => \/ \E c \in Calls : pc[c] \in InPipeline
       \/ "broken" \in harm
=============================================================================
