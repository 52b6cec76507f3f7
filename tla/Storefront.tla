----------------------------- MODULE Storefront -----------------------------
(***************************************************************************)
(* A customer's browser tab before the cart service: the cart store of the *)
(* web app (store/cart.ts), the pages that edit it at once and ask the     *)
(* server after, and the checkout page with its Idempotency-Key; composed  *)
(* with module Cart, of which the calls of the tab, of other devices and   *)
(* of the order service are calls.                                         *)
(*                                                                         *)
(* The order service is the once-per-key service that Checkout implements, *)
(* between its lock and its answer.  Prices, labels and the session are    *)
(* left out.  The tab shows what is in the store; the pages that a         *)
(* customer can edit the cart on are told apart by what they do with an    *)
(* answer, which they do even after the customer has left them.            *)
(***************************************************************************)
EXTENDS Cart, FiniteSets

CONSTANTS Keys,     \* an Idempotency-Key for each visit of the checkout page
          None,     \* no tab, no fetch, no order
          MaxFlights,  \* bound on the answers a tab awaits at once ...
          MaxEvents    \* ... and on its calls, visits and mishaps

(* What the tab keeps of a fetch, of the load of the cart page, and what   *)
(* PlaceOrder has in memory at its awaits.                                 *)
Fetch == [from : {"menu", "product", "cart"}, before : Items,
          got : {"nothing", "lines", "error"}, lines : Items]
Load == [got : {"nothing", "lines"}, lines : Items]
Job == [key : Keys, at : {"getCart", "commit", "clearCart"}, basket : Items]
         \cup [key : Keys, at : {"clearing"}, basket : Items, call : Calls]

ASSUME StorefrontAssumption ==
    /\ None \notin Items \cup Keys
    /\ None \notin Fetch \cup Load \cup Job
    /\ MaxFlights \in Nat /\ MaxEvents \in Nat

VARIABLES store,    \* useCartStore: the quantities on show
          fetch,    \* what the tab awaits of each call
          loading,  \* the GET /cart of the cart page
          page,     \* the key of the checkout page, None on any other
          visited,  \* keys of checkout pages so far
          post,     \* the POST /orders of each key
          late,     \* POSTs that the tab gave up on, still on their way
          job,      \* the PlaceOrder that holds lock:order:{userId}
          orders,   \* the lines of the order each key has
          shown,    \* history: what was on show when Place Order was pressed
          sure,     \* history: keys whose order was pressed on a true show ...
          astray,   \* history: ... which it is not since, or before, a load
          mishaps   \* how much has gone wrong, if there is a tab

tabVars == <<store, fetch, loading, page, visited, post>>
orderVars == <<late, job, orders>>
frontHistory == <<shown, sure, astray, mishaps>>
frontVars == <<vars, tabVars, orderVars, frontHistory>>

(* What the variables hold: the tab shows quantities, and awaits answers   *)
(* with quantities.                                                        *)
StorefrontTypeOK ==
    /\ store \in Items \cup {None}
    /\ fetch \in [Calls -> Fetch \cup {None}]
    /\ loading \in Load \cup {None}
    /\ page \in Keys \cup {None}
    /\ visited \subseteq Keys
    /\ post \in [Keys -> {"idle", "sent", "working", "placed", "refused"}]
    /\ late \in [Keys -> Nat]
    /\ job \in Job \cup {None}
    /\ orders \in [Keys -> Items \cup {None}]
    /\ shown \in [Keys -> Items]
    /\ sure \subseteq Keys
    /\ astray \subseteq {"before", "since"}
    /\ mishaps \in Nat

(* There is a tab, or there is none and the calls are anybody's.           *)
StorefrontInit ==
    /\ Init
    /\ store \in {NoItems, None}
    /\ fetch = [c \in Calls |-> None]
    /\ loading = None
    /\ page = None /\ visited = {}
    /\ post = [k \in Keys |-> "idle"]
    /\ late = [k \in Keys |-> 0]
    /\ job = None
    /\ orders = [k \in Keys |-> None]
    /\ shown = [k \in Keys |-> NoItems]
    /\ sure = {}
    /\ astray = {}
    /\ mishaps = 0

Open == store # None

(* Nothing is on its way between the tab and the server, nor in it.        *)
Calm ==
    /\ Quiet
    /\ \A c \in Calls : fetch[c] = None
    /\ loading = None /\ job = None
    /\ \A k \in Keys : post[k] = "idle" /\ late[k] = 0

(* History: the store may not show the cart from now on, as far as the     *)
(* code can know; an order that is not made yet may not be what was shown. *)
Strays(unsure) ==
    IF unsure /\ Open
      THEN /\ astray' = astray \cup {"since"}
           /\ sure' = {k \in sure : orders[k] # None}
      ELSE UNCHANGED <<astray, sure>>

Keeps == Strays(FALSE) /\ UNCHANGED mishaps

(* How much has happened to a tab: a bound of the model.                   *)
Events ==
    Cardinality({c \in Calls : pc[c] # "idle"}) + Cardinality(visited) + mishaps

(* Something goes wrong.                                                   *)
Mishap(unsure) ==
    /\ Open => Events < MaxEvents
    /\ mishaps' = IF Open THEN mishaps + 1 ELSE mishaps
    /\ Strays(unsure)

(* A call of the cart service begins.  Calls that overlap in the service   *)
(* are met without a tab.                                                  *)
Begins(c, r) ==
    /\ Open => Quiet /\ Events < MaxEvents
    /\ Start(c)
    /\ request'[c] = r

-----------------------------------------------------------------------------
(* The tab's edits *)

Awaits(c, from, before) ==
    fetch' = [fetch EXCEPT ![c] = [from |-> from, before |-> before,
                                   got |-> "nothing", lines |-> NoItems]]

(* Bounds: few answers are awaited at once, and a tab that may not show    *)
(* the cart loads it before it edits more or goes to the checkout.         *)
Flights ==
    Cardinality({c \in Calls : fetch[c] # None} \cup {k \in Keys : post[k] # "idle"})
    + IF loading = None THEN 0 ELSE 1

MayAsk == Flights < MaxFlights
MayEdit == MayAsk /\ "since" \notin astray

OneOf(v) == [op |-> "add", variant |-> v, quantity |-> 1]

(* addToCart of the menu, which keeps what was on show, and the product    *)
(* page's button, which does not: optimisticAdd, then POST /cart/items.    *)
Add(c, v, from) ==
    /\ Open /\ page = None /\ MayEdit
    /\ Begins(c, OneOf(v))
    /\ store' = [store EXCEPT ![v] = @ + 1]
    /\ Awaits(c, from, IF from = "menu" THEN store ELSE NoItems)
    /\ Strays(~Calm)
    /\ UNCHANGED <<loading, page, visited, post, orderVars, shown, mishaps>>

(* updateQty and remove of the cart page, for a line on show: PATCH or     *)
(* DELETE /cart/items, and nothing before the answer.                      *)
Change(c, r) ==
    /\ Open /\ page = None /\ MayEdit
    /\ r.op \in {"update", "remove"}
    /\ store[r.variant] # 0
    /\ Begins(c, r)
    /\ Awaits(c, "cart", NoItems)
    /\ Strays(~Calm)
    /\ UNCHANGED <<store, loading, page, visited, post, orderVars, shown, mishaps>>

(* Mutant: the menu does not roll back either. *)
NotRolledBack(c) ==
    /\ fetch[c] # None /\ fetch[c].got # "nothing"
    /\ store' = IF fetch[c].got = "lines" THEN fetch[c].lines ELSE store
    /\ fetch' = [fetch EXCEPT ![c] = None]
    /\ Strays(fetch[c].got = "error" /\ fetch[c].from = "product")
    /\ UNCHANGED <<vars, loading, page, visited, post, orderVars, shown, mishaps>>

(* setCart(answer), rollback(before) by the menu; an error is nobody's     *)
(* business on the other pages, and the product page keeps the line.       *)
Answered(c) ==
    /\ fetch[c] # None /\ fetch[c].got # "nothing"
    /\ store' = IF fetch[c].got = "lines" THEN fetch[c].lines
                ELSE IF fetch[c].from = "menu" THEN fetch[c].before ELSE store
    /\ fetch' = [fetch EXCEPT ![c] = None]
    /\ Strays(fetch[c].got = "error" /\ fetch[c].from = "product")
    /\ UNCHANGED <<vars, loading, page, visited, post, orderVars, shown, mishaps>>

(* The cart page is opened: GET /cart ...                                  *)
OpenCart ==
    /\ MayAsk
    /\ Open /\ page = None /\ loading = None
    /\ loading' = [got |-> "nothing", lines |-> NoItems]
    /\ astray' = IF ~Calm THEN {"since"} ELSE IF astray = {} THEN {} ELSE {"before"}
    /\ sure' = IF Calm THEN sure ELSE {k \in sure : orders[k] # None}
    /\ UNCHANGED <<vars, store, fetch, page, visited, post, orderVars, shown, mishaps>>

(* ... which reads the hash, whoever is writing it, ...                    *)
ReadCart ==
    /\ loading # None /\ loading.got = "nothing"
    /\ loading' = [got |-> "lines", lines |-> hash]
    /\ UNCHANGED <<vars, store, fetch, page, visited, post, orderVars, frontHistory>>

(* ... and then setCart, or nothing if it failed.                          *)
ShowCart ==
    /\ loading # None /\ loading.got = "lines"
    /\ store' = loading.lines
    /\ loading' = None
    /\ astray' = astray \ {"before"}
    /\ UNCHANGED <<vars, fetch, page, visited, post, orderVars, shown, sure, mishaps>>

LoadFails ==
    /\ loading # None
    /\ loading' = None
    /\ Mishap(FALSE)
    /\ UNCHANGED <<vars, store, fetch, page, visited, post, orderVars, shown>>

-----------------------------------------------------------------------------
(* The checkout page *)

(* Mounted: a new key. *)
OpenCheckout(k) ==
    /\ Open /\ page = None /\ k \notin visited /\ MayEdit /\ Events < MaxEvents
    /\ page' = k
    /\ visited' = visited \cup {k}
    /\ UNCHANGED <<vars, store, fetch, loading, post, orderVars, frontHistory>>

LeaveCheckout ==
    /\ page # None
    /\ page' = None
    /\ UNCHANGED <<vars, store, fetch, loading, visited, post, orderVars, frontHistory>>

(* Place Order, which is disabled while it is awaited and while there is   *)
(* nothing on show.                                                        *)
Place ==
    /\ MayAsk
    /\ Open /\ page # None
    /\ post[page] = "idle" /\ store # NoItems
    /\ post' = [post EXCEPT ![page] = "sent"]
    /\ shown' = [shown EXCEPT ![page] = store]
    /\ IF orders[page] # None THEN UNCHANGED <<sure, astray>>
       ELSE IF Calm /\ astray = {}
         THEN sure' = sure \cup {page} /\ UNCHANGED astray
         ELSE Strays(~Calm)
    /\ UNCHANGED <<vars, store, fetch, loading, page, visited, orderVars, mishaps>>

(* Mutant: the store is left as it was. *)
PlacedUncleared(k) ==
    /\ post[k] = "placed"
    /\ page' = None
    /\ post' = [post EXCEPT ![k] = "idle"]
    /\ Keeps
    /\ UNCHANGED <<vars, store, fetch, loading, visited, orderVars, shown>>

(* clear() and on to the order's page, from wherever the customer is.      *)
Placed(k) ==
    /\ post[k] = "placed"
    /\ store' = NoItems
    /\ page' = None
    /\ post' = [post EXCEPT ![k] = "idle"]
    /\ Keeps
    /\ UNCHANGED <<vars, fetch, loading, visited, orderVars, shown>>

(* The error is shown, and the button may be pressed again.                *)
Refused(k) ==
    /\ post[k] = "refused"
    /\ post' = [post EXCEPT ![k] = "idle"]
    /\ UNCHANGED <<vars, store, fetch, loading, page, visited, orderVars, frontHistory>>

-----------------------------------------------------------------------------
(* The order service, as Checkout has it *)

Replies(k, answer) ==
    post' = IF post[k] = "working" THEN [post EXCEPT ![k] = answer] ELSE post

(* findIdempotency, then the lock.                                         *)
TakeOrder(k) ==
    /\ post[k] = "sent"
    /\ IF orders[k] # None
         THEN post' = [post EXCEPT ![k] = "placed"] /\ UNCHANGED job
       ELSE IF job # None
         THEN post' = [post EXCEPT ![k] = "refused"] /\ UNCHANGED job
         ELSE /\ post' = [post EXCEPT ![k] = "working"]
              /\ job' = [key |-> k, at |-> "getCart", basket |-> NoItems]
    /\ UNCHANGED <<vars, store, fetch, loading, page, visited, late, orders, frontHistory>>

(* A POST that nobody awaits any more is served like any other: the        *)
(* gateway does not notice that the browser has gone.                      *)
TakeLate(k) ==
    /\ late[k] > 0
    /\ late' = [late EXCEPT ![k] = @ - 1]
    /\ job' = IF orders[k] = None /\ job = None
                 THEN [key |-> k, at |-> "getCart", basket |-> NoItems]
                 ELSE job
    /\ UNCHANGED <<vars, tabVars, orders, frontHistory>>

(* An empty cart is a 422. *)
GetCart ==
    /\ job # None /\ job.at = "getCart"
    /\ IF hash = NoItems
         THEN job' = None /\ Replies(job.key, "refused")
         ELSE job' = [job EXCEPT !.at = "commit", !.basket = hash] /\ UNCHANGED post
    /\ UNCHANGED <<vars, store, fetch, loading, page, visited, late, orders, frontHistory>>

Commit ==
    /\ job # None /\ job.at = "commit"
    /\ orders' = [orders EXCEPT ![job.key] = job.basket]
    /\ job' = [job EXCEPT !.at = "clearCart"]
    /\ UNCHANGED <<vars, tabVars, late, frontHistory>>

ClearCart(c) ==
    /\ job # None /\ job.at = "clearCart"
    /\ Begins(c, [op |-> "clear"])
    /\ job' = [key |-> job.key, at |-> "clearing", basket |-> job.basket, call |-> c]
    /\ Keeps
    /\ UNCHANGED <<tabVars, late, orders, shown>>

CartIsCleared ==
    /\ job # None /\ job.at = "clearing" /\ pc[job.call] \in Over
    /\ Replies(job.key, IF pc[job.call] = "done" THEN "placed" ELSE "refused")
    /\ job' = None
    /\ Strays(pc[job.call] # "done")
    /\ UNCHANGED <<vars, store, fetch, loading, page, visited, late, orders, shown, mishaps>>

(* PlaceOrder fails at an await, or its replica dies; what it asked of the *)
(* cart service goes on.                                                   *)
OrderFails ==
    /\ job # None
    /\ Replies(job.key, "refused")
    /\ job' = None
    /\ Mishap(job.at \in {"clearCart", "clearing"})
    /\ UNCHANGED <<vars, store, fetch, loading, page, visited, late, orders, shown>>

(* The POSTs of some keys go on to the order service without the tab.      *)
GoOn(ks) == late' = [k \in Keys |-> IF k \in ks THEN late[k] + 1 ELSE late[k]]

(* The connection of the tab is lost: the POST never arrives, or it goes   *)
(* on, or it has and its answer is lost.                                   *)
PostLost(k) ==
    /\ post[k] \in {"sent", "working", "placed"}
    /\ post' = [post EXCEPT ![k] = "refused"]
    /\ \/ post[k] = "sent" /\ UNCHANGED late /\ Mishap(FALSE)
       \/ post[k] = "sent" /\ GoOn({k}) /\ Mishap(TRUE)
       \/ post[k] # "sent" /\ UNCHANGED late /\ Mishap(TRUE)
    /\ UNCHANGED <<vars, store, fetch, loading, page, visited, job, orders, shown>>

-----------------------------------------------------------------------------
(* The calls of Cart *)

(* What the tab gets of a call that is over, or does not: then it cannot   *)
(* know what became of its edit.                                           *)
Hears(c) ==
    IF fetch[c] # None /\ fetch[c].got = "nothing" /\ pc'[c] \in Over
      THEN fetch' = [fetch EXCEPT ![c].got = IF pc'[c] = "done" THEN "lines" ELSE "error",
                                  ![c].lines = IF pc'[c] = "done" THEN items[c] ELSE NoItems]
      ELSE UNCHANGED fetch

Works(c) ==
    \/ Resolve(c) \/ Read(c) \/ Del(c) \/ HSetLine(c) \/ HSetTotal(c)
    \/ SetExpiry(c) \/ SelectRow(c)

Serves(c) ==
    /\ \/ Works(c) /\ Keeps
       \/ (WriteRow(c) \/ DeleteRow(c)) /\ IF pc'[c] = "done" THEN Keeps ELSE Mishap(TRUE)
       \/ Fails(c) /\ Mishap(pc[c] \notin {"read", "resolve", "del"})
       \/ PipelineCut(c) /\ Mishap(TRUE)
    /\ Hears(c)
    /\ UNCHANGED <<store, loading, page, visited, post, orderVars, shown>>

(* The connection of the tab is lost, and the answer with it.              *)
FetchLost(c) ==
    /\ fetch[c] # None /\ fetch[c].got # "error"
    /\ fetch' = [fetch EXCEPT ![c].got = "error", ![c].lines = NoItems]
    /\ Mishap(TRUE)
    /\ UNCHANGED <<vars, store, loading, page, visited, post, orderVars, shown>>

(* Another device of the customer, or its order: two events for the bound, *)
(* a call and a mishap.                                                    *)
OtherDevice(c) ==
    /\ Open => Events + 1 < MaxEvents
    /\ \E r \in Request : Begins(c, r)
    /\ Mishap(TRUE)
    /\ UNCHANGED <<tabVars, orderVars, shown>>

Expiry ==
    /\ CartExpires
    /\ Mishap(hash # NoItems)
    /\ UNCHANGED <<tabVars, orderVars, shown>>

(* The tab is loaded again: the store is in memory only, and what was      *)
(* sent may arrive or not.                                                 *)
Reload ==
    /\ Open
    /\ store' = NoItems
    /\ fetch' = [c \in Calls |-> None]
    /\ loading' = None /\ page' = None
    /\ post' = [k \in Keys |-> "idle"]
    /\ \E ks \in SUBSET {k \in Keys : post[k] = "sent"} : GoOn(ks)
    /\ Mishap(TRUE)
    /\ UNCHANGED <<vars, visited, job, orders, shown>>

(* logout of the header: clear() of the cart store as well.                *)
Logout ==
    /\ Open /\ store # NoItems
    /\ store' = NoItems
    /\ page' = None
    /\ Mishap(TRUE)
    /\ UNCHANGED <<vars, fetch, loading, visited, post, orderVars, shown>>

-----------------------------------------------------------------------------
Edits(c) ==
    \/ \E v \in Variants, from \in {"menu", "product"} : Add(c, v, from)
    \/ \E r \in Request : Change(c, r)
    \/ Answered(c)

Checks(k) ==
    \/ OpenCheckout(k) \/ Placed(k) \/ Refused(k) \/ PostLost(k)
    \/ TakeOrder(k) \/ TakeLate(k)

StorefrontNext ==
    \/ \E c \in Calls : Edits(c) \/ ClearCart(c) \/ Serves(c) \/ FetchLost(c) \/ OtherDevice(c)
    \/ \E k \in Keys : Checks(k)
    \/ OpenCart \/ ReadCart \/ ShowCart \/ LoadFails
    \/ LeaveCheckout \/ Place
    \/ GetCart \/ Commit \/ CartIsCleared \/ OrderFails
    \/ Expiry \/ Reload \/ Logout

StorefrontSpec == StorefrontInit /\ [][StorefrontNext]_frontVars

-----------------------------------------------------------------------------
(* Properties. *)

(* With nothing on its way the tab shows the customer's cart: edits made   *)
(* at once, their answers, the rollback of a refused one, an order and a   *)
(* visit of the cart page all leave it so, as long as none overlapped      *)
(* another, an answer was lost, a call was cut off or somebody else had    *)
(* the cart; and a visit of the cart page makes up for that.               *)
QuietStoreIsCart == Open /\ Calm /\ astray = {} => store = hash

(* What is ordered is what was on show when Place Order was pressed, with  *)
(* the same exceptions between a visit of the cart page and the order.     *)
OrderedIsShown == \A k \in sure : orders[k] # None => orders[k] = shown[k]

(* Taken together: types, and no cart for ever or with more than was asked *)
(* for, whatever tab, devices and orders call.                             *)
CartInv == TypeOK /\ StorefrontTypeOK /\ NeverMoreThanAsked /\ CartsExpire
=============================================================================
