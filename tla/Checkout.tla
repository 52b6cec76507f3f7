------------------------------ MODULE Checkout ------------------------------
(***************************************************************************)
(* Placing an order: OrderService.placeOrder with the Redis checkout lock, *)
(* the idempotency table and the order transaction of                      *)
(* TypeOrmOrderRepository, and the cart and catalog services it calls.     *)
(*                                                                         *)
(* Every PlaceOrder call is a process; the calls may run on different      *)
(* replicas, so two awaits of one call interleave with any step of the     *)
(* others, and a replica may die at any of them.  An order is named by the *)
(* call that created it.  The lock is the Redis key lock:order:{userId};   *)
(* its value is '1', the holder kept here is known to nobody in the code.  *)
(***************************************************************************)
EXTENDS FiniteSets

CONSTANTS Calls,                \* the PlaceOrder calls
          Keys,                 \* Idempotency-Key values
          Users,
          Lines,                \* cart lines, each added to a cart once
          UserOf,               \* the caller of each call
          KeyOf,                \* the key each call carries
          None,                 \* no order, no lock holder
          LockOutlivesCheckout  \* TRUE: no checkout outlasts the 5 s lock TTL

(* A key is a UUID made by the client (checkout/page.tsx), so two users    *)
(* never present the same one.                                             *)
ASSUME CheckoutAssumption ==
    /\ UserOf \in [Calls -> Users]
    /\ KeyOf \in [Calls -> Keys]
    /\ \A c, d \in Calls : KeyOf[c] = KeyOf[d] => UserOf[c] = UserOf[d]
    /\ None \notin Calls
    /\ LockOutlivesCheckout \in BOOLEAN

VARIABLES pc,      \* the await each call is at
          answer,  \* the order a call is about to return or has returned
          basket,  \* the lines a call read from the cart
          lock,    \* lock:order:{userId}: the call that set it, or None
          idem,    \* order_idempotency: the order each key maps to
          placed,  \* the rows of orders
          cart,    \* the cart service's lines for each user
          added,   \* the lines that were ever put in a cart
          adding,  \* what an addItem of the user will write; {} when none runs
          overlap  \* history: users with a cart cleared under an addItem

callVars == <<pc, answer, basket>>
cartVars == <<cart, added, adding, overlap>>
vars == <<pc, answer, basket, lock, idem, placed, cart, added, adding, overlap>>

(* The awaits inside try { ... } finally { release }. *)
InTry == {"recheck", "getCart", "resolve", "txRead", "txCommit", "clearCart"}
Locked == InTry \cup {"release"}
Over == {"done", "crashed"}

Mine(c) == idem[KeyOf[c]]

(* The order a caller has been told of, if any. *)
AnsweredOrder(c) == IF pc[c] = "done" THEN answer[c] ELSE None

(* What the variables hold: a call is at an await of placeOrder, and lock, *)
(* keys, orders and carts are tables of calls and lines.                   *)
TypeOK ==
    /\ pc \in [Calls -> {"find", "acquire"} \cup Locked \cup Over]
    /\ answer \in [Calls -> Calls \cup {None}]
    /\ basket \in [Calls -> SUBSET Lines]
    /\ lock \in [Users -> Calls \cup {None}]
    /\ idem \in [Keys -> Calls \cup {None}]
    /\ placed \in SUBSET Calls
    /\ cart \in [Users -> SUBSET Lines]
    /\ added \in SUBSET Lines
    /\ adding \in [Users -> SUBSET Lines]
    /\ overlap \in SUBSET Users

Init ==
    /\ pc = [c \in Calls |-> "find"]
    /\ answer = [c \in Calls |-> None]
    /\ basket = [c \in Calls |-> {}]
    /\ lock = [u \in Users |-> None]
    /\ idem = [k \in Keys |-> None]
    /\ placed = {}
    /\ cart = [u \in Users |-> {}]
    /\ added = {}
    /\ adding = [u \in Users |-> {}]
    /\ overlap = {}

Goto(c, label) == pc' = [pc EXCEPT ![c] = label]
Returning(c, o) == answer' = [answer EXCEPT ![c] = o]

-----------------------------------------------------------------------------
(* One action for each await of placeOrder. *)

(* findIdempotency before the lock: a known key is answered at once. *)
FindIdempotency(c) ==
    /\ pc[c] = "find"
    /\ Goto(c, IF Mine(c) = None THEN "acquire" ELSE "done")
    /\ Returning(c, Mine(c))
    /\ UNCHANGED <<basket, lock, idem, placed, cartVars>>

(* SET lock:order:{userId} 1 PX 5000 NX; a taken lock is a 422. *)
Acquire(c) ==
    /\ pc[c] = "acquire"
    /\ IF lock[UserOf[c]] = None
         THEN /\ lock' = [lock EXCEPT ![UserOf[c]] = c]
              /\ Goto(c, "recheck")
         ELSE /\ Goto(c, "done")
              /\ UNCHANGED lock
    /\ UNCHANGED <<answer, basket, idem, placed, cartVars>>

(* Redis set the key but the reply was lost: the client resends, NX fails  *)
(* and the call is refused, with nobody left to delete the lock.           *)
AcquireReplyLost(c) ==
    /\ pc[c] = "acquire"
    /\ lock[UserOf[c]] = None
    /\ lock' = [lock EXCEPT ![UserOf[c]] = c]
    /\ Goto(c, "done")
    /\ UNCHANGED <<answer, basket, idem, placed, cartVars>>

(* findIdempotency again, now under the lock. *)
RecheckIdempotency(c) ==
    /\ pc[c] = "recheck"
    /\ Goto(c, IF Mine(c) = None THEN "getCart" ELSE "release")
    /\ Returning(c, Mine(c))
    /\ UNCHANGED <<basket, lock, idem, placed, cartVars>>

(* The cart service is asked for the lines; an empty cart is a 422. *)
GetCart(c) ==
    /\ pc[c] = "getCart"
    /\ Goto(c, IF cart[UserOf[c]] = {} THEN "release" ELSE "resolve")
    /\ basket' = [basket EXCEPT ![c] = cart[UserOf[c]]]
    /\ UNCHANGED <<answer, lock, idem, placed, cartVars>>

(* Every line is priced by the catalog; one that is gone or inactive is a  *)
(* 422, which InTryFails covers.                                           *)
ResolveLines(c) ==
    /\ pc[c] = "resolve"
    /\ Goto(c, "txRead")
    /\ UNCHANGED <<answer, basket, lock, idem, placed, cartVars>>

(* The transaction looks the key up once more; a hit is returned and the   *)
(* cart is still cleared.                                                  *)
TxRead(c) ==
    /\ pc[c] = "txRead"
    /\ Goto(c, IF Mine(c) = None THEN "txCommit" ELSE "clearCart")
    /\ Returning(c, Mine(c))
    /\ UNCHANGED <<basket, lock, idem, placed, cartVars>>

(* Mutant: the order is committed without its idempotency row. *)
TxCommitWithoutKey(c) ==
    /\ pc[c] = "txCommit"
    /\ placed' = placed \cup {c}
    /\ Goto(c, "clearCart")
    /\ Returning(c, c)
    /\ UNCHANGED <<basket, lock, idem, cartVars>>

(* Mutant: the idempotency row is saved outside the transaction, which     *)
(* then rolls back.                                                        *)
TxCommitKeyOnly(c) ==
    /\ pc[c] = "txCommit"
    /\ idem' = [idem EXCEPT ![KeyOf[c]] = c]
    /\ Goto(c, "clearCart")
    /\ Returning(c, c)
    /\ UNCHANGED <<basket, lock, placed, cartVars>>

(* Order, items, history, outbox row and idempotency row in one            *)
(* transaction.  save() of the idempotency row selects it first: a row     *)
(* that another transaction committed in the meantime is updated, so its   *)
(* key now names this order; a row it missed is a duplicate key, the       *)
(* rollback that InTryFails covers.                                        *)
TxCommit(c) ==
    /\ pc[c] = "txCommit"
    /\ placed' = placed \cup {c}
    /\ idem' = [idem EXCEPT ![KeyOf[c]] = c]
    /\ \/ Goto(c, "clearCart") /\ Returning(c, c)
       \/ Goto(c, "release") /\ UNCHANGED answer   \* the COMMIT's reply was lost
    /\ UNCHANGED <<basket, lock, cartVars>>

(* Mutant: ClearCart is not awaited, and never arrives. *)
ClearCartNotAwaited(c) ==
    /\ pc[c] = "clearCart"
    /\ Goto(c, "release")
    /\ UNCHANGED <<answer, basket, lock, idem, placed, cartVars>>

(* ClearCart empties whatever is in the cart by now. *)
ClearCart(c) ==
    /\ pc[c] = "clearCart"
    /\ cart' = [cart EXCEPT ![UserOf[c]] = {}]
    /\ overlap' = IF adding[UserOf[c]] = {} THEN overlap ELSE overlap \cup {UserOf[c]}
    /\ Goto(c, "release")
    /\ \/ UNCHANGED answer
       \/ Returning(c, None)                       \* the reply was lost
    /\ UNCHANGED <<basket, lock, idem, placed, added, adding>>

(* DEL lock:order:{userId}, whoever set it. *)
Release(c) ==
    /\ pc[c] = "release"
    /\ lock' = [lock EXCEPT ![UserOf[c]] = None]
    /\ Goto(c, "done")
    /\ UNCHANGED <<answer, basket, idem, placed, cartVars>>

-----------------------------------------------------------------------------
(* What goes wrong. *)

(* An invalid input, or Postgres or Redis failing before the lock is held. *)
FailsBeforeLock(c) ==
    /\ pc[c] \in {"find", "acquire"}
    /\ Goto(c, "done")
    /\ UNCHANGED <<answer, basket, lock, idem, placed, cartVars>>

(* Mutant: a failed call gives its key up, so that it can be used again. *)
InTryFailsForgetsKey(c) ==
    /\ pc[c] \in InTry
    /\ Goto(c, "release")
    /\ Returning(c, None)
    /\ idem' = [idem EXCEPT ![KeyOf[c]] = None]
    /\ UNCHANGED <<basket, lock, placed, cartVars>>

(* An await inside the try rejects: the finally releases, then the error   *)
(* is thrown.                                                              *)
InTryFails(c) ==
    /\ pc[c] \in InTry
    /\ Goto(c, "release")
    /\ Returning(c, None)
    /\ UNCHANGED <<basket, lock, idem, placed, cartVars>>

(* The DEL fails, done or not: its error replaces the result. *)
ReleaseFails(c) ==
    /\ pc[c] = "release"
    /\ lock' \in {lock, [lock EXCEPT ![UserOf[c]] = None]}
    /\ Goto(c, "done")
    /\ Returning(c, None)
    /\ UNCHANGED <<basket, idem, placed, cartVars>>

(* The replica running the call dies; an open transaction rolls back. *)
Crash(c) ==
    /\ pc[c] \notin Over
    /\ Goto(c, "crashed")
    /\ Returning(c, None)
    /\ UNCHANGED <<basket, lock, idem, placed, cartVars>>

(* Mutant: SET without PX. *)
LockNeverExpires(u) ==
    /\ lock[u] = None   \* nothing to expire
    /\ UNCHANGED vars

(* PX 5000 passes.  Nothing extends the TTL of a checkout that still runs. *)
LockExpires(u) ==
    /\ lock[u] # None
    /\ LockOutlivesCheckout => pc[lock[u]] \in Over
    /\ lock' = [lock EXCEPT ![u] = None]
    /\ UNCHANGED <<callVars, idem, placed, cartVars>>

(* The customer adds a line, before or during a checkout: the cart service *)
(* reads the cart ...                                                      *)
AddReads(u, l) ==
    /\ l \notin added
    /\ adding[u] = {}
    /\ added' = added \cup {l}
    /\ adding' = [adding EXCEPT ![u] = cart[u] \cup {l}]
    /\ UNCHANGED <<callVars, lock, idem, placed, cart, overlap>>

(* ... and then replaces it.  (Two calls of the cart service that overlap, *)
(* and calls that fail, are in Cart.)                                      *)
AddWrites(u) ==
    /\ adding[u] # {}
    /\ cart' = [cart EXCEPT ![u] = adding[u]]
    /\ adding' = [adding EXCEPT ![u] = {}]
    /\ UNCHANGED <<callVars, lock, idem, placed, added, overlap>>

-----------------------------------------------------------------------------

Works(c) ==
    \/ FindIdempotency(c) \/ Acquire(c) \/ RecheckIdempotency(c)
    \/ GetCart(c) \/ ResolveLines(c) \/ TxRead(c) \/ TxCommit(c)
    \/ ClearCart(c) \/ Release(c)

Fails(c) ==
    \/ AcquireReplyLost(c) \/ FailsBeforeLock(c) \/ InTryFails(c)
    \/ ReleaseFails(c) \/ Crash(c)

Next ==
    \/ \E c \in Calls : Works(c) \/ Fails(c)
    \/ \E u \in Users : LockExpires(u) \/ AddWrites(u)
    \/ \E u \in Users, l \in Lines : AddReads(u, l)

Spec == Init /\ [][Next]_vars

(* Every await of a call settles and Redis expires keys.  Nothing has to   *)
(* fail, and nobody has to fill a cart.                                    *)
FairSpec == /\ Spec
            /\ \A c \in Calls : WF_vars(Works(c))
            /\ \A u \in Users : WF_vars(LockExpires(u))

-----------------------------------------------------------------------------
(* Properties. *)

(* Two calls of one user are never both between acquire and release.       *)
(* lock:order:{userId} is there for this; the finally and the TTL, which   *)
(* free it, must not free it under a checkout that still runs.             *)
MutualExclusion ==
    \A c, d \in Calls :
        /\ pc[c] \in Locked
        /\ pc[d] \in Locked
        /\ UserOf[c] = UserOf[d]
        => c = d

(* swagger.constants.ts:134: retrying with the same key gives the          *)
(* identical order; so no key ever has two orders, whatever failed and     *)
(* was retried.                                                            *)
OneOrderPerKey ==
    \A c, d \in placed : KeyOf[c] = KeyOf[d] => c = d

(* A caller is only told of an order that was committed, for its own key:  *)
(* no rollback and no lost reply makes up an order.  Needs no assumption   *)
(* on the lock.                                                            *)
AnswersAreCommitted ==
    \A c \in Calls :
        LET o == AnsweredOrder(c)
        IN  o # None => o \in placed /\ KeyOf[o] = KeyOf[c]

(* The idempotency row and the order commit together: a key that has an    *)
(* order is known, and names an order of that key.                         *)
IdempotencyMatchesOrders ==
    \A k \in Keys :
        /\ idem[k] # None => idem[k] \in placed /\ KeyOf[idem[k]] = k
        /\ idem[k] = None => \A c \in placed : KeyOf[c] # k

(* A call that answers with the order it made itself has emptied the cart  *)
(* of what it ordered.  The exception is an addItem that had read the cart *)
(* before ClearCart and replaces it after: it puts the ordered lines back. *)
PlacedThenCleared ==
    \A c \in Calls :
        AnsweredOrder(c) = c /\ UserOf[c] \notin overlap
        => basket[c] \cap cart[UserOf[c]] = {}

(* No cart line is sold twice by two calls that both succeeded, whatever   *)
(* keys they carried, with the same exception.                             *)
LineAcceptedOnce ==
    \A c, d \in Calls :
        /\ AnsweredOrder(c) = c
        /\ AnsweredOrder(d) = d
        /\ UserOf[c] \notin overlap
        /\ basket[c] \cap basket[d] # {}
        => c = d

(* No user is locked out for good: whoever failed to release, the lock is  *)
(* free again.                                                             *)
LockIsFreed == \A u \in Users : []<>(lock[u] = None)

-----------------------------------------------------------------------------
(* The inductive invariant behind the properties that rest on the lock:    *)
(* who is in the try holds the lock, a call about to commit still finds    *)
(* its key free, and the idempotency table and the orders are each other's *)
(* image.                                                                  *)

HolderHasLock == \A c \in Calls : pc[c] \in Locked => lock[UserOf[c]] = c

KeyFreeAtCommit == \A c \in Calls : pc[c] = "txCommit" => Mine(c) = None

KeysNameOrders ==
    \A k \in Keys : idem[k] # None => idem[k] \in placed /\ KeyOf[idem[k]] = k

OrdersHaveKeys == \A c \in placed : Mine(c) = c

AnswersAreTheKeys ==
    \A c \in Calls :
        answer[c] # None => /\ answer[c] = Mine(c)
                            /\ pc[c] \in {"clearCart", "release", "done"}

(* Taken together: placeOrder keeps the lock while it works, commits only  *)
(* under a key that is free, and leaves keys, orders and answers in step.  *)
CheckoutInv ==
    /\ TypeOK
    /\ HolderHasLock
    /\ KeyFreeAtCommit
    /\ KeysNameOrders
    /\ OrdersHaveKeys
    /\ AnswersAreTheKeys

-----------------------------------------------------------------------------
(* Checkout implements the abstract once-per-key service: order_idempotency*)
(* is the choice and the answers returned are its answers.                 *)
Once == INSTANCE OncePerKey WITH
            chosen <- idem,
            answered <- [c \in Calls |-> AnsweredOrder(c)]

(* A key is given one order and callers are told of no other, through      *)
(* every lock, lookup, commit and failure of placeOrder.                   *)
ImplementsOncePerKey == Once!Spec
=============================================================================
