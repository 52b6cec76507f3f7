--------------------------- MODULE Checkout_proofs ---------------------------
(* Proofs about Checkout for any sets of calls, keys, users and lines.     *)
EXTENDS Checkout, TLAPS

(* Every variable of Checkout keeps its type, whatever the lock does.      *)
THEOREM CheckoutTyped == Spec => []TypeOK
<1>1. Init => TypeOK
  BY CheckoutAssumption DEF Init, TypeOK
<1>2. TypeOK /\ [Next]_vars => TypeOK'
  <2> SUFFICES ASSUME TypeOK, [Next]_vars
               PROVE  TypeOK'
    OBVIOUS
  <2> USE CheckoutAssumption
      DEF TypeOK, InTry, Locked, Over, Mine, Goto, Returning, cartVars
  <2>1. ASSUME NEW c \in Calls, Works(c)
        PROVE  TypeOK'
    <3>1. CASE FindIdempotency(c)     BY <3>1 DEF FindIdempotency
    <3>2. CASE Acquire(c)             BY <3>2 DEF Acquire
    <3>3. CASE RecheckIdempotency(c)  BY <3>3 DEF RecheckIdempotency
    <3>4. CASE GetCart(c)             BY <3>4 DEF GetCart
    <3>5. CASE ResolveLines(c)        BY <3>5 DEF ResolveLines
    <3>6. CASE TxRead(c)              BY <3>6 DEF TxRead
    <3>7. CASE TxCommit(c)            BY <3>7 DEF TxCommit
    <3>8. CASE ClearCart(c)           BY <3>8 DEF ClearCart
    <3>9. CASE Release(c)             BY <3>9 DEF Release
    <3> QED  BY <2>1, <3>1, <3>2, <3>3, <3>4, <3>5, <3>6, <3>7, <3>8, <3>9 DEF Works
  <2>2. ASSUME NEW c \in Calls, Fails(c)
        PROVE  TypeOK'
    <3>1. CASE AcquireReplyLost(c)    BY <3>1 DEF AcquireReplyLost
    <3>2. CASE FailsBeforeLock(c)     BY <3>2 DEF FailsBeforeLock
    <3>3. CASE InTryFails(c)          BY <3>3 DEF InTryFails
    <3>4. CASE ReleaseFails(c)        BY <3>4 DEF ReleaseFails
    <3>5. CASE Crash(c)               BY <3>5 DEF Crash
    <3> QED  BY <2>2, <3>1, <3>2, <3>3, <3>4, <3>5 DEF Fails
  <2>3. ASSUME NEW u \in Users, LockExpires(u)
        PROVE  TypeOK'
    BY <2>3 DEF LockExpires, callVars
  <2>4. ASSUME NEW u \in Users, NEW l \in Lines, AddReads(u, l)
        PROVE  TypeOK'
    BY <2>4 DEF AddReads, callVars
  <2>5. ASSUME NEW u \in Users, AddWrites(u)
        PROVE  TypeOK'
    BY <2>5 DEF AddWrites, callVars
  <2>6. CASE UNCHANGED vars
    BY <2>6 DEF vars
  <2> QED
    BY <2>1, <2>2, <2>3, <2>4, <2>5, <2>6 DEF Next
<1> QED
  BY <1>1, <1>2, PTL DEF Spec

-----------------------------------------------------------------------------
(* As long as no checkout outlasts the lock, CheckoutInv is inductive.     *)
LEMMA CheckoutInvInit == Init => CheckoutInv
BY CheckoutAssumption
   DEF Init, CheckoutInv, TypeOK, HolderHasLock, KeyFreeAtCommit, KeysNameOrders,
       OrdersHaveKeys, AnswersAreTheKeys, Mine, Locked, InTry

(* Every step keeps the inductive invariant, if no checkout outlasts its   *)
(* lock.                                                                   *)
LEMMA CheckoutInvNext ==
  ASSUME LockOutlivesCheckout, CheckoutInv, TypeOK', [Next]_vars
  PROVE  CheckoutInv'
<1> USE CheckoutAssumption
    DEF CheckoutInv, TypeOK, HolderHasLock, KeyFreeAtCommit, KeysNameOrders,
        OrdersHaveKeys, AnswersAreTheKeys, InTry, Locked, Over, Mine, Goto, Returning,
        cartVars
<1>1. ASSUME NEW c \in Calls, FindIdempotency(c)
      PROVE  CheckoutInv'
  BY <1>1 DEF FindIdempotency
<1>2. ASSUME NEW c \in Calls, Acquire(c)
      PROVE  CheckoutInv'
  BY <1>2 DEF Acquire
<1>3. ASSUME NEW c \in Calls, RecheckIdempotency(c)
      PROVE  CheckoutInv'
  BY <1>3 DEF RecheckIdempotency
<1>4. ASSUME NEW c \in Calls, GetCart(c)
      PROVE  CheckoutInv'
  BY <1>4 DEF GetCart
<1>5. ASSUME NEW c \in Calls, ResolveLines(c)
      PROVE  CheckoutInv'
  BY <1>5 DEF ResolveLines
<1>6. ASSUME NEW c \in Calls, TxRead(c)
      PROVE  CheckoutInv'
  BY <1>6 DEF TxRead
<1>7. ASSUME NEW c \in Calls, TxCommit(c)
      PROVE  CheckoutInv'
  BY <1>7 DEF TxCommit
<1>8. ASSUME NEW c \in Calls, ClearCart(c)
      PROVE  CheckoutInv'
  BY <1>8 DEF ClearCart
<1>9. ASSUME NEW c \in Calls, Release(c)
      PROVE  CheckoutInv'
  BY <1>9 DEF Release
<1>10. ASSUME NEW c \in Calls, AcquireReplyLost(c)
       PROVE  CheckoutInv'
  BY <1>10 DEF AcquireReplyLost
<1>11. ASSUME NEW c \in Calls, FailsBeforeLock(c)
       PROVE  CheckoutInv'
  BY <1>11 DEF FailsBeforeLock
<1>12. ASSUME NEW c \in Calls, InTryFails(c)
       PROVE  CheckoutInv'
  BY <1>12 DEF InTryFails
<1>13. ASSUME NEW c \in Calls, ReleaseFails(c)
       PROVE  CheckoutInv'
  BY <1>13 DEF ReleaseFails
<1>14. ASSUME NEW c \in Calls, Crash(c)
       PROVE  CheckoutInv'
  BY <1>14 DEF Crash
<1>15. ASSUME NEW u \in Users, LockExpires(u)
       PROVE  CheckoutInv'
  BY <1>15 DEF LockExpires, callVars
<1>16. ASSUME NEW u \in Users, NEW l \in Lines, AddReads(u, l)
       PROVE  CheckoutInv'
  BY <1>16 DEF AddReads, callVars
<1>17. ASSUME NEW u \in Users, AddWrites(u)
       PROVE  CheckoutInv'
  BY <1>17 DEF AddWrites, callVars
<1>18. CASE UNCHANGED vars
  BY <1>18 DEF vars
<1> QED
  BY <1>1, <1>2, <1>3, <1>4, <1>5, <1>6, <1>7, <1>8, <1>9, <1>10, <1>11,
     <1>12, <1>13, <1>14, <1>15, <1>16, <1>17, <1>18 DEF Next, Works, Fails

(* What LockIsFreed asks of the steps, and not of the scheduling: a lock   *)
(* is that of a call of its user which is still to release it, or which is *)
(* over, so that nothing but its TTL holds it.                             *)
LocksHaveHolders ==
    \A u \in Users : lock[u] # None =>
        UserOf[lock[u]] = u /\ pc[lock[u]] \in Locked \cup Over

(* However calls fail, replicas die and the lock expires under them: no    *)
(* lock waits for a call that has not reached it.                          *)
THEOREM NoLockIsForgotten == Spec => []LocksHaveHolders
<1>1. Init => LocksHaveHolders
  BY DEF Init, LocksHaveHolders
<1>2. TypeOK /\ LocksHaveHolders /\ [Next]_vars => LocksHaveHolders'
  <2> SUFFICES ASSUME TypeOK, LocksHaveHolders, [Next]_vars
               PROVE  LocksHaveHolders'
    OBVIOUS
  <2> USE CheckoutAssumption DEF TypeOK, LocksHaveHolders, Goto
  <2>1. ASSUME NEW c \in Calls,
               \/ FindIdempotency(c) \/ RecheckIdempotency(c) \/ GetCart(c)
               \/ ResolveLines(c) \/ TxRead(c) \/ TxCommit(c) \/ ClearCart(c)
               \/ FailsBeforeLock(c) \/ InTryFails(c) \/ Crash(c)
        PROVE  LocksHaveHolders'
    <3>1. UNCHANGED lock /\ \A d \in Calls \ {c} : pc'[d] = pc[d]
      BY <2>1 DEF FindIdempotency, RecheckIdempotency, GetCart, ResolveLines, TxRead,
                  TxCommit, ClearCart, FailsBeforeLock, InTryFails, Crash
    <3>2. pc[c] \in Locked \cup Over => pc'[c] \in Locked \cup Over
      BY <2>1 DEF FindIdempotency, RecheckIdempotency, GetCart, ResolveLines, TxRead,
                  TxCommit, ClearCart, FailsBeforeLock, InTryFails, Crash, Locked, InTry, Over
    <3> QED
      BY <3>1, <3>2
  <2>2. ASSUME NEW c \in Calls,
               Acquire(c) \/ AcquireReplyLost(c) \/ Release(c) \/ ReleaseFails(c)
        PROVE  LocksHaveHolders'
    <3>1. \A u \in Users : lock'[u] \in {lock[u], None} \/ (lock'[u] = c /\ u = UserOf[c])
      BY <2>2 DEF Acquire, AcquireReplyLost, Release, ReleaseFails
    <3>2. /\ \A d \in Calls \ {c} : pc'[d] = pc[d]
          /\ pc'[c] \in Locked \cup Over
      BY <2>2 DEF Acquire, AcquireReplyLost, Release, ReleaseFails, Locked, InTry, Over
    <3> QED
      BY <3>1, <3>2
  <2>3. ASSUME NEW u \in Users, LockExpires(u)
        PROVE  LocksHaveHolders'
    BY <2>3 DEF LockExpires, callVars
  <2>4. ASSUME UNCHANGED <<callVars, lock>>
        PROVE  LocksHaveHolders'
    BY <2>4 DEF callVars
  <2>5. ASSUME NEW u \in Users, AddWrites(u) \/ \E l \in Lines : AddReads(u, l)
        PROVE  LocksHaveHolders'
    BY <2>4, <2>5 DEF AddReads, AddWrites
  <2>6. CASE UNCHANGED vars
    BY <2>4, <2>6 DEF vars, callVars
  <2> QED
    BY <2>1, <2>2, <2>3, <2>5, <2>6 DEF Next, Works, Fails
<1> QED
  BY <1>1, <1>2, CheckoutTyped, PTL DEF Spec

(* Who works on an order holds the lock, and keys, orders and answers      *)
(* match.                                                                  *)
THEOREM CheckoutInvariant ==
  ASSUME LockOutlivesCheckout
  PROVE  Spec => []CheckoutInv
<1>1. CheckoutInv /\ TypeOK' /\ [Next]_vars => CheckoutInv'
  BY CheckoutInvNext
<1> QED
  BY <1>1, CheckoutInvInit, CheckoutTyped, PTL DEF Spec

(* The lock excludes: two calls of one user are never both between acquire *)
(* and release.                                                            *)
THEOREM CheckoutsExclude ==
  ASSUME LockOutlivesCheckout
  PROVE  Spec => []MutualExclusion
<1>1. CheckoutInv => MutualExclusion
  BY DEF CheckoutInv, HolderHasLock, MutualExclusion
<1> QED
  BY <1>1, CheckoutInvariant, PTL

(* A retry never makes a second order.                                     *)
THEOREM KeysAreOrderedOnce ==
  ASSUME LockOutlivesCheckout
  PROVE  Spec => []OneOrderPerKey
<1>1. CheckoutInv => OneOrderPerKey
  BY DEF CheckoutInv, TypeOK, OrdersHaveKeys, Mine, OneOrderPerKey
<1> QED
  BY <1>1, CheckoutInvariant, PTL

-----------------------------------------------------------------------------
(* Checkout implements OncePerKey: a commit chooses the key's order, a     *)
(* step that ends a call answers it, everything else stutters.             *)
LEMMA AnswersUnchanged ==
  ASSUME \A c \in Calls : AnsweredOrder(c)' = AnsweredOrder(c)
  PROVE  [c \in Calls |-> AnsweredOrder(c)]' = [c \in Calls |-> AnsweredOrder(c)]
OBVIOUS

(* The answers after a step that answers one call.                         *)
LEMMA AnswerGiven ==
  ASSUME NEW c \in Calls,
         AnsweredOrder(c) = None,
         \/ AnsweredOrder(c)' = None
         \/ AnsweredOrder(c)' = Mine(c),
         \A d \in Calls \ {c} : AnsweredOrder(d)' = AnsweredOrder(d),
         UNCHANGED idem
  PROVE  Once!Answer(c) \/ UNCHANGED Once!onceVars
<1> DEFINE told == [d \in Calls |-> AnsweredOrder(d)]
<1>1. CASE AnsweredOrder(c)' = None
  <2>1. \A d \in Calls : AnsweredOrder(d)' = AnsweredOrder(d)
    BY <1>1
  <2> QED
    BY <2>1, AnswersUnchanged DEF Once!onceVars
<1>2. CASE AnsweredOrder(c)' = Mine(c) /\ Mine(c) # None
  <2>1. told' = [told EXCEPT ![c] = Mine(c)]
    BY <1>2
  <2>2. told[c] = None
    OBVIOUS
  <2> QED
    BY <1>2, <2>1, <2>2 DEF Once!Answer, Mine
<1> QED
  BY <1>1, <1>2

(* Every step of Checkout chooses an order for a free key, answers with    *)
(* the chosen one, or does neither.                                        *)
LEMMA CheckoutStepIsOnceStep ==
  ASSUME CheckoutInv, CheckoutInv', [Next]_vars
  PROVE  [Once!Next]_Once!onceVars
<1> USE CheckoutAssumption
    DEF CheckoutInv, TypeOK, KeyFreeAtCommit, AnswersAreTheKeys, InTry, Locked, Over,
        Mine, Goto, Returning, cartVars
<1> DEFINE AllTold == \A d \in Calls : AnsweredOrder(d)' = AnsweredOrder(d)
<1>1. ASSUME NEW c \in Calls, FindIdempotency(c) \/ Release(c)
      PROVE  [Once!Next]_Once!onceVars
  <2>1. AnsweredOrder(c) = None /\ UNCHANGED idem
    BY <1>1 DEF FindIdempotency, Release, AnsweredOrder
  <2>2. AnsweredOrder(c)' \in {None, Mine(c)}
    BY <1>1 DEF FindIdempotency, Release, AnsweredOrder
  <2>3. \A d \in Calls \ {c} : AnsweredOrder(d)' = AnsweredOrder(d)
    BY <1>1 DEF FindIdempotency, Release, AnsweredOrder
  <2> QED
    BY <2>1, <2>2, <2>3, AnswerGiven DEF Once!Next
<1>2. ASSUME NEW c \in Calls, TxCommit(c)
      PROVE  [Once!Next]_Once!onceVars
  <2>1. AllTold
    BY <1>2 DEF TxCommit, AnsweredOrder
  <2>2. idem[KeyOf[c]] = None /\ idem' = [idem EXCEPT ![KeyOf[c]] = c]
    BY <1>2 DEF TxCommit
  <2> QED
    BY <2>1, <2>2, AnswersUnchanged DEF Once!Next, Once!Choose
<1>3. ASSUME NEW c \in Calls,
             \/ Acquire(c) \/ RecheckIdempotency(c) \/ GetCart(c)
             \/ ResolveLines(c) \/ TxRead(c) \/ ClearCart(c)
      PROVE  AllTold /\ UNCHANGED idem
  BY <1>3 DEF Acquire, RecheckIdempotency, GetCart, ResolveLines, TxRead, ClearCart,
              AnsweredOrder
<1>4. ASSUME NEW c \in Calls, Fails(c)
      PROVE  AllTold /\ UNCHANGED idem
  BY <1>4 DEF Fails, AcquireReplyLost, FailsBeforeLock, InTryFails, ReleaseFails, Crash,
              AnsweredOrder
<1>5. ASSUME NEW u \in Users, LockExpires(u)
      PROVE  AllTold /\ UNCHANGED idem
  BY <1>5 DEF LockExpires, callVars, AnsweredOrder
<1>6. ASSUME NEW u \in Users, NEW l \in Lines, AddReads(u, l)
      PROVE  AllTold /\ UNCHANGED idem
  BY <1>6 DEF AddReads, callVars, AnsweredOrder
<1>7. ASSUME NEW u \in Users, AddWrites(u)
      PROVE  AllTold /\ UNCHANGED idem
  BY <1>7 DEF AddWrites, callVars, AnsweredOrder
<1>8. CASE UNCHANGED vars
  BY <1>8 DEF vars, AnsweredOrder, Once!onceVars
<1>9. AllTold /\ UNCHANGED idem => UNCHANGED Once!onceVars
  BY AnswersUnchanged DEF Once!onceVars
<1> QED
  BY <1>1, <1>2, <1>3, <1>4, <1>5, <1>6, <1>7, <1>8, <1>9 DEF Next, Works

(* Checkout implements OncePerKey, if no checkout outlasts its lock.       *)
THEOREM CheckoutRefinesOncePerKey ==
  ASSUME LockOutlivesCheckout
  PROVE  Spec => ImplementsOncePerKey
<1>1. Init => Once!Init
  BY DEF Init, Once!Init, AnsweredOrder
<1>2. CheckoutInv /\ CheckoutInv' /\ [Next]_vars => [Once!Next]_Once!onceVars
  BY CheckoutStepIsOnceStep
<1> QED
  BY <1>1, <1>2, CheckoutInvariant, PTL DEF Spec, ImplementsOncePerKey, Once!Spec

-----------------------------------------------------------------------------
(* What needs no assumption on the lock: even when it expires under a      *)
(* running checkout, the table and the orders stay consistent and no call  *)
(* is answered with an order that was not committed for its key.           *)
AnswersArePlaced ==
    \A c \in Calls :
        answer[c] # None => answer[c] \in placed /\ KeyOf[answer[c]] = KeyOf[c]

(* Key table, orders and answers match after every step, whoever holds the *)
(* lock.                                                                   *)
LEMMA TableAndAnswersNext ==
  ASSUME TypeOK, IdempotencyMatchesOrders, AnswersArePlaced, [Next]_vars
  PROVE  IdempotencyMatchesOrders' /\ AnswersArePlaced'
<1> USE CheckoutAssumption
    DEF TypeOK, IdempotencyMatchesOrders, AnswersArePlaced, Mine, Goto, Returning,
        cartVars
<1> DEFINE Goal == IdempotencyMatchesOrders' /\ AnswersArePlaced'
<1>1. ASSUME NEW c \in Calls, Works(c)
      PROVE  Goal
  <2>1. CASE TxCommit(c)
    BY <2>1 DEF TxCommit
  <2>2. CASE FindIdempotency(c) \/ RecheckIdempotency(c) \/ TxRead(c)
    BY <2>2 DEF FindIdempotency, RecheckIdempotency, TxRead
  <2>3. CASE Acquire(c) \/ GetCart(c) \/ ResolveLines(c) \/ ClearCart(c) \/ Release(c)
    BY <2>3 DEF Acquire, GetCart, ResolveLines, ClearCart, Release
  <2> QED
    BY <1>1, <2>1, <2>2, <2>3 DEF Works
<1>2. ASSUME NEW c \in Calls, Fails(c)
      PROVE  Goal
  BY <1>2 DEF Fails, AcquireReplyLost, FailsBeforeLock, InTryFails, ReleaseFails, Crash
<1>3. ASSUME NEW u \in Users, LockExpires(u)
      PROVE  Goal
  BY <1>3 DEF LockExpires, callVars
<1>4. ASSUME NEW u \in Users, NEW l \in Lines, AddReads(u, l)
      PROVE  Goal
  BY <1>4 DEF AddReads, callVars
<1>5. ASSUME NEW u \in Users, AddWrites(u)
      PROVE  Goal
  BY <1>5 DEF AddWrites, callVars
<1>6. CASE UNCHANGED vars
  BY <1>6 DEF vars
<1> QED
  BY <1>1, <1>2, <1>3, <1>4, <1>5, <1>6 DEF Next

(* A caller is only told of a committed order of its own key, with no      *)
(* assumption on the lock.                                                 *)
THEOREM AnswersNameCommittedOrders ==
  Spec => [](IdempotencyMatchesOrders /\ AnswersAreCommitted)
<1>1. Init => IdempotencyMatchesOrders /\ AnswersArePlaced
  BY DEF Init, IdempotencyMatchesOrders, AnswersArePlaced
<1>2. /\ TypeOK /\ IdempotencyMatchesOrders /\ AnswersArePlaced /\ [Next]_vars
      => IdempotencyMatchesOrders' /\ AnswersArePlaced'
  BY TableAndAnswersNext
<1>3. AnswersArePlaced => AnswersAreCommitted
  BY DEF AnswersArePlaced, AnswersAreCommitted, AnsweredOrder
<1> QED
  BY <1>1, <1>2, <1>3, CheckoutTyped, PTL DEF Spec

-----------------------------------------------------------------------------
(* Where the cart lines are.  A call has Sold when it placed its own order *)
(* and cleared the cart; it is Selling from reading the cart on.           *)
Sold(c) == pc[c] \in {"release", "done"} /\ answer[c] = c
Selling(c) == pc[c] \in {"resolve", "txRead", "txCommit", "clearCart"}

(* What the cart service has in the cart of a user or is about to put      *)
(* there.                                                                  *)
Kept(u) == cart[u] \cup adding[u]

LinesStayApart ==
    /\ \A c \in Calls : basket[c] \subseteq added
    /\ \A u \in Users : Kept(u) \subseteq added
    /\ \A u, v \in Users : u # v => Kept(u) \cap Kept(v) = {}
    /\ \A c \in Calls, u \in Users : u # UserOf[c] => basket[c] \cap Kept(u) = {}
    /\ \A c, d \in Calls : UserOf[c] # UserOf[d] => basket[c] \cap basket[d] = {}

PlacedLate ==
    \A c \in Calls :
        \/ c \in placed
        \/ answer[c] = c
        \/ \E k \in Keys : idem[k] = c
        => pc[c] \in {"clearCart", "release"} \cup Over

SoldLeftCart ==
    \A c \in Calls :
        Sold(c) /\ UserOf[c] \notin overlap => basket[c] \cap Kept(UserOf[c]) = {}

SoldOnce ==
    \A c, d \in Calls :
        c # d /\ Sold(c) /\ UserOf[c] \notin overlap /\ (Sold(d) \/ Selling(d))
        => basket[c] \cap basket[d] = {}

CartInv == LinesStayApart /\ PlacedLate /\ SoldLeftCart

(* Steps that touch no line.                                               *)
LEMMA LinesUntouched ==
  ASSUME CartInv, PlacedLate',
         UNCHANGED <<basket, cartVars>>,
         \A c \in Calls : Sold(c)' => Sold(c)
  PROVE  CartInv'
<1>1. LinesStayApart'
  BY DEF CartInv, LinesStayApart, Kept, cartVars
<1>2. SoldLeftCart'
  BY DEF CartInv, SoldLeftCart, Kept, cartVars
<1> QED
  BY <1>1, <1>2 DEF CartInv

(* A call reads its own user's cart, a line is added once, and ClearCart   *)
(* only takes lines away.                                                  *)
LEMMA CartInvNext ==
  ASSUME TypeOK, TypeOK', IdempotencyMatchesOrders, CartInv, [Next]_vars
  PROVE  CartInv'
<1> USE CheckoutAssumption
    DEF TypeOK, CartInv, LinesStayApart, PlacedLate, SoldLeftCart, Sold, InTry, Locked,
        Over, Mine, Goto, Returning, cartVars, Kept
<1>1. ASSUME NEW c \in Calls, FindIdempotency(c)
      PROVE  CartInv'
  BY <1>1 DEF FindIdempotency
<1>2. ASSUME NEW c \in Calls, Acquire(c) \/ ResolveLines(c) \/ Release(c)
      PROVE  CartInv'
  <2>1. UNCHANGED <<basket, cartVars, idem, placed>>
    BY <1>2 DEF Acquire, ResolveLines, Release
  <2>2. PlacedLate' /\ \A d \in Calls : Sold(d)' => Sold(d)
    <3>1. CASE Acquire(c)       BY <3>1 DEF Acquire
    <3>2. CASE ResolveLines(c)  BY <3>2 DEF ResolveLines
    <3>3. CASE Release(c)       BY <3>3 DEF Release
    <3> QED  BY <1>2, <3>1, <3>2, <3>3
  <2> QED
    BY <2>1, <2>2, LinesUntouched
<1>3. ASSUME NEW c \in Calls, RecheckIdempotency(c)
      PROVE  CartInv'
  BY <1>3 DEF RecheckIdempotency
<1>4. ASSUME NEW c \in Calls, GetCart(c)
      PROVE  CartInv'
  BY <1>4 DEF GetCart
<1>5. ASSUME NEW c \in Calls, TxRead(c)
      PROVE  CartInv'
  BY <1>5 DEF TxRead
<1>6. ASSUME NEW c \in Calls, TxCommit(c)
      PROVE  CartInv'
  BY <1>6 DEF TxCommit
<1>7. ASSUME NEW c \in Calls, ClearCart(c)
      PROVE  CartInv'
  BY <1>7 DEF ClearCart
<1>8. ASSUME NEW c \in Calls, Fails(c)
      PROVE  CartInv'
  <2>1. UNCHANGED <<basket, cartVars, idem, placed>>
    BY <1>8 DEF Fails, AcquireReplyLost, FailsBeforeLock, InTryFails, ReleaseFails, Crash
  <2>2. PlacedLate' /\ \A d \in Calls : Sold(d)' => Sold(d)
    BY <1>8, <2>1
       DEF Fails, AcquireReplyLost, FailsBeforeLock, InTryFails, ReleaseFails, Crash
  <2> QED
    BY <2>1, <2>2, LinesUntouched
<1>9. ASSUME NEW u \in Users, LockExpires(u)
      PROVE  CartInv'
  BY <1>9 DEF LockExpires, callVars
<1>10. ASSUME NEW u \in Users, NEW l \in Lines, AddReads(u, l)
       PROVE  CartInv'
  BY <1>10 DEF AddReads, callVars
<1>11. ASSUME NEW u \in Users, AddWrites(u)
       PROVE  CartInv'
  BY <1>11 DEF AddWrites, callVars
<1>12. CASE UNCHANGED vars
  BY <1>12 DEF vars
<1> QED
  BY <1>1, <1>2, <1>3, <1>4, <1>5, <1>6, <1>7, <1>8, <1>9, <1>10, <1>11, <1>12
     DEF Next, Works

(* A call that succeeds with its own order leaves nothing of it in the     *)
(* cart, whether or not the lock held until the end; only an addItem that  *)
(* overlaps ClearCart can put it back.                                     *)
THEOREM PlacedOrdersLeaveCart == Spec => [](CartInv /\ PlacedThenCleared)
<1>1. Init => CartInv
  BY CheckoutAssumption
     DEF Init, CartInv, LinesStayApart, PlacedLate, SoldLeftCart, Sold, Kept
<1>2. /\ TypeOK /\ TypeOK' /\ IdempotencyMatchesOrders /\ CartInv /\ [Next]_vars
      => CartInv'
  BY CartInvNext
<1>3. CartInv => PlacedThenCleared
  BY CheckoutAssumption DEF CartInv, SoldLeftCart, Sold, Kept, PlacedThenCleared, AnsweredOrder
<1> QED
  BY <1>1, <1>2, <1>3, CheckoutTyped, AnswersNameCommittedOrders, PTL DEF Spec

(* No step makes two successful calls sell one line.                       *)
LEMMA SoldOnceNext ==
  ASSUME CheckoutInv, CartInv, CartInv', SoldOnce, [Next]_vars
  PROVE  SoldOnce'
<1> USE CheckoutAssumption
    DEF CheckoutInv, TypeOK, CartInv, SoldOnce, Sold, Selling, InTry, Locked, Over, Mine,
        Goto, Returning, cartVars, Kept
<1>1. ASSUME NEW c \in Calls, GetCart(c)
      PROVE  SoldOnce'
  BY <1>1 DEF GetCart, LinesStayApart, SoldLeftCart, PlacedLate
<1>2. ASSUME NEW c \in Calls, ClearCart(c)
      PROVE  SoldOnce'
  BY <1>2 DEF ClearCart, LinesStayApart, HolderHasLock
<1>3. ASSUME NEW c \in Calls,
             \/ FindIdempotency(c) \/ Acquire(c) \/ RecheckIdempotency(c)
             \/ ResolveLines(c) \/ TxRead(c) \/ TxCommit(c) \/ Release(c)
      PROVE  SoldOnce'
  BY <1>3 DEF FindIdempotency, Acquire, RecheckIdempotency, ResolveLines, TxRead, TxCommit,
              Release, PlacedLate, AnswersAreTheKeys
<1>4. ASSUME NEW c \in Calls, Fails(c)
      PROVE  SoldOnce'
  BY <1>4 DEF Fails, AcquireReplyLost, FailsBeforeLock, InTryFails, ReleaseFails, Crash,
              PlacedLate, AnswersAreTheKeys
<1>5. ASSUME NEW u \in Users, LockExpires(u)
      PROVE  SoldOnce'
  BY <1>5 DEF LockExpires, callVars
<1>6. ASSUME NEW u \in Users, NEW l \in Lines, AddReads(u, l)
      PROVE  SoldOnce'
  BY <1>6 DEF AddReads, callVars
<1>7. ASSUME NEW u \in Users, AddWrites(u)
      PROVE  SoldOnce'
  BY <1>7 DEF AddWrites, callVars
<1>8. CASE UNCHANGED vars
  BY <1>8 DEF vars
<1> QED
  BY <1>1, <1>2, <1>3, <1>4, <1>5, <1>6, <1>7, <1>8 DEF Next, Works

(* Two calls that both succeed, with whatever keys, never sold the same    *)
(* cart line, unless an addItem overlapped a ClearCart.                    *)
THEOREM LinesAreAcceptedOnce ==
  ASSUME LockOutlivesCheckout
  PROVE  Spec => []LineAcceptedOnce
<1>1. Init => SoldOnce
  BY DEF Init, SoldOnce, Sold
<1>2. CheckoutInv /\ CartInv /\ CartInv' /\ SoldOnce /\ [Next]_vars => SoldOnce'
  BY SoldOnceNext
<1>3. SoldOnce => LineAcceptedOnce
  BY CheckoutAssumption DEF SoldOnce, Sold, LineAcceptedOnce, AnsweredOrder
<1> QED
  BY <1>1, <1>2, <1>3, CheckoutInvariant, PlacedOrdersLeaveCart, PTL DEF Spec
=============================================================================
