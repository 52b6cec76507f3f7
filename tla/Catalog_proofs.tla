--------------------------- MODULE Catalog_proofs ---------------------------
(* Proofs for Catalog, for any number of calls, readers, variants and      *)
(* prices.                                                                 *)
EXTENDS Catalog, TLAPS

(* A row that is there is a product, and what is shown of a row is a row.  *)
LEMMA RowsAreRows ==
    ASSUME CatalogAssumption
    PROVE  /\ \A p \in Rows : IsThere(p) <=> p \in Product
           /\ \A p \in Product : p # Gone /\ p # Unborn /\ p # Absent
           /\ \A p \in Rows : View("list", p) \in Product \cup {Gone}
           /\ \A p \in Rows : View("product", p) = p
  BY DEF CatalogAssumption, Rows, IsThere, View, Shown

(* A product as createProduct makes it is one.                             *)
LEMMA NewIsProduct ==
    ASSUME CatalogAssumption
    PROVE  \A b \in BOOLEAN : New(b) \in Product
  BY DEF CatalogAssumption, New, Product

(* What updateProduct and upsertVariant make of a row is a row.            *)
LEMMA EditsAreRows ==
    ASSUME CatalogAssumption
    PROVE  /\ \A p \in Rows, b \in BOOLEAN : WithActive(p, b) \in Rows
           /\ \A p \in Rows, v \in Variants, x \in Prices \cup {NoPrice} :
                WithPrice(p, v, x) \in Rows
<1>1. ASSUME NEW p \in Rows, NEW b \in BOOLEAN PROVE WithActive(p, b) \in Rows
  <2>1. CASE p \in Product
    BY <2>1 DEF WithActive, Rows, Product
  <2>2. CASE p \notin Product
    BY <2>2, <1>1, RowsAreRows DEF WithActive
  <2>. QED BY <2>1, <2>2
<1>2. ASSUME NEW p \in Rows, NEW v \in Variants, NEW x \in Prices \cup {NoPrice}
      PROVE  WithPrice(p, v, x) \in Rows
  <2>1. CASE p \in Product
    BY <2>1 DEF WithPrice, Rows, Product
  <2>2. CASE p \notin Product
    BY <2>2, <1>2, RowsAreRows DEF WithPrice
  <2>. QED BY <2>1, <2>2
<1>. QED BY <1>1, <1>2

-----------------------------------------------------------------------------
(* Types, and the requests and reads that the typing rests on.             *)
LEMMA TypeInit == CatalogAssumption /\ Init => TypeOK
<1>. SUFFICES ASSUME CatalogAssumption, Init PROVE TypeOK
  OBVIOUS
<1>1. db \in Rows
  BY NewIsProduct DEF Init, Rows
<1>. QED BY <1>1 DEF Init, TypeOK, CatalogAssumption, Rows, Request, Calls, Keys

Typed == TypeOK /\ RequestsFit /\ FilledIsThere

(* A request to update a product has a price for each variant.             *)
LEMMA UpdateRequest ==
    ASSUME Typed, NEW a \in Admins, at[a] \in {"selectUpdate", "writeUpdate"}
    PROVE  request[a].active \in BOOLEAN
<1>1. request[a] \in Request /\ request[a].op = "update"
  BY DEF Typed, TypeOK, RequestsFit
<1>. QED BY <1>1 DEF Request

(* A request about a variant names a variant and a price.                  *)
LEMMA VariantRequest ==
    ASSUME Typed, NEW a \in Admins, at[a] \in {"insert", "selectUpsert", "writeUpsert"}
    PROVE  request[a].variant \in Variants /\ request[a].price \in Prices
<1>1. request[a] \in Request /\ request[a].op \in {"insert", "upsert"}
  BY DEF Typed, TypeOK, RequestsFit
<1>. QED BY <1>1 DEF Request

(* A call that ends leaves its variables in their types.                   *)
LEMMA ForgetTyped ==
    ASSUME TypeOK, NEW c \in Calls, Forget(c)
    PROVE  /\ request' \in [Admins -> Request]
           /\ loaded' \in [Calls -> Rows]
           /\ selected' \in [Admins -> Rows]
BY DEF Forget, TypeOK, Request, Rows

(* save() of a product with its variants leaves a row.                     *)
LEMMA UpdatedIsRow ==
    ASSUME CatalogAssumption, Typed, NEW a \in Admins, at[a] = "writeUpdate"
    PROVE  Updated(a) \in Rows
<1>1. request[a].active \in BOOLEAN
  BY UpdateRequest
<1>2. loaded[a] \in Product
  BY RowsAreRows DEF Typed, TypeOK, RequestsFit, Editing, Calls
<1>3. db \in Rows /\ selected[a] \in Rows
  BY DEF Typed, TypeOK
<1>4. CASE selected[a] = Gone
  BY <1>1, <1>2, <1>4 DEF Updated, Product, Rows
<1>5. CASE selected[a] # Gone /\ ~IsThere(db)
  BY <1>3, <1>5 DEF Updated
<1>6. CASE selected[a] # Gone /\ IsThere(db)
  <2>1. db \in Product
    BY <1>3, <1>6, RowsAreRows
  <2>2. Updated(a) =
          [ active |-> IF request[a].active # selected[a].active
                         THEN request[a].active ELSE db.active,
            price |-> [v \in Variants |->
                IF v \in Inserted(a) \/ (v \in Rewritten(a) /\ Has(db, v))
                  THEN loaded[a].price[v] ELSE db.price[v]] ]
    BY <1>6 DEF Updated
  <2>. QED BY <1>1, <1>2, <2>1, <2>2 DEF Product, Rows
<1>. QED BY <1>4, <1>5, <1>6

(* Every step of a reader, an admin or the cache keeps the types.          *)
LEMMA TypeNext ==
    CatalogAssumption /\ Typed /\ [Next]_vars => TypeOK'
<1>. SUFFICES ASSUME CatalogAssumption, Typed, [Next]_vars PROVE TypeOK'
  OBVIOUS
<1>. USE DEF Typed, TypeOK, Calls, Keys, Goto
<1>1. ASSUME NEW r \in Readers, Misses(r) PROVE TypeOK'
  BY <1>1 DEF Misses, rowVars, callVars, CatalogAssumption
<1>2. ASSUME NEW r \in Readers, FindProduct(r) PROVE TypeOK'
  BY <1>2 DEF FindProduct, CatalogAssumption
<1>3. ASSUME NEW r \in Readers, FindList(r) PROVE TypeOK'
  <2>1. Shown(db) \in Rows
    BY DEF Shown, Rows
  <2>. QED BY <1>3, <2>1 DEF FindList, CatalogAssumption
<1>4. ASSUME NEW r \in Readers, SetEntry(r) PROVE TypeOK'
  <2>1. r \notin Admins /\ loaded[r] \in Rows
    BY DEF CatalogAssumption
  <2>2. at[r] = "setProduct" => loaded[r] \in Product
    BY DEF FilledIsThere
  <2>3. loaded[r] \in Product \cup {Gone}
    BY <2>1, <2>2, <1>4, RowsAreRows DEF SetEntry, FilledIsThere
  <2>. QED
    BY <1>4, <2>1, <2>2, <2>3, RowsAreRows DEF SetEntry, Forget, Rows
<1>5. ASSUME NEW a \in Admins, CreateProduct(a) PROVE TypeOK'
  BY <1>5, NewIsProduct DEF CreateProduct, Change, callVars, CatalogAssumption, Rows, Clearing
<1>6. ASSUME NEW a \in Admins, UpdateProduct(a) PROVE TypeOK'
  BY <1>6 DEF UpdateProduct, Asks, Request, rowVars, CatalogAssumption, Editing
<1>7. ASSUME NEW a \in Admins, UpsertVariant(a) PROVE TypeOK'
  BY <1>7 DEF UpsertVariant, Asks, Request, rowVars, CatalogAssumption, Editing
<1>8. ASSUME NEW a \in Admins, NewVariant(a) PROVE TypeOK'
  BY <1>8 DEF NewVariant, Asks, Request, rowVars, CatalogAssumption
<1>9. ASSUME NEW a \in Admins, Select(a) PROVE TypeOK'
  BY <1>9 DEF Select, rowVars, CatalogAssumption, Editing
<1>10. ASSUME NEW a \in Admins, WriteUpdate(a) PROVE TypeOK'
  <2>1. at[a] = "writeUpdate" /\ request[a].active \in BOOLEAN /\ Forget(a)
    BY <1>10, UpdateRequest DEF WriteUpdate
  <2>2. Updated(a) \in Rows /\ WithActive(wanted, request[a].active) \in Rows
    BY <2>1, UpdatedIsRow, EditsAreRows
  <2>3. /\ request' \in [Admins -> Request]
        /\ loaded' \in [Calls -> Rows]
        /\ selected' \in [Admins -> Rows]
    BY <2>1, ForgetTyped
  <2>. QED
    BY <1>10, <2>2, <2>3 DEF WriteUpdate, Change, rowVars, CatalogAssumption, Clearing
<1>11. ASSUME NEW a \in Admins, WriteUpsert(a) PROVE TypeOK'
  <2>1. /\ request[a].variant \in Variants /\ request[a].price \in Prices
        /\ Forget(a)
    BY <1>11, VariantRequest DEF WriteUpsert
  <2>2. Upserted(a) \in Rows /\ WithPrice(wanted, request[a].variant, request[a].price) \in Rows
    BY <2>1, EditsAreRows DEF Upserted
  <2>3. /\ request' \in [Admins -> Request]
        /\ loaded' \in [Calls -> Rows]
        /\ selected' \in [Admins -> Rows]
    BY <2>1, ForgetTyped
  <2>. QED
    BY <1>11, <2>2, <2>3 DEF WriteUpsert, Change, rowVars, CatalogAssumption, Clearing
<1>12. ASSUME NEW a \in Admins, InsertVariant(a) PROVE TypeOK'
  <2>1. request[a].variant \in Variants /\ request[a].price \in Prices
    BY <1>12, VariantRequest DEF InsertVariant
  <2>2. /\ WithPrice(db, request[a].variant, request[a].price) \in Rows
        /\ WithPrice(wanted, request[a].variant, request[a].price) \in Rows
    BY <2>1, EditsAreRows
  <2>. QED
    BY <1>12, <2>2 DEF InsertVariant, Change, rowVars, callVars, CatalogAssumption, Clearing
<1>13. ASSUME NEW a \in Admins, DeleteVariant(a) PROVE TypeOK'
  <2>1. PICK v \in Variants : Change(a, WithPrice(db, v, NoPrice), WithPrice(wanted, v, NoPrice))
    BY <1>13 DEF DeleteVariant
  <2>2. WithPrice(db, v, NoPrice) \in Rows /\ WithPrice(wanted, v, NoPrice) \in Rows
    BY EditsAreRows
  <2>. QED
    BY <1>13, <2>1, <2>2 DEF DeleteVariant, Change, callVars, CatalogAssumption, Clearing
<1>14. ASSUME NEW a \in Admins, DeleteProduct(a) PROVE TypeOK'
  BY <1>14 DEF DeleteProduct, Change, callVars, CatalogAssumption, Clearing, Rows
<1>15. ASSUME NEW a \in Admins, InvalidateProduct(a) PROVE TypeOK'
  BY <1>15 DEF InvalidateProduct, rowVars, callVars, CatalogAssumption, Clearing
<1>16. ASSUME NEW a \in Admins, KeysOfLists(a) PROVE TypeOK'
  BY <1>16 DEF KeysOfLists, rowVars, callVars, CatalogAssumption, Clearing
<1>17. ASSUME NEW a \in Admins, DelLists(a) PROVE TypeOK'
  BY <1>17 DEF DelLists, rowVars, callVars, CatalogAssumption, Clearing
<1>18. ASSUME NEW c \in Calls, Fails(c) PROVE TypeOK'
  <2>1. /\ request' \in [Admins -> Request]
        /\ loaded' \in [Calls -> Rows]
        /\ selected' \in [Admins -> Rows]
    BY <1>18, ForgetTyped DEF Fails
  <2>2. Pending(at[c]) \subseteq Keys
    BY DEF Pending
  <2>. QED BY <1>18, <2>1, <2>2 DEF Fails, CatalogAssumption
<1>19. ASSUME NEW k \in Keys, Expire(k) PROVE TypeOK'
  BY <1>19 DEF Expire, rowVars, callVars, CatalogAssumption
<1>20. ASSUME SeedReset PROVE TypeOK'
  BY <1>20 DEF SeedReset, callVars, Rows
<1>21. CASE UNCHANGED vars
  BY <1>21 DEF vars, rowVars, callVars
<1>. QED
  BY <1>1, <1>2, <1>3, <1>4, <1>5, <1>6, <1>7, <1>8, <1>9, <1>10, <1>11, <1>12, <1>13,
     <1>14, <1>15, <1>16, <1>17, <1>18, <1>19, <1>20, <1>21
     DEF Next, ReaderStep, AdminStep, Proceeds

(* A list only shows a product that is there.                              *)
LEMMA ShownIsFilled ==
    ASSUME CatalogAssumption, NEW p \in Rows
    PROVE  Shown(p) \in Product \cup {Gone} /\ (IsThere(p) => p \in Product)
BY RowsAreRows DEF Shown

(* The initial state has the types.                                        *)
LEMMA TypedInit == CatalogAssumption /\ Init => Typed
BY TypeInit DEF Init, Typed, RequestsFit, FilledIsThere, Calls, Editing

(* One admin's step keeps what the others and the readers have read. *)
LEMMA TypedNext == CatalogAssumption /\ Typed /\ [Next]_vars => Typed'
<1>. SUFFICES ASSUME CatalogAssumption, Typed, [Next]_vars PROVE RequestsFit' /\ FilledIsThere'
  BY TypeNext DEF Typed
<1>. USE DEF Typed, TypeOK, RequestsFit, FilledIsThere, Calls, Goto, Editing
<1>1. ASSUME NEW r \in Readers, ReaderStep(r) PROVE RequestsFit' /\ FilledIsThere'
  <2>. r \notin Admins
    BY DEF CatalogAssumption
  <2>1. CASE Misses(r)
    BY <2>1 DEF Misses, rowVars, callVars
  <2>2. CASE FindProduct(r)
    BY <2>2, ShownIsFilled DEF FindProduct
  <2>3. CASE FindList(r)
    BY <2>3, ShownIsFilled DEF FindList
  <2>4. CASE SetEntry(r)
    BY <2>4 DEF SetEntry, Forget
  <2>. QED BY <1>1, <2>1, <2>2, <2>3, <2>4 DEF ReaderStep
<1>2. ASSUME NEW a \in Admins, AdminStep(a) PROVE RequestsFit' /\ FilledIsThere'
  <2>. a \notin Readers
    BY DEF CatalogAssumption
  <2>1. CASE CreateProduct(a)
    BY <2>1 DEF CreateProduct, callVars
  <2>2. CASE UpdateProduct(a)
    BY <2>2 DEF UpdateProduct, Asks
  <2>3. CASE UpsertVariant(a)
    <3>1. PICK v \in Variants, p \in Prices :
             Has(db, v) /\ Asks(a, [op |-> "upsert", variant |-> v, price |-> p])
      BY <2>3 DEF UpsertVariant
    <3>2. IsThere(db)
      BY <3>1 DEF Has
    <3>. QED BY <2>3, <3>1, <3>2 DEF UpsertVariant, Asks
  <2>4. CASE NewVariant(a)
    BY <2>4 DEF NewVariant, Asks
  <2>5. CASE Select(a)
    BY <2>5 DEF Select
  <2>6. CASE WriteUpdate(a) \/ WriteUpsert(a)
    BY <2>6 DEF WriteUpdate, WriteUpsert, Forget
  <2>7. CASE InsertVariant(a) \/ DeleteVariant(a) \/ DeleteProduct(a)
    BY <2>7 DEF InsertVariant, DeleteVariant, DeleteProduct, callVars
  <2>8. CASE InvalidateProduct(a) \/ KeysOfLists(a) \/ DelLists(a)
    BY <2>8 DEF InvalidateProduct, KeysOfLists, DelLists, callVars
  <2>. QED
    BY <1>2, <2>1, <2>2, <2>3, <2>4, <2>5, <2>6, <2>7, <2>8 DEF AdminStep, Proceeds
<1>3. ASSUME NEW c \in Calls, Fails(c) PROVE RequestsFit' /\ FilledIsThere'
  BY <1>3 DEF Fails, Forget, CatalogAssumption
<1>4. CASE (\E k \in Keys : Expire(k)) \/ SeedReset \/ UNCHANGED vars
  BY <1>4 DEF Expire, SeedReset, vars, callVars
<1>. QED BY <1>1, <1>2, <1>3, <1>4 DEF Next

(* Type correctness of Catalog: in particular, what product:{id} holds is  *)
(* a product, never that there is none.                                    *)
THEOREM CatalogTyped == Spec => []TypeOK
<1>1. Init => Typed
  BY CatalogAssumption, TypedInit
<1>2. Typed /\ [Next]_vars => Typed'
  BY CatalogAssumption, TypedNext
<1>3. Typed => TypeOK
  BY DEF Typed
<1>. QED BY <1>1, <1>2, <1>3, PTL DEF Spec

-----------------------------------------------------------------------------
(* A reader that no change overtakes fills its entry with what the         *)
(* database holds.                                                         *)
LEMMA FillersInit == CatalogAssumption /\ Init => FillersAreFresh
BY DEF Init, FillersAreFresh, Calls

(* A reader between its SELECT and its SET is marked as overtaken by every *)
(* change that commits.                                                    *)
LEMMA FillersNext ==
    CatalogAssumption /\ Typed /\ FillersAreFresh /\ [Next]_vars => FillersAreFresh'
<1>. SUFFICES ASSUME CatalogAssumption, Typed, FillersAreFresh, [Next]_vars
              PROVE  FillersAreFresh'
  OBVIOUS
<1>. USE DEF Typed, TypeOK, FillersAreFresh, Calls, Goto
<1>1. ASSUME NEW r \in Readers, ReaderStep(r) PROVE FillersAreFresh'
  <2>1. CASE Misses(r)
    BY <2>1 DEF Misses, rowVars, callVars
  <2>2. CASE FindProduct(r)
    BY <2>2 DEF FindProduct, View
  <2>3. CASE FindList(r)
    BY <2>3 DEF FindList, View
  <2>4. CASE SetEntry(r)
    BY <2>4 DEF SetEntry, Forget
  <2>. QED BY <1>1, <2>1, <2>2, <2>3, <2>4 DEF ReaderStep
<1>2. ASSUME NEW a \in Admins, AdminStep(a) PROVE FillersAreFresh'
  <2>. a \notin Readers
    BY DEF CatalogAssumption
  <2>1. CASE UpdateProduct(a) \/ UpsertVariant(a) \/ NewVariant(a) \/ Select(a)
    BY <2>1 DEF UpdateProduct, UpsertVariant, NewVariant, Select, rowVars
  <2>2. CASE InvalidateProduct(a) \/ KeysOfLists(a) \/ DelLists(a)
    BY <2>2 DEF InvalidateProduct, KeysOfLists, DelLists, rowVars, callVars
  <2>3. CASE CreateProduct(a) \/ DeleteVariant(a) \/ DeleteProduct(a)
    <3>1. \A r \in Readers : at'[r] = at[r] /\ (at[r] \in {"setProduct", "setList"} => r \in overtaken')
      BY <2>3 DEF CreateProduct, DeleteVariant, DeleteProduct, Change
    <3>. QED BY <3>1
  <2>4. CASE InsertVariant(a)
    BY <2>4 DEF InsertVariant, Change, rowVars, callVars
  <2>5. CASE WriteUpdate(a)
    BY <2>5 DEF WriteUpdate, Change, rowVars, Forget
  <2>6. CASE WriteUpsert(a)
    BY <2>6 DEF WriteUpsert, Change, rowVars, Forget
  <2>. QED BY <1>2, <2>1, <2>2, <2>3, <2>4, <2>5, <2>6 DEF AdminStep, Proceeds
<1>3. ASSUME NEW c \in Calls, Fails(c) PROVE FillersAreFresh'
  BY <1>3 DEF Fails, Forget, CatalogAssumption
<1>4. CASE (\E k \in Keys : Expire(k)) \/ UNCHANGED vars
  BY <1>4 DEF Expire, vars, rowVars, callVars
<1>5. CASE SeedReset
  BY <1>5 DEF SeedReset, callVars
<1>. QED BY <1>1, <1>2, <1>3, <1>4, <1>5 DEF Next

-----------------------------------------------------------------------------
(* Stale entries have a cause.  A change leaves its call with every entry  *)
(* to delete; each step after it deletes one, or gives its cause.          *)
LEMMA StaleInit == CatalogAssumption /\ Init => StaleHasCause
BY DEF Init, StaleHasCause, Fresh, Keys

(* Each change knows which cache keys it has still to delete.              *)
LEMMA PendingLabels ==
    /\ Pending("delProduct") = Keys
    /\ Pending("keys") = {"list"} /\ Pending("delLists") = {"list"}
    /\ \A l \in {"ready", "insert", "done", "findProduct", "findList", "setProduct",
                 "setList"} \cup Editing : Pending(l) = {}
BY DEF Pending, Editing

(* A change that has just committed has its keys still to delete.          *)
LEMMA ChangedIsPending ==
    ASSUME Typed, StaleHasCause, NEW a \in Admins, Goto(a, "delProduct")
    PROVE  StaleHasCause'
BY PendingLabels DEF Typed, TypeOK, StaleHasCause, Goto, Calls

(* No step leaves a stale cache entry without a cause.                     *)
LEMMA StaleNext ==
    CatalogAssumption /\ Typed /\ FillersAreFresh /\ StaleHasCause /\ [Next]_vars
    => StaleHasCause'
<1>. SUFFICES ASSUME CatalogAssumption, Typed, FillersAreFresh, StaleHasCause, [Next]_vars
              PROVE  StaleHasCause'
  OBVIOUS
<1>. USE DEF Typed, TypeOK, StaleHasCause, Fresh, Calls, Keys, Goto
<1>1. ASSUME NEW r \in Readers, ReaderStep(r) PROVE StaleHasCause'
  <2>. r \notin Admins
    BY DEF CatalogAssumption
  <2>1. CASE Misses(r) \/ FindProduct(r) \/ FindList(r)
    BY <2>1 DEF Misses, FindProduct, FindList, rowVars
  <2>2. CASE SetEntry(r)
    BY <2>2 DEF SetEntry, FillersAreFresh
  <2>. QED BY <1>1, <2>1, <2>2 DEF ReaderStep
<1>2. ASSUME NEW a \in Admins, AdminStep(a) PROVE StaleHasCause'
  <2>1. CASE UpdateProduct(a) \/ UpsertVariant(a) \/ NewVariant(a) \/ Select(a)
    <3>1. Pending(at[a]) = {}
      BY <2>1, PendingLabels DEF UpdateProduct, UpsertVariant, NewVariant, Select, Editing
    <3>. QED
      BY <2>1, <3>1 DEF UpdateProduct, UpsertVariant, NewVariant, Select, rowVars
  <2>2. CASE CreateProduct(a) \/ DeleteProduct(a)
    BY <2>2, ChangedIsPending DEF CreateProduct, DeleteProduct
  <2>3. CASE WriteUpdate(a) \/ WriteUpsert(a) \/ InsertVariant(a)
    <3>1. Pending(at[a]) = {}
      BY <2>3, PendingLabels DEF WriteUpdate, WriteUpsert, InsertVariant, Editing
    <3>2. CASE Goto(a, "delProduct")
      BY <3>2, ChangedIsPending
    <3>3. CASE UNCHANGED rowVars /\ Goto(a, "done")
      BY <2>3, <3>1, <3>3 DEF WriteUpdate, WriteUpsert, InsertVariant, rowVars
    <3>. QED BY <2>3, <3>2, <3>3 DEF WriteUpdate, WriteUpsert, InsertVariant
  <2>4. CASE DeleteVariant(a)
    <3>1. "list" \in Pending(at'[a]) /\ "product" \in spoiled'
      BY <2>4, PendingLabels DEF DeleteVariant
    <3>. QED BY <3>1
  <2>5. CASE InvalidateProduct(a)
    <3>1. "list" \in Pending(at'[a]) /\ cache'["product"] = Absent
      BY <2>5, PendingLabels DEF InvalidateProduct
    <3>. QED BY <3>1
  <2>6. CASE KeysOfLists(a)
    <3>1. cache["list"] = Absent \/ "list" \in Pending(at'[a])
      BY <2>6, PendingLabels DEF KeysOfLists
    <3>2. "product" \notin Pending(at[a])
      BY <2>6, PendingLabels DEF KeysOfLists
    <3>. QED BY <2>6, <3>1, <3>2 DEF KeysOfLists, rowVars
  <2>7. CASE DelLists(a)
    <3>1. "product" \notin Pending(at[a])
      BY <2>7, PendingLabels DEF DelLists
    <3>. QED BY <2>7, <3>1 DEF DelLists, rowVars
  <2>. QED
    BY <1>2, <2>1, <2>2, <2>3, <2>4, <2>5, <2>6, <2>7 DEF AdminStep, Proceeds
<1>3. ASSUME NEW c \in Calls, Fails(c) PROVE StaleHasCause'
  BY <1>3 DEF Fails
<1>4. ASSUME NEW k \in Keys, Expire(k) PROVE StaleHasCause'
  BY <1>4 DEF Expire, rowVars
<1>5. CASE SeedReset
  BY <1>5 DEF SeedReset
<1>6. CASE UNCHANGED vars
  BY <1>6 DEF vars, rowVars, callVars
<1>. QED BY <1>1, <1>2, <1>3, <1>4, <1>5, <1>6 DEF Next

-----------------------------------------------------------------------------
(* Edits that do not mix hold.                                             *)
LEMMA EditsInit == CatalogAssumption /\ Init => EditorsAreFresh /\ EditsHold
BY DEF Init, EditorsAreFresh, EditsHold, Editing, Calls

(* What a change that is not mixed writes is what it would write alone.    *)
LEMMA UnmixedUpdate ==
    ASSUME CatalogAssumption, Typed, EditorsAreFresh, ~mixed,
           NEW a \in Admins, at[a] = "writeUpdate"
    PROVE  Updated(a) = WithActive(db, request[a].active)
<1>1. loaded[a] = db /\ selected[a] = db /\ IsThere(db)
  BY DEF EditorsAreFresh, Typed, RequestsFit, Editing
<1>2. db \in Product /\ db # Gone
  BY <1>1, RowsAreRows DEF Typed, TypeOK
<1>3. Inserted(a) = {} /\ Rewritten(a) = {}
  BY <1>1 DEF Inserted, Rewritten
<1>4. [v \in Variants |-> db.price[v]] = db.price
  BY <1>2 DEF Product
<1>. QED BY <1>1, <1>2, <1>3, <1>4 DEF Updated, WithActive

(* An upsert that nobody overtook leaves the price it was asked for.       *)
LEMMA UnmixedUpsert ==
    ASSUME CatalogAssumption, Typed, EditorsAreFresh, ~mixed,
           NEW a \in Admins, at[a] = "writeUpsert"
    PROVE  Upserted(a) = WithPrice(db, request[a].variant, request[a].price)
<1>1. loaded[a] = db /\ selected[a] = db /\ Has(db, request[a].variant)
  BY DEF EditorsAreFresh, Typed, RequestsFit, Editing
<1>2. db \in Product /\ request[a].variant \in Variants
  BY <1>1, RowsAreRows, VariantRequest DEF Has, Typed, TypeOK
<1>3. CASE request[a].price # db.price[request[a].variant]
  BY <1>1, <1>3 DEF Upserted
<1>4. CASE request[a].price = db.price[request[a].variant]
  <2>1. [db.price EXCEPT ![request[a].variant] = request[a].price] = db.price
    BY <1>2, <1>4 DEF Product
  <2>2. WithPrice(db, request[a].variant, request[a].price) = db
    BY <1>1, <1>2, <2>1 DEF WithPrice, Has, Product
  <2>. QED BY <1>1, <1>4, <2>2 DEF Upserted
<1>. QED BY <1>3, <1>4

(* A change that nobody overtook leaves the rows that were asked for.      *)
LEMMA ChangeHolds ==
    ASSUME Typed, EditorsAreFresh, EditsHold, NEW a \in Admins, NEW p, NEW w,
           Change(a, p, w), ~mixed => p = w, NEW l, l \notin Editing, Goto(a, l)
    PROVE  EditorsAreFresh' /\ EditsHold'
<1>1. EditsHold'
  BY DEF Change, EditsHold
<1>2. ASSUME ~mixed', NEW d \in Admins PROVE at'[d] \notin Editing
  BY <1>2 DEF Change, Goto, Typed, TypeOK, Calls
<1>. QED BY <1>1, <1>2 DEF EditorsAreFresh, Editing

(* No step undoes an edit unless two changes mixed.                        *)
LEMMA EditsNext ==
    CatalogAssumption /\ Typed /\ EditorsAreFresh /\ EditsHold /\ [Next]_vars
    => EditorsAreFresh' /\ EditsHold'
<1>. SUFFICES ASSUME CatalogAssumption, Typed, EditorsAreFresh, EditsHold, [Next]_vars
              PROVE  EditorsAreFresh' /\ EditsHold'
  OBVIOUS
<1>. USE DEF Goto, Calls
<1>1. ASSUME NEW r \in Readers, ReaderStep(r) PROVE EditorsAreFresh' /\ EditsHold'
  <2>. r \notin Admins
    BY DEF CatalogAssumption
  <2>. USE DEF Typed, TypeOK, EditorsAreFresh, EditsHold
  <2>1. CASE Misses(r)
    BY <2>1 DEF Misses, rowVars, callVars
  <2>2. CASE FindProduct(r) \/ FindList(r)
    BY <2>2 DEF FindProduct, FindList
  <2>3. CASE SetEntry(r)
    BY <2>3 DEF SetEntry, Forget
  <2>. QED BY <1>1, <2>1, <2>2, <2>3 DEF ReaderStep
<1>2. ASSUME NEW a \in Admins, AdminStep(a) PROVE EditorsAreFresh' /\ EditsHold'
  <2>1. CASE UpdateProduct(a) \/ UpsertVariant(a) \/ NewVariant(a) \/ Select(a)
    BY <2>1 DEF UpdateProduct, UpsertVariant, NewVariant, Select, rowVars,
                Typed, TypeOK, EditorsAreFresh, EditsHold, Editing
  <2>2. CASE CreateProduct(a) \/ DeleteProduct(a)
    BY <2>2, ChangeHolds DEF CreateProduct, DeleteProduct, Editing
  <2>3. CASE DeleteVariant(a)
    <3>1. PICK v \in Variants : Change(a, WithPrice(db, v, NoPrice), WithPrice(wanted, v, NoPrice))
      BY <2>3 DEF DeleteVariant
    <3>2. ~mixed => WithPrice(db, v, NoPrice) = WithPrice(wanted, v, NoPrice)
      BY DEF EditsHold
    <3>. QED BY <2>3, <3>1, <3>2, ChangeHolds DEF DeleteVariant, Editing
  <2>4. CASE WriteUpdate(a)
    <3>1. ~mixed => Updated(a) = WithActive(wanted, request[a].active)
      BY <2>4, UnmixedUpdate DEF WriteUpdate, EditsHold
    <3>2. CASE UpdateRejected(a)
      BY <2>4, <3>2 DEF WriteUpdate, rowVars, Forget,
                        Typed, TypeOK, EditorsAreFresh, EditsHold, Editing
    <3>3. CASE ~UpdateRejected(a)
      BY <2>4, <3>1, <3>3, ChangeHolds DEF WriteUpdate, Editing
    <3>. QED BY <3>2, <3>3
  <2>5. CASE WriteUpsert(a)
    <3>1. ~mixed => Upserted(a) = WithPrice(wanted, request[a].variant, request[a].price)
      BY <2>5, UnmixedUpsert DEF WriteUpsert, EditsHold
    <3>2. CASE UpsertRejected(a)
      BY <2>5, <3>2 DEF WriteUpsert, rowVars, Forget,
                        Typed, TypeOK, EditorsAreFresh, EditsHold, Editing
    <3>3. CASE ~UpsertRejected(a)
      BY <2>5, <3>1, <3>3, ChangeHolds DEF WriteUpsert, Editing
    <3>. QED BY <3>2, <3>3
  <2>6. CASE InsertVariant(a)
    <3>1. CASE IsThere(db)
      BY <2>6, <3>1, ChangeHolds DEF InsertVariant, EditsHold, Editing
    <3>2. CASE ~IsThere(db)
      BY <2>6, <3>2 DEF InsertVariant, rowVars, callVars,
                        Typed, TypeOK, EditorsAreFresh, EditsHold, Editing
    <3>. QED BY <3>1, <3>2
  <2>7. CASE InvalidateProduct(a) \/ KeysOfLists(a) \/ DelLists(a)
    BY <2>7 DEF InvalidateProduct, KeysOfLists, DelLists, rowVars, callVars,
                Typed, TypeOK, EditorsAreFresh, EditsHold, Editing
  <2>. QED
    BY <1>2, <2>1, <2>2, <2>3, <2>4, <2>5, <2>6, <2>7 DEF AdminStep, Proceeds
<1>3. ASSUME NEW c \in Calls, Fails(c) PROVE EditorsAreFresh' /\ EditsHold'
  BY <1>3 DEF Fails, Forget, Typed, TypeOK, EditorsAreFresh, EditsHold, Editing
<1>4. CASE SeedReset
  <2>1. ~mixed' => \A a \in Admins : at[a] \notin Editing
    BY <1>4 DEF SeedReset
  <2>. QED
    BY <1>4, <2>1 DEF SeedReset, callVars, EditorsAreFresh, EditsHold, Editing
<1>5. CASE (\E k \in Keys : Expire(k)) \/ UNCHANGED vars
  BY <1>5 DEF Expire, vars, rowVars, callVars, EditorsAreFresh, EditsHold
<1>. QED BY <1>1, <1>2, <1>3, <1>4, <1>5 DEF Next

-----------------------------------------------------------------------------
(* The inductive invariant of Catalog. *)
THEOREM CatalogInvariant == Spec => []CatalogInv
<1>1. Init => CatalogInv
  BY CatalogAssumption, TypedInit, FillersInit, StaleInit, EditsInit DEF CatalogInv, Typed
<1>2. CatalogInv /\ [Next]_vars => CatalogInv'
  BY CatalogAssumption, TypedNext, FillersNext, StaleNext, EditsNext DEF CatalogInv, Typed
<1>. QED BY <1>1, <1>2, PTL DEF Spec

(* A cache entry that differs from the database is about to be deleted, or *)
(* has one of the known causes.                                            *)
THEOREM StaleEntriesHaveACause == Spec => []StaleHasCause
<1>1. CatalogInv => StaleHasCause
  BY DEF CatalogInv
<1>. QED BY <1>1, CatalogInvariant, PTL

(* Edits that do not mix leave the rows that were asked for, through the   *)
(* variants that every update of the product writes back.                  *)
THEOREM UnmixedEditsHold == Spec => []EditsHold
<1>1. CatalogInv => EditsHold
  BY DEF CatalogInv
<1>. QED BY <1>1, CatalogInvariant, PTL
=============================================================================
