------------------------------ MODULE Catalog ------------------------------
(***************************************************************************)
(* One product of the catalog service: its rows in Postgres, its copies in *)
(* the Redis cache, the calls of the admins that change it and the calls   *)
(* that read it, each step by step.                                        *)
(*                                                                         *)
(* A product is what the properties tell apart: whether it is active,      *)
(* which stands for all its own columns, and the price of each variant,    *)
(* which stands for all of the variant's.  Every page of the list is in    *)
(* one entry.  Nobody subscribes to catalog.product.changed, the last step *)
(* of each change, so it is left out; so are calls that change nothing     *)
(* because they are refused or find no row.                                *)
(***************************************************************************)
EXTENDS Naturals

CONSTANTS Admins,    \* the calls that change the product: each is made once
          Readers,   \* getProduct and listProducts, over and over
          Variants,
          Offered,   \* the variants that the product is created with
          Prices,
          FirstPrice, \* the price of the variants it is created with
          NoPrice,   \* no row in variants
          Unborn,    \* the product is not created yet ...
          Gone,      \* ... or deleted
          Absent     \* no entry in the cache

Product == [active : BOOLEAN, price : [Variants -> Prices \cup {NoPrice}]]

ASSUME CatalogAssumption ==
    /\ Offered \subseteq Variants
    /\ FirstPrice \in Prices
    /\ NoPrice \notin Prices
    /\ Unborn # Gone /\ Unborn # Absent /\ Gone # Absent
    /\ {Unborn, Gone, Absent} \cap Product = {}
    /\ Admins \cap Readers = {}

VARIABLES db,         \* the product's rows
          cache,      \* product:{id} and catalog:list:*
          at,         \* the await that each call is at
          request,    \* what each admin asks for
          loaded,     \* what a call has read
          selected,   \* what save() found in the database
          wanted,     \* history: the rows, were each change made at once
          mixed,      \* history: a change came between another's read and write
          overtaken,  \* history: readers whose product has changed meanwhile
          spoiled     \* history: entries that a change left behind

rowVars == <<db, wanted, mixed, overtaken>>
callVars == <<request, loaded, selected>>
vars == <<rowVars, cache, at, callVars, spoiled>>

Keys == {"product", "list"}
Calls == Admins \cup Readers
Rows == Product \cup {Unborn, Gone}

Request ==
         [op : {"update"}, active : BOOLEAN]
    \cup [op : {"insert", "upsert"}, variant : Variants, price : Prices]
    \cup [op : {"none"}]

(* Where an admin's call reads before it writes, and where it invalidates. *)
Editing == {"selectUpdate", "writeUpdate", "selectUpsert", "writeUpsert"}
Clearing == {"delProduct", "keys", "delLists"}

(* What the variables hold: product:{id} holds a product, never its        *)
(* absence, which getProduct does not cache.                               *)
TypeOK ==
    /\ db \in Rows
    /\ cache \in [Keys -> Product \cup {Gone, Absent}]
    /\ cache["product"] # Gone
    /\ \A a \in Admins : at[a] \in {"ready", "insert", "done"} \cup Editing \cup Clearing
    /\ \A r \in Readers : at[r] \in {"ready", "findProduct", "findList",
                                     "setProduct", "setList"}
    /\ DOMAIN at = Calls
    /\ request \in [Admins -> Request]
    /\ loaded \in [Calls -> Rows]
    /\ selected \in [Admins -> Rows]
    /\ wanted \in Rows
    /\ mixed \in BOOLEAN
    /\ overtaken \subseteq Readers
    /\ spoiled \subseteq Keys

IsThere(p) == p # Unborn /\ p # Gone
Has(p, v) == IsThere(p) /\ p.price[v] # NoPrice

(* What a page shows of the product. *)
Shown(p) == IF IsThere(p) /\ p.active THEN p ELSE Gone
View(key, p) == IF key = "list" THEN Shown(p) ELSE p

New(active) ==
    [ active |-> active,
      price |-> [v \in Variants |-> IF v \in Offered THEN FirstPrice ELSE NoPrice] ]

Init ==
    /\ db \in {Unborn} \cup {New(b) : b \in BOOLEAN}
    /\ cache = [k \in Keys |-> Absent]
    /\ at = [c \in Calls |-> "ready"]
    /\ request = [a \in Admins |-> [op |-> "none"]]
    /\ loaded = [c \in Calls |-> Gone]
    /\ selected = [a \in Admins |-> Gone]
    /\ wanted = db
    /\ mixed = FALSE
    /\ overtaken = {}
    /\ spoiled = {}

Goto(c, label) == at' = [at EXCEPT ![c] = label]

(* A call's variables are of no use after its write, but an inserted id    *)
(* stays taken.                                                            *)
Forget(c) ==
    /\ loaded' = [loaded EXCEPT ![c] = Gone]
    /\ selected' = IF c \in Admins THEN [selected EXCEPT ![c] = Gone] ELSE selected
    /\ request' = IF c \in Admins /\ at[c] # "insert"
                    THEN [request EXCEPT ![c] = [op |-> "none"]] ELSE request

Asks(a, what) == request' = [request EXCEPT ![a] = what]

(* The rows change to p, where alone they would have changed to w.         *)
Change(c, p, w) ==
    /\ db' = p
    /\ wanted' = w
    /\ mixed' = (mixed \/ \E d \in Admins \ {c} : at[d] \in Editing)
    /\ overtaken' = overtaken \cup {r \in Readers : at[r] \in {"setProduct", "setList"}}

-----------------------------------------------------------------------------
(* getProduct, listProducts.  A hit answers and changes nothing.           *)

Misses(r) ==
    /\ at[r] = "ready"
    /\ \/ cache["product"] = Absent /\ Goto(r, "findProduct")
       \/ cache["list"] = Absent /\ Goto(r, "findList")
    /\ UNCHANGED <<rowVars, cache, callVars, spoiled>>

(* Mutant: that there is no product is cached, too. *)
FindsNothing(r) ==
    /\ at[r] = "findProduct"
    /\ db' = db
    /\ loaded' = [loaded EXCEPT ![r] = IF IsThere(db) THEN db ELSE Gone]
    /\ overtaken' = overtaken \ {r}
    /\ Goto(r, "setProduct")
    /\ UNCHANGED <<wanted, mixed, cache, request, selected, spoiled>>

FindProduct(r) ==
    /\ at[r] = "findProduct"
    /\ IF IsThere(db)
         THEN /\ loaded' = [loaded EXCEPT ![r] = db]
              /\ Goto(r, "setProduct")
         ELSE Goto(r, "ready") /\ UNCHANGED loaded
    /\ overtaken' = overtaken \ {r}
    /\ UNCHANGED <<db, wanted, mixed, cache, request, selected, spoiled>>

FindList(r) ==
    /\ at[r] = "findList"
    /\ loaded' = [loaded EXCEPT ![r] = Shown(db)]
    /\ overtaken' = overtaken \ {r}
    /\ Goto(r, "setList")
    /\ UNCHANGED <<db, wanted, mixed, cache, request, selected, spoiled>>

(* setProduct, setList: what was read before a change may be cached after. *)
SetEntry(r) ==
    LET k == IF at[r] = "setProduct" THEN "product" ELSE "list"
    IN  /\ at[r] \in {"setProduct", "setList"}
        /\ cache' = [cache EXCEPT ![k] = loaded[r]]
        /\ spoiled' = IF r \in overtaken THEN spoiled \cup {k} ELSE spoiled \ {k}
        /\ overtaken' = overtaken \ {r}
        /\ Forget(r) /\ Goto(r, "ready")
        /\ UNCHANGED <<db, wanted, mixed>>

(* EX 300, EX 60. *)
Expire(k) ==
    /\ cache[k] # Absent
    /\ cache' = [cache EXCEPT ![k] = Absent]
    /\ spoiled' = spoiled \ {k}
    /\ UNCHANGED <<rowVars, at, callVars>>

-----------------------------------------------------------------------------
(* The admins' calls, up to their change. *)

CreateProduct(a) ==
    /\ at[a] = "ready" /\ db = Unborn
    /\ \E b \in BOOLEAN : Change(a, New(b), New(b))
    /\ Goto(a, "delProduct")
    /\ UNCHANGED <<cache, callVars, spoiled>>

(* updateProduct, and update's findOne. *)
UpdateProduct(a) ==
    /\ at[a] = "ready" /\ IsThere(db)
    /\ \E b \in BOOLEAN : Asks(a, [op |-> "update", active |-> b])
    /\ loaded' = [loaded EXCEPT ![a] = db]
    /\ Goto(a, "selectUpdate")
    /\ UNCHANGED <<rowVars, cache, selected, spoiled>>

(* upsertVariant of a variant that exists, and findOneBy. *)
UpsertVariant(a) ==
    /\ at[a] = "ready"
    /\ \E v \in Variants, p \in Prices :
         Has(db, v) /\ Asks(a, [op |-> "upsert", variant |-> v, price |-> p])
    /\ loaded' = [loaded EXCEPT ![a] = db]
    /\ Goto(a, "selectUpsert")
    /\ UNCHANGED <<rowVars, cache, selected, spoiled>>

IsNew(v) ==
    /\ v \notin Offered
    /\ \A a \in Admins : request[a].op = "insert" => request[a].variant # v

(* upsertVariant without an id, to save(). *)
NewVariant(a) ==
    /\ at[a] = "ready" /\ IsThere(db)
    /\ \E v \in Variants, p \in Prices :
         IsNew(v) /\ Asks(a, [op |-> "insert", variant |-> v, price |-> p])
    /\ Goto(a, "insert")
    /\ UNCHANGED <<rowVars, cache, loaded, selected, spoiled>>

(* save() reads the rows again: it will write what differs from them.      *)
Select(a) ==
    /\ at[a] \in {"selectUpdate", "selectUpsert"}
    /\ selected' = [selected EXCEPT ![a] = db]
    /\ Goto(a, IF at[a] = "selectUpdate" THEN "writeUpdate" ELSE "writeUpsert")
    /\ UNCHANGED <<rowVars, cache, request, loaded, spoiled>>

-----------------------------------------------------------------------------
(* update's save() writes the product with the variants that were loaded   *)
(* (cascade: true): it inserts those that it did not find any more and     *)
(* writes over those that changed; a variant it found that was not loaded  *)
(* would lose its product_id.                                              *)

Inserted(a) == {v \in Variants : Has(loaded[a], v) /\ ~Has(selected[a], v)}
Orphaned(a) == {v \in Variants : Has(selected[a], v) /\ ~Has(loaded[a], v)}
Rewritten(a) ==
    {v \in Variants : /\ Has(loaded[a], v) /\ Has(selected[a], v)
                      /\ loaded[a].price[v] # selected[a].price[v]}

(* A duplicate key, product_id not null, or no product to refer to.        *)
UpdateRejected(a) ==
    \/ \E v \in Inserted(a) \cup Orphaned(a) : Has(db, v)
    \/ selected[a] = Gone /\ IsThere(db)
    \/ selected[a] # Gone /\ ~IsThere(db) /\ Inserted(a) # {}

Updated(a) ==
    IF selected[a] = Gone
      THEN [active |-> request[a].active, price |-> loaded[a].price]
      ELSE IF ~IsThere(db) THEN db
      ELSE [ active |-> IF request[a].active # selected[a].active
                          THEN request[a].active ELSE db.active,
             price |-> [v \in Variants |->
                 IF v \in Inserted(a) \/ (v \in Rewritten(a) /\ Has(db, v))
                   THEN loaded[a].price[v] ELSE db.price[v]] ]

(* The rows after c's change, were it the only one. *)
WithActive(p, b) == IF IsThere(p) THEN [active |-> b, price |-> p.price] ELSE p
WithPrice(p, v, x) ==
    IF IsThere(p) THEN [active |-> p.active, price |-> [p.price EXCEPT ![v] = x]]
    ELSE p

(* Mutant: the product's own entry is not deleted. *)
UpdateClearsLists(a) ==
    /\ at[a] = "writeUpdate"
    /\ IF UpdateRejected(a)
         THEN Goto(a, "done") /\ UNCHANGED rowVars
         ELSE /\ Change(a, Updated(a), WithActive(wanted, request[a].active))
              /\ Goto(a, "keys")
    /\ Forget(a) /\ UNCHANGED <<cache, spoiled>>

WriteUpdate(a) ==
    /\ at[a] = "writeUpdate"
    /\ IF UpdateRejected(a)
         THEN Goto(a, "done") /\ UNCHANGED rowVars
         ELSE /\ Change(a, Updated(a), WithActive(wanted, request[a].active))
              /\ Goto(a, "delProduct")
    /\ Forget(a) /\ UNCHANGED <<cache, spoiled>>

(* upsertVariant's save(): it inserts the variant if it did not find it,   *)
(* and updates it if it differs; an update may not find it any more.       *)
UpsertRejected(a) ==
    /\ ~Has(selected[a], request[a].variant)
    /\ ~IsThere(db) \/ Has(db, request[a].variant)

Upserted(a) ==
    LET v == request[a].variant
        x == request[a].price
        s == selected[a]
    IN  IF ~Has(s, v) \/ (Has(db, v) /\ x # s.price[v])
          THEN WithPrice(db, v, x) ELSE db

(* Mutant: save() is given the variant as it was loaded. *)
UpsertKeepsPrice(a) ==
    LET v == request[a].variant
    IN  /\ at[a] = "writeUpsert"
        /\ IF UpsertRejected(a)
             THEN Goto(a, "done") /\ UNCHANGED rowVars
             ELSE /\ Change(a, IF Has(selected[a], v) THEN db
                               ELSE WithPrice(db, v, loaded[a].price[v]),
                            WithPrice(wanted, v, request[a].price))
                  /\ Goto(a, "delProduct")
        /\ Forget(a) /\ UNCHANGED <<cache, spoiled>>

WriteUpsert(a) ==
    /\ at[a] = "writeUpsert"
    /\ IF UpsertRejected(a)
         THEN Goto(a, "done") /\ UNCHANGED rowVars
         ELSE /\ Change(a, Upserted(a),
                        WithPrice(wanted, request[a].variant, request[a].price))
              /\ Goto(a, "delProduct")
    /\ Forget(a) /\ UNCHANGED <<cache, spoiled>>

(* ... of a new variant, whose product may be gone. *)
InsertVariant(a) ==
    LET v == request[a].variant
        x == request[a].price
    IN  /\ at[a] = "insert"
        /\ IF IsThere(db)
             THEN /\ Change(a, WithPrice(db, v, x), WithPrice(wanted, v, x))
                  /\ Goto(a, "delProduct")
             ELSE Goto(a, "done") /\ UNCHANGED rowVars
        /\ UNCHANGED <<cache, callVars, spoiled>>

(* deleteVariant does not delete the product's own entry. *)
DeleteVariant(a) ==
    /\ at[a] = "ready"
    /\ \E v \in Variants : Has(db, v) /\ Change(a, WithPrice(db, v, NoPrice),
                                                   WithPrice(wanted, v, NoPrice))
    /\ spoiled' = spoiled \cup {"product"}
    /\ Goto(a, "keys")
    /\ UNCHANGED <<cache, callVars>>

(* ON DELETE CASCADE. *)
DeleteProduct(a) ==
    /\ at[a] = "ready" /\ IsThere(db)
    /\ Change(a, Gone, Gone)
    /\ Goto(a, "delProduct")
    /\ UNCHANGED <<cache, callVars, spoiled>>

(* seedCatalogProducts truncates the tables, and leaves the cache alone.   *)
SeedReset ==
    /\ IsThere(db)
    /\ db' = Gone /\ wanted' = Gone
    /\ mixed' = (mixed \/ \E a \in Admins : at[a] \in Editing)
    /\ overtaken' = overtaken \cup {r \in Readers : at[r] \in {"setProduct", "setList"}}
    /\ spoiled' = Keys
    /\ UNCHANGED <<cache, at, callVars>>

-----------------------------------------------------------------------------
(* afterMutation. *)

InvalidateProduct(a) ==
    /\ at[a] = "delProduct"
    /\ cache' = [cache EXCEPT !["product"] = Absent]
    /\ spoiled' = spoiled \ {"product"}
    /\ Goto(a, "keys")
    /\ UNCHANGED <<rowVars, callVars>>

(* invalidateLists: KEYS, and DEL of what it returned. *)
KeysOfLists(a) ==
    /\ at[a] = "keys"
    /\ Goto(a, IF cache["list"] = Absent THEN "done" ELSE "delLists")
    /\ UNCHANGED <<rowVars, cache, callVars, spoiled>>

DelLists(a) ==
    /\ at[a] = "delLists"
    /\ cache' = [cache EXCEPT !["list"] = Absent]
    /\ spoiled' = spoiled \ {"list"}
    /\ Goto(a, "done")
    /\ UNCHANGED <<rowVars, callVars>>

(* The entries that a call has yet to delete. *)
Pending(label) ==
    IF label = "delProduct" THEN Keys
    ELSE IF label \in {"keys", "delLists"} THEN {"list"} ELSE {}

(* An await rejects, or the replica dies: the call ends where it is.       *)
Fails(c) ==
    /\ at[c] \notin {"ready", "done"}
    /\ spoiled' = spoiled \cup Pending(at[c])
    /\ overtaken' = overtaken \ {c}
    /\ Forget(c) /\ Goto(c, IF c \in Readers THEN "ready" ELSE "done")
    /\ UNCHANGED <<db, wanted, mixed, cache>>

-----------------------------------------------------------------------------
ReaderStep(r) == Misses(r) \/ FindProduct(r) \/ FindList(r) \/ SetEntry(r)

(* What an admin's call does once it is made. *)
Proceeds(a) ==
    \/ Select(a) \/ WriteUpdate(a) \/ WriteUpsert(a) \/ InsertVariant(a)
    \/ InvalidateProduct(a) \/ KeysOfLists(a) \/ DelLists(a)

AdminStep(a) ==
    \/ CreateProduct(a) \/ UpdateProduct(a) \/ UpsertVariant(a) \/ NewVariant(a)
    \/ DeleteVariant(a) \/ DeleteProduct(a) \/ Proceeds(a)

Next ==
    \/ \E r \in Readers : ReaderStep(r)
    \/ \E a \in Admins : AdminStep(a)
    \/ \E c \in Calls : Fails(c)
    \/ \E k \in Keys : Expire(k)
    \/ SeedReset

Spec == Init /\ [][Next]_vars

-----------------------------------------------------------------------------
(* Properties. *)

Fresh(k) == cache[k] = Absent \/ cache[k] = View(k, db)

(* An entry that differs from the database is about to be deleted, or has  *)
(* one of the known causes: its reader was overtaken by a change, a change *)
(* ended before it had deleted the entry, the tables were truncated, or,   *)
(* for product:{id}, deleteVariant did not look for it.                    *)
StaleHasCause ==
    \A k \in Keys :
        \/ Fresh(k)
        \/ k \in spoiled
        \/ \E a \in Admins : k \in Pending(at[a])

(* As long as no change comes between the read and the write of another,   *)
(* the rows are what the admins asked for: in particular, the variants     *)
(* that an update of the product saves along with it stay what they are.   *)
EditsHold == ~mixed => db = wanted

-----------------------------------------------------------------------------
(* The inductive invariants: a reader that was not overtaken holds what    *)
(* the database holds; and while no changes have mixed, so does an edit.   *)
FillersAreFresh ==
    \A r \in Readers \ overtaken :
        /\ at[r] = "setProduct" => loaded[r] = View("product", db)
        /\ at[r] = "setList" => loaded[r] = View("list", db)

EditorsAreFresh ==
    ~mixed =>
        \A a \in Admins :
            /\ at[a] \in Editing => loaded[a] = db
            /\ at[a] \in {"writeUpdate", "writeUpsert"} => selected[a] = db

(* A call has the request, and has read the row, that its steps use.       *)
RequestsFit ==
    \A a \in Admins :
        /\ at[a] \in {"selectUpdate", "writeUpdate"} => request[a].op = "update"
        /\ at[a] \in {"selectUpsert", "writeUpsert"} =>
             request[a].op = "upsert" /\ Has(loaded[a], request[a].variant)
        /\ at[a] = "insert" => request[a].op = "insert"
        /\ at[a] \in Editing => IsThere(loaded[a])

FilledIsThere ==
    \A r \in Readers :
        /\ at[r] = "setProduct" => loaded[r] \in Product
        /\ at[r] = "setList" => loaded[r] \in Product \cup {Gone}

(* Taken together: product:{id} holds a product and never its absence, and *)
(* a reader or an editor that no change overtook holds what the database   *)
(* holds.                                                                  *)
CatalogInv ==
    /\ TypeOK /\ RequestsFit /\ FilledIsThere
    /\ FillersAreFresh /\ StaleHasCause
    /\ EditorsAreFresh /\ EditsHold
=============================================================================
