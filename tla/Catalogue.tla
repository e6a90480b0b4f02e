------------------------------ MODULE Catalogue ------------------------------
(***************************************************************************)
(* A merchant's products: the sync with the catalogue API of a supplier    *)
(* (productCatalogService), the merchant's own edits on the Products page  *)
(* (merchantSelf.routes, productHelpers), the older edits by wallet        *)
(* (merchants.routes) and the operators' (products.routes).  Every await   *)
(* of a sync is a step.  Amounts are minor units in the table and major    *)
(* units in the feed and on the page; 0 is null.                           *)
(***************************************************************************)
EXTENDS Integers, FiniteSets, TLC

CONSTANTS Items,       \* ids of the supplier's products
          Offers,      \* what the supplier may publish of an item
          Fixture,     \* item -> the offer in the bundled fixture
          Syncs,       \* POST /me/products/catalog-api/sync handlers
          Corridors,   \* currencies of the merchant's active stores
          Majors,      \* prices a user types
          MaxProducts, MaxPublish, MaxEdits, CatFaults

CatAssumption ==
    /\ Majors \subseteq Nat \ {0}
    /\ \A o \in Offers : {o.fixed, o.base, o.min, o.max} \subseteq Nat
    /\ Fixture \in [Items -> Offers]
ASSUME CatAssumption

VARIABLES feed,      \* item -> offer, or Gone
          published, \* number of times the supplier changed it
          url,       \* merchants.catalog_api_url: "none", "live" or "flash"
          products,  \* the table
          sync,      \* handler -> [pc, snap, todo, item, row, hand]
          form,      \* the open form of the Products page
          edits,     \* bound on edits by hand
          mixed,     \* history: syncs beside which something else wrote products
          marks,     \* history: syncs overlapped; an operator changed a supplier's id
          catFaults

catTables == <<url, products>>
catVars == <<feed, published, catTables, sync, form, edits, mixed, marks, catFaults>>

Absent == "absent"
\* What a feed without an item says of it, as far as the sync can tell.
Gone == [fixed |-> 0, base |-> 0, min |-> 0, max |-> 0, country |-> "ZA", live |-> FALSE]
NoForm == [id |-> 0]
Resting == [pc |-> "idle", snap |-> <<>>, todo |-> {}, item |-> Absent, row |-> 0, hand |-> <<>>]
Keep == -1
ToMinorUnits(n) == 100 * n
FromMinorUnits(n) == n \div 100
Minor(n) == IF n = Keep THEN Keep ELSE ToMinorUnits(n)

CatInit ==
    /\ feed \in [Items -> {Gone} \cup Offers] /\ published = 0
    /\ url \in {"none", "live", "flash"} /\ products = <<>>
    /\ sync = [s \in Syncs |-> Resting] /\ form = NoForm /\ edits = 0
    /\ mixed = {} /\ marks = {} /\ catFaults = {}

CatFault(kind) == kind \in CatFaults \ catFaults /\ catFaults' = catFaults \cup {kind}
Busy(s) == sync[s].pc # "idle"
\* A write by hand, or by a sync, while a sync is under way.
Disturb(S) == mixed' = mixed \cup {s \in S : Busy(s)}

-----------------------------------------------------------------------------
(* productHelpers: what a request body changes.  A field of a body is Keep *)
(* when it is missing, 0 when it is null or empty.                         *)

NoBody == [fixed |-> "keep", unit |-> Keep, min |-> Keep, max |-> Keep, active |-> "keep"]
Wrong == [NoBody EXCEPT !.fixed = "error"]

ParseProductBody(body, partial) ==
    LET fixed == IF body.fixed = "keep" /\ ~partial THEN "yes" ELSE body.fixed
        unit  == IF body.unit > 0 THEN ToMinorUnits(body.unit) ELSE Keep
        spread(v) == IF v # Keep THEN Minor(v) ELSE IF fixed # "no" THEN unit ELSE Keep
        price == IF fixed = "no" THEN 0 ELSE unit
        lo    == spread(body.min)
        hi    == spread(body.max)
    IN  IF ~partial /\ (\/ fixed = "yes" /\ unit = Keep
                        \/ fixed = "no" /\ (lo <= 0 \/ hi <= 0 \/ lo > hi))
        THEN Wrong
        ELSE [fixed |-> fixed, unit |-> price, min |-> lo, max |-> hi, active |-> body.active]

Set(old, new, keep) == IF new = keep THEN old ELSE new
Patched(row, f) ==
    [row EXCEPT !.fixed = Set(@, f.fixed, "keep"), !.price = Set(@, f.unit, Keep),
                !.min = Set(@, f.min, Keep), !.max = Set(@, f.max, Keep),
                !.active = Set(@, f.active, "keep")]
BlankRow(cur) == [ext |-> Absent, source |-> "manual", active |-> "yes", cur |-> cur,
                  fixed |-> "yes", price |-> 0, min |-> 0, max |-> 0]

\* A function that also has v at k.
With(f, k, v) == [x \in DOMAIN f \cup {k} |-> IF x = k THEN v ELSE f[x]]
Insert(row) == products' = With(products, Cardinality(DOMAIN products) + 1, row)
Room == Cardinality(DOMAIN products) < MaxProducts

-----------------------------------------------------------------------------
(* Edits by hand.                                                          *)

Edit == edits < MaxEdits /\ edits' = edits + 1 /\ Disturb(Syncs)

\* resolveProductCorridor: a store of the merchant must trade in the currency.
ResolveProductCorridor(cur) == cur \in Corridors

\* POST /me/products.
CreateProduct(body, cur) ==
    LET f == ParseProductBody(body, FALSE) IN
    /\ Edit /\ Room /\ f # Wrong /\ ResolveProductCorridor(cur)
    /\ Insert(Patched(BlankRow(cur), f))
    /\ UNCHANGED <<feed, published, url, sync, form, marks, catFaults>>

\* openAdd and openEdit: the form is a copy of the row as the page has it.
OpenAdd ==
    /\ form = NoForm
    /\ \E cur \in Corridors : form' = [id |-> Keep, fixed |-> "yes", unit |-> 1, min |-> 1, max |-> 100, cur |-> cur]
    /\ UNCHANGED <<feed, published, catTables, sync, edits, mixed, marks, catFaults>>

OpenEdit(r) ==
    /\ form = NoForm
    /\ LET p == products[r] IN
       form' = [id |-> r, fixed |-> p.fixed, unit |-> FromMinorUnits(p.price),
                min |-> FromMinorUnits(p.min), max |-> FromMinorUnits(p.max), cur |-> p.cur]
    /\ UNCHANGED <<feed, published, catTables, sync, edits, mixed, marks, catFaults>>

CloseForm ==
    /\ form # NoForm /\ form' = NoForm
    /\ UNCHANGED <<feed, published, catTables, sync, edits, mixed, marks, catFaults>>

\* save: the whole form is sent, the fields the user did not touch included.
FormBody(unit) == [fixed |-> form.fixed, unit |-> IF form.fixed = "yes" THEN unit ELSE 0,
                   min |-> form.min, max |-> form.max, active |-> "keep"]
SaveForm(unit) ==
    LET f == ParseProductBody(FormBody(unit), form.id # Keep) IN
    /\ form # NoForm /\ Edit /\ f # Wrong
    /\ IF form.id = Keep
       THEN Room /\ ResolveProductCorridor(form.cur) /\ Insert(Patched(BlankRow(form.cur), f))
       ELSE products' = [products EXCEPT ![form.id] = Patched(@, f)]
    /\ form' = NoForm
    /\ UNCHANGED <<feed, published, url, sync, marks, catFaults>>

\* PATCH /me/products/:id with a currency: it must be one a store trades in.
SetCurrency(r, cur) ==
    /\ Edit /\ ResolveProductCorridor(cur)
    /\ products' = [products EXCEPT ![r].cur = cur]
    /\ UNCHANGED <<feed, published, url, sync, form, marks, catFaults>>

\* toggleActive sends the opposite of what the page shows, which may be old.
ToggleActive(r, active) ==
    /\ Edit
    /\ products' = [products EXCEPT ![r] = Patched(@, [NoBody EXCEPT !.active = active])]
    /\ UNCHANGED <<feed, published, url, sync, form, marks, catFaults>>

\* PATCH /merchants/me/products/:id, by wallet: the limits follow the price.
PatchByWallet(r, unit) ==
    /\ Edit
    /\ products' = [products EXCEPT ![r].price = ToMinorUnits(unit), ![r].min = ToMinorUnits(unit),
                                    ![r].max = ToMinorUnits(unit)]
    /\ UNCHANGED <<feed, published, url, sync, form, marks, catFaults>>

\* The operators' routes store what they are given, prices and supplier's ids alike.
AdminCreate(ext, n) ==
    /\ Edit /\ Room
    /\ \E cur \in Corridors : Insert([BlankRow(cur) EXCEPT !.ext = ext, !.price = n])
    /\ UNCHANGED <<feed, published, url, sync, form, marks, catFaults>>

AdminPatch(r, ext) ==
    /\ Edit
    /\ products' = [products EXCEPT ![r].ext = ext]
    /\ marks' = marks \cup {"renumbered"}
    /\ UNCHANGED <<feed, published, url, sync, form, catFaults>>

\* PUT /me/products/catalog-api.
SaveCatalogConfig(u) ==
    /\ edits < MaxEdits /\ edits' = edits + 1 /\ u # url /\ url' = u
    /\ UNCHANGED <<feed, published, products, sync, form, mixed, marks, catFaults>>

-----------------------------------------------------------------------------
(* The sync.                                                               *)

\* The supplier publishes, changes or withdraws an item.
Publish(i, offer) ==
    /\ published < MaxPublish /\ offer # feed[i]
    /\ feed' = [feed EXCEPT ![i] = offer] /\ published' = published + 1
    /\ UNCHANGED <<catTables, sync, form, edits, mixed, marks, catFaults>>

\* mapFlashPimItem: a supplier's fixed price, else the range, else the base
\* product's fixed price; an item with none is left out.
Currency(country) == CASE country = "ZW" -> "ZWG" [] country = "MW" -> "MWK" [] OTHER -> "ZAR"
Mappable(o) == o.fixed > 0 \/ (o.min > 0 /\ o.max > 0) \/ o.base > 0
MapFlashPimItem(o) ==
    LET ranged == o.fixed = 0 /\ o.min > 0 /\ o.max > 0
        price  == ToMinorUnits(IF o.fixed > 0 THEN o.fixed ELSE o.base)
    IN  [fixed |-> IF ranged THEN "no" ELSE "yes", price |-> IF ranged THEN 0 ELSE price,
         min |-> IF ranged THEN ToMinorUnits(o.min) ELSE price,
         max |-> IF ranged THEN ToMinorUnits(o.max) ELSE price,
         cur |-> Currency(o.country), active |-> IF o.live THEN "yes" ELSE "no"]

ParseFlashPimPayload(payload) ==
    [i \in {j \in Items : Mappable(payload[j])} |-> MapFlashPimItem(payload[i])]

ByHand == {r \in DOMAIN products : products[r].source = "manual"}
StartSync(s) ==
    /\ ~Busy(s) /\ url # "none"
    /\ sync' = [sync EXCEPT ![s] = [Resting EXCEPT !.pc = "fetch", !.item = url,
                                      !.hand = [r \in ByHand |-> products[r]]]]
    /\ mixed' = (mixed \ {s}) \cup {u \in Syncs : u # s /\ Busy(u)}
                    \cup (IF \E u \in Syncs \ {s} : Busy(u) THEN {s} ELSE {})
    /\ marks' = IF \E u \in Syncs \ {s} : Busy(u) THEN marks \cup {"overlapped"} ELSE marks
    /\ UNCHANGED <<feed, published, catTables, form, edits, catFaults>>

\* A Flash URL that cannot be reached is replaced by the fixture.
FetchCatalogJson(s) ==
    /\ sync[s].pc = "fetch"
    /\ \/ /\ sync' = [sync EXCEPT ![s].pc = "item", ![s].snap = ParseFlashPimPayload(feed),
                                  ![s].todo = DOMAIN ParseFlashPimPayload(feed)]
          /\ UNCHANGED catFaults
       \/ /\ CatFault("fetch") /\ sync[s].item = "flash"
          /\ sync' = [sync EXCEPT ![s].pc = "item", ![s].snap = ParseFlashPimPayload(Fixture),
                                  ![s].todo = DOMAIN ParseFlashPimPayload(Fixture)]
       \/ CatFault("fetch") /\ sync[s].item # "flash" /\ sync' = [sync EXCEPT ![s] = Resting]
    /\ UNCHANGED <<feed, published, catTables, form, edits, mixed, marks>>

RowsOf(i) == {r \in DOMAIN products : products[r].ext = i}

\* Mutant: the row's source is not looked at.
LookupAnySource(s) ==
    /\ sync[s].pc = "item" /\ sync[s].todo # {}
    /\ \E i \in sync[s].todo : \E r \in IF RowsOf(i) = {} THEN {0} ELSE RowsOf(i) :
          sync' = [sync EXCEPT ![s].pc = "write", ![s].item = i, ![s].row = r]
    /\ UNCHANGED <<feed, published, catTables, form, edits, mixed, marks, catFaults>>

\* The SELECT of one item, which has no order; a row made by hand is left alone.
Lookup(s) ==
    /\ sync[s].pc = "item" /\ sync[s].todo # {}
    /\ \E i \in sync[s].todo : \E r \in IF RowsOf(i) = {} THEN {0} ELSE RowsOf(i) :
          sync' = IF r \in ByHand THEN [sync EXCEPT ![s].todo = @ \ {i}]
                  ELSE [sync EXCEPT ![s].pc = "write", ![s].item = i, ![s].row = r]
    /\ UNCHANGED <<feed, published, catTables, form, edits, mixed, marks, catFaults>>

\* The UPDATE or INSERT; nothing makes a supplier's id unique.
Upsert(s) ==
    LET i == sync[s].item
        p == sync[s].snap[i]
        new == [ext |-> i, source |-> "api", active |-> p.active, cur |-> p.cur,
                fixed |-> p.fixed, price |-> p.price, min |-> p.min, max |-> p.max]
    IN
    /\ sync[s].pc = "write"
    /\ IF sync[s].row = 0 THEN Room /\ Insert(new)
       ELSE products' = [products EXCEPT ![sync[s].row] = [new EXCEPT !.ext = products[sync[s].row].ext]]
    /\ sync' = [sync EXCEPT ![s].pc = "item", ![s].todo = @ \ {i}, ![s].item = Absent, ![s].row = 0]
    /\ Disturb(Syncs \ {s})
    /\ UNCHANGED <<feed, published, url, form, edits, marks, catFaults>>

\* Products the feed no longer has are switched off, unless the feed was empty.
Deactivate(s) ==
    LET seen == DOMAIN sync[s].snap IN
    /\ sync[s].pc = "item" /\ sync[s].todo = {}
    /\ products' = [r \in DOMAIN products |->
          IF seen # {} /\ products[r].source = "api" /\ products[r].ext \notin seen
          THEN [products[r] EXCEPT !.active = "no"] ELSE products[r]]
    /\ sync' = [sync EXCEPT ![s].pc = "stamp"]
    /\ Disturb(Syncs \ {s})
    /\ UNCHANGED <<feed, published, url, form, edits, marks, catFaults>>

Stamp(s) ==
    /\ sync[s].pc = "stamp" /\ sync' = [sync EXCEPT ![s] = Resting]
    /\ UNCHANGED <<feed, published, catTables, form, edits, mixed, marks, catFaults>>

\* A query fails: 500, what was written stays.
SyncThrows(s) ==
    /\ Busy(s) /\ CatFault("db")
    /\ sync' = [sync EXCEPT ![s] = Resting]
    /\ UNCHANGED <<feed, published, catTables, form, edits, mixed, marks>>

Syncing(s) ==
    StartSync(s) \/ FetchCatalogJson(s) \/ Lookup(s) \/ Upsert(s) \/ Deactivate(s) \/ Stamp(s) \/ SyncThrows(s)

Supplying == \E i \in Items, o \in {Gone} \cup Offers : Publish(i, o)

Editing ==
    \/ \E u \in {"none", "live", "flash"} : SaveCatalogConfig(u)
    \/ \E n \in Majors, cur \in Corridors : CreateProduct([NoBody EXCEPT !.unit = n], cur)
    \/ OpenAdd \/ CloseForm \/ \E n \in Majors : SaveForm(n)
    \/ \E i \in Items, n \in Majors : AdminCreate(i, n)
    \/ \E r \in DOMAIN products :
          \/ OpenEdit(r)
          \/ \E cur \in Corridors : SetCurrency(r, cur)
          \/ \E active \in {"yes", "no"} : ToggleActive(r, active)
          \/ \E n \in Majors : PatchByWallet(r, n)
          \/ \E i \in Items : AdminPatch(r, i)

-----------------------------------------------------------------------------
(* GET /api/consumer/products, /api/products and the page's own list.      *)

Shelf(cur) == {r \in DOMAIN products : products[r].active = "yes" /\ products[r].cur = cur}

FromApi(i) == {r \in RowsOf(i) : products[r].source = "api"}
Fields(p) == [fixed |-> p.fixed, price |-> p.price, min |-> p.min, max |-> p.max,
              cur |-> p.cur, active |-> p.active]

\* When a sync ends beside which nothing else wrote products, the shelf is the
\* supplier's list: every item of the snapshot has one row with its price, limits,
\* currency and state, whatever hand edits and broken-off syncs came before; no
\* withdrawn item is on sale unless the list was empty; and the rows made by hand
\* are as they were when it started.  Two rows for one item exist only after syncs
\* overlapped or an operator changed an id.
CatalogueInSync ==
    /\ \A s \in Syncs : sync[s].pc = "stamp" /\ s \notin mixed =>
          /\ [r \in ByHand |-> products[r]] = sync[s].hand
          /\ \A i \in DOMAIN sync[s].snap : RowsOf(i) \cap ByHand = {} =>
                /\ RowsOf(i) # {}
                /\ Cardinality(RowsOf(i)) = 1 => \A r \in RowsOf(i) : Fields(products[r]) = sync[s].snap[i]
          /\ DOMAIN sync[s].snap # {} => \A i \in Items \ DOMAIN sync[s].snap, cur \in Corridors :
                FromApi(i) \cap Shelf(cur) = {}
    /\ \A i \in Items : Cardinality(FromApi(i)) > 1 => marks # {}
=============================================================================
