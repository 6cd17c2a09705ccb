---------------------------- MODULE OffersProofs ----------------------------
(***************************************************************************)
(* Theorems about what an organization offers and what is ordered of it:   *)
(* the service catalogue under extractions and the administrator's         *)
(* requests (module ServiceCatalog), for any rows, any number of requests  *)
(* at the same time and whatever is extracted; and orders and stock        *)
(* (module Orders), for any number of workers, orders and products, any    *)
(* carts and any initial stock.                                            *)
(***************************************************************************)
EXTENDS MCOffers, FiniteSetTheorems, WellFoundedInduction, TLAPS

-----------------------------------------------------------------------------
(* The records of the catalogue *)

\* Prices as extracted and normalized once, and as stored.
NormalPrice == Price \cup {Zero, Missing}
StoredPrice == Price \cup {Missing}

OptionEntry == [name : Name, price : NormalPrice]
ItemEntry == [name : Name, price : NormalPrice, options : SUBSET OptionEntry]
FlatEntry == [name : Name, price : StoredPrice]
SeenRow == [approval : Approval, shown : BOOLEAN, price : StoredPrice]
ExtractionStage == {"idle", "findService", "writeService", "findItem", "writeItem", "findOption",
                    "writeOption", "flatFind", "flatWrite", "listStale", "markStale"}

ExtractionRow ==
    [stage : ExtractionStage, source : Source \cup {None}, service : Service \cup {None},
     item : Item \cup {None}, entry : [name : Name \cup {None}, price : NormalPrice],
     found : Id \cup {None}, seen : SeenRow, overtaken : BOOLEAN,
     todo : SUBSET (ItemEntry \cup FlatEntry), options : SUBSET OptionEntry,
     names : SUBSET Name, stale : SUBSET Service]

WriteStages == {"writeService", "writeItem", "writeOption", "flatWrite"}
Writing(e) == e.stage \in WriteStages

\* What an extraction looks up: rows of one kind under one parent.
KindOf(e) == CASE e.stage \in {"writeService", "flatWrite"} -> Service
               [] e.stage = "writeItem" -> Item
               [] OTHER -> Option
ParentOf(e) == CASE e.stage \in {"writeService", "flatWrite"} -> None
                 [] e.stage = "writeItem" -> e.service
                 [] OTHER -> e.item

\* What is known at each stage of an extraction.
Staged(e) ==
    /\ e.stage \in {"findItem", "writeItem", "findOption", "writeOption"} => e.service \in Service
    /\ e.stage \in {"findOption", "writeOption"} => e.item \in Item
    /\ e.stage \in {"findService", "writeService", "findItem", "writeItem", "findOption",
                    "writeOption"} => e.todo \subseteq ItemEntry
    /\ e.stage \in {"flatFind", "flatWrite"} => e.todo \subseteq FlatEntry
    /\ e.stage = "findService" \/ Writing(e) => e.entry.name \in Name
    /\ e.stage = "flatWrite" => e.entry.price \in StoredPrice
    /\ Writing(e) => e.found \in KindOf(e) \cup {None}

HandlerOp == {"idle", "approve", "apply", "ignore", "deactivate", "update", "remove"}
HandlerRow == [op : HandlerOp, stage : {"idle", "write", "check", "items", "options"},
               service : Service \cup {None}, candidate : Price \cup {Missing, None},
               items : SUBSET Item]

-----------------------------------------------------------------------------
(* The inductive invariant *)

HistoryType ==
    /\ doubled \subseteq Id /\ raced \subseteq Id /\ excused \subseteq Id
    /\ decided \in [Id -> Approval \cup {"none"}]
    /\ accepted \in [Id -> StoredPrice]

CatalogType ==
    /\ row \in [Id -> Row]
    /\ extraction \in ExtractionRow
    /\ Staged(extraction)
    /\ handler \in [Worker -> HandlerRow]
    /\ \A w \in Worker : /\ handler[w].stage # "idle" => handler[w].service \in Service
                         /\ handler[w].op = "apply" => handler[w].candidate # None
    /\ HistoryType

\* Rows hang in a tree of live rows: a deletion cascades.
Owned ==
    /\ \A s \in Service : Live(s) => row[s].parent = None
    /\ \A i \in Item : Live(i) => row[i].parent \in Service /\ Live(row[i].parent)
    /\ \A o \in Option : Live(o) => row[o].parent \in Item /\ Live(row[o].parent)

\* An identity that was not used has no row, and a row that is not there was not
\* decided on.
Unused ==
    \A r \in Id : /\ row[r].life = "new" => row[r] = NoRow
                  /\ row[r].life # "live" => decided[r] = "none"

\* What an extraction looked up is so, unless the administrator overtook it.
SeenNow ==
    Writing(extraction) /\ extraction.found # None /\ ~extraction.overtaken =>
        /\ Live(extraction.found)
        /\ extraction.stage # "writeService" => extraction.seen = Seen(extraction.found)

\* q has the name under which the extraction e looked a row up.
Sought(e, q) ==
    /\ row[q].life = "live" /\ row[q].parent = ParentOf(e) /\ row[q].name = e.entry.name

\* What has the name that an extraction looked up, but for what it found, was
\* given it by the administrator, or what it found was.
FoundAlone ==
    Writing(extraction) =>
        /\ extraction.found # None => row[extraction.found].life # "new"
        /\ Live(extraction.found) => row[extraction.found].parent = ParentOf(extraction)
        /\ \A q \in KindOf(extraction) : Sought(extraction, q) =>
               q = extraction.found \/ q \in doubled \/ extraction.found \in doubled

\* QuotedPriceAccepted, row by row.
Priced == \A r \in Id \ raced : Live(r) /\ Quoted(row[r]) => row[r].price = accepted[r]

\* What an activation has yet to reach under s.
Rest(s) == Pending(Below(s)) \ excused

Reaches(w, s) ==
    /\ handler[w].service = s
    /\ \/ handler[w].stage \in {"check", "items"}
       \/ handler[w].stage = "options" /\ Rest(s) \subseteq OptionsOf(handler[w].items)

\* ActivationIsWhole, with what each request of an activation leaves.
WholeAt(s) ==
    Live(s) /\ row[s].approval = "approved" =>
        Rest(s) = {} \/ \E w \in Worker : Reaches(w, s)

Whole == \A s \in Service : WholeAt(s)

CatalogInv ==
    /\ CatalogType /\ Owned /\ Unused /\ SeenNow /\ FoundAlone
    /\ Priced /\ DecisionsStand /\ InsertedOnce /\ Whole

-----------------------------------------------------------------------------
(* The records *)

LEMMA NoRowType == NoRow \in Row
  BY DEF NoRow, Row, Approval

LEMMA QuietType ==
  /\ Quiet \in ExtractionRow /\ Staged(Quiet) /\ ~Writing(Quiet)
  BY DEF Quiet, ExtractionRow, Staged, Writing, WriteStages, ExtractionStage, NoEntry, Unseen,
         SeenRow, StoredPrice, NormalPrice, Approval

LEMMA IdleType == Idle \in HandlerRow /\ Idle.stage = "idle" /\ Idle.op = "idle"
  BY DEF Idle, HandlerRow, HandlerOp

LEMMA ForgetType ==
  ASSUME NEW e \in ExtractionRow
  PROVE /\ Forget(e) \in ExtractionRow
        /\ Forget(e).stage = e.stage /\ Forget(e).source = e.source
        /\ Forget(e).service = e.service /\ Forget(e).item = e.item
        /\ Forget(e).todo = e.todo /\ Forget(e).options = e.options
        /\ Forget(e).names = e.names /\ Forget(e).stale = e.stale
  BY DEF ExtractionRow, Forget, SeenRow, NoEntry, Unseen, Approval, NormalPrice, StoredPrice

\* A stage of an extraction that writes no row looks for none.
Reading(e) == e \in ExtractionRow /\ Staged(e) /\ ~Writing(e)

LEMMA AfterRowType ==
  ASSUME NEW e \in ExtractionRow, e.todo \subseteq ItemEntry, e.service \in Service,
         e.options # {} => e.item \in Item
  PROVE Reading(AfterRow(e))
<1> DEFINE f == Forget(e)
<1>1. /\ f \in ExtractionRow /\ f.service = e.service /\ f.item = e.item /\ f.todo = e.todo
  BY ForgetType
<1> HIDE DEF f
<1>2. CASE e.options # {}
  <2> DEFINE g == [f EXCEPT !.stage = "findOption"]
  <2>1. /\ g \in ExtractionRow /\ g.stage = "findOption" /\ g.service = e.service
        /\ g.item = e.item /\ g.todo = e.todo
    BY <1>1 DEF ExtractionRow, ExtractionStage
  <2> HIDE DEF g
  <2>2. Reading(g)
    BY <2>1, <1>2 DEF Reading, Staged, Writing, WriteStages
  <2> QED BY <2>2, <1>2 DEF AfterRow, f, g
<1>3. CASE e.options = {} /\ e.todo # {}
  <2> DEFINE g == [f EXCEPT !.stage = "findItem"]
  <2>1. /\ g \in ExtractionRow /\ g.stage = "findItem" /\ g.service = e.service
        /\ g.item = e.item /\ g.todo = e.todo
    BY <1>1 DEF ExtractionRow, ExtractionStage
  <2> HIDE DEF g
  <2>2. Reading(g)
    BY <2>1 DEF Reading, Staged, Writing, WriteStages
  <2> QED BY <2>2, <1>3 DEF AfterRow, f, g
<1>4. CASE e.options = {} /\ e.todo = {}
  BY <1>4, QuietType DEF AfterRow, Reading
<1> QED BY <1>2, <1>3, <1>4

LEMMA AfterFlatType ==
  ASSUME NEW e \in ExtractionRow, e.todo \subseteq FlatEntry
  PROVE Reading(AfterFlat(e))
<1> DEFINE f == Forget(e)
<1>1. f \in ExtractionRow /\ f.todo = e.todo
  BY ForgetType
<1> HIDE DEF f
<1> DEFINE stage == IF e.todo # {} THEN "flatFind" ELSE "listStale"
           g == [f EXCEPT !.stage = stage]
<1>2. /\ g \in ExtractionRow /\ g.stage \in {"flatFind", "listStale"} /\ g.todo = e.todo
  BY <1>1 DEF ExtractionRow, ExtractionStage
<1>3. AfterFlat(e) = g
  BY DEF AfterFlat, f
<1> HIDE DEF g
<1> QED BY <1>2, <1>3 DEF Reading, Staged, Writing, WriteStages

LEMMA AfterStaleType ==
  ASSUME NEW e \in ExtractionRow
  PROVE Reading(AfterStale(e))
<1> DEFINE g == [e EXCEPT !.stage = "markStale"]
<1>1. g \in ExtractionRow /\ g.stage = "markStale"
  BY DEF ExtractionRow, ExtractionStage
<1> HIDE DEF g
<1>2. Reading(g)
  BY <1>1 DEF Reading, Staged, Writing, WriteStages
<1> QED BY <1>2, QuietType DEF AfterStale, Reading, g

LEMMA NullableNormal ==
  ASSUME NEW p \in Price \cup {Free, Missing}
  PROVE ToNullableInt(p) \in NormalPrice
  BY KindsAssumption DEF ToNullableInt, NormalPrice

LEMMA NullableStored ==
  ASSUME NEW p \in NormalPrice
  PROVE ToNullableInt(p) \in StoredPrice
  BY KindsAssumption DEF ToNullableInt, NormalPrice, StoredPrice

LEMMA NormalizedType ==
  ASSUME NEW c \in Catalogs
  PROVE Normalized(c.items) \subseteq ItemEntry /\ c.service \in Name
<1> DEFINE Extracted == Price \cup {Free, Missing}
           Given == [name : Name, price : Extracted, options : SUBSET [name : Name, price : Extracted]]
<1>1. c.items \in SUBSET Given /\ c.service \in Name
  BY ExtractedAssumption
<1>2. ASSUME NEW item \in Given
      PROVE [item EXCEPT !.price = ToNullableInt(@),
                  !.options = {[o EXCEPT !.price = ToNullableInt(@)] : o \in @}] \in ItemEntry
  <2> DEFINE os == {[o EXCEPT !.price = ToNullableInt(@)] : o \in item.options}
  <2>1. ASSUME NEW o \in item.options
        PROVE [o EXCEPT !.price = ToNullableInt(@)] \in OptionEntry
    <3>1. o \in [name : Name, price : Extracted]
      OBVIOUS
    <3>2. ToNullableInt(o.price) \in NormalPrice
      BY <3>1, NullableNormal
    <3> QED BY <3>1, <3>2 DEF OptionEntry
  <2>2. os \in SUBSET OptionEntry
    BY <2>1
  <2>3. ToNullableInt(item.price) \in NormalPrice
    BY NullableNormal
  <2> HIDE DEF os
  <2>4. [item EXCEPT !.price = ToNullableInt(@), !.options = os] \in ItemEntry
    BY <2>2, <2>3 DEF ItemEntry
  <2> QED BY <2>4 DEF os
<1> QED BY <1>1, <1>2 DEF Normalized

-----------------------------------------------------------------------------
(* Looking a row up *)

LEMMA SeenType ==
  ASSUME CatalogType, NEW r \in Id
  PROVE Seen(r) \in SeenRow
  BY DEF CatalogType, Seen, SeenRow, Row, StoredPrice

LEMMA UnseenType == Unseen \in SeenRow
  BY DEF Unseen, SeenRow, StoredPrice, Approval

\* A lookup of rows of one kind leaves the rest of the record as it was given.
LEMMA LookUpStep ==
  ASSUME CatalogType, NEW kind \in SUBSET Id, NEW parent, NEW e \in ExtractionRow,
         LookUp(kind, parent, e)
  PROVE /\ extraction' \in ExtractionRow /\ extraction'.stage = e.stage
        /\ extraction'.service = e.service /\ extraction'.item = e.item
        /\ extraction'.entry = e.entry /\ extraction'.todo = e.todo
        /\ extraction'.found \in kind \cup {None}
        /\ extraction'.found # None =>
             /\ extraction'.seen = Seen(extraction'.found)
             /\ Live(extraction'.found)
             /\ row[extraction'.found].parent = parent
             /\ row[extraction'.found].name = e.entry.name
        /\ extraction'.found = None =>
             \A q \in kind : Live(q) => row[q].parent # parent \/ row[q].name # e.entry.name
<1> DEFINE found == Matching(kind, parent, e.entry.name)
<1>1. PICK r \in IF found = {} THEN {None} ELSE found :
        extraction' = [e EXCEPT !.found = r, !.overtaken = FALSE,
                                !.seen = IF r = None THEN Unseen ELSE Seen(r)]
  BY DEF LookUp
<1>2. /\ r \in kind \cup {None}
      /\ r # None => r \in Id /\ Live(r) /\ row[r].parent = parent /\ row[r].name = e.entry.name
  BY DEF Matching
<1>3. None \notin Id
  BY KindsAssumption
<1> DEFINE seen == IF r = None THEN Unseen ELSE Seen(r)
<1>4. seen \in SeenRow /\ (r # None => seen = Seen(r))
  BY <1>2, SeenType, UnseenType
<1>5. r = None => found = {}
  BY <1>3 DEF Matching
<1>6. r = None => \A q \in kind : Live(q) => row[q].parent # parent \/ row[q].name # e.entry.name
  BY <1>5 DEF Matching
<1> HIDE DEF found, seen
<1>7. extraction' = [e EXCEPT !.found = r, !.overtaken = FALSE, !.seen = seen]
  BY <1>1 DEF seen
<1>8. /\ extraction' \in ExtractionRow /\ extraction'.stage = e.stage
      /\ extraction'.service = e.service /\ extraction'.item = e.item
      /\ extraction'.entry = e.entry /\ extraction'.todo = e.todo
      /\ extraction'.found = r /\ extraction'.seen = seen
  BY <1>7, <1>2, <1>4 DEF ExtractionRow
<1> QED BY <1>8, <1>2, <1>4, <1>6

\* The invariant where neither rows nor histories nor handlers change.
LEMMA RowsKeep ==
  ASSUME CatalogInv, UNCHANGED <<row, handler, Histories>>
  PROVE Owned' /\ Unused' /\ Priced' /\ DecisionsStand' /\ InsertedOnce' /\ Whole'
        /\ HistoryType'
  BY DEF CatalogInv, CatalogType, HistoryType, Owned, Unused, Priced, DecisionsStand, InsertedOnce,
         Alike, Whole, WholeAt, Rest, Reaches, Live, Pending, Below, ItemsOf, OptionsOf, Histories

LEMMA ReadingKeeps ==
  ASSUME Reading(extraction')
  PROVE SeenNow' /\ FoundAlone'
  BY DEF SeenNow, FoundAlone, Reading

\* A step of an extraction that writes no row and looks none up.
LEMMA ReadingStep ==
  ASSUME CatalogInv, UNCHANGED <<row, handler, Histories>>, Reading(extraction')
  PROVE CatalogInv'
<1>1. CatalogType'
  BY RowsKeep DEF CatalogInv, CatalogType, Reading
<1> QED BY <1>1, RowsKeep, ReadingKeeps DEF CatalogInv

LEMMA LookUpKeeps ==
  ASSUME CatalogInv, NEW e \in ExtractionRow, Staged([e EXCEPT !.found = None]), Writing(e),
         LookUp(KindOf(e), ParentOf(e), e), UNCHANGED <<row, handler, Histories>>
  PROVE CatalogInv'
<1> DEFINE f == [e EXCEPT !.found = None]
<1>1. /\ f.stage = e.stage /\ f.service = e.service /\ f.item = e.item /\ f.todo = e.todo
      /\ f.entry = e.entry
  BY DEF ExtractionRow
<1> HIDE DEF f
<1>2. Staged(f)
  BY DEF f
<1>3. KindOf(e) \in SUBSET Id
  BY DEF KindOf, Id
<1>4. CatalogType
  BY DEF CatalogInv
<1>5. /\ extraction' \in ExtractionRow /\ extraction'.stage = e.stage
      /\ extraction'.service = e.service /\ extraction'.item = e.item
      /\ extraction'.entry = e.entry /\ extraction'.todo = e.todo
      /\ extraction'.found \in KindOf(e) \cup {None}
      /\ extraction'.found # None =>
           /\ extraction'.seen = Seen(extraction'.found)
           /\ Live(extraction'.found)
           /\ row[extraction'.found].parent = ParentOf(e)
           /\ row[extraction'.found].name = e.entry.name
      /\ extraction'.found = None =>
           \A q \in KindOf(e) :
               Live(q) => row[q].parent # ParentOf(e) \/ row[q].name # e.entry.name
  BY <1>3, <1>4, LookUpStep
<1>6. KindOf(extraction') = KindOf(e) /\ ParentOf(extraction') = ParentOf(e) /\ Writing(extraction')
  BY <1>5 DEF KindOf, ParentOf, Writing
<1>7. Staged(extraction')
  BY <1>1, <1>2, <1>5, <1>6 DEF Staged, Writing, WriteStages
<1>8. CatalogType'
  BY <1>4, <1>5, <1>7, RowsKeep DEF CatalogType
<1>9. SeenNow'
  BY <1>5 DEF SeenNow, Live, Seen
<1>10. ASSUME NEW q \in KindOf(e), Sought(e, q), extraction'.found # None, q # extraction'.found
       PROVE q \in doubled \/ extraction'.found \in doubled
  <2> DEFINE r == extraction'.found
  <2>1. r \in KindOf(e) /\ Live(r) /\ r \in Id /\ q \in Id /\ (r \in Service <=> q \in Service)
    BY <1>3, <1>5, <1>10, KindsAssumption DEF KindOf
  <2>2. Alike(row, r, q)
    BY <1>5, <1>10, <2>1 DEF Alike, Sought, Live
  <2> QED BY <1>10, <2>1, <2>2 DEF CatalogInv, InsertedOnce
<1>11. ASSUME NEW q \in KindOf(e), Sought(e, q) PROVE extraction'.found # None
  BY <1>3, <1>5, <1>11, KindsAssumption DEF Sought, Live
<1>12. Live(extraction'.found) => row[extraction'.found].parent = ParentOf(e)
  BY <1>5 DEF Live
<1>13. UNCHANGED <<row, doubled>>
  BY DEF Histories
<1>14. \A q \in KindOf(e) : Sought(extraction', q) => Sought(e, q)
  BY <1>5, <1>6 DEF Sought
<1>15. FoundAlone'
  <2>1. /\ Live(extraction.found)' => row'[extraction'.found].parent = ParentOf(extraction')
        /\ extraction'.found # None => row'[extraction'.found].life # "new"
    BY <1>5, <1>6, <1>12, <1>13 DEF Live
  <2>2. ASSUME NEW q \in KindOf(extraction'), Sought(extraction, q)'
        PROVE q = extraction'.found \/ q \in doubled' \/ extraction'.found \in doubled'
    <3>1. Sought(e, q)
      BY <1>5, <1>6, <1>13, <2>2 DEF Sought
    <3>2. q \in KindOf(e) /\ doubled' = doubled
      BY <1>6, <1>13
    <3>3. extraction'.found # None
      BY <1>11, <3>1, <3>2
    <3> QED BY <1>10, <3>1, <3>2, <3>3
  <2> QED BY <2>1, <2>2 DEF FoundAlone, Live
<1> QED BY <1>8, <1>9, <1>15, RowsKeep DEF CatalogInv

LEMMA FindServiceKeeps ==
  ASSUME CatalogInv, FindService
  PROVE CatalogInv'
<1> DEFINE e == [extraction EXCEPT !.stage = "writeService"]
<1>1. CatalogType
  BY DEF CatalogInv
<1>2. /\ e \in ExtractionRow /\ e.stage = "writeService" /\ e.todo = extraction.todo
      /\ e.entry = extraction.entry
  BY <1>1 DEF CatalogType, ExtractionRow, ExtractionStage
<1>3. LookUp(Service, None, e) /\ extraction.stage = "findService"
      /\ UNCHANGED <<row, handler, Histories>>
  BY DEF FindService, Stage
<1> HIDE DEF e
<1>4. KindOf(e) = Service /\ ParentOf(e) = None /\ Writing(e)
  BY <1>2 DEF KindOf, ParentOf, Writing, WriteStages
<1> DEFINE f == [e EXCEPT !.found = None]
<1>5. /\ f \in ExtractionRow /\ f.stage = "writeService" /\ f.todo = extraction.todo
      /\ f.entry = extraction.entry /\ f.found = None
  BY <1>2 DEF ExtractionRow
<1> HIDE DEF f
<1>6. Staged(f)
  BY <1>1, <1>3, <1>5 DEF CatalogType, Staged, Writing, WriteStages
<1> QED BY <1>2, <1>3, <1>4, <1>6, LookUpKeeps DEF f

LEMMA FindItemKeeps ==
  ASSUME CatalogInv, FindItem
  PROVE CatalogInv'
<1>1. CatalogType
  BY DEF CatalogInv
<1>2. PICK item \in extraction.todo :
         LookUp(Item, extraction.service,
                [extraction EXCEPT !.stage = "writeItem", !.todo = @ \ {item},
                    !.entry = [name |-> item.name, price |-> item.price],
                    !.options = item.options])
  BY DEF FindItem
<1>3. extraction.stage = "findItem" /\ UNCHANGED <<row, handler, Histories>>
  BY DEF FindItem, Stage
<1>4. item \in ItemEntry /\ extraction.todo \subseteq ItemEntry /\ extraction.service \in Service
  BY <1>1, <1>3 DEF CatalogType, Staged
<1> DEFINE e == [extraction EXCEPT !.stage = "writeItem", !.todo = @ \ {item},
                    !.entry = [name |-> item.name, price |-> item.price],
                    !.options = item.options]
<1>5. /\ e \in ExtractionRow /\ e.stage = "writeItem" /\ e.todo = extraction.todo \ {item}
      /\ e.entry.name = item.name /\ e.service = extraction.service
  BY <1>1, <1>4 DEF CatalogType, ExtractionRow, ExtractionStage, ItemEntry
<1>6. LookUp(Item, extraction.service, e)
  BY <1>2
<1> HIDE DEF e
<1>7. KindOf(e) = Item /\ ParentOf(e) = extraction.service /\ Writing(e)
  BY <1>5 DEF KindOf, ParentOf, Writing, WriteStages
<1> DEFINE f == [e EXCEPT !.found = None]
<1>8. /\ f \in ExtractionRow /\ f.stage = "writeItem" /\ f.todo = extraction.todo \ {item}
      /\ f.entry = e.entry /\ f.found = None /\ f.service = extraction.service
  BY <1>5 DEF ExtractionRow
<1> HIDE DEF f
<1>9. Staged(f)
  BY <1>4, <1>5, <1>8 DEF Staged, Writing, WriteStages, ItemEntry
<1> QED BY <1>3, <1>5, <1>6, <1>7, <1>9, LookUpKeeps DEF f

LEMMA FindOptionKeeps ==
  ASSUME CatalogInv, FindOption
  PROVE CatalogInv'
<1>1. CatalogType
  BY DEF CatalogInv
<1>2. PICK option \in extraction.options :
         LookUp(Option, extraction.item,
                [extraction EXCEPT !.stage = "writeOption", !.options = @ \ {option},
                                   !.entry = option])
  BY DEF FindOption
<1>3. extraction.stage = "findOption" /\ UNCHANGED <<row, handler, Histories>>
  BY DEF FindOption, Stage
<1>4. /\ extraction.todo \subseteq ItemEntry /\ extraction.service \in Service
      /\ extraction.item \in Item
  BY <1>1, <1>3 DEF CatalogType, Staged
<1>5. option \in OptionEntry
  BY <1>1 DEF CatalogType, ExtractionRow
<1> DEFINE e == [extraction EXCEPT !.stage = "writeOption", !.options = @ \ {option},
                                   !.entry = option]
<1>6. /\ e \in ExtractionRow /\ e.stage = "writeOption" /\ e.todo = extraction.todo
      /\ e.entry = option /\ e.service = extraction.service /\ e.item = extraction.item
  BY <1>1, <1>5 DEF CatalogType, ExtractionRow, ExtractionStage, OptionEntry
<1>7. LookUp(Option, extraction.item, e)
  BY <1>2
<1> HIDE DEF e
<1>8. KindOf(e) = Option /\ ParentOf(e) = extraction.item /\ Writing(e)
  BY <1>6 DEF KindOf, ParentOf, Writing, WriteStages
<1> DEFINE f == [e EXCEPT !.found = None]
<1>9. /\ f \in ExtractionRow /\ f.stage = "writeOption" /\ f.todo = extraction.todo
      /\ f.entry = option /\ f.found = None /\ f.service = extraction.service
      /\ f.item = extraction.item
  BY <1>6 DEF ExtractionRow
<1> HIDE DEF f
<1>10. Staged(f)
  BY <1>4, <1>5, <1>9 DEF Staged, Writing, WriteStages, OptionEntry
<1> QED BY <1>3, <1>6, <1>7, <1>8, <1>10, LookUpKeeps DEF f

LEMMA FlatFindKeeps ==
  ASSUME CatalogInv, FlatFind
  PROVE CatalogInv'
<1>1. CatalogType
  BY DEF CatalogInv
<1>2. PICK given \in extraction.todo :
         LookUp(Service, None, [extraction EXCEPT !.stage = "flatWrite", !.todo = @ \ {given},
                                                  !.entry = given])
  BY DEF FlatFind
<1>3. extraction.stage = "flatFind" /\ UNCHANGED <<row, handler, Histories>>
  BY DEF FlatFind, Stage
<1>4. extraction.todo \subseteq FlatEntry /\ given \in FlatEntry
  BY <1>1, <1>3 DEF CatalogType, Staged
<1> DEFINE e == [extraction EXCEPT !.stage = "flatWrite", !.todo = @ \ {given},
                                                  !.entry = given]
<1>5. /\ e \in ExtractionRow /\ e.stage = "flatWrite" /\ e.todo = extraction.todo \ {given}
      /\ e.entry = given
  BY <1>1, <1>4 DEF CatalogType, ExtractionRow, ExtractionStage, FlatEntry, NormalPrice, StoredPrice
<1>6. LookUp(Service, None, e)
  BY <1>2
<1> HIDE DEF e
<1>7. KindOf(e) = Service /\ ParentOf(e) = None /\ Writing(e)
  BY <1>5 DEF KindOf, ParentOf, Writing, WriteStages
<1> DEFINE f == [e EXCEPT !.found = None]
<1>8. /\ f \in ExtractionRow /\ f.stage = "flatWrite" /\ f.todo = extraction.todo \ {given}
      /\ f.entry = given /\ f.found = None
  BY <1>5 DEF ExtractionRow
<1> HIDE DEF f
<1>9. Staged(f)
  BY <1>4, <1>8 DEF Staged, Writing, WriteStages, FlatEntry
<1> QED BY <1>3, <1>5, <1>6, <1>7, <1>9, LookUpKeeps DEF f

LEMMA CatalogBeginKeeps ==
  ASSUME CatalogInv, NEW k \in Source, NEW c \in Catalogs, CatalogBegin(k, c)
  PROVE CatalogInv'
<1> DEFINE q == Quiet
           n == NoEntry
<1>1. q \in ExtractionRow /\ n \in [name : Name \cup {None}, price : NormalPrice]
  BY QuietType DEF NoEntry, NormalPrice
<1>2. /\ extraction' = [q EXCEPT !.stage = "findService", !.source = k,
                                   !.todo = Normalized(c.items),
                                   !.entry = [n EXCEPT !.name = c.service]]
      /\ UNCHANGED <<row, handler, Histories>>
  BY DEF CatalogBegin
<1>3. Normalized(c.items) \subseteq ItemEntry /\ c.service \in Name
  BY NormalizedType
<1> HIDE DEF q, n
<1> DEFINE d == [n EXCEPT !.name = c.service]
<1>4. d \in [name : Name \cup {None}, price : NormalPrice] /\ d.name = c.service
  BY <1>1, <1>3
<1> HIDE DEF d
<1>5. extraction' = [q EXCEPT !.stage = "findService", !.source = k,
                                   !.todo = Normalized(c.items), !.entry = d]
  BY <1>2 DEF d
<1>6. /\ extraction' \in ExtractionRow /\ extraction'.stage = "findService"
      /\ extraction'.todo \subseteq ItemEntry /\ extraction'.entry.name \in Name
  BY <1>1, <1>3, <1>4, <1>5 DEF ExtractionRow, ExtractionStage
<1>7. Reading(extraction')
  BY <1>6 DEF Reading, Staged, Writing, WriteStages
<1> QED BY <1>2, <1>7, ReadingStep

LEMMA FlatBeginKeeps ==
  ASSUME CatalogInv, NEW k \in Source, NEW list \in Lists, FlatBegin(k, list)
  PROVE CatalogInv'
<1> DEFINE q == Quiet
           names == {e.name : e \in list}
<1>1. q \in ExtractionRow
  BY QuietType
<1>2. list \subseteq FlatEntry
  BY ExtractedAssumption DEF FlatEntry, StoredPrice
<1>3. names \subseteq Name
  BY <1>2 DEF FlatEntry
<1>4. /\ extraction' = AfterFlat([q EXCEPT !.source = k, !.todo = list, !.names = names])
      /\ UNCHANGED <<row, handler, Histories>>
  BY DEF FlatBegin
<1> HIDE DEF q, names
<1> DEFINE e == [q EXCEPT !.source = k, !.todo = list, !.names = names]
<1>5. e \in ExtractionRow /\ e.todo = list
  BY <1>1, <1>2, <1>3 DEF ExtractionRow
<1> HIDE DEF e
<1>6. Reading(AfterFlat(e))
  BY <1>2, <1>5, AfterFlatType
<1> QED BY <1>4, <1>6, ReadingStep DEF e

LEMMA ListStaleKeeps ==
  ASSUME CatalogInv, ListStale
  PROVE CatalogInv'
<1> DEFINE stale == {s \in Service : Live(s) /\ row[s].source = extraction.source
                          /\ row[s].name \notin extraction.names}
           e == [extraction EXCEPT !.stale = stale]
<1>1. e \in ExtractionRow
  BY DEF CatalogInv, CatalogType, ExtractionRow
<1>2. extraction' = AfterStale(e) /\ UNCHANGED <<row, handler, Histories>>
  BY DEF ListStale
<1> HIDE DEF e
<1> QED BY <1>1, <1>2, AfterStaleType, ReadingStep

LEMMA ExtractionFailsKeeps ==
  ASSUME CatalogInv, ExtractionFails
  PROVE CatalogInv'
<1>1. UNCHANGED <<row, handler, Histories>>
  BY DEF ExtractionFails
<1>2. extraction \in ExtractionRow /\ Staged(extraction)
  BY DEF CatalogInv, CatalogType
<1>3. CASE extraction' = Quiet
  BY <1>1, <1>3, QuietType, ReadingStep DEF Reading
<1>4. CASE Stage("flatWrite") /\ extraction' = AfterFlat(extraction)
  <2>1. extraction.todo \subseteq FlatEntry
    BY <1>2, <1>4 DEF Stage, Staged
  <2> QED BY <1>1, <1>2, <1>4, <2>1, AfterFlatType, ReadingStep
<1>5. ASSUME Stage("flatFind"), NEW given \in extraction.todo,
             extraction' = AfterFlat([extraction EXCEPT !.todo = @ \ {given}])
      PROVE CatalogInv'
  <2> DEFINE e == [extraction EXCEPT !.todo = @ \ {given}]
  <2>1. extraction.todo \subseteq FlatEntry
    BY <1>2, <1>5 DEF Stage, Staged
  <2>2. e \in ExtractionRow /\ e.todo \subseteq FlatEntry
    BY <1>2, <2>1 DEF ExtractionRow
  <2>3. extraction' = AfterFlat(e)
    BY <1>5
  <2> HIDE DEF e
  <2> QED BY <1>1, <2>2, <2>3, AfterFlatType, ReadingStep
<1> QED BY <1>3, <1>4, <1>5 DEF ExtractionFails

-----------------------------------------------------------------------------
(* Writing a row *)

\* Where a row may be put: where it was, or, if it is new, below a live row.
Placed(r, x) ==
    \/ row[r].life = "live" /\ x.parent = row[r].parent
    \/ /\ row[r].life = "new"
       /\ r \in Service => x.parent = None
       /\ r \in Item => x.parent \in Service /\ Live(x.parent)
       /\ r \in Option => x.parent \in Item /\ Live(x.parent)

\* What is still to be reached under a service only shrinks, and the handlers
\* at work on it wait.
LEMMA WholeKeeps ==
  ASSUME NEW s, WholeAt(s),
         Live(s)' /\ row'[s].approval = "approved" =>
           /\ Live(s) /\ row[s].approval = "approved"
           /\ \A q \in Rest(s)' : q \in Rest(s) /\ row'[q].parent = row[q].parent
           /\ \A w \in Worker : Reaches(w, s) => handler'[w] = handler[w] \/ Rest(s)' = {}
  PROVE WholeAt(s)'
<1> SUFFICES ASSUME Live(s)', row'[s].approval = "approved", Rest(s)' # {}
             PROVE (\E w \in Worker : Reaches(w, s))'
  BY DEF WholeAt
<1>1. /\ Live(s) /\ row[s].approval = "approved"
      /\ \A q \in Rest(s)' : q \in Rest(s) /\ row'[q].parent = row[q].parent
      /\ \A w \in Worker : Reaches(w, s) => handler'[w] = handler[w]
  OBVIOUS
<1>2. PICK w \in Worker : Reaches(w, s)
  BY <1>1 DEF WholeAt
<1>3. handler'[w] = handler[w]
  BY <1>1, <1>2
<1>4. CASE handler[w].stage \in {"check", "items"}
  BY <1>2, <1>3, <1>4 DEF Reaches
<1>5. CASE handler[w].stage = "options" /\ Rest(s) \subseteq OptionsOf(handler[w].items)
  <2>1. ASSUME NEW q \in Rest(s)'
        PROVE q \in OptionsOf(handler[w].items)'
    <3>1. q \in OptionsOf(handler[w].items) /\ row'[q].parent = row[q].parent
      BY <1>1, <1>5
    <3>2. Live(q)'
      BY DEF Rest, Pending, Below, ItemsOf, OptionsOf
    <3> QED BY <3>1, <3>2, <1>3 DEF OptionsOf
  <2>2. Rest(s)' \subseteq OptionsOf(handler[w].items)'
    BY <2>1
  <2> QED BY <2>2, <1>2, <1>3, <1>5 DEF Reaches
<1> QED BY <1>2, <1>4, <1>5 DEF Reaches

\* A member of Rest, by its row.
RestOf(q, s) ==
    /\ Live(q) /\ row[q].approval = "pending" /\ q \notin excused
    /\ \/ q \in Item /\ row[q].parent = s
       \/ /\ q \in Option /\ row[q].parent \in Item
          /\ Live(row[q].parent) /\ row[row[q].parent].parent = s

LEMMA RestRow ==
  ASSUME NEW s, NEW q
  PROVE /\ q \in Rest(s) <=> RestOf(q, s)
        /\ q \in Rest(s)' <=> RestOf(q, s)'
  BY DEF Rest, RestOf, Pending, Below, ItemsOf, OptionsOf

LEMMA PutRow ==
  ASSUME CatalogType, NEW r \in Id, NEW x \in Row, row' = [row EXCEPT ![r] = x], x.life = "live"
  PROVE /\ row' \in [Id -> Row] /\ row'[r] = x
        /\ \A q \in Id : q # r => row'[q] = row[q]
        /\ \A q \in Id : q # r => Live(q)' = Live(q)
        /\ \A q \in Id : Live(q) => Live(q)'
        /\ Live(r)'
<1>1. row \in [Id -> Row] /\ None \notin Id
  BY KindsAssumption DEF CatalogType
<1>2. row' \in [Id -> Row] /\ row'[r] = x /\ \A q \in Id : q # r => row'[q] = row[q]
  BY <1>1
<1> QED BY <1>1, <1>2 DEF Live

LEMMA PutOwned ==
  ASSUME CatalogType, Owned, NEW r \in Id, NEW x \in Row, row' = [row EXCEPT ![r] = x],
         x.life = "live", Placed(r, x)
  PROVE Owned'
<1>1. /\ row'[r] = x
      /\ \A q \in Id : q # r => row'[q] = row[q]
      /\ \A q \in Id : q # r => Live(q)' = Live(q)
      /\ \A q \in Id : Live(q) => Live(q)'
  BY PutRow
<1>2. None \notin Id /\ Service \subseteq Id /\ Item \subseteq Id /\ Option \subseteq Id
  BY KindsAssumption DEF Id
<1>3. Live(r) <=> row[r].life = "live"
  BY <1>2 DEF Live
<1>4. /\ r \in Service => x.parent = None
      /\ r \in Item => x.parent \in Service /\ Live(x.parent)
      /\ r \in Option => x.parent \in Item /\ Live(x.parent)
  BY <1>3 DEF Placed, Owned
<1>5. ASSUME NEW s \in Service, Live(s)'
      PROVE row'[s].parent = None
  BY <1>1, <1>2, <1>4, <1>5 DEF Owned
<1>6. ASSUME NEW i \in Item, Live(i)'
      PROVE (row[i].parent \in Service /\ Live(row[i].parent))'
  <2>1. row'[i].parent \in Service /\ Live(row'[i].parent)
    BY <1>1, <1>2, <1>4, <1>6 DEF Owned
  <2> QED BY <2>1, <1>1, <1>2 DEF Live
<1>7. ASSUME NEW o \in Option, Live(o)'
      PROVE (row[o].parent \in Item /\ Live(row[o].parent))'
  <2>1. row'[o].parent \in Item /\ Live(row'[o].parent)
    BY <1>1, <1>2, <1>4, <1>7 DEF Owned
  <2> QED BY <2>1, <1>1, <1>2 DEF Live
<1> QED BY <1>5, <1>6, <1>7 DEF Owned

\* What the histories keep of a write by an extraction.
LEMMA RecordsStep ==
  ASSUME CatalogType, NEW r \in Id, NEW x \in Row, row' = [row EXCEPT ![r] = x], Records(r)
  PROVE /\ raced \subseteq raced' /\ raced' \subseteq raced \cup {r}
        /\ extraction.overtaken => r \in raced'
        /\ excused \subseteq excused' /\ excused' \subseteq excused \cup {r}
        /\ accepted' \in [Id -> StoredPrice]
        /\ \A q \in Id : q # r => accepted'[q] = accepted[q]
        /\ row[r].price = Missing \/ ~Quoted(x) => accepted'[r] = x.price
        /\ ~(row[r].price = Missing \/ ~Quoted(x)) => accepted'[r] = accepted[r]
        /\ decided' = decided /\ doubled' = doubled
<1>1. row'[r] = x
  BY DEF CatalogType
<1>2. accepted \in [Id -> StoredPrice] /\ x.price \in StoredPrice
  BY DEF CatalogType, HistoryType, Row, StoredPrice
<1>3. accepted' = IF row[r].price = Missing \/ ~Quoted(row'[r])
                  THEN [accepted EXCEPT ![r] = row'[r].price] ELSE accepted
  BY DEF Records
<1>4. /\ accepted' \in [Id -> StoredPrice]
      /\ \A q \in Id : q # r => accepted'[q] = accepted[q]
      /\ row[r].price = Missing \/ ~Quoted(x) => accepted'[r] = x.price
      /\ ~(row[r].price = Missing \/ ~Quoted(x)) => accepted'[r] = accepted[r]
  <2>1. CASE row[r].price = Missing \/ ~Quoted(x)
    <3>1. accepted' = [accepted EXCEPT ![r] = row'[r].price]
      BY <1>1, <1>3, <2>1
    <3> QED BY <3>1, <1>1, <1>2, <2>1
  <2>2. CASE ~(row[r].price = Missing \/ ~Quoted(x))
    <3>1. accepted' = accepted
      BY <1>1, <1>3, <2>2
    <3> QED BY <3>1, <1>2, <2>2
  <2> QED BY <2>1, <2>2
<1>5. /\ raced \subseteq raced' /\ raced' \subseteq raced \cup {r}
      /\ extraction.overtaken => r \in raced'
  BY DEF Records
<1>6. excused \subseteq excused' /\ excused' \subseteq excused \cup {r}
  BY DEF Records
<1> QED BY <1>4, <1>5, <1>6 DEF Records

LEMMA PutHistories ==
  ASSUME CatalogType, Unused, NEW r \in Id, NEW x \in Row, row' = [row EXCEPT ![r] = x],
         x.life = "live", Records(r)
  PROVE HistoryType' /\ Unused'
<1>1. /\ row'[r] = x /\ \A q \in Id : q # r => row'[q] = row[q]
  BY PutRow
<1>2. /\ raced' \subseteq raced \cup {r} /\ excused' \subseteq excused \cup {r}
      /\ accepted' \in [Id -> StoredPrice]
      /\ decided' = decided /\ doubled' = doubled
  BY RecordsStep
<1>3. HistoryType'
  BY <1>2 DEF CatalogType, HistoryType
<1>4. Unused'
  BY <1>1, <1>2 DEF Unused
<1> QED BY <1>3, <1>4

LEMMA PutPriced ==
  ASSUME CatalogType, Priced, NEW r \in Id, NEW x \in Row, row' = [row EXCEPT ![r] = x],
         x.life = "live", Records(r),
         ~extraction.overtaken /\ Quoted(x) /\ row[r].price # Missing =>
             Live(r) /\ Quoted(row[r]) /\ x.price = row[r].price
  PROVE Priced'
<1>1. /\ row'[r] = x /\ \A q \in Id : q # r => row'[q] = row[q]
      /\ \A q \in Id : q # r => Live(q)' = Live(q)
  BY PutRow
<1>2. /\ raced \subseteq raced' /\ (extraction.overtaken => r \in raced')
      /\ \A q \in Id : q # r => accepted'[q] = accepted[q]
      /\ row[r].price = Missing \/ ~Quoted(x) => accepted'[r] = x.price
      /\ ~(row[r].price = Missing \/ ~Quoted(x)) => accepted'[r] = accepted[r]
  BY RecordsStep
<1> SUFFICES ASSUME NEW q \in Id, q \notin raced', Live(q)', Quoted(row'[q])
             PROVE row'[q].price = accepted'[q]
  BY DEF Priced, Quoted
<1>3. CASE q # r
  BY <1>1, <1>2, <1>3 DEF Priced
<1>4. CASE q = r
  <2>1. r \notin raced /\ ~extraction.overtaken /\ Quoted(x)
    BY <1>1, <1>2, <1>4
  <2>2. CASE row[r].price = Missing
    BY <2>2, <1>1, <1>2, <1>4
  <2>3. CASE row[r].price # Missing
    BY <2>1, <2>3, <1>1, <1>2, <1>4 DEF Priced
  <2> QED BY <2>2, <2>3
<1> QED BY <1>3, <1>4

LEMMA PutDecisions ==
  ASSUME CatalogType, Unused, DecisionsStand, NEW r \in Id, NEW x \in Row,
         row' = [row EXCEPT ![r] = x], x.life = "live", Records(r),
         ~extraction.overtaken => row[r].life = "new" \/ (Live(r) /\ x.approval = row[r].approval)
  PROVE DecisionsStand'
<1>1. /\ row'[r] = x /\ \A q \in Id : q # r => row'[q] = row[q]
      /\ \A q \in Id : q # r => Live(q)' = Live(q)
  BY PutRow
<1>2. /\ raced \subseteq raced' /\ (extraction.overtaken => r \in raced')
      /\ decided' = decided
  BY RecordsStep
<1> SUFFICES ASSUME NEW q \in Id, q \notin raced', Live(q)', decided[q] # "none"
             PROVE row'[q].approval = decided[q]
  BY <1>2 DEF DecisionsStand
<1>3. CASE q # r
  BY <1>1, <1>2, <1>3 DEF DecisionsStand
<1>4. CASE q = r
  BY <1>1, <1>2, <1>4 DEF DecisionsStand, Unused
<1> QED BY <1>3, <1>4

\* A row that keeps its name keeps its namesakes, and the name that an
\* extraction gives it is that of no other row but those of the administrator.
LEMMA PutInserted ==
  ASSUME CatalogType, InsertedOnce, NEW r \in Id, NEW x \in Row,
         row' = [row EXCEPT ![r] = x], x.life = "live", Records(r), Placed(r, x),
         \/ Live(r) /\ x.name = row[r].name
         \/ \A q \in Id \ {r} : Alike(row', r, q) => r \in doubled \/ q \in doubled
  PROVE InsertedOnce'
<1>1. /\ row'[r] = x /\ \A q \in Id : q # r => row'[q] = row[q]
  BY PutRow
<1>2. doubled' = doubled
  BY RecordsStep
<1> SUFFICES ASSUME NEW p \in Id \ doubled, NEW q \in Id \ doubled, Alike(row', p, q), p # q
             PROVE FALSE
  BY <1>2 DEF InsertedOnce
<1>3. Alike(row', q, p)
  BY DEF Alike
<1>4. CASE p # r /\ q # r
  BY <1>1, <1>4 DEF InsertedOnce, Alike
<1>5. CASE Live(r) /\ x.name = row[r].name
  <2>1. x.parent = row[r].parent /\ row[r].life = "live"
    BY <1>5 DEF Placed, Live
  <2>2. Alike(row, p, q)
    BY <1>1, <1>5, <2>1 DEF Alike
  <2> QED BY <2>2 DEF InsertedOnce
<1>6. CASE \A t \in Id \ {r} : Alike(row', r, t) => r \in doubled \/ t \in doubled
  BY <1>3, <1>4, <1>6
<1> QED BY <1>5, <1>6

LEMMA PutWhole ==
  ASSUME CatalogType, Owned, Whole, NEW r \in Id, NEW x \in Row, row' = [row EXCEPT ![r] = x],
         x.life = "live", Records(r), Placed(r, x), UNCHANGED handler,
         r \in Service /\ x.approval = "approved" => Live(r) /\ row[r].approval = "approved"
  PROVE Whole'
<1>1. /\ row'[r] = x /\ \A q \in Id : q # r => row'[q] = row[q]
      /\ \A q \in Id : q # r => Live(q)' = Live(q)
  BY PutRow
<1>2. /\ excused \subseteq excused'
      /\ row'[r].approval = "pending" /\ row'[Top(row', r)].approval = "approved" => r \in excused'
  BY DEF Records
<1>3. Service \subseteq Id /\ Item \subseteq Id /\ Option \subseteq Id
  BY DEF Id
<1> SUFFICES ASSUME NEW s \in Service PROVE WholeAt(s)'
  BY DEF Whole
<1>4. WholeAt(s)
  BY DEF Whole
<1> SUFFICES ASSUME Live(s)', row'[s].approval = "approved"
             PROVE /\ Live(s) /\ row[s].approval = "approved"
                   /\ \A q \in Rest(s)' : q \in Rest(s) /\ row'[q].parent = row[q].parent
  BY <1>4, WholeKeeps
<1>5. Live(s) /\ row[s].approval = "approved"
  BY <1>1, <1>3
<1>6. ASSUME NEW q \in Rest(s)' PROVE q \in Rest(s) /\ row'[q].parent = row[q].parent
  <2>1. RestOf(q, s)'
    BY RestRow
  <2>2. q # r
    <3> SUFFICES ASSUME q = r PROVE FALSE
      OBVIOUS
    <3>1. Top(row', r) = s
      BY <2>1, KindsAssumption DEF RestOf, Top
    <3> QED BY <3>1, <2>1, <1>2 DEF RestOf
  <2>3. q \in Id /\ row'[q] = row[q] /\ Live(q) /\ q \notin excused
    BY <2>1, <2>2, <1>1, <1>2, <1>3 DEF RestOf
  <2>4. CASE q \in Item /\ row'[q].parent = s
    BY <2>1, <2>3, <2>4, RestRow DEF RestOf
  <2>5. CASE q \in Option /\ (row[q].parent \in Item /\ Live(row[q].parent)
                              /\ row[row[q].parent].parent = s)'
    <3>1. row[q].parent \in Item /\ Live(row[q].parent)
      BY <2>3, <2>5 DEF Owned
    <3>2. row[row[q].parent].parent = s
      BY <3>1, <2>3, <2>5, <1>1, <1>3 DEF Placed, Live
    <3> QED BY <2>1, <2>3, <2>5, <3>1, <3>2, RestRow DEF RestOf
  <2> QED BY <2>1, <2>4, <2>5 DEF RestOf
<1> QED BY <1>5, <1>6

\* A write of an extraction keeps the invariant: unless it was overtaken it
\* keeps what is approved and what a customer is quoted, it approves no service,
\* and the name it gives is no other row's, but by the administrator.
LEMMA PutKeeps ==
  ASSUME CatalogInv, NEW r \in Id, NEW x \in Row, row' = [row EXCEPT ![r] = x],
         x.life = "live", Records(r), Placed(r, x), UNCHANGED handler, Reading(extraction'),
         ~extraction.overtaken /\ Quoted(x) /\ row[r].price # Missing =>
             Live(r) /\ Quoted(row[r]) /\ x.price = row[r].price,
         ~extraction.overtaken => row[r].life = "new" \/ (Live(r) /\ x.approval = row[r].approval),
         r \in Service /\ x.approval = "approved" => Live(r) /\ row[r].approval = "approved",
         \/ Live(r) /\ x.name = row[r].name
         \/ \A q \in Id \ {r} : Alike(row', r, q) => r \in doubled \/ q \in doubled
  PROVE CatalogInv'
<1>1. /\ CatalogType /\ Owned /\ Unused /\ Priced /\ DecisionsStand /\ InsertedOnce /\ Whole
  BY DEF CatalogInv
<1>2. row' \in [Id -> Row]
  BY <1>1, PutRow
<1>3. HistoryType' /\ Unused'
  BY <1>1, PutHistories
<1>4. CatalogType'
  BY <1>1, <1>2, <1>3 DEF CatalogType, Reading
<1>5. Owned'
  BY <1>1, PutOwned
<1>6. Priced'
  BY <1>1, PutPriced
<1>7. DecisionsStand'
  BY <1>1, PutDecisions
<1>8. InsertedOnce'
  BY <1>1, PutInserted
<1>9. Whole'
  BY <1>1, PutWhole
<1> QED BY <1>3, <1>4, <1>5, <1>6, <1>7, <1>8, <1>9, ReadingKeeps DEF CatalogInv

\* A step that changes no more than the mark of how far a row is synchronized.
LEMMA SyncKeeps ==
  ASSUME CatalogInv, NEW s \in Service, NEW mark \in {"synced", "stale"},
         row' = IF Live(s) THEN [row EXCEPT ![s].sync = mark] ELSE row,
         UNCHANGED <<handler, Histories>>, Reading(extraction')
  PROVE CatalogInv'
<1>1. /\ CatalogType /\ Owned /\ Unused /\ Priced /\ DecisionsStand /\ InsertedOnce /\ Whole
  BY DEF CatalogInv
<1>2. UNCHANGED <<handler, doubled, decided, accepted, raced, excused>>
  BY DEF Histories
<1>3. s \in Id /\ row \in [Id -> Row]
  BY <1>1 DEF Id, CatalogType
<1>4. /\ row' \in [Id -> Row]
      /\ \A q \in Id : /\ row'[q].life = row[q].life /\ row'[q].parent = row[q].parent
                       /\ row'[q].name = row[q].name /\ row'[q].approval = row[q].approval
                       /\ row'[q].shown = row[q].shown /\ row'[q].price = row[q].price
                       /\ row[q].life # "live" => row'[q] = row[q]
  <2>1. CASE Live(s)
    <3> DEFINE x == [row[s] EXCEPT !.sync = mark]
    <3>1. /\ x \in Row /\ x.life = row[s].life /\ x.parent = row[s].parent
          /\ x.name = row[s].name /\ x.approval = row[s].approval
          /\ x.shown = row[s].shown /\ x.price = row[s].price
      BY <1>3 DEF Row
    <3>2. row' = [row EXCEPT ![s] = x]
      BY <2>1
    <3> HIDE DEF x
    <3> QED BY <1>3, <2>1, <3>1, <3>2 DEF Live
  <2>2. CASE ~Live(s)
    BY <1>3, <2>2
  <2> QED BY <2>1, <2>2
<1>5. \A q \in Id : Live(q)' = Live(q)
  BY <1>4 DEF Live
<1>6. Service \subseteq Id /\ Item \subseteq Id /\ Option \subseteq Id
  BY DEF Id
<1>7. CatalogType'
  BY <1>1, <1>2, <1>4 DEF CatalogType, Reading, HistoryType
<1>8. Owned'
  BY <1>1, <1>4, <1>5, <1>6 DEF Owned, Live
<1>9. Unused'
  BY <1>1, <1>2, <1>4 DEF Unused
<1>10. Priced'
  BY <1>1, <1>2, <1>4, <1>5 DEF Priced, Quoted
<1>11. DecisionsStand'
  BY <1>1, <1>2, <1>4, <1>5 DEF DecisionsStand
<1>12. InsertedOnce'
  BY <1>1, <1>2, <1>4, <1>5 DEF InsertedOnce, Alike
<1>13. Whole'
  <2> SUFFICES ASSUME NEW t \in Service PROVE WholeAt(t)'
    BY DEF Whole
  <2>1. ASSUME NEW q \in Rest(t)' PROVE q \in Rest(t) /\ row'[q].parent = row[q].parent
    <3>1. RestOf(q, t)'
      BY RestRow
    <3>2. RestOf(q, t)
      BY <3>1, <1>2, <1>4, <1>5, <1>6 DEF RestOf, Live
    <3> QED BY <3>1, <3>2, <1>4, <1>6, RestRow DEF RestOf
  <2>2. Live(t)' = Live(t) /\ row'[t].approval = row[t].approval
    BY <1>4, <1>5, <1>6
  <2> QED BY <1>1, <1>2, <2>1, <2>2, WholeKeeps DEF Whole
<1> QED BY <1>7, <1>8, <1>9, <1>10, <1>11, <1>12, <1>13, ReadingKeeps DEF CatalogInv

IsNewRow(x, parent, price) ==
    /\ x \in Row /\ x.life = "live" /\ x.parent = parent /\ x.name = extraction.entry.name
    /\ x.approval = "pending" /\ x.shown = FALSE /\ x.price = price

LEMMA NewRowType ==
  ASSUME CatalogType, Writing(extraction), NEW parent \in Id \cup {None}, NEW price \in StoredPrice
  PROVE IsNewRow(NewRow(parent, price), parent, price)
<1> DEFINE n == NoRow
<1>1. n \in Row /\ n.approval = "pending" /\ n.shown = FALSE
  BY NoRowType DEF NoRow
<1>2. extraction.entry.name \in Name /\ extraction.source \in Source \cup {None}
  BY DEF CatalogType, Staged, ExtractionRow
<1> HIDE DEF n
<1> DEFINE x == [n EXCEPT !.life = "live", !.parent = parent, !.name = extraction.entry.name,
                  !.source = extraction.source, !.price = price]
<1>3. /\ x \in Row /\ x.life = "live" /\ x.parent = parent
      /\ x.name = extraction.entry.name /\ x.approval = "pending" /\ x.shown = FALSE
      /\ x.price = price
  BY <1>1, <1>2 DEF Row, StoredPrice
<1>4. NewRow(parent, price) = x
  BY DEF NewRow, n
<1> HIDE DEF x
<1> QED BY <1>3, <1>4 DEF IsNewRow

\* An insert of what the extraction did not find.
LEMMA InsertKeeps ==
  ASSUME CatalogInv, Writing(extraction), extraction.found = None, NEW r \in KindOf(extraction),
         NEW price \in StoredPrice, Insert(r, NewRow(ParentOf(extraction), price)), Records(r),
         KindOf(extraction) # Service => Live(ParentOf(extraction)),
         UNCHANGED handler, Reading(extraction')
  PROVE CatalogInv'
<1>1. CatalogType /\ Owned /\ FoundAlone
  BY DEF CatalogInv
<1> DEFINE parent == ParentOf(extraction)
           x == NewRow(parent, price)
<1> HIDE DEF parent, x
<1>2. r \in Id /\ parent \in Id \cup {None}
  BY <1>1 DEF parent, KindOf, ParentOf, CatalogType, ExtractionRow, Id
<1>3. /\ x \in Row /\ x.life = "live" /\ x.parent = parent
      /\ x.name = extraction.entry.name /\ x.approval = "pending" /\ x.shown = FALSE
      /\ x.price = price
  <2>1. IsNewRow(NewRow(parent, price), parent, price)
    BY <1>1, <1>2, NewRowType
  <2> QED BY <2>1 DEF x, IsNewRow
<1>4. row[r].life = "new" /\ row' = [row EXCEPT ![r] = x]
  BY DEF Insert, x, parent
<1>5. /\ r \in Service => parent = None
      /\ r \in Item => parent \in Service /\ Live(parent)
      /\ r \in Option => parent \in Item /\ Live(parent)
  <2>1. CASE extraction.stage \in {"writeService", "flatWrite"}
    BY <2>1, KindsAssumption DEF KindOf, ParentOf, parent
  <2>2. CASE extraction.stage = "writeItem"
    <3>1. KindOf(extraction) = Item /\ parent = extraction.service
      BY <2>2 DEF KindOf, ParentOf, parent
    <3>2. extraction.service \in Service /\ Item # Service
      BY <1>1, <2>2, <3>1, KindsAssumption DEF CatalogType, Staged
    <3> QED BY <3>1, <3>2, KindsAssumption DEF parent
  <2>3. CASE extraction.stage = "writeOption"
    <3>1. KindOf(extraction) = Option /\ parent = extraction.item
      BY <2>3 DEF KindOf, ParentOf, parent
    <3>2. extraction.item \in Item /\ Option # Service
      BY <1>1, <2>3, <3>1, KindsAssumption DEF CatalogType, Staged
    <3> QED BY <3>1, <3>2, KindsAssumption DEF parent
  <2> QED BY <2>1, <2>2, <2>3 DEF Writing, WriteStages
<1>6. Placed(r, x)
  BY <1>3, <1>4, <1>5 DEF Placed
<1>7. ~Quoted(x)
  BY <1>3 DEF Quoted
<1>8. ASSUME NEW q \in Id \ {r}, Alike(row', r, q)
      PROVE r \in doubled \/ q \in doubled
  <2>1. row'[r] = x /\ row'[q] = row[q]
    BY <1>1, <1>3, <1>4, <1>2 DEF CatalogType
  <2>2. /\ row[q].life = "live" /\ row[q].parent = parent /\ row[q].name = extraction.entry.name
        /\ r \in Service <=> q \in Service
    BY <1>3, <2>1, <1>8 DEF Alike
  <2>3. q \in KindOf(extraction)
    <3>1. Live(q)
      BY <2>2, KindsAssumption DEF Live
    <3> QED BY <1>1, <1>5, <2>2, <3>1, KindsAssumption DEF KindOf, Id, Owned
  <2>4. Sought(extraction, q)
    BY <2>2 DEF Sought, parent
  <2>5. None \notin doubled /\ q # None
    BY <1>1, KindsAssumption DEF CatalogType, HistoryType
  <2> QED BY <1>1, <2>3, <2>4, <2>5 DEF FoundAlone
<1>9. /\ ~extraction.overtaken /\ Quoted(x) /\ row[r].price # Missing =>
           Live(r) /\ Quoted(row[r]) /\ x.price = row[r].price
      /\ ~extraction.overtaken => row[r].life = "new" \/ (Live(r) /\ x.approval = row[r].approval)
      /\ r \in Service /\ x.approval = "approved" => Live(r) /\ row[r].approval = "approved"
  <2>1. /\ ~extraction.overtaken /\ Quoted(x) /\ row[r].price # Missing =>
           Live(r) /\ Quoted(row[r]) /\ x.price = row[r].price
    BY <1>3, <1>4, <1>7
  <2>2. ~extraction.overtaken => row[r].life = "new" \/ (Live(r) /\ x.approval = row[r].approval)
    BY <1>3, <1>4, <1>7
  <2>3. r \in Service /\ x.approval = "approved" => Live(r) /\ row[r].approval = "approved"
    BY <1>3, <1>4, <1>7
  <2> QED BY <2>1, <2>2, <2>3
<1> QED BY <1>2, <1>3, <1>4, <1>6, <1>8, <1>9, PutKeeps

LEMMA WriteServiceKeeps ==
  ASSUME CatalogInv, WriteService
  PROVE CatalogInv'
<1>1. CatalogType /\ extraction.stage = "writeService" /\ UNCHANGED handler
  BY DEF CatalogInv, WriteService, Stage
<1>2. PICK s \in Service :
         /\ \/ /\ extraction.found = None
               /\ Insert(s, NewRow(None, Missing)) /\ Records(s)
            \/ /\ extraction.found = s
               /\ row' = IF Live(s) THEN [row EXCEPT ![s].sync = "synced"] ELSE row
               /\ RecordsNothing
         /\ extraction' = [Forget(extraction) EXCEPT !.stage = "findItem", !.service = s]
  BY DEF WriteService
<1>3. Reading(extraction')
  <2> DEFINE f == Forget(extraction)
  <2>1. f \in ExtractionRow /\ f.todo = extraction.todo
    BY <1>1, ForgetType DEF CatalogType
  <2>2. extraction.todo \subseteq ItemEntry
    BY <1>1 DEF CatalogType, Staged
  <2>3. extraction' = [f EXCEPT !.stage = "findItem", !.service = s]
    BY <1>2
  <2> HIDE DEF f
  <2>4. /\ extraction' \in ExtractionRow /\ extraction'.stage = "findItem"
        /\ extraction'.todo \subseteq ItemEntry /\ extraction'.service = s
    BY <2>1, <2>2, <2>3 DEF ExtractionRow, ExtractionStage
  <2> QED BY <2>4 DEF Reading, Staged, Writing, WriteStages
<1>4. KindOf(extraction) = Service /\ ParentOf(extraction) = None /\ Writing(extraction)
  BY <1>1 DEF KindOf, ParentOf, Writing, WriteStages
<1>5. CASE extraction.found = None /\ Insert(s, NewRow(None, Missing)) /\ Records(s)
  BY <1>1, <1>3, <1>4, <1>5, InsertKeeps DEF StoredPrice
<1>6. CASE /\ row' = IF Live(s) THEN [row EXCEPT ![s].sync = "synced"] ELSE row
           /\ RecordsNothing
  BY <1>1, <1>3, <1>6, SyncKeeps DEF RecordsNothing
<1> QED BY <1>2, <1>5, <1>6

LEMMA MarkStaleKeeps ==
  ASSUME CatalogInv, MarkStale
  PROVE CatalogInv'
<1>1. CatalogType /\ UNCHANGED <<handler, Histories>>
  BY DEF CatalogInv, MarkStale
<1>2. PICK s \in extraction.stale :
         /\ row' = IF Live(s) THEN [row EXCEPT ![s].sync = "stale"] ELSE row
         /\ extraction' = AfterStale([extraction EXCEPT !.stale = @ \ {s}])
  BY DEF MarkStale
<1>3. s \in Service
  BY <1>1 DEF CatalogType, ExtractionRow
<1> DEFINE e == [extraction EXCEPT !.stale = @ \ {s}]
<1>4. e \in ExtractionRow
  BY <1>1 DEF CatalogType, ExtractionRow
<1>5. extraction' = AfterStale(e)
  BY <1>2
<1> HIDE DEF e
<1>6. Reading(extraction')
  BY <1>4, <1>5, AfterStaleType
<1> QED BY <1>1, <1>2, <1>3, <1>6, SyncKeeps

-----------------------------------------------------------------------------
(* What an update makes of a row *)

\* x may replace cur: it stays in its place, under its name or the one it was
\* looked up by, it is not newly approved, and, when
\* cur was still what was seen, it keeps the approval and what customers see.
Refreshes(x, cur, seen) ==
    /\ x \in Row /\ x.life = cur.life /\ x.parent = cur.parent
    /\ x.name \in {cur.name, extraction.entry.name}
    /\ x.approval = "approved" => cur.approval = "approved"
    /\ seen.approval = cur.approval /\ seen.shown = cur.shown /\ seen.price = cur.price =>
         /\ x.approval = cur.approval
         /\ Quoted(x) /\ cur.price # Missing => Quoted(cur) /\ x.price = cur.price

LEMMA UpdatedRefreshes ==
  ASSUME NEW cur \in Row, NEW seen \in SeenRow, NEW price \in StoredPrice,
         extraction.entry.name \in Name
  PROVE Refreshes(Updated(cur, seen, price), cur, seen)
<1> DEFINE a == [cur EXCEPT !.name = extraction.entry.name, !.price = price, !.shown = FALSE,
                            !.approval = seen.approval, !.sync = "synced", !.candidate = None]
           b == [cur EXCEPT !.price = price, !.sync = "synced"]
           c == [cur EXCEPT !.candidate = price, !.sync = "needs_review"]
           d == [cur EXCEPT !.sync = "synced"]
<1>1. CASE seen.approval # "approved" /\ ~seen.shown
  <2>1. /\ a \in Row /\ a.life = cur.life /\ a.parent = cur.parent
        /\ a.name = extraction.entry.name /\ a.approval = seen.approval /\ a.shown = FALSE
    BY DEF Row, SeenRow, StoredPrice
  <2>2. Updated(cur, seen, price) = a
    BY <1>1 DEF Updated
  <2> HIDE DEF a
  <2> QED BY <1>1, <2>1, <2>2 DEF Refreshes, Quoted
<1>2. CASE ~(seen.approval # "approved" /\ ~seen.shown) /\ seen.price = Missing /\ price # Missing
  <2>1. /\ b \in Row /\ b.life = cur.life /\ b.parent = cur.parent /\ b.name = cur.name
        /\ b.approval = cur.approval /\ b.shown = cur.shown
    BY DEF Row, SeenRow, StoredPrice
  <2>2. Updated(cur, seen, price) = b
    BY <1>2 DEF Updated
  <2> HIDE DEF b
  <2> QED BY <1>2, <2>1, <2>2 DEF Refreshes
<1>3. CASE /\ ~(seen.approval # "approved" /\ ~seen.shown) /\ ~(seen.price = Missing /\ price # Missing)
           /\ price \notin {Missing, seen.price}
  <2>1. /\ c \in Row /\ c.life = cur.life /\ c.parent = cur.parent /\ c.name = cur.name
        /\ c.approval = cur.approval /\ c.shown = cur.shown /\ c.price = cur.price
    BY DEF Row, SeenRow, StoredPrice
  <2>2. Updated(cur, seen, price) = c
    BY <1>3 DEF Updated
  <2> HIDE DEF c
  <2> QED BY <1>3, <2>1, <2>2 DEF Refreshes, Quoted
<1>4. CASE /\ ~(seen.approval # "approved" /\ ~seen.shown) /\ ~(seen.price = Missing /\ price # Missing)
           /\ price \in {Missing, seen.price}
  <2>1. /\ d \in Row /\ d.life = cur.life /\ d.parent = cur.parent /\ d.name = cur.name
        /\ d.approval = cur.approval /\ d.shown = cur.shown /\ d.price = cur.price
    BY DEF Row, SeenRow, StoredPrice
  <2>2. Updated(cur, seen, price) = d
    BY <1>4 DEF Updated
  <2> HIDE DEF d
  <2> QED BY <1>4, <2>1, <2>2 DEF Refreshes, Quoted
<1> QED BY <1>1, <1>2, <1>3, <1>4

LEMMA FlatUpdatedRefreshes ==
  ASSUME CatalogType, extraction.stage = "flatWrite", NEW cur \in Row, NEW seen \in SeenRow
  PROVE Refreshes(FlatUpdated(cur, seen), cur, seen)
<1>1. /\ extraction.entry.price \in StoredPrice /\ extraction.source \in Source \cup {None}
      /\ extraction.entry.name \in Name
  BY DEF CatalogType, Staged, ExtractionRow, Writing, WriteStages
<1> DEFINE a == [cur EXCEPT !.name = extraction.entry.name, !.price = extraction.entry.price,
                     !.source = extraction.source, !.approval = "pending", !.shown = FALSE,
                     !.sync = "synced", !.candidate = None]
           b == [cur EXCEPT !.candidate = extraction.entry.price, !.sync = "needs_review"]
<1>2. CASE seen.approval = "pending"
  <2>1. /\ a \in Row /\ a.life = cur.life /\ a.parent = cur.parent
        /\ a.name = extraction.entry.name /\ a.approval = "pending" /\ a.shown = FALSE
    BY <1>1 DEF Row, StoredPrice, Approval
  <2>2. FlatUpdated(cur, seen) = a
    BY <1>2 DEF FlatUpdated
  <2> HIDE DEF a
  <2> QED BY <1>2, <2>1, <2>2 DEF Refreshes, Quoted
<1>3. CASE seen.approval # "pending"
  <2>1. /\ b \in Row /\ b.life = cur.life /\ b.parent = cur.parent /\ b.name = cur.name
        /\ b.approval = cur.approval /\ b.shown = cur.shown /\ b.price = cur.price
    BY <1>1 DEF Row, StoredPrice
  <2>2. FlatUpdated(cur, seen) = b
    BY <1>3 DEF FlatUpdated
  <2> HIDE DEF b
  <2> QED BY <1>3, <2>1, <2>2 DEF Refreshes, Quoted
<1> QED BY <1>2, <1>3

LEMMA RefreshKeeps ==
  ASSUME CatalogInv, Writing(extraction), extraction.stage # "writeService",
         Live(extraction.found), NEW x, Refreshes(x, row[extraction.found], extraction.seen),
         row' = [row EXCEPT ![extraction.found] = x], Records(extraction.found),
         UNCHANGED handler, Reading(extraction')
  PROVE CatalogInv'
<1> DEFINE r == extraction.found
<1>1. CatalogType /\ SeenNow /\ FoundAlone
  BY DEF CatalogInv
<1>2. r \in Id /\ row[r].life = "live"
  BY <1>1 DEF Live, CatalogType, ExtractionRow
<1>3. ~extraction.overtaken => /\ extraction.seen.approval = row[r].approval
                               /\ extraction.seen.shown = row[r].shown
                               /\ extraction.seen.price = row[r].price
  BY <1>1 DEF SeenNow, Seen, Live
<1>4. Live(r) /\ Refreshes(x, row[r], extraction.seen) /\ row' = [row EXCEPT ![r] = x] /\ Records(r)
  OBVIOUS
<1>10. r = extraction.found
  OBVIOUS
<1> HIDE DEF r
<1>5. x \in Row /\ x.life = "live" /\ Placed(r, x)
  BY <1>2, <1>4 DEF Refreshes, Placed
<1>6. ~extraction.overtaken /\ Quoted(x) /\ row[r].price # Missing =>
             Live(r) /\ Quoted(row[r]) /\ x.price = row[r].price
  BY <1>3, <1>4 DEF Refreshes
<1>7. ~extraction.overtaken => row[r].life = "new" \/ (Live(r) /\ x.approval = row[r].approval)
  BY <1>3, <1>4 DEF Refreshes
<1>8. r \in Service /\ x.approval = "approved" => Live(r) /\ row[r].approval = "approved"
  BY <1>4 DEF Refreshes
<1>9. \/ Live(r) /\ x.name = row[r].name
      \/ \A q \in Id \ {r} : Alike(row', r, q) => r \in doubled \/ q \in doubled
  <2> SUFFICES ASSUME x.name = extraction.entry.name, NEW q \in Id \ {r}, Alike(row', r, q)
               PROVE r \in doubled \/ q \in doubled
    BY <1>4 DEF Refreshes
  <2>1. row'[r] = x /\ row'[q] = row[q]
    BY <1>1, <1>2, <1>4 DEF CatalogType
  <2>2. x.parent = row[r].parent /\ row[r].parent = ParentOf(extraction)
    BY <1>1, <1>4, <1>10 DEF Refreshes, FoundAlone
  <2>3. Sought(extraction, q) /\ (r \in Service <=> q \in Service)
    BY <2>1, <2>2 DEF Sought, Alike
  <2>4. q \in KindOf(extraction)
    <3>1. Live(q) /\ row[q].parent = ParentOf(extraction)
      BY <2>3, KindsAssumption DEF Live, Sought
    <3>2. r \in KindOf(extraction)
      BY <1>1, <1>2, <1>10, KindsAssumption DEF CatalogType, Staged
    <3>3. Owned /\ Live(r) /\ row[r].parent = row[q].parent
      BY <1>4, <2>2, <3>1 DEF CatalogInv
    <3>4. \/ r \in Service /\ q \in Service
          \/ r \in Item /\ q \in Item
          \/ r \in Option /\ q \in Option
      BY <1>2, <2>3, <3>1, <3>3, KindsAssumption DEF Id, Owned
    <3> QED BY <3>2, <3>4, KindsAssumption DEF KindOf
  <2> QED BY <1>1, <1>10, <2>3, <2>4 DEF FoundAlone
<1> QED BY <1>2, <1>4, <1>5, <1>6, <1>7, <1>8, <1>9, PutKeeps

LEMMA FlatWriteKeeps ==
  ASSUME CatalogInv, FlatWrite
  PROVE CatalogInv'
<1>1. CatalogType /\ extraction.stage = "flatWrite" /\ UNCHANGED handler
      /\ extraction' = AfterFlat(extraction)
  BY DEF CatalogInv, FlatWrite, Stage
<1>2. /\ extraction \in ExtractionRow /\ extraction.todo \subseteq FlatEntry
      /\ extraction.entry.price \in StoredPrice /\ row \in [Id -> Row]
  BY <1>1 DEF CatalogType, Staged
<1>3. Reading(extraction')
  BY <1>1, <1>2, AfterFlatType
<1>4. KindOf(extraction) = Service /\ ParentOf(extraction) = None /\ Writing(extraction)
  BY <1>1 DEF KindOf, ParentOf, Writing, WriteStages
<1>5. ASSUME extraction.found = None, NEW s \in Service,
             Insert(s, NewRow(None, extraction.entry.price)), Records(s)
      PROVE CatalogInv'
  BY <1>1, <1>2, <1>3, <1>4, <1>5, InsertKeeps
<1>6. CASE /\ Live(extraction.found)
           /\ row' = [row EXCEPT ![extraction.found] = FlatUpdated(@, extraction.seen)]
           /\ Records(extraction.found)
  <2> DEFINE cur == row[extraction.found]
             x == FlatUpdated(cur, extraction.seen)
  <2>1. cur \in Row /\ extraction.seen \in SeenRow
    BY <1>2, <1>6 DEF Live, ExtractionRow
  <2>2. Refreshes(x, cur, extraction.seen)
    BY <1>1, <2>1, FlatUpdatedRefreshes
  <2>3. row' = [row EXCEPT ![extraction.found] = x]
    BY <1>6
  <2> HIDE DEF x
  <2> QED BY <1>1, <1>3, <1>4, <1>6, <2>2, <2>3, RefreshKeeps
<1>7. CASE UNCHANGED row /\ RecordsNothing
  BY <1>1, <1>3, <1>7, ReadingStep DEF RecordsNothing
<1> QED BY <1>5, <1>6, <1>7 DEF FlatWrite

LEMMA UpsertKeeps ==
  ASSUME CatalogInv, extraction.stage \in {"writeItem", "writeOption"},
         Upsert(KindOf(extraction), ParentOf(extraction)), UNCHANGED handler
  PROVE CatalogInv'
<1>1. CatalogType
  BY DEF CatalogInv
<1>2. /\ extraction \in ExtractionRow /\ extraction.todo \subseteq ItemEntry
      /\ extraction.service \in Service /\ row \in [Id -> Row]
      /\ extraction.stage = "writeOption" => extraction.item \in Item
  BY <1>1 DEF CatalogType, Staged
<1> DEFINE kind == KindOf(extraction)
           parent == ParentOf(extraction)
           price == ToNullableInt(extraction.entry.price)
           next(r) == AfterRow([extraction EXCEPT !.item = IF kind = Item THEN r ELSE @])
<1>3. price \in StoredPrice
  BY <1>2, NullableStored DEF ExtractionRow
<1>4. Writing(extraction) /\ kind \in {Item, Option}
      /\ (extraction.stage = "writeItem" => kind = Item)
      /\ (extraction.stage = "writeOption" => kind = Option)
  BY DEF KindOf, Writing, WriteStages
<1>5. ASSUME NEW r \in kind PROVE Reading(next(r))
  <2> DEFINE item == IF kind = Item THEN r ELSE extraction.item
             e == [extraction EXCEPT !.item = item]
  <2>1. item \in Item
    BY <1>2, <1>4
  <2>2. /\ e \in ExtractionRow /\ e.todo \subseteq ItemEntry /\ e.service \in Service
        /\ e.item \in Item
    BY <1>2, <2>1 DEF ExtractionRow
  <2>3. next(r) = AfterRow(e)
    OBVIOUS
  <2> HIDE DEF e, next
  <2> QED BY <2>2, <2>3, AfterRowType
<1>6. \/ /\ extraction.found = None /\ Live(parent)
         /\ \E r \in kind : /\ Insert(r, NewRow(parent, price)) /\ Records(r)
                            /\ extraction' = next(r)
      \/ /\ extraction.found = None /\ ~Live(parent)
         /\ extraction' = Quiet
         /\ UNCHANGED row /\ RecordsNothing
      \/ /\ Live(extraction.found)
         /\ row' = [row EXCEPT ![extraction.found] = Updated(@, extraction.seen, price)]
         /\ Records(extraction.found)
         /\ extraction' = next(extraction.found)
      \/ /\ extraction.found # None /\ ~Live(extraction.found)
         /\ extraction' = next(extraction.found)
         /\ UNCHANGED row /\ RecordsNothing
  BY DEF Upsert
<1>7. extraction.found # None => extraction.found \in kind
  BY <1>1, <1>4 DEF CatalogType, Staged
<1> HIDE DEF next, price
<1>8. ASSUME extraction.found = None, Live(parent), NEW r \in kind,
             Insert(r, NewRow(parent, price)), Records(r), extraction' = next(r)
      PROVE CatalogInv'
  <2>1. Reading(extraction')
    BY <1>5, <1>8
  <2> QED BY <1>3, <1>4, <1>8, <2>1, InsertKeeps
<1>9. CASE extraction' = Quiet /\ UNCHANGED row /\ RecordsNothing
  BY <1>9, QuietType, ReadingStep DEF Reading, RecordsNothing
<1>10. CASE /\ Live(extraction.found)
            /\ row' = [row EXCEPT ![extraction.found] = Updated(@, extraction.seen, price)]
            /\ Records(extraction.found)
            /\ extraction' = next(extraction.found)
  <2> DEFINE cur == row[extraction.found]
             x == Updated(cur, extraction.seen, price)
  <2>1. cur \in Row /\ extraction.seen \in SeenRow
    BY <1>2, <1>10 DEF Live, ExtractionRow
  <2>2. Refreshes(x, cur, extraction.seen)
    <3>1. extraction.entry.name \in Name
      BY <1>1, <1>4 DEF CatalogType, Staged
    <3> QED BY <1>3, <2>1, <3>1, UpdatedRefreshes
  <2>3. row' = [row EXCEPT ![extraction.found] = x]
    BY <1>10
  <2>4. Reading(extraction')
    BY <1>5, <1>7, <1>10 DEF Live
  <2> HIDE DEF x
  <2> QED BY <1>4, <1>10, <2>2, <2>3, <2>4, RefreshKeeps
<1>11. CASE /\ extraction.found # None
            /\ extraction' = next(extraction.found)
            /\ UNCHANGED row /\ RecordsNothing
  BY <1>5, <1>7, <1>11, ReadingStep DEF RecordsNothing
<1> QED BY <1>6, <1>8, <1>9, <1>10, <1>11

LEMMA WriteItemKeeps ==
  ASSUME CatalogInv, WriteItem
  PROVE CatalogInv'
<1>1. extraction.stage = "writeItem" /\ Upsert(Item, extraction.service) /\ UNCHANGED handler
  BY DEF WriteItem, Stage
<1>2. KindOf(extraction) = Item /\ ParentOf(extraction) = extraction.service
  BY <1>1 DEF KindOf, ParentOf
<1> QED BY <1>1, <1>2, UpsertKeeps

LEMMA WriteOptionKeeps ==
  ASSUME CatalogInv, WriteOption
  PROVE CatalogInv'
<1>1. extraction.stage = "writeOption" /\ Upsert(Option, extraction.item) /\ UNCHANGED handler
  BY DEF WriteOption, Stage
<1>2. KindOf(extraction) = Option /\ ParentOf(extraction) = extraction.item
  BY <1>1 DEF KindOf, ParentOf
<1> QED BY <1>1, <1>2, UpsertKeeps

-----------------------------------------------------------------------------
(* The administrator's writes *)

\* What a write by the administrator changes.
LEMMA WritesStep ==
  ASSUME CatalogType, NEW rows \in SUBSET Id, NEW new, Writes(rows, new),
         \A r \in rows : new[r] \in Row
  PROVE /\ row' \in [Id -> Row]
        /\ \A r \in rows : row'[r] = new[r] /\ accepted'[r] = new[r].price
        /\ \A r \in Id \ rows : row'[r] = row[r] /\ accepted'[r] = accepted[r]
        /\ accepted' \in [Id -> StoredPrice]
        /\ doubled \subseteq doubled' /\ doubled' \subseteq Id
        /\ \A r \in rows : Doubles(r) => r \in doubled'
        /\ extraction' \in ExtractionRow /\ Staged(extraction')
        /\ extraction'.stage = extraction.stage /\ extraction'.found = extraction.found
        /\ extraction'.seen = extraction.seen /\ extraction'.entry = extraction.entry
        /\ KindOf(extraction') = KindOf(extraction) /\ ParentOf(extraction') = ParentOf(extraction)
        /\ extraction'.overtaken <=> extraction.overtaken \/ extraction.found \in rows
<1>1. /\ row' = [r \in Id |-> IF r \in rows THEN new[r] ELSE row[r]]
      /\ accepted' = [r \in Id |-> IF r \in rows THEN new[r].price ELSE accepted[r]]
      /\ doubled \subseteq doubled' /\ doubled' \subseteq Id
      /\ \A r \in rows : Doubles(r) => r \in doubled'
  BY DEF Writes, CatalogType, HistoryType
<1>2. /\ row' \in [Id -> Row] /\ accepted' \in [Id -> StoredPrice]
      /\ \A r \in rows : row'[r] = new[r] /\ accepted'[r] = new[r].price
      /\ \A r \in Id \ rows : row'[r] = row[r] /\ accepted'[r] = accepted[r]
  <2>1. \A r \in rows : new[r].price \in StoredPrice
    BY DEF Row, StoredPrice
  <2>2. \A r \in Id : row[r] \in Row /\ accepted[r] \in StoredPrice
    BY DEF CatalogType, HistoryType
  <2> QED BY <1>1, <2>1, <2>2
<1> DEFINE over == extraction.overtaken \/ extraction.found \in rows
<1>3. extraction' = [extraction EXCEPT !.overtaken = over]
  BY DEF Writes
<1>4. over \in BOOLEAN /\ extraction \in ExtractionRow /\ Staged(extraction)
  BY DEF CatalogType, ExtractionRow
<1> HIDE DEF over
<1>5. /\ extraction' \in ExtractionRow
      /\ extraction'.stage = extraction.stage /\ extraction'.found = extraction.found
      /\ extraction'.seen = extraction.seen /\ extraction'.entry = extraction.entry
      /\ extraction'.service = extraction.service /\ extraction'.item = extraction.item
      /\ extraction'.todo = extraction.todo /\ extraction'.overtaken = over
  BY <1>3, <1>4 DEF ExtractionRow
<1>6. KindOf(extraction') = KindOf(extraction) /\ ParentOf(extraction') = ParentOf(extraction)
  BY <1>5 DEF KindOf, ParentOf
<1>7. Staged(extraction')
  BY <1>4, <1>5, <1>6 DEF Staged, Writing
<1>8. extraction'.overtaken <=> extraction.overtaken \/ extraction.found \in rows
  BY <1>5 DEF over
<1> QED BY <1>1, <1>2, <1>5, <1>6, <1>7, <1>8

HandlersTyped ==
    /\ handler \in [Worker -> HandlerRow]
    /\ \A w \in Worker : /\ handler[w].stage # "idle" => handler[w].service \in Service
                         /\ handler[w].op = "apply" => handler[w].candidate # None

\* The parts that do not depend on the decision.
LEMMA WritesKeep ==
  ASSUME CatalogInv, NEW rows \in SUBSET Id, NEW new, Writes(rows, new),
         \A r \in rows : /\ new[r] \in Row /\ new[r].life # "new"
                         /\ new[r].life = "live" => Placed(r, new[r]),
         HandlersTyped', HistoryType', Owned', Unused', DecisionsStand', Whole',
         raced \subseteq raced' \cup rows
  PROVE CatalogInv'
<1>1. /\ CatalogType /\ Unused /\ SeenNow /\ FoundAlone /\ Priced /\ InsertedOnce
  BY DEF CatalogInv
<1>2. \A r \in rows : new[r] \in Row
  OBVIOUS
<1>3. /\ row' \in [Id -> Row]
      /\ \A r \in rows : row'[r] = new[r] /\ accepted'[r] = new[r].price
      /\ \A r \in Id \ rows : row'[r] = row[r] /\ accepted'[r] = accepted[r]
      /\ doubled \subseteq doubled' /\ doubled' \subseteq Id
      /\ \A r \in rows : Doubles(r) => r \in doubled'
      /\ extraction' \in ExtractionRow /\ Staged(extraction')
      /\ extraction'.stage = extraction.stage /\ extraction'.found = extraction.found
      /\ extraction'.seen = extraction.seen /\ extraction'.entry = extraction.entry
      /\ KindOf(extraction') = KindOf(extraction) /\ ParentOf(extraction') = ParentOf(extraction)
      /\ extraction'.overtaken <=> extraction.overtaken \/ extraction.found \in rows
  BY <1>1, <1>2, WritesStep
<1>4. CatalogType'
  BY <1>3 DEF CatalogType, HandlersTyped
<1>5. SeenNow'
  BY <1>1, <1>3 DEF SeenNow, Live, Seen, Writing, CatalogType, ExtractionRow
<1>6. ASSUME NEW r \in Id, row'[r].life = "live", ~(r \in rows /\ Doubles(r)),
             \/ \E q \in Id \ {r} : Alike(row', r, q)
             \/ WrittenAs(r, row'[r].parent, row'[r].name)
      PROVE row[r].life = "live" /\ row'[r].parent = row[r].parent /\ row'[r].name = row[r].name
  <2>1. CASE r \notin rows
    BY <1>3, <1>6, <2>1
  <2>2. CASE r \in rows
    <3>1. Live(r) /\ row'[r].name = row[r].name
      BY <1>6, <2>2 DEF Doubles
    <3>2. Placed(r, new[r]) /\ row'[r] = new[r]
      BY <1>3, <1>6, <2>2
    <3> QED BY <3>1, <3>2 DEF Live, Placed
  <2> QED BY <2>1, <2>2
<1>7. FoundAlone'
  <2> SUFFICES ASSUME Writing(extraction)
               PROVE /\ extraction.found # None => row'[extraction.found].life # "new"
                     /\ Live(extraction.found)' =>
                          row'[extraction.found].parent = ParentOf(extraction)
                     /\ \A q \in KindOf(extraction) : Sought(extraction, q)' =>
                          q = extraction.found \/ q \in doubled' \/ extraction.found \in doubled'
    BY <1>3 DEF FoundAlone, Writing, Live
  <2>1. extraction.found \in Id \cup {None} /\ None \notin Id /\ KindOf(extraction) \subseteq Id
    BY <1>1, KindsAssumption DEF CatalogType, ExtractionRow, KindOf, Id
  <2>2. extraction.found # None => row'[extraction.found].life # "new"
    BY <1>1, <1>3, <2>1 DEF FoundAlone
  <2>3. ASSUME Live(extraction.found)' PROVE row'[extraction.found].parent = ParentOf(extraction)
    <3> DEFINE r == extraction.found
    <3>1. r \in Id /\ row'[r].life = "live" /\ row[r].life # "new"
      BY <1>1, <1>3, <2>1, <2>3 DEF Live, FoundAlone
    <3>2. row[r].life = "live" /\ row'[r].parent = row[r].parent
      BY <1>3, <3>1 DEF Placed
    <3> QED BY <1>1, <2>1, <3>1, <3>2 DEF FoundAlone, Live
  <2>4. ASSUME NEW q \in KindOf(extraction), Sought(extraction, q)', q \notin doubled'
        PROVE q = extraction.found \/ extraction.found \in doubled'
    <3>1. /\ row'[q].life = "live" /\ row'[q].parent = ParentOf(extraction)
          /\ row'[q].name = extraction.entry.name
      BY <1>3, <2>4 DEF Sought
    <3>2. WrittenAs(q, row'[q].parent, row'[q].name)
      BY <2>1, <3>1, KindsAssumption DEF WrittenAs, KindOf, ParentOf, Writing, WriteStages, Stage
    <3>3. Sought(extraction, q)
      BY <1>3, <1>6, <2>1, <2>4, <3>1, <3>2 DEF Sought
    <3> QED BY <1>1, <1>3, <2>4, <3>3 DEF FoundAlone
  <2> QED BY <2>2, <2>3, <2>4
<1>8. InsertedOnce'
  <2> SUFFICES ASSUME NEW r \in Id \ doubled', NEW q \in Id \ doubled', Alike(row', r, q), r # q
               PROVE FALSE
    BY DEF InsertedOnce
  <2>1. Alike(row', q, r) /\ row'[r].life = "live" /\ row'[q].life = "live"
    BY DEF Alike
  <2>2. Alike(row, r, q)
    BY <1>3, <1>6, <2>1 DEF Alike
  <2> QED BY <1>1, <1>3, <2>2 DEF InsertedOnce
<1>9. Priced'
  BY <1>1, <1>3 DEF Priced, Live, Quoted
<1> QED BY <1>4, <1>5, <1>7, <1>8, <1>9 DEF CatalogInv

LEMMA DecidesKeep ==
  ASSUME CatalogType, Unused, DecisionsStand,
         NEW rows \in SUBSET Id, NEW new, Writes(rows, new),
         \A r \in rows : new[r] \in Row,
         NEW approval \in Approval \cup {"none"}, NEW late \in SUBSET Id,
         Decides(rows, approval, late),
         \A r \in rows : /\ new[r].life # "new"
                         /\ new[r].life # "live" => approval = "none"
                         /\ approval # "none" => new[r].approval = approval
  PROVE HistoryType' /\ Unused' /\ DecisionsStand' /\ raced \subseteq raced' \cup rows
<1>1. /\ \A r \in rows : row'[r] = new[r]
      /\ \A r \in Id \ rows : row'[r] = row[r]
      /\ accepted' \in [Id -> StoredPrice]
      /\ doubled \subseteq doubled' /\ doubled' \subseteq Id
  BY WritesStep
<1>2. /\ decided' \in [Id -> Approval \cup {"none"}]
      /\ \A r \in rows : decided'[r] = approval
      /\ \A r \in Id \ rows : decided'[r] = decided[r]
      /\ raced' = raced \ rows /\ excused' = (excused \ rows) \cup late
  BY DEF Decides, CatalogType, HistoryType
<1>3. HistoryType'
  BY <1>1, <1>2 DEF CatalogType, HistoryType
<1>4. Unused'
  BY <1>1, <1>2 DEF Unused
<1>5. DecisionsStand'
  BY <1>1, <1>2 DEF DecisionsStand, Live
<1> QED BY <1>2, <1>3, <1>4, <1>5

LEMMA DecidesNothingKeeps ==
  ASSUME CatalogType, Unused, DecisionsStand, NEW r \in Id, NEW x \in Row, Write(r, x),
         DecidesNothing, Live(r), x.life = "live", x.approval = row[r].approval
  PROVE HistoryType' /\ Unused' /\ DecisionsStand' /\ raced \subseteq raced' \cup {r}
<1> DEFINE new == [q \in {r} |-> x]
<1>1. Writes({r}, new) /\ new[r] = x /\ {r} \in SUBSET Id
  BY DEF Write
<1> HIDE DEF new
<1>2. \A q \in {r} : new[q] \in Row
  BY <1>1
<1>3. /\ row'[r] = x
      /\ \A q \in Id \ {r} : row'[q] = row[q]
      /\ accepted' \in [Id -> StoredPrice]
      /\ doubled \subseteq doubled' /\ doubled' \subseteq Id
  BY <1>1, <1>2, WritesStep
<1>4. decided' = decided /\ raced' = raced /\ excused' = excused
  BY DEF DecidesNothing
<1>5. HistoryType'
  BY <1>3, <1>4 DEF CatalogType, HistoryType
<1>6. Unused'
  BY <1>3, <1>4 DEF Unused, Live
<1>7. DecisionsStand'
  BY <1>3, <1>4 DEF DecisionsStand, Live
<1> QED BY <1>4, <1>5, <1>6, <1>7

LEMMA CatalogParts ==
  ASSUME CatalogInv
  PROVE /\ CatalogType /\ Owned /\ Unused /\ SeenNow /\ FoundAlone
        /\ Priced /\ DecisionsStand /\ InsertedOnce /\ Whole /\ HandlersTyped
        /\ row \in [Id -> Row] /\ handler \in [Worker -> HandlerRow] /\ None \notin Id
  BY KindsAssumption DEF CatalogInv, CatalogType, HandlersTyped

\* A handler moves on: what it stands at has a service.
LEMMA MoveType ==
  ASSUME HandlersTyped, NEW w \in Worker, NEW h \in HandlerRow, handler' = [handler EXCEPT ![w] = h],
         h.stage # "idle" => h.service \in Service,
         h.op = "apply" => h.candidate # None
  PROVE /\ HandlersTyped' /\ handler'[w] = h
        /\ \A v \in Worker : v # w => handler'[v] = handler[v]
  BY DEF HandlersTyped

\* Steps of the administrator that write no row.
LEMMA MoveKeeps ==
  ASSUME CatalogInv, UNCHANGED <<row, extraction, doubled, decided, accepted, raced>>,
         excused \subseteq excused', excused' \subseteq Id,
         NEW w \in Worker, NEW h \in HandlerRow, handler' = [handler EXCEPT ![w] = h],
         h.stage # "idle" => h.service \in Service,
         h.op = "apply" => h.candidate # None,
         \A s \in Service : Activating(w) /\ handler[w].service = s =>
             \/ Rest(s)' = {}
             \/ h.service = s /\ h.stage \in {"check", "items"}
  PROVE CatalogInv'
<1>1. /\ CatalogType /\ Owned /\ Unused /\ SeenNow /\ FoundAlone
      /\ Priced /\ DecisionsStand /\ InsertedOnce /\ Whole /\ HandlersTyped
  BY CatalogParts
<1>2. /\ HandlersTyped' /\ handler'[w] = h
      /\ \A v \in Worker : v # w => handler'[v] = handler[v]
  BY <1>1, MoveType
<1>3. CatalogType'
  BY <1>1, <1>2 DEF CatalogType, HandlersTyped, HistoryType
<1>4. Owned' /\ Unused' /\ SeenNow' /\ FoundAlone' /\ DecisionsStand' /\ InsertedOnce'
  BY <1>1 DEF Owned, Unused, SeenNow, FoundAlone, Sought, DecisionsStand, InsertedOnce, Alike,
              Live, Seen
<1>5. Priced'
  BY <1>1 DEF Priced, Live
<1>6. Whole'
  <2> SUFFICES ASSUME NEW s \in Service, Live(s)', row'[s].approval = "approved", Rest(s)' # {}
               PROVE (\E v \in Worker : Reaches(v, s))'
    BY DEF Whole, WholeAt
  <2>1. Rest(s)' \subseteq Rest(s)
    BY RestRow DEF RestOf, Live
  <2>2. Live(s) /\ row[s].approval = "approved"
    BY DEF Live
  <2>3. PICK v \in Worker : Reaches(v, s)
    BY <1>1, <2>1, <2>2 DEF Whole, WholeAt
  <2>4. CASE v = w
    <3>1. Activating(w) /\ handler[w].service = s
      BY <2>3, <2>4 DEF Reaches, Activating
    <3>2. h.service = s /\ h.stage \in {"check", "items"}
      BY <3>1
    <3> QED BY <3>2, <1>2 DEF Reaches
  <2>5. CASE v # w
    <3>1. handler'[v] = handler[v]
      BY <1>2, <2>5
    <3>2. \A chosen : OptionsOf(chosen)' = OptionsOf(chosen)
      BY DEF OptionsOf, Live
    <3> QED BY <2>1, <2>3, <3>1, <3>2 DEF Reaches
  <2> QED BY <2>4, <2>5
<1> QED BY <1>3, <1>4, <1>5, <1>6 DEF CatalogInv

LEMMA BeginKeeps ==
  ASSUME CatalogInv, NEW w \in Worker, NEW op \in HandlerOp, NEW s \in Service,
         NEW candidate \in Price \cup {Missing, None}, op = "apply" => candidate # None,
         Begin(w, op, s, candidate)
  PROVE CatalogInv'
<1> DEFINE q == Idle
           h == [q EXCEPT !.op = op, !.stage = "write", !.service = s, !.candidate = candidate]
<1>1. q \in HandlerRow
  BY IdleType
<1>2. /\ handler[w].stage = "idle" /\ handler' = [handler EXCEPT ![w] = h]
      /\ UNCHANGED <<row, extraction, Histories>>
  BY IdleType DEF Begin
<1>3. excused \subseteq excused' /\ excused' \subseteq Id
      /\ UNCHANGED <<row, extraction, doubled, decided, accepted, raced>>
  BY <1>2 DEF Histories, CatalogInv, CatalogType, HistoryType
<1> HIDE DEF q
<1>4. h \in HandlerRow /\ h.op = op /\ h.stage = "write" /\ h.service = s /\ h.candidate = candidate
  BY <1>1 DEF HandlerRow
<1> HIDE DEF h
<1>5. ~Activating(w)
  BY <1>2 DEF Activating
<1> QED BY <1>2, <1>3, <1>4, <1>5, MoveKeeps

LEMMA GoneKeeps ==
  ASSUME CatalogInv, NEW w \in Worker, handler[w].stage = "write", Gone(w)
  PROVE CatalogInv'
<1>1. handler' = [handler EXCEPT ![w] = Idle] /\ UNCHANGED <<row, extraction, Histories>>
  BY DEF Gone, Finish
<1>2. excused \subseteq excused' /\ excused' \subseteq Id
      /\ UNCHANGED <<row, extraction, doubled, decided, accepted, raced>>
  BY <1>1 DEF Histories, CatalogInv, CatalogType, HistoryType
<1>3. ~Activating(w)
  BY DEF Activating
<1> QED BY <1>1, <1>2, <1>3, IdleType, MoveKeeps

\* Where an activation stops or skips, the rest is excused.
LEMMA ExcusedRest ==
  ASSUME UNCHANGED row, NEW s, Pending(Below(s)) \subseteq excused'
  PROVE Rest(s)' = {}
<1>1. Pending(Below(s))' = Pending(Below(s))
  BY DEF Pending, Below, ItemsOf, OptionsOf, Live
<1> QED BY <1>1 DEF Rest

LEMMA BelowType ==
  ASSUME NEW s
  PROVE Pending(Below(s)) \subseteq Id
  BY DEF Pending, Below, ItemsOf, OptionsOf, Id

LEMMA ActivateCheckKeeps ==
  ASSUME CatalogInv, NEW w \in Worker, ActivateCheck(w)
  PROVE CatalogInv'
<1>1. /\ HandlersTyped /\ excused \subseteq Id
  BY CatalogParts DEF CatalogInv, CatalogType, HistoryType
<1>2. handler[w].stage = "check" /\ UNCHANGED <<row, extraction, doubled, decided, accepted, raced>>
  BY DEF ActivateCheck, At
<1>3. CASE /\ handler' = [handler EXCEPT ![w] = Idle]
           /\ excused' = excused \cup Pending(Below(handler[w].service))
  <2>1. excused \subseteq excused' /\ excused' \subseteq Id
    BY <1>1, <1>3, BelowType
  <2>2. \A s \in Service : handler[w].service = s => Rest(s)' = {}
    BY <1>2, <1>3, ExcusedRest
  <2> QED BY <1>2, <1>3, <2>1, <2>2, IdleType, MoveKeeps
<1>4. CASE handler' = [handler EXCEPT ![w].stage = "items"] /\ UNCHANGED excused
  <2> DEFINE h == [handler[w] EXCEPT !.stage = "items"]
  <2>1. /\ h \in HandlerRow /\ h.stage = "items" /\ h.service = handler[w].service
        /\ h.op = handler[w].op /\ h.candidate = handler[w].candidate
    BY <1>1 DEF HandlersTyped, HandlerRow
  <2>2. handler' = [handler EXCEPT ![w] = h]
    BY <1>4
  <2> HIDE DEF h
  <2>3. h.service \in Service /\ (h.op = "apply" => h.candidate # None)
    BY <1>1, <1>2, <2>1 DEF HandlersTyped
  <2>4. excused \subseteq excused' /\ excused' \subseteq Id
    BY <1>1, <1>4
  <2> QED BY <1>2, <2>1, <2>2, <2>3, <2>4, MoveKeeps
<1> QED BY <1>3, <1>4 DEF ActivateCheck, Finish, Goto

LEMMA HandlerFailsKeeps ==
  ASSUME CatalogInv, NEW w \in Worker, HandlerFails(w)
  PROVE CatalogInv'
<1>1. /\ handler' = [handler EXCEPT ![w] = Idle]
      /\ excused' = IF Activating(w) THEN excused \cup Pending(Below(handler[w].service))
                    ELSE excused
      /\ UNCHANGED <<row, extraction, doubled, decided, accepted, raced>>
  BY DEF HandlerFails, Finish
<1>2. excused \subseteq Id
  BY DEF CatalogInv, CatalogType, HistoryType
<1>3. excused \subseteq excused' /\ excused' \subseteq Id
  BY <1>1, <1>2, BelowType
<1>4. \A s \in Service : Activating(w) /\ handler[w].service = s => Rest(s)' = {}
  BY <1>1, ExcusedRest
<1> QED BY <1>1, <1>3, <1>4, IdleType, MoveKeeps

-----------------------------------------------------------------------------
(* Writes of one row *)

LEMMA WriteStep ==
  ASSUME CatalogInv, NEW r \in Id, NEW x \in Row, Write(r, x)
  PROVE \E new : /\ Writes({r}, new) /\ new[r] = x
                 /\ \A q \in {r} : new[q] \in Row
                 /\ row'[r] = x /\ \A q \in Id \ {r} : row'[q] = row[q]
                 /\ row' = [row EXCEPT ![r] = x]
<1> DEFINE new == [q \in {r} |-> x]
<1>1. Writes({r}, new) /\ new[r] = x /\ {r} \in SUBSET Id /\ CatalogType
  BY DEF Write, CatalogInv
<1> HIDE DEF new
<1>2. \A q \in {r} : new[q] \in Row
  BY <1>1
<1>3. row'[r] = x /\ row' \in [Id -> Row] /\ \A q \in Id \ {r} : row'[q] = row[q]
  BY <1>1, <1>2, WritesStep
<1>4. row' = [row EXCEPT ![r] = x]
  BY <1>1, <1>3 DEF CatalogType
<1> QED BY <1>1, <1>2, <1>3, <1>4

\* What a write of one row leaves below a service.

LEMMA WriteRest ==
  ASSUME CatalogInv, NEW r \in Id, NEW x \in Row, Write(r, x), x.life = "live", Placed(r, x),
         excused \subseteq excused' \cup {r},
         \/ r \in Service
         \/ x.approval # "pending"
         \/ r \in excused'
         \/ Live(r) /\ x.approval = row[r].approval /\ excused' = excused,
         NEW s \in Service, NEW q \in Rest(s)'
  PROVE q \in Rest(s) /\ row'[q].parent = row[q].parent
<1>1. row'[r] = x /\ \A p \in Id \ {r} : row'[p] = row[p]
  BY WriteStep
<1>2. Owned /\ None \notin Id
  BY CatalogParts
<1>3. Service \subseteq Id /\ Item \subseteq Id /\ Option \subseteq Id
  BY DEF Id
<1>4. RestOf(q, s)'
  BY RestRow
<1>5. q \in Id /\ row'[q].life = "live" /\ q \notin excused' /\ row'[q].approval = "pending"
  BY <1>3, <1>4 DEF RestOf, Live
<1>6. Live(q) /\ q \notin excused /\ row[q].approval = "pending" /\ row'[q].parent = row[q].parent
  <2>1. CASE q = r
    <3>1. q \notin Service
      BY <1>4, KindsAssumption DEF RestOf
    <3>2. Live(r) /\ x.approval = row[r].approval /\ excused' = excused
      BY <2>1, <3>1, <1>1, <1>5
    <3> QED BY <2>1, <3>2, <1>1, <1>5 DEF Placed, Live
  <2>2. CASE q # r
    BY <2>2, <1>1, <1>2, <1>5 DEF Live
  <2> QED BY <2>1, <2>2
<1>7. CASE q \in Item /\ row'[q].parent = s
  BY <1>6, <1>7, RestRow DEF RestOf
<1>8. CASE q \in Option /\ (row[q].parent \in Item /\ Live(row[q].parent)
                            /\ row[row[q].parent].parent = s)'
  <2>1. row[q].parent \in Item /\ Live(row[q].parent)
    BY <1>2, <1>6, <1>8 DEF Owned
  <2>2. row[row[q].parent].parent = s
    BY <2>1, <1>1, <1>3, <1>6, <1>8 DEF Placed, Live
  <2> QED BY <2>1, <2>2, <1>6, <1>8, RestRow DEF RestOf
<1> QED BY <1>4, <1>6, <1>7, <1>8 DEF RestOf

LEMMA RestLive ==
  ASSUME Owned, NEW s, Rest(s) # {}, s \in Service
  PROVE Live(s)
<1>1. PICK q : q \in Rest(s)
  OBVIOUS
<1>2. RestOf(q, s)
  BY <1>1, RestRow
<1> QED BY <1>2 DEF RestOf, Owned

LEMMA WriteWhole ==
  ASSUME CatalogInv, NEW r \in Id, NEW x \in Row, Write(r, x), x.life = "live", Placed(r, x),
         excused \subseteq excused' \cup {r},
         \/ r \in Service
         \/ x.approval # "pending"
         \/ r \in excused'
         \/ Live(r) /\ x.approval = row[r].approval /\ excused' = excused,
         \A w \in Worker : Activating(w) => handler'[w] = handler[w],
         NEW s \in Service,
         s = r /\ x.approval = "approved" => ~Live(s) \/ row[s].approval = "approved"
  PROVE WholeAt(s)'
<1>1. row'[r] = x /\ \A p \in Id \ {r} : row'[p] = row[p]
  BY WriteStep
<1>2. Owned /\ WholeAt(s) /\ s \in Id
  BY CatalogParts DEF Whole, Id
<1>3. \A q \in Rest(s)' : q \in Rest(s) /\ row'[q].parent = row[q].parent
  BY WriteRest
<1>4. CASE Live(s)
  <2>1. Live(s)' /\ row'[s].approval = "approved" => Live(s) /\ row[s].approval = "approved"
    BY <1>1, <1>2, <1>4
  <2>2. \A w \in Worker : Reaches(w, s) => handler'[w] = handler[w]
    BY DEF Reaches, Activating
  <2> QED BY <1>2, <1>3, <2>1, <2>2, WholeKeeps
<1>5. CASE ~Live(s)
  <2>1. Rest(s) = {}
    BY <1>2, <1>5, RestLive
  <2>2. Rest(s)' = {}
    BY <1>3, <2>1
  <2> QED BY <2>2 DEF WholeAt
<1> QED BY <1>4, <1>5

\* A decision on one row.
LEMMA DecideKeeps ==
  ASSUME CatalogInv, NEW r \in Id, NEW x \in Row, Write(r, x), x.life = "live", Placed(r, x),
         NEW approval \in Approval \cup {"none"}, NEW late \in SUBSET {r}, Decides({r}, approval, late),
         approval # "none" => x.approval = approval,
         HandlersTyped', Whole'
  PROVE CatalogInv'
<1>1. PICK new : /\ Writes({r}, new) /\ new[r] = x
                 /\ \A q \in {r} : new[q] \in Row
                 /\ row' = [row EXCEPT ![r] = x]
  BY WriteStep
<1>2. CatalogType /\ Owned /\ Unused /\ DecisionsStand /\ {r} \in SUBSET Id /\ late \in SUBSET Id
  BY CatalogParts
<1>3. \A q \in {r} : /\ new[q].life # "new"
                     /\ new[q].life # "live" => approval = "none"
                     /\ approval # "none" => new[q].approval = approval
  BY <1>1
<1>4. HistoryType' /\ Unused' /\ DecisionsStand' /\ raced \subseteq raced' \cup {r}
  BY <1>1, <1>2, <1>3, DecidesKeep
<1>5. Owned'
  BY <1>1, <1>2, PutOwned
<1>6. \A q \in {r} : new[q] \in Row /\ (new[q].life = "live" => Placed(q, new[q]))
  BY <1>1
<1> QED BY <1>1, <1>2, <1>4, <1>5, <1>6, WritesKeep

\* A write of one row that decides nothing.
LEMMA EditKeeps ==
  ASSUME CatalogInv, NEW r \in Id, NEW x \in Row, Write(r, x), x.life = "live", Live(r),
         x.parent = row[r].parent, x.approval = row[r].approval,
         DecidesNothing, HandlersTyped',
         \A w \in Worker : Activating(w) => handler'[w] = handler[w]
  PROVE CatalogInv'
<1>1. PICK new : /\ Writes({r}, new) /\ new[r] = x
                 /\ \A q \in {r} : new[q] \in Row
                 /\ row' = [row EXCEPT ![r] = x]
  BY WriteStep
<1>2. CatalogType /\ Owned /\ Unused /\ DecisionsStand /\ {r} \in SUBSET Id
  BY CatalogParts
<1>3. HistoryType' /\ Unused' /\ DecisionsStand' /\ raced \subseteq raced' \cup {r}
  BY <1>2, DecidesNothingKeeps
<1>4. Placed(r, x)
  BY DEF Placed, Live
<1>5. Owned'
  BY <1>1, <1>2, <1>4, PutOwned
<1>6. \A q \in {r} : new[q] \in Row /\ (new[q].life = "live" => Placed(q, new[q]))
  BY <1>1, <1>4
<1>7. Whole'
  <2> SUFFICES ASSUME NEW s \in Service PROVE WholeAt(s)'
    BY DEF Whole
  <2>1. excused' = excused
    BY DEF DecidesNothing
  <2> QED BY <1>4, <2>1, WriteWhole
<1> QED BY <1>1, <1>2, <1>3, <1>5, <1>6, <1>7, WritesKeep

-----------------------------------------------------------------------------
(* The administrator's operations *)

\* Approval of a service by w, which goes on to its items.
LEMMA ApprovedKeeps ==
  ASSUME CatalogInv, NEW w \in Worker, handler[w].stage = "write",
         NEW x \in Row, Live(handler[w].service), Write(handler[w].service, x),
         x.life = "live", x.approval = "approved",
         x.parent = row[handler[w].service].parent,
         Decides({handler[w].service}, "approved", {}), Goto(w, "check")
  PROVE CatalogInv'
<1> DEFINE s == handler[w].service
           h == [handler[w] EXCEPT !.stage = "check"]
<1>1. HandlersTyped
  BY CatalogParts
<1>2. s \in Service /\ s \in Id
  BY <1>1 DEF HandlersTyped, Id
<1>3. /\ h \in HandlerRow /\ h.stage = "check" /\ h.service = s
      /\ h.op = handler[w].op /\ h.candidate = handler[w].candidate
      /\ handler' = [handler EXCEPT ![w] = h]
  BY <1>1 DEF HandlersTyped, HandlerRow, Goto
<1>4. h.op = "apply" => h.candidate # None
  BY <1>1, <1>3 DEF HandlersTyped
<1>5. /\ Write(s, x) /\ Live(s) /\ x.parent = row[s].parent
      /\ Decides({s}, "approved", {})
  OBVIOUS
<1> HIDE DEF h, s
<1>6. HandlersTyped' /\ handler'[w] = h /\ \A v \in Worker : v # w => handler'[v] = handler[v]
  BY <1>1, <1>2, <1>3, <1>4, MoveType
<1>7. \A v \in Worker : Activating(v) => handler'[v] = handler[v]
  BY <1>6 DEF Activating
<1>8. Placed(s, x)
  BY <1>5 DEF Placed, Live
<1>9. excused \subseteq excused' \cup {s}
  BY <1>5 DEF Decides
<1>10. Whole'
  <2> SUFFICES ASSUME NEW t \in Service PROVE WholeAt(t)'
    BY DEF Whole
  <2>1. CASE t = s
    BY <1>3, <1>6, <2>1 DEF WholeAt, Reaches
  <2>2. CASE t # s
    BY <1>2, <1>5, <1>7, <1>8, <1>9, <2>2, WriteWhole
  <2> QED BY <2>1, <2>2
<1>11. "approved" \in Approval \cup {"none"} /\ {} \in SUBSET {s}
  BY DEF Approval
<1> QED BY <1>2, <1>5, <1>6, <1>8, <1>10, <1>11, DecideKeeps

LEMMA ApproveWriteKeeps ==
  ASSUME CatalogInv, NEW w \in Worker, ApproveWrite(w)
  PROVE CatalogInv'
<1> DEFINE s == handler[w].service
<1>1. handler[w].stage = "write"
  BY DEF ApproveWrite, At
<1>2. CASE Gone(w)
  BY <1>1, <1>2, GoneKeeps
<1>3. ASSUME Live(s), NEW shown \in BOOLEAN, NEW price \in Price \cup {row[s].price},
             NEW name \in Name,
             Write(s, [row[s] EXCEPT !.name = name, !.approval = "approved", !.shown = shown,
                                    !.price = price, !.sync = "synced", !.candidate = None]),
             Decides({s}, "approved", {}), Goto(w, "check")
      PROVE CatalogInv'
  <2> DEFINE x == [row[s] EXCEPT !.name = name, !.approval = "approved", !.shown = shown,
                                    !.price = price, !.sync = "synced", !.candidate = None]
  <2>1. row[s] \in Row /\ row[s].life = "live"
    BY <1>3, CatalogParts DEF HandlersTyped, HandlerRow, Live, Id
  <2>2. /\ x \in Row /\ x.life = "live" /\ x.parent = row[s].parent
        /\ x.approval = "approved"
    BY <2>1 DEF Row, Approval
  <2>3. Write(s, x)
    BY <1>3
  <2> HIDE DEF x
  <2> QED BY <1>1, <1>3, <2>2, <2>3, ApprovedKeeps
<1> QED BY <1>2, <1>3 DEF ApproveWrite

LEMMA ApplyWriteKeeps ==
  ASSUME CatalogInv, NEW w \in Worker, ApplyWrite(w)
  PROVE CatalogInv'
<1> DEFINE s == handler[w].service
           given == handler[w].candidate
<1>1. handler[w].stage = "write" /\ handler[w].op = "apply"
  BY DEF ApplyWrite, At
<1>2. CASE Gone(w)
  BY <1>1, <1>2, GoneKeeps
<1>3. ASSUME Live(s), NEW price \in Price \cup {IF given = Missing THEN row[s].price ELSE given},
             NEW name \in Name,
             Write(s, [row[s] EXCEPT !.name = name, !.approval = "approved", !.shown = TRUE,
                                    !.price = price, !.sync = "synced"]),
             Decides({s}, "approved", {}), Goto(w, "check")
      PROVE CatalogInv'
  <2> DEFINE x == [row[s] EXCEPT !.name = name, !.approval = "approved", !.shown = TRUE,
                                    !.price = price, !.sync = "synced"]
  <2>1. row[s] \in Row /\ row[s].life = "live"
    BY <1>3, CatalogParts DEF HandlersTyped, HandlerRow, Live, Id
  <2>2. given \in Price \cup {Missing}
    BY <1>1, CatalogParts DEF HandlersTyped, HandlerRow
  <2>3. /\ x \in Row /\ x.life = "live" /\ x.parent = row[s].parent
        /\ x.approval = "approved"
    BY <2>1, <2>2 DEF Row, Approval
  <2>4. Write(s, x)
    BY <1>3
  <2> HIDE DEF x
  <2> QED BY <1>1, <1>3, <2>3, <2>4, ApprovedKeeps
<1> QED BY <1>2, <1>3 DEF ApplyWrite

\* A handler that is done with its write is at no activation.
LEMMA FinishStep ==
  ASSUME CatalogInv, NEW w \in Worker, handler[w].stage = "write", Finish(w)
  PROVE HandlersTyped' /\ \A v \in Worker : Activating(v) => handler'[v] = handler[v]
<1>1. HandlersTyped /\ handler' = [handler EXCEPT ![w] = Idle]
  BY CatalogParts DEF Finish
<1>2. HandlersTyped' /\ \A v \in Worker : v # w => handler'[v] = handler[v]
  BY <1>1, IdleType, MoveType
<1> QED BY <1>2 DEF Activating

LEMMA ServiceEditKeeps ==
  ASSUME CatalogInv, NEW w \in Worker, handler[w].stage = "write", Finish(w),
         NEW x \in Row, Live(handler[w].service), Write(handler[w].service, x),
         x.life = row[handler[w].service].life, x.approval = row[handler[w].service].approval,
         x.parent = row[handler[w].service].parent,
         DecidesNothing
  PROVE CatalogInv'
<1> DEFINE s == handler[w].service
<1>1. s \in Id
  BY CatalogParts DEF HandlersTyped, Id
<1>2. HandlersTyped' /\ \A v \in Worker : Activating(v) => handler'[v] = handler[v]
  BY FinishStep
<1>3. /\ Live(s) /\ Write(s, x) /\ x.life = "live" /\ x.approval = row[s].approval
      /\ x.parent = row[s].parent
  BY DEF Live
<1> HIDE DEF s
<1> QED BY <1>1, <1>2, <1>3, EditKeeps

LEMMA IgnoreWriteKeeps ==
  ASSUME CatalogInv, NEW w \in Worker, IgnoreWrite(w)
  PROVE CatalogInv'
<1> DEFINE s == handler[w].service
           x == [row[s] EXCEPT !.candidate = None, !.sync = "synced"]
<1>1. handler[w].stage = "write"
  BY DEF IgnoreWrite, At
<1>2. CASE Gone(w)
  BY <1>1, <1>2, GoneKeeps
<1>3. CASE Live(s) /\ Write(s, x) /\ DecidesNothing /\ Finish(w)
  <2>1. row[s] \in Row
    BY <1>3, CatalogParts DEF HandlersTyped, HandlerRow, Live, Id
  <2>2. /\ x \in Row /\ x.life = row[s].life /\ x.parent = row[s].parent /\ x.name = row[s].name
        /\ x.approval = row[s].approval
    BY <2>1 DEF Row
  <2> HIDE DEF x
  <2> QED BY <1>1, <1>3, <2>2, ServiceEditKeeps
<1> QED BY <1>2, <1>3 DEF IgnoreWrite

LEMMA DeactivateWriteKeeps ==
  ASSUME CatalogInv, NEW w \in Worker, DeactivateWrite(w)
  PROVE CatalogInv'
<1> DEFINE s == handler[w].service
           x == [row[s] EXCEPT !.candidate = None, !.sync = "synced", !.shown = FALSE]
<1>1. handler[w].stage = "write"
  BY DEF DeactivateWrite, At
<1>2. CASE Gone(w)
  BY <1>1, <1>2, GoneKeeps
<1>3. CASE Live(s) /\ Write(s, x) /\ DecidesNothing /\ Finish(w)
  <2>1. row[s] \in Row
    BY <1>3, CatalogParts DEF HandlersTyped, HandlerRow, Live, Id
  <2>2. /\ x \in Row /\ x.life = row[s].life /\ x.parent = row[s].parent /\ x.name = row[s].name
        /\ x.approval = row[s].approval
    BY <2>1 DEF Row
  <2> HIDE DEF x
  <2> QED BY <1>1, <1>3, <2>2, ServiceEditKeeps
<1> QED BY <1>2, <1>3 DEF DeactivateWrite

LEMMA BookingWriteKeeps ==
  ASSUME CatalogInv, NEW w \in Worker, BookingWrite(w)
  PROVE CatalogInv'
<1> DEFINE s == handler[w].service
<1>1. handler[w].stage = "write"
  BY DEF BookingWrite, At
<1>2. CASE Gone(w)
  BY <1>1, <1>2, GoneKeeps
<1>3. ASSUME Live(s), NEW shown \in BOOLEAN, NEW price \in Price \cup {row[s].price},
             NEW name \in Name,
             Write(s, [row[s] EXCEPT !.name = name, !.shown = shown, !.price = price]),
             DecidesNothing, Finish(w)
      PROVE CatalogInv'
  <2> DEFINE x == [row[s] EXCEPT !.name = name, !.shown = shown, !.price = price]
  <2>1. row[s] \in Row
    BY <1>3, CatalogParts DEF HandlersTyped, HandlerRow, Live, Id
  <2>2. /\ x \in Row /\ x.life = row[s].life /\ x.parent = row[s].parent
        /\ x.approval = row[s].approval
    BY <2>1 DEF Row
  <2>3. Write(s, x)
    BY <1>3
  <2> HIDE DEF x
  <2> QED BY <1>1, <1>3, <2>2, <2>3, ServiceEditKeeps
<1> QED BY <1>2, <1>3 DEF BookingWrite

LEMMA RejectServiceKeeps ==
  ASSUME CatalogInv, NEW s \in Service, RejectService(s)
  PROVE CatalogInv'
<1> DEFINE x == [row[s] EXCEPT !.approval = "rejected", !.shown = FALSE, !.sync = "synced"]
<1>1. Live(s) /\ Write(s, x) /\ Decides({s}, "rejected", {}) /\ UNCHANGED handler
  BY DEF RejectService
<1>2. s \in Id /\ row[s] \in Row /\ HandlersTyped'
  BY <1>1, CatalogParts DEF Id, HandlersTyped
<1>3. /\ x \in Row /\ x.life = row[s].life /\ x.parent = row[s].parent /\ x.name = row[s].name
      /\ x.approval = "rejected"
  BY <1>2 DEF Row, Approval
<1> HIDE DEF x
<1>4. x.life = "live" /\ Placed(s, x)
  BY <1>1, <1>3 DEF Placed, Live
<1>5. excused \subseteq excused' \cup {s}
  BY <1>1 DEF Decides
<1>6. Whole'
  <2> SUFFICES ASSUME NEW t \in Service PROVE WholeAt(t)'
    BY DEF Whole
  <2> QED BY <1>1, <1>2, <1>3, <1>4, <1>5, WriteWhole
<1>7. "rejected" \in Approval \cup {"none"} /\ {} \in SUBSET {s}
  BY DEF Approval
<1> QED BY <1>1, <1>2, <1>3, <1>4, <1>6, <1>7, DecideKeeps

LEMMA PatchKeeps ==
  ASSUME CatalogInv, NEW r \in Id, Patch(r)
  PROVE CatalogInv'
<1>1. PICK shown \in BOOLEAN, price \in Price \cup {Missing}, name \in Name :
         Write(r, [row[r] EXCEPT !.name = name, !.shown = shown, !.price = price])
  BY DEF Patch
<1>2. Live(r) /\ DecidesNothing /\ UNCHANGED handler
  BY DEF Patch
<1> DEFINE x == [row[r] EXCEPT !.name = name, !.shown = shown, !.price = price]
<1>3. row[r] \in Row /\ HandlersTyped'
  BY <1>2, CatalogParts DEF HandlersTyped
<1>4. /\ x \in Row /\ x.life = row[r].life /\ x.parent = row[r].parent
      /\ x.approval = row[r].approval
  BY <1>3 DEF Row
<1>5. Write(r, x)
  BY <1>1
<1> HIDE DEF x
<1>6. x.life = "live"
  BY <1>2, <1>4 DEF Live
<1> QED BY <1>2, <1>3, <1>4, <1>5, <1>6, EditKeeps

LEMMA ByHandType ==
  ASSUME NEW parent \in Id \cup {None}, NEW name \in Name, NEW approval \in Approval,
         NEW x \in ByHand(parent, name, approval)
  PROVE /\ x \in Row /\ x.life = "live" /\ x.parent = parent /\ x.name = name
        /\ x.approval = approval
<1>1. PICK shown \in BOOLEAN, price \in Price \cup {Missing} :
         x = HandMade(parent, name, approval, shown, price)
  BY DEF ByHand
<1> DEFINE n == NoRow
<1>2. n \in Row
  BY NoRowType
<1>3. x = [n EXCEPT !.life = "live", !.parent = parent, !.name = name, !.sync = "none",
                    !.approval = approval, !.shown = shown, !.price = price]
  BY <1>1 DEF HandMade
<1> HIDE DEF n
<1> QED BY <1>2, <1>3 DEF Row

LEMMA CreateRowKeeps ==
  ASSUME CatalogInv, NEW r \in Id, NEW x \in Row, Create(r, x), x.life = "live", Placed(r, x)
  PROVE CatalogInv'
<1>1. row[r].life = "new" /\ Write(r, x) /\ UNCHANGED handler
  BY DEF Create
<1>2. HandlersTyped'
  BY <1>1, CatalogParts DEF HandlersTyped
<1>3. PICK approval \in Approval \cup {"none"}, late \in SUBSET {r} :
         /\ Decides({r}, approval, late)
         /\ approval # "none" => x.approval = approval
         /\ x.approval # "pending" \/ r \in late
  <2>1. CASE x.approval = "pending"
    BY <2>1 DEF Create
  <2>2. CASE x.approval # "pending"
    <3>1. Decides({r}, x.approval, {}) /\ x.approval \in Approval
      BY <2>2 DEF Create, Row
    <3> QED BY <2>2, <3>1
  <2> QED BY <2>1, <2>2
<1>4. excused \subseteq excused' \cup {r} /\ (x.approval # "pending" \/ r \in excused')
  BY <1>3 DEF Decides
<1>5. Whole'
  <2> SUFFICES ASSUME NEW t \in Service PROVE WholeAt(t)'
    BY DEF Whole
  <2>1. ~Live(r)
    BY <1>1 DEF Live
  <2> QED BY <1>1, <1>4, <2>1, WriteWhole
<1> QED BY <1>1, <1>2, <1>3, <1>5, DecideKeeps

LEMMA CreateServiceKeeps ==
  ASSUME CatalogInv, NEW s \in Service, NEW name \in Name, CreateService(s, name)
  PROVE CatalogInv'
<1>1. PICK x \in ByHand(None, name, "approved") : Create(s, x)
  BY DEF CreateService
<1>2. x \in Row /\ x.life = "live" /\ x.parent = None
  BY ByHandType DEF Approval
<1>3. s \in Id /\ Placed(s, x)
  BY <1>1, <1>2, KindsAssumption DEF Create, Placed, Id
<1> QED BY <1>1, <1>2, <1>3, CreateRowKeeps

LEMMA CreateItemKeeps ==
  ASSUME CatalogInv, NEW i \in Item, NEW s \in Service, NEW name \in Name, CreateItem(i, s, name)
  PROVE CatalogInv'
<1>1. PICK x \in ByHand(s, name, ItemDefault) : Create(i, x)
  BY DEF CreateItem
<1>2. x \in Row /\ x.life = "live" /\ x.parent = s
  BY ByHandType, DefaultAssumption DEF Id
<1>3. i \in Id /\ Placed(i, x)
  BY <1>1, <1>2, KindsAssumption DEF Create, CreateItem, Placed, Id
<1> QED BY <1>1, <1>2, <1>3, CreateRowKeeps

LEMMA CreateOptionKeeps ==
  ASSUME CatalogInv, NEW o \in Option, NEW i \in Item, NEW name \in Name, CreateOption(o, i, name)
  PROVE CatalogInv'
<1>1. PICK x \in ByHand(i, name, ItemDefault) : Create(o, x)
  BY DEF CreateOption
<1>2. x \in Row /\ x.life = "live" /\ x.parent = i
  BY ByHandType, DefaultAssumption DEF Id
<1>3. o \in Id /\ Placed(o, x)
  BY <1>1, <1>2, KindsAssumption DEF Create, CreateOption, Placed, Id
<1> QED BY <1>1, <1>2, <1>3, CreateRowKeeps

\* A deletion takes what hangs below with it.
LEMMA DeleteKeeps ==
  ASSUME CatalogInv, NEW rows \in SUBSET Id, Delete(rows),
         \A q \in Id : Live(q) /\ row[q].parent \in rows => q \in rows
  PROVE CatalogInv'
<1> DEFINE gone == [NoRow EXCEPT !.life = "deleted"]
           new == [r \in rows |-> gone]
<1>1. Writes(rows, new) /\ Decides(rows, "none", {}) /\ UNCHANGED handler
  BY DEF Delete
<1>2. gone \in Row /\ gone.life = "deleted"
  BY DEF NoRow, Row, Approval
<1>3. \A r \in rows : new[r] = gone
  OBVIOUS
<1> HIDE DEF gone, new
<1>4. \A r \in rows : /\ new[r] \in Row /\ new[r].life = "deleted"
                      /\ new[r].life = "live" => Placed(r, new[r])
  BY <1>2, <1>3
<1>5. CatalogType /\ Owned /\ Unused /\ DecisionsStand /\ Whole /\ None \notin Id
  BY CatalogParts
<1>6. HistoryType' /\ Unused' /\ DecisionsStand' /\ raced \subseteq raced' \cup rows
  <2>1. {} \in SUBSET Id /\ "none" \in Approval \cup {"none"}
    OBVIOUS
  <2> QED BY <1>1, <1>4, <1>5, <2>1, DecidesKeep
<1>7. HandlersTyped'
  BY <1>1, CatalogParts DEF HandlersTyped
<1>8. /\ \A r \in rows : row'[r] = new[r]
      /\ \A r \in Id \ rows : row'[r] = row[r]
  <2>1. \A r \in rows : new[r] \in Row
    BY <1>4
  <2>2. CatalogType /\ Writes(rows, new)
    BY <1>1, <1>5
  <2> QED BY ONLY <2>1, <2>2, rows \in SUBSET Id, WritesStep
<1>9. \A q \in Id : row'[q].life = "live" <=> q \notin rows /\ row[q].life = "live"
  BY <1>4, <1>8
<1>10. Service \subseteq Id /\ Item \subseteq Id /\ Option \subseteq Id
  BY DEF Id
<1>11. Owned'
  BY <1>5, <1>8, <1>9, <1>10 DEF Owned, Live
<1>12. Whole'
  <2> SUFFICES ASSUME NEW t \in Service PROVE WholeAt(t)'
    BY DEF Whole
  <2>1. Live(t)' => Live(t) /\ row'[t] = row[t]
    BY <1>8, <1>9, <1>10 DEF Live
  <2>2. ASSUME NEW q \in Rest(t)' PROVE q \in Rest(t) /\ row'[q].parent = row[q].parent
    <3>1. RestOf(q, t)'
      BY RestRow
    <3>2. q \in Id /\ q \notin rows /\ Live(q) /\ row'[q] = row[q] /\ q \notin excused
      BY <1>1, <1>8, <1>9, <1>10, <3>1 DEF RestOf, Live, Decides
    <3>3. RestOf(q, t)
      BY <1>8, <1>9, <1>10, <3>1, <3>2 DEF RestOf, Live
    <3> QED BY <3>2, <3>3, RestRow
  <2> QED BY <1>1, <1>5, <2>1, <2>2, WholeKeeps DEF Whole
<1> QED BY <1>1, <1>4, <1>6, <1>7, <1>11, <1>12, WritesKeep

LEMMA DeleteServiceKeeps ==
  ASSUME CatalogInv, NEW s \in Service, DeleteService(s)
  PROVE CatalogInv'
<1> DEFINE rows == {s} \cup Below(s)
<1>1. Delete(rows) /\ rows \in SUBSET Id
  BY DEF DeleteService, Below, ItemsOf, OptionsOf, Id
<1>2. Owned /\ None \notin Id
  BY CatalogParts
<1>3. ASSUME NEW q \in Id, Live(q), row[q].parent \in rows
      PROVE q \in rows
  <2>1. CASE q \in Service
    BY <1>1, <1>2, <1>3, <2>1 DEF Owned
  <2>2. CASE q \in Item
    <3>1. row[q].parent \in Service
      BY <1>2, <1>3, <2>2 DEF Owned
    <3>2. row[q].parent = s
      BY <1>3, <3>1, KindsAssumption DEF Below, ItemsOf, OptionsOf
    <3> QED BY <1>3, <2>2, <3>2 DEF Below, ItemsOf
  <2>3. CASE q \in Option
    <3>1. row[q].parent \in Item
      BY <1>2, <1>3, <2>3 DEF Owned
    <3>2. row[q].parent \in ItemsOf(s)
      BY <1>3, <3>1, KindsAssumption DEF Below, ItemsOf, OptionsOf
    <3> QED BY <1>3, <2>3, <3>2 DEF Below, OptionsOf
  <2> QED BY <2>1, <2>2, <2>3 DEF Id
<1> HIDE DEF rows
<1> QED BY <1>1, <1>3, DeleteKeeps

LEMMA DeleteItemKeeps ==
  ASSUME CatalogInv, NEW i \in Item, DeleteItem(i)
  PROVE CatalogInv'
<1> DEFINE rows == {i} \cup OptionsOf({i})
<1>1. Delete(rows) /\ rows \in SUBSET Id
  BY DEF DeleteItem, OptionsOf, Id
<1>2. Owned /\ None \notin Id
  BY CatalogParts
<1>3. ASSUME NEW q \in Id, Live(q), row[q].parent \in rows
      PROVE q \in rows
  <2>1. CASE q \in Service
    BY <1>1, <1>2, <1>3, <2>1 DEF Owned
  <2>2. CASE q \in Item
    <3>1. row[q].parent \in Service
      BY <1>2, <1>3, <2>2 DEF Owned
    <3> QED BY <1>3, <3>1, KindsAssumption DEF OptionsOf
  <2>3. CASE q \in Option
    <3>1. row[q].parent \in Item
      BY <1>2, <1>3, <2>3 DEF Owned
    <3>2. row[q].parent = i
      BY <1>3, <3>1, KindsAssumption DEF OptionsOf
    <3> QED BY <1>3, <2>3, <3>2 DEF OptionsOf
  <2> QED BY <2>1, <2>2, <2>3 DEF Id
<1> HIDE DEF rows
<1> QED BY <1>1, <1>3, DeleteKeeps

LEMMA DeleteOptionKeeps ==
  ASSUME CatalogInv, NEW o \in Option, DeleteOption(o)
  PROVE CatalogInv'
<1>1. Delete({o}) /\ {o} \in SUBSET Id
  BY DEF DeleteOption, Id
<1>2. Owned /\ None \notin Id
  BY CatalogParts
<1>3. ASSUME NEW q \in Id, Live(q), row[q].parent \in {o}
      PROVE q \in {o}
  BY <1>1, <1>2, <1>3, KindsAssumption DEF Owned, Id
<1> QED BY <1>1, <1>3, DeleteKeeps

-----------------------------------------------------------------------------
(* An activation reaches the rows below its service *)

\* The rows that an activation decides, all pending before.
LEMMA ActivatedStep ==
  ASSUME CatalogInv, NEW rows \in SUBSET Id, Writes(rows, [r \in rows |-> Activated(r)]),
         NEW late \in SUBSET Id, Decides(rows, "approved", late),
         \A r \in rows : Live(r) /\ r \notin Service
  PROVE /\ HistoryType' /\ Unused' /\ DecisionsStand' /\ Owned'
        /\ \A r \in rows : row'[r].approval = "approved"
        /\ \A q \in Id \ rows : row'[q] = row[q]
        /\ \A q \in Id : Live(q)' = Live(q) /\ row'[q].parent = row[q].parent
        /\ HandlersTyped' /\ Whole' => CatalogInv'
<1> DEFINE new == [r \in rows |-> Activated(r)]
<1>1. /\ CatalogType /\ Owned /\ Unused /\ DecisionsStand /\ row \in [Id -> Row] /\ None \notin Id
  BY CatalogParts
<1>2. ASSUME NEW r \in rows
      PROVE /\ new[r] \in Row /\ new[r].life = "live" /\ new[r].approval = "approved"
            /\ new[r].parent = row[r].parent /\ new[r].name = row[r].name
            /\ Placed(r, new[r])
  <2> DEFINE x == [row[r] EXCEPT !.approval = "approved", !.shown = TRUE, !.sync = "synced",
                     !.candidate = None]
  <2>1. row[r] \in Row /\ row[r].life = "live"
    BY <1>1 DEF Live
  <2>2. /\ x \in Row /\ x.life = "live" /\ x.parent = row[r].parent /\ x.name = row[r].name
        /\ x.approval = "approved"
    BY <2>1 DEF Row, Approval
  <2>3. new[r] = x
    BY DEF Activated
  <2> HIDE DEF x, new
  <2> QED BY <2>1, <2>2, <2>3 DEF Placed
<1>3. Writes(rows, new)
  OBVIOUS
<1> HIDE DEF new
<1>4. "approved" \in Approval \cup {"none"}
  BY DEF Approval
<1>5. HistoryType' /\ Unused' /\ DecisionsStand' /\ raced \subseteq raced' \cup rows
  BY <1>1, <1>2, <1>3, <1>4, DecidesKeep
<1>6. /\ \A r \in rows : row'[r] = new[r]
      /\ \A r \in Id \ rows : row'[r] = row[r]
  <2>1. row' = [r \in Id |-> IF r \in rows THEN new[r] ELSE row[r]]
    BY <1>3 DEF Writes
  <2> QED BY <2>1
<1>7. \A q \in Id : Live(q)' = Live(q) /\ row'[q].parent = row[q].parent
  BY <1>2, <1>6 DEF Live
<1>8. Service \subseteq Id /\ Item \subseteq Id /\ Option \subseteq Id
  BY DEF Id
<1>9. Owned'
  BY <1>1, <1>7, <1>8 DEF Owned, Live
<1>10. ASSUME HandlersTyped', Whole' PROVE CatalogInv'
  BY <1>2, <1>3, <1>5, <1>9, <1>10, WritesKeep
<1> QED BY <1>2, <1>5, <1>6, <1>7, <1>9, <1>10

\* What an activation decides is no longer to be reached; nothing is added.
LEMMA ActivatedRest ==
  ASSUME CatalogInv, NEW rows \in SUBSET Id, NEW late,
         \A r \in rows : row'[r].approval = "approved",
         \A q \in Id \ rows : row'[q] = row[q],
         \A q \in Id : Live(q)' = Live(q) /\ row'[q].parent = row[q].parent,
         excused' = (excused \ rows) \cup late,
         NEW s \in Service, NEW q \in Rest(s)'
  PROVE /\ q \in Rest(s) /\ q \in Id /\ row'[q].parent = row[q].parent
        /\ q \notin rows /\ q \notin late
<1>1. Service \subseteq Id /\ Item \subseteq Id /\ Option \subseteq Id
  BY DEF Id
<1>2. RestOf(q, s)'
  BY RestRow
<1>3. /\ q \in Id /\ q \notin rows /\ q \notin late /\ q \notin excused
      /\ Live(q) /\ row[q].approval = "pending"
  BY <1>1, <1>2 DEF RestOf
<1>4. RestOf(q, s)
  <2>1. CASE q \in Item /\ row'[q].parent = s
    BY <2>1, <1>3 DEF RestOf
  <2>2. CASE q \in Option /\ (row[q].parent \in Item /\ Live(row[q].parent)
                              /\ row[row[q].parent].parent = s)'
    <3>1. Owned
      BY CatalogParts
    <3>2. row[q].parent \in Item /\ Live(row[q].parent)
      BY <2>2, <3>1, <1>3 DEF Owned
    <3> QED BY <2>2, <3>2, <1>1, <1>3 DEF RestOf
  <2> QED BY <1>2, <2>1, <2>2 DEF RestOf
<1> QED BY <1>3, <1>4, RestRow

LEMMA ActivateItemsKeeps ==
  ASSUME CatalogInv, NEW w \in Worker, ActivateItems(w)
  PROVE CatalogInv'
<1> DEFINE s == handler[w].service
           chosen == Pending(ItemsOf(s))
           late == Pending(OptionsOf(ItemsOf(s) \ chosen))
<1>1. HandlersTyped /\ Whole /\ Owned /\ None \notin Id
  BY CatalogParts
<1>2. /\ handler[w].stage = "items"
      /\ Writes(chosen, [i \in chosen |-> Activated(i)])
      /\ Decides(chosen, "approved", late)
      /\ handler' = IF chosen = {} THEN [handler EXCEPT ![w] = Idle]
                    ELSE [handler EXCEPT ![w].stage = "options", ![w].items = chosen]
  BY DEF ActivateItems, At, Finish
<1>3. s \in Service
  BY <1>1, <1>2 DEF HandlersTyped
<1>4. /\ chosen \in SUBSET Id /\ chosen \subseteq Item /\ late \in SUBSET Id
      /\ \A i \in chosen : Live(i) /\ i \notin Service
  BY KindsAssumption DEF Pending, ItemsOf, OptionsOf, Id
<1>5. \A q : /\ q \in chosen <=> /\ q \in Item /\ Live(q) /\ row[q].parent = s
                                /\ row[q].approval = "pending"
             /\ q \in late <=> /\ q \in Option /\ Live(q) /\ row[q].approval = "pending"
                               /\ row[q].parent \in ItemsOf(s) \ chosen
  BY DEF Pending, ItemsOf, OptionsOf
<1>6. excused' = (excused \ chosen) \cup late
  BY <1>2 DEF Decides
<1>7. \A q : q \in ItemsOf(s) <=> q \in Item /\ Live(q) /\ row[q].parent = s
  BY DEF ItemsOf
<1> HIDE DEF chosen, late
<1>8. /\ \A r \in chosen : row'[r].approval = "approved"
      /\ \A q \in Id \ chosen : row'[q] = row[q]
      /\ \A q \in Id : Live(q)' = Live(q) /\ row'[q].parent = row[q].parent
      /\ HandlersTyped' /\ Whole' => CatalogInv'
  BY <1>2, <1>4, ActivatedStep
<1>9. /\ HandlersTyped'
      /\ \A v \in Worker : v # w => handler'[v] = handler[v]
      /\ chosen # {} => /\ handler'[w].stage = "options" /\ handler'[w].service = s
                       /\ handler'[w].items = chosen
  <2>1. CASE chosen = {}
    <3>1. handler' = [handler EXCEPT ![w] = Idle]
      BY <1>2, <2>1
    <3> QED BY <1>1, <2>1, <3>1, IdleType, MoveType
  <2>2. CASE chosen # {}
    <3> DEFINE h == [handler[w] EXCEPT !.stage = "options", !.items = chosen]
    <3>1. /\ h \in HandlerRow /\ h.stage = "options" /\ h.service = s /\ h.items = chosen
          /\ h.op = handler[w].op /\ h.candidate = handler[w].candidate
      BY <1>1, <1>4 DEF HandlersTyped, HandlerRow
    <3>2. handler' = [handler EXCEPT ![w] = h]
      BY <1>1, <1>2, <2>2 DEF HandlersTyped, HandlerRow
    <3>3. h.op = "apply" => h.candidate # None
      BY <1>1, <3>1 DEF HandlersTyped
    <3> HIDE DEF h
    <3>4. HandlersTyped' /\ handler'[w] = h /\ \A v \in Worker : v # w => handler'[v] = handler[v]
      BY <1>1, <1>3, <3>1, <3>2, <3>3, MoveType
    <3> QED BY <3>1, <3>4
  <2> QED BY <2>1, <2>2
<1>10. Service \subseteq Id /\ Item \subseteq Id /\ Option \subseteq Id
  BY DEF Id
<1>11. ASSUME NEW t \in Service, NEW q \in Rest(t)'
       PROVE /\ q \in Rest(t) /\ q \in Id /\ row'[q].parent = row[q].parent
             /\ q \notin chosen /\ q \notin late
  BY <1>4, <1>6, <1>8, ActivatedRest
<1>12. ASSUME NEW q \in Rest(s), q \notin chosen, q \notin late
       PROVE q \in OptionsOf(chosen)
  <2>1. RestOf(q, s)
    BY RestRow
  <2>2. q \in Option /\ Live(q) /\ row[q].parent \in ItemsOf(s) /\ row[q].approval = "pending"
    BY <2>1, <1>5, <1>7, <1>12 DEF RestOf
  <2>3. row[q].parent \in chosen
    BY <2>2, <1>5, <1>12
  <2> QED BY <2>2, <2>3 DEF OptionsOf
<1>13. Whole'
  <2> SUFFICES ASSUME NEW t \in Service PROVE WholeAt(t)'
    BY DEF Whole
  <2>1. CASE t = s
    <3>1. \A q \in Rest(t)' : q \in OptionsOf(chosen)
      <4> SUFFICES ASSUME NEW q \in Rest(t)' PROVE q \in OptionsOf(chosen)
        OBVIOUS
      <4>1. q \in Rest(t) /\ q \notin chosen /\ q \notin late
        BY <1>11
      <4> QED BY <2>1, <4>1, <1>12
    <3>2. CASE chosen = {}
      <4>1. OptionsOf(chosen) = {}
        BY <3>2 DEF OptionsOf
      <4> QED BY <3>1, <4>1 DEF WholeAt
    <3>3. CASE chosen # {}
      <4>1. OptionsOf(handler[w].items)' = OptionsOf(chosen)
        BY <1>8, <1>9, <1>10, <3>3 DEF OptionsOf
      <4> QED BY <1>9, <2>1, <3>1, <3>3, <4>1 DEF WholeAt, Reaches
    <3> QED BY <3>2, <3>3
  <2>2. CASE t # s
    <3>1. \A v \in Worker : Reaches(v, t) => handler'[v] = handler[v]
      BY <2>2, <1>9 DEF Reaches
    <3>2. Live(t)' /\ row'[t].approval = "approved" => Live(t) /\ row[t].approval = "approved"
      BY <1>4, <1>8, <1>10
    <3> QED BY <1>1, <1>11, <3>1, <3>2, WholeKeeps DEF Whole
  <2> QED BY <2>1, <2>2
<1> QED BY <1>8, <1>9, <1>13

LEMMA ActivateOptionsKeeps ==
  ASSUME CatalogInv, NEW w \in Worker, ActivateOptions(w)
  PROVE CatalogInv'
<1> DEFINE options == Pending(OptionsOf(handler[w].items))
<1>1. HandlersTyped /\ Whole /\ Owned /\ None \notin Id
  BY CatalogParts
<1>2. /\ handler[w].stage = "options"
      /\ Writes(options, [o \in options |-> Activated(o)])
      /\ Decides(options, "approved", {})
      /\ handler' = [handler EXCEPT ![w] = Idle]
  BY DEF ActivateOptions, At, Finish
<1>3. /\ options \in SUBSET Id /\ {} \in SUBSET Id
      /\ \A o \in options : Live(o) /\ o \notin Service
  BY KindsAssumption DEF Pending, OptionsOf, Id
<1>4. \A q : q \in OptionsOf(handler[w].items) /\ row[q].approval = "pending" => q \in options
  BY DEF Pending
<1>5. excused' = (excused \ options) \cup {}
  BY <1>2 DEF Decides
<1> HIDE DEF options
<1>6. /\ \A r \in options : row'[r].approval = "approved"
      /\ \A q \in Id \ options : row'[q] = row[q]
      /\ \A q \in Id : Live(q)' = Live(q) /\ row'[q].parent = row[q].parent
      /\ HandlersTyped' /\ Whole' => CatalogInv'
  BY <1>2, <1>3, ActivatedStep
<1>7. HandlersTyped' /\ \A v \in Worker : v # w => handler'[v] = handler[v]
  BY <1>1, <1>2, IdleType, MoveType
<1>8. Service \subseteq Id
  BY DEF Id
<1>9. ASSUME NEW t \in Service, NEW q \in Rest(t)'
      PROVE q \in Rest(t) /\ row'[q].parent = row[q].parent /\ q \notin options
  BY <1>3, <1>5, <1>6, ActivatedRest
<1>10. ASSUME NEW t \in Service, Reaches(w, t)
       PROVE Rest(t)' = {}
  <2>1. Rest(t) \subseteq OptionsOf(handler[w].items)
    BY <1>2, <1>10 DEF Reaches
  <2>2. ASSUME NEW q \in Rest(t)' PROVE FALSE
    <3>1. q \in Rest(t) /\ q \notin options
      BY <1>9
    <3>2. row[q].approval = "pending"
      BY <3>1, RestRow DEF RestOf
    <3> QED BY <2>1, <3>1, <3>2, <1>4
  <2> QED BY <2>2
<1>11. Whole'
  <2> SUFFICES ASSUME NEW t \in Service PROVE WholeAt(t)'
    BY DEF Whole
  <2>1. \A v \in Worker : Reaches(v, t) => handler'[v] = handler[v] \/ Rest(t)' = {}
    BY <1>7, <1>10
  <2>2. Live(t)' /\ row'[t].approval = "approved" => Live(t) /\ row[t].approval = "approved"
    BY <1>3, <1>6, <1>8
  <2> QED BY <1>1, <1>9, <2>1, <2>2, WholeKeeps DEF Whole
<1> QED BY <1>6, <1>7, <1>11

-----------------------------------------------------------------------------
(* The invariant holds *)

LEMMA CatalogInit ==
  ASSUME Init
  PROVE CatalogInv
<1>1. /\ row = [r \in Id |-> NoRow] /\ extraction = Quiet /\ handler = [w \in Worker |-> Idle]
      /\ doubled = {} /\ decided = [r \in Id |-> "none"]
      /\ accepted = [r \in Id |-> Missing] /\ raced = {} /\ excused = {}
  BY DEF Init
<1>2. Service \subseteq Id /\ Item \subseteq Id /\ Option \subseteq Id
  BY DEF Id
<1>3. \A r \in Id : row[r] = NoRow /\ ~Live(r)
  BY <1>1 DEF NoRow, Live
<1>4. row \in [Id -> Row]
  BY <1>1, NoRowType
<1>5. \A w \in Worker : handler[w] = Idle /\ handler[w] \in HandlerRow
  BY <1>1, IdleType
<1>6. CatalogType
  <2>1. HistoryType
    BY <1>1 DEF HistoryType, StoredPrice
  <2>2. handler \in [Worker -> HandlerRow]
    BY <1>1, IdleType
  <2> QED BY <1>1, <1>4, <1>5, <2>1, <2>2, QuietType, IdleType DEF CatalogType
<1>7. Owned /\ Unused /\ Priced /\ DecisionsStand /\ InsertedOnce
  BY <1>1, <1>2, <1>3 DEF Owned, Unused, Priced, DecisionsStand, InsertedOnce, Alike, NoRow
<1>8. SeenNow /\ FoundAlone
  BY <1>1, QuietType DEF SeenNow, FoundAlone
<1>9. Whole
  BY <1>2, <1>3 DEF Whole, WholeAt
<1> QED BY <1>6, <1>7, <1>8, <1>9 DEF CatalogInv

LEMMA CatalogNext ==
  ASSUME CatalogInv, [Next]_vars
  PROVE CatalogInv'
<1>1. CASE ExtractionBegin
  BY <1>1, CatalogBeginKeeps, FlatBeginKeeps DEF ExtractionBegin
<1>2. CASE ExtractionStep
  BY <1>2, FindServiceKeeps, WriteServiceKeeps, FindItemKeeps, WriteItemKeeps, FindOptionKeeps,
     WriteOptionKeeps, FlatFindKeeps, FlatWriteKeeps, ListStaleKeeps, MarkStaleKeeps,
     ExtractionFailsKeeps DEF ExtractionStep
<1>3. ASSUME NEW w \in Worker, HandlerStep(w)
      PROVE CatalogInv'
  BY <1>3, ApproveWriteKeeps, ApplyWriteKeeps, IgnoreWriteKeeps, DeactivateWriteKeeps,
     BookingWriteKeeps, ActivateCheckKeeps, ActivateItemsKeeps, ActivateOptionsKeeps,
     HandlerFailsKeeps DEF HandlerStep
<1>4. ASSUME NEW w \in Worker, NEW s \in Service, HandlerBegin(w, s)
      PROVE CatalogInv'
  <2>1. ASSUME NEW op \in HandlerOp \ {"apply"}, Begin(w, op, s, None)
        PROVE CatalogInv'
    BY <2>1, BeginKeeps
  <2>2. CASE ApplyBegin(w, s)
    <3>1. row[s].candidate \in Price \cup {Missing, None} /\ row[s].candidate # None
      BY <2>2, CatalogParts DEF ApplyBegin, Id, Row
    <3> QED BY <2>2, <3>1, BeginKeeps DEF ApplyBegin, HandlerOp
  <2> QED BY <1>4, <2>1, <2>2 DEF HandlerBegin, ApproveBegin, IgnoreBegin, DeactivateBegin,
                                  BookingBegin, HandlerOp
<1>5. ASSUME NEW s \in Service, ServiceEdit(s)
      PROVE CatalogInv'
  BY <1>5, RejectServiceKeeps, PatchKeeps, DeleteServiceKeeps DEF ServiceEdit, PatchService, Id
<1>6. ASSUME NEW i \in Item, ItemEdit(i)
      PROVE CatalogInv'
  BY <1>6, PatchKeeps, DeleteItemKeeps DEF ItemEdit, PatchItem, Id
<1>7. ASSUME NEW o \in Option, OptionEdit(o)
      PROVE CatalogInv'
  BY <1>7, PatchKeeps, DeleteOptionKeeps DEF OptionEdit, PatchOption, Id
<1>8. CASE Creation
  BY <1>8, CreateServiceKeeps, CreateItemKeeps, CreateOptionKeeps DEF Creation
<1>9. CASE UNCHANGED vars
  <2>1. UNCHANGED <<row, handler, Histories>> /\ UNCHANGED extraction
    BY <1>9 DEF vars, Histories
  <2>2. CatalogType' /\ SeenNow' /\ FoundAlone'
    BY <2>1 DEF CatalogInv, CatalogType, HistoryType, SeenNow, FoundAlone, Sought, Live, Seen,
                Histories
  <2> QED BY <2>1, <2>2, RowsKeep DEF CatalogInv
<1> QED BY <1>1, <1>2, <1>3, <1>4, <1>5, <1>6, <1>7, <1>8, <1>9 DEF Next

\* The inductive invariant of the catalogue.
THEOREM CatalogInvariant == Spec => []CatalogInv
<1>1. Init => CatalogInv
  BY CatalogInit
<1>2. CatalogInv /\ [Next]_vars => CatalogInv'
  BY CatalogNext
<1> QED BY <1>1, <1>2, PTL DEF Spec

\* Rows, histories and what is under way keep their types, and every item and
\* option hangs below its service, although deletions cascade between the
\* requests of extractions and approvals.
THEOREM CatalogTypeCorrect == Spec => []TypeOK
<1>1. CatalogInv => TypeOK
  BY DEF CatalogInv, CatalogType, HistoryType, Owned, TypeOK, ExtractionRow, SeenRow, HandlerRow,
         StoredPrice
<1> QED BY <1>1, CatalogInvariant, PTL

\* No extraction takes back what the administrator decided, unless it had
\* looked the row up before (service_repo.py, service_catalog_repo.py).
THEOREM ExtractionsKeepDecisions == Spec => []DecisionsStand
<1>1. CatalogInv => DecisionsStand
  BY DEF CatalogInv
<1> QED BY <1>1, CatalogInvariant, PTL

\* A customer is quoted the price of the administrator's last write.
THEOREM QuotesAreAccepted == Spec => []QuotedPriceAccepted
<1>1. CatalogInv => QuotedPriceAccepted
  BY DEF CatalogInv, Priced, QuotedPriceAccepted, OfferedServices, OfferedItems, OfferedOptions,
         Approved, Quoted, Id
<1> QED BY <1>1, CatalogInvariant, PTL

\* Nothing below an approved service is left pending but what the histories
\* excuse, whatever comes between the three requests of an activation.
THEOREM ActivationsAreWhole == Spec => []ActivationIsWhole
<1>1. ASSUME CatalogInv PROVE ActivationIsWhole
  <2> SUFFICES ASSUME NEW s \in Service, Live(s), row[s].approval = "approved"
               PROVE \/ Pending(Below(s)) \subseteq excused
                     \/ \E w \in Worker : Activating(w) /\ handler[w].service = s
    BY DEF ActivationIsWhole
  <2>1. WholeAt(s)
    BY <1>1 DEF CatalogInv, Whole
  <2>2. CASE Rest(s) = {}
    BY <2>2 DEF Rest
  <2>3. ASSUME NEW w \in Worker, Reaches(w, s)
        PROVE Activating(w) /\ handler[w].service = s
    BY <2>3 DEF Reaches, Activating
  <2> QED BY <2>1, <2>2, <2>3 DEF WholeAt
<1> QED BY <1>1, CatalogInvariant, PTL

\* An extraction finds every row that has the name it looks up, and inserts one
\* only where there is none: whatever is renamed and by whichever request, two
\* siblings have one name only where the administrator gave it to a second.
THEOREM ExtractionsInsertOnce == Spec => []InsertedOnce
<1>1. CatalogInv => InsertedOnce
  BY DEF CatalogInv
<1> QED BY <1>1, CatalogInvariant, PTL

-----------------------------------------------------------------------------
(* Sums over finite sets.  FoldFunctionOnSet is a CHOOSE of a function that   *)
(* solves a recursive equation on the subsets of a set; inclusion is well     *)
(* founded among them, so there is one solution, and a fact about all sums    *)
(* holds when it has no smallest counterexample.                              *)

\* The element a fold takes next.
Pick(s) == CHOOSE x \in s : TRUE

\* What FoldFunctionOnSet chooses.
SumsUp(f, S, iter) ==
    iter = [s \in SUBSET S |-> IF s = {} THEN 0 ELSE f[Pick(s)] + iter[s \ {Pick(s)}]]

LEMMA SumUnfold ==
    ASSUME NEW f, NEW S
    PROVE SumFunctionOnSet(f, S) = (CHOOSE iter : SumsUp(f, S, iter))[S]
BY DEF SumFunctionOnSet, FoldFunctionOnSet, MapThenFoldSet, Pick, SumsUp

\* Among subsets of a finite set there is one that contains no other.
LEMMA SmallestSubset ==
    ASSUME NEW S, IsFiniteSet(S), NEW T, T \subseteq SUBSET S, T # {}
    PROVE \E m \in T : \A t \in T : t \subseteq m => t = m
<1> DEFINE R == StrictSubsetOrdering(S)
<1>1. IsWellFoundedOn(R, SUBSET S)
  BY FS_StrictSubsetOrderingWellFounded, FS_FiniteSubsetsOfFinite
<1>2. PICK m \in T : \A t \in T : <<t, m>> \notin R
  <2> HIDE DEF R
  <2>1. QED
    BY <1>1, WFMin
<1>3. ASSUME NEW t \in T, t \subseteq m PROVE t = m
  BY <1>2, <1>3 DEF StrictSubsetOrdering
<1>4. QED
  BY <1>3

\* The sum of f over S.
Total(f, S) == SumFunctionOnSet(f, S)

LEMMA PickIn == ASSUME NEW s, s # {} PROVE Pick(s) \in s
BY DEF Pick

LEMMA SumsUpIs ==
    ASSUME NEW f, NEW S, NEW g, SumsUp(f, S, g), NEW s \in SUBSET S
    PROVE g[s] = IF s = {} THEN 0 ELSE f[Pick(s)] + g[s \ {Pick(s)}]
BY DEF SumsUp

LEMMA SumsUpUnique ==
    ASSUME NEW f, NEW S, IsFiniteSet(S), NEW g, NEW h, SumsUp(f, S, g), SumsUp(f, S, h)
    PROVE g = h
<1> DEFINE bad == {s \in SUBSET S : g[s] # h[s]}
<1>1. bad = {}
  <2> SUFFICES ASSUME bad # {} PROVE FALSE
    OBVIOUS
  <2>1. bad \subseteq SUBSET S
    OBVIOUS
  <2>2. PICK m \in bad : \A t \in bad : t \subseteq m => t = m
    <3> HIDE DEF bad
    <3>1. QED
      BY <2>1, SmallestSubset
  <2>3. m \in SUBSET S
    OBVIOUS
  <2>4. g[m] = IF m = {} THEN 0 ELSE f[Pick(m)] + g[m \ {Pick(m)}]
    <3> HIDE DEF bad
    <3>1. SumsUp(f, S, g)
      OBVIOUS
    <3>2. QED
      BY <2>3, <3>1, SumsUpIs
  <2>5. h[m] = IF m = {} THEN 0 ELSE f[Pick(m)] + h[m \ {Pick(m)}]
    BY <2>3, SumsUpIs
  <2>6. m # {}
    BY <2>4, <2>5
  <2>7. Pick(m) \in m
    BY <2>6, PickIn
  <2>8. m \ {Pick(m)} \notin bad
    BY <2>2, <2>7
  <2>9. g[m \ {Pick(m)}] = h[m \ {Pick(m)}]
    BY <2>3, <2>8
  <2>10. QED
    BY <2>4, <2>5, <2>6, <2>9
<1>2. \A s \in SUBSET S : g[s] = h[s]
  BY <1>1
<1>3. /\ g = [s \in SUBSET S |-> IF s = {} THEN 0 ELSE f[Pick(s)] + g[s \ {Pick(s)}]]
      /\ h = [s \in SUBSET S |-> IF s = {} THEN 0 ELSE f[Pick(s)] + h[s \ {Pick(s)}]]
  BY DEF SumsUp
<1>4. DOMAIN g = SUBSET S /\ DOMAIN h = SUBSET S
      /\ g = [s \in SUBSET S |-> g[s]] /\ h = [s \in SUBSET S |-> h[s]]
  BY <1>3
<1> HIDE DEF bad
<1>5. QED
  BY <1>2, <1>4

LEMMA SumsUpBelow ==
    ASSUME NEW f, NEW S, NEW g, SumsUp(f, S, g), NEW U \in SUBSET S
    PROVE SumsUp(f, U, [s \in SUBSET U |-> g[s]])
<1> DEFINE h == [s \in SUBSET U |-> g[s]]
<1>1. ASSUME NEW s \in SUBSET U
      PROVE h[s] = IF s = {} THEN 0 ELSE f[Pick(s)] + h[s \ {Pick(s)}]
  <2>1. g[s] = IF s = {} THEN 0 ELSE f[Pick(s)] + g[s \ {Pick(s)}]
    BY SumsUpIs
  <2>2. h[s] = g[s] /\ h[s \ {Pick(s)}] = g[s \ {Pick(s)}]
    OBVIOUS
  <2>3. QED
    BY <2>1, <2>2
<1>2. h = [s \in SUBSET U |-> h[s]]
  OBVIOUS
<1> HIDE DEF h
<1>3. h = [s \in SUBSET U |-> IF s = {} THEN 0 ELSE f[Pick(s)] + h[s \ {Pick(s)}]]
  BY <1>1, <1>2
<1>4. QED
  BY <1>3 DEF SumsUp, h

LEMMA TotalIs ==
    ASSUME NEW f, NEW S, IsFiniteSet(S), NEW g, SumsUp(f, S, g)
    PROVE Total(f, S) = g[S]
<1> DEFINE h == CHOOSE iter : SumsUp(f, S, iter)
<1>1. SumsUp(f, S, h)
  OBVIOUS
<1> HIDE DEF h
<1>2. h = g
  BY <1>1, SumsUpUnique
<1>3. QED
  BY <1>2, SumUnfold DEF Total, h

LEMMA SumsUpExists ==
    ASSUME NEW f, NEW S, IsFiniteSet(S)
    PROVE \E g : SumsUp(f, S, g)
<1> DEFINE bad == {T \in SUBSET S : ~\E g : SumsUp(f, T, g)}
<1> SUFFICES ASSUME bad # {} PROVE FALSE
  OBVIOUS
<1>1. bad \subseteq SUBSET S
  OBVIOUS
<1>2. PICK m \in bad : \A t \in bad : t \subseteq m => t = m
  <2> HIDE DEF bad
  <2>1. QED
    BY <1>1, SmallestSubset
<1>3. m \in SUBSET S /\ ~\E g : SumsUp(f, m, g)
  OBVIOUS
<1>4. ASSUME NEW u \in SUBSET m, u # m PROVE u \in SUBSET S /\ \E g : SumsUp(f, u, g)
  BY <1>2, <1>3, <1>4
<1> HIDE DEF bad
<1>5. ASSUME NEW u \in SUBSET m, u # m
      PROVE Total(f, u) = IF u = {} THEN 0 ELSE f[Pick(u)] + Total(f, u \ {Pick(u)})
  <2>1. PICK g : SumsUp(f, u, g)
    BY <1>4, <1>5
  <2>2. IsFiniteSet(u) /\ IsFiniteSet(u \ {Pick(u)})
    BY <1>3, FS_Subset
  <2>3. Total(f, u) = g[u]
    BY <2>1, <2>2, TotalIs
  <2> DEFINE v == u \ {Pick(u)}
             k == [s \in SUBSET v |-> g[s]]
  <2>4. SumsUp(f, v, k)
    BY <2>1, SumsUpBelow
  <2>5. k[v] = g[v]
    OBVIOUS
  <2> HIDE DEF k
  <2>6. Total(f, v) = k[v]
    BY <2>2, <2>4, TotalIs
  <2>7. g[u] = IF u = {} THEN 0 ELSE f[Pick(u)] + g[v]
    BY <2>1, SumsUpIs
  <2>8. QED
    BY <2>3, <2>5, <2>6, <2>7
<1> DEFINE h == [s \in SUBSET m |-> IF s = {} THEN 0
                                    ELSE f[Pick(s)] + Total(f, s \ {Pick(s)})]
<1>6. ASSUME NEW u \in SUBSET m, u # m PROVE h[u] = Total(f, u)
  BY <1>5, <1>6
<1>7. ASSUME NEW s \in SUBSET m, s # {} PROVE h[s \ {Pick(s)}] = Total(f, s \ {Pick(s)})
  <2>1. Pick(s) \in s
    BY <1>7, PickIn
  <2>2. s \ {Pick(s)} \in SUBSET m /\ s \ {Pick(s)} # m
    BY <2>1
  <2> HIDE DEF h
  <2>3. QED
    BY <1>6, <2>2
<1>8. ASSUME NEW s \in SUBSET m
      PROVE h[s] = IF s = {} THEN 0 ELSE f[Pick(s)] + h[s \ {Pick(s)}]
  BY <1>7
<1>9. h = [s \in SUBSET m |-> h[s]]
  OBVIOUS
<1> HIDE DEF h
<1>10. h = [s \in SUBSET m |-> IF s = {} THEN 0 ELSE f[Pick(s)] + h[s \ {Pick(s)}]]
  BY <1>8, <1>9
<1>11. QED
  BY <1>3, <1>10 DEF SumsUp

LEMMA TotalStep ==
    ASSUME NEW f, NEW S, IsFiniteSet(S)
    PROVE Total(f, S) = IF S = {} THEN 0 ELSE f[Pick(S)] + Total(f, S \ {Pick(S)})
<1>1. PICK g : SumsUp(f, S, g)
  BY SumsUpExists
<1> DEFINE v == S \ {Pick(S)}
           k == [s \in SUBSET v |-> g[s]]
<1>2. Total(f, S) = g[S]
  BY <1>1, TotalIs
<1>3. SumsUp(f, v, k)
  BY <1>1, SumsUpBelow
<1>4. IsFiniteSet(v)
  BY FS_Subset
<1>5. k[v] = g[v]
  OBVIOUS
<1> HIDE DEF k
<1>6. Total(f, v) = k[v]
  BY <1>3, <1>4, TotalIs
<1>7. S \in SUBSET S
  OBVIOUS
<1> HIDE DEF v
<1>8. g[S] = IF S = {} THEN 0 ELSE f[Pick(S)] + g[v]
  BY <1>1, <1>7, SumsUpIs DEF v
<1>9. QED
  BY <1>2, <1>5, <1>6, <1>8 DEF v

\* The sum over no elements.
LEMMA TotalEmpty == ASSUME NEW f PROVE Total(f, {}) = 0
BY TotalStep, FS_EmptySet

\* A sum of integers is an integer.
LEMMA TotalInt ==
    ASSUME NEW f, NEW S, IsFiniteSet(S), \A x \in S : f[x] \in Int
    PROVE Total(f, S) \in Int
<1> DEFINE bad == {T \in SUBSET S : Total(f, T) \notin Int}
<1> SUFFICES ASSUME bad # {} PROVE FALSE
  OBVIOUS
<1>1. bad \subseteq SUBSET S
  OBVIOUS
<1>2. PICK m \in bad : \A t \in bad : t \subseteq m => t = m
  <2> HIDE DEF bad
  <2>1. QED
    BY <1>1, SmallestSubset
<1>3. m \in SUBSET S /\ Total(f, m) \notin Int /\ IsFiniteSet(m)
  BY FS_Subset
<1>4. Total(f, m) = IF m = {} THEN 0 ELSE f[Pick(m)] + Total(f, m \ {Pick(m)})
  BY <1>3, TotalStep
<1>5. m # {}
  BY <1>3, <1>4
<1>6. Pick(m) \in m
  BY <1>5, PickIn
<1>7. Total(f, m \ {Pick(m)}) \in Int
  BY <1>2, <1>3, <1>6
<1>8. QED
  BY <1>3, <1>4, <1>5, <1>6, <1>7

\* Functions that agree have the same sum.
LEMMA TotalSame ==
    ASSUME NEW f, NEW g, NEW S, IsFiniteSet(S), \A x \in S : f[x] = g[x]
    PROVE Total(f, S) = Total(g, S)
<1> DEFINE bad == {T \in SUBSET S : Total(f, T) # Total(g, T)}
<1> SUFFICES ASSUME bad # {} PROVE FALSE
  OBVIOUS
<1>1. bad \subseteq SUBSET S
  OBVIOUS
<1>2. PICK m \in bad : \A t \in bad : t \subseteq m => t = m
  <2> HIDE DEF bad
  <2>1. QED
    BY <1>1, SmallestSubset
<1>3. m \in SUBSET S /\ Total(f, m) # Total(g, m) /\ IsFiniteSet(m)
  BY FS_Subset
<1>4. Total(f, m) = IF m = {} THEN 0 ELSE f[Pick(m)] + Total(f, m \ {Pick(m)})
  BY <1>3, TotalStep
<1>5. Total(g, m) = IF m = {} THEN 0 ELSE g[Pick(m)] + Total(g, m \ {Pick(m)})
  BY <1>3, TotalStep
<1>6. m # {}
  BY <1>3, <1>4, <1>5
<1>7. Pick(m) \in m
  BY <1>6, PickIn
<1>8. Total(f, m \ {Pick(m)}) = Total(g, m \ {Pick(m)})
  BY <1>2, <1>3, <1>7
<1>9. QED
  BY <1>3, <1>4, <1>5, <1>6, <1>7, <1>8

\* Any element can be taken out of a sum.
LEMMA TotalWithout ==
    ASSUME NEW f, NEW S, IsFiniteSet(S), \A x \in S : f[x] \in Int, NEW a \in S
    PROVE Total(f, S) = f[a] + Total(f, S \ {a})
<1> DEFINE bad == {T \in SUBSET S : \E x \in T : Total(f, T) # f[x] + Total(f, T \ {x})}
<1> SUFFICES ASSUME bad # {} PROVE FALSE
  OBVIOUS
<1>1. bad \subseteq SUBSET S
  OBVIOUS
<1>2. PICK m \in bad : \A t \in bad : t \subseteq m => t = m
  <2> HIDE DEF bad
  <2>1. QED
    BY <1>1, SmallestSubset
<1>3. m \in SUBSET S /\ \E x \in m : Total(f, m) # f[x] + Total(f, m \ {x})
  OBVIOUS
<1>4. PICK x \in m : Total(f, m) # f[x] + Total(f, m \ {x})
  BY <1>3
<1>5. ASSUME NEW T \in SUBSET S, T \subseteq m, T # m, NEW y \in T
      PROVE Total(f, T) = f[y] + Total(f, T \ {y})
  BY <1>2, <1>5
<1> HIDE DEF bad
<1> DEFINE c == Pick(m)
<1>6. c \in m /\ Total(f, m) = f[c] + Total(f, m \ {c})
  <2>1. IsFiniteSet(m) /\ m # {}
    BY <1>3, FS_Subset
  <2>2. QED
    BY <2>1, PickIn, TotalStep
<1> HIDE DEF c
<1>7. c # x
  BY <1>4, <1>6
<1>8. Total(f, m \ {c}) = f[x] + Total(f, (m \ {c}) \ {x})
  BY <1>3, <1>5, <1>6, <1>7
<1>9. Total(f, m \ {x}) = f[c] + Total(f, (m \ {x}) \ {c})
  BY <1>3, <1>5, <1>6, <1>7
<1>10. (m \ {x}) \ {c} = (m \ {c}) \ {x}
  OBVIOUS
<1> DEFINE u == (m \ {c}) \ {x}
<1>11. u \in SUBSET S /\ IsFiniteSet(u)
  BY <1>3, FS_Subset
<1>12. Total(f, u) \in Int
  BY <1>11, TotalInt
<1>13. f[c] \in Int /\ f[x] \in Int
  BY <1>3, <1>4, <1>6
<1>14. /\ Total(f, m \ {c}) = f[x] + Total(f, u)
       /\ Total(f, m \ {x}) = f[c] + Total(f, u)
  BY <1>8, <1>9, <1>10
<1> HIDE DEF u
<1>15. f[c] + (f[x] + Total(f, u)) = f[x] + (f[c] + Total(f, u))
  BY <1>12, <1>13
<1>16. QED
  BY <1>4, <1>6, <1>14, <1>15

\* A sum of zeros is zero.
LEMMA ZeroTotal ==
    ASSUME NEW f, NEW S, IsFiniteSet(S), \A x \in S : f[x] = 0
    PROVE Total(f, S) = 0
<1> DEFINE bad == {T \in SUBSET S : Total(f, T) # 0}
<1> SUFFICES ASSUME bad # {} PROVE FALSE
  BY DEF bad
<1>1. bad \subseteq SUBSET S
  OBVIOUS
<1>2. PICK m \in bad : \A t \in bad : t \subseteq m => t = m
  <2> HIDE DEF bad
  <2>1. QED
    BY <1>1, SmallestSubset
<1>3. m \in SUBSET S /\ Total(f, m) # 0 /\ IsFiniteSet(m)
  BY FS_Subset
<1>4. Total(f, m) = IF m = {} THEN 0 ELSE f[Pick(m)] + Total(f, m \ {Pick(m)})
  BY <1>3, TotalStep
<1>5. m # {}
  BY <1>3, <1>4
<1>6. Pick(m) \in m
  BY <1>5, PickIn
<1>7. Total(f, m \ {Pick(m)}) = 0
  BY <1>2, <1>3, <1>6
<1>8. QED
  BY <1>3, <1>4, <1>5, <1>6, <1>7

-----------------------------------------------------------------------------
(* Orders and stock *)

\* A confirmation that looks at a line is at a line of the cart it read.
LineInCart ==
    \A w \in OrderWorker : request[w].stage \in {"prepare", "check", "read", "take"} =>
        request[w].cart \in Cart /\ request[w].line \in 1..Len(request[w].cart)

\* Between the two halves of decrease_product_stock the stock that was read
\* covers the line, whatever happened to the row in the meantime.
SeenCovers ==
    \A w \in OrderWorker : request[w].stage = "take" => request[w].seen >= Line(w).quantity

\* The update that ends a handler is one of those that leave a status.
WriteLeaves ==
    \A w \in OrderWorker : request[w].stage = "write" =>
        request[w].op \in {"confirm", "cancel", "ship", "deliver"}

HandlerInv == LineInCart /\ SeenCovers /\ WriteLeaves

\* The inductive strengthening of StockNeverNegative.
StockInv == OrderTypeOK /\ HandlerInv /\ StockNeverNegative

HandlerType == [op : {"idle", "create", "confirm", "cancel", "ship", "deliver"},
                stage : OrderStage, order : Order \cup {NoOrder},
                cart : Cart \cup {<<>>}, line : Nat \ {0}, seen : Int]

LineType == [product : Product, quantity : Nat \ {0}]

LEMMA LineTyped ==
  ASSUME HandlerInv, NEW w \in OrderWorker, request[w].stage \in {"check", "read", "take"}
  PROVE  /\ Line(w) \in LineType
         /\ Line(w).product \in Product /\ Line(w).quantity \in Nat
<1>1. request[w].cart \in Seq(LineType) /\ request[w].line \in 1..Len(request[w].cart)
  BY CartAssumption DEF HandlerInv, LineInCart, LineType
<1>2. Line(w) \in LineType
  BY <1>1 DEF Line
<1>3. QED
  BY <1>2 DEF LineType

\* A step that gives worker w a well-typed handler and leaves the rows alone
\* keeps the invariant when the new handler does.
LEMMA HandlerMoves ==
  ASSUME StockInv, NEW w \in OrderWorker, NEW h \in HandlerType,
         request' = [request EXCEPT ![w] = h],
         h.stage \in {"prepare", "check", "read", "take"} =>
            h.cart \in Cart /\ h.line \in 1..Len(h.cart),
         h.stage = "take" => h.seen >= h.cart[h.line].quantity,
         h.stage = "write" => h.op \in {"confirm", "cancel", "ship", "deliver"}
  PROVE  /\ request' \in [OrderWorker -> HandlerType] /\ HandlerInv'
<1>1. request \in [OrderWorker -> HandlerType]
  BY DEF StockInv, OrderTypeOK, HandlerType
<1>2. request'[w] = h /\ \A v \in OrderWorker \ {w} : request'[v] = request[v]
  BY <1>1
<1>3. request' \in [OrderWorker -> HandlerType]
  BY <1>1
<1>4. LineInCart'
  BY <1>2 DEF LineInCart, StockInv, HandlerInv
<1>5. SeenCovers'
  BY <1>2 DEF SeenCovers, StockInv, HandlerInv, Line
<1>6. WriteLeaves'
  BY <1>2 DEF WriteLeaves, StockInv, HandlerInv
<1>7. QED
  BY <1>3, <1>4, <1>5, <1>6 DEF HandlerInv

LEMMA IdleTyped == NoRequest \in HandlerType
BY DEF NoRequest, HandlerType, OrderStage

LEMMA Finished ==
  ASSUME StockInv, NEW w \in OrderWorker, RequestDone(w)
  PROVE  request' \in [OrderWorker -> HandlerType] /\ HandlerInv'
<1>1. NoRequest.stage = "idle"
  BY DEF NoRequest
<1>2. QED
  BY <1>1, IdleTyped, HandlerMoves DEF RequestDone

\* Moving on to a line of the cart, or away from the lines.
LEMMA Moved ==
  ASSUME StockInv, NEW w \in OrderWorker, NEW stage \in OrderStage, NEW line \in Nat \ {0},
         RequestGoto(w, stage, line), stage # "take",
         stage \in {"prepare", "check", "read"} =>
            request[w].cart \in Cart /\ line \in 1..Len(request[w].cart),
         stage = "write" => request[w].op \in {"confirm", "cancel", "ship", "deliver"}
  PROVE  request' \in [OrderWorker -> HandlerType] /\ HandlerInv'
<1> DEFINE h == [request[w] EXCEPT !.stage = stage, !.line = line]
<1>1. request \in [OrderWorker -> HandlerType]
  BY DEF StockInv, OrderTypeOK, HandlerType
<1>2. request' = [request EXCEPT ![w] = h]
  BY <1>1 DEF RequestGoto
<1>3. /\ h \in HandlerType /\ h.stage = stage /\ h.line = line /\ h.cart = request[w].cart
      /\ h.op = request[w].op
  BY <1>1 DEF HandlerType
<1> HIDE DEF h
<1>4. QED
  BY <1>2, <1>3, HandlerMoves

\* The rest of the invariant does not look at the handlers.
LEMMA RowsAlone ==
  ASSUME StockInv, UNCHANGED <<status, items, stock, taken, torn>>,
         request' \in [OrderWorker -> HandlerType] /\ HandlerInv'
  PROVE  StockInv'
BY DEF StockInv, OrderTypeOK, StockNeverNegative, HandlerType

-----------------------------------------------------------------------------
LEMMA StockInit == OrderInit => StockInv
<1> SUFFICES ASSUME OrderInit PROVE StockInv
  OBVIOUS
<1>1. request = [w \in OrderWorker |-> NoRequest] /\ NoRequest.stage = "idle"
  BY DEF OrderInit, NoRequest
<1>2. request \in [OrderWorker -> HandlerType] /\ HandlerInv
  BY <1>1, IdleTyped DEF HandlerInv, LineInCart, SeenCovers, WriteLeaves
<1>3. OrderTypeOK
  BY <1>2, StockAssumption DEF OrderInit, OrderTypeOK, HandlerType, Status
<1>4. StockNeverNegative
  BY StockAssumption DEF OrderInit, StockNeverNegative
<1>5. QED
  BY <1>2, <1>3, <1>4 DEF StockInv

-----------------------------------------------------------------------------
(* One lemma for each kind of step. *)

LEMMA CreateKeeps ==
  ASSUME StockInv, NEW w \in OrderWorker,
         \/ \E c \in Cart : CreateBegin(w, c)
         \/ CreatePrepare(w)
         \/ \E o \in Order : CreateInsertOrder(w, o)
         \/ CreateInsertItems(w)
  PROVE  StockInv'
<1>1. request \in [OrderWorker -> HandlerType]
  BY DEF StockInv, OrderTypeOK, HandlerType
<1>2. CASE \E c \in Cart : CreateBegin(w, c)
  <2> PICK c \in Cart : CreateBegin(w, c)
    BY <1>2
  <2> DEFINE h == [NoRequest EXCEPT !.op = "create", !.stage = "prepare", !.cart = c]
  <2>1. h \in HandlerType /\ h.stage = "prepare" /\ h.cart = c /\ h.line = 1
    BY IdleTyped DEF HandlerType, OrderStage, NoRequest
  <2>2. request' = [request EXCEPT ![w] = h]
    BY DEF CreateBegin
  <2> HIDE DEF h
  <2>5. h.line \in 1..Len(h.cart)
    BY <2>1, CartAssumption
  <2>3. request' \in [OrderWorker -> HandlerType] /\ HandlerInv'
    BY <2>1, <2>2, <2>5, HandlerMoves
  <2>4. QED
    BY <2>3, RowsAlone DEF CreateBegin
<1>6. CASE CreatePrepare(w)
  <2>1. request[w].stage = "prepare"
    BY <1>6 DEF CreatePrepare, RequestAt
  <2>2. request[w].cart \in Cart /\ request[w].line \in 1..Len(request[w].cart)
    BY <2>1 DEF StockInv, HandlerInv, LineInCart
  <2>3. Len(request[w].cart) \in Nat
    BY <2>2, CartAssumption
  <2>4. CASE ~Available(Line(w))
    BY <1>6, <2>4, Finished, RowsAlone DEF CreatePrepare
  <2>5. CASE Available(Line(w)) /\ LastLine(w)
    <3>1. RequestGoto(w, "order", 1)
      BY <1>6, <2>5 DEF CreatePrepare
    <3>2. request' \in [OrderWorker -> HandlerType] /\ HandlerInv'
      BY <3>1, Moved DEF OrderStage
    <3>3. QED
      BY <1>6, <3>2, RowsAlone DEF CreatePrepare
  <2>6. CASE Available(Line(w)) /\ ~LastLine(w)
    <3>1. RequestGoto(w, "prepare", request[w].line + 1)
      BY <1>6, <2>6 DEF CreatePrepare
    <3>2. request[w].line + 1 \in 1..Len(request[w].cart)
      BY <2>2, <2>3, <2>6 DEF LastLine
    <3>3. request' \in [OrderWorker -> HandlerType] /\ HandlerInv'
      BY <2>2, <3>1, <3>2, Moved DEF OrderStage
    <3>4. QED
      BY <1>6, <3>3, RowsAlone DEF CreatePrepare
  <2>7. QED
    BY <2>4, <2>5, <2>6
<1>3. CASE \E o \in Order : CreateInsertOrder(w, o)
  <2> PICK o \in Order : CreateInsertOrder(w, o)
    BY <1>3
  <2> DEFINE h == [request[w] EXCEPT !.stage = "items", !.order = o]
  <2>1. h \in HandlerType /\ h.stage = "items"
    BY <1>1 DEF HandlerType, OrderStage
  <2>2. request' = [request EXCEPT ![w] = h]
    BY <1>1 DEF CreateInsertOrder
  <2> HIDE DEF h
  <2>3. request' \in [OrderWorker -> HandlerType] /\ HandlerInv'
    BY <2>1, <2>2, HandlerMoves
  <2>4. QED
    BY <2>3 DEF CreateInsertOrder, StockInv, OrderTypeOK, StockNeverNegative, HandlerType, Status
<1>4. CASE CreateInsertItems(w)
  <2>1. request' \in [OrderWorker -> HandlerType] /\ HandlerInv'
    BY <1>4, Finished DEF CreateInsertItems
  <2>2. request[w].cart \in Cart \cup {<<>>}
    BY <1>1 DEF HandlerType
  <2>3. QED
    BY <1>4, <2>1, <2>2
    DEF CreateInsertItems, StockInv, OrderTypeOK, StockNeverNegative, HandlerType
<1>5. QED
  BY <1>2, <1>3, <1>4, <1>6

\* A confirmation starts at the first line of the cart it read, walks the lines
\* with the checks, and then walks them again to take the stock.
LEMMA ConfirmKeeps ==
  ASSUME StockInv, NEW w \in OrderWorker,
         \/ \E o \in Order : ConfirmRead(w, o)
         \/ ConfirmCheck(w)
         \/ ConfirmTakeRead(w)
  PROVE  StockInv'
<1>1. request \in [OrderWorker -> HandlerType]
  BY DEF StockInv, OrderTypeOK, HandlerType
<1>2. CASE \E o \in Order : ConfirmRead(w, o)
  <2> PICK o \in Order : ConfirmRead(w, o)
    BY <1>2
  <2> DEFINE h == [NoRequest EXCEPT !.op = "confirm", !.order = o, !.stage = "check",
                               !.cart = items[o]]
  <2>1. items[o] \in Cart
    BY DEF ConfirmRead, StockInv, OrderTypeOK
  <2>2. items[o] \in Seq(LineType) /\ items[o] # <<>>
    BY <2>1, CartAssumption DEF LineType
  <2>3. Len(items[o]) \in Nat /\ Len(items[o]) # 0
    BY <2>2
  <2>4. h \in HandlerType /\ h.stage = "check" /\ h.cart = items[o] /\ h.line = 1
    BY <2>1, IdleTyped DEF HandlerType, OrderStage, NoRequest
  <2>5. request' = [request EXCEPT ![w] = h]
    BY DEF ConfirmRead
  <2> HIDE DEF h
  <2>6. h.line \in 1..Len(h.cart)
    BY <2>3, <2>4
  <2>7. request' \in [OrderWorker -> HandlerType] /\ HandlerInv'
    BY <2>1, <2>4, <2>5, <2>6, HandlerMoves
  <2>8. QED
    BY <2>7, RowsAlone DEF ConfirmRead
<1>3. CASE ConfirmCheck(w)
  <2>1. request[w].stage = "check"
    BY <1>3 DEF ConfirmCheck, RequestAt
  <2>2. request[w].cart \in Cart /\ request[w].line \in 1..Len(request[w].cart)
    BY <2>1 DEF StockInv, HandlerInv, LineInCart
  <2>3. Len(request[w].cart) \in Nat
    BY <2>2, CartAssumption
  <2>4. CASE ~Available(Line(w))
    BY <1>3, <2>4, Finished, RowsAlone DEF ConfirmCheck
  <2>5. CASE Available(Line(w)) /\ LastLine(w)
    <3>1. RequestGoto(w, "read", 1) /\ 1 \in 1..Len(request[w].cart)
      BY <1>3, <2>2, <2>3, <2>5 DEF ConfirmCheck
    <3>2. request' \in [OrderWorker -> HandlerType] /\ HandlerInv'
      BY <2>2, <3>1, Moved DEF OrderStage
    <3>3. QED
      BY <1>3, <3>2, RowsAlone DEF ConfirmCheck
  <2>6. CASE Available(Line(w)) /\ ~LastLine(w)
    <3>1. RequestGoto(w, "check", request[w].line + 1)
      BY <1>3, <2>6 DEF ConfirmCheck
    <3>2. request[w].line + 1 \in 1..Len(request[w].cart)
      BY <2>2, <2>3, <2>6 DEF LastLine
    <3>3. request' \in [OrderWorker -> HandlerType] /\ HandlerInv'
      BY <2>2, <3>1, <3>2, Moved DEF OrderStage
    <3>4. QED
      BY <1>3, <3>3, RowsAlone DEF ConfirmCheck
  <2>7. QED
    BY <2>4, <2>5, <2>6
<1>4. CASE ConfirmTakeRead(w)
  <2>1. request[w].stage = "read"
    BY <1>4 DEF ConfirmTakeRead, RequestAt
  <2>2. request[w].cart \in Cart /\ request[w].line \in 1..Len(request[w].cart)
    BY <2>1 DEF StockInv, HandlerInv, LineInCart
  <2>3. CASE ~Available(Line(w))
    BY <1>4, <2>3, Finished, RowsAlone DEF ConfirmTakeRead
  <2>4. CASE Available(Line(w))
    <3> DEFINE h == [request[w] EXCEPT !.stage = "take", !.seen = stock[Line(w).product]]
    <3>1. stock[Line(w).product] \in Int
      BY <2>1, LineTyped DEF StockInv, OrderTypeOK
    <3>2. /\ h \in HandlerType /\ h.stage = "take" /\ h.cart = request[w].cart
          /\ h.line = request[w].line /\ h.seen = stock[Line(w).product]
      BY <1>1, <3>1 DEF HandlerType, OrderStage
    <3>3. request' = [request EXCEPT ![w] = h]
      BY <1>1, <1>4, <2>4 DEF ConfirmTakeRead
    <3> HIDE DEF h
    <3>4. h.seen >= h.cart[h.line].quantity
      BY <2>4, <3>2 DEF Available, Line
    <3>5. request' \in [OrderWorker -> HandlerType] /\ HandlerInv'
      BY <2>2, <3>2, <3>3, <3>4, HandlerMoves
    <3>6. QED
      BY <1>4, <3>5, RowsAlone DEF ConfirmTakeRead
  <2>5. QED
    BY <2>3, <2>4
<1>5. QED
  BY <1>2, <1>3, <1>4

\* The write of decrease_product_stock: the one step that changes the stock.
LEMMA TakeKeeps ==
  ASSUME StockInv, NEW w \in OrderWorker, ConfirmTakeWrite(w)
  PROVE  StockInv'
<1> DEFINE p == Line(w).product
           q == Line(w).quantity
<1>1. request \in [OrderWorker -> HandlerType]
  BY DEF StockInv, OrderTypeOK, HandlerType
<1>2. /\ request[w].stage = "take" /\ request[w].seen >= q /\ request[w].seen \in Int
      /\ request[w].order \in Order \cup {NoOrder}
      /\ request[w].cart \in Cart /\ request[w].line \in 1..Len(request[w].cart)
  BY <1>1 DEF ConfirmTakeWrite, RequestAt, StockInv, HandlerInv, SeenCovers, LineInCart, HandlerType
<1>3. p \in Product /\ q \in Nat
  BY <1>2, LineTyped DEF StockInv
<1>4. Len(request[w].cart) \in Nat
  BY <1>2, CartAssumption
<1>5. request' \in [OrderWorker -> HandlerType] /\ HandlerInv'
  <2>1. CASE LastLine(w)
    BY <2>1, <1>2, Moved DEF ConfirmTakeWrite, OrderStage, RequestAt
  <2>2. CASE ~LastLine(w)
    <3>1. RequestGoto(w, "read", request[w].line + 1)
      BY <2>2 DEF ConfirmTakeWrite
    <3>2. request[w].line + 1 \in 1..Len(request[w].cart)
      BY <2>2, <1>2, <1>4 DEF LastLine
    <3>3. QED
      BY <1>2, <3>1, <3>2, Moved DEF OrderStage
  <2>3. QED
    BY <2>1, <2>2
<1>6. stock' = [stock EXCEPT ![p] = request[w].seen - q]
  BY DEF ConfirmTakeWrite
<1>7. request[w].seen - q \in Int /\ request[w].seen - q >= 0
  BY <1>2, <1>3
<1>8. stock' \in [Product -> Int] /\ StockNeverNegative'
  BY <1>3, <1>6, <1>7 DEF StockInv, OrderTypeOK, StockNeverNegative
<1>9. taken' \in [Order -> [Product -> Nat]]
  <2>1. taken' = [taken EXCEPT ![request[w].order][p] = @ + q]
    BY DEF ConfirmTakeWrite
  <2>2. CASE request[w].order \in Order
    <3>1. taken[request[w].order] \in [Product -> Nat]
      BY <2>2 DEF StockInv, OrderTypeOK
    <3>2. taken[request[w].order][p] + q \in Nat
      BY <1>3, <3>1
    <3>3. [taken[request[w].order] EXCEPT ![p] = taken[request[w].order][p] + q]
            \in [Product -> Nat]
      BY <3>1, <3>2
    <3>4. taken' = [taken EXCEPT ![request[w].order] =
                      [taken[request[w].order] EXCEPT ![p] = taken[request[w].order][p] + q]]
      BY <2>1
    <3>5. QED
      BY <3>3, <3>4 DEF StockInv, OrderTypeOK
  <2>3. CASE request[w].order \notin Order
    BY <2>1, <2>3 DEF StockInv, OrderTypeOK
  <2>4. QED
    BY <2>2, <2>3
<1>10. torn' \subseteq Product /\ UNCHANGED <<status, items>>
  BY <1>3 DEF ConfirmTakeWrite, StockInv, OrderTypeOK
<1>11. QED
  BY <1>5, <1>8, <1>9, <1>10 DEF StockInv, OrderTypeOK, HandlerType

LEMMA StatusKeeps ==
  ASSUME StockInv, NEW w \in OrderWorker,
         \/ \E o \in Order, op \in {"cancel", "ship", "deliver"} : StatusRead(w, op, o)
         \/ StatusWrite(w)
  PROVE  StockInv'
<1>1. request \in [OrderWorker -> HandlerType]
  BY DEF StockInv, OrderTypeOK, HandlerType
<1>2. CASE \E o \in Order, op \in {"cancel", "ship", "deliver"} : StatusRead(w, op, o)
  <2> PICK o \in Order, op \in {"cancel", "ship", "deliver"} : StatusRead(w, op, o)
    BY <1>2
  <2>1. CASE status[o] \in Accepts[op]
    <3> DEFINE h == [NoRequest EXCEPT !.op = op, !.order = o, !.stage = "write"]
    <3>1. h \in HandlerType /\ h.stage = "write" /\ h.op = op
      BY IdleTyped DEF HandlerType, OrderStage, NoRequest
    <3>2. request' = [request EXCEPT ![w] = h]
      BY <2>1 DEF StatusRead
    <3> HIDE DEF h
    <3>3. request' \in [OrderWorker -> HandlerType] /\ HandlerInv'
      BY <3>1, <3>2, HandlerMoves
    <3>4. QED
      BY <3>3, RowsAlone DEF StatusRead
  <2>2. CASE status[o] \notin Accepts[op]
    <3>1. UNCHANGED orderVars
      BY <2>2 DEF StatusRead, orderVars
    <3>2. QED
      BY <3>1 DEF orderVars, StockInv, OrderTypeOK, HandlerInv, LineInCart, SeenCovers, WriteLeaves,
              StockNeverNegative, Line
  <2>3. QED
    BY <2>1, <2>2
<1>3. CASE StatusWrite(w)
  <2>1. request' \in [OrderWorker -> HandlerType] /\ HandlerInv'
    BY <1>3, Finished DEF StatusWrite
  <2>2. status' \in [Order -> Status]
    <3>1. request[w].op \in {"confirm", "cancel", "ship", "deliver"}
      BY <1>3 DEF StatusWrite, StockInv, HandlerInv, WriteLeaves
    <3>2. Leaves[request[w].op] \in Status
      BY <3>1 DEF Leaves, Status
    <3>3. QED
      BY <1>3, <3>2 DEF StatusWrite, StockInv, OrderTypeOK
  <2>3. QED
    BY <1>3, <2>1, <2>2 DEF StatusWrite, StockInv, OrderTypeOK, StockNeverNegative, HandlerType
<1>4. QED
  BY <1>2, <1>3

LEMMA StockNext == StockInv /\ [OrderNext]_orderVars => StockInv'
<1> SUFFICES ASSUME StockInv, [OrderNext]_orderVars PROVE StockInv'
  OBVIOUS
<1>1. ASSUME NEW w \in OrderWorker, OrderStep(w) PROVE StockInv'
  BY <1>1, CreateKeeps, ConfirmKeeps, TakeKeeps, StatusKeeps DEF OrderStep
<1>2. ASSUME NEW w \in OrderWorker, RequestFails(w) PROVE StockInv'
  BY <1>2, Finished, RowsAlone DEF RequestFails
<1>3. CASE UNCHANGED orderVars
  BY <1>3 DEF orderVars, StockInv, OrderTypeOK, HandlerInv, LineInCart, SeenCovers, WriteLeaves,
              StockNeverNegative, Line
<1>4. QED
  BY <1>1, <1>2, <1>3 DEF OrderNext

-----------------------------------------------------------------------------
\* Type correctness of the order handlers.
THEOREM OrdersTypeCorrect == OrderSpec => []OrderTypeOK
<1>1. StockInv => OrderTypeOK
  BY DEF StockInv
<1>2. QED
  BY <1>1, StockInit, StockNext, PTL DEF OrderSpec

\* No interleaving of confirmations, and no request that fails half way, books
\* a product below zero: decrease_product_stock writes what it read less what
\* it checked, even when another confirmation has changed the row since.
THEOREM StockSafe == OrderSpec => []StockNeverNegative
<1>1. StockInv => StockNeverNegative
  BY DEF StockInv
<1>2. QED
  BY <1>1, StockInit, StockNext, PTL DEF OrderSpec

-----------------------------------------------------------------------------
(* The stock is accounted for *)

\* Units of p in the first k lines of a cart.
UnitsTo(c, p, k) ==
    SumFunctionOnSet([i \in DOMAIN c |-> c[i].quantity], {i \in 1..k : c[i].product = p})

\* Every line of an order was taken from the stock.
Took(o) == items[o] # <<>> /\ \A p \in Product : taken[o][p] >= Units(items[o], p)

Confirmed == {"confirmed", "shipped", "delivered"}
Inserting(h) == h.op = "create" /\ h.stage = "items"

\* What a request knows of its order: a confirmation walks the lines that are
\* stored, and has taken those behind it; the update at the end of one, or of a
\* shipment or a delivery, finds all of them taken; an order whose lines are
\* still to be inserted has none.
Claim(h) ==
    /\ h.stage \in {"check", "read", "take"} =>
        h.op = "confirm" /\ h.order \in Order /\ items[h.order] # <<>> /\ h.cart = items[h.order]
    /\ h.stage \in {"read", "take"} =>
        \A p \in Product : taken[h.order][p] >= UnitsTo(h.cart, p, h.line - 1)
    /\ h.stage = "write" /\ h.op # "cancel" => h.order \in Order /\ Took(h.order)
    /\ Inserting(h) => /\ h.order \in Order
                       /\ items[h.order] = <<>> /\ status[h.order] # "absent"

Claims == \A w \in OrderWorker : Claim(request[w])
InsertsAlone ==
    \A v, w \in OrderWorker :
        v # w /\ Inserting(request[v]) /\ Inserting(request[w]) => request[v].order # request[w].order
NoLinesYet == \A o \in Order : status[o] = "absent" => items[o] = <<>>
ConfirmedAll == \A o \in Order : status[o] \in Confirmed => Took(o)

\* The inductive strengthening of StockAccounted.
Accounted == \A p \in Product \ torn : stock[p] + TakenOf(p) = InitialStock[p]
AccountInv == StockInv /\ Accounted /\ Claims /\ InsertsAlone /\ NoLinesYet /\ ConfirmedAll

\* What one more entry adds to a sum.
LEMMA TotalAdds ==
    ASSUME NEW f, NEW g, NEW S, IsFiniteSet(S), \A x \in S : f[x] \in Int /\ g[x] \in Int,
           NEW a \in S, NEW n \in Int, g[a] = f[a] + n, \A x \in S \ {a} : g[x] = f[x]
    PROVE Total(g, S) = Total(f, S) + n
<1>1. Total(f, S) = f[a] + Total(f, S \ {a}) /\ Total(g, S) = g[a] + Total(g, S \ {a})
  BY TotalWithout
<1>2. IsFiniteSet(S \ {a})
  BY FS_Subset
<1>3. Total(g, S \ {a}) = Total(f, S \ {a})
  BY <1>2, TotalSame
<1>4. Total(f, S \ {a}) \in Int
  BY <1>2, TotalInt
<1>5. f[a] \in Int
  OBVIOUS
<1>6. QED
  BY <1>1, <1>3, <1>4, <1>5

LEMMA CartLines ==
    ASSUME NEW c \in Cart
    PROVE /\ c \in Seq(LineType) /\ c # <<>> /\ Len(c) \in Nat /\ Len(c) # 0
          /\ DOMAIN c = 1..Len(c)
          /\ \A i \in 1..Len(c) : c[i].quantity \in Nat
<1>1. c \in Seq(LineType) /\ c # <<>>
  BY CartAssumption DEF LineType
<1>2. \A i \in 1..Len(c) : c[i] \in LineType
  BY <1>1
<1>3. QED
  BY <1>1, <1>2 DEF LineType

\* The units of the first lines, line by line.
LEMMA UnitsToStep ==
    ASSUME NEW c \in Cart, NEW p \in Product, NEW k \in 1..Len(c)
    PROVE /\ UnitsTo(c, p, k - 1) \in Int
          /\ c[k].product = p => UnitsTo(c, p, k) = UnitsTo(c, p, k - 1) + c[k].quantity
          /\ c[k].product # p => UnitsTo(c, p, k) = UnitsTo(c, p, k - 1)
<1> DEFINE f == [i \in DOMAIN c |-> c[i].quantity]
           S == {i \in 1..k : c[i].product = p}
           T == {i \in 1..(k - 1) : c[i].product = p}
<1>1. k \in Nat /\ DOMAIN c = 1..Len(c) /\ Len(c) \in Nat
  BY CartLines
<1>2. S \subseteq 1..Len(c) /\ T \subseteq 1..Len(c)
  BY <1>1
<1>3. \A i \in 1..Len(c) : f[i] = c[i].quantity /\ f[i] \in Int
  BY <1>1, CartLines
<1>4. IsFiniteSet(S) /\ IsFiniteSet(T)
  <2>1. IsFiniteSet(1..Len(c))
    BY <1>1, FS_Interval
  <2> HIDE DEF S, T
  <2>2. QED
    BY <1>2, <2>1, FS_Subset
<1>5. c[k].product = p => k \in S /\ S \ {k} = T
  BY <1>1
<1>6. c[k].product # p => S = T
  BY <1>1
<1>7. UnitsTo(c, p, k) = Total(f, S) /\ UnitsTo(c, p, k - 1) = Total(f, T)
  BY DEF UnitsTo, Total
<1> HIDE DEF f, S, T
<1>8. Total(f, T) \in Int
  BY <1>2, <1>3, <1>4, TotalInt
<1>9. ASSUME c[k].product = p PROVE Total(f, S) = f[k] + Total(f, T)
  <2>1. k \in S /\ S \ {k} = T
    BY <1>5, <1>9
  <2>2. \A x \in S : f[x] \in Int
    BY <1>2, <1>3
  <2>3. Total(f, S) = f[k] + Total(f, S \ {k})
    BY <1>4, <2>1, <2>2, TotalWithout
  <2>4. QED
    BY <2>1, <2>3
<1>10. f[k] = c[k].quantity /\ f[k] \in Int
  BY <1>3
<1>11. QED
  BY <1>6, <1>7, <1>8, <1>9, <1>10

LEMMA UnitsToEnds ==
    ASSUME NEW c \in Cart, NEW p \in Product
    PROVE UnitsTo(c, p, 0) = 0 /\ UnitsTo(c, p, Len(c)) = Units(c, p)
<1>1. {i \in 1..0 : c[i].product = p} = {}
  OBVIOUS
<1>2. UnitsTo(c, p, 0) = 0
  BY <1>1, TotalEmpty DEF UnitsTo, Total
<1>3. DOMAIN c = 1..Len(c)
  BY CartLines
<1>4. QED
  BY <1>2, <1>3 DEF UnitsTo, Units

-----------------------------------------------------------------------------
(* One lemma for each kind of step. *)

LEMMA IdleClaim == Claim(NoRequest) /\ ~Inserting(NoRequest)
BY DEF Claim, NoRequest, Inserting

\* A step of worker w's request that leaves the rows alone.
LEMMA RequestMoves ==
    ASSUME AccountInv, NEW w \in OrderWorker, UNCHANGED <<status, items, stock, taken, torn>>,
           \A v \in OrderWorker \ {w} : request'[v] = request[v],
           Claim(request'[w]), ~Inserting(request'[w])
    PROVE  Accounted' /\ Claims' /\ InsertsAlone' /\ NoLinesYet' /\ ConfirmedAll'
<1>1. \A o \in Order : Took(o)' = Took(o)
  BY DEF Took
<1>2. \A v \in OrderWorker : Claim(request'[v])
  BY DEF AccountInv, Claims
<1>3. Claims'
  BY <1>2, <1>1 DEF Claims, Claim, Inserting
<1>4. InsertsAlone'
  BY DEF AccountInv, InsertsAlone
<1>5. Accounted'
  BY DEF AccountInv, Accounted, TakenOf
<1>6. NoLinesYet'
  BY DEF AccountInv, NoLinesYet
<1>7. ConfirmedAll'
  BY <1>1 DEF AccountInv, ConfirmedAll
<1>8. QED
  BY <1>3, <1>4, <1>5, <1>6, <1>7

LEMMA OthersStay ==
    ASSUME StockInv, NEW w \in OrderWorker, NEW h, request' = [request EXCEPT ![w] = h]
    PROVE  request'[w] = h /\ \A v \in OrderWorker \ {w} : request'[v] = request[v]
BY DEF StockInv, OrderTypeOK

LEMMA DoneAccounts ==
    ASSUME AccountInv, NEW w \in OrderWorker, UNCHANGED <<status, items, stock, taken, torn>>,
           RequestDone(w)
    PROVE  Accounted' /\ Claims' /\ InsertsAlone' /\ NoLinesYet' /\ ConfirmedAll'
<1>1. request'[w] = NoRequest /\ \A v \in OrderWorker \ {w} : request'[v] = request[v]
  BY OthersStay DEF RequestDone, AccountInv
<1>2. QED
  BY <1>1, IdleClaim, RequestMoves

LEMMA BeginAccounts ==
    ASSUME AccountInv, NEW w \in OrderWorker,
           \/ \E c \in Cart : CreateBegin(w, c)
           \/ CreatePrepare(w)
           \/ \E o \in Order : ConfirmRead(w, o)
           \/ \E o \in Order, op \in {"cancel", "ship", "deliver"} : StatusRead(w, op, o)
    PROVE  Accounted' /\ Claims' /\ InsertsAlone' /\ NoLinesYet' /\ ConfirmedAll'
<1>1. CASE \E c \in Cart : CreateBegin(w, c)
  <2> PICK c \in Cart : CreateBegin(w, c)
    BY <1>1
  <2> DEFINE h == [NoRequest EXCEPT !.op = "create", !.stage = "prepare", !.cart = c]
  <2>1. Claim(h) /\ ~Inserting(h)
    BY DEF Claim, NoRequest, Inserting
  <2>2. request' = [request EXCEPT ![w] = h] /\ UNCHANGED <<status, items, stock, taken, torn>>
    BY DEF CreateBegin
  <2> HIDE DEF h
  <2>3. request'[w] = h /\ \A v \in OrderWorker \ {w} : request'[v] = request[v]
    BY <2>2, OthersStay DEF AccountInv
  <2>4. QED
    BY <2>1, <2>2, <2>3, RequestMoves
<1>5. CASE CreatePrepare(w) /\ ~RequestDone(w)
  <2>1. request \in [OrderWorker -> HandlerType]
    BY DEF AccountInv, StockInv, OrderTypeOK, HandlerType
  <2>2. /\ request'[w].stage \in {"order", "prepare"}
        /\ \A v \in OrderWorker \ {w} : request'[v] = request[v]
        /\ UNCHANGED <<status, items, stock, taken, torn>>
    BY <1>5, <2>1 DEF CreatePrepare, RequestGoto, HandlerType
  <2>3. Claim(request'[w]) /\ ~Inserting(request'[w])
    BY <2>2 DEF Claim, Inserting
  <2>4. QED
    BY <2>2, <2>3, RequestMoves
<1>6. CASE CreatePrepare(w) /\ RequestDone(w)
  BY <1>6, DoneAccounts DEF CreatePrepare
<1>2. CASE \E o \in Order : ConfirmRead(w, o)
  <2> PICK o \in Order : ConfirmRead(w, o)
    BY <1>2
  <2> DEFINE h == [NoRequest EXCEPT !.op = "confirm", !.order = o, !.stage = "check",
                               !.cart = items[o]]
  <2>1. Claim(h) /\ ~Inserting(h)
    BY DEF Claim, NoRequest, Inserting, ConfirmRead
  <2>2. request' = [request EXCEPT ![w] = h] /\ UNCHANGED <<status, items, stock, taken, torn>>
    BY DEF ConfirmRead
  <2> HIDE DEF h
  <2>3. request'[w] = h /\ \A v \in OrderWorker \ {w} : request'[v] = request[v]
    BY <2>2, OthersStay DEF AccountInv
  <2>4. QED
    BY <2>1, <2>2, <2>3, RequestMoves
<1>3. CASE \E o \in Order, op \in {"cancel", "ship", "deliver"} : StatusRead(w, op, o)
  <2> PICK o \in Order, op \in {"cancel", "ship", "deliver"} : StatusRead(w, op, o)
    BY <1>3
  <2> DEFINE h == [NoRequest EXCEPT !.op = op, !.order = o, !.stage = "write"]
  <2>1. CASE status[o] \in Accepts[op]
    <3>1. op # "cancel" => status[o] \in Confirmed
      BY <2>1 DEF Accepts, Confirmed
    <3>2. op # "cancel" => Took(o)
      BY <3>1 DEF AccountInv, ConfirmedAll
    <3>3. h.op = op /\ h.order = o /\ h.stage = "write"
      BY DEF NoRequest
    <3>4. request' = [request EXCEPT ![w] = h] /\ UNCHANGED <<status, items, stock, taken, torn>>
      BY <2>1 DEF StatusRead
    <3> HIDE DEF h
    <3>5. Claim(h) /\ ~Inserting(h)
      BY <3>2, <3>3 DEF Claim, Inserting
    <3>6. request'[w] = h /\ \A v \in OrderWorker \ {w} : request'[v] = request[v]
      BY <3>4, OthersStay DEF AccountInv
    <3>7. QED
      BY <3>4, <3>5, <3>6, RequestMoves
  <2>2. CASE status[o] \notin Accepts[op]
    <3>1. UNCHANGED <<status, items, stock, taken, torn>> /\ request' = request
      BY <2>2 DEF StatusRead
    <3>2. Claim(request'[w]) /\ ~Inserting(request'[w])
      BY <3>1, IdleClaim DEF StatusRead
    <3>3. QED
      BY <3>1, <3>2, RequestMoves
  <2>3. QED
    BY <2>1, <2>2
<1>4. QED
  BY <1>1, <1>2, <1>3, <1>5, <1>6

\* The checks of a confirmation, and the read of the stock of a line.
LEMMA WalkAccounts ==
    ASSUME AccountInv, NEW w \in OrderWorker, ConfirmCheck(w) \/ ConfirmTakeRead(w)
    PROVE  Accounted' /\ Claims' /\ InsertsAlone' /\ NoLinesYet' /\ ConfirmedAll'
<1> DEFINE r == request[w]
<1>1. r \in HandlerType /\ StockInv /\ Claim(r)
  BY DEF AccountInv, StockInv, OrderTypeOK, HandlerType, Claims
<1>2. UNCHANGED <<status, items, stock, taken, torn>>
  BY DEF ConfirmCheck, ConfirmTakeRead
<1>3. CASE RequestDone(w)
  BY <1>2, <1>3, DoneAccounts
<1>4. CASE ConfirmCheck(w) /\ ~RequestDone(w)
  <2> DEFINE h == [r EXCEPT !.stage = IF LastLine(w) THEN "read" ELSE "check",
                            !.line = IF LastLine(w) THEN 1 ELSE r.line + 1]
  <2>1. request' = [request EXCEPT ![w] = h]
    <3>1. \/ LastLine(w) /\ RequestGoto(w, "read", 1)
          \/ ~LastLine(w) /\ RequestGoto(w, "check", r.line + 1)
      BY <1>4 DEF ConfirmCheck
    <3>2. request \in [OrderWorker -> HandlerType]
      BY <1>1 DEF StockInv, OrderTypeOK, HandlerType
    <3>3. QED
      BY <3>1, <3>2 DEF RequestGoto, HandlerType
  <2>2. /\ h.op = r.op /\ h.order = r.order /\ h.cart = r.cart /\ h.stage \in {"read", "check"}
        /\ h.stage = "read" => h.line = 1
    BY <1>1 DEF HandlerType
  <2>3. /\ r.op = "confirm" /\ r.order \in Order /\ items[r.order] # <<>> /\ r.cart = items[r.order]
        /\ r.cart \in Cart
    BY <1>1, <1>4 DEF ConfirmCheck, RequestAt, Claim, StockInv, HandlerInv, LineInCart
  <2> HIDE DEF h
  <2>4. ASSUME NEW p \in Product PROVE taken[r.order][p] >= UnitsTo(r.cart, p, 0)
    <3>1. taken[r.order][p] \in Nat
      BY <1>1, <2>3 DEF StockInv, OrderTypeOK
    <3>2. QED
      BY <2>3, <3>1, UnitsToEnds
  <2>5. h.line - 1 = 0 \/ h.stage # "read"
    BY <2>2
  <2>6. Claim(h) /\ ~Inserting(h)
    BY <2>2, <2>3, <2>4, <2>5 DEF Claim, Inserting
  <2>7. request'[w] = h /\ \A v \in OrderWorker \ {w} : request'[v] = request[v]
    BY <1>1, <2>1, OthersStay
  <2>8. QED
    BY <1>2, <2>6, <2>7, RequestMoves
<1>5. CASE ConfirmTakeRead(w) /\ ~RequestDone(w)
  <2> DEFINE h == [r EXCEPT !.stage = "take", !.seen = stock[Line(w).product]]
  <2>1. request' = [request EXCEPT ![w] = h]
    <3>1. request \in [OrderWorker -> HandlerType]
      BY <1>1 DEF StockInv, OrderTypeOK, HandlerType
    <3>2. QED
      BY <1>5, <3>1 DEF ConfirmTakeRead, HandlerType
  <2>2. /\ h.op = r.op /\ h.order = r.order /\ h.cart = r.cart /\ h.stage = "take"
        /\ h.line = r.line
    BY <1>1 DEF HandlerType
  <2>3. r.stage = "read"
    BY <1>5 DEF ConfirmTakeRead, RequestAt
  <2> HIDE DEF h
  <2>4. Claim(h) /\ ~Inserting(h)
    BY <1>1, <2>2, <2>3 DEF Claim, Inserting
  <2>5. request'[w] = h /\ \A v \in OrderWorker \ {w} : request'[v] = request[v]
    BY <1>1, <2>1, OthersStay
  <2>6. QED
    BY <1>2, <2>4, <2>5, RequestMoves
<1>6. QED
  BY <1>3, <1>4, <1>5

\* Orders keep their lines once they have some, and what they took.
Grown ==
    \A o \in Order : /\ items[o] # <<>> => items'[o] = items[o]
                     /\ \A p \in Product : taken'[o][p] >= taken[o][p]

LEMMA UnitsInt ==
    ASSUME NEW c \in Cart, NEW p \in Product
    PROVE Units(c, p) \in Int
<1>1. Len(c) \in 1..Len(c) /\ Len(c) - 1 \in Int /\ UnitsTo(c, p, Len(c)) = Units(c, p)
  BY CartLines, UnitsToEnds
<1>2. /\ UnitsTo(c, p, Len(c) - 1) \in Int
      /\ \/ UnitsTo(c, p, Len(c)) = UnitsTo(c, p, Len(c) - 1) + c[Len(c)].quantity
         \/ UnitsTo(c, p, Len(c)) = UnitsTo(c, p, Len(c) - 1)
  BY <1>1, UnitsToStep
<1>3. c[Len(c)].quantity \in Int
  BY <1>1, CartLines
<1>4. QED
  BY <1>1, <1>2, <1>3

LEMMA TookStays ==
    ASSUME AccountInv, Grown, taken' \in [Order -> [Product -> Nat]], NEW o \in Order, Took(o)
    PROVE  Took(o)'
<1>1. items'[o] = items[o] /\ items[o] # <<>> /\ items[o] \in Cart
  BY DEF Took, Grown, AccountInv, StockInv, OrderTypeOK
<1>2. ASSUME NEW p \in Product PROVE taken'[o][p] >= Units(items[o], p)
  <2>1. Units(items[o], p) \in Int
    BY <1>1, UnitsInt
  <2>2. taken[o][p] \in Int /\ taken'[o][p] \in Int
    BY DEF AccountInv, StockInv, OrderTypeOK
  <2>3. taken[o][p] >= Units(items[o], p) /\ taken'[o][p] >= taken[o][p]
    BY DEF Took, Grown
  <2>4. QED
    BY <2>1, <2>2, <2>3
<1>3. QED
  BY <1>1, <1>2 DEF Took

\* A request keeps its claim while others move.
LEMMA ClaimStays ==
    ASSUME AccountInv, Grown, taken' \in [Order -> [Product -> Nat]],
           NEW v \in OrderWorker, request'[v] = request[v],
           Inserting(request[v]) => /\ items'[request[v].order] = <<>>
                                    /\ status'[request[v].order] # "absent"
    PROVE  Claim(request[v])'
<1> DEFINE r == request[v]
<1>1. Claim(r)
  BY DEF AccountInv, Claims
<1>2. ASSUME r.stage \in {"check", "read", "take"}
      PROVE  /\ r.op = "confirm" /\ r.order \in Order
             /\ items'[r.order] # <<>> /\ r.cart = items'[r.order]
  BY <1>1, <1>2 DEF Claim, Grown
<1>3. ASSUME r.stage \in {"read", "take"}, NEW p \in Product
      PROVE  taken'[r.order][p] >= UnitsTo(r.cart, p, r.line - 1)
  <2>1. r.cart \in Cart /\ r.line \in 1..Len(r.cart)
    BY <1>3 DEF AccountInv, StockInv, HandlerInv, LineInCart
  <2>2. UnitsTo(r.cart, p, r.line - 1) \in Int
    BY <2>1, UnitsToStep
  <2>3. r.order \in Order
    BY <1>2, <1>3
  <2>4. taken[r.order][p] \in Int /\ taken'[r.order][p] \in Int
    BY <2>3 DEF AccountInv, StockInv, OrderTypeOK
  <2>5. taken[r.order][p] >= UnitsTo(r.cart, p, r.line - 1)
    BY <1>1, <1>3 DEF Claim
  <2>6. taken'[r.order][p] >= taken[r.order][p]
    BY <2>3 DEF Grown
  <2>7. QED
    BY <2>2, <2>4, <2>5, <2>6
<1>4. ASSUME r.stage = "write", r.op # "cancel"
      PROVE  /\ r.order \in Order /\ items'[r.order] # <<>>
             /\ \A p \in Product : taken'[r.order][p] >= Units(items'[r.order], p)
  <2>1. r.order \in Order /\ Took(r.order)
    BY <1>1, <1>4 DEF Claim
  <2>2. PICK o \in Order : o = r.order
    BY <2>1
  <2>3. Took(o)'
    BY <2>1, <2>2, TookStays
  <2>4. QED
    BY <2>2, <2>3 DEF Took
<1>5. Inserting(r) => r.order \in Order /\ items'[r.order] = <<>> /\ status'[r.order] # "absent"
  BY <1>1 DEF Claim
<1>6. request'[v] = r
  OBVIOUS
<1> HIDE DEF r
<1>7. QED
  BY <1>2, <1>3, <1>4, <1>5, <1>6 DEF Claim, Took, Inserting

LEMMA InsertOrderAccounts ==
    ASSUME AccountInv, NEW w \in OrderWorker, NEW o \in Order, CreateInsertOrder(w, o)
    PROVE  Accounted' /\ Claims' /\ InsertsAlone' /\ NoLinesYet' /\ ConfirmedAll'
<1> DEFINE r == request[w]
           h == [r EXCEPT !.stage = "items", !.order = o]
<1>1. r \in HandlerType /\ StockInv /\ r.op = "create" /\ request \in [OrderWorker -> HandlerType]
  BY DEF AccountInv, StockInv, OrderTypeOK, HandlerType, CreateInsertOrder, RequestAt
<1>2. /\ status' = [status EXCEPT ![o] = "requested"] /\ status[o] = "absent"
      /\ UNCHANGED <<items, stock, taken, torn>>
  BY DEF CreateInsertOrder
<1>3. request' = [request EXCEPT ![w] = h]
  BY <1>1 DEF CreateInsertOrder
<1>4. h.op = "create" /\ h.stage = "items" /\ h.order = o
  BY <1>1 DEF HandlerType
<1> HIDE DEF h, r
<1>5. request'[w] = h /\ \A v \in OrderWorker \ {w} : request'[v] = request[v]
  BY <1>1, <1>3, OthersStay
<1>6. \A x \in Order : status'[x] = IF x = o THEN "requested" ELSE status[x]
  BY <1>1, <1>2 DEF StockInv, OrderTypeOK
<1>7. items[o] = <<>>
  BY <1>2 DEF AccountInv, NoLinesYet
<1>8. Grown /\ taken' \in [Order -> [Product -> Nat]]
  BY <1>1, <1>2 DEF Grown, StockInv, OrderTypeOK
<1>9. ASSUME NEW v \in OrderWorker, Inserting(request[v])
      PROVE /\ items'[request[v].order] = <<>> /\ status'[request[v].order] # "absent"
            /\ request[v].order # o
  <2>1. /\ request[v].order \in Order /\ items[request[v].order] = <<>>
        /\ status[request[v].order] # "absent"
    BY <1>9 DEF AccountInv, Claims, Claim
  <2>2. QED
    BY <1>2, <1>6, <2>1
<1>10. Claims'
  <2>1. ASSUME NEW v \in OrderWorker \ {w} PROVE Claim(request[v])'
    BY <1>5, <1>8, <1>9, ClaimStays
  <2>2. Claim(request[w])'
    BY <1>2, <1>4, <1>5, <1>6, <1>7 DEF Claim, Inserting
  <2>3. QED
    BY <2>1, <2>2 DEF Claims
<1>11. InsertsAlone'
  BY <1>4, <1>5, <1>9 DEF AccountInv, InsertsAlone
<1>12. Accounted'
  BY <1>2 DEF AccountInv, Accounted, TakenOf
<1>13. NoLinesYet'
  BY <1>2, <1>6 DEF AccountInv, NoLinesYet
<1>14. ConfirmedAll'
  <2>1. ASSUME NEW x \in Order, status'[x] \in Confirmed PROVE Took(x)'
    <3>1. status[x] \in Confirmed
      BY <1>6, <2>1 DEF Confirmed
    <3>2. QED
      BY <1>8, <3>1, TookStays DEF AccountInv, ConfirmedAll
  <2>2. QED
    BY <2>1 DEF ConfirmedAll, Confirmed
<1>15. QED
  BY <1>10, <1>11, <1>12, <1>13, <1>14

LEMMA InsertItemsAccounts ==
    ASSUME AccountInv, NEW w \in OrderWorker, CreateInsertItems(w)
    PROVE  Accounted' /\ Claims' /\ InsertsAlone' /\ NoLinesYet' /\ ConfirmedAll'
<1> DEFINE o == request[w].order
<1>1. StockInv /\ Inserting(request[w])
  BY DEF AccountInv, CreateInsertItems, RequestAt, Inserting
<1>2. o \in Order /\ items[o] = <<>> /\ status[o] # "absent"
  BY <1>1 DEF AccountInv, Claims, Claim
<1>3. UNCHANGED <<status, stock, taken, torn>> /\ items' = [items EXCEPT ![o] = request[w].cart]
  BY DEF CreateInsertItems
<1>4. request'[w] = NoRequest /\ \A v \in OrderWorker \ {w} : request'[v] = request[v]
  BY <1>1, OthersStay DEF CreateInsertItems, RequestDone
<1>5. \A x \in Order : x # o => items'[x] = items[x]
  BY <1>1, <1>3 DEF StockInv, OrderTypeOK
<1>6. Grown /\ taken' \in [Order -> [Product -> Nat]]
  BY <1>1, <1>2, <1>3, <1>5 DEF Grown, StockInv, OrderTypeOK
<1>7. ASSUME NEW v \in OrderWorker \ {w}, Inserting(request[v])
      PROVE items'[request[v].order] = <<>> /\ status'[request[v].order] # "absent"
  <2>1. /\ request[v].order \in Order /\ items[request[v].order] = <<>>
        /\ status[request[v].order] # "absent" /\ request[v].order # o
    BY <1>1, <1>7 DEF AccountInv, Claims, Claim, InsertsAlone
  <2>2. QED
    BY <1>3, <1>5, <2>1
<1>8. Claims'
  <2>1. ASSUME NEW v \in OrderWorker \ {w} PROVE Claim(request[v])'
    BY <1>4, <1>6, <1>7, ClaimStays
  <2>2. Claim(request[w])'
    BY <1>4 DEF Claim, NoRequest, Inserting
  <2>3. QED
    BY <2>1, <2>2 DEF Claims
<1>9. InsertsAlone'
  BY <1>4, IdleClaim DEF AccountInv, InsertsAlone
<1>10. Accounted'
  BY <1>3 DEF AccountInv, Accounted, TakenOf
<1>11. NoLinesYet'
  BY <1>2, <1>3, <1>5 DEF AccountInv, NoLinesYet
<1>12. ConfirmedAll'
  <2>1. ASSUME NEW x \in Order, status'[x] \in Confirmed PROVE Took(x)'
    BY <1>3, <1>6, <2>1, TookStays DEF AccountInv, ConfirmedAll
  <2>2. QED
    BY <2>1 DEF ConfirmedAll, Confirmed
<1>13. QED
  BY <1>8, <1>9, <1>10, <1>11, <1>12

LEMMA StatusWriteAccounts ==
    ASSUME AccountInv, NEW w \in OrderWorker, StatusWrite(w)
    PROVE  Accounted' /\ Claims' /\ InsertsAlone' /\ NoLinesYet' /\ ConfirmedAll'
<1> DEFINE o == request[w].order
           s == Leaves[request[w].op]
<1>1. /\ StockInv /\ Claim(request[w]) /\ request[w].stage = "write"
      /\ request[w].op \in {"confirm", "cancel", "ship", "deliver"}
  BY DEF AccountInv, Claims, StatusWrite, StockInv, HandlerInv, WriteLeaves
<1>2. UNCHANGED <<items, stock, taken, torn>> /\ status' = [status EXCEPT ![o] = s]
  BY DEF StatusWrite
<1>3. s # "absent" /\ (s \in Confirmed => request[w].op # "cancel")
  BY <1>1 DEF Leaves, Confirmed
<1>4. request'[w] = NoRequest /\ \A v \in OrderWorker \ {w} : request'[v] = request[v]
  BY <1>1, OthersStay DEF StatusWrite, RequestDone
<1> HIDE DEF o, s
<1>5. \A x \in Order : status'[x] = IF x = o THEN s ELSE status[x]
  BY <1>1, <1>2 DEF StockInv, OrderTypeOK
<1>6. Grown /\ taken' \in [Order -> [Product -> Nat]]
  BY <1>1, <1>2 DEF Grown, StockInv, OrderTypeOK
<1>7. ASSUME NEW v \in OrderWorker \ {w}, Inserting(request[v])
      PROVE items'[request[v].order] = <<>> /\ status'[request[v].order] # "absent"
  <2>1. /\ request[v].order \in Order /\ items[request[v].order] = <<>>
        /\ status[request[v].order] # "absent"
    BY <1>7 DEF AccountInv, Claims, Claim
  <2>2. QED
    BY <1>2, <1>3, <1>5, <2>1
<1>8. Claims'
  <2>1. ASSUME NEW v \in OrderWorker \ {w} PROVE Claim(request[v])'
    BY <1>4, <1>6, <1>7, ClaimStays
  <2>2. Claim(request[w])'
    BY <1>4 DEF Claim, NoRequest, Inserting
  <2>3. QED
    BY <2>1, <2>2 DEF Claims
<1>9. InsertsAlone'
  BY <1>4, IdleClaim DEF AccountInv, InsertsAlone
<1>10. Accounted'
  BY <1>2 DEF AccountInv, Accounted, TakenOf
<1>11. NoLinesYet'
  BY <1>2, <1>3, <1>5 DEF AccountInv, NoLinesYet
<1>12. ConfirmedAll'
  <2>1. ASSUME NEW x \in Order, status'[x] \in Confirmed PROVE Took(x)'
    <3>1. x = o => Took(x)
      BY <1>1, <1>3, <1>5, <2>1 DEF Claim, o
    <3>2. x # o => Took(x)
      BY <1>5, <2>1 DEF AccountInv, ConfirmedAll
    <3>3. QED
      BY <1>6, <3>1, <3>2, TookStays
  <2>2. QED
    BY <2>1 DEF ConfirmedAll, Confirmed
<1>13. QED
  BY <1>8, <1>9, <1>10, <1>11, <1>12

\* The write of a line: when nobody has written the product since it was read,
\* the stock loses what the order takes.
LEMMA TakeAccounts ==
    ASSUME AccountInv, NEW w \in OrderWorker, ConfirmTakeWrite(w)
    PROVE  Accounted' /\ Claims' /\ InsertsAlone' /\ NoLinesYet' /\ ConfirmedAll'
<1> DEFINE r == request[w]
<1>1. StockInv /\ Claim(r) /\ r.op = "confirm" /\ r.stage = "take"
  BY DEF AccountInv, Claims, ConfirmTakeWrite, RequestAt
<1> PICK o \in Order : o = r.order
  BY <1>1 DEF Claim
<1> PICK p \in Product, n \in Nat : p = Line(w).product /\ n = Line(w).quantity
  BY <1>1, LineTyped DEF StockInv
<1>2. /\ items[o] # <<>> /\ r.cart = items[o]
      /\ r.cart \in Cart /\ r.line \in 1..Len(r.cart)
  BY <1>1 DEF Claim, StockInv, HandlerInv, LineInCart
<1>3. Line(w) = r.cart[r.line]
  BY DEF Line
<1>4. /\ stock' = [stock EXCEPT ![p] = r.seen - n]
      /\ taken' = [taken EXCEPT ![o][p] = @ + n]
      /\ torn' = IF stock[p] # r.seen THEN torn \cup {p} ELSE torn
      /\ UNCHANGED <<status, items>>
  BY DEF ConfirmTakeWrite
<1>5. /\ taken \in [Order -> [Product -> Nat]] /\ taken' \in [Order -> [Product -> Nat]]
      /\ stock \in [Product -> Int]
  BY <1>1, TakeKeeps DEF AccountInv, StockInv, OrderTypeOK
<1>6. /\ taken'[o][p] = taken[o][p] + n
      /\ \A x \in Order, q \in Product : x # o \/ q # p => taken'[x][q] = taken[x][q]
  BY <1>2, <1>3, <1>4, <1>5
<1>7. Grown
  <2>1. ASSUME NEW x \in Order, NEW q \in Product PROVE taken'[x][q] >= taken[x][q]
    <3>1. taken[x][q] \in Nat
      BY <1>5
    <3>2. taken'[x][q] = taken[x][q] + n \/ taken'[x][q] = taken[x][q]
      BY <1>6
    <3>3. QED
      BY <3>1, <3>2
  <2>2. QED
    BY <1>4, <2>1 DEF Grown
<1>8. Accounted'
  <2>1. IsFiniteSet(Order)
    BY OrderAssumption
  <2> DEFINE f(q) == [x \in Order |-> taken[x][q]]
             g(q) == [x \in Order |-> taken'[x][q]]
  <2>2. \A q \in Product : TakenOf(q) = Total(f(q), Order) /\ TakenOf(q)' = Total(g(q), Order)
    BY DEF TakenOf, Total
  <2>3. \A q \in Product, x \in Order :
          f(q)[x] = taken[x][q] /\ g(q)[x] = taken'[x][q] /\ f(q)[x] \in Int /\ g(q)[x] \in Int
    BY <1>5
  <2> HIDE DEF f, g
  <2>4. TakenOf(p)' = TakenOf(p) + n /\ TakenOf(p) \in Int
    <3>1. g(p)[o] = f(p)[o] + n /\ \A x \in Order \ {o} : g(p)[x] = f(p)[x]
      <4>1. g(p)[o] = taken'[o][p] /\ f(p)[o] = taken[o][p]
        BY <2>3
      <4>2. ASSUME NEW x \in Order \ {o} PROVE g(p)[x] = f(p)[x]
        <5>1. g(p)[x] = taken'[x][p] /\ f(p)[x] = taken[x][p]
          BY <2>3
        <5>2. QED
          BY <1>6, <5>1
      <4>3. QED
        BY <1>6, <4>1, <4>2
    <3>2. n \in Int
      OBVIOUS
    <3>3. \A x \in Order : f(p)[x] \in Int /\ g(p)[x] \in Int
      BY <1>3, <2>3
    <3>4. Total(g(p), Order) = Total(f(p), Order) + n
      <4> DEFINE F == f(p)
                 G == g(p)
      <4>1. /\ \A x \in Order : F[x] \in Int /\ G[x] \in Int
            /\ G[o] = F[o] + n /\ \A x \in Order \ {o} : G[x] = F[x]
        BY <3>1, <3>3
      <4> HIDE DEF F, G
      <4>2. Total(G, Order) = Total(F, Order) + n
        BY <2>1, <3>2, <4>1, TotalAdds
      <4>3. QED
        BY <4>2 DEF F, G
    <3>5. Total(f(p), Order) \in Int
      BY <2>1, <3>3, TotalInt
    <3>6. QED
      BY <1>3, <2>2, <3>4, <3>5
  <2>5. ASSUME NEW q \in Product, q # p PROVE TakenOf(q)' = TakenOf(q)
    <3>1. \A x \in Order : g(q)[x] = f(q)[x]
      BY <1>6, <2>3, <2>5
    <3>2. Total(g(q), Order) = Total(f(q), Order)
      BY <2>1, <3>1, TotalSame
    <3>3. QED
      BY <2>2, <3>2
  <2>6. ASSUME NEW q \in Product, q \notin torn' PROVE stock'[q] + TakenOf(q)' = InitialStock[q]
    <3>1. stock[q] + TakenOf(q) = InitialStock[q] /\ stock[q] \in Int
      BY <1>4, <1>5, <2>6 DEF AccountInv, Accounted
    <3>2. CASE q = p
      <4>1. r.seen = stock[p] /\ stock'[p] = r.seen - n
        BY <1>3, <1>4, <1>5, <2>6, <3>2
      <4>2. stock'[q] = stock[q] - n /\ TakenOf(q)' = TakenOf(q) + n /\ TakenOf(q) \in Int
        BY <2>4, <3>2, <4>1
      <4>3. QED
        BY <3>1, <4>2
    <3>3. CASE q # p
      BY <1>4, <1>5, <2>5, <3>1, <3>3
    <3>4. QED
      BY <3>2, <3>3
  <2>7. QED
    BY <2>6 DEF Accounted
<1>9. ASSUME NEW q \in Product PROVE taken'[o][q] >= UnitsTo(r.cart, q, r.line)
  <2>1. taken[o][q] >= UnitsTo(r.cart, q, r.line - 1)
    BY <1>1 DEF Claim
  <2>2. /\ UnitsTo(r.cart, q, r.line - 1) \in Int
        /\ q = p => UnitsTo(r.cart, q, r.line) = UnitsTo(r.cart, q, r.line - 1) + n
        /\ q # p => UnitsTo(r.cart, q, r.line) = UnitsTo(r.cart, q, r.line - 1)
    BY <1>2, <1>3, UnitsToStep
  <2>3. taken[o][q] \in Int /\ n \in Int
    BY <1>2, <1>3, <1>5
  <2>4. taken'[o][q] = IF q = p THEN taken[o][q] + n ELSE taken[o][q]
    BY <1>2, <1>6
  <2> HIDE DEF r
  <2>5. QED
    BY <2>1, <2>2, <2>3, <2>4
<1>10. Claims'
  <2>1. \A v \in OrderWorker \ {w} : request'[v] = request[v]
    BY <1>1, OthersStay DEF ConfirmTakeWrite, RequestGoto, StockInv, OrderTypeOK
  <2>2. ASSUME NEW v \in OrderWorker \ {w} PROVE Claim(request[v])'
    <3>1. Inserting(request[v]) => /\ items'[request[v].order] = <<>>
                                   /\ status'[request[v].order] # "absent"
      BY <1>4 DEF AccountInv, Claims, Claim
    <3>2. QED
      BY <1>5, <1>7, <2>1, <3>1, ClaimStays
  <2>3. /\ request'[w].op = r.op /\ request'[w].order = o /\ request'[w].cart = r.cart
        /\ LastLine(w) => request'[w].stage = "write"
        /\ ~LastLine(w) => request'[w].stage = "read" /\ request'[w].line = r.line + 1
    <3>1. request \in [OrderWorker -> HandlerType]
      BY <1>1 DEF StockInv, OrderTypeOK, HandlerType
    <3>2. QED
      BY <3>1 DEF ConfirmTakeWrite, RequestGoto, HandlerType
  <2>4. ASSUME LastLine(w) PROVE Claim(request[w])'
    <3>1. \A q \in Product : taken'[o][q] >= Units(items[o], q)
      BY <1>2, <1>9, <2>4, UnitsToEnds DEF LastLine
    <3>2. request'[w].stage = "write" /\ request'[w].op = "confirm" /\ request'[w].order = o
      BY <1>1, <2>3, <2>4
    <3>3. Took(o)'
      BY <1>2, <1>4, <3>1, <3>2 DEF Took
    <3>4. QED
      BY <1>2, <3>2, <3>3 DEF Claim, Inserting, Took
  <2>5. ASSUME ~LastLine(w) PROVE Claim(request[w])'
    <3>1. r.line \in Int /\ (r.line + 1) - 1 = r.line
      BY <1>2
    <3>2. request'[w].line - 1 = r.line
      BY <2>3, <2>5, <3>1
    <3> HIDE DEF r
    <3>3. QED
      BY <1>1, <1>2, <1>4, <1>9, <2>3, <2>5, <3>2 DEF Claim, Inserting
  <2>6. Claim(request[w])'
    BY <2>4, <2>5
  <2>7. QED
    BY <2>2, <2>6 DEF Claims
<1>11. InsertsAlone'
  <2>1. request \in [OrderWorker -> HandlerType]
    BY <1>1 DEF StockInv, OrderTypeOK, HandlerType
  <2>2. /\ \A v \in OrderWorker \ {w} : request'[v] = request[v]
        /\ request'[w].op = "confirm"
    BY <1>1, <2>1 DEF ConfirmTakeWrite, RequestGoto, HandlerType
  <2>3. QED
    BY <2>2 DEF AccountInv, InsertsAlone, Inserting
<1>12. NoLinesYet'
  BY <1>4 DEF AccountInv, NoLinesYet
<1>13. ConfirmedAll'
  <2>1. ASSUME NEW x \in Order, status'[x] \in Confirmed PROVE Took(x)'
    BY <1>4, <1>5, <1>7, <2>1, TookStays DEF AccountInv, ConfirmedAll
  <2>2. QED
    BY <2>1 DEF ConfirmedAll, Confirmed
<1>14. QED
  BY <1>8, <1>10, <1>11, <1>12, <1>13

LEMMA AccountInit == OrderInit => AccountInv
<1> SUFFICES ASSUME OrderInit PROVE AccountInv
  OBVIOUS
<1>1. StockInv
  BY StockInit
<1>2. ASSUME NEW p \in Product PROVE TakenOf(p) = 0
  <2> DEFINE f == [o \in Order |-> taken[o][p]]
  <2>1. IsFiniteSet(Order) /\ \A o \in Order : f[o] = 0
    BY OrderAssumption DEF OrderInit
  <2> HIDE DEF f
  <2>2. Total(f, Order) = 0
    BY <2>1, ZeroTotal
  <2>3. QED
    BY <2>2 DEF TakenOf, Total, f
<1>3. Accounted
  BY <1>2, StockAssumption DEF OrderInit, Accounted
<1>4. Claims /\ InsertsAlone
  BY IdleClaim DEF OrderInit, Claims, InsertsAlone
<1>5. NoLinesYet /\ ConfirmedAll
  BY DEF OrderInit, NoLinesYet, ConfirmedAll, Confirmed
<1>6. QED
  BY <1>1, <1>3, <1>4, <1>5 DEF AccountInv

LEMMA AccountNext == AccountInv /\ [OrderNext]_orderVars => AccountInv'
<1> SUFFICES ASSUME AccountInv, [OrderNext]_orderVars PROVE AccountInv'
  OBVIOUS
<1>1. StockInv'
  BY StockNext DEF AccountInv
<1>2. ASSUME NEW w \in OrderWorker, OrderStep(w)
      PROVE  Accounted' /\ Claims' /\ InsertsAlone' /\ NoLinesYet' /\ ConfirmedAll'
  BY <1>2, BeginAccounts, InsertOrderAccounts, InsertItemsAccounts, WalkAccounts, TakeAccounts,
     StatusWriteAccounts DEF OrderStep
<1>3. ASSUME NEW w \in OrderWorker, RequestFails(w)
      PROVE  Accounted' /\ Claims' /\ InsertsAlone' /\ NoLinesYet' /\ ConfirmedAll'
  BY <1>3, DoneAccounts DEF RequestFails
<1>4. CASE UNCHANGED orderVars
  <2>1. Accounted' /\ InsertsAlone' /\ NoLinesYet' /\ ConfirmedAll'
    BY <1>4 DEF orderVars, AccountInv, Accounted, TakenOf, InsertsAlone, NoLinesYet, ConfirmedAll,
                Took
  <2>2. Claims'
    BY <1>4 DEF orderVars, AccountInv, Claims, Claim, Took
  <2>3. QED
    BY <1>1, <2>1, <2>2 DEF AccountInv
<1>5. QED
  BY <1>1, <1>2, <1>3, <1>4 DEF OrderNext, AccountInv

-----------------------------------------------------------------------------
\* What left the stock is what the orders took, unless two confirmations
\* interleaved on the product, and an order is confirmed, shipped or delivered
\* only when all its lines were taken: confirm_order walks the lines that are
\* stored, in their order, and writes the status after the last; no handler
\* changes the lines, and a status that was not read as confirmed is not
\* shipped or delivered.
THEOREM StockIsAccounted == OrderSpec => []StockAccounted
<1>1. AccountInv => StockAccounted
  <2> SUFFICES ASSUME AccountInv PROVE StockAccounted
    OBVIOUS
  <2>1. ConfirmedTook
    BY DEF AccountInv, ConfirmedAll, Confirmed, ConfirmedTook, Took
  <2>2. QED
    BY <2>1 DEF AccountInv, Accounted, StockAccounted
<1>2. QED
  BY <1>1, AccountInit, AccountNext, PTL DEF OrderSpec

-----------------------------------------------------------------------------
(* Requests handled one at a time *)

\* One worker, whose requests do not fail.
OneAtATime(one) == OrderInit /\ [][OrderStep(one)]_orderVars

\* No cart names a product twice.
ProductsOnce ==
    \A c \in Cart : \A i, j \in DOMAIN c : i # j => c[i].product # c[j].product

Confirming(h, o) == h.op = "confirm" /\ h.order = o

\* What an order that nobody is confirming took.
AllOrNothing(o) ==
    \A p \in Product : /\ taken[o][p] \in {0, Units(items[o], p)}
                       /\ status[o] = "requested" \/ items[o] = <<>> => taken[o][p] = 0

\* The lines of a cart are in stock.
InStock(c, lines) == \A i \in lines : stock[c[i].product] >= c[i].quantity

\* How far a confirmation has come: the lines it has checked, and then those it
\* has not taken yet, are in stock, and the order took the lines behind it.
Progress(h) ==
    /\ h.stage = "check" => /\ \A p \in Product : taken[h.order][p] = 0
                            /\ InStock(h.cart, 1..(h.line - 1))
    /\ h.stage \in {"read", "take"} =>
        /\ \A p \in Product : taken[h.order][p] = UnitsTo(h.cart, p, h.line - 1)
        /\ InStock(h.cart, h.line..Len(h.cart))
    /\ h.stage = "take" => h.seen = stock[h.cart[h.line].product]
    /\ h.stage = "write" /\ h.op = "confirm" =>
        \A p \in Product : taken[h.order][p] = Units(items[h.order], p)

\* The status in which a handler read its order is still there.
Current(h) ==
    /\ h.stage \in {"check", "read", "take"} => status[h.order] = "requested"
    /\ h.stage = "write" =>
        status[h.order] \in IF h.op = "confirm" THEN {"requested"} ELSE Accepts[h.op]

Alone(one) ==
    /\ AccountInv
    /\ request[one].op = "confirm" => request[one].stage \in {"check", "read", "take", "write"}
    /\ Progress(request[one])
    /\ \A o \in Order : ~Confirming(request[one], o) => AllOrNothing(o)

\* The parts a step has to establish.
AloneNow(one) ==
    /\ request[one].op = "confirm" => request[one].stage \in {"check", "read", "take", "write"}
    /\ Progress(request[one])
    /\ \A o \in Order : ~Confirming(request[one], o) => AllOrNothing(o)

\* A step of the request that leaves the rows alone.
LEMMA AloneMoves ==
    ASSUME NEW one \in OrderWorker, UNCHANGED <<status, items, stock, taken, torn>>,
           Progress(request'[one]),
           request'[one].op = "confirm" =>
               request'[one].stage \in {"check", "read", "take", "write"},
           \A o \in Order : ~Confirming(request'[one], o) => AllOrNothing(o)
    PROVE  AloneNow(one)'
<1>1. Progress(request[one])'
  BY DEF Progress, InStock
<1>2. \A o \in Order : ~Confirming(request[one], o)' => AllOrNothing(o)'
  BY DEF AllOrNothing, Confirming
<1>3. QED
  BY <1>1, <1>2 DEF AloneNow

LEMMA IdleAlone == Progress(NoRequest) /\ NoRequest.op = "idle" /\ NoRequest.stage = "idle"
BY DEF Progress, NoRequest

LEMMA BeginAlone ==
    ASSUME NEW one \in OrderWorker, Alone(one), StockInv,
           \/ \E c \in Cart : CreateBegin(one, c)
           \/ \E o \in Order : ConfirmRead(one, o)
           \/ \E o \in Order, op \in {"cancel", "ship", "deliver"} : StatusRead(one, op, o)
    PROVE  AloneNow(one)'
<1>1. request[one] = NoRequest
  BY DEF CreateBegin, ConfirmRead, StatusRead
<1>2. \A o \in Order : AllOrNothing(o)
  BY <1>1, IdleAlone DEF Alone, Confirming
<1>3. CASE \E c \in Cart : CreateBegin(one, c)
  <2> PICK c \in Cart : CreateBegin(one, c)
    BY <1>3
  <2> DEFINE h == [NoRequest EXCEPT !.op = "create", !.stage = "prepare", !.cart = c]
  <2>1. Progress(h) /\ h.op # "confirm"
    BY DEF Progress, NoRequest
  <2>2. request' = [request EXCEPT ![one] = h] /\ UNCHANGED <<status, items, stock, taken, torn>>
    BY DEF CreateBegin
  <2> HIDE DEF h
  <2>3. request'[one] = h
    BY <2>2, OthersStay
  <2>4. QED
    BY <1>2, <2>1, <2>2, <2>3, AloneMoves
<1>4. CASE \E o \in Order : ConfirmRead(one, o)
  <2> PICK o \in Order : ConfirmRead(one, o)
    BY <1>4
  <2> DEFINE h == [NoRequest EXCEPT !.op = "confirm", !.order = o, !.stage = "check",
                               !.cart = items[o]]
  <2>1. h.op = "confirm" /\ h.order = o /\ h.stage = "check" /\ h.cart = items[o] /\ h.line = 1
    BY DEF NoRequest
  <2>2. request' = [request EXCEPT ![one] = h] /\ UNCHANGED <<status, items, stock, taken, torn>>
    BY DEF ConfirmRead
  <2>3. \A p \in Product : taken[o][p] = 0
    BY <1>2 DEF ConfirmRead, AllOrNothing
  <2> HIDE DEF h
  <2>4. InStock(h.cart, 1..(h.line - 1))
    BY <2>1 DEF InStock
  <2>5. Progress(h)
    BY <2>1, <2>3, <2>4 DEF Progress
  <2>6. request'[one] = h
    BY <2>2, OthersStay
  <2>7. QED
    BY <1>2, <2>1, <2>2, <2>5, <2>6, AloneMoves
<1>5. CASE \E o \in Order, op \in {"cancel", "ship", "deliver"} : StatusRead(one, op, o)
  <2> PICK o \in Order, op \in {"cancel", "ship", "deliver"} : StatusRead(one, op, o)
    BY <1>5
  <2>1. UNCHANGED <<status, items, stock, taken, torn>>
    BY DEF StatusRead
  <2>2. CASE status[o] \in Accepts[op]
    <3> DEFINE h == [NoRequest EXCEPT !.op = op, !.order = o, !.stage = "write"]
    <3>1. h.op = op /\ h.order = o /\ h.stage = "write"
      BY DEF NoRequest
    <3>2. request' = [request EXCEPT ![one] = h]
      BY <2>2 DEF StatusRead
    <3> HIDE DEF h
    <3>3. Progress(h)
      BY <2>2, <3>1 DEF Progress
    <3>4. request'[one] = h
      BY <3>2, OthersStay
    <3>5. QED
      BY <1>2, <2>1, <3>1, <3>3, <3>4, AloneMoves
  <2>3. CASE status[o] \notin Accepts[op]
    <3>1. request'[one] = NoRequest
      BY <1>1, <2>3 DEF StatusRead
    <3>2. QED
      BY <1>2, <2>1, <3>1, IdleAlone, AloneMoves
  <2>4. QED
    BY <2>2, <2>3
<1>6. QED
  BY <1>3, <1>4, <1>5

LEMMA CreateAlone ==
    ASSUME NEW one \in OrderWorker, Alone(one),
           (\E o \in Order : CreateInsertOrder(one, o)) \/ CreateInsertItems(one)
    PROVE  AloneNow(one)'
<1>1. StockInv /\ request[one].op = "create"
  BY DEF Alone, AccountInv, CreateInsertOrder, CreateInsertItems, RequestAt
<1>2. \A o \in Order : AllOrNothing(o)
  BY <1>1 DEF Alone, Confirming
<1>3. CASE \E o \in Order : CreateInsertOrder(one, o)
  <2> PICK o \in Order : CreateInsertOrder(one, o)
    BY <1>3
  <2>1. request'[one].op = "create" /\ request'[one].stage = "items"
    <3>1. request \in [OrderWorker -> HandlerType]
      BY <1>1 DEF StockInv, OrderTypeOK, HandlerType
    <3>2. QED
      BY <1>1, <3>1 DEF CreateInsertOrder, HandlerType
  <2>2. /\ UNCHANGED <<items, stock, taken, torn>>
        /\ \A x \in Order : status'[x] = IF x = o THEN "requested" ELSE status[x]
    BY <1>1 DEF CreateInsertOrder, StockInv, OrderTypeOK
  <2>3. items[o] = <<>>
    BY DEF CreateInsertOrder, Alone, AccountInv, NoLinesYet
  <2>4. ASSUME NEW x \in Order PROVE AllOrNothing(x)'
    BY <1>2, <2>2, <2>3 DEF AllOrNothing
  <2>5. Progress(request[one])'
    BY <2>1 DEF Progress
  <2>6. QED
    BY <2>1, <2>4, <2>5 DEF AloneNow
<1>4. CASE CreateInsertItems(one)
  <2> PICK o \in Order : o = request[one].order /\ items[o] = <<>>
    BY <1>4 DEF CreateInsertItems, RequestAt, Alone, AccountInv, Claims, Claim, Inserting
  <2>1. request'[one] = NoRequest
    BY <1>1, <1>4, OthersStay DEF CreateInsertItems, RequestDone
  <2>2. /\ UNCHANGED <<status, stock, taken, torn>>
        /\ \A x \in Order : x # o => items'[x] = items[x]
    BY <1>1, <1>4 DEF CreateInsertItems, StockInv, OrderTypeOK
  <2>3. ASSUME NEW x \in Order PROVE AllOrNothing(x)'
    BY <1>2, <2>2 DEF AllOrNothing
  <2>4. Progress(request[one])'
    BY <2>1, IdleAlone DEF Progress
  <2>5. QED
    BY <2>1, <2>3, <2>4, IdleAlone DEF AloneNow
<1>5. QED
  BY <1>3, <1>4

LEMMA PrepareAlone ==
    ASSUME NEW one \in OrderWorker, Alone(one), CreatePrepare(one)
    PROVE  AloneNow(one)'
<1>1. /\ StockInv /\ request[one].op = "create"
      /\ UNCHANGED <<status, items, stock, taken, torn>>
  BY DEF Alone, AccountInv, CreatePrepare, RequestAt
<1>2. request \in [OrderWorker -> HandlerType]
  BY <1>1 DEF StockInv, OrderTypeOK, HandlerType
<1>3. \A o \in Order : AllOrNothing(o)
  BY <1>1 DEF Alone, Confirming
<1>4. CASE RequestDone(one)
  <2>1. request'[one] = NoRequest
    BY <1>1, <1>4, OthersStay DEF RequestDone
  <2>2. QED
    BY <1>1, <1>3, <2>1, IdleAlone, AloneMoves
<1>5. CASE ~RequestDone(one)
  <2>1. request'[one].op = "create" /\ request'[one].stage \in {"order", "prepare"}
    BY <1>1, <1>2, <1>5 DEF CreatePrepare, RequestGoto, HandlerType
  <2>2. Progress(request'[one])
    BY <2>1 DEF Progress
  <2>3. QED
    BY <1>1, <1>3, <2>1, <2>2, AloneMoves
<1>6. QED
  BY <1>4, <1>5

LEMMA WalkAlone ==
    ASSUME NEW one \in OrderWorker, Alone(one), ConfirmCheck(one) \/ ConfirmTakeRead(one)
    PROVE  AloneNow(one)'
<1> DEFINE r == request[one]
           c == r.cart
           k == r.line
<1>1. /\ StockInv /\ Claim(r) /\ Progress(r) /\ r.op = "confirm" /\ r.stage \in {"check", "read"}
      /\ UNCHANGED <<status, items, stock, taken, torn>>
  BY DEF Alone, AccountInv, Claims, ConfirmCheck, ConfirmTakeRead, RequestAt
<1>2. r.order \in Order /\ c \in Cart /\ k \in 1..Len(c) /\ Len(c) \in Nat /\ k \in Nat
  BY <1>1, CartLines DEF Claim, StockInv, HandlerInv, LineInCart
<1>3. request \in [OrderWorker -> HandlerType]
  BY <1>1 DEF StockInv, OrderTypeOK, HandlerType
<1>4. \A o \in Order : o # r.order => AllOrNothing(o)
  BY DEF Alone, Confirming
<1>5. ASSUME ConfirmCheck(one) PROVE AloneNow(one)'
  <2>1. r.stage = "check" /\ \A p \in Product : taken[r.order][p] = 0
    BY <1>1, <1>5 DEF ConfirmCheck, RequestAt, Progress
  <2>2. CASE ~Available(Line(one))
    <3>1. request'[one] = NoRequest
      BY <1>1, <1>5, <2>2, OthersStay DEF ConfirmCheck, RequestDone
    <3>2. AllOrNothing(r.order)
      BY <2>1 DEF AllOrNothing
    <3>3. \A o \in Order : AllOrNothing(o)
      BY <1>4, <3>2
    <3>4. QED
      BY <1>1, <3>1, <3>3, IdleAlone, AloneMoves
  <2>3. CASE Available(Line(one))
    <3> DEFINE h == request'[one]
    <3>1. /\ h.op = r.op /\ h.order = r.order /\ h.cart = c
          /\ LastLine(one) => h.stage = "read" /\ h.line = 1
          /\ ~LastLine(one) => h.stage = "check" /\ h.line = k + 1
      BY <1>3, <1>5, <2>3 DEF ConfirmCheck, RequestGoto, HandlerType
    <3>2. InStock(c, 1..k)
      <4>1. InStock(c, 1..(k - 1))
        BY <1>1, <2>1 DEF Progress
      <4>2. stock[c[k].product] >= c[k].quantity
        BY <2>3 DEF Available, Line
      <4>3. \A i \in 1..k : i \in 1..(k - 1) \/ i = k
        BY <1>2
      <4> HIDE DEF c, k
      <4>4. QED
        BY <4>1, <4>2, <4>3 DEF InStock
    <3>3. \A p \in Product : UnitsTo(c, p, 0) = 0
      BY <1>2, UnitsToEnds
    <3> HIDE DEF h
    <3>4. Progress(h)
      <4>1. CASE LastLine(one)
        <5>1. h.line - 1 = 0 /\ h.line..Len(h.cart) = 1..k
          BY <1>2, <3>1, <4>1 DEF LastLine
        <5>2. QED
          BY <2>1, <3>1, <3>2, <3>3, <4>1, <5>1 DEF Progress
      <4>2. CASE ~LastLine(one)
        <5>1. h.line - 1 = k
          BY <1>2, <3>1, <4>2
        <5>2. QED
          BY <2>1, <3>1, <3>2, <4>2, <5>1 DEF Progress
      <4>3. QED
        BY <4>1, <4>2
    <3>5. h.op = "confirm" /\ h.stage \in {"check", "read"} /\ h.order = r.order
      BY <1>1, <3>1
    <3>6. \A o \in Order : ~Confirming(h, o) => AllOrNothing(o)
      BY <1>4, <3>5 DEF Confirming
    <3>7. QED
      BY <1>1, <3>4, <3>5, <3>6, AloneMoves DEF h
  <2>4. QED
    BY <2>2, <2>3
<1>6. ASSUME ConfirmTakeRead(one) PROVE AloneNow(one)'
  <2> DEFINE h == request'[one]
  <2>1. r.stage = "read"
    BY <1>6 DEF ConfirmTakeRead, RequestAt
  <2>2. InStock(c, k..Len(c)) /\ k \in k..Len(c)
    BY <1>1, <1>2, <2>1 DEF Progress
  <2>3. Available(Line(one))
    BY <2>2 DEF InStock, Available, Line
  <2>4. /\ h.op = r.op /\ h.order = r.order /\ h.cart = c /\ h.line = k
        /\ h.stage = "take" /\ h.seen = stock[Line(one).product]
    BY <1>3, <1>6, <2>3 DEF ConfirmTakeRead, HandlerType
  <2> HIDE DEF h
  <2>5. Progress(h)
    BY <1>1, <2>1, <2>4 DEF Progress, Line
  <2>6. h.op = "confirm" /\ \A o \in Order : ~Confirming(h, o) => AllOrNothing(o)
    BY <1>1, <1>4, <2>4 DEF Confirming
  <2>7. QED
    BY <1>1, <2>4, <2>5, <2>6, AloneMoves DEF h
<1>7. QED
  BY <1>5, <1>6

LEMMA TakeAlone ==
    ASSUME NEW one \in OrderWorker, Alone(one), ProductsOnce, ConfirmTakeWrite(one)
    PROVE  AloneNow(one)'
<1> DEFINE r == request[one]
<1>1. StockInv /\ Claim(r) /\ Progress(r) /\ r.op = "confirm" /\ r.stage = "take"
  BY DEF Alone, AccountInv, Claims, ConfirmTakeWrite, RequestAt
<1> PICK o \in Order : o = r.order
  BY <1>1 DEF Claim
<1> PICK p \in Product, n \in Nat : p = Line(one).product /\ n = Line(one).quantity
  BY <1>1, LineTyped DEF StockInv
<1> PICK c \in Cart : c = r.cart /\ r.line \in 1..Len(c)
  BY <1>1 DEF StockInv, HandlerInv, LineInCart
<1> PICK k \in 1..Len(c) : k = r.line
  OBVIOUS
<1>2. c = items[o] /\ c[k].product = p /\ c[k].quantity = n /\ Len(c) \in Nat /\ DOMAIN c = 1..Len(c)
  BY <1>1, CartLines DEF Claim, Line
<1>3. /\ taken \in [Order -> [Product -> Nat]] /\ stock \in [Product -> Int]
      /\ request \in [OrderWorker -> HandlerType]
  BY <1>1 DEF StockInv, OrderTypeOK, HandlerType
<1>4. /\ stock' = [stock EXCEPT ![p] = r.seen - n]
      /\ taken' = [taken EXCEPT ![o][p] = @ + n]
      /\ UNCHANGED <<status, items>>
  BY DEF ConfirmTakeWrite
<1>5. /\ taken'[o][p] = taken[o][p] + n
      /\ \A x \in Order, q \in Product : x # o \/ q # p => taken'[x][q] = taken[x][q]
      /\ \A q \in Product : q # p => stock'[q] = stock[q]
  BY <1>3, <1>4
<1>6. ASSUME NEW q \in Product PROVE taken'[o][q] = UnitsTo(c, q, k)
  <2>1. taken[o][q] = UnitsTo(c, q, k - 1)
    BY <1>1 DEF Progress
  <2>2. /\ q = p => UnitsTo(c, q, k) = UnitsTo(c, q, k - 1) + n
        /\ q # p => UnitsTo(c, q, k) = UnitsTo(c, q, k - 1)
    BY <1>2, UnitsToStep
  <2>3. QED
    BY <1>5, <2>1, <2>2
<1>7. ASSUME NEW i \in (k + 1)..Len(c) PROVE stock'[c[i].product] >= c[i].quantity
  <2>1. i \in k..Len(c) /\ i \in DOMAIN c /\ k \in DOMAIN c /\ i # k
    BY <1>2
  <2>2. stock[c[i].product] >= c[i].quantity
    BY <1>1, <2>1 DEF Progress, InStock
  <2>3. c[i].product # p
    BY <1>2, <2>1 DEF ProductsOnce
  <2>4. c[i].product \in Product
    <3>1. c \in Seq(LineType)
      BY CartLines
    <3>2. c[i] \in LineType
      BY <2>1, <3>1
    <3>3. QED
      BY <3>2 DEF LineType
  <2>5. QED
    BY <1>5, <2>2, <2>3, <2>4
<1>8. /\ request'[one].op = "confirm" /\ request'[one].order = o /\ request'[one].cart = c
      /\ LastLine(one) => request'[one].stage = "write"
      /\ ~LastLine(one) => request'[one].stage = "read" /\ request'[one].line = k + 1
  BY <1>1, <1>3 DEF ConfirmTakeWrite, RequestGoto, HandlerType
<1> HIDE DEF r
<1>9. Progress(request[one])'
  <2>1. ASSUME LastLine(one) PROVE Progress(request[one])'
    <3>1. k = Len(c)
      BY <2>1 DEF LastLine, r
    <3>2. \A q \in Product : UnitsTo(c, q, k) = Units(c, q)
      BY <3>1, UnitsToEnds
    <3>3. \A q \in Product : taken'[o][q] = Units(items'[o], q)
      BY <1>2, <1>4, <1>6, <3>2
    <3>4. QED
      BY <1>8, <2>1, <3>3 DEF Progress
  <2>2. ASSUME ~LastLine(one) PROVE Progress(request[one])'
    <3>1. request'[one].line - 1 = k
      BY <1>8, <2>2
    <3>2. InStock(request[one].cart, request[one].line..Len(request[one].cart))'
      BY <1>7, <1>8, <2>2 DEF InStock
    <3>3. \A q \in Product : taken'[o][q] = UnitsTo(c, q, request'[one].line - 1)
      BY <1>6, <3>1
    <3>4. QED
      BY <1>8, <2>2, <3>2, <3>3 DEF Progress
  <2>3. QED
    BY <2>1, <2>2
<1>10. ASSUME NEW x \in Order, x # o PROVE AllOrNothing(x)'
  <2>1. AllOrNothing(x)
    BY <1>10 DEF Alone, Confirming, r
  <2>2. QED
    BY <1>4, <1>5, <1>10, <2>1 DEF AllOrNothing
<1>11. \A x \in Order : ~Confirming(request[one], x)' => AllOrNothing(x)'
  BY <1>8, <1>10 DEF Confirming
<1>12. QED
  BY <1>8, <1>9, <1>11 DEF AloneNow

LEMMA StatusWriteAlone ==
    ASSUME NEW one \in OrderWorker, Alone(one), StatusWrite(one)
    PROVE  AloneNow(one)'
<1> DEFINE r == request[one]
           s == Leaves[r.op]
<1>1. /\ StockInv /\ Claim(r) /\ Progress(r) /\ r.stage = "write"
      /\ r.op \in {"confirm", "cancel", "ship", "deliver"}
  BY DEF Alone, AccountInv, Claims, StatusWrite, StockInv, HandlerInv, WriteLeaves
<1>2. UNCHANGED <<items, stock, taken, torn>>
  BY DEF StatusWrite
<1>3. \A x \in Order : status'[x] = IF x = r.order THEN s ELSE status[x]
  BY <1>1 DEF StatusWrite, StockInv, OrderTypeOK
<1>4. request'[one] = NoRequest
  BY <1>1, OthersStay DEF StatusWrite, RequestDone
<1>5. s # "requested" /\ (s = "confirmed" => r.op = "confirm")
  BY <1>1 DEF Leaves
<1>6. ASSUME NEW x \in Order, x = r.order PROVE AllOrNothing(x)'
  <2>1. CASE r.op = "confirm"
    <3>1. \A p \in Product : taken[x][p] = Units(items[x], p)
      BY <1>1, <1>6, <2>1 DEF Progress
    <3>2. items[x] # <<>>
      BY <1>1, <1>6, <2>1 DEF Claim, Took
    <3>3. QED
      BY <1>2, <1>3, <1>5, <1>6, <3>1, <3>2 DEF AllOrNothing
  <2>2. CASE r.op # "confirm"
    <3>1. AllOrNothing(x)
      BY <2>2 DEF Alone, Confirming
    <3>2. QED
      BY <1>2, <1>3, <1>5, <1>6, <3>1 DEF AllOrNothing
  <2>3. QED
    BY <2>1, <2>2
<1>7. ASSUME NEW x \in Order, x # r.order PROVE AllOrNothing(x)'
  <2>1. AllOrNothing(x)
    BY <1>7 DEF Alone, Confirming
  <2>2. QED
    BY <1>2, <1>3, <1>7, <2>1 DEF AllOrNothing
<1>8. Progress(request[one])'
  BY <1>4, IdleAlone DEF Progress
<1>9. \A x \in Order : AllOrNothing(x)'
  BY <1>6, <1>7
<1>10. QED
  BY <1>4, <1>8, <1>9, IdleAlone DEF AloneNow

LEMMA AloneInit ==
    ASSUME NEW one \in OrderWorker, OrderInit
    PROVE  Alone(one)
<1>1. request[one] = NoRequest
  BY DEF OrderInit
<1>2. \A o \in Order : AllOrNothing(o)
  BY DEF OrderInit, AllOrNothing
<1>3. QED
  BY <1>1, <1>2, AccountInit, IdleAlone DEF Alone

LEMMA AloneNext ==
    ASSUME NEW one \in OrderWorker, ProductsOnce, Alone(one), [OrderStep(one)]_orderVars
    PROVE  Alone(one)'
<1>1. CASE OrderStep(one)
  <2>1. AccountInv' /\ StockInv
    BY <1>1, AccountNext DEF Alone, AccountInv, OrderNext
  <2>2. AloneNow(one)'
    BY <1>1, <2>1, BeginAlone, CreateAlone, PrepareAlone, WalkAlone, TakeAlone, StatusWriteAlone
       DEF OrderStep
  <2>3. QED
    BY <2>1, <2>2 DEF Alone, AloneNow
<1>2. CASE UNCHANGED orderVars
  <2>1. AccountInv'
    BY <1>2, AccountNext DEF Alone
  <2>2. AloneNow(one)'
    BY <1>2 DEF orderVars, Alone, AloneNow, Progress, InStock, AllOrNothing, Confirming
  <2>3. QED
    BY <2>1, <2>2 DEF Alone, AloneNow
<1>3. QED
  BY <1>1, <1>2

-----------------------------------------------------------------------------
\* order_repo.py:341 "2. decrement the stock when all products are available":
\* requests handled one at a time, none of which fails, take all lines of an
\* order or none, provided that no cart names a product twice: the check of a
\* line looks at the stock before any of them is taken.
THEOREM SerialTakesAll ==
    ASSUME NEW one \in OrderWorker, ProductsOnce
    PROVE  OneAtATime(one) => []TakesAllOrNothing
<1>1. OrderInit => Alone(one)
  BY AloneInit
<1>2. Alone(one) /\ [OrderStep(one)]_orderVars => Alone(one)'
  BY AloneNext
<1>3. Alone(one) => TakesAllOrNothing
  BY DEF Alone, AllOrNothing, Confirming, TakesAllOrNothing
<1>4. QED
  BY <1>1, <1>2, <1>3, PTL DEF OneAtATime

\* A step keeps what its handler read, and changes a status as it should.
LEMMA CurrentStep ==
    ASSUME NEW one \in OrderWorker, StockInv, Current(request[one]), OrderStep(one)
    PROVE  Current(request[one])' /\ StatusChanges
<1> DEFINE r == request[one]
<1>1. request \in [OrderWorker -> HandlerType] /\ status \in [Order -> Status]
  BY DEF StockInv, OrderTypeOK, HandlerType
<1>2. NoRequest.stage = "idle"
  BY DEF NoRequest
<1>3. CASE StatusWrite(one)
  <2>1. r.stage = "write" /\ r.op \in {"confirm", "cancel", "ship", "deliver"}
    BY <1>3 DEF StatusWrite, StockInv, HandlerInv, WriteLeaves
  <2>2. request'[one] = NoRequest
    BY <1>3, OthersStay DEF StatusWrite, RequestDone
  <2>3. /\ r.op = "confirm" => status[r.order] = "requested"
        /\ status[r.order] \notin {"cancelled", "delivered"}
    BY <2>1 DEF Current, Accepts
  <2>4. Leaves[r.op] = "confirmed" => r.op = "confirm"
    BY <2>1 DEF Leaves
  <2>5. \A x \in Order : status'[x] = IF x = r.order THEN Leaves[r.op] ELSE status[x]
    BY <1>1, <1>3 DEF StatusWrite
  <2>6. StatusChanges
    BY <2>3, <2>4, <2>5 DEF StatusChanges
  <2>7. QED
    BY <1>2, <2>2, <2>6 DEF Current
<1>4. CASE \E o \in Order : CreateInsertOrder(one, o)
  <2> PICK o \in Order : CreateInsertOrder(one, o)
    BY <1>4
  <2>1. /\ status[o] = "absent" /\ \A x \in Order : status'[x] = IF x = o THEN "requested" ELSE status[x]
    BY <1>1 DEF CreateInsertOrder
  <2>2. request'[one].stage = "items"
    BY <1>1 DEF CreateInsertOrder, HandlerType
  <2>3. QED
    BY <2>1, <2>2 DEF StatusChanges, Current
<1>5. CASE ~StatusWrite(one) /\ ~(\E o \in Order : CreateInsertOrder(one, o))
  <2>1. status' = status
    BY <1>5 DEF OrderStep, CreateBegin, CreatePrepare, ConfirmRead, StatusRead,
                CreateInsertItems, ConfirmCheck, ConfirmTakeRead, ConfirmTakeWrite
  <2>2. StatusChanges
    BY <2>1 DEF StatusChanges
  <2>3. Current(request'[one])
    <3>1. CASE RequestDone(one)
      BY <1>1, <1>2, <3>1 DEF RequestDone, Current
    <3>2. CASE \E c \in Cart : CreateBegin(one, c)
      <4>1. request'[one].stage = "prepare"
        BY <1>1, <3>2 DEF CreateBegin, NoRequest
      <4>2. QED
        BY <4>1 DEF Current
    <3>10. CASE CreatePrepare(one) /\ ~RequestDone(one)
      <4>1. request'[one].stage \in {"order", "prepare"}
        BY <1>1, <3>10 DEF CreatePrepare, RequestGoto, HandlerType
      <4>2. QED
        BY <4>1 DEF Current
    <3>3. CASE \E o \in Order : ConfirmRead(one, o)
      <4> PICK o \in Order : ConfirmRead(one, o)
        BY <3>3
      <4>1. request'[one].stage = "check" /\ request'[one].order = o
        BY <1>1 DEF ConfirmRead, NoRequest
      <4>2. QED
        BY <4>1 DEF ConfirmRead, Current
    <3>4. CASE \E o \in Order, op \in {"cancel", "ship", "deliver"} : StatusRead(one, op, o)
      <4> PICK o \in Order, op \in {"cancel", "ship", "deliver"} : StatusRead(one, op, o)
        BY <3>4
      <4>1. CASE status[o] \in Accepts[op]
        <5>1. request'[one].stage = "write" /\ request'[one].order = o /\ request'[one].op = op
          BY <1>1, <4>1 DEF StatusRead, NoRequest
        <5>2. QED
          BY <4>1, <5>1 DEF Current
      <4>2. CASE status[o] \notin Accepts[op]
        BY <4>2 DEF StatusRead
      <4>3. QED
        BY <4>1, <4>2
    <3>5. CASE ConfirmCheck(one) /\ ~RequestDone(one)
      <4>1. /\ r.stage = "check" /\ request'[one].order = r.order
            /\ request'[one].stage \in {"check", "read"}
        BY <1>1, <3>5 DEF ConfirmCheck, RequestAt, RequestGoto, HandlerType
      <4>2. QED
        BY <4>1 DEF Current
    <3>6. CASE ConfirmTakeRead(one) /\ ~RequestDone(one)
      <4>1. r.stage = "read" /\ request'[one].order = r.order /\ request'[one].stage = "take"
        BY <1>1, <3>6 DEF ConfirmTakeRead, RequestAt, HandlerType
      <4>2. QED
        BY <4>1 DEF Current
    <3>7. CASE ConfirmTakeWrite(one)
      <4>1. /\ r.stage = "take" /\ r.op = "confirm"
            /\ request'[one].order = r.order /\ request'[one].op = r.op
            /\ request'[one].stage \in {"read", "write"}
        BY <1>1, <3>7 DEF ConfirmTakeWrite, RequestAt, RequestGoto, HandlerType
      <4>2. QED
        BY <4>1 DEF Current
    <3>8. CASE CreateInsertItems(one)
      BY <3>1, <3>8 DEF CreateInsertItems
    <3>9. QED
      BY <1>5, <3>1, <3>2, <3>3, <3>4, <3>5, <3>6, <3>7, <3>8, <3>10 DEF OrderStep
  <2>4. QED
    BY <2>1, <2>2, <2>3 DEF Current
<1>6. QED
  BY <1>3, <1>4, <1>5

\* Handled one at a time, a confirmation changes requested orders only, and a
\* cancelled or delivered order never changes again: the status that a handler
\* read is still there when it writes.
THEOREM SerialStatus ==
    ASSUME NEW one \in OrderWorker
    PROVE  OneAtATime(one) => [][StatusChanges]_orderVars
<1> DEFINE Inv == StockInv /\ Current(request[one])
<1>1. OrderInit => Inv
  BY StockInit DEF OrderInit, Current, NoRequest
<1>2. Inv /\ [OrderStep(one)]_orderVars => Inv' /\ [StatusChanges]_orderVars
  <2>1. ASSUME Inv, OrderStep(one) PROVE Inv' /\ StatusChanges
    BY <2>1, StockNext, CurrentStep DEF OrderNext
  <2>2. ASSUME Inv, UNCHANGED orderVars PROVE Inv'
    BY <2>2, StockNext DEF orderVars, Current
  <2>3. QED
    BY <2>1, <2>2
<1>3. QED
  BY <1>1, <1>2, PTL DEF OneAtATime

-----------------------------------------------------------------------------
(* The instances                                                           *)

\* The catalogue and the orders side by side keep their types.
THEOREM OffersAreTyped == Spec /\ OrderSpec => []TypesOK
<1>1. TypeOK /\ OrderTypeOK => TypesOK
  BY DEF TypesOK
<1> QED BY <1>1, CatalogTypeCorrect, OrdersTypeCorrect, PTL

\* A crew that works one at a time is one worker.
LEMMA SerialCrew ==
    ASSUME OrderWorker # {}, MCInit, Serial
    PROVE  \E one \in OrderWorker : crew = {one}
<1>1. CASE crew = {CHOOSE w \in OrderWorker : TRUE}
  BY <1>1
<1>2. CASE crew = OrderWorker
  <2>1. PICK one \in OrderWorker : TRUE
    OBVIOUS
  <2>2. crew = {one}
    BY <1>2 DEF Serial
  <2> QED BY <2>2
<1> QED BY <1>1, <1>2 DEF MCInit

\* The only worker of the crew is alone with the orders, and what it read of an
\* order is current.
SerialInv ==
    Serial => \E one \in OrderWorker :
        crew = {one} /\ StockInv /\ Current(request[one]) /\ (ProductsOnce => Alone(one))

LEMMA SerialInvInit ==
    ASSUME OrderWorker # {}, MCInit
    PROVE  SerialInv
<1> SUFFICES ASSUME Serial
             PROVE  \E one \in OrderWorker :
                      crew = {one} /\ StockInv /\ Current(request[one]) /\ (ProductsOnce => Alone(one))
  BY DEF SerialInv
<1>1. PICK one \in OrderWorker : crew = {one}
  BY SerialCrew
<1>2. OrderInit
  BY DEF MCInit
<1>3. StockInv
  BY <1>2, StockInit
<1>4. Current(request[one])
  BY <1>2 DEF OrderInit, Current, NoRequest
<1>5. Alone(one)
  BY <1>2, AloneInit
<1> QED BY <1>1, <1>3, <1>4, <1>5

\* A step of an instance is, for its only worker, a step of that worker or none.
LEMMA SerialMoves ==
    ASSUME NEW one \in OrderWorker, crew = {one}, [MCNext]_mcVars
    PROVE  crew' = crew /\ [OrderStep(one)]_orderVars
<1>1. CASE scenario = "orders" /\ Ordering /\ UNCHANGED crew
  <2>1. Serial
    BY DEF Serial
  <2> QED BY <1>1, <2>1 DEF Ordering
<1>2. CASE UNCHANGED <<orderVars, crew>>
  BY <1>2
<1> QED BY <1>1, <1>2 DEF MCNext, mcVars

LEMMA SerialInvNext ==
    ASSUME SerialInv, [MCNext]_mcVars
    PROVE  SerialInv' /\ [Serial => StatusChanges]_orderVars
<1> USE DEF Serial
<1>1. CASE ~Serial
  <2>1. crew' = crew
    BY DEF MCNext, mcVars
  <2>2. ~Serial'
    BY <1>1, <2>1
  <2> QED BY <1>1, <2>2 DEF SerialInv
<1>2. CASE Serial
  <2>1. PICK one \in OrderWorker :
          crew = {one} /\ StockInv /\ Current(request[one]) /\ (ProductsOnce => Alone(one))
    BY <1>2 DEF SerialInv
  <2>2. crew' = {one} /\ [OrderStep(one)]_orderVars
    BY <2>1, SerialMoves
  <2>3. StockInv'
    BY <2>1, <2>2, StockNext DEF OrderNext
  <2>4. Current(request[one])' /\ [StatusChanges]_orderVars
    <3>1. CASE OrderStep(one)
      BY <2>1, <3>1, CurrentStep
    <3>2. CASE UNCHANGED orderVars
      BY <2>1, <3>2 DEF orderVars, Current
    <3> QED BY <2>2, <3>1, <3>2
  <2>5. ProductsOnce => Alone(one)'
    BY <2>1, <2>2, AloneNext
  <2> QED BY <2>2, <2>3, <2>4, <2>5 DEF SerialInv
<1> QED BY <1>1, <1>2

\* In every instance, whatever its bounds and its other scenarios: requests
\* handled one at a time take all lines of an order or none, when no cart names
\* a product twice.
THEOREM SerialInstancesTakeAll ==
    ASSUME OrderWorker # {}, ProductsOnce
    PROVE  MCSpec => []SerialTakesAllOrNothing
<1>1. MCInit => SerialInv
  BY SerialInvInit
<1>2. SerialInv /\ [MCNext]_mcVars => SerialInv'
  BY SerialInvNext
<1>3. SerialInv => SerialTakesAllOrNothing
  BY DEF SerialInv, SerialTakesAllOrNothing, Alone, AllOrNothing, Confirming, TakesAllOrNothing
<1> QED BY <1>1, <1>2, <1>3, PTL DEF MCSpec

\* In every instance, handled one at a time a confirmation changes requested
\* orders only, and a cancelled or delivered order never changes again.
THEOREM SerialInstancesStatus ==
    ASSUME OrderWorker # {}
    PROVE  MCSpec => SerialStatusChanges
<1>1. MCInit => SerialInv
  BY SerialInvInit
<1>2. SerialInv /\ [MCNext]_mcVars => SerialInv' /\ [Serial => StatusChanges]_orderVars
  BY SerialInvNext
<1> QED BY <1>1, <1>2, PTL DEF MCSpec, SerialStatusChanges
=============================================================================
