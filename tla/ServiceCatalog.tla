---------------------------- MODULE ServiceCatalog ----------------------------
(***************************************************************************)
(* The services of an organization with their items and the options of     *)
(* those: what an extraction from a knowledge source writes                *)
(* (services/service_sync_pipeline.py, repositories/                       *)
(* service_catalog_repo.py, service_repo.py) while an administrator        *)
(* approves, rejects and edits (api/services.py, the service endpoints of  *)
(* api/reservations.py).  Every request on a table is a step.  The requests*)
(* of an extraction follow each other without an await, so the event loop  *)
(* runs one extraction at a time; the administrator's endpoints run in     *)
(* threads.  The price stands for all the fields an extraction fills; a    *)
(* name, by which an extraction looks a row up, is one that any request    *)
(* which edits the row may change.  Prompts and answers of the model are   *)
(* left out.                                                               *)
(***************************************************************************)
EXTENDS Integers, FiniteSets

CONSTANTS
    Service, Item, Option,  \* identities of rows, never used again
    Worker,                 \* the administrator's requests at the same time
    Source,                 \* knowledge sources
    Name,
    Price,                  \* prices other than 0
    Free, Zero,             \* the text "0원" of an extracted catalogue, and 0
    Missing,                \* a price that is null
    None,
    Catalogs,               \* what the model may extract as a catalogue
    Lists,                  \* what it may extract as flat services
    ItemDefault             \* approval_status of an inserted item or option
                            \* that names none

Approval == {"pending", "approved", "rejected"}
Id == Service \cup Item \cup Option

ASSUME KindsAssumption ==
    /\ Service \cap Item = {} /\ Service \cap Option = {} /\ Item \cap Option = {}
    /\ None \notin Id \cup Source \cup Name \cup Price \cup {Missing}
    /\ {Free, Zero, Missing} \cap Price = {}
    /\ Free # Zero /\ Free # Missing /\ Zero # Missing
ASSUME DefaultAssumption == ItemDefault \in Approval
ASSUME ExtractedAssumption ==
    LET Extracted == Price \cup {Free, Missing} IN
    /\ Catalogs \subseteq
         [service : Name, items : SUBSET
            [name : Name, price : Extracted, options : SUBSET [name : Name, price : Extracted]]]
    /\ \A c \in Catalogs : c.items # {}
    /\ Lists \subseteq SUBSET [name : Name, price : Price \cup {Missing}]

VARIABLES
    row,            \* services, service_items and service_item_options
    extraction,     \* what the extraction under way is doing
    handler,        \* what each request of the administrator is doing
    doubled,        \* history: rows that the administrator gave a name that a
                    \* sibling had, or that an extraction was about to write
    decided,        \* history: the administrator's last decision on a row
    accepted,       \* history: the price at the administrator's last write
    raced,          \* history: rows an extraction wrote after the administrator
                    \* changed what it had looked up
    excused         \* history: rows that an activation need not reach

vars == <<row, extraction, handler, doubled, decided, accepted, raced, excused>>
Histories == <<doubled, decided, accepted, raced, excused>>

NoRow == [life |-> "new", parent |-> None, name |-> None, source |-> None,
          approval |-> "pending", shown |-> FALSE, sync |-> "synced",
          price |-> Missing, candidate |-> None]
Unseen == [approval |-> "pending", shown |-> FALSE, price |-> Missing]
NoEntry == [name |-> None, price |-> Missing]
Quiet == [stage |-> "idle", source |-> None, service |-> None, item |-> None,
          entry |-> NoEntry, found |-> None, seen |-> Unseen, overtaken |-> FALSE,
          todo |-> {}, options |-> {}, names |-> {}, stale |-> {}]
Idle == [op |-> "idle", stage |-> "idle", service |-> None, candidate |-> None, items |-> {}]

Init ==
    /\ row = [r \in Id |-> NoRow]
    /\ extraction = Quiet
    /\ handler = [w \in Worker |-> Idle]
    /\ doubled = {}
    /\ decided = [r \in Id |-> "none"]
    /\ accepted = [r \in Id |-> Missing]
    /\ raced = {} /\ excused = {}

Live(r) == r # None /\ row[r].life = "live"
ItemsOf(s) == {i \in Item : Live(i) /\ row[i].parent = s}
OptionsOf(items) == {o \in Option : Live(o) /\ row[o].parent \in items}
Below(s) == ItemsOf(s) \cup OptionsOf(ItemsOf(s))
Pending(rows) == {r \in rows : row[r].approval = "pending"}

\* Siblings of one name.
Alike(rows, r, q) ==
    /\ rows[r].life = "live" /\ rows[q].life = "live"
    /\ r \in Service <=> q \in Service
    /\ rows[r].parent = rows[q].parent /\ rows[r].name = rows[q].name

\* The service that r belongs to.
Top(rows, r) == CASE r \in Service -> r
                  [] r \in Item -> rows[r].parent
                  [] r \in Option -> rows[rows[r].parent].parent

-----------------------------------------------------------------------------
(* Extraction: a step looks a row up by name, the next one writes it *)

Stage(stage) == extraction.stage = stage

\* Variant: a rejected row is not found.
MatchingUnrejected(kind, parent, name) ==
    {r \in kind : Live(r) /\ row[r].parent = parent /\ row[r].name = name
                  /\ row[r].approval # "rejected"}

\* Of several rows with one name any is taken.
Matching(kind, parent, name) ==
    {r \in kind : Live(r) /\ row[r].parent = parent /\ row[r].name = name}

Seen(r) == [approval |-> row[r].approval, shown |-> row[r].shown, price |-> row[r].price]

LookUp(kind, parent, e) ==
    LET found == Matching(kind, parent, e.entry.name) IN
    \E r \in IF found = {} THEN {None} ELSE found :
        extraction' = [e EXCEPT !.found = r, !.overtaken = FALSE,
                                !.seen = IF r = None THEN Unseen ELSE Seen(r)]

Insert(r, new) == row[r].life = "new" /\ row' = [row EXCEPT ![r] = new]

Quoted(r) == r.shown \/ r.approval = "approved"

\* What a write to r says of the histories: it may undo what the administrator
\* did since the lookup, leave r pending under an approved service, or write a
\* price where there was none or where no customer sees it.
Records(r) ==
    /\ raced' = IF extraction.overtaken THEN raced \cup {r} ELSE raced
    /\ excused' = IF row'[r].approval = "pending" /\ row'[Top(row', r)].approval = "approved"
                  THEN excused \cup {r} ELSE excused
    /\ accepted' = IF row[r].price = Missing \/ ~Quoted(row'[r])
                   THEN [accepted EXCEPT ![r] = row'[r].price] ELSE accepted
    /\ UNCHANGED <<decided, doubled>>

RecordsNothing == UNCHANGED Histories

\* What was looked up is forgotten once it is written.
Forget(e) == [e EXCEPT !.entry = NoEntry, !.found = None, !.seen = Unseen, !.overtaken = FALSE]

\* Variant: a price of 0 is kept.
ToNullableIntKeeping(price) == IF price = Free THEN Zero ELSE price

\* _to_nullable_int runs when the catalogue is normalized and again when a row
\* is built: "0원" becomes 0, and 0 becomes null.
ToNullableInt(price) ==
    CASE price = Free -> Zero
      [] price = Zero -> Missing
      [] OTHER -> price

Normalized(items) ==
    {[item EXCEPT !.price = ToNullableInt(@),
                  !.options = {[o EXCEPT !.price = ToNullableInt(@)] : o \in @}] : item \in items}

\* extract_and_sync_services_from_knowledge, with a catalogue that has items.
CatalogBegin(k, c) ==
    /\ Stage("idle")
    /\ extraction' = [Quiet EXCEPT !.stage = "findService", !.source = k,
                                   !.todo = Normalized(c.items),
                                   !.entry = [NoEntry EXCEPT !.name = c.service]]
    /\ UNCHANGED <<row, handler, Histories>>

FindService ==
    /\ Stage("findService")
    /\ LookUp(Service, None, [extraction EXCEPT !.stage = "writeService"])
    /\ UNCHANGED <<row, handler, Histories>>

NewRow(parent, price) ==
    [NoRow EXCEPT !.life = "live", !.parent = parent, !.name = extraction.entry.name,
                  !.source = extraction.source, !.price = price]

\* _upsert_parent_service: an existing service keeps its approval, its price
\* and its candidate.
WriteService ==
    /\ Stage("writeService")
    /\ \E s \in Service :
         /\ \/ /\ extraction.found = None
               /\ Insert(s, NewRow(None, Missing)) /\ Records(s)
            \/ /\ extraction.found = s
               /\ row' = IF Live(s) THEN [row EXCEPT ![s].sync = "synced"] ELSE row
               /\ RecordsNothing
         /\ extraction' = [Forget(extraction) EXCEPT !.stage = "findItem", !.service = s]
    /\ UNCHANGED handler

FindItem ==
    /\ Stage("findItem")
    /\ \E item \in extraction.todo :
         LookUp(Item, extraction.service,
                [extraction EXCEPT !.stage = "writeItem", !.todo = @ \ {item},
                    !.entry = [name |-> item.name, price |-> item.price],
                    !.options = item.options])
    /\ UNCHANGED <<row, handler, Histories>>

FindOption ==
    /\ Stage("findOption")
    /\ \E option \in extraction.options :
         LookUp(Option, extraction.item,
                [extraction EXCEPT !.stage = "writeOption", !.options = @ \ {option},
                                   !.entry = option])
    /\ UNCHANGED <<row, handler, Histories>>

\* After an item its options, then the next item.
AfterRow(e) ==
    IF e.options # {} THEN [Forget(e) EXCEPT !.stage = "findOption"]
    ELSE IF e.todo # {} THEN [Forget(e) EXCEPT !.stage = "findItem"]
    ELSE Quiet

\* Variant: what is approved and not offered is overwritten too.
UpdatedUnlessShown(cur, seen, price) ==
    IF ~seen.shown
    THEN [cur EXCEPT !.price = price, !.sync = "synced", !.candidate = None]
    ELSE [cur EXCEPT !.candidate = price, !.sync = "needs_review"]

\* The update of an item or option that was looked up as seen: one that is
\* neither approved nor available takes the extracted name and price and is
\* hidden; any other is filled in, or gets a candidate where the price differs.
Updated(cur, seen, price) ==
    IF seen.approval # "approved" /\ ~seen.shown
    THEN [cur EXCEPT !.name = extraction.entry.name, !.price = price, !.shown = FALSE,
                     !.approval = seen.approval, !.sync = "synced", !.candidate = None]
    ELSE IF seen.price = Missing /\ price # Missing
    THEN [cur EXCEPT !.price = price, !.sync = "synced"]
    ELSE IF price \notin {Missing, seen.price}
    THEN [cur EXCEPT !.candidate = price, !.sync = "needs_review"]
    ELSE [cur EXCEPT !.sync = "synced"]

\* _upsert_service_item and _upsert_service_item_option: an update finds the
\* row deleted, or the foreign key refuses an insert under a deleted parent,
\* which ends the extraction.
Upsert(kind, parent) ==
    LET price == ToNullableInt(extraction.entry.price)
        next(r) == AfterRow([extraction EXCEPT !.item = IF kind = Item THEN r ELSE @]) IN
    \/ /\ extraction.found = None /\ Live(parent)
       /\ \E r \in kind : /\ Insert(r, NewRow(parent, price)) /\ Records(r)
                          /\ extraction' = next(r)
    \/ /\ extraction.found = None /\ ~Live(parent)
       /\ extraction' = Quiet
       /\ UNCHANGED row /\ RecordsNothing
    \/ /\ Live(extraction.found)
       /\ row' = [row EXCEPT ![extraction.found] = Updated(@, extraction.seen, price)]
       /\ Records(extraction.found)
       /\ extraction' = next(extraction.found)
    \/ /\ extraction.found # None /\ ~Live(extraction.found)
       /\ extraction' = next(extraction.found)
       /\ UNCHANGED row /\ RecordsNothing

WriteItem ==
    /\ Stage("writeItem")
    /\ Upsert(Item, extraction.service)
    /\ UNCHANGED handler

WriteOption ==
    /\ Stage("writeOption")
    /\ Upsert(Option, extraction.item)
    /\ UNCHANGED handler

-----------------------------------------------------------------------------
(* The flat fallback, when no catalogue came back *)

AfterFlat(e) == [Forget(e) EXCEPT !.stage = IF e.todo # {} THEN "flatFind" ELSE "listStale"]

FlatBegin(k, list) ==
    /\ Stage("idle")
    /\ extraction' = AfterFlat([Quiet EXCEPT !.source = k, !.todo = list,
                                             !.names = {e.name : e \in list}])
    /\ UNCHANGED <<row, handler, Histories>>

FlatFind ==
    /\ Stage("flatFind")
    /\ \E e \in extraction.todo :
         LookUp(Service, None, [extraction EXCEPT !.stage = "flatWrite", !.todo = @ \ {e},
                                                  !.entry = e])
    /\ UNCHANGED <<row, handler, Histories>>

\* Variant: a rejected service is proposed again as pending.
FlatUpdatedRejected(cur, seen) ==
    IF seen.approval # "approved"
    THEN [cur EXCEPT !.price = extraction.entry.price, !.source = extraction.source,
                     !.approval = "pending", !.shown = FALSE, !.sync = "synced",
                     !.candidate = None]
    ELSE [cur EXCEPT !.candidate = extraction.entry.price, !.sync = "needs_review"]

FlatUpdated(cur, seen) ==
    IF seen.approval = "pending"
    THEN [cur EXCEPT !.name = extraction.entry.name, !.price = extraction.entry.price,
                     !.source = extraction.source, !.approval = "pending", !.shown = FALSE,
                     !.sync = "synced", !.candidate = None]
    ELSE [cur EXCEPT !.candidate = extraction.entry.price, !.sync = "needs_review"]

\* sync_extracted_service_to_pending; a row deleted since is an error that the
\* pipeline swallows.
FlatWrite ==
    /\ Stage("flatWrite")
    /\ \/ /\ extraction.found = None
          /\ \E s \in Service : Insert(s, NewRow(None, extraction.entry.price)) /\ Records(s)
       \/ /\ Live(extraction.found)
          /\ row' = [row EXCEPT ![extraction.found] = FlatUpdated(@, extraction.seen)]
          /\ Records(extraction.found)
       \/ /\ extraction.found # None /\ ~Live(extraction.found)
          /\ UNCHANGED row /\ RecordsNothing
    /\ extraction' = AfterFlat(extraction)
    /\ UNCHANGED handler

AfterStale(e) == IF e.stale = {} THEN Quiet ELSE [e EXCEPT !.stage = "markStale"]

\* mark_source_services_stale
ListStale ==
    /\ Stage("listStale")
    /\ extraction' = AfterStale([extraction EXCEPT !.stale =
         {s \in Service : Live(s) /\ row[s].source = extraction.source
                          /\ row[s].name \notin extraction.names}])
    /\ UNCHANGED <<row, handler, Histories>>

MarkStale ==
    /\ Stage("markStale")
    /\ \E s \in extraction.stale :
         /\ row' = IF Live(s) THEN [row EXCEPT ![s].sync = "stale"] ELSE row
         /\ extraction' = AfterStale([extraction EXCEPT !.stale = @ \ {s}])
    /\ UNCHANGED <<handler, Histories>>

\* A failing request ends a catalogue half written and skips a flat service;
\* a restart ends both.
ExtractionFails ==
    /\ ~Stage("idle")
    /\ \/ extraction' = Quiet
       \/ Stage("flatWrite") /\ extraction' = AfterFlat(extraction)
       \/ Stage("flatFind") /\ \E e \in extraction.todo :
              extraction' = AfterFlat([extraction EXCEPT !.todo = @ \ {e}])
    /\ UNCHANGED <<row, handler, Histories>>

-----------------------------------------------------------------------------
(* The administrator: a request looks the service up, the next one writes.  *)
(* Handlers that write whatever they found are one step.                    *)

At(w, stage) == handler[w].stage = stage
Goto(w, stage) == handler' = [handler EXCEPT ![w].stage = stage]
Finish(w) == handler' = [handler EXCEPT ![w] = Idle]

Begin(w, op, s, candidate) ==
    /\ handler[w] = Idle
    /\ handler' = [handler EXCEPT ![w] = [Idle EXCEPT !.op = op, !.stage = "write",
                                            !.service = s, !.candidate = candidate]]
    /\ UNCHANGED <<row, extraction, Histories>>

\* The extraction has looked up by this name, to write r or a sibling of it.
WrittenAs(r, parent, name) ==
    /\ extraction.entry.name = name
    /\ \/ r \in Service /\ extraction.stage \in {"writeService", "flatWrite"}
       \/ r \in Item /\ Stage("writeItem") /\ parent = extraction.service
       \/ r \in Option /\ Stage("writeOption") /\ parent = extraction.item

\* r has a name it did not have, which is another's too or will be.
Doubles(r) ==
    /\ row'[r].life = "live" /\ (Live(r) => row'[r].name # row[r].name)
    /\ \/ \E q \in Id \ {r} : Alike(row', r, q)
       \/ WrittenAs(r, row'[r].parent, row'[r].name)

\* The rows become new: what an extraction looked up before is overtaken, and
\* the prices and names are the administrator's.
Writes(rows, new) ==
    /\ row' = [r \in Id |-> IF r \in rows THEN new[r] ELSE row[r]]
    /\ extraction' = [extraction EXCEPT !.overtaken = @ \/ extraction.found \in rows]
    /\ accepted' = [r \in Id |-> IF r \in rows THEN new[r].price ELSE accepted[r]]
    /\ doubled' = doubled \cup {r \in rows : Doubles(r)}

Write(r, new) == Writes({r}, [q \in {r} |-> new])

Decides(rows, approval, late) ==
    /\ decided' = [r \in Id |-> IF r \in rows THEN approval ELSE decided[r]]
    /\ raced' = raced \ rows
    /\ excused' = (excused \ rows) \cup late

DecidesNothing == UNCHANGED <<decided, raced, excused>>

\* The service was deleted since it was looked up: 500.
Gone(w) ==
    /\ ~Live(handler[w].service)
    /\ Finish(w)
    /\ UNCHANGED <<row, extraction, Histories>>

ApproveBegin(w, s) ==
    /\ Live(s) /\ row[s].approval # "approved"
    /\ Begin(w, "approve", s, None)

\* The administrator may rename the service, set a price and leave it inactive.
ApproveWrite(w) ==
    /\ handler[w].op = "approve" /\ At(w, "write")
    /\ LET s == handler[w].service IN
       \/ Gone(w)
       \/ /\ Live(s)
          /\ \E shown \in BOOLEAN, price \in Price \cup {row[s].price}, name \in Name :
               Write(s, [row[s] EXCEPT !.name = name, !.approval = "approved", !.shown = shown,
                                    !.price = price, !.sync = "synced", !.candidate = None])
          /\ Decides({s}, "approved", {})
          /\ Goto(w, "check")

\* The candidate read is applied and the service is approved, whatever it was:
\* it is named as the administrator says, or again as it was extracted.
\* pending_payload is written only with values that are not None, so the
\* candidate stays.
ApplyBegin(w, s) ==
    /\ Live(s) /\ row[s].candidate # None
    /\ Begin(w, "apply", s, row[s].candidate)

ApplyWrite(w) ==
    /\ handler[w].op = "apply" /\ At(w, "write")
    /\ LET s == handler[w].service
           given == handler[w].candidate IN
       \/ Gone(w)
       \/ /\ Live(s)
          /\ \E name \in Name,
                price \in Price \cup {IF given = Missing THEN row[s].price ELSE given} :
               Write(s, [row[s] EXCEPT !.name = name, !.approval = "approved", !.shown = TRUE,
                                    !.price = price, !.sync = "synced"])
          /\ Decides({s}, "approved", {})
          /\ Goto(w, "check")

(* activate_service_catalog: skipped if an item is already offered *)

ActivateCheck(w) ==
    /\ At(w, "check")
    /\ LET s == handler[w].service IN
       \/ /\ \E i \in ItemsOf(s) : row[i].approval = "approved" /\ row[i].shown
          /\ Finish(w)
          /\ excused' = excused \cup Pending(Below(s))
       \/ /\ \A i \in ItemsOf(s) : row[i].approval # "approved" \/ ~row[i].shown
          /\ Goto(w, "items")
          /\ UNCHANGED excused
    /\ UNCHANGED <<row, extraction, doubled, decided, accepted, raced>>

Activated(r) == [row[r] EXCEPT !.approval = "approved", !.shown = TRUE, !.sync = "synced",
                               !.candidate = None]

\* Variant: the options are not activated with their items.
ActivateItemsOnly(w) ==
    /\ At(w, "items")
    /\ LET s == handler[w].service
           items == Pending(ItemsOf(s)) IN
       /\ Writes(items, [i \in items |-> Activated(i)])
       /\ Decides(items, "approved", Pending(OptionsOf(ItemsOf(s) \ items)))
    /\ Finish(w)

\* The options of items that were approved before are not reached.
ActivateItems(w) ==
    /\ At(w, "items")
    /\ LET s == handler[w].service
           items == Pending(ItemsOf(s)) IN
       /\ Writes(items, [i \in items |-> Activated(i)])
       /\ Decides(items, "approved", Pending(OptionsOf(ItemsOf(s) \ items)))
       /\ IF items = {} THEN Finish(w)
          ELSE handler' = [handler EXCEPT ![w].stage = "options", ![w].items = items]

ActivateOptions(w) ==
    /\ At(w, "options")
    /\ LET options == Pending(OptionsOf(handler[w].items)) IN
       /\ Writes(options, [o \in options |-> Activated(o)])
       /\ Decides(options, "approved", {})
    /\ Finish(w)

RejectService(s) ==
    /\ Live(s)
    /\ Write(s, [row[s] EXCEPT !.approval = "rejected", !.shown = FALSE,
                                       !.sync = "synced"])
    /\ Decides({s}, "rejected", {})
    /\ UNCHANGED handler

IgnoreBegin(w, s) ==
    /\ Live(s) /\ (row[s].candidate # None \/ row[s].sync = "needs_review")
    /\ Begin(w, "ignore", s, None)

IgnoreWrite(w) ==
    /\ handler[w].op = "ignore" /\ At(w, "write")
    /\ LET s == handler[w].service IN
       \/ Gone(w)
       \/ /\ Live(s)
          /\ Write(s, [row[s] EXCEPT !.candidate = None, !.sync = "synced"])
          /\ DecidesNothing /\ Finish(w)

DeactivateBegin(w, s) ==
    /\ Live(s) /\ row[s].approval # "pending"
    /\ Begin(w, "deactivate", s, None)

DeactivateWrite(w) ==
    /\ handler[w].op = "deactivate" /\ At(w, "write")
    /\ LET s == handler[w].service IN
       \/ Gone(w)
       \/ /\ Live(s)
          /\ Write(s, [row[s] EXCEPT !.candidate = None, !.sync = "synced",
                                             !.shown = FALSE])
          /\ DecidesNothing /\ Finish(w)

(* Edits *)

Patch(r) ==
    /\ Live(r)
    /\ \E shown \in BOOLEAN, price \in Price \cup {Missing}, name \in Name :
         Write(r, [row[r] EXCEPT !.name = name, !.shown = shown, !.price = price])
    /\ DecidesNothing
    /\ UNCHANGED handler

PatchService(s) == s \in Service /\ Patch(s)
PatchItem(i) == i \in Item /\ Patch(i)
PatchOption(o) == o \in Option /\ Patch(o)

\* The references to a deleted row cascade.
Delete(rows) ==
    /\ Writes(rows, [r \in rows |-> [NoRow EXCEPT !.life = "deleted"]])
    /\ Decides(rows, "none", {})
    /\ UNCHANGED handler

DeleteService(s) == Live(s) /\ Delete({s} \cup Below(s))
DeleteItem(i) == Live(i) /\ Delete({i} \cup OptionsOf({i}))
DeleteOption(o) == Live(o) /\ Delete({o})

Create(r, new) ==
    /\ row[r].life = "new"
    /\ Write(r, new)
    /\ IF new.approval = "pending" THEN Decides({r}, "none", {r})
       ELSE Decides({r}, new.approval, {})
    /\ UNCHANGED handler

\* A row the administrator enters, with what the form asks for.
HandMade(parent, name, approval, shown, price) ==
    [NoRow EXCEPT !.life = "live", !.parent = parent, !.name = name, !.sync = "none",
                  !.approval = approval, !.shown = shown, !.price = price]

ByHand(parent, name, approval) ==
    {HandMade(parent, name, approval, shown, price) :
       shown \in BOOLEAN, price \in Price \cup {Missing}}

CreateItem(i, s, name) ==
    i \in Item /\ Live(s) /\ \E new \in ByHand(s, name, ItemDefault) : Create(i, new)
CreateOption(o, i, name) ==
    o \in Option /\ Live(i) /\ \E new \in ByHand(i, name, ItemDefault) : Create(o, new)

\* create_service of the booking screen: the table's default is approved.
CreateService(s, name) ==
    s \in Service /\ \E new \in ByHand(None, name, "approved") : Create(s, new)

\* update_service and delete_service of the booking screen find only services
\* that are offered.
BookingBegin(w, s, op) ==
    /\ Live(s) /\ row[s].approval = "approved" /\ row[s].shown
    /\ Begin(w, op, s, None)

BookingWrite(w) ==
    /\ handler[w].op \in {"update", "remove"} /\ At(w, "write")
    /\ LET s == handler[w].service IN
       \/ Gone(w)
       \/ /\ Live(s)
          /\ \E shown \in BOOLEAN, price \in Price \cup {row[s].price}, name \in Name :
               /\ handler[w].op = "remove" =>
                      ~shown /\ price = row[s].price /\ name = row[s].name
               /\ Write(s, [row[s] EXCEPT !.name = name, !.shown = shown, !.price = price])
          /\ DecidesNothing /\ Finish(w)

Activating(w) == handler[w].stage \in {"check", "items", "options"}

\* The next request of a handler fails, or the process stops.
HandlerFails(w) ==
    /\ handler[w] # Idle
    /\ Finish(w)
    /\ excused' = IF Activating(w) THEN excused \cup Pending(Below(handler[w].service))
                  ELSE excused
    /\ UNCHANGED <<row, extraction, doubled, decided, accepted, raced>>

-----------------------------------------------------------------------------
ExtractionStep ==
    \/ FindService \/ WriteService \/ FindItem \/ WriteItem \/ FindOption \/ WriteOption
    \/ FlatFind \/ FlatWrite \/ ListStale \/ MarkStale \/ ExtractionFails

ExtractionBegin ==
    \E k \in Source : \/ \E c \in Catalogs : CatalogBegin(k, c)
                      \/ \E list \in Lists : FlatBegin(k, list)

HandlerBegin(w, s) ==
    \/ ApproveBegin(w, s) \/ ApplyBegin(w, s) \/ IgnoreBegin(w, s) \/ DeactivateBegin(w, s)
    \/ BookingBegin(w, s, "update") \/ BookingBegin(w, s, "remove")

HandlerStep(w) ==
    \/ ApproveWrite(w) \/ ApplyWrite(w) \/ IgnoreWrite(w) \/ DeactivateWrite(w) \/ BookingWrite(w)
    \/ ActivateCheck(w) \/ ActivateItems(w) \/ ActivateOptions(w)
    \/ HandlerFails(w)

ServiceEdit(s) == RejectService(s) \/ PatchService(s) \/ DeleteService(s)
ItemEdit(i) == PatchItem(i) \/ DeleteItem(i)
OptionEdit(o) == PatchOption(o) \/ DeleteOption(o)

Creation ==
    \E name \in Name :
        \/ \E s \in Service : CreateService(s, name) \/ \E i \in Item : CreateItem(i, s, name)
        \/ \E i \in Item, o \in Option : CreateOption(o, i, name)

Next ==
    \/ ExtractionBegin \/ ExtractionStep
    \/ \E w \in Worker : HandlerStep(w) \/ \E s \in Service : HandlerBegin(w, s)
    \/ \E s \in Service : ServiceEdit(s)
    \/ \E i \in Item : ItemEdit(i)
    \/ \E o \in Option : OptionEdit(o)
    \/ Creation

Spec == Init /\ [][Next]_vars

-----------------------------------------------------------------------------
(* Properties *)

Row == [life : {"new", "live", "deleted"}, parent : Id \cup {None}, name : Name \cup {None},
        source : Source \cup {None}, approval : Approval, shown : BOOLEAN,
        sync : {"none", "synced", "needs_review", "stale"}, price : Price \cup {Missing},
        candidate : Price \cup {Missing, None}]

TypeOK ==
    /\ row \in [Id -> Row]
    /\ \A i \in Item : Live(i) => row[i].parent \in Service
    /\ \A o \in Option : Live(o) => row[o].parent \in Item
    /\ extraction.service \in Service \cup {None} /\ extraction.item \in Item \cup {None}
    /\ extraction.found \in Id \cup {None} /\ extraction.seen \in [approval : Approval, shown : BOOLEAN,
                           price : Price \cup {Missing}]
    /\ \A w \in Worker : /\ handler[w].service \in Service \cup {None}
                          /\ handler[w].items \subseteq Item
    /\ doubled \subseteq Id /\ raced \subseteq Id /\ excused \subseteq Id
    /\ decided \in [Id -> Approval \cup {"none"}]
    /\ accepted \in [Id -> Price \cup {Missing}]

\* What the administrator decided of a service, and what an activation decided
\* of an item or option, stands: no extraction, however often it proposes the
\* row again, takes back an approval or a rejection, unless it had looked the
\* row up before the decision.
DecisionsStand ==
    \A r \in Id \ raced : Live(r) /\ decided[r] # "none" => row[r].approval = decided[r]

\* What customers are offered; the lists of items and options do not look at
\* the approval.
OfferedServices == {s \in Service : Live(s) /\ row[s].shown /\ row[s].approval = "approved"}
OfferedItems == {i \in Item : Live(i) /\ row[i].shown}
OfferedOptions == {o \in Option : Live(o) /\ row[o].shown}
Approved == {r \in Id : Live(r) /\ row[r].approval = "approved"}

\* A customer is quoted the price that stood at the administrator's last write,
\* or one that filled in a missing price: extraction only makes candidates of
\* other prices, and hides what it overwrites.  It may fill in a price that the
\* administrator has just entered, which is a race (raced).
QuotedPriceAccepted ==
    \A r \in (OfferedServices \cup OfferedItems \cup OfferedOptions \cup Approved) \ raced :
        row[r].price = accepted[r]

\* The approval of a service reaches its items and their options, although it
\* is three requests: what is still pending below an approved service came
\* after it, or belongs to an item decided before, or an activation is at work,
\* was cut off, or was skipped because an item was offered already.
ActivationIsWhole ==
    \A s \in Service : Live(s) /\ row[s].approval = "approved" =>
        \/ Pending(Below(s)) \subseteq excused
        \/ \E w \in Worker : Activating(w) /\ handler[w].service = s

\* Extractions find what is there, whoever entered or renamed it and whatever
\* was decided of it: they neither insert a row beside one of the same name nor
\* give a row back a name that another took meanwhile.  Of two siblings with one
\* name the administrator gave it to one while the other had it, or while an
\* extraction that had looked the name up was about to write it.
InsertedOnce == \A r, q \in Id \ doubled : Alike(row, r, q) => r = q
=============================================================================
