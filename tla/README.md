# A verification project for the FrontAgent server

FrontAgent answers the customers of a shop in a chat or on a call. A FastAPI
server takes a message, runs a LangGraph agent over it, walks the customer
through a task (book, cancel, order) node by node, searches the shop's knowledge,
and keeps its state in Supabase tables through PostgREST, in Redis, and in
caches inside each process. No transaction spans two requests to a table.
Synchronous endpoints run in FastAPI's thread pool, turns are persisted in
executor threads after the answer, and task sessions in daemon threads, so the
requests of two handlers may interleave anywhere. Most of what can go wrong lies
there, and most of this project is about it.

The modules here are written from the code under `src/`. `PROJECT.json` gives for
every definition the lines it stands for, and lists the runs, the findings, the
hazards and the theorems.

## 1. Inventory

| Component | State it keeps | Operations | What is hard | What makes it correct |
|---|---|---|---|---|
| Booking handlers (`reservation_repo.py`, `api/reservations.py`) | `reservations`, `customers` | create, confirm, reject, cancel | select, decide in Python, unconditional write, in any interleaving | active reservations do not overlap; one at a time each handler is one step of a ledger; one customer a telephone number |
| Available slots (`get_available_slots`, `booking_setting_repo.py`) | `booking_settings` | list, save settings | boundaries of opening hours, exceptions, notice and bookings; what is listed is booked later by other code | the free slots of the day, all of them and no other; what was offered is what is booked |
| Calendar synchronisation (`reservation_calendar_sync_service.py`, two repositories, `google_calendar_service.py`) | `reservation_calendar_events`, `calendar_integrations`, events at Google | push after confirm, delete after cancel, mark the mapping row | an external service that fails or answers too late; select-then-insert; repeated calls | no event is lost sight of; a cancelled reservation leaves none; the booking never suffers |
| Task sessions and runner (`app/tasks`, `run_task.py`, `agent_node.py`) | Redis entry, `task_sessions` row, graph checkpoint | start, resume, walk, wait, fail, switch, cancel | two stores written at different times by different calls; expiry, restart, lost and reordered writes; cycles in flows | a task goes on where it was left; ends end; every turn ends |
| Flow editor, generation and caches (`api/task_flows.py`, `flow_generator.py`, `tasks/repository.py`) | flows, nodes and edges; a dictionary in the process, four kinds of keys in Redis | edit, enable, delete, generate, look up | lookups that overlap edits; edits that forget nothing; two generations at once | a cache lags by its time to live only; who edits forgets; one flow an intent |
| Edge conditions (`edge_evaluator.py`) | none | evaluate | nesting of parentheses | the meaning of the expression |
| Orders and stock (`order_repo.py`, `product_repo.py`) | `orders`, `order_items`, `products.stock_quantity` | create, confirm, cancel, ship, deliver | check, read, subtract, write over several lines and requests, failure between lines | stock never negative and accounted for; all lines or none; closed orders stay closed |
| Service catalogue (`service*_repo.py`, `api/services.py`, `service_sync_pipeline.py`) | services, items, options, candidates | extract, approve, activate, reject, apply, ignore, edit | extraction races approval; several tables one after the other; rows found by name | what was decided stands; customers see accepted prices; activation is whole; nothing twice |
| Conversations (`conversation_repo.py`, `conversation_node.py`, `finalize_node.py`, sweep in `graph_runtime.py`) | `conversations`, `conversation_messages`, a cache in each process | a turn and its persistence, the administrator's edits, end of calls, sweep of idle ones | everything after the answer runs in threads; a cache; a timer | one row a session; no answer kept with the AI off; closed only after a warning, but closed |
| Voice pipeline (`voice_pipeline.py`) | tasks, queue, index of the next segment | synthesise, emit in order, end | segments end out of order or fail; the client leaves at any event | heard in order and up to the first gap; the turn ends; no synthesis outlives it |
| Web calls (`web_call.py`) | queue of sentences, worker, websocket | queue, speak, flush, wait | end of the answer races the worker | heard in order, once; `audio_end` last; the wait ends |
| Knowledge (`api/knowledge*.py`, `rag/indexer.py`) | `knowledge_sources`, `knowledge_chunks`, `knowledge_folders`, originals in the storage | create, upload, patch, reindex, delete, folders | long indexing between reads and writes, restarts, partial failure | a status ends; an indexed source has its text once, in its folder; one row a file |
| Retrieval (`rag/retriever.py`, `keyword_vocabulary.py`) | semantic cache in Redis, vocabulary in each process | search, store, clear, expire | stored in the background after a clear | no answer from a folder that is switched off |
| Agent routing (`graph/`) | checkpoint of the agent state | classify, route, answer | classifiers over free text | the right task goes on (with task sessions) |
| Checkpoint cache (`graph_runtime.py`) | dictionary of checkpoint tuples | get, put, evict | more than one worker process, which the deployment does not have | never older than the store |
| Chat API, rules, AI settings, products, calendar view, usage, health, main | settings, logs | CRUD | little | – |

How they meet. `agent_node` (agent routing) calls the task runner, whose function
nodes call the slot listing and the booking, order and cancellation handlers directly: the same
handlers as the administrator's endpoints, hence the same races, but without
the calendar synchronisation, which only `api/reservations.py` performs. The flows that the
runner walks come through the caches that the editor clears. The services
that a booking names come from the catalogue, and the catalogue from knowledge sources. The
conversation row decides (through its cache) whether the answer of a turn is kept; the agent runs, streams and
executes tasks in any case. The
answer of a call is spoken by one of the two speech components. The sweep
runs in the server's event loop against rows that turns write.

## 2. Modules

Specifications are named after what they model; `MC*` modules hold instances of
them for TLC, and `*Proofs` modules hold theorems. One action is one request to a
table, to Redis or to Google together with the code that follows it up to the next
request; where the code is cooperative (the event loop) it is what runs between two
awaits. Definitions preceded by a comment *Variant* are mutated forms of a
definition, not part of any specification: each is a plausible bug that some
property must notice.

| Module | Extends / uses | Role |
|---|---|---|
| `BookingLedger` | | abstract: reservations change in single, documented steps and never overlap |
| `Reservations` | | the four booking handlers |
| `CalendarSync` | `Reservations` | the endpoints with the calendar behind them |
| `Slots` | `Reservations` | listing of free times, next to the handlers that take them |
| `ServiceCatalog` | | extraction and administration of services, items, options |
| `Orders` | | orders and stock |
| `TaskSessions` | | one conversation's tasks and their two stores |
| `FlowCaches` | | editor, generator, lookups and the caches between them |
| `EdgeConditions` | | evaluation of conditions against their meaning |
| `Conversations` | | one session, its turns, administrator, client and sweep |
| `SpeechStream` | | abstract: segments are heard in order, none twice, none after the end |
| `VoicePipeline`, `WebCallSpeech` | `SpeechStream` (INSTANCE) | the two ways in which an answer is spoken |
| `Knowledge` | | sources, folders, chunks, originals and the semantic cache |

**Reservations.** `status` and `booked` are the table, `customers` counts the rows of
a telephone number, `handler[w]` is the place in its handler that worker `w` is
at. `RequestFails` lets any handler raise, `Reply` answers. Two history variables mark what a reader of
the code would call the two races: a row inserted after a stale conflict check (`raced`) and one brought
back from a terminal status (`resurrected`). A handler's check is stale when an
insert happened since it *passed* it. Left out: the check that the service exists,
bookings without a telephone number, texts.

**BookingLedger** has `Accept`, `Confirm`, `Reject` and `Withdraw`. Handlers that run
one at a time implement it under the identity mapping of `status` and
`booked`: reads, checks and failures are stutters, each write is one step.

**CalendarSync** extends Reservations. While a worker synchronises, its booking
handler rests at stage `reply`; `sync[w]` walks read, token, post and mark
(confirm) or find, token, delete and mark (cancel). `rows[r]` are the mapping rows of a
reservation, `events` the live Google events. Google may refuse, be unreachable,
or do what it was asked and lose the answer. `untracked` collects the events
that were created without an answer or whose stored id was overwritten.
`Integrate` stands for whoever connects and disconnects the integration: the
repository functions exist, and nothing in the repository calls them. The chat
cancels without synchronising, which is `Respond` with `sync` off.

**Slots.** Times are half hours. `List*` are the requests of `get_available_slots`, with
the settings row that the first listing creates; the listing keeps the rules of the day (`RulesOf`), the rule it scans and the time it is
at. `SaveSetting`, `SlotTick` and the booking
handlers run in between. `offer` is the last answer, `disturbed` says that something it depends on has changed. `PickSlot`
is a conversation that books an offered time, with or without the service resolved
meanwhile. `FreeStarts` is the definition of the free slots that the answers are compared with.

**ServiceCatalog.** One table `row` holds services, items and options with their parents. The requests of an
extraction follow each other without an await, so there is one extraction at a time; the administrator's endpoints
run in threads. A row is extracted, looked up by name under its parent, updated or inserted;
its name is what it is found by, its price stands for all the other fields that an extraction fills, and "0원" becomes null because `_to_nullable_int` runs
twice. Names change: by an approval, by a candidate that is applied, and by the patches of services, items and options. A row that was renamed is no
longer found under its old name, which the next extraction inserts again; an extraction that had found it under the old name writes that name back.
Applying a candidate drops the values that are null, so the candidate itself stays (`ApplyWrite`). Histories: `decided` and `accepted` (what the administrator decided and saw last), `raced` (written on a stale lookup),
`excused` (pending below an approved service for a reason named at `ActivationIsWhole`), `doubled` (given by the administrator a name that a sibling had, or
that an extraction had looked up and was about to write).
`activate_service_catalog` is defined twice (571–657 and 659–745); the second, which Python keeps, is the one that is modelled.

**Orders** has the same form as Reservations. `request[w]` carries the cart
that was read, the line that a creation (`prepare`) or a confirmation is at and the stock it has seen. `taken`
records what each order took and `torn` the products whose stock was
overwritten from a stale read. `delivery_status` is left out, as no guard reads it;
`preparing`, which the table's constraint allows, is set nowhere.

**TaskSessions** is one conversation: `redis` (entry), `table` (rows), `pending`
(persist threads), `turn` (messages in progress), `checkpoint`. `Route*` are the
branches of `agent_node`, with the outcome of its classifiers left free; `Run*`,
`SkipNode`, `ExecuteNode` and `MaxStepsExceeded` are `DynamicTaskRunner`, with `NextNode` and
`Outcome` for the executors; `UpdateSession` and `UpdateTableOnly` are the two ways
in which `update_session` is called. `Persist`, `PersistFails`, `Expire` and `Restart`
are the threads and the faults, switched on by `Faults`. A flow is data: `Config` gives each node its kind, branch
condition (the slots it wants), successors, and the slots it writes. A
slot is filled or not, its value is not kept. An instruction node looks at its branch condition before it asks, except where
a fast path of `service_selection` answers first (`quick`: the nodes `ask_service` and `ask_cancel_number`, instruction_executor.py:181-196):
such a node may wait with its condition met. The next message then skips it, and because the skip leaves
`was_waiting_for_input` as it was, the answer is taken by the next node that asks. The flows seeded with the repository give these nodes no branch
condition; an edited or generated one may. With the AI switched off a turn runs
like any other, but the checkpoint does not keep its task (`MutedTurn`).

**FlowCaches.** `flows` are the rows (a flow is its switch, its start node's version and its edges' version), `routes` the dictionary of
the process with its time to live, `meta` the keys in Redis with theirs. `Route*` and `Meta*` are the lookups, request by request, each of
which may store what it read before an edit; `FlowStep`, `NodeStep` and `GenerateStep` are the endpoints and the generator with
exactly the invalidations that each of them performs. `Matched` is the pattern of `_invalidate_flow_meta`, which finds the keys in which
the flow is followed by something and misses those that end with it.

**EdgeConditions.** An expression is built from comparisons, parentheses and chains of one connective (`Leaf`, `Group`, `Join`), and carries
its text, a sequence of tokens, and what it means. The text goes through `_split_top_level` (`Parts`), the stripping of the outer parentheses
(`Stripped`) and the recursion of the code (`Evaluate`, a recursive function, of which `EvaluateBy` is one call), and the verdict is compared with
the meaning. A comparison is reduced to whether it holds. A part that is the whole expression again would be split for ever: "endless".
`Expression` is any set of such expressions.

**Conversations** is one session: its `rows`, its `cache` entry, the `turn`s whose
threads are alive, one administrator (`admin`), the client that hangs up
(`hangup`), and the round of the sweep (`sweep`). Times are ages that `Tick`
lets grow up to the sum of the three limits. The session comes in on one of the three
channels that `/chat` accepts: rows of `voice` are selected by neither half of the sweep, and hanging
up leaves them alone because no call was started, so they stay open until a person closes them.
`prepare_node` runs the agent next to the look at the switch: `TurnBegin` is both, `AgentStreams` a delta that is
written, and `AgentEnds` the end of the agent, after which the answer becomes the result of the turn or, with the AI off, is replaced
by the handoff. The texts of messages, the
records of agent runs and requests that fail other than by a foreign key are left
out.

**VoicePipeline** is one turn over server-sent events: `sse` is the place of the generator, `ttsTask` the tasks it created,
`audioQueue`, `pendingAudio` and `nextAudio` the reordering of what they deliver, `heardAudio` what was written. The client may leave at any
event, the graph may fail at any time, a synthesis may fail.
**WebCallSpeech** is one turn over a websocket: the text task (`callStage`), the queue of sentences, and the worker
(`speaker`) that sends the chunks of one sentence after another. With the AI off the worker is cancelled wherever it is, with
sentences queued or half spoken, and `ai_disabled` is sent in the place of `audio_end` (`TurnDisabled`). Both map to
`SpeechStream` by what was heard and whether the stream is closed.

**Knowledge** follows one request a step. `row`, `batches` and `folders` are the tables
(what one call of `index_text` inserts is a batch, with the `folder_id` it was given),
`stored` the originals, `cache` the sources of the one cached answer: all questions count as similar ones.
`Index*` and `MarkFailed` are `index_text` and the except clauses around it, shared by creation, upload and
reindexing; `Upload*`, `Patch*`, `Reindex*`, `Delete*` and `Folder*` are the endpoints, `Search` and
`SearchStore` the retriever with its background store. `RequestFails` and `Restart` may
end or divert a handler anywhere, `AfterFailure` says which except clause is next. Three histories say what
a reader would excuse: `disturbed` sources (two requests at once, a status set by
hand, a write that was lost), `abandoned` ones (the handler that owed a final status is gone) and a `muddied`
cache entry (written or left after the clear that was meant for it). A reindexing that nothing overlaps forgives a
source its disturbances; a search that named the source before counts as overtaken from then on (`Outdated`). A patch changes one field, with or without
the content; of the statuses only `indexed` is set by hand; the endpoint takes any string, and a working status set so would stay until
somebody works on the source again, which `WorkedOn` does not count. A source of `Blank` is created by hand without text: `index_text` inserts no chunk
for it and leaves it `indexed`. Originals are stored under the identity of their source and never shared. Texts, scores, keywords, the
parent of a folder and requests that do their work but lose the answer are left out.

## 3. Runs

`MCBookings`, `MCOffers`, `MCTaskSessions` and `MCConversations` compose the modules of one part
of the system over disjoint or shared variables and add a variable `scenario` that is chosen in the initial state and never
changes: it says which actors are at work and how many, so that one run asks its
questions of every instance. `MCOffers` has `crew` and `MCKnowledge` has `pool` for the same purpose.

| Run | Scenarios | Shows |
|---|---|---|
| Bookings | `race`: 3 handlers, 2 reservations, 2 overlapping spans. `serial`: one handler at a time with the calendar, 2 reservations, a span that only touches, 2 events, every failure. `concurrent`: 2 handlers with the calendar, 1 reservation. `slots`: a listing, a booking, settings, the clock | every overlap needs one of the two races, both confirmed needs a resurrection; customers of a phone; one at a time the handlers implement the ledger; live events are named by one row or are accounted for; a row marked cancelled names no live event (serial); an undisturbed listing is exactly the free slots |
| CalendarSyncDeletes | `serial`, nothing fails | **violation**: confirmed twice, then cancelled, leaves an event |
| SlotsDuration | `slots` | **violation**: a slot listed for an item is booked for the service's length |
| Offers | `flat`: two services of one name. `items`: two items. `options`: an item and an option. In each, 2 extractions next to 3 requests of two workers, and the rows are renamed too: services in `flat`, items in `items`, options in `options`. `orders`: two requests at once that may fail, or one at a time | decisions stand and quoted prices were accepted, but for named races; an approval reaches all below; two siblings have one name only where the administrator's renaming made it so; stock never negative and accounted for; one at a time all lines or nothing, and the documented statuses |
| OrdersTwice | `orders`, carts that name a product twice, one request at a time | **violation**: half taken |
| TaskSessions | `faults`: one session, every fault. `switch`: two sessions, expiry. `overlap`: two messages at once, every slot filled from the start. The flows have a node of the fast paths, and the AI may be switched off: at any time in `switch`, in the others only before the first turn that it answers. One scenario a cache (`intent`, `list`, `flow`, `start`, `node`, `edges`); `generate` and `overwrite`; `condition` | resumes where it was left unless a write was disturbed; stores agree when quiet; one message at a time stays in its flow, and its answers meet their question, but for the fast paths; every turn ends; caches lag by their time to live only, and edits forget; overlapping generations make at most one flow each; conditions mean what they say, with three exceptions |
| TaskSessionsFailed | `faults`, no fault | **violation**: a failed session is resumed |
| Conversations | `sweep`: a chat, a web call or a session of `voice`, one turn next to everybody who may end it. `overlap`: two turns, two rows, the administrator's switch. `pipeline`, `webcall`: one spoken turn | closed only after warning and silence, but closed (`voice` excepted); rows of a session; no answer is kept later than the time to live of the cache after the switch; segments are heard in order and all up to the first gap before `audio_end`; no synthesis outlives its turn; a spoken turn ends |
| ConversationsWarned | `sweep`, a chat | **violation**: closed after it was answered |
| ConversationsMuted | `overlap` | **violation**: a turn that knows that the AI is off streams an answer |
| WebCallTwice | `webcall` | **violation**: an answer is spoken twice |
| Knowledge | 2 workers, failures, restarts; every request on one source, with a text or blank, or uploads and deletions of one file over two | statuses end unless their handler was lost; an undisturbed indexed source is whole; rows of a file are bounded by the requests at once; originals have a row; the cache obeys folder switches |

Type invariants are theorems (section 4). The runs check them too where several modules meet (`TypesOK`).

Bounds. The races of these handlers are between two or three actors over one or two
rows: two workers are enough for a stale write, and three let a third act
between a race's two halves. Two spans suffice for a conflict; a third,
adjacent one tests the half-open interval. Two events let a reservation be
pushed twice. In `Slots` a day has five half hours, the settings have lengths and intervals that do not divide the hours, a
closed and an opened exception, and a switched-off rule; the clock crosses the notice. Two extractions let one meet the other's rows after
a decision, and three requests of the administrator a decision, an edit and a
deletion. Where there is a catalogue its service keeps name and price and a renaming changes nothing else (`CatalogKept`), one approval is at
work at a time in `items`, and items are entered by hand there only between extractions; `flat`, whose services are rows of the same kind, has none of these bounds. `MaxSteps` is 20 in the code and 3 here, enough to
walk the cycle of the instance and run into the bound; `MaxSessions` and
`MaxPending` bound the sessions and threads of a run. `MaxEdits` bounds the rows written by the editor: three or four edits order
every pair of a lookup and an edit with one more after it, and the seven of `overwrite` are two whole replacements. Expressions have up to two levels
below the top, of up to three units. The time limits are one or two
ticks: a limit is passed, just reached, or not reached. A spoken answer of four segments with two concurrent
syntheses has segments that wait, overtake and fail on both sides of a gap. In `Knowledge` two handlers overlap in
every pair of requests on a source; one folder beside "no folder" is enough to move a source and to switch
it off, and a file needs two sources to be registered twice.

Each violation is a finding: the run checks what a comment or a document of the
repository says, and `PROJECT.json` quotes it. More disagreements have no run of their
own, and can be seen in the same models:

* `confirm_reservation` and `confirm_order` write over a cancellation made since they read the row (`ConfirmWrite` in
  Reservations with two workers; `resurrected` marks it). One handler at a time does not (`SerialImplementsLedger`).
* `apply_pending` of a service drops the null values of its update (`services.py:657`) and with them the clearing of the
  candidate, which its description at `services.py:618` promises (`ApplyWrite` in ServiceCatalog).
* An answer to a node of the fast paths may be taken by a later node, where `runner.py:370` says that the input is consumed once, by
  the node that waits (`Met` and `SkippedAt` in TaskSessions).
* A conversation of the channel `voice`, which `chat.py:38` accepts, is neither warned nor closed (`Due` in Conversations).
* The second session of a flow in one conversation is refused by the unique constraint of
  `task_sessions` and never stored (`Refused` in TaskSessions).
* A turn that finds no cache entry is answered although the AI was switched off long ago (`TurnBegin` in
  Conversations), where `conversation_node.py:10-11` documents a delay of one time to live.
* `(a && b) || c` recurses without end, `(a) && (b)` loses its two outer parentheses and `((a))` is false
  (`hidden`, `StrippedWrongly` and `twice` in EdgeConditions), where `edge_evaluator.py:118` says that what is in parentheses is not split.
* An edit of a flow or of its start node does not reach the keys `task:flow:…` and `task:start_node:…` before their
  time to live (`Matched` in FlowCaches).
* A send that fails, or a graph that does, leaves the worker of a web call waiting at its queue (`speaker` in an aborted turn of WebCallSpeech).
* A patch with content raises `NameError`: `delete_knowledge_chunks` is not imported in
  `patch_knowledge_source` (`knowledge.py:554`), and the source reads `indexing` for good (`PatchEdit`).
* A source without an original cannot be reindexed: `pre_chunked` is bound only in the branch of files
  (`knowledge.py:650`), where the docstring at 599-603 promises to reindex texts from their content (`ReindexLoad`).
* The semantic cache is cleared by moves, reindexings and folder switches, but not when a
  source is no longer referenced, is deleted or fails, or a folder is deleted. Migration
  `20260704000003` calls only indexed, referenced sources in active folders searchable, which the cached answer does not follow;
  `CacheObeysFolders` states the part that holds.

Fairness. `TurnsEnd` assumes weak fairness of the runner's steps (a loop in one
coroutine, which nothing else suspends for ever) and of the persist threads (daemon threads
that run as soon as they are scheduled); the latter only because the instance bounds
the number of threads. `SweptIdleIsClosed` assumes that time passes and that the
sweep, an endless loop started with the application, goes on; no turn, administrator or client
has to do anything. `SpeechEnds` assumes that syntheses answer or fail (their clients have
timeouts) and that the event loop resumes a task whose await is over; the graph may run for ever, and nobody has to leave. Deadlock is checked in every run;
where a turn or a request is over the scenario stutters explicitly (`TurnOver`, `Pass`).

## 4. Proofs

The theorems hold for every value of the constants that satisfies the assumptions in the
modules (for instance that `NoReservation` is no reservation).

* `ReservationsProofs`. `TypeCorrect`. `ConfirmSafe` (`DoubleConfirmNeedsResurrection`):
  the property itself is not inductive, since a confirmation that has passed its
  re-check will write whatever happens next; `CommittedApart` counts such reservations
  as confirmed already, and `TargetExists` says that a handler between read and write works on an
  existing row. `OverlapExplained` (`OverlapNeedsRace`) adds `CheckStillGood`: what a passed
  conflict check that is not stale still guarantees. `SerialSafe`: as long as one handler is at work at a time (`OneHandler`), of any number of workers, no two active
  reservations overlap and the handlers implement `BookingLedger`; `NothingStale` says that what a lone handler is about to write follows from the row as it is. `CustomersBounded`
  (`RowsPerPhone`): rows of a number and handlers about to insert one are together at most the workers, because
  a handler joins the newcomers only while there is no row.
* `BookingsProofs`, what hangs on the booking handlers. `SyncImplementsReservations`: every step of `SyncSpec` is a step of
  `Reservations` or leaves its variables alone; so `SyncConfirmSafe` follows from `ConfirmSafe`.
  `EventsAccounted` (`LiveEventsAccounted`) and `SyncTypeCorrect` are by `SyncInv`: a worker that created an event and has not written
  its row yet holds a live event of its own reservation that no row names and nobody else holds or withdraws (`HeldAlone`); what is named,
  withdrawn or alive was issued, and a row names events of its own reservation (`OnlyIssued`); the row to write exists (`Pointing`), and the handler
  of a worker that synchronises rests at its answer (`Resting`). The write of a row is the hard step: it may overwrite an
  event stored meanwhile, which then counts as untracked. `SerialRowsGone`: as long as one handler is at work at a time `CancelledRowNamesNoLiveEvent`, because what
  it is about to withdraw or mark is what the row still names (`Following`). `SerialInstancesRowsGone` and `SerialInstancesKeepLedger` are about the
  instances themselves: every step of the serial scenario of `MCBookings` starts a handler only while no other is at work, for any finite set of workers,
  so `SerialCancelledRowNamesNoLiveEvent` and `SerialImplementsLedger` follow.
  `SlotsRight` (`ListedSlotsRight`), for any settings, offered services, bookings and days, by `SlotInv`: a listing stands on the grid of the
  rule it scans (`Placed`), and as long as nothing disturbed it, it has collected exactly the bookable ones among the times it has passed
  (`Collected`). The grids are arithmetic on remainders: no grid time lies between one and the next (`Steps`, `PassedAdvance`), and what does not fit
  any more has its rule's grid behind it (`PassedRule`). `SlotTypeCorrect`. `SlotsImplementReservations`: over every span, picking and booking
  slots makes steps of `Reservations` only. Assumed: check constraints of `booking_settings` (the interval is positive), hours within a day,
  durations that are not negative, which the API refuses.
* `OffersProofs`. `OrdersTypeCorrect`, and `StockSafe` (`StockNeverNegative`) by the invariant
  `StockInv`: a confirmation stands at a line of the cart it read, the stock it has seen covers that line, and
  a handler at its final write leaves a proper status. It holds although the stock
  may have changed since, because the value written is computed from what was seen.
  `StockIsAccounted` (`StockAccounted`) is about sums over carts and orders. What a fold computes is a `CHOOSE` of a function that solves a
  recursive equation, and the library's induction theorems are of no use here; but inclusion is well founded among the subsets of a finite
  set, so the smallest set for which a claim about sums fails gives the contradiction (`SumsUpUnique`, `SumsUpExists`, `TotalWithout`). With that,
  `AccountInv` says that a confirmation walks the lines that are stored and has taken those behind it (`Claim`), that lines are inserted once and by
  one worker (`InsertsAlone`, `NoLinesYet`), and that what is confirmed took all its lines (`ConfirmedAll`). Assumed: `Order`, the identities a
  UUID can take, is finite. `SerialTakesAll` and `SerialStatus` are about one worker whose requests do not fail: what was checked is still in stock
  (`Progress`) and the status that was read is still there (`Current`). `SerialTakesAll` needs carts without a repeated product (`ProductsOnce`), and
  `OrdersTwice` shows why. `SerialInstancesTakeAll` (`SerialTakesAllOrNothing`) and `SerialInstancesStatus` (`SerialStatusChanges`) carry both over to the
  scenario of `MCOffers` whose crew is one worker, and `OffersAreTyped` puts the types of both modules together (`TypesOK`).
  The catalogue has one invariant, `CatalogInv`, since its promises lean on each other: the types and what an extraction knows at each
  stage (`CatalogType`, `Staged`), rows that hang in a tree of live rows (`Owned`), identities not used yet (`Unused`), what an extraction looked up and
  nobody overtook is still so (`SeenNow`), what carries the name it is about to write is the row it found, or was renamed by the administrator (`FoundAlone`), quoted prices (`Priced`), decisions, and what each of the three
  requests of an activation leaves to the next (`Whole`, `Reaches`). The lemmas are about one write of one row (`Refreshes`, `IsNewRow`, `Placed`). It gives
  `CatalogTypeCorrect`, `ExtractionsKeepDecisions` (`DecisionsStand`), `QuotesAreAccepted` (`QuotedPriceAccepted`),
  `ActivationsAreWhole` (`ActivationIsWhole`) and `ExtractionsInsertOnce` (`InsertedOnce`, with every renaming). Assumed: the three kinds of rows have different
  identities, the prices that stand for none are none, and an extraction yields what its schema says.
* `KnowledgeProofs`. `KnowledgeTypeCorrect` by `TypeInv`, which adds that a handler past its start knows its
  source. `StatusWorkedOn` (`WorkedOn`) is inductive with it; `KeepsWorkedOn` says what a step must do: who
  writes a working status goes on to write another one, who stops owing one has written it or is listed in
  `abandoned`. Since every pending handler is finite and straight-line code, it follows (informally) that each
  status ends unless its handler is lost.
  The sources, by `SourcesInv`: two handlers of one source disturb it (`Alone`); a handler's source was
  inserted and has the file it knows, and what is not inserted has neither chunks nor an original (`Known`); the one handler
  of an undisturbed source is as far as `Progress` says (what the chunks, the original and the status are at each stage),
  and a source without a handler is `Rested` (`Good`). `IndexedIsWhole` is what `Rested` says of a status that reads
  indexed (its text once, or nothing if it is blank: `TextOf`), which no weaker statement about handlers under way would give back when an except clause ends one. It yields `IndexedWhole`
  and `OriginalsKept`. Assumed: blank sources are sources (`BlankAssumption`). Lemmas about a step that moves one handler and touches one row (`Moves`, `Touches`) carry the invariant for
  every other handler and source at once. `RowsBounded` (`RowsPerFile`) is by the argument of `RowsPerPhone`: an upload begins only while
  its file has no row, its insert trades an upload for a row, and every other step makes neither (`NoMore`).
  `AnswersObeyFolders` (`CacheObeysFolders`) by `FolderInv`: a clear of the cache comes requests after the write that makes it necessary, so
  the invariant says who owes one (`Owes`: patches, switches and reindexings before their clear), and treats the sources that a search under
  way has found like a cached answer, because its background store comes after any clear (`Stands`); sources that get their first chunks are in no answer
  (`Founds`). Every step either answers nothing and forgets no disturbance (`Quiet`), spoils every answer, or is a search. This proof
  found a flaw of the model that two handlers do not show: a reindexing forgave a source whose old place a search still carried.
  `Outdated` repairs it.
* `ConversationsProofs`, for any limits of the sweep and any age of the cache. `ConversationTypeCorrect`. `SwitchObeyed`
  (`CachedSwitchObeyed`, which is about the answer that is kept; what is streamed is refuted by ConversationsMuted) by `SwitchInv`: what the entry of the cache, or a thread about to store it, read `age` ago is `Dated`, that
  is, a mute it does not show is no older than the reading; and a mute has the age of the switch, not of the row (`Clean`). `WarnedBeforeClosed`
  (`ClosedAfterWarning`) by `SweepInv`: what the select of a round saw of a row it will close still holds at the write,
  except for a message younger than the round (`Judged`); it needs `None` to be no age. `SessionRowsBounded` (`RowsPerSession`) assumes finitely many
  turns and is by the argument of `RowsPerPhone`.
  The pipeline, for any length of the answer and any number of concurrent syntheses, by `PipelineInv`: the
  caller has heard exactly the segments before `nextAudio` (`Prefix`); a segment is queued, held back or heard if and only if its
  task delivered it (`Accounted`); after a drain the next one is missing, and tasks the loop has seen complete have nothing left in the queue (`Settled`);
  tasks are cancelled by turns that end early and by nothing else (`Phased`). It gives `PipelineTypeCorrect`, `NoSynthesisOutlives` (`NoOrphanedSynthesis`),
  `AudioEndIsLast` (`HeardUpToGap`) and `PipelineImplementsStream`. Where a drain stops is a least number: `LeastNat` proves that there is
  one from the well-foundedness of the strict subset ordering, since the induction theorems of the library take an operator.
  Web calls, for any number of sentences and chunks, by `CallInv`: the worker is at a sentence that was
  queued, everything before it was heard or failed, save the sentence at which a turn with the AI off cut it off (`CutOff`), and what was heard is increasing and no further than the worker. It gives `CallTypeCorrect`, `WaitsHearTheEnd` (`HeardOrFailed`) and
  `CallImplementsStream`.
  Together they are `AudioEndIsTheEnd` (`AudioEndFollows`), and with the session `ConversationsAreTyped` (`TypesOK`).
* `TaskSessionsProofs`, for any flows, any number of messages at once and all faults. `SessionTypeCorrect` by `SessionsTyped`: sessions are numbered in the order
  they start, whatever speaks of one speaks of one that was started and carries its flow (`SessionsNumbered`, `Turns`), and the
  table has at most one row a flow. `AnswersMeetTheirQuestion` (`InputOnlyAtWaitingNode`) and `ConversationWalksItsFlow` (`WalksItsFlow`) by `FlowInv`: no
  session comes to wait at an instruction that would be skipped, unless the fast paths answer there, wherever a copy of its row is (`StoreFine`); while messages come
  one at a time there is one busy turn, and it works on the entry's session (`Alone`, `LoopFine`). `QuietStoreAgrees`
  (`StoredWhenQuiet`) and `SessionsResumeWhereTheyLeft` (`ResumesWhereItLeft`) by `StoreInv` on the queue of persist threads of each undisturbed session:
  the last one queued writes the latest row (`LastSays`), without any the table has it (`TableSays`), the insert is first (`InsertsFirst`) and a cancellation
  changes the status of what it finds and nothing else (`CancelFollows`); the entry is the latest row, or has ended with it (`EntryInv`). Assumed:
  an edge stays inside its flow, since nodes are looked up by flow and key.
* `FlowCachesProofs`, for any number of flows, editors and turns. `FlowTypeCorrect`. `CachesLagByTTL` (`StaleByTTL`) by `StaleInv`: what a cache or a lookup holds that is not so any
  more changed no longer ago than it was read (`Routed`, `Dated`). `EditsAreForgotten` (`EditsForget`) by `RouteInv`, between edits every trusted
  route is `Current`, and `NodeInv`, versions of nodes are numbers of edits and nothing trusted is older than the last announced one unless a request
  holds its key to delete it. `OneFlowPerRequest` (`GeneratedPerRequest`) by the argument of `RowsPerPhone`. `EditAssumption` and `EditorAssumption` bound
  the number of edits and say that there are finitely many requests at once.
  `TasksAndFlowsAreTyped` adds the types of the task sessions (`TypesOK`).
* `EdgeConditionsProofs`. `ConditionsAsMeant` (`EvaluatedAsMeant`), for every set of expressions, of any length and depth. The evaluation is recursive,
  and no induction theorem of the library can be instantiated; every claim about texts and expressions is shown for the shortest one for which it would
  fail (`LeastNat`, from the well-foundedness of the strict subset ordering; `Shortest`). `EvaluateIs`: the recursive function exists and is what its
  definition says, because a call asks for shorter texts only or ends as "endless" (`EvaluateByDepends`), so values of texts up to a length are unique
  and there are some for the next length. `DepthLeft`, `DepthRight`: how deep a position is in two texts put together. `AllShaped`: parentheses belong together and a level
  has connectives of one kind; so a chain has the parts of its beginning and one more (`PartsGoOn`), and comes to what its beginning comes to unless that
  leaves the last part to decide (`CombinedGoesOn`). `AllValued`: then the value is the meaning. `HiddenEndless`: a || beside a hidden && is its own only part.
  Assumed (`ExpressionAssumption`): expressions are made of expressions of the set and are finite.

Termination without fairness. What `TurnsEnd` and `SpeechEnds` rest on, apart from fairness, are action properties. `TurnsHaveAVariant`: a step that changes a looping
turn ends it or goes on in its session with fewer of `max_steps` left (`StepsLeft`), whoever else moves. `SpeechRunsOut`: while a voice turn awaits its syntheses one of
the guards of `SpeechGoesOn` holds (`SpeechCanGoOn`: the first task waiting for a free semaphore may begin) and every step lowers `StepsToEnd` or ends the turn.
`WaitRunsOut`: the same for a web call, by the sentences left and then the steps to the next (`SentencesLeft`, `StepsToNext`); `finished` is set whenever it waits.
The guards are written out, since no prover handles `ENABLED`.

Only model-checked: liveness (`TurnsEnd`, `SweptIdleIsClosed`, `SpeechEnds`), whose step from these measures to an end needs weak fairness and so `ENABLED`. Every
other property of the runs is a theorem.

## 5. Not modelled

`PROJECT.json` lists every component. Left out for good: prompts, classifiers, planning of
flows, embedding, recognition and synthesis (external services or
text), display-only reads, usage logs, configuration. The checkpoint cache is left out because the `Dockerfile` starts a single worker
process, the cache sits behind the saver's own lock, and nothing calls `adelete_thread`: with one process no
other writer can be newer. The Chat API forwards the events of one turn in order and keeps nothing. Rules and AI
settings are single rows behind a one-minute cache of the same form as `routes` in FlowCaches. In modelled components: events' bodies and the OAuth exchange, texts of messages, agent runs,
scores of a search, the reading of Korean dates and times, the stub `create_reservation_request` of the function registry, which touches no table, renames of nodes.

## 6. Extensions

What is proved covers the safety properties of the runs. Worth adding:

1. `SlotsImplementReservations` for the lengths that are offered only, in place of every span.
2. The keyword vocabulary and the parents of folders in Knowledge, the executors' writes of slot values in TaskSessions, and
   the condition types of edges (`evaluate_edge_condition`), which have no connectives.
