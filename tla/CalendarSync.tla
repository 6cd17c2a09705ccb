---------------------------- MODULE CalendarSync ----------------------------
(***************************************************************************)
(* The confirm and cancel endpoints of app/api/reservations.py with the    *)
(* one-way push to Google Calendar that follows the booking handlers of    *)
(* Reservations: app/services/reservation_calendar_sync_service.py over    *)
(* the mapping rows of reservation_calendar_event_repo.py and the tokens   *)
(* of calendar_integration_repo.py.  While a worker synchronises, its      *)
(* booking handler stays at stage "reply".                                 *)
(***************************************************************************)
EXTENDS Reservations, Sequences

CONSTANTS
    EventId,        \* identities Google can give to events
    NoEvent,        \* external_event_id IS NULL
    Reliable        \* TRUE: no request to Google or on the mapping table fails

ASSUME EventAssumption == NoEvent \notin EventId
ASSUME ReliableAssumption == Reliable \in BOOLEAN

VARIABLES
    connected,      \* calendar_integrations holds a usable access token
    rows,           \* reservation_calendar_events of each reservation, oldest first
    events,         \* live Google events
    owner,          \* history: the reservation each issued event was created for
    untracked,      \* history: live events whose id was never stored, or overwritten
    sync            \* what each worker's synchronisation is doing

syncVars == <<connected, rows, events, owner, untracked, sync>>
allVars == <<vars, syncVars>>

Row == [sync : {"pending", "synced", "failed", "cancelled"}, event : EventId \cup {NoEvent}]

SyncStage == {"off", "read", "token", "post", "find", "delToken", "delete",
              "select", "write", "done"}
Mark == {"none", "pending", "synced", "failed", "cancelled"}

SyncState == [stage : SyncStage, event : EventId \cup {NoEvent}, mark : Mark, row : Nat]
SyncOff == [stage |-> "off", event |-> NoEvent, mark |-> "none", row |-> 0]

SyncInit ==
    /\ Init
    /\ connected \in BOOLEAN
    /\ rows = [r \in Reservation |-> <<>>]
    /\ events = {}
    /\ owner = [e \in EventId |-> NoReservation]
    /\ untracked = {}
    /\ sync = [w \in Worker |-> SyncOff]

Target(w) == handler[w].target
Issued(e) == owner[e] # NoReservation

SyncAt(w, stage) == sync[w].stage = stage
SyncGoto(w, stage) == sync' = [sync EXCEPT ![w].stage = stage]

\* mark_calendar_event_*: select the latest row, then update or insert.
GotoMark(w, mark) ==
    sync' = [sync EXCEPT ![w].stage = "select", ![w].mark = mark]

-----------------------------------------------------------------------------
(* sync_confirmed_reservation_to_calendar *)

\* confirm_reservation_api has its row, freshly confirmed or confirmed before.
PushBegin(w) ==
    /\ At(w, "confirm", "reply") /\ SyncAt(w, "off")
    /\ SyncGoto(w, "read")
    /\ UNCHANGED <<vars, connected, rows, events, owner, untracked>>

PushRead(w) ==
    /\ SyncAt(w, "read")
    /\ SyncGoto(w, IF status[Target(w)] = "confirmed" THEN "token" ELSE "done")
    /\ UNCHANGED <<vars, connected, rows, events, owner, untracked>>

PushToken(w) ==
    /\ SyncAt(w, "token")
    /\ IF connected THEN SyncGoto(w, "post") ELSE GotoMark(w, "pending")
    /\ UNCHANGED <<vars, connected, rows, events, owner, untracked>>

\* The POST always asks for a new event, whatever the mapping row says.
PushPost(w, e) ==
    /\ SyncAt(w, "post") /\ ~Issued(e)
    /\ events' = events \cup {e}
    /\ owner' = [owner EXCEPT ![e] = Target(w)]
    /\ untracked' = untracked \cup {e}
    /\ \/ sync' = [sync EXCEPT ![w].stage = "select", ![w].mark = "synced", ![w].event = e]
       \/ ~Reliable /\ GotoMark(w, "failed")     \* created, but the answer was lost
    /\ UNCHANGED <<vars, connected, rows>>

PushPostFails(w) ==
    /\ SyncAt(w, "post") /\ ~Reliable
    /\ GotoMark(w, "failed")
    /\ UNCHANGED <<vars, connected, rows, events, owner, untracked>>

-----------------------------------------------------------------------------
(* sync_cancelled_reservation_to_calendar *)

\* cancel_reservation_api.  The function node of a chat turn cancels through
\* the same repository function and never comes here: see Respond.
WithdrawBegin(w) ==
    /\ At(w, "cancel", "reply") /\ SyncAt(w, "off")
    /\ SyncGoto(w, "find")
    /\ UNCHANGED <<vars, connected, rows, events, owner, untracked>>

LatestRow(r) == rows[r][Len(rows[r])]

WithdrawFind(w) ==
    /\ SyncAt(w, "find")
    /\ \/ rows[Target(w)] = <<>> /\ SyncGoto(w, "done")
       \/ /\ rows[Target(w)] # <<>>
          /\ LET e == LatestRow(Target(w)).event IN
               IF e = NoEvent THEN GotoMark(w, "cancelled")
               ELSE sync' = [sync EXCEPT ![w].stage = "delToken", ![w].event = e]
    /\ UNCHANGED <<vars, connected, rows, events, owner, untracked>>

WithdrawToken(w) ==
    /\ SyncAt(w, "delToken")
    /\ SyncGoto(w, IF connected THEN "delete" ELSE "done")
    /\ UNCHANGED <<vars, connected, rows, events, owner, untracked>>

WithdrawDelete(w) ==
    /\ SyncAt(w, "delete") /\ sync[w].event \in events
    /\ events' = events \ {sync[w].event}
    /\ untracked' = untracked \ {sync[w].event}
    /\ \/ GotoMark(w, "cancelled")
       \/ ~Reliable /\ SyncGoto(w, "done")       \* a read timeout is not caught here
    /\ UNCHANGED <<vars, connected, rows, owner>>

\* Variant: a failed delete is marked cancelled.
WithdrawDeleteFailsCancels(w) ==
    /\ SyncAt(w, "delete")
    /\ Reliable => sync[w].event \notin events
    /\ GotoMark(w, "cancelled") \/ SyncGoto(w, "done")
    /\ UNCHANGED <<vars, connected, rows, events, owner, untracked>>

\* Refused, unreachable, or answered 404 because the event is already gone.
WithdrawDeleteFails(w) ==
    /\ SyncAt(w, "delete")
    /\ Reliable => sync[w].event \notin events
    /\ GotoMark(w, "failed") \/ SyncGoto(w, "done")
    /\ UNCHANGED <<vars, connected, rows, events, owner, untracked>>

-----------------------------------------------------------------------------
(* mark_calendar_event_pending, _synced, _failed and _cancelled *)

MarkSelect(w) ==
    /\ SyncAt(w, "select")
    /\ LET n == Len(rows[Target(w)]) IN
         sync' = IF n = 0 /\ sync[w].mark = "cancelled"
                 THEN [sync EXCEPT ![w].stage = "done"]
                 ELSE [sync EXCEPT ![w].stage = "write", ![w].row = n]
    /\ UNCHANGED <<vars, connected, rows, events, owner, untracked>>

\* Variant: every mark but _synced clears the event id.
MarkedForgetting(old, w) ==
    [sync |-> sync[w].mark,
     event |-> IF sync[w].mark = "synced" THEN sync[w].event ELSE NoEvent]

\* Only _synced stores an event id; the other marks keep the one there is.
Marked(old, w) ==
    [sync |-> sync[w].mark,
     event |-> IF sync[w].mark = "synced" THEN sync[w].event ELSE old]

MarkWrite(w) ==
    /\ SyncAt(w, "write")
    /\ LET r == Target(w)
           n == sync[w].row
           old == IF n = 0 THEN NoEvent ELSE rows[r][n].event
           new == Marked(old, w)
       IN /\ rows' = IF n = 0 THEN [rows EXCEPT ![r] = Append(@, new)]
                     ELSE [rows EXCEPT ![r][n] = new]
          /\ untracked' = (untracked \ {new.event})
                            \cup (IF sync[w].mark = "synced" THEN {old} \cap events ELSE {})
    /\ SyncGoto(w, "done")
    /\ UNCHANGED <<vars, connected, events, owner>>

\* A request on the mapping table raises.  sync_confirmed catches it and marks
\* the row failed; everything else ends in _safe_sync_*, which logs it.
SyncRequestFails(w) ==
    /\ ~Reliable
    /\ sync[w].stage \in {"read", "token", "find", "delToken", "select", "write"}
    /\ IF sync[w].mark = "synced" THEN GotoMark(w, "failed") ELSE SyncGoto(w, "done")
    /\ UNCHANGED <<vars, connected, rows, events, owner, untracked>>

-----------------------------------------------------------------------------
\* The endpoint answers.  Creations, rejections and cancellations of the chat
\* answer without a synchronisation.
Respond(w) ==
    /\ Reply(w)
    /\ \/ SyncAt(w, "done")
       \/ SyncAt(w, "off") /\ handler[w].op # "confirm"
    /\ sync' = [sync EXCEPT ![w] = SyncOff]
    /\ UNCHANGED <<connected, rows, events, owner, untracked>>

\* mark_calendar_integration_connected, _disconnected and _failed.  No endpoint
\* calls them yet: who sets up the integration does, at any time.
Integrate ==
    /\ connected' = ~connected
    /\ UNCHANGED <<vars, rows, events, owner, untracked, sync>>

SyncStep(w) ==
    \/ PushBegin(w) \/ PushRead(w) \/ PushToken(w) \/ PushPostFails(w)
    \/ \E e \in EventId : PushPost(w, e)
    \/ WithdrawBegin(w) \/ WithdrawFind(w) \/ WithdrawToken(w)
    \/ WithdrawDelete(w) \/ WithdrawDeleteFails(w)
    \/ MarkSelect(w) \/ MarkWrite(w) \/ SyncRequestFails(w)

SyncNext ==
    \/ \E w \in Worker : \/ HandlerStep(w) /\ UNCHANGED syncVars
                         \/ SyncStep(w)
                         \/ Respond(w)
    \/ Integrate

SyncSpec == SyncInit /\ [][SyncNext]_allVars

-----------------------------------------------------------------------------
SyncTypeOK ==
    /\ connected \in BOOLEAN
    /\ rows \in [Reservation -> Seq(Row)]
    /\ events \subseteq EventId
    /\ owner \in [EventId -> Reservation \cup {NoReservation}]
    /\ untracked \subseteq events
    /\ sync \in [Worker -> SyncState]

\* reservation_calendar_sync_service.py never touches the booking: with it behind
\* them the endpoints still are the handlers of Reservations, whatever fails.
ImplementsReservations == Spec

\* The unique index on (provider, external_event_id) is never hit: no event id
\* is stored in two rows.
EventStoredOnce ==
    \A r, q \in Reservation : \A i \in DOMAIN rows[r], j \in DOMAIN rows[q] :
        rows[r][i].event = rows[q][j].event /\ rows[r][i].event # NoEvent
            => r = q /\ i = j

\* Every live event is named by one row, of its own reservation, or is one of
\* those that PushPost created without an answer or that a second _synced
\* overwrote: no failure, pending mark or cancellation loses track of one, even
\* when handlers race on the mapping table.
LiveEventsAccounted ==
    /\ EventStoredOnce
    /\ \A e \in events : e \in untracked \/
          \E i \in DOMAIN rows[owner[e]] : rows[owner[e]][i].event = e

\* When handlers run one at a time, a mapping row marked cancelled no longer
\* names a live event: the delete came first.
CancelledRowNamesNoLiveEvent ==
    \A r \in Reservation : \A i \in DOMAIN rows[r] :
        rows[r][i].sync = "cancelled" => rows[r][i].event \notin events

\* sync_cancelled_reservation_to_calendar: the Google events connected to the
\* cancelled reservation are deleted, so that once it has marked the mapping
\* cancelled none is left.
CancelledMeansDeleted ==
    \A r \in Reservation :
        rows[r] # <<>> /\ LatestRow(r).sync = "cancelled"
            => \A e \in events : owner[e] # r
=============================================================================
