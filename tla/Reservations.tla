---------------------------- MODULE Reservations ----------------------------
(***************************************************************************)
(* The booking handlers of app/repositories/reservation_repo.py.           *)
(*                                                                         *)
(* Every handler is a sequence of separate PostgREST requests: it selects, *)
(* decides in Python, and writes with an UPDATE or INSERT that repeats no  *)
(* part of the decision in its WHERE clause.  The reservations table has   *)
(* no exclusion constraint, and FastAPI runs the synchronous endpoints (as *)
(* well as the chat turns, which create and cancel through the function    *)
(* nodes) in a pool of threads, so the requests of two handlers interleave *)
(* freely.  One action below is one request with the code that follows it  *)
(* up to the next request.                                                 *)
(***************************************************************************)
EXTENDS Integers, FiniteSets

CONSTANTS
    Worker,         \* threads that may each be running one booking handler
    Reservation,    \* identities the table can hand out
    NoReservation,  \* not an identity
    Span,           \* the time spans customers ask for
    Phone           \* the telephone numbers customers give

ASSUME SpanAssumption == Span \subseteq [start : Int, end : Int]
ASSUME NoReservationAssumption == NoReservation \notin Reservation
ASSUME PhoneAssumption == Phone # {}

VARIABLES
    status,         \* reservations.status, "absent" before the insert
    booked,         \* reservations.start_at and end_at
    customers,      \* number of customers rows of each phone number
    handler,        \* what each worker is doing
    resurrected,    \* history: moved from a terminal status to an active one
    raced           \* history: inserted by a handler whose conflict check was stale

vars == <<status, booked, customers, handler, resurrected, raced>>

ActiveStatus == {"requested", "confirmed"}
TerminalStatus == {"cancelled", "rejected"}

NoSpan == [start |-> 0, end |-> 0]

Idle == [op |-> "idle", stage |-> "idle", target |-> NoReservation,
         span |-> NoSpan, phone |-> CHOOSE p \in Phone : TRUE, stale |-> FALSE]

HandlerOp == {"idle", "create", "confirm", "reject", "cancel"}
HandlerStage == {"idle", "check", "findCustomer", "newCustomer", "insert",
                 "write", "reply"}

Active(r) == status[r] \in ActiveStatus

\* Half-open intervals: back-to-back bookings do not overlap.
Overlap(a, b) == a.start < b.end /\ a.end > b.start

\* Variant: a pending request is not looked at as a conflict.
ConflictingConfirmed(s) ==
    {r \in Reservation : status[r] = "confirmed" /\ Overlap(booked[r], s)}

\* find_conflicting_reservations: the active rows that overlap a span.
Conflicting(s) == {r \in Reservation : Active(r) /\ Overlap(booked[r], s)}

-----------------------------------------------------------------------------
Init ==
    /\ status = [r \in Reservation |-> "absent"]
    /\ booked = [r \in Reservation |-> NoSpan]
    /\ customers = [p \in Phone |-> 0]
    /\ handler = [w \in Worker |-> Idle]
    /\ resurrected = {}
    /\ raced = {}

At(w, op, stage) == handler[w].op = op /\ handler[w].stage = stage

Goto(w, stage) == handler' = [handler EXCEPT ![w].stage = stage]

Start(w, op, stage, r) ==
    handler' = [handler EXCEPT ![w] =
                  [Idle EXCEPT !.op = op, !.stage = stage, !.target = r]]

Finish(w) == handler' = [handler EXCEPT ![w] = Idle]

\* UPDATE reservations SET status = st WHERE id = r: unconditional.
SetStatus(r, st) ==
    /\ status' = [status EXCEPT ![r] = st]
    /\ resurrected' = IF status[r] \in TerminalStatus /\ st \in ActiveStatus
                      THEN resurrected \cup {r} ELSE resurrected

-----------------------------------------------------------------------------
(* create_reservation *)

\* The service and duration lookups; a span that is not positive is refused.
CreateBegin(w, s, p) ==
    /\ handler[w] = Idle
    /\ s.start < s.end
    /\ handler' = [handler EXCEPT ![w] =
                     [Idle EXCEPT !.op = "create", !.stage = "check",
                                  !.span = s, !.phone = p]]
    /\ UNCHANGED <<status, booked, customers, resurrected, raced>>

CreateCheck(w) ==
    /\ At(w, "create", "check")
    /\ IF Conflicting(handler[w].span) = {} THEN Goto(w, "findCustomer") ELSE Finish(w)
    /\ UNCHANGED <<status, booked, customers, resurrected, raced>>

\* Variant: the customer is inserted without being looked for.
FindCustomerAlwaysNew(w) ==
    /\ At(w, "create", "findCustomer")
    /\ Goto(w, "newCustomer")
    /\ UNCHANGED <<status, booked, customers, resurrected, raced>>

\* create_or_get_customer selects by phone and inserts when it finds no row.
CreateFindCustomer(w) ==
    /\ At(w, "create", "findCustomer")
    /\ Goto(w, IF customers[handler[w].phone] > 0 THEN "insert" ELSE "newCustomer")
    /\ UNCHANGED <<status, booked, customers, resurrected, raced>>

CreateNewCustomer(w) ==
    /\ At(w, "create", "newCustomer")
    /\ customers' = [customers EXCEPT ![handler[w].phone] = @ + 1]
    /\ Goto(w, "insert")
    /\ UNCHANGED <<status, booked, resurrected, raced>>

\* A handler that already holds a passed conflict check when a row appears.
PastCheck(w) == handler[w].op = "create" /\ handler[w].stage # "check"

CreateInsert(w, r) ==
    /\ At(w, "create", "insert")
    /\ status[r] = "absent"
    /\ status' = [status EXCEPT ![r] = "requested"]
    /\ booked' = [booked EXCEPT ![r] = handler[w].span]
    /\ raced' = IF handler[w].stale THEN raced \cup {r} ELSE raced
    /\ handler' = [v \in Worker |->
                     IF v = w THEN [handler[w] EXCEPT !.stage = "reply", !.target = r]
                     ELSE [handler[v] EXCEPT !.stale = @ \/ PastCheck(v)]]
    /\ UNCHANGED <<customers, resurrected>>

-----------------------------------------------------------------------------
(* confirm_reservation *)

\* Variant: the guard on the status is dropped.
ConfirmReadAnyStatus(w, r) ==
    /\ handler[w] = Idle
    /\ status[r] # "absent"
    /\ Start(w, "confirm", "check", r)
    /\ UNCHANGED <<status, booked, customers, resurrected, raced>>

ConfirmRead(w, r) ==
    /\ handler[w] = Idle
    /\ \/ status[r] = "confirmed" /\ Start(w, "confirm", "reply", r)
       \/ status[r] = "requested" /\ Start(w, "confirm", "check", r)
    /\ UNCHANGED <<status, booked, customers, resurrected, raced>>

\* Variant: the slot is trusted to be as free as when it was requested.
ConfirmCheckTrusting(w) ==
    /\ At(w, "confirm", "check")
    /\ Goto(w, "write")
    /\ UNCHANGED <<status, booked, customers, resurrected, raced>>

ConfirmCheck(w) ==
    /\ At(w, "confirm", "check")
    /\ IF Conflicting(booked[handler[w].target]) \ {handler[w].target} = {}
       THEN Goto(w, "write")
       ELSE Finish(w)
    /\ UNCHANGED <<status, booked, customers, resurrected, raced>>

ConfirmWrite(w) ==
    /\ At(w, "confirm", "write")
    /\ SetStatus(handler[w].target, "confirmed")
    /\ Goto(w, "reply")
    /\ UNCHANGED <<booked, customers, raced>>

(* reject_reservation *)

RejectRead(w, r) ==
    /\ handler[w] = Idle
    /\ status[r] = "requested"
    /\ Start(w, "reject", "write", r)
    /\ UNCHANGED <<status, booked, customers, resurrected, raced>>

RejectWrite(w) ==
    /\ At(w, "reject", "write")
    /\ SetStatus(handler[w].target, "rejected")
    /\ Goto(w, "reply")
    /\ UNCHANGED <<booked, customers, raced>>

(* cancel_reservation *)

CancelRead(w, r) ==
    /\ handler[w] = Idle
    /\ Active(r)
    /\ Start(w, "cancel", "write", r)
    /\ UNCHANGED <<status, booked, customers, resurrected, raced>>

CancelWrite(w) ==
    /\ At(w, "cancel", "write")
    /\ SetStatus(handler[w].target, "cancelled")
    /\ Goto(w, "reply")
    /\ UNCHANGED <<booked, customers, raced>>

-----------------------------------------------------------------------------
\* The endpoint returns the row to its caller.
Reply(w) ==
    /\ handler[w].stage = "reply"
    /\ Finish(w)
    /\ UNCHANGED <<status, booked, customers, resurrected, raced>>

\* Any request may raise; _handle_repo_error turns it into an HTTP error and
\* nothing that was already written is undone.
RequestFails(w) ==
    /\ handler[w].stage \notin {"idle", "reply"}
    /\ Finish(w)
    /\ UNCHANGED <<status, booked, customers, resurrected, raced>>

HandlerStep(w) ==
    \/ \E s \in Span, p \in Phone : CreateBegin(w, s, p)
    \/ CreateCheck(w) \/ CreateFindCustomer(w) \/ CreateNewCustomer(w)
    \/ \E r \in Reservation : CreateInsert(w, r)
    \/ \E r \in Reservation : ConfirmRead(w, r) \/ RejectRead(w, r) \/ CancelRead(w, r)
    \/ ConfirmCheck(w) \/ ConfirmWrite(w)
    \/ RejectWrite(w) \/ CancelWrite(w)
    \/ RequestFails(w)

Next == \E w \in Worker : HandlerStep(w) \/ Reply(w)

Spec == Init /\ [][Next]_vars

-----------------------------------------------------------------------------
Handler == [op : HandlerOp, stage : HandlerStage,
            target : Reservation \cup {NoReservation},
            span : [start : Int, end : Int], phone : Phone, stale : BOOLEAN]

TypeOK ==
    /\ status \in [Reservation -> {"absent"} \cup ActiveStatus \cup TerminalStatus]
    /\ booked \in [Reservation -> [start : Int, end : Int]]
    /\ customers \in [Phone -> Nat]
    /\ handler \in [Worker -> Handler]
    /\ resurrected \subseteq Reservation
    /\ raced \subseteq Reservation

\* What the handlers promise with nothing of how they work: see OneHandler.
Ledger == INSTANCE BookingLedger

\* At most one handler is at work.
OneHandler == \A v, w \in Worker : handler[v] # Idle /\ handler[w] # Idle => v = w

\* What a booking calendar promises: two active reservations never overlap.
\* It holds as long as OneHandler does.
NoOverlap ==
    \A r, q \in Reservation :
        r # q /\ Active(r) /\ Active(q) => ~Overlap(booked[r], booked[q])

\* The two races that can break the promise are the only ones: of two active
\* overlapping reservations, one was inserted after a stale conflict check of
\* create_reservation, or written back to life by a stale confirm_reservation.
OverlapNeedsRace ==
    \A r, q \in Reservation :
        r # q /\ Active(r) /\ Active(q) /\ Overlap(booked[r], booked[q])
            => {r, q} \cap (raced \cup resurrected) # {}

\* The re-check of confirm_reservation does its work under every interleaving
\* of handlers, racing creations included: two overlapping reservations are
\* both confirmed only if a withdrawn one was confirmed by a stale handler.
DoubleConfirmNeedsResurrection ==
    \A r, q \in Reservation :
        /\ r # q
        /\ status[r] = "confirmed" /\ status[q] = "confirmed"
        /\ Overlap(booked[r], booked[q])
        => {r, q} \cap resurrected # {}

\* create_or_get_customer selects before it inserts.  A telephone number ends
\* up with several customers rows only when workers race on its first booking,
\* so there are never more rows than workers (one, when handlers run serially).
RowsPerPhone == \A p \in Phone : customers[p] <= Cardinality(Worker)
=============================================================================
