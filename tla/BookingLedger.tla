---------------------------- MODULE BookingLedger ----------------------------
(***************************************************************************)
(* What the booking endpoints promise, with nothing of how they work: a    *)
(* ledger in which a reservation is accepted, confirmed, rejected and      *)
(* withdrawn in single steps, and never over another active one.           *)
(***************************************************************************)
EXTENDS Integers

CONSTANT Reservation

VARIABLES
    status,     \* status of each reservation, "absent" before it is accepted
    booked      \* the half-open span it occupies

Occupied(s) ==
    \E r \in Reservation :
        /\ status[r] \in {"requested", "confirmed"}
        /\ booked[r].start < s.end /\ s.start < booked[r].end

Move(r, from, to) ==
    /\ status[r] \in from
    /\ status' = [status EXCEPT ![r] = to]

Accept(r, s) ==
    /\ s.start < s.end
    /\ ~Occupied(s)
    /\ Move(r, {"absent"}, "requested")
    /\ booked' = [booked EXCEPT ![r] = s]

Confirm(r) == Move(r, {"requested"}, "confirmed") /\ UNCHANGED booked
Reject(r) == Move(r, {"requested"}, "rejected") /\ UNCHANGED booked
Withdraw(r) == Move(r, {"requested", "confirmed"}, "cancelled") /\ UNCHANGED booked

LedgerInit ==
    /\ status = [r \in Reservation |-> "absent"]
    /\ booked = [r \in Reservation |-> [start |-> 0, end |-> 0]]

\* The new span is read off booked', so that the step needs no set of spans.
LedgerNext ==
    \E r \in Reservation : \/ Accept(r, booked'[r])
                           \/ Confirm(r) \/ Reject(r) \/ Withdraw(r)

LedgerSpec == LedgerInit /\ [][LedgerNext]_<<status, booked>>
=============================================================================
