----------------------------- MODULE MCBookings -----------------------------
(***************************************************************************)
(* Instances of the booking modules for TLC.  The initial states choose a  *)
(* scenario: handlers alone that race for two spans, handlers one after    *)
(* the other and two at a time with the calendar behind them, and the      *)
(* listing of free slots next to a booking.                                *)
(***************************************************************************)
EXTENDS CalendarSync, Slots, TLC

CONSTANT Scenarios

VARIABLE scenario

\* Two spans that overlap and a third that only touches the first one.
Overlapping == {[start |-> 1, end |-> 3], [start |-> 2, end |-> 4]}
Touching == Overlapping \cup {[start |-> 3, end |-> 4]}

\* What the slot at 2 is booked as, for an item of two or a service of one.
OfSlot == {[start |-> 2, end |-> 4], [start |-> 2, end |-> 3]}
MCSpans == Touching \cup OfSlot

Morning == [start |-> 0, end |-> 3]
Late == [start |-> 2, end |-> 5]

\* Open on the first and the last half of the first day, with a rule that is
\* switched off; or every half hour of the second day only, by an exception.
MCSettings == {
    [active |-> TRUE, interval |-> 2, notice |-> 1, ahead |-> 1, exceptions |-> <<>>,
     weekly |-> << [day |-> 0, hours |-> Morning, active |-> TRUE],
                   [day |-> 0, hours |-> Morning, active |-> FALSE],
                   [day |-> 0, hours |-> Late, active |-> TRUE] >>],
    [active |-> TRUE, interval |-> 1, notice |-> 0, ahead |-> 1,
     exceptions |-> << [date |-> 0, closed |-> "yes", hours |-> NoHours],
                       [date |-> 0, closed |-> "no", hours |-> Late],
                       [date |-> 1, closed |-> "no", hours |-> Late] >>,
     weekly |-> << [day |-> 0, hours |-> Morning, active |-> TRUE],
                   [day |-> 1, hours |-> Morning, active |-> TRUE] >>] }

\* An item longer than its service, one without a duration, a service alone.
MCOfferings == { [service |-> 1, item |-> 2, option |-> 1],
                 [service |-> NoDuration, item |-> NoDuration, option |-> 1],
                 [service |-> 1, item |-> NoItem, option |-> 0] }

MCSymmetry == Permutations(Worker) \cup Permutations(Reservation)

mcVars == <<vars, syncVars, slotVars, scenario>>

MCInit ==
    /\ scenario \in Scenarios
    /\ SyncInit /\ SlotInit
    /\ scenario # "slots" => setting = NoSetting
    /\ scenario \in {"race", "slots"} => ~connected

\* How many handlers are at work at once, how many reservations and events
\* there are (Google hands out the first identity that is free), and which
\* spans are booked.
MaxBusy == [race |-> 3, serial |-> 1, concurrent |-> 2, slots |-> 1]
MaxBooked == [race |-> 2, serial |-> 2, concurrent |-> 1, slots |-> 1]
MaxIssued == [race |-> 0, serial |-> 2, concurrent |-> 2, slots |-> 0]
SpansOf == [race |-> Overlapping, serial |-> Touching,
            concurrent |-> {[start |-> 1, end |-> 3]},
            slots |-> OfSlot]

Bounded ==
    /\ Cardinality({w \in Worker : handler'[w] # Idle}) <= MaxBusy[scenario]
    /\ Cardinality({r \in Reservation : status'[r] # "absent"}) <= MaxBooked[scenario]
    /\ \A e \in EventId : Issued(e)' => e <= MaxIssued[scenario] /\ \A f \in 1 .. e - 1 : Issued(f)
    /\ \A w \in Worker : handler'[w].op = "create" =>
          handler'[w].span \in SpansOf[scenario]

MCNext ==
    /\ \/ scenario = "race" /\ Next /\ UNCHANGED <<syncVars, slotVars>>
       \/ scenario \in {"serial", "concurrent"} /\ SyncNext /\ UNCHANGED slotVars
       \/ scenario = "slots" /\ SlotNext /\ UNCHANGED syncVars
    /\ Bounded
    /\ UNCHANGED scenario

MCSpec == MCInit /\ [][MCNext]_mcVars

-----------------------------------------------------------------------------
\* One at a time, the handlers keep the ledger of BookingLedger whatever fails:
\* each takes effect in one step, on the documented statuses, and never over
\* another active booking.
SerialImplementsLedger ==
    /\ Ledger!LedgerInit
    /\ [][scenario = "serial" => Ledger!LedgerNext]_<<status, booked>>

\* CancelledRowNamesNoLiveEvent when handlers run one at a time.
SerialCancelledRowNamesNoLiveEvent == scenario = "serial" => CancelledRowNamesNoLiveEvent
=============================================================================
