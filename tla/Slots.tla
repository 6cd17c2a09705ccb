-------------------------------- MODULE Slots --------------------------------
(***************************************************************************)
(* The times offered to a customer: get_available_slots of                 *)
(* app/repositories/reservation_repo.py over the settings of               *)
(* booking_setting_repo.py, next to the booking handlers of Reservations   *)
(* that take the offered times.  One step of the listing is one request    *)
(* with the code around it; the requests of bookings, of the administrator *)
(* and the clock come in between.  Times are counted in half hours.        *)
(***************************************************************************)
EXTENDS Reservations, Sequences, SequencesExt

CONSTANTS
    DayLength,      \* half hours in a day
    MaxClock,       \* bound: the clock stops here
    BookingSetting, \* the settings an administrator saves, see SettingAssumption
    NoSetting,      \* the organisation has no booking_settings row yet
    Offering,       \* durations of a service, of its chosen item and its option
    NoDuration,     \* duration_minutes IS NULL
    NoItem,         \* a service that is booked without an item
    ListedDay       \* the days customers ask for

ASSUME DayAssumption ==
    DayLength \in Nat \ {0} /\ MaxClock \in Nat /\ ListedDay \subseteq Nat

Hours == [start : 0 .. DayLength, end : 0 .. DayLength]

\* A booking_settings row, under its check constraints: an interval is positive.
SettingType ==
    [active : BOOLEAN, interval : Nat \ {0}, notice : Nat, ahead : Nat \ {0},
     weekly : Seq([day : 0 .. 6, hours : Hours, active : BOOLEAN]),
     exceptions : Seq([date : Nat, closed : {"yes", "no", "unset"}, hours : Hours])]

ASSUME SettingAssumption ==
    NoSetting \notin BookingSetting /\ BookingSetting \subseteq SettingType

\* The API refuses negative durations of services and of items.
ASSUME OfferingAssumption ==
    Offering \subseteq [service : Nat \cup {NoDuration},
                       item : Nat \cup {NoItem, NoDuration}, option : Int]

VARIABLES
    setting,        \* the booking_settings row
    clock,          \* now
    listing,        \* what the listing request is doing
    offer,          \* its answer: what was asked and the starts that are free
    disturbed,      \* history: something it depends on changed since it began
    picked          \* the span each worker's customer picked, with the options

slotVars == <<setting, clock, listing, offer, disturbed, picked>>

NoHours == [start |-> 0, end |-> 0]      \* start_time and end_time missing

\* create_default_booking_setting: every 30 minutes, an hour's notice, 30 days
\* ahead, and no opening hours at all.
DefaultSetting == [active |-> TRUE, interval |-> 1, notice |-> 2, ahead |-> 30,
                   weekly |-> <<>>, exceptions |-> <<>>]

NoListing == [stage |-> "off"]
NoOffer == [starts |-> <<>>]

SlotInit ==
    /\ Init
    /\ setting \in BookingSetting \cup {NoSetting}
    /\ clock = 0
    /\ listing = NoListing
    /\ offer = NoOffer
    /\ disturbed = FALSE
    /\ picked = [w \in Worker |-> NoSpan]

-----------------------------------------------------------------------------
(* The rules of one day *)

\* _find_exception_for_date: only the first exception of a date counts.
Decides(s, d, i) ==
    /\ i \in DOMAIN s.exceptions /\ s.exceptions[i].date = d
    /\ \A j \in 1 .. i - 1 : s.exceptions[j].date # d

ClosedOn(s, d) ==
    \/ ~s.active
    \/ \E i \in DOMAIN s.exceptions : Decides(s, d, i) /\ s.exceptions[i].closed = "yes"

\* An exception that is open with hours replaces the weekly hours.
OpensOn(s, d, i) ==
    Decides(s, d, i) /\ s.exceptions[i].closed = "no" /\ s.exceptions[i].hours # NoHours

Rule(hours, open) == [start |-> hours.start, end |-> hours.end, open |-> open]

\* _get_rules_for_date, with the weekly rules that the listing passes over
\* marked as not open.  DB days of the week count from Sunday, as clock does.
RulesOf(s, d) ==
    IF ClosedOn(s, d) THEN <<>>
    ELSE IF \E i \in DOMAIN s.exceptions : OpensOn(s, d, i)
    THEN LET i == CHOOSE i \in DOMAIN s.exceptions : OpensOn(s, d, i)
         IN <<Rule(s.exceptions[i].hours, TRUE)>>
    ELSE [i \in DOMAIN s.weekly |->
            Rule(s.weekly[i].hours, s.weekly[i].day = d % 7 /\ s.weekly[i].active)]

\* _is_allowed_by_notice_policy
Allowed(s, d, t) ==
    /\ t >= clock + s.notice
    /\ d <= (clock \div DayLength) + s.ahead

\* The item's duration if it has one, else the service's, else an hour.
Length(o) ==
    IF o.item \notin {NoItem, NoDuration} THEN o.item
    ELSE IF o.service # NoDuration THEN o.service ELSE 2

-----------------------------------------------------------------------------
(* get_available_slots *)

\* The lookup of the service.  The function node hands on the item, if there is
\* one; GET /booking/available-slots knows services only.
ListBegin(o, d) ==
    /\ listing.stage = "off"
    /\ listing' = [stage |-> "setting", day |-> d, what |-> o, length |-> Length(o),
                   from |-> setting, rules |-> <<>>, rule |-> 0, at |-> 0, starts |-> <<>>]
    /\ offer' = NoOffer
    /\ disturbed' = FALSE
    /\ UNCHANGED <<vars, setting, clock, picked>>

\* The listing at the opening time of rule i, or past the last rule.
AtRule(l, i) ==
    [l EXCEPT !.rule = i,
              !.at = IF i \in DOMAIN l.rules
                     THEN l.day * DayLength + l.rules[i].start ELSE 0]

\* The listing with the row it will work from, at the first rule of the day.
Prepared(s) ==
    AtRule([listing EXCEPT !.stage = "scan", !.from = s,
                           !.rules = RulesOf(s, listing.day)], 1)

ListSetting ==
    /\ listing.stage = "setting"
    /\ listing' = IF setting = NoSetting THEN [listing EXCEPT !.stage = "default"]
                  ELSE Prepared(setting)
    /\ UNCHANGED <<vars, setting, clock, offer, disturbed, picked>>

\* The insert of the default row raises if somebody else's came first:
\* organization_id is unique.
ListDefault ==
    /\ listing.stage = "default"
    /\ \/ setting = NoSetting /\ setting' = DefaultSetting
                              /\ listing' = Prepared(DefaultSetting)
       \/ setting # NoSetting /\ listing' = NoListing /\ UNCHANGED setting
    /\ UNCHANGED <<vars, clock, offer, disturbed, picked>>

InRule == listing.rule \in DOMAIN listing.rules

ClosingTime == listing.day * DayLength + listing.rules[listing.rule].end

\* Variant: the slot has to end before the closing time.
FitsBefore ==
    InRule /\ listing.rules[listing.rule].open /\ listing.at + listing.length < ClosingTime

\* Another slot fits in the rule that is being scanned.
Fits ==
    InRule /\ listing.rules[listing.rule].open /\ listing.at + listing.length <= ClosingTime

Candidate == [start |-> listing.at, end |-> listing.at + listing.length]

Advanced(l) == [l EXCEPT !.at = @ + l.from.interval]

\* A slot too soon or too far ahead is passed over without a request.
ListSkip ==
    /\ listing.stage = "scan" /\ Fits
    /\ ~Allowed(listing.from, listing.day, listing.at)
    /\ listing' = Advanced(listing)
    /\ UNCHANGED <<vars, setting, clock, offer, disturbed, picked>>

\* find_conflicting_reservations for one slot.
ListCheck ==
    /\ listing.stage = "scan" /\ Fits
    /\ Allowed(listing.from, listing.day, listing.at)
    /\ listing' = Advanced(IF Conflicting(Candidate) = {}
                           THEN [listing EXCEPT !.starts = Append(@, listing.at)]
                           ELSE listing)
    /\ UNCHANGED <<vars, setting, clock, offer, disturbed, picked>>

ListNextRule ==
    /\ listing.stage = "scan" /\ ~Fits /\ InRule
    /\ listing' = AtRule(listing, listing.rule + 1)
    /\ UNCHANGED <<vars, setting, clock, offer, disturbed, picked>>

ListAnswer ==
    /\ listing.stage = "scan" /\ ~InRule
    /\ offer' = [starts |-> listing.starts, what |-> listing.what,
                 day |-> listing.day, from |-> listing.from]
    /\ listing' = NoListing
    /\ UNCHANGED <<vars, setting, clock, disturbed, picked>>

\* Any request may raise; the caller gets an error and no slots.
ListFails ==
    /\ \/ listing.stage \in {"setting", "default"}
       \/ listing.stage = "scan" /\ Fits
    /\ listing' = NoListing
    /\ UNCHANGED <<vars, setting, clock, offer, disturbed, picked>>

-----------------------------------------------------------------------------
(* Those who take the slots and those who change them *)

\* calculate_service_price: the item with the option that was chosen.
ItemWithOption(o, chosen) ==
    (IF o.item = NoDuration THEN 0 ELSE o.item) + (IF chosen THEN o.option ELSE 0)

\* The length create_reservation books.  When the conversation has resolved a
\* service_id, _build_start_end sets end_at from the service's duration, if it
\* has one, and create_reservation only computes an end_at it was not given.
\* A length of 0 is refused.
BookedLength(o, chosen, resolved) ==
    IF o.service # NoDuration /\ (resolved \/ o.item = NoItem) THEN o.service
    ELSE IF o.item = NoItem THEN 0
    ELSE ItemWithOption(o, chosen)

\* A customer picks one of the offered slots, for what the slots were listed
\* for.  Without an item nothing but the service decides.
PickSlot(w, i, chosen, resolved, p) ==
    /\ LET o == offer.what
           t == offer.starts[i]
           need == IF o.item = NoItem THEN Length(o) ELSE ItemWithOption(o, chosen)
       IN /\ CreateBegin(w, [start |-> t, end |-> t + BookedLength(o, chosen, resolved)], p)
          /\ picked' = [picked EXCEPT ![w] = [start |-> t, end |-> t + need]]
    /\ UNCHANGED <<setting, clock, listing, offer, disturbed>>

\* The booking handlers, whatever they were started from.
SlotHandlerStep(w) ==
    /\ HandlerStep(w) \/ Reply(w)
    /\ disturbed' = (disturbed \/ status' # status)
    /\ picked' = IF handler'[w].op = "create" /\ handler[w].op = "create"
                 THEN picked ELSE [picked EXCEPT ![w] = NoSpan]
    /\ UNCHANGED <<setting, clock, listing, offer>>

\* update_booking_setting: an update of no row is refused.
SaveSetting(s) ==
    /\ setting # NoSetting /\ setting # s
    /\ setting' = s
    /\ disturbed' = TRUE
    /\ UNCHANGED <<vars, clock, listing, offer, picked>>

\* GET /booking-settings, or a create_reservation: get_or_create_booking_setting.
DefaultElsewhere ==
    /\ setting = NoSetting
    /\ setting' = DefaultSetting
    /\ UNCHANGED <<vars, clock, listing, offer, disturbed, picked>>

SlotTick ==
    /\ clock < MaxClock
    /\ clock' = clock + 1
    /\ disturbed' = TRUE
    /\ UNCHANGED <<vars, setting, listing, offer, picked>>

ListStep == ListSetting \/ ListDefault \/ ListSkip \/ ListCheck \/ ListNextRule \/ ListAnswer

SlotNext ==
    \/ \E o \in Offering, d \in ListedDay : ListBegin(o, d)
    \/ ListStep \/ ListFails
    \/ \E w \in Worker :
         \/ SlotHandlerStep(w)
         \/ \E i \in DOMAIN offer.starts, p \in Phone, chosen, resolved \in BOOLEAN :
               PickSlot(w, i, chosen, resolved, p)
    \/ \E s \in BookingSetting : SaveSetting(s)
    \/ DefaultElsewhere
    \/ SlotTick

SlotSpec == SlotInit /\ [][SlotNext]_<<vars, slotVars>>

-----------------------------------------------------------------------------
\* A slot of length at t is on the grid of rule i of the day: in steps of the
\* interval from the opening time, inside the opening hours.
OnGrid(s, d, length, i, t) ==
    LET rule == RulesOf(s, d)[i]
        opening == d * DayLength + rule.start
    IN /\ rule.open
       /\ t >= opening /\ t + length <= d * DayLength + rule.end
       /\ (t - opening) % s.interval = 0

\* The slots of a day by their definition: on a grid, far enough ahead, and free.
FreeStarts(s, d, length) ==
    {t \in d * DayLength .. (d + 1) * DayLength :
       /\ Allowed(s, d, t)
       /\ Conflicting([start |-> t, end |-> t + length]) = {}
       /\ \E i \in DOMAIN RulesOf(s, d) : OnGrid(s, d, length, i, t)}

\* An answer that nothing disturbed, from the first request to now, lists the
\* free slots of the day by their definition, all of them and no other.
ListedSlotsRight ==
    offer # NoOffer /\ ~disturbed =>
        ToSet(offer.starts) = FreeStarts(offer.from, offer.day, Length(offer.what))

\* create_reservation, reservation_repo.py:434: with a service_item_id the time
\* is computed from the item and its options, and the comment at 263-267: the
\* item's own duration is what is booked.
BookedAsOffered ==
    \A w \in Worker : handler[w].op = "create" /\ picked[w] # NoSpan
        => handler[w].span = picked[w]
=============================================================================
