SPECIFICATION MCSpec
CONSTANTS
    Scenarios = {"slots"}
    Worker = {w1}
    Reservation = {r1}
    NoReservation = none
    Phone = {p1}
    Span <- MCSpans
    EventId = {1}
    NoEvent = null
    Reliable = TRUE
    DayLength = 5
    MaxClock = 0
    BookingSetting <- MCSettings
    NoSetting = nosetting
    Offering <- MCOfferings
    NoDuration = noduration
    NoItem = noitem
    ListedDay = {0}
INVARIANTS BookedAsOffered
