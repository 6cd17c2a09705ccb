SPECIFICATION MCSpec
CONSTANTS
    Scenarios = {"serial"}
    Worker = {w1}
    Reservation = {r1}
    NoReservation = none
    Phone = {p1}
    Span <- MCSpans
    EventId = {1, 2}
    NoEvent = null
    Reliable = TRUE
    DayLength = 5
    MaxClock = 0
    BookingSetting <- MCSettings
    NoSetting = nosetting
    Offering <- MCOfferings
    NoDuration = noduration
    NoItem = noitem
    ListedDay = {0}
INVARIANTS CancelledMeansDeleted
