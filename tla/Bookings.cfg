SPECIFICATION MCSpec
CONSTANTS
    Scenarios = {"race", "serial", "concurrent", "slots"}
    Worker = {w1, w2, w3}
    Reservation = {r1, r2}
    NoReservation = none
    Phone = {p1}
    Span <- MCSpans
    EventId = {1, 2}
    NoEvent = null
    Reliable = FALSE
    DayLength = 5
    MaxClock = 2
    BookingSetting <- MCSettings
    NoSetting = nosetting
    Offering <- MCOfferings
    NoDuration = noduration
    NoItem = noitem
    ListedDay = {0, 1, 2}
SYMMETRY MCSymmetry
INVARIANTS
    OverlapNeedsRace DoubleConfirmNeedsResurrection RowsPerPhone
    LiveEventsAccounted SerialCancelledRowNamesNoLiveEvent
    ListedSlotsRight
PROPERTIES
    SerialImplementsLedger
