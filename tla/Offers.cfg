SPECIFICATION MCSpec
CONSTANTS
    Scenarios = {"flat", "items", "options", "orders"}
    Service = {s1, s2}
    Item = {i1, i2}
    Option = {o1}
    Worker = {w1, w2}
    Source = {k1}
    NameA = a
    NameB = b
    Name = {a, b}
    Price = {one, two}
    Free = Free
    Zero = Zero
    Missing = Missing
    None = None
    Catalogs <- MCCatalogs
    Lists <- MCLists
    ItemDefault = "approved"
    MaxExtractions = 2
    MaxRequests = 3
    OrderWorker = {1, 2}
    Order = {1, 2}
    NoOrder = NoOrder
    Product <- MCProduct
    InitialStock <- MCStock
    Cart <- MCCart
SYMMETRY MCSymmetry
INVARIANTS
    TypesOK DecisionsStand QuotedPriceAccepted ActivationIsWhole InsertedOnce
    StockNeverNegative StockAccounted SerialTakesAllOrNothing
PROPERTIES
    SerialStatusChanges
