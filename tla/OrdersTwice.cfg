SPECIFICATION MCSpec
CONSTANTS
    Scenarios = {"orders"}
    Service = {s1}
    Item = {i1}
    Option = {o1}
    Worker = {w1}
    Source = {k1}
    NameA = a
    NameB = b
    Name = {a, b}
    Price = {one, two}
    Free = Free
    Zero = Zero
    Missing = Missing
    None = None
    Catalogs <- MCCatalogs
    Lists <- MCLists
    ItemDefault = "approved"
    MaxExtractions = 2
    MaxRequests = 2
    OrderWorker = {1}
    Order = {1, 2}
    NoOrder = NoOrder
    Product <- MCProduct
    InitialStock <- MCStock
    Cart <- TwiceCart
INVARIANT TakesAllOrNothing
