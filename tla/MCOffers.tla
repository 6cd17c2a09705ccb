------------------------------- MODULE MCOffers -------------------------------
(* What an organization offers, and what is ordered of it: instances of     *)
(* ServiceCatalog and Orders for TLC.  Four scenarios: flat services, of    *)
(* which two may have one name; a catalogue of one service with two items;  *)
(* one with an item and an option; orders over two products.                *)
EXTENDS ServiceCatalog, Orders, TLC

CONSTANTS
    Scenarios,
    NameA, NameB,       \* names of services, items and options
    MaxExtractions,     \* bound: extractions of a behaviour
    MaxRequests         \* bound: the administrator's requests of a behaviour

VARIABLES
    scenario, extractions, requests,
    crew                \* the workers that handle orders: one, whose requests do not fail, or all

mcVars == <<vars, orderVars, scenario, extractions, requests, crew>>

MCCatalogs ==
    {[service |-> NameA, items |-> {[name |-> NameA, price |-> Free, options |-> {}]}]}
    \cup {[service |-> NameA, items |-> {[name |-> n, price |-> p, options |-> {}] : n \in {NameA, NameB}}] :
            p \in Price}
    \cup {[service |-> NameA, items |-> {[name |-> NameA, price |-> p,
                                     options |-> {[name |-> NameA, price |-> p]}]}] : p \in Price}
MCLists == {{}} \cup {{[name |-> NameA, price |-> p]} : p \in Price}

\* Carts of one and two lines over two products, and one that names the same
\* product twice.
L(p, n) == [product |-> p, quantity |-> n]
MCProduct == {"cup", "pot"}
MCStock == [cup |-> 3, pot |-> 2]
MCCart == {<<L("pot", 1), L("cup", 3)>>, <<L("pot", 2)>>}
TwiceCart == {<<L("cup", 2), L("cup", 2)>>}

MCInit ==
    /\ Init /\ OrderInit
    /\ extractions = 0 /\ requests = 0
    /\ scenario \in Scenarios
    /\ crew \in {{CHOOSE w \in OrderWorker : TRUE}, OrderWorker}
    /\ scenario # "orders" => crew = OrderWorker

Serial == \A v, w \in crew : v = w

\* The extraction of a scenario.
Extracts(k) ==
    \/ scenario = "flat" /\ \E list \in Lists : FlatBegin(k, list)
    \/ \E c \in Catalogs : /\ scenario = (IF \A i \in c.items : i.options = {}
                                          THEN "items" ELSE "options")
                           /\ CatalogBegin(k, c)

\* The administrator's requests of a scenario.
Asks(w) ==
    \/ \E s \in Service : \/ scenario = "flat" /\ HandlerBegin(w, s)
                          \/ scenario = "options" /\ ApproveBegin(w, s)
                          \/ /\ scenario = "items" /\ \A v \in Worker : handler[v] = Idle
                             /\ ApproveBegin(w, s)
                          \/ ServiceEdit(s)
    \/ scenario = "flat" /\ \E s \in Service : CreateService(s, NameA)
    \/ scenario # "flat" /\ \E i \in Item : ItemEdit(i)
    \/ scenario = "items" /\ Stage("idle")      \* "flat" enters rows at any time
       /\ \E s \in Service, i \in Item : CreateItem(i, s, NameB)
    \/ scenario = "options" /\ \E o \in Option : \/ OptionEdit(o)
                                                 \/ \E i \in Item : CreateOption(o, i, NameB)

\* Bounds: where there is a catalogue its service keeps its name and price, and a
\* request that renames an item (or an option, where there is one) does only that.
CatalogKept ==
    \A r \in Id : Live(r) /\ row'[r].life = "live" =>
        \/ scenario = "flat"
        \/ r \in Service /\ row'[r].name = row[r].name /\ row'[r].price = row[r].price
        \/ r \notin Service /\ row'[r].name = row[r].name
        \/ /\ r \in (IF scenario = "items" THEN Item ELSE Option)
           /\ row'[r] = [row[r] EXCEPT !.name = row'[r].name]

Cataloguing ==
    \/ /\ ExtractionStep
       /\ UNCHANGED <<extractions, requests>>
    \/ /\ \E w \in Worker : HandlerStep(w)
       /\ CatalogKept
       /\ UNCHANGED <<extractions, requests>>
    \/ /\ extractions < MaxExtractions /\ extractions' = extractions + 1
       /\ \E k \in Source : Extracts(k)
       /\ UNCHANGED requests
    \/ /\ requests < MaxRequests /\ requests' = requests + 1
       /\ \E w \in Worker : Asks(w)
       /\ CatalogKept
       /\ UNCHANGED extractions
    \/ /\ Stage("idle") /\ \A w \in Worker : handler[w] = Idle
       /\ UNCHANGED <<vars, extractions, requests>>

\* The first free identity is handed out.
Ordering ==
    /\ \/ \E w \in crew : OrderStep(w)
       \/ ~Serial /\ \E w \in OrderWorker : RequestFails(w)
    /\ \A o \in Order : status'[o] # "absent" => \A n \in 1 .. o - 1 : status[n] # "absent"
    /\ UNCHANGED <<extractions, requests>>

MCNext ==
    /\ \/ scenario = "orders" /\ Ordering /\ UNCHANGED vars
       \/ scenario # "orders" /\ Cataloguing /\ UNCHANGED orderVars
    /\ UNCHANGED <<scenario, crew>>

MCSpec == MCInit /\ [][MCNext]_mcVars

MCSymmetry == Permutations(Service) \cup Permutations(Item) \cup Permutations(Option)
              \cup Permutations(Price) \cup Permutations(Worker)

-----------------------------------------------------------------------------
\* Both modules keep their types.
TypesOK == TypeOK /\ OrderTypeOK

\* order_repo.py:341 "2. decrement the stock when all products are available":
\* requests handled one at a time take all lines of an order or nothing.
SerialTakesAllOrNothing == Serial => TakesAllOrNothing

\* Handled one at a time, a confirmation changes requested orders only, and a
\* cancelled or delivered order never changes again.
SerialStatusChanges == [][Serial => StatusChanges]_orderVars
=============================================================================
