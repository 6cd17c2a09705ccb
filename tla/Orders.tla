------------------------------- MODULE Orders -------------------------------
(***************************************************************************)
(* Product orders and the stock they take: order_repo.py with              *)
(* check_product_stock and decrease_product_stock of product_repo.py, as   *)
(* the endpoints of app/api/orders.py and the chat functions call them.    *)
(* Every request on a table is a step; no transaction joins two of them.   *)
(* delivery_status, which no guard reads, is left out.                     *)
(***************************************************************************)
EXTENDS Integers, Sequences, FiniteSetsExt

CONSTANTS
    OrderWorker,    \* requests handled at the same time
    Order, Product,
    NoOrder,
    Cart,           \* what a customer may order: non-empty sequences of lines
    InitialStock    \* [Product -> Nat]: products.stock_quantity

ASSUME OrderAssumption == NoOrder \notin Order /\ IsFiniteSet(Order)
ASSUME StockAssumption == InitialStock \in [Product -> Nat]
ASSUME CartAssumption ==
    \A c \in Cart : c # <<>> /\ c \in Seq([product : Product, quantity : Nat \ {0}])

VARIABLES
    status,         \* orders.order_status, "absent" before the insert
    items,          \* order_items of each order
    stock,          \* products.stock_quantity
    request,        \* what each worker is doing
    taken,          \* history: units each order took of each product
    torn            \* history: products whose stock was overwritten from a stale read

orderVars == <<status, items, stock, request, taken, torn>>

NoRequest == [op |-> "idle", stage |-> "idle", order |-> NoOrder, cart |-> <<>>,
         line |-> 1, seen |-> 0]

OrderInit ==
    /\ status = [o \in Order |-> "absent"]
    /\ items = [o \in Order |-> <<>>]
    /\ stock = InitialStock
    /\ request = [w \in OrderWorker |-> NoRequest]
    /\ taken = [o \in Order |-> [p \in Product |-> 0]]
    /\ torn = {}

RequestAt(w, op, stage) == request[w].op = op /\ request[w].stage = stage
RequestGoto(w, stage, line) ==
    request' = [request EXCEPT ![w].stage = stage, ![w].line = line]
RequestDone(w) == request' = [request EXCEPT ![w] = NoRequest]

\* check_product_stock
Available(line) == stock[line.product] >= line.quantity

\* The line a creation or a confirmation is at.
Line(w) == request[w].cart[request[w].line]
LastLine(w) == request[w].line = Len(request[w].cart)

-----------------------------------------------------------------------------
(* create_order *)

CreateBegin(w, c) ==
    /\ request[w] = NoRequest
    /\ \E o \in Order : status[o] = "absent"      \* bound on the orders
    /\ request' = [request EXCEPT ![w] = [NoRequest EXCEPT !.op = "create",
                                            !.stage = "prepare", !.cart = c]]
    /\ UNCHANGED <<status, items, stock, taken, torn>>

\* _prepare_order_items looks at each line by itself.
CreatePrepare(w) ==
    /\ RequestAt(w, "create", "prepare")
    /\ IF ~Available(Line(w)) THEN RequestDone(w)
       ELSE IF LastLine(w) THEN RequestGoto(w, "order", 1)
       ELSE RequestGoto(w, "prepare", request[w].line + 1)
    /\ UNCHANGED <<status, items, stock, taken, torn>>

CreateInsertOrder(w, o) ==
    /\ RequestAt(w, "create", "order") /\ status[o] = "absent"
    /\ status' = [status EXCEPT ![o] = "requested"]
    /\ request' = [request EXCEPT ![w].stage = "items", ![w].order = o]
    /\ UNCHANGED <<items, stock, taken, torn>>

CreateInsertItems(w) ==
    /\ RequestAt(w, "create", "items")
    /\ items' = [items EXCEPT ![request[w].order] = request[w].cart]
    /\ RequestDone(w)
    /\ UNCHANGED <<status, stock, taken, torn>>

-----------------------------------------------------------------------------
(* confirm_order *)

\* Variant: a cancelled order may be confirmed again.
ConfirmReadCancelled(w, o) ==
    /\ request[w] = NoRequest
    /\ status[o] \in {"requested", "cancelled"} /\ items[o] # <<>>
    /\ request' = [request EXCEPT ![w] = [NoRequest EXCEPT !.op = "confirm", !.order = o,
                                            !.stage = "check", !.cart = items[o]]]
    /\ UNCHANGED <<status, items, stock, taken, torn>>

\* A confirmed order is returned as it is; one whose items were not inserted
\* is refused.
ConfirmRead(w, o) ==
    /\ request[w] = NoRequest
    /\ status[o] = "requested" /\ items[o] # <<>>
    /\ request' = [request EXCEPT ![w] = [NoRequest EXCEPT !.op = "confirm", !.order = o,
                                            !.stage = "check", !.cart = items[o]]]
    /\ UNCHANGED <<status, items, stock, taken, torn>>

ConfirmCheck(w) ==
    /\ RequestAt(w, "confirm", "check")
    /\ IF ~Available(Line(w)) THEN RequestDone(w)
       ELSE IF LastLine(w) THEN RequestGoto(w, "read", 1)
       ELSE RequestGoto(w, "check", request[w].line + 1)
    /\ UNCHANGED <<status, items, stock, taken, torn>>

\* Variant: decrease_product_stock trusts the check made before.
TakeReadUnchecked(w) ==
    /\ RequestAt(w, "confirm", "read")
    /\ request' = [request EXCEPT ![w].stage = "take", ![w].seen = stock[Line(w).product]]
    /\ UNCHANGED <<status, items, stock, taken, torn>>

\* Variant: it refuses the last units, which the check before lets pass.
TakeReadStrict(w) ==
    /\ RequestAt(w, "confirm", "read")
    /\ IF stock[Line(w).product] > Line(w).quantity
       THEN request' = [request EXCEPT ![w].stage = "take",
                                       ![w].seen = stock[Line(w).product]]
       ELSE RequestDone(w)
    /\ UNCHANGED <<status, items, stock, taken, torn>>

\* decrease_product_stock reads the stock, checks it again ...
ConfirmTakeRead(w) ==
    /\ RequestAt(w, "confirm", "read")
    /\ IF Available(Line(w))
       THEN request' = [request EXCEPT ![w].stage = "take",
                                       ![w].seen = stock[Line(w).product]]
       ELSE RequestDone(w)
    /\ UNCHANGED <<status, items, stock, taken, torn>>

\* Variant: the stock is decremented by one for each line.
TakeWriteOne(w) ==
    /\ RequestAt(w, "confirm", "take")
    /\ LET p == Line(w).product IN
         /\ stock' = [stock EXCEPT ![p] = request[w].seen - 1]
         /\ taken' = [taken EXCEPT ![request[w].order][p] = @ + Line(w).quantity]
    /\ IF LastLine(w) THEN RequestGoto(w, "write", 1) ELSE RequestGoto(w, "read", request[w].line + 1)
    /\ UNCHANGED <<status, items, torn>>

\* ... and writes the difference.
ConfirmTakeWrite(w) ==
    /\ RequestAt(w, "confirm", "take")
    /\ LET p == Line(w).product IN
         /\ stock' = [stock EXCEPT ![p] = request[w].seen - Line(w).quantity]
         /\ taken' = [taken EXCEPT ![request[w].order][p] = @ + Line(w).quantity]
         /\ torn' = IF stock[p] # request[w].seen THEN torn \cup {p} ELSE torn
    /\ IF LastLine(w) THEN RequestGoto(w, "write", 1) ELSE RequestGoto(w, "read", request[w].line + 1)
    /\ UNCHANGED <<status, items>>

-----------------------------------------------------------------------------
(* The update that ends confirm_order, cancel_order, mark_order_shipped and *)
(* mark_order_delivered names the order only, not the status it was read in.*)

\* The statuses a handler accepts, and the one it leaves.
Accepts == [cancel |-> {"requested", "confirmed", "shipped"},
            ship |-> {"confirmed", "shipped"}, deliver |-> {"shipped"}]
Leaves == [confirm |-> "confirmed", cancel |-> "cancelled", ship |-> "shipped",
           deliver |-> "delivered"]

StatusRead(w, op, o) ==
    /\ request[w] = NoRequest
    /\ status[o] # "absent"
    /\ IF status[o] \in Accepts[op]
       THEN request' = [request EXCEPT ![w] = [NoRequest EXCEPT !.op = op, !.order = o,
                                                 !.stage = "write"]]
       ELSE UNCHANGED request      \* OrderStatusError
    /\ UNCHANGED <<status, items, stock, taken, torn>>

StatusWrite(w) ==
    /\ request[w].stage = "write"
    /\ status' = [status EXCEPT ![request[w].order] = Leaves[request[w].op]]
    /\ RequestDone(w)
    /\ UNCHANGED <<items, stock, taken, torn>>

\* Any request may raise, and what was written stays written.
RequestFails(w) ==
    /\ request[w] # NoRequest
    /\ RequestDone(w)
    /\ UNCHANGED <<status, items, stock, taken, torn>>

-----------------------------------------------------------------------------
OrderStep(w) ==
    \/ \E c \in Cart : CreateBegin(w, c)
    \/ \E o \in Order : CreateInsertOrder(w, o) \/ ConfirmRead(w, o)
    \/ \E o \in Order, op \in {"cancel", "ship", "deliver"} : StatusRead(w, op, o)
    \/ CreatePrepare(w) \/ CreateInsertItems(w)
    \/ ConfirmCheck(w) \/ ConfirmTakeRead(w) \/ ConfirmTakeWrite(w)
    \/ StatusWrite(w)

OrderNext == \E w \in OrderWorker : OrderStep(w) \/ RequestFails(w)

OrderSpec == OrderInit /\ [][OrderNext]_orderVars

-----------------------------------------------------------------------------
(* Properties *)

Status == {"absent", "requested", "confirmed", "shipped", "delivered", "cancelled"}
OrderStage == {"idle", "prepare", "order", "items", "check", "read", "take", "write"}

OrderTypeOK ==
    /\ status \in [Order -> Status]
    /\ items \in [Order -> Cart \cup {<<>>}]
    /\ stock \in [Product -> Int]
    /\ request \in [OrderWorker -> [op : {"idle", "create", "confirm", "cancel", "ship", "deliver"},
                               stage : OrderStage, order : Order \cup {NoOrder},
                               cart : Cart \cup {<<>>}, line : Nat \ {0}, seen : Int]]
    /\ taken \in [Order -> [Product -> Nat]]
    /\ torn \subseteq Product

\* Units of p in the lines of a cart.
Units(c, p) ==
    SumFunctionOnSet([i \in DOMAIN c |-> c[i].quantity], {i \in DOMAIN c : c[i].product = p})

TakenOf(p) == SumFunctionOnSet([o \in Order |-> taken[o][p]], Order)

\* No product is ever booked below zero, under any interleaving: each decrement
\* checks the very stock it subtracts from.
StockNeverNegative == \A p \in Product : stock[p] >= 0

\* An order is confirmed, shipped or delivered only after every line of it was
\* taken from the stock.
ConfirmedTook ==
    \A o \in Order : status[o] \in {"confirmed", "shipped", "delivered"} =>
        \A p \in Product : taken[o][p] >= Units(items[o], p)

\* What left the stock is what the orders took, all of it when they are
\* confirmed.  Two confirmations that interleave on a product can lose a
\* decrement; nothing else can.
StockAccounted ==
    /\ \A p \in Product \ torn : stock[p] + TakenOf(p) = InitialStock[p]
    /\ ConfirmedTook

\* order_repo.py:341 "2. decrement the stock when all products are available":
\* an order that nobody is confirming took either all of its lines or, when it
\* is still requested, nothing.
TakesAllOrNothing ==
    \A o \in Order :
        (\A w \in OrderWorker : request[w].op = "confirm" => request[w].order # o) =>
            \A p \in Product :
                /\ taken[o][p] \in {0, Units(items[o], p)}
                /\ status[o] = "requested" => taken[o][p] = 0

\* app/api/orders.py:265 "requested -> confirmed" and the status checks of
\* cancel_order, mark_order_shipped and mark_order_delivered: a confirmation
\* changes requested orders only, and a cancelled or delivered order never
\* changes again.
StatusChanges ==
    \A o \in Order :
        /\ status'[o] = "confirmed" => status[o] \in {"requested", "confirmed"}
        /\ status[o] \in {"cancelled", "delivered"} => status'[o] = status[o]
=============================================================================
