---------------------------- MODULE LocalOrders ----------------------------
(***************************************************************************)
(* The order path of the monolith: OrderService (src/app/service/          *)
(* order_service.h) on LocalInventoryClient and the MySQL repositories,    *)
(* run by the worker threads of the server.  Nothing but MySQL's single    *)
(* statements and the order-insertion transaction is atomic: a worker      *)
(* reserves, rolls back and releases item by item, and between any two of  *)
(* its statements the other workers run theirs.                            *)
(*                                                                         *)
(* A repository call may fail, and a statement whose answer is lost may    *)
(* have been carried out (faults); the process may die (crash), losing     *)
(* what its workers were about to do but not what MySQL has committed.     *)
(* Prices, totals and users play no part in the stock and are left out; a  *)
(* request that fails validation or a book lookup ends before it changes   *)
(* anything and is not shown.                                              *)
(***************************************************************************)
EXTENDS Naturals, Sequences, FiniteSets

CONSTANTS Workers,      \* threads that serve requests
          Books,
          MaxQuantity,  \* bound on the quantity of one item
          MaxItems,     \* bound on the items of one order
          MaxOrders,    \* bound on the orders inserted
          MaxStock,     \* bound on the units of a book ever put into stock
          MaxFaults,    \* bound on the failed statements
          MaxCrashes    \* bound on the process deaths

ASSUME LocalAssumption == /\ IsFiniteSet(Workers)
                          /\ {MaxQuantity, MaxItems, MaxOrders} \subseteq Nat \ {0}
                          /\ {MaxStock, MaxFaults, MaxCrashes} \subseteq Nat

VARIABLES available,    \* inventory.available, per book
          orders,       \* rows of orders with their order_items, by id
          pc,           \* what the worker does next
          items,        \* the items the worker's loop runs over
          next,         \* index of the loop
          order,        \* id of the order being cancelled
          owns,         \* history: are the worker's reserved units its own?
          stocked,      \* history: units of a book put into stock so far
          excess,       \* history: units released by workers that did not own them
          faults, crashes

dbVars == <<available, orders>>
workerVars == <<pc, items, next, order, owns>>
historyVars == <<stocked, excess, faults, crashes>>
vars == <<dbVars, workerVars, historyVars>>

Item == [book : Books, quantity : 1 .. MaxQuantity]
ItemLists == UNION {[1 .. n -> Item] : n \in 1 .. MaxItems}
OrderIds == 1 .. MaxOrders

Init == /\ stocked \in [Books -> 0 .. MaxStock]
        /\ available = stocked
        /\ orders = << >>
        /\ pc = [w \in Workers |-> "idle"]
        /\ items = [w \in Workers |-> << >>]
        /\ next = [w \in Workers |-> 1]
        /\ order = [w \in Workers |-> 1]
        /\ owns = [w \in Workers |-> TRUE]
        /\ excess = [b \in Books |-> 0]
        /\ faults = 0
        /\ crashes = 0

Fault == faults < MaxFaults /\ faults' = faults + 1

(* The request of worker w is answered. *)
Answer(w) == /\ pc' = [pc EXCEPT ![w] = "idle"]
             /\ items' = [items EXCEPT ![w] = << >>]
             /\ next' = [next EXCEPT ![w] = 1]
             /\ order' = [order EXCEPT ![w] = 1]
             /\ owns' = [owns EXCEPT ![w] = TRUE]

(* Worker w enters a loop of release_stock calls over list. *)
GiveBack(w, list, mine) == /\ pc' = [pc EXCEPT ![w] = "give"]
                           /\ items' = [items EXCEPT ![w] = list]
                           /\ next' = [next EXCEPT ![w] = 1]
                           /\ owns' = [owns EXCEPT ![w] = mine]
                           /\ UNCHANGED order

-----------------------------------------------------------------------------
(* OrderService::create_order *)

(* The request is valid and every book was found. *)
CreateOrder(w, request) ==
  /\ pc[w] = "idle"
  /\ Len(orders) + Cardinality({v \in Workers : pc[v] \in {"reserve", "insert"}}) < MaxOrders
  /\ pc' = [pc EXCEPT ![w] = "reserve"]
  /\ items' = [items EXCEPT ![w] = request]
  /\ UNCHANGED <<next, order, owns, dbVars, historyVars>>

Current(w) == items[w][next[w]]

(* Seeded fault: any stock at all is taken to be enough. *)
SomeInStock(it) == available[it.book] > 0

(* UPDATE inventory ... WHERE available >= quantity changes a row. *)
InStock(it) == available[it.book] >= it.quantity

TakeUnits(it) == available' = [available EXCEPT ![it.book] = @ - it.quantity]

(* Seeded fault: the rollback includes the item that was not reserved. *)
RollBackOneMore(w) == GiveBack(w, SubSeq(items[w], 1, next[w]), TRUE)

(* Seeded fault: the items reserved so far are forgotten. *)
NoRollBack(w) == Answer(w)

(* LocalInventoryClient::reserve_stock: the items are reserved one after   *)
(* the other; the first one that cannot be starts the rollback of the ones *)
(* before it.                                                              *)
RollBackReserved(w) ==
  IF next[w] = 1 THEN Answer(w) ELSE GiveBack(w, SubSeq(items[w], 1, next[w] - 1), TRUE)

ReserveItem(w) ==
  /\ pc[w] = "reserve"
  /\ InStock(Current(w))
  /\ TakeUnits(Current(w))
  /\ next' = [next EXCEPT ![w] = @ + 1]
  /\ pc' = [pc EXCEPT ![w] = IF next[w] = Len(items[w]) THEN "insert" ELSE "reserve"]
  /\ UNCHANGED <<orders, items, order, owns, historyVars>>

ReserveRefused(w) ==
  /\ pc[w] = "reserve"
  /\ ~ InStock(Current(w))
  /\ RollBackReserved(w)
  /\ UNCHANGED <<dbVars, historyVars>>

(* The UPDATE fails, or only its answer is lost. *)
ReserveFails(w) ==
  /\ pc[w] = "reserve"
  /\ Fault
  /\ RollBackReserved(w)
  /\ \/ UNCHANGED available
     \/ InStock(Current(w)) /\ TakeUnits(Current(w))
  /\ UNCHANGED <<orders, stocked, excess, crashes>>

NewOrder(list) == Append(orders, [items |-> list, status |-> "created"])

(* MysqlOrderRepository::create_order, one transaction. *)
InsertOrder(w) ==
  /\ pc[w] = "insert"
  /\ orders' = NewOrder(items[w])
  /\ Answer(w)
  /\ UNCHANGED <<available, historyVars>>

(* The insertion is reported as failed: the reserved items are released.   *)
(* When only the answer to COMMIT was lost the order exists all the same.  *)
InsertFails(w) ==
  /\ pc[w] = "insert"
  /\ Fault
  /\ \/ GiveBack(w, items[w], TRUE) /\ UNCHANGED orders
     \/ GiveBack(w, items[w], FALSE) /\ orders' = NewOrder(items[w])
  /\ UNCHANGED <<available, stocked, excess, crashes>>

(* One call of MysqlInventoryRepository::release_stock(book, quantity) in  *)
(* one of the three loops that release items; a failure goes unnoticed.    *)
AfterGive(w) ==
  IF next[w] = Len(items[w])
    THEN Answer(w)
    ELSE next' = [next EXCEPT ![w] = @ + 1] /\ UNCHANGED <<pc, items, order, owns>>

ReleaseItem(w) ==
  LET it == Current(w) IN
  /\ pc[w] = "give"
  /\ available' = [available EXCEPT ![it.book] = @ + it.quantity]
  /\ excess' = IF owns[w] THEN excess ELSE [excess EXCEPT ![it.book] = @ + it.quantity]
  /\ AfterGive(w)
  /\ UNCHANGED <<orders, stocked, faults, crashes>>

ReleaseFails(w) ==
  /\ pc[w] = "give"
  /\ Fault
  /\ AfterGive(w)
  /\ UNCHANGED <<dbVars, stocked, excess, crashes>>

-----------------------------------------------------------------------------
(* OrderService::cancel_order *)

(* find_order: the order exists and its status is not "cancelled".         *)
CancelFind(w, o) ==
  /\ pc[w] = "idle"
  /\ o \in DOMAIN orders
  /\ orders[o].status # "cancelled"
  /\ pc' = [pc EXCEPT ![w] = "cancel"]
  /\ order' = [order EXCEPT ![w] = o]
  /\ UNCHANGED <<items, next, owns, dbVars, historyVars>>

(* The order is cancelled already: it is returned and nothing changes. *)
CancelAgain(w, o) ==
  /\ pc[w] = "idle"
  /\ o \in DOMAIN orders
  /\ orders[o].status = "cancelled"
  /\ UNCHANGED vars

MarkCancelled(o) == orders' = [orders EXCEPT ![o].status = "cancelled"]

(* UPDATE orders SET status='cancelled' ... AND status<>'cancelled'.  The  *)
(* repository does not look at the number of rows the statement changed,   *)
(* so a worker that changed none goes on like the one that did.            *)
CancelUpdate(w) ==
  /\ pc[w] = "cancel"
  /\ MarkCancelled(order[w])
  /\ owns' = [owns EXCEPT ![w] = orders[order[w]].status # "cancelled"]
  /\ pc' = [pc EXCEPT ![w] = "reread"]
  /\ UNCHANGED <<available, items, next, order, historyVars>>

CancelUpdateFails(w) ==
  /\ pc[w] = "cancel"
  /\ Fault
  /\ MarkCancelled(order[w]) \/ UNCHANGED orders
  /\ Answer(w)
  /\ UNCHANGED <<available, stocked, excess, crashes>>

(* find_order again, for the items to release. *)
CancelReread(w) ==
  /\ pc[w] = "reread"
  /\ GiveBack(w, orders[order[w]].items, owns[w])
  /\ UNCHANGED <<dbVars, historyVars>>

(* find_order fails, or its query for the items does and yields no items. *)
CancelRereadFails(w) ==
  /\ pc[w] = "reread"
  /\ Fault
  /\ Answer(w)
  /\ UNCHANGED <<dbVars, stocked, excess, crashes>>

-----------------------------------------------------------------------------

(* POST /api/inventory/books/{id}/inbound: MysqlInventoryRepository::      *)
(* add_stock, one transaction.                                             *)
AddStock(b, q) ==
  /\ stocked[b] + q <= MaxStock
  /\ available' = [available EXCEPT ![b] = @ + q]
  /\ stocked' = [stocked EXCEPT ![b] = @ + q]
  /\ UNCHANGED <<orders, workerVars, excess, faults, crashes>>

(* The process dies and is started again. *)
Crash ==
  /\ crashes < MaxCrashes
  /\ crashes' = crashes + 1
  /\ pc' = [w \in Workers |-> "idle"]
  /\ items' = [w \in Workers |-> << >>]
  /\ next' = [w \in Workers |-> 1]
  /\ order' = [w \in Workers |-> 1]
  /\ owns' = [w \in Workers |-> TRUE]
  /\ UNCHANGED <<dbVars, stocked, excess, faults>>

(* find_order, list_orders and available_stock only read. *)
ReadOnly(w) == pc[w] = "idle" /\ UNCHANGED vars

WorkerStep(w) ==
  \/ ReserveItem(w) \/ ReserveRefused(w) \/ ReserveFails(w)
  \/ InsertOrder(w) \/ InsertFails(w)
  \/ ReleaseItem(w) \/ ReleaseFails(w)
  \/ CancelUpdate(w) \/ CancelUpdateFails(w)
  \/ CancelReread(w) \/ CancelRereadFails(w)

Next == \/ \E w \in Workers :
             \/ \E request \in ItemLists : CreateOrder(w, request)
             \/ \E o \in OrderIds : CancelFind(w, o) \/ CancelAgain(w, o)
             \/ ReadOnly(w)
             \/ WorkerStep(w)
        \/ \E b \in Books, q \in 1 .. MaxQuantity : AddStock(b, q)
        \/ Crash

Spec == Init /\ [][Next]_vars

-----------------------------------------------------------------------------

OrderRows == [items : Seq(Item), status : {"created", "cancelled"}]

(* Every variable has its type; inventory.available, an unsigned column,   *)
(* is never driven below zero.                                             *)
TypeOK == /\ available \in [Books -> Nat]
          /\ orders \in Seq(OrderRows) /\ Len(orders) <= MaxOrders
          /\ pc \in [Workers -> {"idle", "reserve", "insert", "give", "cancel", "reread"}]
          /\ items \in [Workers -> Seq(Item)]
          /\ next \in [Workers -> Nat \ {0}]
          /\ order \in [Workers -> OrderIds]
          /\ owns \in [Workers -> BOOLEAN]
          /\ stocked \in [Books -> Nat]
          /\ excess \in [Books -> Nat]
          /\ faults \in 0 .. MaxFaults
          /\ crashes \in 0 .. MaxCrashes

Slots == (1 .. MaxItems) \X (1 .. MaxQuantity)

(* The units of book b sold in orders that are not cancelled. *)
SoldUnits(b) ==
  {u \in OrderIds \X Slots :
     /\ u[1] \in DOMAIN orders /\ orders[u[1]].status = "created"
     /\ u[2][1] \in DOMAIN orders[u[1]].items
     /\ orders[u[1]].items[u[2][1]].book = b
     /\ u[2][2] <= orders[u[1]].items[u[2][1]].quantity}

(* Worker w has the units of its i-th item: taken out of the stock or of a *)
(* cancelled order, and neither sold nor put back yet.                     *)
Holds(w, i) ==
  /\ owns[w]
  /\ \/ pc[w] = "reserve" /\ i < next[w]
     \/ pc[w] \in {"insert", "reread"}
     \/ pc[w] = "give" /\ i >= next[w]

(* From the UPDATE on, the items of a cancelled order are in the hands of  *)
(* the worker that cancelled it.                                           *)
ItemsOf(w) == IF pc[w] = "reread" THEN orders[order[w]].items ELSE items[w]

(* The units of book b that workers hold. *)
WorkerUnits(b) ==
  {u \in Workers \X Slots :
     /\ u[2][1] \in DOMAIN ItemsOf(u[1])
     /\ Holds(u[1], u[2][1])
     /\ ItemsOf(u[1])[u[2][1]].book = b
     /\ u[2][2] <= ItemsOf(u[1])[u[2][1]].quantity}

Accounted(b) == available[b] + Cardinality(SoldUnits(b)) + Cardinality(WorkerUnits(b))

(* No stock is invented: what is available, sold or in a worker's hands    *)
(* never exceeds what was put into stock, but for the units released by a  *)
(* worker that did not own them (a second cancel of the same order that    *)
(* overlaps the first, or an order whose COMMIT was taken to have failed). *)
NoStockInvented == \A b \in Books : Accounted(b) <= stocked[b] + excess[b]

(* No stock is lost either unless a statement failed or the process died:  *)
(* every rejected, rolled back or cancelled request puts everything back.  *)
NoStockLost ==
  faults = 0 /\ crashes = 0 => \A b \in Books : Accounted(b) = stocked[b] + excess[b]

(* ecommerce_api.md: "Repeating the cancel request returns the cancelled   *)
(* order without releasing stock again."  As long as no statement fails,   *)
(* nobody releases units a second time.                                    *)
CancelReleasesOnce == faults = 0 => \A b \in Books : excess[b] = 0
=============================================================================
