---------------------------- MODULE SplitOrders ----------------------------
(***************************************************************************)
(* The order path of the split deployment: order_grpc_server runs          *)
(* OrderService (src/app/service/order_service.h) on GrpcInventoryClient,  *)
(* which calls inventory_grpc_server; both keep their tables in MySQL.     *)
(* The inventory service is the ReservationLedger; this module adds the    *)
(* order service's threads, its orders table and the RPCs between them.    *)
(*                                                                         *)
(* An RPC may fail before the server ran it, or be carried out and its     *)
(* answer lost; a COMMIT of the orders table likewise (faults).  The order *)
(* service may die and start again (Restart): its threads and the two      *)
(* counters that reservation ids come from are process memory.             *)
(***************************************************************************)
EXTENDS ReservationLedger, Sequences

CONSTANTS Workers,      \* threads of the order service
          Users,
          Gateway,      \* prefix of the ids GrpcInventoryClient makes up
          MaxIds,       \* bound on the ids a process hands out
          MaxOrders,    \* bound on the orders inserted
          MaxFaults,    \* bound on the lost calls and answers
          MaxRestarts   \* bound on the restarts of the order service

(* A reservation id is "order-<user>-<n>" or "gateway-<n>". *)
ASSUME SplitAssumption ==
  /\ IsFiniteSet(Workers) /\ IsFiniteSet(Books)
  /\ Gateway \notin Users
  /\ Ids = (Users \cup {Gateway}) \X (1 .. MaxIds)
  /\ {MaxIds, MaxOrders} \subseteq Nat \ {0}
  /\ {MaxFaults, MaxRestarts} \subseteq Nat

VARIABLES orders,       \* rows of orders with their order_items, by id; the
                        \*   fields rid and sure are history
          pc,           \* what the worker does next
          rid,          \* reservation id of the request being served
          demand,       \* items of the request being served
          order,        \* id of the order being cancelled
          todo,         \* books of that order still to be released
          nextId,       \* OrderService::next_reservation_id's counter
          gatewayId,    \* GrpcInventoryClient's next_id_
          late,         \* calls under way when their process died
          rpcLost,      \* history: a call or its answer has been lost
          faults, restarts

envVars == <<late, rpcLost, faults, restarts>>
orderVars == <<orders, pc, rid, demand, order, todo, nextId, gatewayId, envVars>>
vars == <<ledgerVars, orderVars>>

OrderIds == 1 .. MaxOrders
AnyId == CHOOSE r \in Ids : TRUE

Init == /\ LedgerInit
        /\ pc = [w \in Workers |-> "idle"]
        /\ rid = [w \in Workers |-> AnyId]
        /\ demand = [w \in Workers |-> NoItems]
        /\ order = [w \in Workers |-> 1]
        /\ todo = [w \in Workers |-> {}]
        /\ orders = << >>
        /\ nextId = 1
        /\ gatewayId = 1
        /\ late = {}
        /\ rpcLost = FALSE
        /\ faults = 0
        /\ restarts = 0

Fault == faults < MaxFaults /\ faults' = faults + 1

RpcFault == Fault /\ rpcLost' = TRUE

Answer(w) == /\ pc' = [pc EXCEPT ![w] = "idle"]
             /\ rid' = [rid EXCEPT ![w] = AnyId]
             /\ demand' = [demand EXCEPT ![w] = NoItems]
             /\ order' = [order EXCEPT ![w] = 1]
             /\ todo' = [todo EXCEPT ![w] = {}]

(* The worker goes on to the next step of its request. *)
GoTo(w, step) == pc' = [pc EXCEPT ![w] = step] /\ UNCHANGED <<rid, demand, order, todo>>

-----------------------------------------------------------------------------
(* OrderService::create_order *)

Creating == {w \in Workers : pc[w] \in {"reserve", "insert"}}

(* OrderService::next_reservation_id *)
NextReservationId(u) == <<u, nextId>>

(* The request is valid, book-service knows every book, and the process's  *)
(* counter yields the reservation id.                                      *)
CreateOrder(w, u, d) ==
  /\ pc[w] = "idle"
  /\ nextId <= MaxIds
  /\ Len(orders) + Cardinality(Creating) < MaxOrders
  /\ pc' = [pc EXCEPT ![w] = "reserve"]
  /\ rid' = [rid EXCEPT ![w] = NextReservationId(u)]
  /\ demand' = [demand EXCEPT ![w] = d]
  /\ nextId' = nextId + 1
  /\ UNCHANGED <<order, todo, orders, gatewayId, envVars, ledgerVars>>

(* ReserveInventory at the inventory service: a new reservation, or one    *)
(* that exists with status "reserved" whatever items it holds.             *)
Reserved(r, d) == \/ Reserve(r, d)
                  \/ status[r] = "reserved" /\ UNCHANGED ledgerVars

Refused(r, d) == status[r] = "released" \/ (status[r] = "none" /\ ~ Sufficient(d))

ReserveOk(w) ==
  /\ pc[w] = "reserve"
  /\ Reserved(rid[w], demand[w])
  /\ GoTo(w, "insert")
  /\ UNCHANGED <<orders, nextId, gatewayId, envVars>>

ReserveRefused(w) ==
  /\ pc[w] = "reserve"
  /\ Refused(rid[w], demand[w])
  /\ Answer(w)
  /\ UNCHANGED <<orders, nextId, gatewayId, envVars, ledgerVars>>

(* The call or its answer is lost, or the service cannot read the stock it *)
(* wants to report after it has reserved: the client reports failure.      *)
ReserveLost(w) ==
  /\ pc[w] = "reserve"
  /\ RpcFault
  /\ Reserved(rid[w], demand[w]) \/ UNCHANGED ledgerVars
  /\ Answer(w)
  /\ UNCHANGED <<orders, nextId, gatewayId, late, restarts>>

NewOrder(w, known) ==
  Append(orders, [items |-> demand[w], status |-> "created",
                  rid |-> rid[w], sure |-> known])

(* Seeded fault: the reservation is released although the order was inserted. *)
InsertAndRelease(w) ==
  /\ pc[w] = "insert"
  /\ orders' = NewOrder(w, TRUE)
  /\ GoTo(w, "compensate")
  /\ UNCHANGED <<nextId, gatewayId, envVars, ledgerVars>>

(* MysqlOrderRepository::create_order, one transaction. *)
InsertOrder(w) ==
  /\ pc[w] = "insert"
  /\ orders' = NewOrder(w, TRUE)
  /\ Answer(w)
  /\ UNCHANGED <<nextId, gatewayId, envVars, ledgerVars>>

(* Seeded fault: a failed insertion does not release the reservation. *)
InsertFailsOnly(w) ==
  /\ pc[w] = "insert"
  /\ Fault
  /\ UNCHANGED orders
  /\ Answer(w)
  /\ UNCHANGED <<nextId, gatewayId, late, rpcLost, restarts, ledgerVars>>

(* The transaction fails, or only the answer to its COMMIT is lost. *)
InsertFails(w) ==
  /\ pc[w] = "insert"
  /\ Fault
  /\ UNCHANGED orders \/ orders' = NewOrder(w, FALSE)
  /\ GoTo(w, "compensate")
  /\ UNCHANGED <<nextId, gatewayId, late, rpcLost, restarts, ledgerVars>>

(* ReleaseInventory at the inventory service. *)
Released(r) == \/ Release(r)
               \/ status[r] # "reserved" /\ UNCHANGED ledgerVars

Compensate(w) ==
  /\ pc[w] = "compensate"
  /\ Released(rid[w])
  /\ Answer(w)
  /\ UNCHANGED <<orders, nextId, gatewayId, envVars>>

(* The status of the ReleaseInventory call is not looked at. *)
CompensateLost(w) ==
  /\ pc[w] = "compensate"
  /\ RpcFault
  /\ Answer(w)
  /\ UNCHANGED <<orders, nextId, gatewayId, late, restarts, ledgerVars>>

-----------------------------------------------------------------------------
(* OrderService::cancel_order *)

Cancelling == {w \in Workers : pc[w] \in {"cancel", "reread", "release"}}

(* find_order: the order exists and is not cancelled.  The last conjunct   *)
(* bounds the ids that the release loops of all cancels can use up.        *)
CancelFind(w, o) ==
  /\ pc[w] = "idle"
  /\ o \in DOMAIN orders /\ orders[o].status # "cancelled"
  /\ gatewayId + (Cardinality(Cancelling) + 1) * Cardinality(Books) <= MaxIds + 1
  /\ pc' = [pc EXCEPT ![w] = "cancel"]
  /\ order' = [order EXCEPT ![w] = o]
  /\ UNCHANGED <<rid, demand, todo, orders, nextId, gatewayId, envVars, ledgerVars>>

(* The order is cancelled already: it is returned and nothing changes. *)
CancelAgain(w, o) ==
  /\ pc[w] = "idle"
  /\ o \in DOMAIN orders /\ orders[o].status = "cancelled"
  /\ UNCHANGED vars

MarkCancelled(o) == orders' = [orders EXCEPT ![o].status = "cancelled"]

CancelUpdate(w) ==
  /\ pc[w] = "cancel"
  /\ MarkCancelled(order[w])
  /\ GoTo(w, "reread")
  /\ UNCHANGED <<nextId, gatewayId, envVars, ledgerVars>>

CancelUpdateFails(w) ==
  /\ pc[w] = "cancel"
  /\ Fault
  /\ MarkCancelled(order[w]) \/ UNCHANGED orders
  /\ Answer(w)
  /\ UNCHANGED <<nextId, gatewayId, late, rpcLost, restarts, ledgerVars>>

CancelReread(w) ==
  /\ pc[w] = "reread"
  /\ todo' = [todo EXCEPT ![w] = {b \in Books : orders[order[w]].items[b] > 0}]
  /\ pc' = [pc EXCEPT ![w] = "release"]
  /\ UNCHANGED <<rid, demand, order, orders, nextId, gatewayId, envVars, ledgerVars>>

CancelRereadFails(w) ==
  /\ pc[w] = "reread"
  /\ Fault
  /\ Answer(w)
  /\ UNCHANGED <<orders, nextId, gatewayId, late, rpcLost, restarts, ledgerVars>>

(* release_stock(book_id, quantity) of GrpcInventoryClient: a              *)
(* ReleaseInventory call under an id made up for this call.                *)
CancelRelease(w, b) ==
  /\ pc[w] = "release"
  /\ b \in todo[w]
  /\ \/ Released(<<Gateway, gatewayId>>) /\ UNCHANGED <<faults, rpcLost>>
     \/ RpcFault /\ UNCHANGED ledgerVars
  /\ gatewayId' = gatewayId + 1
  /\ IF todo[w] = {b} THEN Answer(w)
                      ELSE /\ todo' = [todo EXCEPT ![w] = @ \ {b}]
                           /\ UNCHANGED <<pc, rid, demand, order>>
  /\ UNCHANGED <<orders, nextId, late, restarts>>

-----------------------------------------------------------------------------

(* The order service dies and is started again. *)
Restart ==
  /\ restarts < MaxRestarts
  /\ restarts' = restarts + 1
  /\ pc' = [w \in Workers |-> "idle"]
  /\ rid' = [w \in Workers |-> AnyId]
  /\ demand' = [w \in Workers |-> NoItems]
  /\ order' = [w \in Workers |-> 1]
  /\ todo' = [w \in Workers |-> {}]
  /\ nextId' = 1
  /\ gatewayId' = 1
  /\ late' = late \cup {[call |-> pc[w], rid |-> rid[w], items |-> demand[w]] :
                          w \in {v \in Workers : pc[v] \in {"reserve", "compensate"}}}
  /\ UNCHANGED <<orders, rpcLost, faults, ledgerVars>>

(* The inventory service gets round to a call whose caller is gone. *)
LateCall(c) ==
  /\ \/ c.call = "reserve" /\ Reserved(c.rid, c.items)
     \/ c.call = "reserve" /\ Refused(c.rid, c.items) /\ UNCHANGED ledgerVars
     \/ c.call = "compensate" /\ Released(c.rid)
  /\ late' = late \ {c}
  /\ UNCHANGED <<orders, pc, rid, demand, order, todo, nextId, gatewayId, faults, rpcLost, restarts>>

(* InboundInventory. *)
AddStock(b, q) == Inbound(b, q) /\ UNCHANGED orderVars

(* find_order, list_orders and available_stock only read. *)
ReadOnly(w) == pc[w] = "idle" /\ UNCHANGED vars

WorkerStep(w) ==
  \/ ReserveOk(w) \/ ReserveRefused(w) \/ ReserveLost(w)
  \/ InsertOrder(w) \/ InsertFails(w)
  \/ Compensate(w) \/ CompensateLost(w)
  \/ CancelUpdate(w) \/ CancelUpdateFails(w)
  \/ CancelReread(w) \/ CancelRereadFails(w)
  \/ \E b \in Books : CancelRelease(w, b)

Next == \/ \E w \in Workers :
             \/ \E u \in Users, d \in Demands : CreateOrder(w, u, d)
             \/ \E o \in OrderIds : CancelFind(w, o) \/ CancelAgain(w, o)
             \/ ReadOnly(w)
             \/ WorkerStep(w)
        \/ \E b \in Books, q \in 1 .. MaxQuantity : AddStock(b, q)
        \/ Restart
        \/ \E c \in late : LateCall(c)

Spec == Init /\ [][Next]_vars

-----------------------------------------------------------------------------

OrderRows == [items : Demands, status : {"created", "cancelled"}, rid : Ids,
              sure : BOOLEAN]

(* Every variable has its type. *)
TypeOK == /\ LedgerTypeOK
          /\ orders \in Seq(OrderRows) /\ Len(orders) <= MaxOrders
          /\ pc \in [Workers -> {"idle", "reserve", "insert", "compensate",
                                 "cancel", "reread", "release"}]
          /\ rid \in [Workers -> Ids]
          /\ demand \in [Workers -> Demands \cup {NoItems}]
          /\ order \in [Workers -> OrderIds]
          /\ todo \in [Workers -> SUBSET Books]
          /\ nextId \in 1 .. MaxIds + 1
          /\ gatewayId \in 1 .. MaxIds + 1
          /\ late \subseteq [call : {"reserve", "compensate"}, rid : Ids, items : Demands]
          /\ rpcLost \in BOOLEAN
          /\ faults \in 0 .. MaxFaults
          /\ restarts \in 0 .. MaxRestarts

(* Within one run of the order service, an order that the service knows to *)
(* be inserted is backed until it is cancelled: its reservation is         *)
(* "reserved", holds the order's items and backs no other order.  No       *)
(* concurrent request, cancel of another order, lost answer or             *)
(* compensation takes it away.                                             *)
OrdersAreBacked ==
  restarts = 0 =>
    \A o \in DOMAIN orders : orders[o].sure /\ orders[o].status = "created" =>
      /\ status[orders[o].rid] = "reserved"
      /\ held[orders[o].rid] = orders[o].items
      /\ \A p \in DOMAIN orders \ {o} : orders[p].rid # orders[o].rid

(* As long as no call or answer is lost and the process lives, no          *)
(* reservation outlives the request that made it unless that request       *)
(* became an order: a rejected create_order leaves nothing reserved, also  *)
(* when the insertion of the order fails.                                  *)
NoOrphanReservation ==
  ~ rpcLost /\ restarts = 0 =>
    \A r \in Ids : status[r] = "reserved" =>
      \/ \E w \in Workers : pc[w] \in {"insert", "compensate"} /\ rid[w] = r
      \/ \E o \in DOMAIN orders : orders[o].rid = r

(* The units of book b sold in orders that are not cancelled. *)
SoldUnits(b) ==
  {u \in OrderIds \X (1 .. MaxQuantity) :
     /\ u[1] \in DOMAIN orders /\ orders[u[1]].status = "created"
     /\ u[2] <= orders[u[1]].items[b]}

(* ecommerce_api.md: "Response `409 Conflict` is returned when stock is    *)
(* insufficient": the store never sells more than was put into stock.      *)
NoOversell == \A b \in Books : Cardinality(SoldUnits(b)) <= stocked[b]

(* ecommerce_api.md: cancelling "releases the reserved item quantities     *)
(* back to inventory": when a cancel has been answered and nothing failed, *)
(* the reservation behind the order is released.                           *)
CancelReleasesStock ==
  faults = 0 /\ restarts = 0 =>
    \A o \in DOMAIN orders :
      orders[o].status = "cancelled" /\ (\A w \in Cancelling : order[w] # o) =>
        status[orders[o].rid] = "released"
=============================================================================
