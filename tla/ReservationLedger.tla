------------------------- MODULE ReservationLedger -------------------------
(***************************************************************************)
(* What the inventory service promises to the callers of its reservation   *)
(* API (ReserveInventory, ReleaseInventory and InboundInventory of         *)
(* src/app/grpc/inventory_grpc_service.cpp, carried out by                 *)
(* MysqlInventoryRepository): every operation is one atomic step on the    *)
(* tables inventory, inventory_reservations and                            *)
(* inventory_reservation_items.  InventoryRepository shows that the        *)
(* repository's statement-by-statement transactions implement this         *)
(* module; SplitOrders composes it with the order service.                 *)
(***************************************************************************)
EXTENDS Naturals, FiniteSets

CONSTANTS Books,        \* rows of the books table; each has an inventory row
          Ids,          \* reservation ids
          MaxQuantity,  \* bound on the quantity of one item
          MaxStock      \* bound on the units of a book ever put into stock

ASSUME LedgerAssumption == /\ IsFiniteSet(Ids)
                           /\ MaxQuantity \in Nat \ {0}
                           /\ MaxStock \in Nat

VARIABLES available,    \* inventory.available, per book
          status,       \* inventory_reservations.status, "none": no such row
          held,         \* inventory_reservation_items.quantity, 0: no such row
          stocked       \* history: units of a book put into stock so far

ledgerVars == <<available, status, held, stocked>>

Statuses == {"none", "reserved", "released"}

(* The items of a request: a quantity for each book, not all of them zero. *)
Demands == {d \in [Books -> 0 .. MaxQuantity] : \E b \in Books : d[b] > 0}

NoItems == [b \in Books |-> 0]

LedgerInit == /\ stocked \in [Books -> 0 .. MaxStock]
              /\ available = stocked
              /\ status = [r \in Ids |-> "none"]
              /\ held = [r \in Ids |-> NoItems]

Sufficient(items) == \A b \in Books : items[b] <= available[b]

(* reserve_stock(reservation_id, items) on an unknown id. *)
Reserve(r, items) ==
  /\ status[r] = "none"
  /\ Sufficient(items)
  /\ available' = [b \in Books |-> available[b] - items[b]]
  /\ status' = [status EXCEPT ![r] = "reserved"]
  /\ held' = [held EXCEPT ![r] = items]
  /\ UNCHANGED stocked

(* release_stock(reservation_id): gives back what the reservation's own    *)
(* rows say, whatever items the caller sends.                              *)
Release(r) ==
  /\ status[r] = "reserved"
  /\ available' = [b \in Books |-> available[b] + held[r][b]]
  /\ status' = [status EXCEPT ![r] = "released"]
  /\ UNCHANGED <<held, stocked>>

(* add_stock(book_id, quantity). *)
Inbound(b, q) ==
  /\ stocked[b] + q <= MaxStock
  /\ available' = [available EXCEPT ![b] = @ + q]
  /\ stocked' = [stocked EXCEPT ![b] = @ + q]
  /\ UNCHANGED <<status, held>>

LedgerNext == \/ \E r \in Ids, d \in Demands : Reserve(r, d)
              \/ \E r \in Ids : Release(r)
              \/ \E b \in Books, q \in 1 .. MaxQuantity : Inbound(b, q)

LedgerSpec == LedgerInit /\ [][LedgerNext]_ledgerVars

-----------------------------------------------------------------------------

(* The tables hold values of their columns' types; in particular the       *)
(* unsigned column inventory.available never goes below zero.              *)
LedgerTypeOK == /\ available \in [Books -> Nat]
                /\ status \in [Ids -> Statuses]
                /\ held \in [Ids -> [Books -> 0 .. MaxQuantity]]
                /\ stocked \in [Books -> Nat]

(* The units of book b that reservations in status "reserved" hold, each   *)
(* one named by its reservation and its number within the item row.        *)
HeldUnits(b) == {u \in Ids \X (1 .. MaxQuantity) :
                   status[u[1]] = "reserved" /\ u[2] <= held[u[1]][b]}

(* Conservation of stock: every unit ever put into stock is either         *)
(* available or held by exactly one reservation that is still reserved, so *)
(* reserve_stock and release_stock neither lose nor invent a unit.         *)
Conservation ==
  \A b \in Books : available[b] + Cardinality(HeldUnits(b)) = stocked[b]

(* A reservation row is final once written: a released reservation is      *)
(* never reserved again, and the items of a reservation never change.      *)
ReservationsAreFinal ==
  [][\A r \in Ids :
       /\ status[r] = "released" => status'[r] = "released"
       /\ status[r] # "none" => status'[r] # "none" /\ held'[r] = held[r]]_ledgerVars
=============================================================================
