------------------------ MODULE InventoryRepository ------------------------
(***************************************************************************)
(* MysqlInventoryRepository::reserve_stock(id, items), release_stock(id)   *)
(* and add_stock of src/app/repository/mysql/mysql_repositories.cpp, one   *)
(* action per SQL statement.  Each call runs on a connection of its own (a *)
(* session).  A transaction's writes stay in its session (delta) until     *)
(* COMMIT publishes them; what keeps two sessions apart are the row locks  *)
(* that the statements take, modelled from how InnoDB serves them:         *)
(*   - SELECT ... FOR UPDATE locks the reservation row, or, when there is  *)
(*     no such row, the gap where it would be.  Sessions share a gap, but  *)
(*     an INSERT into it waits until no other session holds it;            *)
(*   - UPDATE inventory locks the book's row;                              *)
(*   - COMMIT and ROLLBACK free every lock of the session;                 *)
(*   - any statement may fail (deadlock victim, lock wait timeout, lost    *)
(*     connection), and a COMMIT whose answer is lost may have happened.   *)
(***************************************************************************)
EXTENDS ReservationLedger, Sequences

CONSTANTS Sessions, Free, MaxItems

ASSUME RepositoryAssumption == Free \notin Sessions /\ MaxItems \in Nat \ {0}

VARIABLES pc,        \* the statement the session is about to run
          op,        \* "reserve" or "release"
          rid,       \* the reservation id of the call
          items,     \* the items of a reserve call, in the caller's order
          next,      \* index in items of the next one to reserve
          todo,      \* books of the reservation still to give back
          delta,     \* uncommitted change of inventory.available, per book
          resLock,   \* sessions that hold the lock on the reservation row or gap
          rowLock,   \* session that holds the lock on the inventory row
          reply      \* what the last call of the session returned

sessionVars == <<pc, op, rid, items, next, todo, delta, resLock, rowLock, reply>>
vars == <<ledgerVars, sessionVars>>

Item == [book : Books, quantity : 1 .. MaxQuantity]
Requests == UNION {[1 .. n -> Item] : n \in 1 .. MaxItems}

Init == /\ LedgerInit
        /\ pc = [s \in Sessions |-> "idle"]
        /\ op \in [Sessions -> {"reserve"}]
        /\ rid \in [Sessions -> Ids]
        /\ items \in [Sessions -> {<< >>}]
        /\ next = [s \in Sessions |-> 1]
        /\ todo = [s \in Sessions |-> {}]
        /\ delta = [s \in Sessions |-> NoItems]
        /\ resLock = [r \in Ids |-> {}]
        /\ rowLock = [b \in Books |-> Free]
        /\ reply = [s \in Sessions |-> "none"]

(* The session's transaction is over: its locks and its uncommitted work   *)
(* are gone.  Locals are reset so that equal situations are equal states.  *)
EndTx(s, answer) ==
  /\ pc' = [pc EXCEPT ![s] = "idle"]
  /\ reply' = [reply EXCEPT ![s] = answer]
  /\ items' = [items EXCEPT ![s] = << >>]
  /\ next' = [next EXCEPT ![s] = 1]
  /\ todo' = [todo EXCEPT ![s] = {}]
  /\ delta' = [delta EXCEPT ![s] = NoItems]
  /\ resLock' = [r \in Ids |-> resLock[r] \ {s}]
  /\ rowLock' = [b \in Books |-> IF rowLock[b] = s THEN Free ELSE rowLock[b]]
  /\ UNCHANGED <<op, rid>>

EndUnchanged(s, answer) == EndTx(s, answer) /\ UNCHANGED ledgerVars

(* Argument checks passed, START TRANSACTION. *)
BeginReserve(s, r, request) ==
  /\ pc[s] = "idle"
  /\ pc' = [pc EXCEPT ![s] = "find"]
  /\ op' = [op EXCEPT ![s] = "reserve"]
  /\ rid' = [rid EXCEPT ![s] = r]
  /\ items' = [items EXCEPT ![s] = request]
  /\ reply' = [reply EXCEPT ![s] = "none"]
  /\ UNCHANGED <<next, todo, delta, resLock, rowLock, ledgerVars>>

BeginRelease(s, r) ==
  /\ pc[s] = "idle"
  /\ pc' = [pc EXCEPT ![s] = "find"]
  /\ op' = [op EXCEPT ![s] = "release"]
  /\ rid' = [rid EXCEPT ![s] = r]
  /\ reply' = [reply EXCEPT ![s] = "none"]
  /\ UNCHANGED <<items, next, todo, delta, resLock, rowLock, ledgerVars>>

(* Seeded fault: a plain SELECT, which waits for nobody. *)
GrantedAtOnce(s, r) == TRUE

(* The lock SELECT ... FOR UPDATE asks for is granted: nobody holds the    *)
(* row, or there is no row yet and the others only hold the gap.           *)
Grantable(s, r) == \A t \in resLock[r] \ {s} : status[r] = "none" /\ pc[t] = "insert"

FindForUpdate(s) ==
  LET r == rid[s] IN
  /\ pc[s] = "find"
  /\ Grantable(s, r)
  /\ \/ /\ op[s] = "reserve" /\ status[r] = "none"
        /\ pc' = [pc EXCEPT ![s] = "insert"]
        /\ resLock' = [resLock EXCEPT ![r] = @ \cup {s}]
        /\ UNCHANGED <<op, rid, items, next, todo, delta, rowLock, reply, ledgerVars>>
     \/ op[s] = "reserve" /\ status[r] = "reserved" /\ EndUnchanged(s, "ok")
     \/ op[s] = "reserve" /\ status[r] = "released" /\ EndUnchanged(s, "failed")
     \/ op[s] = "release" /\ status[r] # "reserved" /\ EndUnchanged(s, "none")
     \/ /\ op[s] = "release" /\ status[r] = "reserved"
        /\ pc' = [pc EXCEPT ![s] = "read"]
        /\ resLock' = [resLock EXCEPT ![r] = @ \cup {s}]
        /\ UNCHANGED <<op, rid, items, next, todo, delta, rowLock, reply, ledgerVars>>

(* Seeded fault: the INSERT does not wait for the other holders of the gap. *)
InsertAtOnce(s) ==
  /\ pc[s] = "insert"
  /\ pc' = [pc EXCEPT ![s] = "take"]
  /\ UNCHANGED <<op, rid, items, next, todo, delta, resLock, rowLock, reply, ledgerVars>>

(* INSERT INTO inventory_reservations. *)
InsertReservation(s) ==
  /\ pc[s] = "insert"
  /\ resLock[rid[s]] = {s}
  /\ pc' = [pc EXCEPT ![s] = "take"]
  /\ UNCHANGED <<op, rid, items, next, todo, delta, resLock, rowLock, reply, ledgerVars>>

(* Seeded fault: the UPDATE does not wait for the row's lock. *)
RowAlwaysGrantable(s, b) == TRUE

(* The lock of the book's inventory row is free or the session's own. *)
RowGrantable(s, b) == rowLock[b] \in {Free, s}

(* Seeded fault: the UPDATE is not conditional on the stock. *)
CanTakeUnchecked(s, b, q) == delta[s][b] = 0

(* UPDATE inventory ... AND available >= quantity changes a row, and the   *)
(* INSERT of the item row is not refused by the unique key                 *)
(* (reservation_id, book_id), as a second item of the same book would be.  *)
CanTake(s, b, q) == delta[s][b] = 0 /\ available[b] >= q

(* Seeded fault: the loop over the items stops one short. *)
AfterTakeShort(s) == IF next[s] + 1 >= Len(items[s]) THEN "commit" ELSE "take"

AfterTake(s) == IF next[s] = Len(items[s]) THEN "commit" ELSE "take"

(* One turn of the loop over the items. *)
TakeItem(s) ==
  LET b == items[s][next[s]].book
      q == items[s][next[s]].quantity
  IN
  /\ pc[s] = "take"
  /\ RowGrantable(s, b)
  /\ \/ /\ CanTake(s, b, q)
        /\ delta' = [delta EXCEPT ![s][b] = q]
        /\ rowLock' = [rowLock EXCEPT ![b] = s]
        /\ next' = [next EXCEPT ![s] = @ + 1]
        /\ pc' = [pc EXCEPT ![s] = AfterTake(s)]
        /\ UNCHANGED <<op, rid, items, todo, resLock, reply, ledgerVars>>
     \/ ~ CanTake(s, b, q) /\ EndUnchanged(s, "failed")

(* SELECT book_id, quantity of the reservation's items. *)
ReadItems(s) ==
  /\ pc[s] = "read"
  /\ todo' = [todo EXCEPT ![s] = {b \in Books : held[rid[s]][b] > 0}]
  /\ pc' = [pc EXCEPT ![s] = "give"]
  /\ UNCHANGED <<op, rid, items, next, delta, resLock, rowLock, reply, ledgerVars>>

(* UPDATE inventory SET available = available + quantity, per item row. *)
GiveItem(s, b) ==
  /\ pc[s] = "give"
  /\ b \in todo[s]
  /\ RowGrantable(s, b)
  /\ delta' = [delta EXCEPT ![s][b] = held[rid[s]][b]]
  /\ rowLock' = [rowLock EXCEPT ![b] = s]
  /\ todo' = [todo EXCEPT ![s] = @ \ {b}]
  /\ UNCHANGED <<pc, op, rid, items, next, resLock, reply, ledgerVars>>

(* UPDATE inventory_reservations SET status = 'released'. *)
MarkReleased(s) ==
  /\ pc[s] = "give"
  /\ todo[s] = {}
  /\ pc' = [pc EXCEPT ![s] = "commit"]
  /\ UNCHANGED <<op, rid, items, next, todo, delta, resLock, rowLock, reply, ledgerVars>>

PublishReserve(s) ==
  /\ available' = [b \in Books |-> available[b] - delta[s][b]]
  /\ status' = [status EXCEPT ![rid[s]] = "reserved"]
  /\ held' = [held EXCEPT ![rid[s]] = delta[s]]
  /\ UNCHANGED stocked

(* Seeded fault: the reservation is not marked as released. *)
PublishReleaseUnmarked(s) ==
  /\ available' = [b \in Books |-> available[b] + delta[s][b]]
  /\ UNCHANGED <<status, held, stocked>>

PublishRelease(s) ==
  /\ available' = [b \in Books |-> available[b] + delta[s][b]]
  /\ status' = [status EXCEPT ![rid[s]] = "released"]
  /\ UNCHANGED <<held, stocked>>

Publish(s) == \/ op[s] = "reserve" /\ PublishReserve(s)
              \/ op[s] = "release" /\ PublishRelease(s)

(* COMMIT.  Its answer may be lost although the server carried it out; the *)
(* ROLLBACK that follows then undoes nothing and the call reports failure. *)
Commit(s, answer) ==
  /\ pc[s] = "commit"
  /\ Publish(s)
  /\ EndTx(s, IF op[s] = "release" THEN "none" ELSE answer)

(* A statement fails: the session is rolled back, by the code or, when the *)
(* connection is lost, by the server.                                      *)
Fail(s) == pc[s] # "idle" /\ EndUnchanged(s, IF op[s] = "release" THEN "none" ELSE "failed")

(* add_stock: one transaction on one inventory row. *)
InboundStock(b, q) == rowLock[b] = Free /\ Inbound(b, q) /\ UNCHANGED sessionVars

Next ==
  \/ \E s \in Sessions :
       \/ \E r \in Ids, request \in Requests : BeginReserve(s, r, request)
       \/ \E r \in Ids : BeginRelease(s, r)
       \/ FindForUpdate(s)
       \/ InsertReservation(s)
       \/ TakeItem(s)
       \/ ReadItems(s)
       \/ \E b \in Books : GiveItem(s, b)
       \/ MarkReleased(s)
       \/ Commit(s, "ok")
       \/ Commit(s, "failed")
       \/ Fail(s)
  \/ \E b \in Books, q \in 1 .. MaxQuantity : InboundStock(b, q)

Spec == Init /\ [][Next]_vars

-----------------------------------------------------------------------------

States == {"idle", "find", "insert", "take", "read", "give", "commit"}

(* Every variable has its type.                                            *)
TypeOK == /\ LedgerTypeOK
          /\ pc \in [Sessions -> States]
          /\ op \in [Sessions -> {"reserve", "release"}]
          /\ rid \in [Sessions -> Ids]
          /\ items \in [Sessions -> Seq(Item)]
          /\ next \in [Sessions -> Nat \ {0}]
          /\ todo \in [Sessions -> SUBSET Books]
          /\ delta \in [Sessions -> [Books -> 0 .. MaxQuantity]]
          /\ resLock \in [Ids -> SUBSET Sessions]
          /\ rowLock \in [Books -> Sessions \cup {Free}]
          /\ reply \in [Sessions -> {"none", "ok", "failed"}]

(* A session that has looked its reservation up keeps it locked, so what   *)
(* it read is still so: the id is unused while a reserve call works on it, *)
(* alone from the INSERT on, and "reserved" while a release call does.     *)
LookupHolds(s) ==
  LET r == rid[s] IN
  /\ pc[s] = "insert" => op[s] = "reserve" /\ s \in resLock[r] /\ status[r] = "none"
  /\ pc[s] = "take" => op[s] = "reserve"
  /\ pc[s] \in {"read", "give"} => op[s] = "release"
  /\ pc[s] \in {"take", "read", "give", "commit"} =>
       /\ resLock[r] = {s}
       /\ status[r] = IF op[s] = "reserve" THEN "none" ELSE "reserved"

(* Across its statements, no transaction works on a reservation that       *)
(* another one has changed since its SELECT ... FOR UPDATE.                *)
LookupStillHolds == \A s \in Sessions : LookupHolds(s)

(* The uncommitted work of a session is covered by its row locks; a        *)
(* reserve call never takes more than is available; a release call gives   *)
(* back exactly what the reservation holds.                                *)
Publishable(s) ==
  /\ \A b \in Books : delta[s][b] > 0 => rowLock[b] = s
  /\ op[s] = "reserve" => \A b \in Books : delta[s][b] <= available[b]
  /\ pc[s] = "idle" => next[s] = 1
  /\ pc[s] \in {"find", "insert", "take"} /\ op[s] = "reserve" =>
       next[s] \in 1 .. Len(items[s])
  /\ pc[s] = "commit" /\ op[s] = "reserve" => delta[s] # NoItems
  /\ pc[s] \in {"idle", "find", "insert", "read"} => delta[s] = NoItems
  /\ pc[s] = "give" =>
       \A b \in Books : delta[s][b] = IF b \in todo[s] THEN 0 ELSE held[rid[s]][b]
  /\ pc[s] = "commit" /\ op[s] = "release" => delta[s] = held[rid[s]]

(* What a transaction has computed from rows it locked earlier is still    *)
(* right when COMMIT publishes it.                                         *)
WorkIsPublishable == \A s \in Sessions : Publishable(s)

(* What a reserve call was asked for, item by item. *)
HoldsRequest(h, request) ==
  \A b \in Books :
    LET asked == {i \in DOMAIN request : request[i].book = b} IN
    IF asked = {} THEN h[b] = 0 ELSE \A i \in asked : h[b] = request[i].quantity

(* reserve_stock answers "true" only when, at that moment, the reservation *)
(* is in the table with status "reserved"; if this call made it, it holds  *)
(* every item of the request in full and nothing else.                     *)
OkMeansReserved ==
  [][\A s \in Sessions :
       reply'[s] = "ok" /\ reply[s] # "ok" =>
         /\ status'[rid[s]] = "reserved"
         /\ pc[s] = "commit" => HoldsRequest(held'[rid[s]], items[s])]_vars
=============================================================================
