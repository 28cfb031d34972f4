------------------------- MODULE LocalOrdersProofs -------------------------
(***************************************************************************)
(* Proofs about the order path of the monolith, for any number of threads, *)
(* books, orders, items, faults and crashes: whatever the interleaving of  *)
(* its single statements, no stock is invented, and none is lost unless a  *)
(* statement fails or the process dies.                                    *)
(***************************************************************************)
EXTENDS LocalOrders, FiniteSetTheorems, SequenceTheorems, TLAPS

Creating == {v \in Workers : pc[v] \in {"reserve", "insert"}}

(* Where a worker is says what its loop runs over, and that a request      *)
(* which is still creating its order owns what it has reserved.            *)
WorkerPlace(w) ==
  /\ pc[w] \in {"reserve", "give"} => items[w] \in ItemLists /\ next[w] \in 1 .. Len(items[w])
  /\ pc[w] = "insert" => items[w] \in ItemLists
  /\ pc[w] \in {"idle", "cancel", "reread"} => next[w] = 1
  /\ pc[w] \in {"idle", "reserve", "insert", "cancel"} => owns[w] = TRUE
  /\ pc[w] \in {"cancel", "reread"} => order[w] \in DOMAIN orders

(* TypeOK with the bounds it rests on: the orders that may still be        *)
(* inserted, and the length of an order's list of items.                   *)
LocalInv == /\ TypeOK
            /\ \A w \in Workers : WorkerPlace(w)
            /\ \A o \in DOMAIN orders : orders[o].items \in ItemLists
            /\ Len(orders) + Cardinality(Creating) <= MaxOrders

-----------------------------------------------------------------------------
(* Lists of items and rows of orders *)

(* A list of items is a sequence of at most MaxItems of them. *)
LEMMA ListFacts ==
  /\ \A list \in ItemLists :
       /\ list \in Seq(Item) /\ Len(list) \in 1 .. MaxItems /\ DOMAIN list = 1 .. Len(list)
       /\ \A i \in 1 .. Len(list) :
            /\ list[i].book \in Books
            /\ list[i].quantity \in 1 .. MaxQuantity
  /\ << >> \in Seq(Item)
<1>1. MaxItems \in Nat
  BY LocalAssumption
<1>2. ASSUME NEW n \in 1 .. MaxItems, NEW list \in [1 .. n -> Item]
      PROVE  /\ list \in Seq(Item) /\ Len(list) = n
             /\ \A i \in 1 .. n : list[i] \in Item
  BY <1>1
<1>3. \A it \in Item : it.book \in Books /\ it.quantity \in 1 .. MaxQuantity
  BY DEF Item
<1> QED
  BY <1>1, <1>2, <1>3 DEF ItemLists

(* The part of a list that has been reserved is a list again. *)
LEMMA PrefixFacts ==
  ASSUME NEW list \in ItemLists, NEW n \in 1 .. Len(list)
  PROVE  /\ SubSeq(list, 1, n) \in ItemLists
         /\ Len(SubSeq(list, 1, n)) = n
         /\ \A i \in 1 .. n : SubSeq(list, 1, n)[i] = list[i]
<1>1. list \in Seq(Item) /\ Len(list) \in 1 .. MaxItems /\ MaxItems \in Nat
  BY ListFacts, LocalAssumption
<1>2. /\ SubSeq(list, 1, n) \in Seq(Item)
      /\ Len(SubSeq(list, 1, n)) = n
      /\ \A i \in 1 .. n : SubSeq(list, 1, n)[i] = list[i]
  BY <1>1
<1> DEFINE prefix == SubSeq(list, 1, n)
<1>3. prefix \in [1 .. n -> Item] /\ n \in 1 .. MaxItems
  <2> HIDE DEF prefix
  <2>1. prefix \in Seq(Item) /\ Len(prefix) = n
    BY <1>2 DEF prefix
  <2>2. n \in 1 .. MaxItems
    BY <1>1
  <2> QED
    BY <2>1, <2>2, LenProperties, ElementOfSeq
<1> QED
  BY <1>2, <1>3 DEF ItemLists

(* The orders table after an insertion. *)
LEMMA NewOrderFacts ==
  ASSUME LocalInv, NEW list \in ItemLists, orders' = NewOrder(list)
  PROVE  /\ orders' \in Seq(OrderRows) /\ Len(orders') = Len(orders) + 1
         /\ Len(orders) \in Nat
         /\ DOMAIN orders = 1 .. Len(orders) /\ DOMAIN orders' = 1 .. Len(orders) + 1
         /\ \A o \in DOMAIN orders : orders'[o] = orders[o]
         /\ orders'[Len(orders) + 1].items = list
         /\ orders'[Len(orders) + 1].status = "created"
<1>1. orders \in Seq(OrderRows)
  BY DEF LocalInv, TypeOK
<1>2. [items |-> list, status |-> "created"] \in OrderRows
  BY ListFacts DEF OrderRows
<1>3. orders' = Append(orders, [items |-> list, status |-> "created"])
  BY DEF NewOrder
<1> QED
  BY <1>1, <1>2, <1>3

(* The orders table after an UPDATE of a status. *)
LEMMA MarkedFacts ==
  ASSUME LocalInv, NEW o \in DOMAIN orders, MarkCancelled(o)
  PROVE  /\ orders' \in Seq(OrderRows) /\ Len(orders') = Len(orders)
         /\ DOMAIN orders' = DOMAIN orders
         /\ \A p \in DOMAIN orders : orders'[p].items = orders[p].items
         /\ \A p \in DOMAIN orders : p # o => orders'[p] = orders[p]
         /\ orders'[o].status = "cancelled"
<1>1. orders \in Seq(OrderRows) /\ DOMAIN orders = 1 .. Len(orders)
  BY DEF LocalInv, TypeOK
<1>2. orders[o] \in OrderRows
  BY <1>1, ElementOfSeq
<1>3. [orders[o] EXCEPT !.status = "cancelled"] \in OrderRows
  BY <1>2 DEF OrderRows
<1>4. orders' = [orders EXCEPT ![o] = [orders[o] EXCEPT !.status = "cancelled"]]
  BY DEF MarkCancelled
<1>5. orders' \in Seq(OrderRows) /\ Len(orders') = Len(orders)
  BY <1>1, <1>3, <1>4, ExceptSeq
<1> QED
  BY <1>1, <1>2, <1>4, <1>5 DEF OrderRows

-----------------------------------------------------------------------------
(* Types *)

(* A part of a finite set is no larger, and one that leaves out an element *)
(* is smaller.                                                             *)
LEMMA Fewer ==
  ASSUME NEW S, IsFiniteSet(S), NEW T, T \subseteq S
  PROVE  /\ IsFiniteSet(T)
         /\ Cardinality(T) \in Nat /\ Cardinality(S) \in Nat
         /\ Cardinality(T) <= Cardinality(S)
         /\ \A x \in S : x \notin T => Cardinality(T) + 1 <= Cardinality(S)
<1>1. IsFiniteSet(T) /\ Cardinality(T) \in Nat /\ Cardinality(T) <= Cardinality(S)
  BY FS_Subset, FS_CardinalityType
<1>2. Cardinality(S) \in Nat
  BY FS_CardinalityType
<1>3. ASSUME NEW x \in S, x \notin T PROVE Cardinality(T) # Cardinality(S)
  BY <1>3, FS_Subset
<1> QED
  BY <1>1, <1>2, <1>3

(* An element more makes a finite set larger by at most one. *)
LEMMA AtMostOneMore ==
  ASSUME NEW S, IsFiniteSet(S), NEW x
  PROVE  /\ IsFiniteSet(S \cup {x})
         /\ Cardinality(S \cup {x}) <= Cardinality(S) + 1
         /\ Cardinality(S \cup {x}) \in Nat
<1>1. Cardinality(S) \in Nat
  BY FS_CardinalityType
<1> QED
  BY <1>1, FS_AddElement

(* At the start nobody creates an order. *)
LEMMA LocalInit == Init => LocalInv
<1> SUFFICES ASSUME Init PROVE LocalInv
  OBVIOUS
<1>1. {MaxQuantity, MaxItems, MaxOrders} \subseteq Nat \ {0} /\ {MaxStock, MaxFaults, MaxCrashes} \subseteq Nat
  BY LocalAssumption
<1>2. orders \in Seq(OrderRows) /\ Len(orders) = 0 /\ DOMAIN orders = {}
  BY DEF Init
<1>3. Creating = {}
  BY DEF Init, Creating
<1>4. Cardinality(Creating) = 0
  BY <1>3, FS_EmptySet
<1>5. /\ available \in [Books -> Nat] /\ stocked \in [Books -> Nat] /\ excess \in [Books -> Nat]
      /\ next \in [Workers -> Nat \ {0}] /\ order \in [Workers -> OrderIds]
      /\ faults \in 0 .. MaxFaults /\ crashes \in 0 .. MaxCrashes
  BY <1>1 DEF Init, OrderIds
<1>6. /\ pc \in [Workers -> {"idle", "reserve", "insert", "give", "cancel", "reread"}]
      /\ owns \in [Workers -> BOOLEAN]
  BY DEF Init
<1>7. items \in [Workers -> Seq(Item)]
  BY ListFacts DEF Init
<1>8. TypeOK
  BY <1>1, <1>2, <1>5, <1>6, <1>7 DEF TypeOK
<1>9. \A w \in Workers : WorkerPlace(w)
  BY DEF Init, WorkerPlace
<1> QED
  BY <1>1, <1>2, <1>4, <1>8, <1>9 DEF LocalInv

(* The workers' variables have their types. *)
Locals == /\ pc \in [Workers -> {"idle", "reserve", "insert", "give", "cancel", "reread"}]
          /\ items \in [Workers -> Seq(Item)]
          /\ next \in [Workers -> Nat \ {0}]
          /\ order \in [Workers -> OrderIds]
          /\ owns \in [Workers -> BOOLEAN]

(* Worker v is where it was. *)
Unmoved(v) == /\ pc'[v] = pc[v] /\ items'[v] = items[v] /\ next'[v] = next[v]
              /\ order'[v] = order[v] /\ owns'[v] = owns[v]

(* A worker that answers is at rest. *)
LEMMA AnswerFacts ==
  ASSUME LocalInv, NEW w \in Workers, Answer(w)
  PROVE  /\ Locals' /\ WorkerPlace(w)' /\ pc'[w] = "idle"
         /\ \A v \in Workers \ {w} : Unmoved(v)
<1>1. 1 \in OrderIds /\ << >> \in Seq(Item)
  BY LocalAssumption, ListFacts DEF OrderIds
<1>2. Locals
  BY DEF LocalInv, TypeOK, Locals
<1>3. Locals'
  BY <1>1, <1>2 DEF Answer, Locals
<1>4. pc'[w] = "idle" /\ next'[w] = 1 /\ owns'[w] = TRUE
  BY <1>2 DEF Answer, Locals
<1>5. WorkerPlace(w)'
  BY <1>4 DEF WorkerPlace
<1>6. \A v \in Workers \ {w} : Unmoved(v)
  BY <1>2 DEF Answer, Locals, Unmoved
<1> QED
  BY <1>3, <1>4, <1>5, <1>6

(* A worker that starts to give back has a list to run over. *)
LEMMA GiveBackFacts ==
  ASSUME LocalInv, NEW w \in Workers, NEW list \in ItemLists, NEW mine \in BOOLEAN,
         GiveBack(w, list, mine)
  PROVE  /\ Locals' /\ WorkerPlace(w)'
         /\ pc'[w] = "give" /\ items'[w] = list /\ next'[w] = 1 /\ owns'[w] = mine
         /\ \A v \in Workers \ {w} : Unmoved(v)
<1>1. list \in Seq(Item) /\ 1 \in 1 .. Len(list)
  BY ListFacts
<1>2. Locals
  BY DEF LocalInv, TypeOK, Locals
<1>3. Locals'
  BY <1>1, <1>2 DEF GiveBack, Locals
<1>4. pc'[w] = "give" /\ items'[w] = list /\ next'[w] = 1 /\ owns'[w] = mine
  BY <1>2 DEF GiveBack, Locals
<1>5. WorkerPlace(w)'
  BY <1>1, <1>4 DEF WorkerPlace
<1>6. \A v \in Workers \ {w} : Unmoved(v)
  BY <1>2 DEF GiveBack, Locals, Unmoved
<1> QED
  BY <1>3, <1>4, <1>5, <1>6

(* What a request that cannot reserve its next item rolls back. *)
LEMMA RollBackFacts ==
  ASSUME LocalInv, NEW w \in Workers, pc[w] = "reserve", RollBackReserved(w)
  PROVE  /\ Locals' /\ WorkerPlace(w)' /\ \A v \in Workers \ {w} : Unmoved(v)
         /\ \/ next[w] = 1 /\ pc'[w] = "idle"
            \/ /\ next[w] - 1 \in 1 .. Len(items[w])
               /\ pc'[w] = "give" /\ next'[w] = 1 /\ owns'[w] = TRUE
               /\ items'[w] = SubSeq(items[w], 1, next[w] - 1)
<1>1. items[w] \in ItemLists /\ next[w] \in 1 .. Len(items[w]) /\ Len(items[w]) \in Nat
  BY ListFacts DEF LocalInv, WorkerPlace
<1>2. CASE next[w] = 1
  BY <1>2, AnswerFacts DEF RollBackReserved
<1>3. CASE next[w] # 1
  <2>1. next[w] - 1 \in 1 .. Len(items[w])
    BY <1>1, <1>3
  <2>2. SubSeq(items[w], 1, next[w] - 1) \in ItemLists
    BY <1>1, <2>1, PrefixFacts
  <2>3. GiveBack(w, SubSeq(items[w], 1, next[w] - 1), TRUE)
    BY <1>3 DEF RollBackReserved
  <2> HIDE DEF RollBackReserved
  <2>4. /\ Locals' /\ WorkerPlace(w)' /\ \A v \in Workers \ {w} : Unmoved(v)
        /\ pc'[w] = "give" /\ next'[w] = 1 /\ owns'[w] = TRUE
        /\ items'[w] = SubSeq(items[w], 1, next[w] - 1)
    BY <2>2, <2>3, GiveBackFacts
  <2> QED
    BY <2>1, <2>4
<1> QED
  BY <1>2, <1>3

(* One turn of a release loop. *)
LEMMA AfterGiveFacts ==
  ASSUME LocalInv, NEW w \in Workers, pc[w] = "give", AfterGive(w)
  PROVE  /\ Locals' /\ WorkerPlace(w)' /\ \A v \in Workers \ {w} : Unmoved(v)
         /\ \/ next[w] = Len(items[w]) /\ pc'[w] = "idle"
            \/ /\ next[w] # Len(items[w]) /\ pc'[w] = "give" /\ next'[w] = next[w] + 1
               /\ items'[w] = items[w] /\ owns'[w] = owns[w]
<1>1. items[w] \in ItemLists /\ next[w] \in 1 .. Len(items[w]) /\ Len(items[w]) \in Nat
  BY ListFacts DEF LocalInv, WorkerPlace
<1>2. CASE next[w] = Len(items[w])
  BY <1>2, AnswerFacts DEF AfterGive
<1>3. CASE next[w] # Len(items[w])
  <2>1. /\ next' = [next EXCEPT ![w] = @ + 1] /\ UNCHANGED <<pc, items, order, owns>>
    BY <1>3 DEF AfterGive
  <2>2. Locals
    BY DEF LocalInv, TypeOK, Locals
  <2>3. Locals' /\ next'[w] = next[w] + 1 /\ \A v \in Workers \ {w} : Unmoved(v)
    BY <2>1, <2>2 DEF Locals, Unmoved
  <2>4. WorkerPlace(w)'
    BY <1>1, <1>3, <2>1, <2>3 DEF WorkerPlace
  <2> QED
    BY <1>3, <2>1, <2>3, <2>4
<1> QED
  BY <1>2, <1>3

(* The stock, the history and the bounds have their types. *)
Counters == /\ available \in [Books -> Nat] /\ stocked \in [Books -> Nat]
            /\ excess \in [Books -> Nat]
            /\ faults \in 0 .. MaxFaults /\ crashes \in 0 .. MaxCrashes

(* A step of one worker keeps LocalInv if it keeps the worker's own part   *)
(* and uses up at most the place that was counted for its order.           *)
LEMMA OneWorkerStep ==
  ASSUME LocalInv, NEW w \in Workers, Locals', WorkerPlace(w)',
         \A v \in Workers \ {w} : Unmoved(v),
         Counters', orders' \in Seq(OrderRows), DOMAIN orders \subseteq DOMAIN orders',
         \A o \in DOMAIN orders' : orders'[o].items \in ItemLists,
         \/ Len(orders') = Len(orders) /\ (w \in Creating' => w \in Creating)
         \/ Len(orders') = Len(orders) + 1 /\ w \in Creating /\ w \notin Creating'
         \/ Len(orders') = Len(orders) /\ Len(orders) + Cardinality(Creating) < MaxOrders
  PROVE  LocalInv'
<1>1. Locals
  BY DEF LocalInv, TypeOK, Locals
<1>2. \A v \in Workers : WorkerPlace(v)'
  <2>1. ASSUME NEW v \in Workers \ {w} PROVE WorkerPlace(v)'
    <3>1. Unmoved(v) /\ WorkerPlace(v)
      BY DEF LocalInv
    <3> QED
      BY <3>1 DEF Unmoved, WorkerPlace
  <2> QED
    BY <2>1
<1>3. IsFiniteSet(Creating) /\ Cardinality(Creating) \in Nat /\ Len(orders) \in Nat /\ MaxOrders \in Nat
  <2>1. Creating \subseteq Workers
    BY DEF Creating
  <2> QED
    BY <2>1, LocalAssumption, Fewer, LenProperties DEF LocalInv, TypeOK
<1>4. Creating' \subseteq Creating \cup {w}
  BY DEF Creating, Unmoved
<1>5. Len(orders) + Cardinality(Creating) <= MaxOrders
  BY DEF LocalInv
<1>6. Len(orders') + Cardinality(Creating') <= MaxOrders /\ Cardinality(Creating') \in Nat
  <2>1. CASE Len(orders') = Len(orders) /\ (w \in Creating' => w \in Creating)
    <3>1. Creating' \subseteq Creating
      BY <1>4, <2>1
    <3> QED
      BY <2>1, <3>1, <1>3, <1>5, Fewer
  <2>2. CASE Len(orders') = Len(orders) + 1 /\ w \in Creating /\ w \notin Creating'
    <3>1. Creating' \subseteq Creating
      BY <1>4, <2>2
    <3>2. Cardinality(Creating') + 1 <= Cardinality(Creating) /\ Cardinality(Creating') \in Nat
      BY <2>2, <3>1, <1>3, Fewer
    <3> QED
      BY <2>2, <3>2, <1>3, <1>5
  <2>3. CASE Len(orders') = Len(orders) /\ Len(orders) + Cardinality(Creating) < MaxOrders
    <3>1. /\ IsFiniteSet(Creating \cup {w})
          /\ Cardinality(Creating \cup {w}) <= Cardinality(Creating) + 1
          /\ Cardinality(Creating \cup {w}) \in Nat
      BY <1>3, AtMostOneMore
    <3>2. Cardinality(Creating') <= Cardinality(Creating \cup {w}) /\ Cardinality(Creating') \in Nat
      BY <3>1, <1>4, Fewer
    <3> QED
      BY <2>3, <3>1, <3>2, <1>3
  <2> QED
    BY <2>1, <2>2, <2>3
<1>7. Len(orders') <= MaxOrders
  BY <1>3, <1>6, LenProperties
<1>8. TypeOK'
  BY <1>7 DEF TypeOK, Locals, Counters
<1> QED
  BY <1>2, <1>6, <1>8 DEF LocalInv

(* Every step keeps the types, the bounds and the workers' places. *)
LEMMA LocalStep ==
  ASSUME LocalInv, [Next]_vars
  PROVE  LocalInv'
<1>1. Locals /\ Counters /\ orders \in Seq(OrderRows)
  BY DEF LocalInv, TypeOK, Locals, Counters
<1>2. \A o \in DOMAIN orders : orders[o].items \in ItemLists
  BY DEF LocalInv
<1>3. {MaxQuantity, MaxItems, MaxOrders} \subseteq Nat \ {0} /\ {MaxStock, MaxFaults, MaxCrashes} \subseteq Nat
  BY LocalAssumption
\* Steps that change one worker and no order
<1>4. ASSUME NEW w \in Workers, Locals', WorkerPlace(w)', \A v \in Workers \ {w} : Unmoved(v),
             Counters', orders' = orders, pc'[w] \in {"reserve", "insert"} => pc[w] \in {"reserve", "insert"}
      PROVE  LocalInv'
  <2>1. w \in Creating' => w \in Creating
    BY <1>4 DEF Creating
  <2> QED
    BY <1>1, <1>2, <1>4, <2>1, OneWorkerStep
<1>5. ASSUME Fault, UNCHANGED <<available, stocked, excess, crashes>> PROVE Counters'
  BY <1>1, <1>3, <1>5 DEF Counters, Fault
<1>6. ASSUME UNCHANGED <<available, historyVars>> PROVE Counters'
  BY <1>1, <1>6 DEF Counters, historyVars
<1>7. ASSUME NEW w \in Workers, pc[w] \in {"reserve", "give"}
      PROVE  /\ Current(w).book \in Books /\ Current(w).quantity \in 1 .. MaxQuantity
             /\ items[w] \in ItemLists /\ next[w] \in 1 .. Len(items[w])
             /\ Len(items[w]) \in Nat
  BY <1>7, ListFacts DEF Current, LocalInv, WorkerPlace
\* create_order
<1>10. ASSUME NEW w \in Workers, NEW request \in ItemLists, CreateOrder(w, request)
       PROVE  LocalInv'
  <2> USE <1>10 DEF CreateOrder
  <2>1. request \in Seq(Item) /\ 1 \in 1 .. Len(request)
    BY ListFacts
  <2>2. Locals' /\ \A v \in Workers \ {w} : Unmoved(v)
    BY <1>1, <2>1 DEF Locals, Unmoved
  <2>3. pc'[w] = "reserve" /\ items'[w] = request /\ next'[w] = 1 /\ owns'[w] = TRUE
    BY <1>1 DEF Locals, LocalInv, WorkerPlace
  <2>4. WorkerPlace(w)'
    BY <2>1, <2>3 DEF WorkerPlace
  <2>5. orders' = orders /\ Counters' /\ Len(orders) + Cardinality(Creating) < MaxOrders
    BY <1>6 DEF dbVars, Creating
  <2> QED
    BY <1>1, <1>2, <2>2, <2>4, <2>5, OneWorkerStep
<1>11. ASSUME NEW w \in Workers, ReserveItem(w) PROVE LocalInv'
  <2> USE <1>11 DEF ReserveItem
  <2>1. Locals' /\ \A v \in Workers \ {w} : Unmoved(v)
    BY <1>1 DEF Locals, Unmoved
  <2>2. WorkerPlace(w)'
    <3>1. /\ pc'[w] = IF next[w] = Len(items[w]) THEN "insert" ELSE "reserve"
          /\ next'[w] = next[w] + 1 /\ items'[w] = items[w] /\ owns'[w] = TRUE
      BY <1>1 DEF Locals, LocalInv, WorkerPlace
    <3> QED
      BY <1>7, <3>1 DEF WorkerPlace
  <2>3. Counters'
    BY <1>1, <1>7 DEF Counters, historyVars, TakeUnits, InStock
  <2> QED
    BY <2>1, <2>2, <2>3, <1>4
<1>12. ASSUME NEW w \in Workers, ReserveRefused(w) PROVE LocalInv'
  <2>1. Counters' /\ orders' = orders /\ pc[w] = "reserve" /\ RollBackReserved(w)
    BY <1>6, <1>12 DEF ReserveRefused, dbVars
  <2> QED
    BY <2>1, <1>4, RollBackFacts
<1>13. ASSUME NEW w \in Workers, ReserveFails(w) PROVE LocalInv'
  <2>1. Counters'
    <3>1. available' = available \/ (InStock(Current(w)) /\ TakeUnits(Current(w)))
      BY <1>13 DEF ReserveFails
    <3>2. available' \in [Books -> Nat]
      BY <1>1, <1>7, <1>13, <3>1 DEF ReserveFails, Counters, TakeUnits, InStock
    <3>3. Fault /\ UNCHANGED <<stocked, excess, crashes>>
      BY <1>13 DEF ReserveFails
    <3> QED
      BY <1>1, <1>3, <3>2, <3>3 DEF Counters, Fault
  <2>2. orders' = orders /\ pc[w] = "reserve" /\ RollBackReserved(w)
    BY <1>13 DEF ReserveFails
  <2> QED
    BY <2>1, <2>2, <1>4, RollBackFacts
<1>14. ASSUME NEW w \in Workers, InsertOrder(w) \/ InsertFails(w) PROVE LocalInv'
  <2>1. Counters' /\ pc[w] = "insert"
    BY <1>5, <1>6, <1>14 DEF InsertOrder, InsertFails
  <2>2. items[w] \in ItemLists /\ w \in Creating
    BY <2>1 DEF LocalInv, WorkerPlace, Creating
  <2>3. Locals' /\ WorkerPlace(w)' /\ pc'[w] \in {"idle", "give"} /\ \A v \in Workers \ {w} : Unmoved(v)
    BY <1>14, <2>2, AnswerFacts, GiveBackFacts DEF InsertOrder, InsertFails
  <2>4. CASE orders' = orders
    BY <1>4, <2>1, <2>3, <2>4
  <2>5. CASE orders' = NewOrder(items[w])
    <3>1. /\ orders' \in Seq(OrderRows) /\ Len(orders') = Len(orders) + 1
          /\ DOMAIN orders \subseteq DOMAIN orders'
          /\ \A o \in DOMAIN orders' : orders'[o].items \in ItemLists
      BY <1>2, <2>2, <2>5, NewOrderFacts
    <3>2. w \notin Creating'
      BY <2>3 DEF Creating
    <3> QED
      BY <2>1, <2>2, <2>3, <3>1, <3>2, OneWorkerStep
  <2> QED
    BY <1>14, <2>4, <2>5 DEF InsertOrder, InsertFails
\* The release loops
<1>20. ASSUME NEW w \in Workers, ReleaseItem(w) PROVE LocalInv'
  <2>1. Counters'
    <3> DEFINE it == Current(w)
    <3>1. it.book \in Books /\ it.quantity \in Nat
      BY <1>7, <1>20 DEF ReleaseItem
    <3> HIDE DEF it
    <3>2. /\ available' = [available EXCEPT ![it.book] = @ + it.quantity]
          /\ excess' = IF owns[w] THEN excess ELSE [excess EXCEPT ![it.book] = @ + it.quantity]
          /\ UNCHANGED <<stocked, faults, crashes>>
      BY <1>20 DEF ReleaseItem, it
    <3> QED
      BY <1>1, <3>1, <3>2, SMTT(30) DEF Counters
  <2>2. orders' = orders /\ pc[w] = "give" /\ AfterGive(w)
    BY <1>20 DEF ReleaseItem
  <2> QED
    BY <2>1, <2>2, <1>4, AfterGiveFacts
<1>21. ASSUME NEW w \in Workers, ReleaseFails(w) PROVE LocalInv'
  <2>1. Counters' /\ orders' = orders /\ pc[w] = "give" /\ AfterGive(w)
    BY <1>5, <1>21 DEF ReleaseFails, dbVars
  <2> QED
    BY <2>1, <1>4, AfterGiveFacts
\* cancel_order
<1>30. ASSUME NEW w \in Workers, NEW o \in OrderIds, CancelFind(w, o) PROVE LocalInv'
  <2> USE <1>30 DEF CancelFind
  <2>1. Locals' /\ \A v \in Workers \ {w} : Unmoved(v)
    BY <1>1 DEF Locals, Unmoved
  <2>2. pc'[w] = "cancel" /\ next'[w] = 1 /\ owns'[w] = TRUE /\ order'[w] = o /\ orders' = orders
    BY <1>1 DEF Locals, LocalInv, WorkerPlace, dbVars
  <2>3. WorkerPlace(w)'
    BY <2>2 DEF WorkerPlace
  <2>4. Counters'
    BY <1>6, SMTT(30) DEF dbVars
  <2> QED
    BY <2>1, <2>2, <2>3, <2>4, <1>4
<1>31. ASSUME NEW w \in Workers, CancelUpdate(w) \/ CancelUpdateFails(w) PROVE LocalInv'
  <2>1. Counters' /\ pc[w] = "cancel"
    BY <1>5, <1>6, <1>31 DEF CancelUpdate, CancelUpdateFails
  <2>2. order[w] \in DOMAIN orders /\ next[w] = 1
    BY <2>1 DEF LocalInv, WorkerPlace
  <2>3. /\ orders' \in Seq(OrderRows) /\ Len(orders') = Len(orders)
        /\ DOMAIN orders' = DOMAIN orders
        /\ \A p \in DOMAIN orders : orders'[p].items = orders[p].items
    BY <1>1, <1>31, <2>2, MarkedFacts DEF CancelUpdate, CancelUpdateFails
  <2>4. /\ Locals' /\ WorkerPlace(w)' /\ pc'[w] \in {"idle", "reread"}
        /\ \A v \in Workers \ {w} : Unmoved(v)
    <3>1. CASE CancelUpdateFails(w)
      BY <3>1, AnswerFacts DEF CancelUpdateFails
    <3>2. CASE CancelUpdate(w)
      <4> USE <3>2 DEF CancelUpdate
      <4>1. Locals' /\ \A v \in Workers \ {w} : Unmoved(v)
        BY <1>1 DEF Locals, Unmoved
      <4>2. pc'[w] = "reread" /\ next'[w] = 1 /\ order'[w] = order[w]
        BY <1>1, <2>2 DEF Locals
      <4>3. WorkerPlace(w)'
        BY <4>2, <2>2, <2>3 DEF WorkerPlace
      <4> QED
        BY <4>1, <4>2, <4>3
    <3> QED
      BY <1>31, <3>1, <3>2
  <2>5. w \in Creating' => w \in Creating
    BY <2>4 DEF Creating
  <2> QED
    BY <1>2, <2>1, <2>3, <2>4, <2>5, OneWorkerStep
<1>32. ASSUME NEW w \in Workers, CancelReread(w) PROVE LocalInv'
  <2>1. Counters' /\ orders' = orders /\ pc[w] = "reread"
    BY <1>6, <1>32 DEF CancelReread, dbVars
  <2>2. orders[order[w]].items \in ItemLists /\ owns[w] \in BOOLEAN
    BY <1>1, <1>2, <2>1 DEF LocalInv, WorkerPlace, Locals
  <2>3. Locals' /\ WorkerPlace(w)' /\ pc'[w] = "give" /\ \A v \in Workers \ {w} : Unmoved(v)
    BY <1>32, <2>2, GiveBackFacts DEF CancelReread
  <2> QED
    BY <2>1, <2>3, <1>4
<1>33. ASSUME NEW w \in Workers, CancelRereadFails(w) PROVE LocalInv'
  <2>1. Counters' /\ orders' = orders /\ Answer(w)
    BY <1>5, <1>33 DEF CancelRereadFails, dbVars
  <2> QED
    BY <2>1, <1>4, AnswerFacts
\* The rest
<1>40. ASSUME UNCHANGED <<orders, workerVars>>, Counters' PROVE LocalInv'
  <2>1. TypeOK'
    BY <1>40 DEF LocalInv, TypeOK, workerVars, Counters
  <2> QED
    BY <1>40, <2>1 DEF LocalInv, WorkerPlace, workerVars, Creating
<1>41. ASSUME NEW b \in Books, NEW q \in 1 .. MaxQuantity, AddStock(b, q) PROVE LocalInv'
  <2>1. /\ available' \in [Books -> Nat] /\ stocked' \in [Books -> Nat]
        /\ UNCHANGED <<excess, faults, crashes, orders, workerVars>>
    BY <1>1, <1>3, <1>41, SMTT(40) DEF AddStock, Counters
  <2>2. Counters'
    BY <1>1, <2>1 DEF Counters
  <2> QED
    BY <1>40, <2>1, <2>2
<1>42. CASE Crash
  <2> USE <1>42 DEF Crash
  <2>1. Counters'
    BY <1>1, <1>3 DEF Counters, dbVars
  <2>2. Locals'
    <3>1. 1 \in OrderIds /\ << >> \in Seq(Item)
      BY <1>3, ListFacts DEF OrderIds
    <3> QED
      BY <1>1, <3>1 DEF Locals
  <2>3. \A w \in Workers : WorkerPlace(w)'
    BY DEF WorkerPlace
  <2>4. Creating' = {} /\ orders' = orders
    BY DEF Creating, dbVars
  <2>5. Cardinality(Creating') = 0
    BY <2>4, FS_EmptySet
  <2>6. TypeOK'
    BY <2>1, <2>2, <2>4 DEF LocalInv, TypeOK, Locals, Counters
  <2>7. Len(orders) \in Nat /\ Len(orders) <= MaxOrders
    BY <1>1, LenProperties DEF LocalInv, TypeOK
  <2> QED
    BY <1>2, <2>3, <2>4, <2>5, <2>6, <2>7 DEF LocalInv
<1>43. CASE UNCHANGED vars
  BY <1>6, <1>40, <1>43 DEF vars, dbVars
<1>44. ASSUME NEW w \in Workers, WorkerStep(w) PROVE LocalInv'
  BY <1>44, <1>11, <1>12, <1>13, <1>14, <1>20, <1>21, <1>31, <1>32, <1>33 DEF WorkerStep
<1> QED
  BY <1>10, <1>30, <1>41, <1>42, <1>43, <1>44 DEF Next, CancelAgain, ReadOnly

(* Whatever the threads interleave and whatever fails, the tables and the  *)
(* workers keep their types; in particular the unsigned column             *)
(* inventory.available never goes below zero.                              *)
THEOREM LocalTyping == Spec => []TypeOK
<1>1. LocalInv => TypeOK
  BY DEF LocalInv
<1> QED
  BY <1>1, LocalInit, LocalStep, PTL DEF Spec

-----------------------------------------------------------------------------
(* Counting units                                                          *)
(*                                                                         *)
(* The units sold and the units in workers' hands are piles, one per order *)
(* and one per worker.  A step changes one pile of each kind.              *)

(* The units of book b in a list of items. *)
ListUnits(list, b) ==
  {s \in Slots : /\ s[1] \in DOMAIN list /\ list[s[1]].book = b
                 /\ s[2] <= list[s[1]].quantity}

(* The units of book b that order o has sold. *)
OrderUnits(o, b) ==
  {s \in Slots : /\ o \in DOMAIN orders /\ orders[o].status = "created"
                 /\ s \in ListUnits(orders[o].items, b)}

(* The units of book b in the hands of worker w. *)
MyUnits(w, b) == {s \in Slots : s \in ListUnits(ItemsOf(w), b) /\ Holds(w, s[1])}

(* All the units of a family of piles, each one named by its pile. *)
Heap(X, S, f) == {u \in X \X S : u[2] \in f[u[1]]}

(* When one pile of finitely many changes, the whole changes by as much. *)
LEMMA PileChange ==
  ASSUME NEW X, IsFiniteSet(X), NEW S, IsFiniteSet(S),
         NEW f \in [X -> SUBSET S], NEW g \in [X -> SUBSET S],
         NEW x \in X, \A y \in X \ {x} : g[y] = f[y]
  PROVE  /\ Cardinality(Heap(X, S, g)) + Cardinality(f[x])
              = Cardinality(Heap(X, S, f)) + Cardinality(g[x])
         /\ {Cardinality(Heap(X, S, f)), Cardinality(Heap(X, S, g))} \subseteq Nat
         /\ {Cardinality(f[x]), Cardinality(g[x])} \subseteq Nat
<1> DEFINE rest == {u \in X \X S : u[1] # x /\ u[2] \in f[u[1]]}
<1>1. IsFiniteSet(X \X S)
  BY FS_Product
<1>2. IsFiniteSet(rest) /\ Cardinality(rest) \in Nat
  <2>1. rest \subseteq X \X S
    OBVIOUS
  <2> HIDE DEF rest
  <2> QED
    BY <1>1, <2>1, Fewer
<1>3. ASSUME NEW h \in [X -> SUBSET S], \A y \in X \ {x} : h[y] = f[y]
      PROVE  /\ Cardinality(Heap(X, S, h)) = Cardinality(rest) + Cardinality(h[x])
             /\ Cardinality(h[x]) \in Nat
  <2> DEFINE own == {x} \X h[x]
  <2>1. Heap(X, S, h) = rest \cup own
    BY <1>3 DEF Heap
  <2>2. rest \cap own = {}
    OBVIOUS
  <2>3. IsFiniteSet(h[x]) /\ Cardinality(h[x]) \in Nat
    <3>1. h[x] \subseteq S
      OBVIOUS
    <3> QED
      BY <3>1, Fewer
  <2>4. IsFiniteSet(own) /\ Cardinality(own) = Cardinality(h[x])
    <3>1. IsFiniteSet({x}) /\ Cardinality({x}) = 1
      BY FS_Singleton
    <3>2. IsFiniteSet(own) /\ Cardinality(own) = Cardinality({x}) * Cardinality(h[x])
      BY <2>3, <3>1, FS_Product
    <3> QED
      BY <2>3, <3>1, <3>2
  <2> HIDE DEF rest, own
  <2>5. Cardinality(rest \cup own) = Cardinality(rest) + Cardinality(own) - Cardinality(rest \cap own)
    BY <1>2, <2>4, FS_Union
  <2>6. Cardinality(rest \cap own) = 0
    BY <2>2, FS_EmptySet
  <2> QED
    BY <1>2, <2>1, <2>3, <2>4, <2>5, <2>6
<1> HIDE DEF rest
<1>4. /\ Cardinality(Heap(X, S, f)) = Cardinality(rest) + Cardinality(f[x])
      /\ Cardinality(f[x]) \in Nat
  BY <1>3
<1>5. /\ Cardinality(Heap(X, S, g)) = Cardinality(rest) + Cardinality(g[x])
      /\ Cardinality(g[x]) \in Nat
  BY <1>3
<1> QED
  BY <1>2, <1>4, <1>5

(* The units of one item: quantity of them, in one row of slots. *)
LEMMA BlockAdded ==
  ASSUME NEW S, IsFiniteSet(S), NEW n, NEW q \in Nat, S \cap ({n} \X (1 .. q)) = {}
  PROVE  Cardinality(S \cup ({n} \X (1 .. q))) = Cardinality(S) + q
<1> DEFINE block == {n} \X (1 .. q)
<1>1. IsFiniteSet({n}) /\ Cardinality({n}) = 1
  BY FS_Singleton
<1>2. IsFiniteSet(1 .. q) /\ Cardinality(1 .. q) = q
  <2>1. 1 \in Int /\ q \in Int
    OBVIOUS
  <2> QED
    BY <2>1, FS_Interval
<1>3. IsFiniteSet(block) /\ Cardinality(block) = Cardinality({n}) * Cardinality(1 .. q)
  BY <1>1, <1>2, FS_Product
<1>4. Cardinality(block) = q
  BY <1>1, <1>2, <1>3
<1>5. Cardinality(S \cap block) = 0
  BY FS_EmptySet
<1>6. Cardinality(S) \in Nat
  BY FS_CardinalityType
<1> HIDE DEF block
<1>7. Cardinality(S \cup block) = Cardinality(S) + Cardinality(block) - Cardinality(S \cap block)
  BY <1>3, FS_Union
<1> QED
  BY <1>4, <1>5, <1>6, <1>7 DEF block

(* The index sets and the slots are finite. *)
LEMMA SlotsFinite == IsFiniteSet(Slots) /\ IsFiniteSet(OrderIds) /\ IsFiniteSet(Workers)
<1>1. MaxItems \in Int /\ MaxQuantity \in Int /\ MaxOrders \in Int /\ 1 \in Int
  BY LocalAssumption
<1>2. IsFiniteSet(1 .. MaxItems) /\ IsFiniteSet(1 .. MaxQuantity) /\ IsFiniteSet(1 .. MaxOrders)
  BY <1>1, FS_Interval
<1> QED
  BY <1>2, FS_Product, LocalAssumption DEF Slots, OrderIds

(* A step that changes one order changes the units sold by as much. *)
LEMMA SoldChange ==
  ASSUME NEW b \in Books, NEW o \in OrderIds,
         \A p \in OrderIds \ {o} : OrderUnits(p, b)' = OrderUnits(p, b)
  PROVE  /\ Cardinality(SoldUnits(b)') + Cardinality(OrderUnits(o, b))
              = Cardinality(SoldUnits(b)) + Cardinality(OrderUnits(o, b)')
         /\ {Cardinality(SoldUnits(b)), Cardinality(SoldUnits(b)')} \subseteq Nat
         /\ {Cardinality(OrderUnits(o, b)), Cardinality(OrderUnits(o, b)')} \subseteq Nat
<1> DEFINE f == [p \in OrderIds |-> OrderUnits(p, b)]
           g == [p \in OrderIds |-> OrderUnits(p, b)']
<1>1. f \in [OrderIds -> SUBSET Slots] /\ g \in [OrderIds -> SUBSET Slots]
  BY DEF OrderUnits
<1>2. SoldUnits(b) = Heap(OrderIds, Slots, f)
  BY DEF SoldUnits, OrderUnits, ListUnits, Heap
<1>3. SoldUnits(b)' = Heap(OrderIds, Slots, g)
  BY DEF SoldUnits, OrderUnits, ListUnits, Heap
<1>4. \A p \in OrderIds \ {o} : g[p] = f[p]
  OBVIOUS
<1>5. f[o] = OrderUnits(o, b) /\ g[o] = OrderUnits(o, b)'
  OBVIOUS
<1> HIDE DEF f, g
<1>6. /\ Cardinality(SoldUnits(b)') + Cardinality(f[o]) = Cardinality(SoldUnits(b)) + Cardinality(g[o])
      /\ {Cardinality(SoldUnits(b)), Cardinality(SoldUnits(b)')} \subseteq Nat
      /\ {Cardinality(f[o]), Cardinality(g[o])} \subseteq Nat
  BY <1>1, <1>2, <1>3, <1>4, SlotsFinite, PileChange
<1> QED
  BY <1>5, <1>6

(* A step that changes one worker changes the units in hands by as much. *)
LEMMA HandsChange ==
  ASSUME NEW b \in Books, NEW w \in Workers,
         \A v \in Workers \ {w} : MyUnits(v, b)' = MyUnits(v, b)
  PROVE  /\ Cardinality(WorkerUnits(b)') + Cardinality(MyUnits(w, b))
              = Cardinality(WorkerUnits(b)) + Cardinality(MyUnits(w, b)')
         /\ {Cardinality(WorkerUnits(b)), Cardinality(WorkerUnits(b)')} \subseteq Nat
         /\ {Cardinality(MyUnits(w, b)), Cardinality(MyUnits(w, b)')} \subseteq Nat
<1> DEFINE f == [v \in Workers |-> MyUnits(v, b)]
           g == [v \in Workers |-> MyUnits(v, b)']
<1>1. f \in [Workers -> SUBSET Slots] /\ g \in [Workers -> SUBSET Slots]
  BY DEF MyUnits
<1>2. WorkerUnits(b) = Heap(Workers, Slots, f)
  BY DEF WorkerUnits, MyUnits, ListUnits, Heap
<1>3. WorkerUnits(b)' = Heap(Workers, Slots, g)
  BY DEF WorkerUnits, MyUnits, ListUnits, Heap
<1>4. \A v \in Workers \ {w} : g[v] = f[v]
  OBVIOUS
<1>5. f[w] = MyUnits(w, b) /\ g[w] = MyUnits(w, b)'
  OBVIOUS
<1> HIDE DEF f, g
<1>6. /\ Cardinality(WorkerUnits(b)') + Cardinality(f[w]) = Cardinality(WorkerUnits(b)) + Cardinality(g[w])
      /\ {Cardinality(WorkerUnits(b)), Cardinality(WorkerUnits(b)')} \subseteq Nat
      /\ {Cardinality(f[w]), Cardinality(g[w])} \subseteq Nat
  BY <1>1, <1>2, <1>3, <1>4, SlotsFinite, PileChange
<1> QED
  BY <1>5, <1>6

-----------------------------------------------------------------------------
(* Every step balances *)

(* What a step adds to the units accounted for, it adds to the units put   *)
(* into stock or released in excess; a step that is no fault and no crash  *)
(* adds exactly as much.                                                   *)
Balanced(b) ==
  /\ Accounted(b)' + stocked[b] + excess[b] <= Accounted(b) + stocked'[b] + excess'[b]
  /\ faults' = faults /\ crashes' = crashes =>
       Accounted(b)' + stocked[b] + excess[b] = Accounted(b) + stocked'[b] + excess'[b]

(* The same for the pile of one worker and of one order. *)
PilesBalance(w, o, b) ==
  LET before == available[b] + Cardinality(OrderUnits(o, b)) + Cardinality(MyUnits(w, b))
      after == available'[b] + Cardinality(OrderUnits(o, b)') + Cardinality(MyUnits(w, b)')
  IN  /\ after + stocked[b] + excess[b] <= before + stocked'[b] + excess'[b]
      /\ faults' = faults /\ crashes' = crashes =>
           after + stocked[b] + excess[b] = before + stocked'[b] + excess'[b]

(* A worker that does not move, and whose order keeps its items, has what  *)
(* it had.                                                                 *)
LEMMA UnmovedUnits ==
  ASSUME NEW v, NEW b, Unmoved(v),
         pc[v] = "reread" => orders'[order[v]].items = orders[order[v]].items
  PROVE  MyUnits(v, b)' = MyUnits(v, b)
<1>1. ItemsOf(v)' = ItemsOf(v)
  BY DEF ItemsOf, Unmoved
<1>2. \A n : Holds(v, n)' <=> Holds(v, n)
  BY DEF Holds, Unmoved
<1> QED
  BY <1>1, <1>2 DEF MyUnits, ListUnits

(* The sums of the next lemma. *)
LEMMA Sums ==
  ASSUME NEW a0 \in Nat, NEW a1 \in Nat, NEW s0 \in Nat, NEW s1 \in Nat, NEW h0 \in Nat, NEW h1 \in Nat,
         NEW o0 \in Nat, NEW o1 \in Nat, NEW m0 \in Nat, NEW m1 \in Nat,
         NEW k0 \in Nat, NEW k1 \in Nat, NEW e0 \in Nat, NEW e1 \in Nat,
         s1 + o0 = s0 + o1, h1 + m0 = h0 + m1
  PROVE  /\ a1 + o1 + m1 + k0 + e0 <= a0 + o0 + m0 + k1 + e1 =>
              a1 + s1 + h1 + k0 + e0 <= a0 + s0 + h0 + k1 + e1
         /\ a1 + o1 + m1 + k0 + e0 = a0 + o0 + m0 + k1 + e1 =>
              a1 + s1 + h1 + k0 + e0 = a0 + s0 + h0 + k1 + e1
  OBVIOUS

(* The balance of a step that changes one worker and one order, from the   *)
(* four piles concerned.                                                   *)
LEMMA StepBalance ==
  ASSUME NEW b \in Books, NEW w \in Workers, NEW o \in OrderIds,
         \A v \in Workers \ {w} : MyUnits(v, b)' = MyUnits(v, b),
         \A p \in OrderIds \ {o} : OrderUnits(p, b)' = OrderUnits(p, b),
         {available[b], available'[b]} \subseteq Nat,
         {stocked[b], stocked'[b], excess[b], excess'[b]} \subseteq Nat
  PROVE  PilesBalance(w, o, b) => Balanced(b)
<1>1. /\ Cardinality(SoldUnits(b)') + Cardinality(OrderUnits(o, b))
           = Cardinality(SoldUnits(b)) + Cardinality(OrderUnits(o, b)')
      /\ {Cardinality(SoldUnits(b)), Cardinality(SoldUnits(b)')} \subseteq Nat
      /\ {Cardinality(OrderUnits(o, b)), Cardinality(OrderUnits(o, b)')} \subseteq Nat
  BY SoldChange
<1>2. /\ Cardinality(WorkerUnits(b)') + Cardinality(MyUnits(w, b))
           = Cardinality(WorkerUnits(b)) + Cardinality(MyUnits(w, b)')
      /\ {Cardinality(WorkerUnits(b)), Cardinality(WorkerUnits(b)')} \subseteq Nat
      /\ {Cardinality(MyUnits(w, b)), Cardinality(MyUnits(w, b)')} \subseteq Nat
  BY HandsChange
<1>3. /\ Accounted(b) = available[b] + Cardinality(SoldUnits(b)) + Cardinality(WorkerUnits(b))
      /\ Accounted(b)' = available'[b] + Cardinality(SoldUnits(b)') + Cardinality(WorkerUnits(b)')
  BY DEF Accounted
<1> DEFINE s0 == Cardinality(SoldUnits(b))
           s1 == Cardinality(SoldUnits(b)')
           h0 == Cardinality(WorkerUnits(b))
           h1 == Cardinality(WorkerUnits(b)')
           o0 == Cardinality(OrderUnits(o, b))
           o1 == Cardinality(OrderUnits(o, b)')
           m0 == Cardinality(MyUnits(w, b))
           m1 == Cardinality(MyUnits(w, b)')
<1>4. /\ s1 + o0 = s0 + o1 /\ h1 + m0 = h0 + m1
      /\ {s0, s1, h0, h1, o0, o1, m0, m1} \subseteq Nat
  BY <1>1, <1>2
<1>5. Accounted(b) = available[b] + s0 + h0 /\ Accounted(b)' = available'[b] + s1 + h1
  BY <1>3
<1> HIDE DEF s0, s1, h0, h1, o0, o1, m0, m1
<1>6. /\ available[b] \in Nat /\ available'[b] \in Nat /\ stocked[b] \in Nat /\ stocked'[b] \in Nat
      /\ excess[b] \in Nat /\ excess'[b] \in Nat
      /\ s0 \in Nat /\ s1 \in Nat /\ h0 \in Nat /\ h1 \in Nat /\ o0 \in Nat /\ o1 \in Nat
      /\ m0 \in Nat /\ m1 \in Nat
  BY <1>4
<1>7. /\ available'[b] + o1 + m1 + stocked[b] + excess[b]
           <= available[b] + o0 + m0 + stocked'[b] + excess'[b] =>
           available'[b] + s1 + h1 + stocked[b] + excess[b]
             <= available[b] + s0 + h0 + stocked'[b] + excess'[b]
      /\ available'[b] + o1 + m1 + stocked[b] + excess[b]
           = available[b] + o0 + m0 + stocked'[b] + excess'[b] =>
           available'[b] + s1 + h1 + stocked[b] + excess[b]
             = available[b] + s0 + h0 + stocked'[b] + excess'[b]
  BY <1>4, <1>6, Sums
<1>8. SUFFICES ASSUME PilesBalance(w, o, b) PROVE Balanced(b)
  OBVIOUS
<1>9. /\ available'[b] + o1 + m1 + stocked[b] + excess[b]
           <= available[b] + o0 + m0 + stocked'[b] + excess'[b]
      /\ faults' = faults /\ crashes' = crashes =>
           available'[b] + o1 + m1 + stocked[b] + excess[b]
             = available[b] + o0 + m0 + stocked'[b] + excess'[b]
  BY <1>8 DEF PilesBalance, o0, o1, m0, m1
<1> QED
  BY <1>5, <1>7, <1>9 DEF Balanced

-----------------------------------------------------------------------------
(* The piles *)

(* The units of the items before, and from, the n-th. *)
Below(list, b, n) == {s \in ListUnits(list, b) : s[1] < n}
From(list, b, n) == {s \in ListUnits(list, b) : s[1] >= n}

(* The units of book b that one item stands for. *)
Share(it, b) == IF it.book = b THEN it.quantity ELSE 0

(* The units of one item, as slots. *)
LEMMA ItemSlots ==
  ASSUME NEW b, NEW list \in ItemLists, NEW n \in 1 .. Len(list)
  PROVE  LET row == {s \in ListUnits(list, b) : s[1] = n}
         IN  row = IF list[n].book = b THEN {n} \X (1 .. list[n].quantity) ELSE {}
<1>1. /\ DOMAIN list = 1 .. Len(list) /\ Len(list) \in 1 .. MaxItems
      /\ list[n].quantity \in 1 .. MaxQuantity
  BY ListFacts
<1>2. MaxItems \in Nat /\ MaxQuantity \in Nat
  BY LocalAssumption
<1>3. CASE list[n].book = b
  <2>1. ASSUME NEW s \in {n} \X (1 .. list[n].quantity) PROVE s \in Slots /\ s[2] <= list[n].quantity
    BY <1>1, <1>2 DEF Slots
  <2>2. ASSUME NEW s \in ListUnits(list, b), s[1] = n PROVE s \in {n} \X (1 .. list[n].quantity)
    BY <1>1, <1>2, <2>2 DEF ListUnits, Slots
  <2>3. ASSUME NEW s \in {n} \X (1 .. list[n].quantity) PROVE s \in ListUnits(list, b) /\ s[1] = n
    BY <1>1, <1>3, <2>1 DEF ListUnits
  <2> QED
    BY <1>3, <2>2, <2>3
<1>4. CASE list[n].book # b
  BY <1>4 DEF ListUnits
<1> QED
  BY <1>3, <1>4

(* One item more or less, at either end of a loop over the list. *)
LEMMA PartFacts ==
  ASSUME NEW b, NEW list \in ItemLists
  PROVE  /\ Cardinality(ListUnits(list, b)) \in Nat
         /\ \A n \in 1 .. Len(list) :
              /\ Share(list[n], b) \in Nat
              /\ Cardinality(Below(list, b, n)) \in Nat
              /\ Cardinality(From(list, b, n)) \in Nat
              /\ Cardinality(Below(list, b, n + 1)) = Cardinality(Below(list, b, n)) + Share(list[n], b)
              /\ Cardinality(From(list, b, n)) = Cardinality(From(list, b, n + 1)) + Share(list[n], b)
         /\ Below(list, b, 1) = {} /\ Below(list, b, Len(list) + 1) = ListUnits(list, b)
         /\ From(list, b, 1) = ListUnits(list, b) /\ From(list, b, Len(list) + 1) = {}
<1>1. /\ DOMAIN list = 1 .. Len(list) /\ Len(list) \in 1 .. MaxItems /\ MaxItems \in Nat
      /\ \A n \in 1 .. Len(list) : list[n].quantity \in Nat
  BY ListFacts, LocalAssumption
<1>2. \A s \in ListUnits(list, b) : s[1] \in 1 .. Len(list)
  BY <1>1 DEF ListUnits
<1>3. ListUnits(list, b) \subseteq Slots
  BY DEF ListUnits
<1>4. IsFiniteSet(ListUnits(list, b)) /\ Cardinality(ListUnits(list, b)) \in Nat
  BY <1>3, SlotsFinite, Fewer
<1>5. /\ Below(list, b, 1) = {} /\ Below(list, b, Len(list) + 1) = ListUnits(list, b)
      /\ From(list, b, 1) = ListUnits(list, b) /\ From(list, b, Len(list) + 1) = {}
  BY <1>1, <1>2 DEF Below, From
<1>6. ASSUME NEW n \in Int
      PROVE  /\ IsFiniteSet(Below(list, b, n)) /\ Cardinality(Below(list, b, n)) \in Nat
             /\ IsFiniteSet(From(list, b, n)) /\ Cardinality(From(list, b, n)) \in Nat
  <2>1. Below(list, b, n) \subseteq ListUnits(list, b) /\ From(list, b, n) \subseteq ListUnits(list, b)
    BY DEF Below, From
  <2> QED
    BY <1>4, <2>1, Fewer
<1>7. ASSUME NEW n \in 1 .. Len(list)
      PROVE  /\ Share(list[n], b) \in Nat
             /\ Cardinality(Below(list, b, n + 1)) = Cardinality(Below(list, b, n)) + Share(list[n], b)
             /\ Cardinality(From(list, b, n)) = Cardinality(From(list, b, n + 1)) + Share(list[n], b)
  <2> DEFINE row == {s \in ListUnits(list, b) : s[1] = n}
  <2>1. row = IF list[n].book = b THEN {n} \X (1 .. list[n].quantity) ELSE {}
    BY ItemSlots
  <2>2. n \in Int /\ n + 1 \in Int /\ list[n].quantity \in Nat
    BY <1>1
  <2>3. /\ Below(list, b, n + 1) = Below(list, b, n) \cup row
        /\ Below(list, b, n) \cap row = {}
        /\ From(list, b, n) = From(list, b, n + 1) \cup row
        /\ From(list, b, n + 1) \cap row = {}
    BY <1>1, <1>2 DEF Below, From
  <2> HIDE DEF row
  <2>4. CASE list[n].book = b
    <3>1. row = {n} \X (1 .. list[n].quantity) /\ Share(list[n], b) = list[n].quantity
      BY <2>1, <2>4 DEF Share
    <3>2. Cardinality(Below(list, b, n) \cup row) = Cardinality(Below(list, b, n)) + list[n].quantity
      BY <1>6, <2>2, <2>3, <3>1, BlockAdded
    <3>3. Cardinality(From(list, b, n + 1) \cup row) = Cardinality(From(list, b, n + 1)) + list[n].quantity
      BY <1>6, <2>2, <2>3, <3>1, BlockAdded, ZenonT(60)
    <3> QED
      BY <2>2, <2>3, <3>1, <3>2, <3>3
  <2>5. CASE list[n].book # b
    <3>1. row = {} /\ Share(list[n], b) = 0
      BY <2>1, <2>5 DEF Share
    <3>2. Below(list, b, n + 1) = Below(list, b, n) /\ From(list, b, n) = From(list, b, n + 1)
      BY <2>3, <3>1
    <3>3. Cardinality(Below(list, b, n)) \in Nat /\ Cardinality(From(list, b, n)) \in Nat
      BY <1>6, <2>2
    <3> QED
      BY <3>1, <3>2, <3>3
  <2> QED
    BY <2>4, <2>5
<1>8. \A n \in 1 .. Len(list) : n \in Int
  BY <1>1
<1> QED
  BY <1>4, <1>5, <1>6, <1>7, <1>8

(* What has been reserved of a list is what a rollback gives back. *)
LEMMA PrefixUnits ==
  ASSUME NEW b, NEW list \in ItemLists, NEW n \in 1 .. Len(list)
  PROVE  ListUnits(SubSeq(list, 1, n), b) = Below(list, b, n + 1)
<1> DEFINE prefix == SubSeq(list, 1, n)
<1>1. prefix \in ItemLists /\ Len(prefix) = n /\ \A i \in 1 .. n : prefix[i] = list[i]
  BY PrefixFacts
<1> HIDE DEF prefix
<1>2. /\ DOMAIN list = 1 .. Len(list) /\ Len(list) \in Nat /\ DOMAIN prefix = 1 .. n
  BY <1>1, ListFacts
<1>3. \A s \in Slots : s[1] \in DOMAIN list /\ s[1] < n + 1 <=> s[1] \in DOMAIN prefix
  BY <1>2
<1>4. \A s \in Slots : s[1] \in DOMAIN prefix => prefix[s[1]] = list[s[1]]
  BY <1>1, <1>2
<1>5. ListUnits(prefix, b) = Below(list, b, n + 1)
  BY <1>3, <1>4 DEF ListUnits, Below
<1> QED
  BY <1>5 DEF prefix

(* What worker w has of book b, by what it does. *)
HandIs(w, b) ==
  /\ pc[w] \in {"idle", "cancel"} \/ owns[w] = FALSE => MyUnits(w, b) = {}
  /\ pc[w] = "reserve" /\ owns[w] = TRUE => MyUnits(w, b) = Below(items[w], b, next[w])
  /\ pc[w] = "insert" /\ owns[w] = TRUE => MyUnits(w, b) = ListUnits(items[w], b)
  /\ pc[w] = "give" /\ owns[w] = TRUE => MyUnits(w, b) = From(items[w], b, next[w])
  /\ pc[w] = "reread" /\ owns[w] = TRUE => MyUnits(w, b) = ListUnits(orders[order[w]].items, b)

(* A worker's pile is what HandIs says, before and after a step. *)
LEMMA HandFacts ==
  ASSUME NEW w, NEW b
  PROVE  HandIs(w, b) /\ HandIs(w, b)'
<1>1. HandIs(w, b)
  BY DEF HandIs, MyUnits, ItemsOf, Holds, Below, From, ListUnits
<1>2. HandIs(w, b)'
  BY DEF HandIs, MyUnits, ItemsOf, Holds, Below, From, ListUnits
<1> QED
  BY <1>1, <1>2

(* Nobody's hands hold more than can be counted. *)
LEMMA HandsFinite ==
  ASSUME NEW w, NEW b
  PROVE  Cardinality(MyUnits(w, b)) \in Nat /\ Cardinality(MyUnits(w, b)') \in Nat
<1>1. MyUnits(w, b) \subseteq Slots /\ MyUnits(w, b)' \subseteq Slots
  BY DEF MyUnits
<1> QED
  BY <1>1, SlotsFinite, Fewer

(* An order table that is left alone, or gets a row, or has one cancelled. *)
LEMMA OrderPiles ==
  ASSUME LocalInv, NEW b
  PROVE  /\ orders' = orders => \A p \in OrderIds : OrderUnits(p, b)' = OrderUnits(p, b)
         /\ \A list \in ItemLists, new \in Nat :
              orders' = NewOrder(list) /\ new = Len(orders) + 1 =>
                /\ \A p \in OrderIds \ {new} : OrderUnits(p, b)' = OrderUnits(p, b)
                /\ OrderUnits(new, b) = {} /\ OrderUnits(new, b)' = ListUnits(list, b)
         /\ \A o \in DOMAIN orders :
              MarkCancelled(o) =>
                /\ \A p \in OrderIds \ {o} : OrderUnits(p, b)' = OrderUnits(p, b)
                /\ OrderUnits(o, b)' = {}
                /\ orders[o].status # "cancelled" => OrderUnits(o, b) = ListUnits(orders[o].items, b)
                /\ orders[o].status = "cancelled" => OrderUnits(o, b) = {}
<1>1. ASSUME orders' = orders PROVE \A p \in OrderIds : OrderUnits(p, b)' = OrderUnits(p, b)
  BY <1>1 DEF OrderUnits, ListUnits
<1>2. ASSUME NEW list \in ItemLists, NEW new \in Nat,
             orders' = NewOrder(list), new = Len(orders) + 1
      PROVE  /\ \A p \in OrderIds \ {new} : OrderUnits(p, b)' = OrderUnits(p, b)
             /\ OrderUnits(new, b) = {} /\ OrderUnits(new, b)' = ListUnits(list, b)
  <2>1. /\ Len(orders) \in Nat
        /\ DOMAIN orders = 1 .. Len(orders) /\ DOMAIN orders' = 1 .. new
        /\ \A o \in DOMAIN orders : orders'[o] = orders[o]
        /\ orders'[new].items = list /\ orders'[new].status = "created"
    BY <1>2, NewOrderFacts
  <2>2. new \in DOMAIN orders' /\ new \notin DOMAIN orders
    BY <1>2, <2>1
  <2>3. \A p \in OrderIds \ {new} : p \in DOMAIN orders' <=> p \in DOMAIN orders
    BY <1>2, <2>1 DEF OrderIds
  <2>4. ASSUME NEW p \in OrderIds \ {new} PROVE OrderUnits(p, b)' = OrderUnits(p, b)
    BY <2>1, <2>3 DEF OrderUnits, ListUnits
  <2>5. OrderUnits(new, b) = {}
    BY <2>2 DEF OrderUnits
  <2>6. OrderUnits(new, b)' = ListUnits(list, b)
    BY <2>1, <2>2 DEF OrderUnits, ListUnits
  <2> QED
    BY <2>4, <2>5, <2>6
<1>3. ASSUME NEW o \in DOMAIN orders, MarkCancelled(o)
      PROVE  /\ \A p \in OrderIds \ {o} : OrderUnits(p, b)' = OrderUnits(p, b)
             /\ OrderUnits(o, b)' = {}
             /\ orders[o].status # "cancelled" => OrderUnits(o, b) = ListUnits(orders[o].items, b)
             /\ orders[o].status = "cancelled" => OrderUnits(o, b) = {}
  <2>1. /\ DOMAIN orders' = DOMAIN orders
        /\ \A p \in DOMAIN orders : p # o => orders'[p] = orders[p]
        /\ orders'[o].status = "cancelled"
    BY <1>3, MarkedFacts
  <2>2. orders[o].status \in {"created", "cancelled"}
    <3>1. orders \in Seq(OrderRows) /\ DOMAIN orders = 1 .. Len(orders)
      BY DEF LocalInv, TypeOK
    <3>2. orders[o] \in OrderRows
      BY <3>1, ElementOfSeq
    <3> QED
      BY <3>2 DEF OrderRows
  <2>3. ASSUME NEW p \in OrderIds \ {o} PROVE OrderUnits(p, b)' = OrderUnits(p, b)
    BY <2>1 DEF OrderUnits, ListUnits
  <2>4. OrderUnits(o, b)' = {}
    BY <2>1 DEF OrderUnits
  <2>5. orders[o].status # "cancelled" => OrderUnits(o, b) = ListUnits(orders[o].items, b)
    BY <2>2 DEF OrderUnits, ListUnits
  <2>6. orders[o].status = "cancelled" => OrderUnits(o, b) = {}
    BY DEF OrderUnits
  <2> QED
    BY <2>3, <2>4, <2>5, <2>6
<1> QED
  BY <1>1, <1>2, <1>3

-----------------------------------------------------------------------------
(* The balance of every step *)

(* The balance of a step that leaves the orders alone. *)
HandBalance(w, b) ==
  LET before == available[b] + Cardinality(MyUnits(w, b))
      after == available'[b] + Cardinality(MyUnits(w, b)')
  IN  /\ after + stocked[b] + excess[b] <= before + stocked'[b] + excess'[b]
      /\ faults' = faults /\ crashes' = crashes =>
           after + stocked[b] + excess[b] = before + stocked'[b] + excess'[b]

(* The stock and the history of one book are numbers, before and after. *)
Numbers(b) == /\ available[b] \in Nat /\ available'[b] \in Nat
              /\ stocked[b] \in Nat /\ stocked'[b] \in Nat
              /\ excess[b] \in Nat /\ excess'[b] \in Nat

(* A step of worker w that changes at most order o. *)
LEMMA PilesBalanceStep ==
  ASSUME LocalInv, NEW b \in Books, Numbers(b), NEW w \in Workers, NEW o \in OrderIds,
         \A v \in Workers \ {w} : Unmoved(v),
         \A p \in DOMAIN orders : orders'[p].items = orders[p].items,
         \A p \in OrderIds \ {o} : OrderUnits(p, b)' = OrderUnits(p, b),
         PilesBalance(w, o, b)
  PROVE  Balanced(b)
<1>1. \A v \in Workers \ {w} : MyUnits(v, b)' = MyUnits(v, b)
  <2> SUFFICES ASSUME NEW v \in Workers \ {w} PROVE MyUnits(v, b)' = MyUnits(v, b)
    OBVIOUS
  <2>1. pc[v] = "reread" => order[v] \in DOMAIN orders
    BY DEF LocalInv, WorkerPlace
  <2> QED
    BY <2>1, UnmovedUnits
<1>2. /\ {available[b], available'[b]} \subseteq Nat
      /\ {stocked[b], stocked'[b], excess[b], excess'[b]} \subseteq Nat
  BY DEF Numbers
<1> QED
  BY <1>1, <1>2, StepBalance

(* A step of worker w that changes no order. *)
LEMMA HandBalanceStep ==
  ASSUME LocalInv, NEW b \in Books, Numbers(b), NEW w \in Workers,
         \A v \in Workers \ {w} : Unmoved(v), orders' = orders,
         Cardinality(MyUnits(w, b)) \in Nat, Cardinality(MyUnits(w, b)') \in Nat,
         HandBalance(w, b)
  PROVE  Balanced(b)
<1>1. PICK o \in OrderIds : TRUE
  BY LocalAssumption DEF OrderIds
<1>2. \A p \in OrderIds : OrderUnits(p, b)' = OrderUnits(p, b)
  BY OrderPiles
<1>3. Cardinality(OrderUnits(o, b)) \in Nat
  <2>1. OrderUnits(o, b) \subseteq Slots
    BY DEF OrderUnits
  <2> QED
    BY <2>1, SlotsFinite, Fewer
<1> DEFINE n == Cardinality(OrderUnits(o, b))
           m == Cardinality(MyUnits(w, b))
           k == Cardinality(MyUnits(w, b)')
<1>4. n \in Nat /\ m \in Nat /\ k \in Nat /\ Cardinality(OrderUnits(o, b)') = n
  BY <1>2, <1>3
<1>5. /\ available'[b] + k + stocked[b] + excess[b] <= available[b] + m + stocked'[b] + excess'[b]
      /\ faults' = faults /\ crashes' = crashes =>
           available'[b] + k + stocked[b] + excess[b] = available[b] + m + stocked'[b] + excess'[b]
  BY DEF HandBalance
<1>6. PilesBalance(w, o, b) <=>
        /\ available'[b] + n + k + stocked[b] + excess[b] <= available[b] + n + m + stocked'[b] + excess'[b]
        /\ faults' = faults /\ crashes' = crashes =>
             available'[b] + n + k + stocked[b] + excess[b] = available[b] + n + m + stocked'[b] + excess'[b]
  BY <1>4 DEF PilesBalance
<1> HIDE DEF n, m, k
<1>7. PilesBalance(w, o, b)
  BY <1>4, <1>5, <1>6 DEF Numbers
<1> QED
  BY <1>2, <1>7, PilesBalanceStep

(* A step that leaves the workers and the orders alone. *)
LEMMA StockBalanceStep ==
  ASSUME LocalInv, NEW b \in Books, Numbers(b), UNCHANGED <<orders, workerVars>>,
         available'[b] + stocked[b] + excess[b] = available[b] + stocked'[b] + excess'[b]
  PROVE  Balanced(b)
<1>1. SoldUnits(b)' = SoldUnits(b)
  BY DEF SoldUnits
<1>2. WorkerUnits(b)' = WorkerUnits(b)
  BY DEF WorkerUnits, ItemsOf, Holds, workerVars
<1>3. Cardinality(SoldUnits(b)) \in Nat
  <2>1. SoldUnits(b) \subseteq OrderIds \X Slots
    BY DEF SoldUnits
  <2> QED
    BY <2>1, SlotsFinite, FS_Product, Fewer
<1>4. Cardinality(WorkerUnits(b)) \in Nat
  <2>1. WorkerUnits(b) \subseteq Workers \X Slots
    BY DEF WorkerUnits
  <2> QED
    BY <2>1, SlotsFinite, FS_Product, Fewer
<1> DEFINE s == Cardinality(SoldUnits(b))
           h == Cardinality(WorkerUnits(b))
<1>5. Accounted(b) = available[b] + s + h /\ Accounted(b)' = available'[b] + s + h
  BY <1>1, <1>2 DEF Accounted
<1>6. s \in Nat /\ h \in Nat
  BY <1>3, <1>4
<1> HIDE DEF s, h
<1> QED
  BY <1>5, <1>6 DEF Balanced, Numbers

(* The loops that reserve: an item more in hand is an item less in stock,  *)
(* and a rollback starts with exactly what has been reserved.              *)
LEMMA ReserveBalance ==
  ASSUME LocalInv, NEW b \in Books, Numbers(b), NEW w \in Workers,
         ReserveItem(w) \/ ReserveRefused(w) \/ ReserveFails(w)
  PROVE  Balanced(b)
<1> DEFINE list == items[w]
           n == next[w]
           share == Share(list[n], b)
<1>1. /\ pc[w] = "reserve" /\ owns[w] = TRUE /\ list \in ItemLists /\ n \in 1 .. Len(list)
      /\ Len(list) \in Nat
  BY ListFacts DEF LocalInv, WorkerPlace, ReserveItem, ReserveRefused, ReserveFails
<1>2. Locals /\ available \in [Books -> Nat]
  BY DEF LocalInv, TypeOK, Locals
<1>3. list[n].book \in Books /\ list[n].quantity \in Nat
  BY <1>1, ListFacts
<1>4. MyUnits(w, b) = Below(list, b, n)
  BY <1>1, HandFacts DEF HandIs
<1>5. /\ share \in Nat /\ Cardinality(Below(list, b, n)) \in Nat
      /\ Cardinality(Below(list, b, n + 1)) = Cardinality(Below(list, b, n)) + share
  BY <1>1, PartFacts
<1>6. TakeUnits(Current(w)) => available'[b] = available[b] - share
  BY <1>2, <1>3 DEF TakeUnits, Current, Share
<1>7. ASSUME RollBackReserved(w)
      PROVE  MyUnits(w, b)' = MyUnits(w, b) /\ \A v \in Workers \ {w} : Unmoved(v)
  <2>1. /\ \A v \in Workers \ {w} : Unmoved(v)
        /\ \/ n = 1 /\ pc'[w] = "idle"
           \/ /\ n - 1 \in 1 .. Len(list)
              /\ pc'[w] = "give" /\ next'[w] = 1 /\ owns'[w] = TRUE
              /\ items'[w] = SubSeq(list, 1, n - 1)
    BY <1>1, <1>7, RollBackFacts
  <2>2. ASSUME n = 1, pc'[w] = "idle" PROVE MyUnits(w, b)' = MyUnits(w, b)
    BY <1>1, <1>4, <2>2, HandFacts, PartFacts DEF HandIs
  <2>3. ASSUME n - 1 \in 1 .. Len(list), pc'[w] = "give", next'[w] = 1, owns'[w] = TRUE,
               items'[w] = SubSeq(list, 1, n - 1)
        PROVE  MyUnits(w, b)' = MyUnits(w, b)
    <3> DEFINE prefix == SubSeq(list, 1, n - 1)
    <3>1. prefix \in ItemLists
      BY <1>1, <2>3, PrefixFacts
    <3>2. ListUnits(prefix, b) = Below(list, b, (n - 1) + 1)
      BY <1>1, <2>3, PrefixUnits
    <3>3. (n - 1) + 1 = n
      BY <1>1
    <3> HIDE DEF prefix
    <3>4. From(prefix, b, 1) = ListUnits(prefix, b)
      BY <3>1, PartFacts
    <3>5. MyUnits(w, b)' = From(prefix, b, 1)
      BY <2>3, HandFacts DEF HandIs, prefix
    <3> QED
      BY <1>4, <3>2, <3>3, <3>4, <3>5
  <2> QED
    BY <2>1, <2>2, <2>3
<1> HIDE DEF share
<1>8. CASE ReserveItem(w)
  <2>1. /\ next'[w] = n + 1 /\ items'[w] = list /\ owns'[w] = owns[w]
        /\ pc'[w] = IF n = Len(list) THEN "insert" ELSE "reserve"
        /\ \A v \in Workers \ {w} : Unmoved(v)
    BY <1>2, <1>8 DEF ReserveItem, Locals, Unmoved
  <2>2. MyUnits(w, b)' = Below(list, b, n + 1)
    <3>1. CASE n = Len(list)
      <4>1. MyUnits(w, b)' = ListUnits(list, b)
        BY <1>1, <2>1, <3>1, HandFacts DEF HandIs
      <4> QED
        BY <1>1, <3>1, <4>1, PartFacts
    <3>2. CASE n # Len(list)
      BY <1>1, <2>1, <3>2, HandFacts DEF HandIs
    <3> QED
      BY <3>1, <3>2
  <2>3. /\ orders' = orders /\ stocked' = stocked /\ excess' = excess
        /\ available'[b] = available[b] - share
    BY <1>6, <1>8 DEF ReserveItem, historyVars
  <2>4. /\ Cardinality(MyUnits(w, b)) \in Nat /\ Cardinality(MyUnits(w, b)') \in Nat
        /\ Cardinality(MyUnits(w, b)') = Cardinality(MyUnits(w, b)) + share
    BY <1>4, <1>5, <2>2
  <2>5. HandBalance(w, b)
    BY <1>5, <2>3, <2>4 DEF HandBalance, Numbers
  <2> QED
    BY <2>1, <2>3, <2>4, <2>5, HandBalanceStep
<1>9. CASE ReserveRefused(w)
  <2>1. /\ orders' = orders /\ stocked' = stocked /\ excess' = excess /\ available' = available
        /\ RollBackReserved(w)
    BY <1>9 DEF ReserveRefused, historyVars, dbVars
  <2>2. MyUnits(w, b)' = MyUnits(w, b) /\ Cardinality(MyUnits(w, b)) \in Nat
    BY <1>4, <1>5, <1>7, <2>1
  <2>3. HandBalance(w, b)
    BY <2>1, <2>2 DEF HandBalance, Numbers
  <2> QED
    BY <1>7, <2>1, <2>2, <2>3, HandBalanceStep
<1>10. CASE ReserveFails(w)
  <2>1. /\ orders' = orders /\ stocked' = stocked /\ excess' = excess
        /\ RollBackReserved(w) /\ available'[b] <= available[b]
    BY <1>5, <1>6, <1>10 DEF ReserveFails, Numbers
  <2>2. MyUnits(w, b)' = MyUnits(w, b) /\ Cardinality(MyUnits(w, b)) \in Nat
    BY <1>4, <1>5, <1>7, <2>1
  <2>3. faults' # faults
    <3>1. faults \in Int
      BY LocalAssumption DEF LocalInv, TypeOK
    <3> QED
      BY <1>10, <3>1 DEF ReserveFails, Fault
  <2>4. HandBalance(w, b)
    BY <2>1, <2>2, <2>3 DEF HandBalance, Numbers
  <2> QED
    BY <1>7, <2>1, <2>2, <2>4, HandBalanceStep
<1> QED
  BY <1>8, <1>9, <1>10

(* The insertion hands the reserved units over to the order, or back to    *)
(* the loop that releases them; an order that was inserted although its    *)
(* request was told otherwise has them too, and then the loop does not.    *)
LEMMA InsertBalance ==
  ASSUME LocalInv, LocalInv', NEW b \in Books, Numbers(b), NEW w \in Workers,
         InsertOrder(w) \/ InsertFails(w)
  PROVE  Balanced(b)
<1> DEFINE list == items[w]
<1>1. /\ pc[w] = "insert" /\ owns[w] = TRUE /\ list \in ItemLists
  BY DEF LocalInv, WorkerPlace, InsertOrder, InsertFails
<1>2. MyUnits(w, b) = ListUnits(list, b) /\ Cardinality(ListUnits(list, b)) \in Nat
  BY <1>1, HandFacts, PartFacts DEF HandIs
<1>3. stocked' = stocked /\ excess' = excess /\ available' = available
  BY DEF InsertOrder, InsertFails, historyVars
<1>4. Cardinality({}) = 0
  BY FS_EmptySet
<1>5. ASSUME orders' = NewOrder(list), MyUnits(w, b)' = {}, \A v \in Workers \ {w} : Unmoved(v)
      PROVE  Balanced(b)
  <2>1. /\ Len(orders) \in Nat /\ Len(orders') = Len(orders) + 1
        /\ \A p \in DOMAIN orders : orders'[p].items = orders[p].items
    BY <1>1, <1>5, NewOrderFacts
  <2>2. PICK new \in Nat : new = Len(orders) + 1
    BY <2>1
  <2>3. new \in OrderIds
    <3>1. Len(orders') <= MaxOrders
      BY DEF LocalInv, TypeOK
    <3> QED
      BY <2>1, <2>2, <3>1, LocalAssumption DEF OrderIds
  <2>4. /\ \A p \in OrderIds \ {new} : OrderUnits(p, b)' = OrderUnits(p, b)
        /\ OrderUnits(new, b) = {} /\ OrderUnits(new, b)' = ListUnits(list, b)
    BY <1>1, <1>5, <2>2, OrderPiles
  <2>5. /\ Cardinality(OrderUnits(new, b)) = 0 /\ Cardinality(MyUnits(w, b)') = 0
        /\ Cardinality(OrderUnits(new, b)') = Cardinality(MyUnits(w, b))
        /\ Cardinality(MyUnits(w, b)) \in Nat
    BY <1>2, <1>4, <1>5, <2>4
  <2>6. PilesBalance(w, new, b)
    BY <1>3, <2>5 DEF PilesBalance, Numbers
  <2> QED
    BY <1>5, <2>1, <2>3, <2>4, <2>6, PilesBalanceStep
<1>6. CASE InsertOrder(w)
  <2>1. orders' = NewOrder(list) /\ Answer(w)
    BY <1>6 DEF InsertOrder
  <2>2. pc'[w] = "idle" /\ \A v \in Workers \ {w} : Unmoved(v)
    BY <2>1, AnswerFacts
  <2>3. MyUnits(w, b)' = {}
    BY <2>2, HandFacts DEF HandIs
  <2> QED
    BY <1>5, <2>1, <2>2, <2>3
<1>7. ASSUME GiveBack(w, list, TRUE), orders' = orders PROVE Balanced(b)
  <2>1. /\ pc'[w] = "give" /\ items'[w] = list /\ next'[w] = 1 /\ owns'[w] = TRUE
        /\ \A v \in Workers \ {w} : Unmoved(v)
    BY <1>1, <1>7, GiveBackFacts
  <2>2. MyUnits(w, b)' = MyUnits(w, b)
    <3>1. MyUnits(w, b)' = From(list, b, 1)
      BY <2>1, HandFacts DEF HandIs
    <3> QED
      BY <1>1, <1>2, <3>1, PartFacts
  <2>3. Cardinality(MyUnits(w, b)) \in Nat
    BY <1>2
  <2>4. HandBalance(w, b)
    BY <1>3, <2>2, <2>3 DEF HandBalance, Numbers
  <2> QED
    BY <1>7, <2>1, <2>2, <2>3, <2>4, HandBalanceStep
<1>8. ASSUME GiveBack(w, list, FALSE), orders' = NewOrder(list) PROVE Balanced(b)
  <2>1. owns'[w] = FALSE /\ \A v \in Workers \ {w} : Unmoved(v)
    BY <1>1, <1>8, GiveBackFacts
  <2>2. MyUnits(w, b)' = {}
    BY <2>1, HandFacts DEF HandIs
  <2> QED
    BY <1>5, <1>8, <2>1, <2>2
<1> QED
  BY <1>6, <1>7, <1>8 DEF InsertFails

(* The loop that releases: a unit goes from the worker to the stock, or,   *)
(* when the worker does not own it, into the excess; a release that fails  *)
(* loses it.                                                               *)
LEMMA ReleaseBalance ==
  ASSUME LocalInv, NEW b \in Books, Numbers(b), NEW w \in Workers,
         ReleaseItem(w) \/ ReleaseFails(w)
  PROVE  Balanced(b)
<1> DEFINE list == items[w]
           n == next[w]
           share == Share(list[n], b)
<1>1. /\ pc[w] = "give" /\ list \in ItemLists /\ n \in 1 .. Len(list) /\ Len(list) \in Nat
      /\ AfterGive(w)
  BY ListFacts DEF LocalInv, WorkerPlace, ReleaseItem, ReleaseFails
<1>2. Locals /\ available \in [Books -> Nat] /\ excess \in [Books -> Nat] /\ owns[w] \in BOOLEAN
  BY DEF LocalInv, TypeOK, Locals
<1>3. list[n].book \in Books /\ list[n].quantity \in Nat
  BY <1>1, ListFacts
<1>4. /\ share \in Nat /\ Cardinality(From(list, b, n)) \in Nat
      /\ Cardinality(From(list, b, n)) = Cardinality(From(list, b, n + 1)) + share
  BY <1>1, PartFacts
<1>5. /\ \A v \in Workers \ {w} : Unmoved(v)
      /\ \/ n = Len(list) /\ pc'[w] = "idle"
         \/ /\ n # Len(list) /\ pc'[w] = "give" /\ next'[w] = n + 1
            /\ items'[w] = list /\ owns'[w] = owns[w]
  BY <1>1, AfterGiveFacts
<1>6. Cardinality({}) = 0
  BY FS_EmptySet
<1>7. ASSUME owns[w] = TRUE
      PROVE  MyUnits(w, b) = From(list, b, n) /\ MyUnits(w, b)' = From(list, b, n + 1)
  <2>1. MyUnits(w, b) = From(list, b, n)
    BY <1>1, <1>7, HandFacts DEF HandIs
  <2>2. ASSUME n = Len(list), pc'[w] = "idle" PROVE MyUnits(w, b)' = From(list, b, n + 1)
    <3>1. MyUnits(w, b)' = {}
      BY <2>2, HandFacts DEF HandIs
    <3> QED
      BY <1>1, <2>2, <3>1, PartFacts
  <2>3. ASSUME pc'[w] = "give", next'[w] = n + 1, items'[w] = list, owns'[w] = owns[w]
        PROVE  MyUnits(w, b)' = From(list, b, n + 1)
    BY <1>7, <2>3, HandFacts DEF HandIs
  <2> QED
    BY <1>5, <2>1, <2>2, <2>3
<1>8. ASSUME owns[w] = FALSE PROVE MyUnits(w, b) = {} /\ MyUnits(w, b)' = {}
  BY <1>5, <1>8, HandFacts DEF HandIs
<1>10. Cardinality(MyUnits(w, b)) \in Nat /\ Cardinality(MyUnits(w, b)') \in Nat
  BY HandsFinite
<1>11. /\ owns[w] = TRUE => Cardinality(MyUnits(w, b)) = Cardinality(MyUnits(w, b)') + share
       /\ owns[w] = FALSE => Cardinality(MyUnits(w, b)) = Cardinality(MyUnits(w, b)')
  BY <1>4, <1>7, <1>8
<1>12. CASE ReleaseItem(w)
  <2>1. /\ available' = [available EXCEPT ![list[n].book] = @ + list[n].quantity]
        /\ owns[w] = TRUE => excess' = excess
        /\ owns[w] = FALSE => excess' = [excess EXCEPT ![list[n].book] = @ + list[n].quantity]
        /\ orders' = orders /\ stocked' = stocked
    BY <1>12 DEF ReleaseItem, Current
  <2>2. /\ available'[b] = available[b] + share
        /\ owns[w] = TRUE => excess'[b] = excess[b]
        /\ owns[w] = FALSE => excess'[b] = excess[b] + share
    BY <1>2, <1>3, <2>1 DEF Share
  <2> HIDE DEF share
  <2>3. ASSUME owns[w] = TRUE PROVE HandBalance(w, b)
    <3>1. /\ Cardinality(MyUnits(w, b)) = Cardinality(MyUnits(w, b)') + share
          /\ excess'[b] = excess[b]
      BY <1>11, <2>2, <2>3
    <3> QED
      BY <1>4, <1>10, <2>1, <2>2, <3>1 DEF HandBalance, Numbers
  <2>4. ASSUME owns[w] = FALSE PROVE HandBalance(w, b)
    <3>1. /\ Cardinality(MyUnits(w, b)) = Cardinality(MyUnits(w, b)')
          /\ excess'[b] = excess[b] + share
      BY <1>11, <2>2, <2>4
    <3> QED
      BY <1>4, <1>10, <2>1, <2>2, <3>1 DEF HandBalance, Numbers
  <2> QED
    BY <1>2, <1>5, <1>10, <2>1, <2>3, <2>4, HandBalanceStep
<1>13. CASE ReleaseFails(w)
  <2>1. /\ available' = available /\ excess' = excess /\ orders' = orders /\ stocked' = stocked
    BY <1>13 DEF ReleaseFails, dbVars
  <2>2. faults' # faults
    <3>1. faults \in Int
      BY LocalAssumption DEF LocalInv, TypeOK
    <3> QED
      BY <1>13, <3>1 DEF ReleaseFails, Fault
  <2> HIDE DEF share
  <2>3. Cardinality(MyUnits(w, b)') <= Cardinality(MyUnits(w, b))
    <3>1. CASE owns[w] = TRUE
      BY <1>4, <1>10, <1>11, <3>1
    <3>2. CASE owns[w] = FALSE
      BY <1>10, <1>11, <3>2
    <3> QED
      BY <1>2, <3>1, <3>2
  <2>4. HandBalance(w, b)
    BY <1>10, <2>1, <2>2, <2>3 DEF HandBalance, Numbers
  <2> QED
    BY <1>5, <1>10, <2>1, <2>4, HandBalanceStep
<1> QED
  BY <1>12, <1>13

(* A worker that has nothing and takes nothing changes nothing. *)
LEMMA EmptyHands ==
  ASSUME LocalInv, NEW b \in Books, Numbers(b), NEW w \in Workers,
         \A v \in Workers \ {w} : Unmoved(v), UNCHANGED <<dbVars, stocked, excess>>,
         MyUnits(w, b) = {}, MyUnits(w, b)' = {}
  PROVE  Balanced(b)
<1>1. Cardinality(MyUnits(w, b)) = 0 /\ Cardinality(MyUnits(w, b)') = 0
  BY FS_EmptySet
<1>2. HandBalance(w, b)
  BY <1>1 DEF HandBalance, Numbers, dbVars
<1> QED
  BY <1>1, <1>2, HandBalanceStep DEF dbVars

(* The UPDATE of a cancel hands the units of an order over to the worker   *)
(* that changed it; they are lost with an UPDATE or a query that fails.    *)
LEMMA CancelBalance ==
  ASSUME LocalInv, NEW b \in Books, Numbers(b), NEW w \in Workers,
         CancelUpdate(w) \/ CancelUpdateFails(w) \/ CancelReread(w) \/ CancelRereadFails(w)
  PROVE  Balanced(b)
<1>1. order[w] \in DOMAIN orders /\ orders[order[w]].items \in ItemLists
  BY DEF LocalInv, WorkerPlace, CancelUpdate, CancelUpdateFails, CancelReread, CancelRereadFails
<1>2. PICK o \in OrderIds : o = order[w]
  BY DEF LocalInv, TypeOK
<1> DEFINE list == orders[o].items
           n == Cardinality(ListUnits(list, b))
<1>3. Locals /\ stocked' = stocked /\ excess' = excess /\ available' = available /\ owns[w] \in BOOLEAN
  BY DEF CancelUpdate, CancelUpdateFails, CancelReread, CancelRereadFails, historyVars, dbVars,
         LocalInv, TypeOK, Locals
<1>4. n \in Nat /\ Cardinality({}) = 0
  BY <1>1, <1>2, PartFacts, FS_EmptySet
<1>5. ASSUME MarkCancelled(o)
      PROVE  /\ \A p \in DOMAIN orders : orders'[p].items = orders[p].items
             /\ \A p \in OrderIds \ {o} : OrderUnits(p, b)' = OrderUnits(p, b)
             /\ OrderUnits(o, b)' = {}
             /\ orders[o].status # "cancelled" => OrderUnits(o, b) = ListUnits(list, b)
             /\ orders[o].status = "cancelled" => OrderUnits(o, b) = {}
  BY <1>1, <1>2, <1>5, MarkedFacts, OrderPiles
<1> HIDE DEF list
<1>6. ASSUME MarkCancelled(o)
      PROVE  /\ Cardinality(OrderUnits(o, b)') = 0
             /\ orders[o].status # "cancelled" => Cardinality(OrderUnits(o, b)) = n
             /\ orders[o].status = "cancelled" => Cardinality(OrderUnits(o, b)) = 0
  BY <1>4, <1>5, <1>6
<1>7. pc[w] = "cancel" => MyUnits(w, b) = {}
  BY HandFacts DEF HandIs
<1> HIDE DEF n
<1>10. CASE CancelUpdate(w)
  <2>1. /\ MarkCancelled(o) /\ pc'[w] = "reread" /\ order'[w] = o /\ pc[w] = "cancel"
        /\ \A v \in Workers \ {w} : Unmoved(v)
    BY <1>2, <1>3, <1>10 DEF CancelUpdate, Locals, Unmoved
  <2>2. /\ orders[o].status # "cancelled" => owns'[w] = TRUE
        /\ orders[o].status = "cancelled" => owns'[w] = FALSE
    BY <1>2, <1>3, <1>10 DEF CancelUpdate, Locals
  <2>3. orders'[o].items = list
    BY <1>1, <1>2, <1>5, <2>1 DEF list
  <2>4. Cardinality(MyUnits(w, b)) = 0
    BY <1>4, <1>7, <2>1
  <2>5. ASSUME orders[o].status # "cancelled" PROVE Cardinality(MyUnits(w, b)') = n
    <3>1. MyUnits(w, b)' = ListUnits(list, b)
      BY <2>1, <2>2, <2>3, <2>5, HandFacts DEF HandIs
    <3> QED
      BY <3>1 DEF n
  <2>6. ASSUME orders[o].status = "cancelled" PROVE Cardinality(MyUnits(w, b)') = 0
    <3>1. MyUnits(w, b)' = {}
      BY <2>2, <2>6, HandFacts DEF HandIs
    <3> QED
      BY <1>4, <3>1
  <2>7. Cardinality(OrderUnits(o, b)) = Cardinality(MyUnits(w, b)') /\ Cardinality(OrderUnits(o, b)) \in Nat
    BY <1>4, <1>6, <2>1, <2>5, <2>6
  <2>8. Cardinality(OrderUnits(o, b)') = 0
    BY <1>6, <2>1
  <2>9. PilesBalance(w, o, b)
    BY <1>3, <2>4, <2>7, <2>8 DEF PilesBalance, Numbers
  <2> QED
    BY <1>5, <2>1, <2>9, PilesBalanceStep
<1>11. CASE CancelUpdateFails(w)
  <2>1. pc[w] = "cancel" /\ Answer(w)
    BY <1>11 DEF CancelUpdateFails
  <2>2. pc'[w] = "idle" /\ \A v \in Workers \ {w} : Unmoved(v)
    BY <2>1, AnswerFacts
  <2>3. MyUnits(w, b)' = {} /\ MyUnits(w, b) = {}
    BY <1>7, <2>1, <2>2, HandFacts DEF HandIs
  <2>4. faults' # faults
    <3>1. faults \in Int
      BY LocalAssumption DEF LocalInv, TypeOK
    <3> QED
      BY <1>11, <3>1 DEF CancelUpdateFails, Fault
  <2>5. ASSUME orders' = orders PROVE Balanced(b)
    BY <1>3, <2>2, <2>3, <2>5, EmptyHands DEF dbVars
  <2>6. ASSUME MarkCancelled(o) PROVE Balanced(b)
    <3>1. /\ Cardinality(OrderUnits(o, b)') = 0 /\ Cardinality(OrderUnits(o, b)) \in Nat
      BY <1>4, <1>6, <2>6
    <3>2. Cardinality(MyUnits(w, b)') = 0 /\ Cardinality(MyUnits(w, b)) = 0
      BY <1>4, <2>3
    <3>3. PilesBalance(w, o, b)
      BY <1>3, <2>4, <3>1, <3>2 DEF PilesBalance, Numbers
    <3> QED
      BY <1>5, <2>2, <2>6, <3>3, PilesBalanceStep
  <2> QED
    BY <1>2, <1>11, <2>5, <2>6 DEF CancelUpdateFails
<1>12. CASE CancelReread(w)
  <2>1. pc[w] = "reread" /\ orders' = orders /\ GiveBack(w, list, owns[w])
    BY <1>2, <1>12 DEF CancelReread, dbVars, list
  <2>2. /\ pc'[w] = "give" /\ items'[w] = list /\ next'[w] = 1 /\ owns'[w] = owns[w]
        /\ \A v \in Workers \ {w} : Unmoved(v)
    <3>1. list \in ItemLists
      BY <1>1, <1>2 DEF list
    <3> QED
      BY <1>3, <2>1, <3>1, GiveBackFacts
  <2>3. ASSUME owns[w] = TRUE
        PROVE  MyUnits(w, b)' = MyUnits(w, b) /\ Cardinality(MyUnits(w, b)) = n
    <3>1. MyUnits(w, b) = ListUnits(list, b)
      BY <1>2, <2>1, <2>3, HandFacts DEF HandIs, list
    <3>2. MyUnits(w, b)' = From(list, b, 1)
      BY <2>2, <2>3, HandFacts DEF HandIs
    <3> QED
      BY <1>1, <1>2, <3>1, <3>2, PartFacts DEF n, list
  <2>4. ASSUME owns[w] = FALSE PROVE MyUnits(w, b) = {} /\ MyUnits(w, b)' = {}
    BY <2>2, <2>4, HandFacts DEF HandIs
  <2>5. MyUnits(w, b)' = MyUnits(w, b) /\ Cardinality(MyUnits(w, b)) \in Nat
    <3>1. owns[w] = TRUE \/ owns[w] = FALSE
      BY <1>3
    <3>2. MyUnits(w, b)' = MyUnits(w, b)
      BY <2>3, <2>4, <3>1
    <3> QED
      BY <3>2, HandsFinite
  <2>6. HandBalance(w, b)
    BY <1>3, <2>5 DEF HandBalance, Numbers
  <2> QED
    BY <2>1, <2>2, <2>5, <2>6, HandBalanceStep
<1>13. CASE CancelRereadFails(w)
  <2>1. pc[w] = "reread" /\ orders' = orders /\ Answer(w)
    BY <1>13 DEF CancelRereadFails, dbVars
  <2>2. pc'[w] = "idle" /\ \A v \in Workers \ {w} : Unmoved(v)
    BY <2>1, AnswerFacts
  <2>3. MyUnits(w, b)' = {}
    BY <2>2, HandFacts DEF HandIs
  <2>4. Cardinality(MyUnits(w, b)) \in Nat /\ Cardinality(MyUnits(w, b)') = 0
    BY <1>4, <2>3, HandsFinite
  <2>5. faults' # faults
    <3>1. faults \in Int
      BY LocalAssumption DEF LocalInv, TypeOK
    <3> QED
      BY <1>13, <3>1 DEF CancelRereadFails, Fault
  <2>6. HandBalance(w, b)
    BY <1>3, <2>4, <2>5 DEF HandBalance, Numbers
  <2> QED
    BY <2>1, <2>2, <2>4, <2>6, HandBalanceStep
<1> QED
  BY <1>10, <1>11, <1>12, <1>13

(* A crash empties every worker's hands. *)
LEMMA CrashBalance ==
  ASSUME LocalInv, NEW b \in Books, Numbers(b), Crash
  PROVE  Balanced(b)
<1>1. /\ SoldUnits(b)' = SoldUnits(b) /\ available' = available
      /\ stocked' = stocked /\ excess' = excess
  BY DEF Crash, SoldUnits, dbVars
<1>2. WorkerUnits(b)' = {}
  BY DEF Crash, WorkerUnits, ItemsOf, Holds
<1>3. Cardinality(WorkerUnits(b)') = 0
  BY <1>2, FS_EmptySet
<1>4. Cardinality(SoldUnits(b)) \in Nat /\ Cardinality(WorkerUnits(b)) \in Nat
  <2>1. SoldUnits(b) \subseteq OrderIds \X Slots /\ WorkerUnits(b) \subseteq Workers \X Slots
    BY DEF SoldUnits, WorkerUnits
  <2> QED
    BY <2>1, SlotsFinite, FS_Product, Fewer
<1>5. crashes' # crashes
  <2>1. crashes \in Int
    BY LocalAssumption DEF LocalInv, TypeOK
  <2> QED
    BY <2>1 DEF Crash
<1> DEFINE s == Cardinality(SoldUnits(b))
           h == Cardinality(WorkerUnits(b))
<1>6. Accounted(b) = available[b] + s + h /\ Accounted(b)' = available[b] + s + 0
  BY <1>1, <1>3 DEF Accounted
<1>7. s \in Nat /\ h \in Nat
  BY <1>4
<1> HIDE DEF s, h
<1> QED
  BY <1>1, <1>5, <1>6, <1>7 DEF Balanced, Numbers

(* Every step balances. *)
LEMMA BalanceStep ==
  ASSUME LocalInv, LocalInv', [Next]_vars, NEW b \in Books
  PROVE  Balanced(b)
<1>1. Numbers(b)
  BY DEF LocalInv, TypeOK, Numbers
<1>2. ASSUME NEW w \in Workers, NEW request \in ItemLists, CreateOrder(w, request) PROVE Balanced(b)
  <2>1. /\ pc[w] = "idle" /\ pc'[w] = "reserve" /\ items'[w] = request /\ next'[w] = 1 /\ owns'[w] = TRUE
        /\ \A v \in Workers \ {w} : Unmoved(v)
    <3>1. Locals /\ WorkerPlace(w)
      BY DEF LocalInv, TypeOK, Locals
    <3>2. pc[w] = "idle" /\ next[w] = 1 /\ owns[w] = TRUE
      BY <1>2, <3>1 DEF CreateOrder, WorkerPlace
    <3>3. pc'[w] = "reserve" /\ items'[w] = request /\ \A v \in Workers \ {w} : Unmoved(v)
      BY <1>2, <3>1 DEF CreateOrder, Locals, Unmoved
    <3> QED
      BY <1>2, <3>2, <3>3 DEF CreateOrder
  <2>2. MyUnits(w, b)' = Below(request, b, 1) /\ MyUnits(w, b) = {}
    <3>1. HandIs(w, b) /\ HandIs(w, b)'
      BY HandFacts
    <3>2. MyUnits(w, b) = {}
      BY <2>1, <3>1 DEF HandIs
    <3>3. MyUnits(w, b)' = Below(items'[w], b, next'[w])
      BY <2>1, <3>1 DEF HandIs
    <3> QED
      BY <2>1, <3>2, <3>3
  <2>3. MyUnits(w, b)' = {}
    BY <2>2, PartFacts
  <2> QED
    BY <1>1, <1>2, <2>1, <2>2, <2>3, EmptyHands DEF CreateOrder, historyVars
<1>3. ASSUME NEW w \in Workers, NEW o \in OrderIds, CancelFind(w, o) PROVE Balanced(b)
  <2>1. pc[w] = "idle" /\ pc'[w] = "cancel" /\ \A v \in Workers \ {w} : Unmoved(v)
    BY <1>3 DEF CancelFind, LocalInv, TypeOK, Unmoved
  <2>2. MyUnits(w, b)' = {} /\ MyUnits(w, b) = {}
    BY <2>1, HandFacts DEF HandIs
  <2> QED
    BY <1>1, <1>3, <2>1, <2>2, EmptyHands DEF CancelFind, historyVars
<1>4. ASSUME NEW c \in Books, NEW q \in 1 .. MaxQuantity, AddStock(c, q) PROVE Balanced(b)
  <2>1. available \in [Books -> Nat] /\ stocked \in [Books -> Nat] /\ q \in Nat
    <3>1. q \in Nat
      BY LocalAssumption
    <3> QED
      BY <3>1 DEF LocalInv, TypeOK
  <2>2. available'[b] + stocked[b] + excess[b] = available[b] + stocked'[b] + excess'[b]
    BY <1>1, <1>4, <2>1 DEF AddStock, Numbers
  <2> QED
    BY <1>1, <1>4, <2>2, StockBalanceStep DEF AddStock
<1>5. ASSUME UNCHANGED vars PROVE Balanced(b)
  <2>1. available'[b] + stocked[b] + excess[b] = available[b] + stocked'[b] + excess'[b]
    BY <1>5 DEF vars, dbVars, historyVars
  <2> QED
    BY <1>1, <1>5, <2>1, StockBalanceStep DEF vars, dbVars
<1>6. ASSUME NEW w \in Workers, WorkerStep(w) PROVE Balanced(b)
  BY <1>1, <1>6, ReserveBalance, InsertBalance, ReleaseBalance, CancelBalance DEF WorkerStep
<1>7. ASSUME Crash PROVE Balanced(b)
  BY <1>1, <1>7, CrashBalance
<1> QED
  BY <1>2, <1>3, <1>4, <1>5, <1>6, <1>7 DEF Next, CancelAgain, ReadOnly

-----------------------------------------------------------------------------
(* The two sides of the balance *)

(* At the start everything that was put into stock is there. *)
LEMMA BalanceInit == Init => NoStockInvented /\ NoStockLost
<1> SUFFICES ASSUME Init, NEW b \in Books PROVE Accounted(b) = stocked[b] + excess[b]
                                                /\ Accounted(b) <= stocked[b] + excess[b]
  BY DEF NoStockInvented, NoStockLost
<1>1. SoldUnits(b) = {}
  BY DEF Init, SoldUnits
<1>2. WorkerUnits(b) = {}
  BY DEF Init, WorkerUnits, Holds
<1>3. Accounted(b) = available[b] + 0 + 0
  BY <1>1, <1>2, FS_EmptySet DEF Accounted
<1>4. available[b] = stocked[b] /\ stocked[b] \in Nat /\ excess[b] = 0
  BY LocalAssumption DEF Init
<1> QED
  BY <1>3, <1>4

(* The units of a book are numbers. *)
LEMMA AccountedType ==
  ASSUME LocalInv, LocalInv', NEW b \in Books
  PROVE  Accounted(b) \in Nat /\ Accounted(b)' \in Nat /\ Numbers(b)
<1>1. Numbers(b)
  BY DEF LocalInv, TypeOK, Numbers
<1>2. /\ SoldUnits(b) \subseteq OrderIds \X Slots /\ WorkerUnits(b) \subseteq Workers \X Slots
      /\ SoldUnits(b)' \subseteq OrderIds \X Slots /\ WorkerUnits(b)' \subseteq Workers \X Slots
  BY DEF SoldUnits, WorkerUnits
<1>3. /\ Cardinality(SoldUnits(b)) \in Nat /\ Cardinality(WorkerUnits(b)) \in Nat
      /\ Cardinality(SoldUnits(b)') \in Nat /\ Cardinality(WorkerUnits(b)') \in Nat
  BY <1>2, SlotsFinite, FS_Product, Fewer
<1> QED
  BY <1>1, <1>3 DEF Accounted, Numbers

(* Whatever the threads interleave, whatever statement fails or loses its  *)
(* answer and whenever the process dies, the monolith never sells or shows *)
(* more units of a book than were put into stock, but for the units that   *)
(* overlapping cancels or an insertion wrongly taken to have failed        *)
(* release without owning them.                                            *)
THEOREM LocalInventsNothing == Spec => []NoStockInvented
<1>1. NoStockInvented /\ LocalInv /\ LocalInv' /\ [Next]_vars => NoStockInvented'
  <2> SUFFICES ASSUME NoStockInvented, LocalInv, LocalInv', [Next]_vars, NEW b \in Books
               PROVE  Accounted(b)' <= stocked'[b] + excess'[b]
    BY DEF NoStockInvented
  <2>1. /\ Accounted(b)' + stocked[b] + excess[b] <= Accounted(b) + stocked'[b] + excess'[b]
        /\ Accounted(b) <= stocked[b] + excess[b]
    BY BalanceStep DEF Balanced, NoStockInvented
  <2> QED
    BY <2>1, AccountedType DEF Numbers
<1> QED
  BY <1>1, BalanceInit, LocalInit, LocalStep, PTL DEF Spec

(* As long as no statement fails and the process lives, the balance is     *)
(* exact: every rejected, rolled back or cancelled request of the monolith *)
(* puts back all it took.                                                  *)
THEOREM LocalLosesNothing == Spec => []NoStockLost
<1>1. NoStockLost /\ LocalInv /\ LocalInv' /\ [Next]_vars => NoStockLost'
  <2> SUFFICES ASSUME NoStockLost, LocalInv, LocalInv', [Next]_vars,
                      faults' = 0, crashes' = 0, NEW b \in Books
               PROVE  Accounted(b)' = stocked'[b] + excess'[b]
    BY DEF NoStockLost
  <2>1. faults = 0 /\ crashes = 0
    <3>1. faults \in Nat /\ crashes \in Nat
      BY LocalAssumption DEF LocalInv, TypeOK
    <3>2. faults' \in {faults, faults + 1} /\ crashes' \in {crashes, crashes + 1}
      BY DEF Next, CreateOrder, CancelFind, CancelAgain, ReadOnly, WorkerStep, ReserveItem,
             ReserveRefused, ReserveFails, InsertOrder, InsertFails, ReleaseItem, ReleaseFails,
             CancelUpdate, CancelUpdateFails, CancelReread, CancelRereadFails, AddStock, Crash,
             Fault, vars, historyVars
    <3> QED
      BY <3>1, <3>2
  <2>2. /\ Accounted(b)' + stocked[b] + excess[b] = Accounted(b) + stocked'[b] + excess'[b]
        /\ Accounted(b) = stocked[b] + excess[b]
    BY <2>1, BalanceStep DEF Balanced, NoStockLost
  <2> QED
    BY <2>2, AccountedType DEF Numbers
<1> QED
  BY <1>1, BalanceInit, LocalInit, LocalStep, PTL DEF Spec
=============================================================================
