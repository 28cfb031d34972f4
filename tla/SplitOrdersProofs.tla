------------------------- MODULE SplitOrdersProofs -------------------------
(***************************************************************************)
(* Proofs about the order service of the split deployment, for any number  *)
(* of threads, users, books, orders, faults and restarts: it uses the      *)
(* inventory service as ReservationLedger says, and within one run of the  *)
(* process its orders are backed and its rejected requests leave nothing   *)
(* reserved.                                                               *)
(***************************************************************************)
EXTENDS SplitOrders, FiniteSetTheorems, SequenceTheorems, TLAPS

USE LedgerAssumption

(* A worker that serves create_order and has its reservation id. *)
Serving(w) == pc[w] \in {"reserve", "insert", "compensate"}

(* The releases that the cancels under way may still send.                 *)
Pending == {p \in Workers \X Books :
              \/ pc[p[1]] \in {"cancel", "reread"}
              \/ pc[p[1]] = "release" /\ p[2] \in todo[p[1]]}

(* TypeOK is not inductive: what a late call carries are the items of a    *)
(* request, and the two bounds count on what is under way.                 *)
TypeInv == /\ TypeOK
           /\ \A w \in Workers : Serving(w) => demand[w] \in Demands
           /\ Len(orders) + Cardinality(Creating) <= MaxOrders
           /\ gatewayId + Cardinality(Pending) <= MaxIds + 1

(* Every call of the ledger keeps the tables within their types: reserve   *)
(* takes only what Sufficient allows, so available stays non-negative.     *)
LEMMA LedgerStepTypes ==
  ASSUME LedgerTypeOK, [LedgerNext]_ledgerVars
  PROVE  LedgerTypeOK'
<1> USE DEF LedgerTypeOK
<1>1. ASSUME NEW r \in Ids, NEW d \in Demands, Reserve(r, d)
      PROVE  LedgerTypeOK'
  BY <1>1 DEF Reserve, Sufficient, Demands, Statuses
<1>2. ASSUME NEW r \in Ids, Release(r)
      PROVE  LedgerTypeOK'
  BY <1>2 DEF Release, Statuses
<1>3. ASSUME NEW b \in Books, NEW q \in 1 .. MaxQuantity, Inbound(b, q)
      PROVE  LedgerTypeOK'
  BY <1>3 DEF Inbound
<1>4. CASE UNCHANGED ledgerVars
  BY <1>4 DEF ledgerVars
<1> QED
  BY <1>1, <1>2, <1>3, <1>4 DEF LedgerNext

(* A reservation id is a prefix and a number.                              *)
LEMMA IdFacts ==
  /\ \A r \in Ids : /\ r[1] \in Users \cup {Gateway}
                    /\ r[2] \in 1 .. MaxIds
                    /\ r = <<r[1], r[2]>>
  /\ \A u \in Users \cup {Gateway}, n \in 1 .. MaxIds : <<u, n>> \in Ids
  /\ AnyId \in Ids
<1>1. Ids = (Users \cup {Gateway}) \X (1 .. MaxIds) /\ MaxIds \in Nat \ {0}
  BY SplitAssumption
<1>2. <<Gateway, 1>> \in Ids
  BY <1>1
<1> QED
  BY <1>1, <1>2 DEF AnyId

-----------------------------------------------------------------------------
(* The inventory service as a ledger *)

(* Every step of the system is one of the ledger's operations or leaves    *)
(* its tables alone.                                                       *)
LEMMA StepIsLedgerStep ==
  ASSUME TypeInv, [Next]_vars
  PROVE  [LedgerNext]_ledgerVars
<1> USE DEF TypeInv, TypeOK
<1>1. ASSUME NEW r \in Ids, NEW d \in Demands, Reserved(r, d)
      PROVE  [LedgerNext]_ledgerVars
  BY <1>1 DEF Reserved, LedgerNext
<1>2. ASSUME NEW r \in Ids, Released(r) PROVE [LedgerNext]_ledgerVars
  BY <1>2 DEF Released, LedgerNext
<1>3. ASSUME NEW w \in Workers, WorkerStep(w) PROVE [LedgerNext]_ledgerVars
  <2>1. CASE ReserveOk(w) \/ ReserveLost(w)
    <3>1. rid[w] \in Ids /\ demand[w] \in Demands
      BY <2>1 DEF ReserveOk, ReserveLost, Serving
    <3> QED
      BY <2>1, <3>1, <1>1 DEF ReserveOk, ReserveLost
  <2>2. CASE Compensate(w)
    BY <2>2, <1>2 DEF Compensate
  <2>3. ASSUME NEW b \in Books, CancelRelease(w, b) PROVE [LedgerNext]_ledgerVars
    <3>1. <<w, b>> \in Pending
      BY <2>3 DEF CancelRelease, Pending
    <3>2. IsFiniteSet(Pending)
      <4>1. IsFiniteSet(Workers \X Books)
        BY SplitAssumption, FS_Product
      <4> QED
        BY <4>1, FS_Subset DEF Pending
    <3>3. Cardinality(Pending) \in Nat /\ Cardinality(Pending) # 0
      BY <3>1, <3>2, FS_CardinalityType, FS_EmptySet
    <3>4. gatewayId \in 1 .. MaxIds
      BY <3>3, SplitAssumption
    <3>5. <<Gateway, gatewayId>> \in Ids
      BY <3>4, IdFacts
    <3> QED
      BY <2>3, <3>5, <1>2 DEF CancelRelease
  <2> QED
    BY <1>3, <2>1, <2>2, <2>3
       DEF WorkerStep, ReserveRefused, InsertOrder, InsertFails, CompensateLost, CancelUpdate,
           CancelUpdateFails, CancelReread, CancelRereadFails
<1>4. ASSUME NEW c \in late, LateCall(c) PROVE [LedgerNext]_ledgerVars
  <2>1. c.rid \in Ids /\ c.items \in Demands
    OBVIOUS
  <2> QED
    BY <2>1, <1>1, <1>2, <1>4 DEF LateCall
<1>5. ASSUME NEW b \in Books, NEW q \in 1 .. MaxQuantity, AddStock(b, q)
      PROVE  [LedgerNext]_ledgerVars
  BY <1>5 DEF AddStock, LedgerNext
<1> QED
  BY <1>3, <1>4, <1>5
     DEF Next, vars, CreateOrder, CancelFind, CancelAgain, ReadOnly, Restart

-----------------------------------------------------------------------------
(* Types and bounds *)

(* A part of a finite set is no larger, and one that leaves out an element *)
(* is smaller.                                                             *)
LEMMA Fewer ==
  ASSUME NEW S, IsFiniteSet(S), NEW T, T \subseteq S
  PROVE  /\ IsFiniteSet(T)
         /\ Cardinality(T) \in Nat /\ Cardinality(S) \in Nat
         /\ Cardinality(T) <= Cardinality(S)
         /\ \A x \in S : x \notin T => Cardinality(T) + 1 <= Cardinality(S)
<1>1. IsFiniteSet(T) /\ Cardinality(T) \in Nat /\ Cardinality(T) <= Cardinality(S)
  BY FS_Subset, FS_CardinalityType
<1>2. Cardinality(S) \in Nat
  BY FS_CardinalityType
<1>3. ASSUME NEW x \in S, x \notin T PROVE Cardinality(T) # Cardinality(S)
  BY <1>3, FS_Subset
<1> QED
  BY <1>1, <1>2, <1>3

(* The requests under way are finitely many. *)
LEMMA UnderWayFinite ==
  IsFiniteSet(Creating) /\ IsFiniteSet(Cancelling) /\ IsFiniteSet(Pending)
<1>1. IsFiniteSet(Workers) /\ IsFiniteSet(Workers \X Books)
  BY SplitAssumption, FS_Product
<1> QED
  BY <1>1, Fewer DEF Creating, Cancelling, Pending

(* The bounds on orders and ids hold when nothing is under way. *)
LEMMA TypeInit == Init => TypeInv
<1> SUFFICES ASSUME Init PROVE TypeInv
  OBVIOUS
<1>1. LedgerTypeOK
  BY DEF Init, LedgerInit, LedgerTypeOK, Statuses, NoItems
<1>2. Creating = {} /\ Pending = {}
  BY DEF Init, Creating, Pending
<1>3. Cardinality(Creating) = 0 /\ Cardinality(Pending) = 0
  BY <1>2, FS_EmptySet
<1>4. NoItems \in Demands \cup {NoItems}
  OBVIOUS
<1>5. {MaxIds, MaxOrders} \subseteq Nat \ {0} /\ {MaxFaults, MaxRestarts} \subseteq Nat
  BY SplitAssumption
<1>6. Len(orders) = 0 /\ orders \in Seq(OrderRows)
  BY DEF Init
<1>7. TypeOK
  <2>1. /\ pc \in [Workers -> {"idle", "reserve", "insert", "compensate",
                               "cancel", "reread", "release"}]
        /\ todo \in [Workers -> SUBSET Books]
    BY DEF Init
  <2>2. rid \in [Workers -> Ids] /\ demand \in [Workers -> Demands \cup {NoItems}]
    BY <1>4, IdFacts DEF Init
  <2>3. /\ order \in [Workers -> OrderIds]
        /\ nextId \in 1 .. MaxIds + 1 /\ gatewayId \in 1 .. MaxIds + 1
        /\ faults \in 0 .. MaxFaults /\ restarts \in 0 .. MaxRestarts
    BY <1>5 DEF Init, OrderIds
  <2>4. rpcLost \in BOOLEAN /\ late = {}
    BY DEF Init
  <2> QED
    BY <1>1, <1>5, <1>6, <2>1, <2>2, <2>3, <2>4 DEF TypeOK
<1>8. \A w \in Workers : ~ Serving(w)
  BY DEF Init, Serving
<1>9. gatewayId = 1
  BY DEF Init
<1> HIDE DEF Init
<1> QED
  BY <1>3, <1>5, <1>6, <1>7, <1>8, <1>9 DEF TypeInv

(* The answer to a request leaves the worker idle with nothing of its own, *)
(* so it only takes away from what is under way.                           *)
LEMMA AnswerTypes ==
  ASSUME TypeInv, NEW w \in Workers, Answer(w)
  PROVE  /\ pc' \in [Workers -> {"idle", "reserve", "insert", "compensate",
                                 "cancel", "reread", "release"}]
         /\ rid' \in [Workers -> Ids]
         /\ demand' \in [Workers -> Demands \cup {NoItems}]
         /\ order' \in [Workers -> OrderIds]
         /\ todo' \in [Workers -> SUBSET Books]
         /\ \A v \in Workers : Serving(v)' => demand'[v] \in Demands
         /\ Creating' = Creating \ {w}
         /\ Pending' = Pending \ ({w} \X Books)
<1> USE DEF Answer, TypeInv, TypeOK
<1>1. /\ pc' \in [Workers -> {"idle", "reserve", "insert", "compensate",
                              "cancel", "reread", "release"}]
      /\ rid' \in [Workers -> Ids]
      /\ demand' \in [Workers -> Demands \cup {NoItems}]
      /\ order' \in [Workers -> OrderIds]
      /\ todo' \in [Workers -> SUBSET Books]
  BY IdFacts, SplitAssumption, SMTT(30) DEF OrderIds
<1>2. \A v \in Workers : Serving(v)' => demand'[v] \in Demands
  BY DEF Serving
<1>3. Creating' = Creating \ {w}
  BY DEF Creating
<1>4. Pending' = Pending \ ({w} \X Books)
  BY DEF Pending
<1> QED
  BY <1>1, <1>2, <1>3, <1>4

(* One more order row, or another status in one. *)
LEMMA OrderRowTypes ==
  ASSUME TypeInv, NEW w \in Workers
  PROVE  /\ Serving(w) => \A known \in BOOLEAN :
              /\ NewOrder(w, known) \in Seq(OrderRows)
              /\ Len(NewOrder(w, known)) = Len(orders) + 1
         /\ \A o \in OrderIds :
              LET marked == [orders EXCEPT ![o].status = "cancelled"]
              IN  marked \in Seq(OrderRows) /\ Len(marked) = Len(orders)
<1> USE DEF TypeInv, TypeOK
<1>1. ASSUME Serving(w), NEW known \in BOOLEAN
      PROVE  /\ NewOrder(w, known) \in Seq(OrderRows)
             /\ Len(NewOrder(w, known)) = Len(orders) + 1
  <2>1. [items |-> demand[w], status |-> "created", rid |-> rid[w], sure |-> known] \in OrderRows
    BY <1>1 DEF OrderRows
  <2>2. orders \in Seq(OrderRows)
    OBVIOUS
  <2> HIDE DEF TypeInv, TypeOK
  <2> QED
    BY <2>1, <2>2, AppendProperties DEF NewOrder
<1>2. ASSUME NEW o \in OrderIds
      PROVE  LET marked == [orders EXCEPT ![o].status = "cancelled"]
             IN  marked \in Seq(OrderRows) /\ Len(marked) = Len(orders)
  <2>1. CASE o \in DOMAIN orders
    <3>1. orders[o] \in OrderRows
      BY <2>1, ElementOfSeq
    <3>2. [orders[o] EXCEPT !.status = "cancelled"] \in OrderRows
      BY <3>1 DEF OrderRows
    <3>3. [orders EXCEPT ![o].status = "cancelled"]
            = [orders EXCEPT ![o] = [orders[o] EXCEPT !.status = "cancelled"]]
      OBVIOUS
    <3> QED
      BY <2>1, <3>2, <3>3, ExceptSeq
  <2>2. CASE o \notin DOMAIN orders
    <3>1. [orders EXCEPT ![o].status = "cancelled"] = orders
      <4>1. orders = [i \in 1 .. Len(orders) |-> orders[i]] /\ DOMAIN orders = 1 .. Len(orders)
        BY SeqDef
      <4> QED
        BY <2>2, <4>1
    <3> QED
      BY <3>1
  <2> QED
    BY <2>1, <2>2
<1> QED
  BY <1>1, <1>2

(* The ids of the releases still to come are counted before a cancel       *)
(* starts: the guard of CancelFind covers every book of every cancel.      *)
LEMMA CancelFindCounts ==
  ASSUME TypeInv, NEW w \in Workers, NEW o \in OrderIds, CancelFind(w, o)
  PROVE  gatewayId + Cardinality(Pending') <= MaxIds + 1
<1> USE DEF TypeInv, TypeOK
<1> DEFINE active == Cancelling \cup {w}
<1>1. w \notin Cancelling
  BY DEF CancelFind, Cancelling
<1>2. IsFiniteSet(active) /\ Cardinality(active) = Cardinality(Cancelling) + 1
  BY <1>1, UnderWayFinite, FS_AddElement
<1>3. /\ IsFiniteSet(active \X Books)
      /\ Cardinality(active \X Books) = Cardinality(active) * Cardinality(Books)
  BY <1>2, SplitAssumption, FS_Product
<1>4. Pending' \subseteq active \X Books
  BY DEF CancelFind, Pending, Cancelling
<1>5. Cardinality(Pending') <= Cardinality(active \X Books) /\ Cardinality(Pending') \in Nat
  BY <1>3, <1>4, Fewer
<1>6. gatewayId + Cardinality(active \X Books) <= MaxIds + 1
  BY <1>2, <1>3 DEF CancelFind
<1>7. Cardinality(active \X Books) \in Nat /\ MaxIds \in Nat /\ gatewayId \in Nat
  BY <1>3, FS_CardinalityType, SplitAssumption
<1> QED
  BY <1>5, <1>6, <1>7

(* Every step keeps the types and the bounds. *)
LEMMA TypeStep ==
  ASSUME TypeInv, [Next]_vars
  PROVE  TypeInv'
<1> DEFINE Pcs == {"idle", "reserve", "insert", "compensate", "cancel", "reread", "release"}
           Locals == /\ pc \in [Workers -> Pcs]
                     /\ rid \in [Workers -> Ids]
                     /\ demand \in [Workers -> Demands \cup {NoItems}]
                     /\ order \in [Workers -> OrderIds]
                     /\ todo \in [Workers -> SUBSET Books]
                     /\ \A v \in Workers : Serving(v) => demand[v] \in Demands
           Counts == /\ nextId \in 1 .. MaxIds + 1
                     /\ gatewayId \in 1 .. MaxIds + 1
                     /\ faults \in 0 .. MaxFaults
                     /\ restarts \in 0 .. MaxRestarts
           Rows == /\ orders \in Seq(OrderRows)
                   /\ Len(orders) + Cardinality(Creating) <= MaxOrders
           Tickets == gatewayId + Cardinality(Pending) <= MaxIds + 1
           Env == /\ late \subseteq [call : {"reserve", "compensate"}, rid : Ids, items : Demands]
                  /\ rpcLost \in BOOLEAN
           Parts == Locals /\ Counts /\ Rows /\ Tickets /\ Env
<1> USE SplitAssumption
<1>1. Parts
  BY DEF TypeInv, TypeOK
<1>2. LedgerTypeOK'
  BY StepIsLedgerStep, LedgerStepTypes DEF TypeInv, TypeOK
<1>3. ASSUME Parts' PROVE TypeInv'
  <2>1. Len(orders') \in Nat /\ Cardinality(Creating') \in Nat
    <3>1. IsFiniteSet(Creating')
      BY SplitAssumption, Fewer DEF Creating
    <3> QED
      BY <3>1, <1>3, FS_CardinalityType, LenProperties
  <2>2. Len(orders') <= MaxOrders
    BY <2>1, <1>3
  <2> HIDE SplitAssumption DEF Rows
  <2>3. TypeOK'
    <3>1. orders' \in Seq(OrderRows)
      BY <1>3 DEF Rows
    <3> QED
      BY <1>2, <1>3, <2>2, <3>1 DEF TypeOK
  <2> QED
    BY <2>3, <1>3 DEF TypeInv, Rows
<1>4. /\ IsFiniteSet(Creating) /\ IsFiniteSet(Pending) /\ IsFiniteSet(Cancelling)
      /\ Cardinality(Creating) \in Nat /\ Cardinality(Pending) \in Nat
      /\ Len(orders) \in Nat
  BY <1>1, UnderWayFinite, FS_CardinalityType, LenProperties
<1>5. ASSUME Creating' \subseteq Creating PROVE Cardinality(Creating') <= Cardinality(Creating)
                                                /\ Cardinality(Creating') \in Nat
  BY <1>4, <1>5, Fewer
<1>6. ASSUME Pending' \subseteq Pending PROVE Cardinality(Pending') <= Cardinality(Pending)
                                              /\ Cardinality(Pending') \in Nat
  BY <1>4, <1>6, Fewer
<1>7. ASSUME NEW w \in Workers, pc[w] \in {"reserve", "insert"},
             Creating' \subseteq Creating \ {w}
      PROVE  Cardinality(Creating') + 1 <= Cardinality(Creating) /\ Cardinality(Creating') \in Nat
  <2>1. w \in Creating
    BY <1>7 DEF Creating
  <2> QED
    BY <2>1, <1>4, <1>7, Fewer
<1> HIDE DEF Locals, Counts, Rows, Tickets, Env
\* Steps that change nothing of the order service
<1>10. CASE UNCHANGED orderVars
  BY <1>1, <1>3, <1>10
     DEF orderVars, envVars, Locals, Counts, Rows, Tickets, Env, Serving, Creating, Pending
\* Answers that leave orders and counters alone
<1>11. ASSUME NEW w \in Workers, Answer(w), UNCHANGED <<orders, nextId, gatewayId, late, restarts>>,
              UNCHANGED <<rpcLost, faults>> \/ RpcFault \/ (Fault /\ UNCHANGED rpcLost)
       PROVE  Parts'
  <2>1. Locals' /\ Creating' = Creating \ {w} /\ Pending' = Pending \ ({w} \X Books)
    BY <1>11, AnswerTypes DEF Locals
  <2>2. Counts'
    BY <1>1, <1>11 DEF Counts, RpcFault, Fault
  <2>3. Env'
    BY <1>1, <1>11 DEF Env, RpcFault
  <2>4. Rows'
    BY <2>1, <1>1, <1>4, <1>5, <1>11 DEF Rows
  <2>5. Tickets'
    <3>1. gatewayId \in Nat /\ Cardinality(Pending') <= Cardinality(Pending)
             /\ Cardinality(Pending') \in Nat
      BY <2>1, <1>1, <1>6 DEF Counts
    <3> QED
      BY <3>1, <1>1, <1>4, <1>11 DEF Tickets
  <2> QED
    BY <2>1, <2>2, <2>3, <2>4, <2>5
\* create_order
<1>20. ASSUME NEW w \in Workers, NEW u \in Users, NEW d \in Demands, CreateOrder(w, u, d)
       PROVE  Parts'
  <2> USE <1>20 DEF CreateOrder, envVars
  <2>1. Counts' /\ Env'
    BY <1>1 DEF Counts, Env
  <2>2. NextReservationId(u) \in Ids
    BY <1>1, IdFacts DEF Counts, NextReservationId
  <2>3. Locals'
    BY <1>1, <2>2 DEF Locals, Serving
  <2>4. Pending' = Pending
    BY <1>1 DEF Pending, Locals
  <2>5. Creating' = Creating \cup {w} /\ w \notin Creating
    BY <1>1 DEF Creating, Locals
  <2>6. Cardinality(Creating') = Cardinality(Creating) + 1
    BY <2>5, <1>4, FS_AddElement
  <2>7. Rows' /\ Tickets'
    BY <1>1, <1>4, <2>4, <2>6 DEF Rows, Tickets
  <2> QED
    BY <2>1, <2>3, <2>7
<1>21. ASSUME NEW w \in Workers, ReserveOk(w) PROVE Parts'
  <2> USE <1>21 DEF ReserveOk, GoTo, envVars
  <2>1. Counts' /\ Env'
    BY <1>1 DEF Counts, Env
  <2>2. Locals'
    BY <1>1 DEF Locals, Serving
  <2>3. Pending' = Pending /\ Creating' = Creating
    BY <1>1 DEF Pending, Creating, Locals
  <2>4. Rows' /\ Tickets'
    BY <1>1, <2>3 DEF Rows, Tickets
  <2> QED
    BY <2>1, <2>2, <2>4
<1>22. ASSUME NEW w \in Workers, InsertOrder(w) \/ InsertFails(w) PROVE Parts'
  <2> USE <1>22 DEF InsertOrder, InsertFails, envVars
  <2>1. Counts' /\ Env'
    <3>1. UNCHANGED <<nextId, gatewayId, restarts, late, rpcLost>> /\ (UNCHANGED faults \/ Fault)
      OBVIOUS
    <3>2. Counts'
      BY <3>1, <1>1 DEF Counts, Fault
    <3>3. Env'
      BY <3>1, <1>1 DEF Env
    <3> QED
      BY <3>2, <3>3
  <2>2. Locals' /\ Pending' \subseteq Pending /\ Creating' \subseteq Creating \ {w}
    <3>1. CASE InsertOrder(w)
      BY <3>1, AnswerTypes DEF Locals
    <3>2. CASE InsertFails(w)
      <4>1. Locals'
        BY <3>2, <1>1 DEF Locals, Serving, GoTo
      <4>2. Pending' \subseteq Pending /\ Creating' \subseteq Creating \ {w}
        BY <3>2, <1>1 DEF Locals, Pending, Creating, GoTo
      <4> QED
        BY <4>1, <4>2
    <3> QED
      BY <3>1, <3>2
  <2>3. Cardinality(Creating') + 1 <= Cardinality(Creating) /\ Cardinality(Creating') \in Nat
    BY <2>2, <1>7
  <2>4. /\ orders' \in Seq(OrderRows)
        /\ Len(orders') = Len(orders) \/ Len(orders') = Len(orders) + 1
    BY <1>1, OrderRowTypes DEF Serving, Rows
  <2>5. Rows'
    BY <1>1, <1>4, <2>3, <2>4 DEF Rows
  <2>6. Tickets'
    <3>1. gatewayId \in Nat /\ Cardinality(Pending') <= Cardinality(Pending)
             /\ Cardinality(Pending') \in Nat
      BY <2>2, <1>1, <1>6 DEF Counts
    <3>2. gatewayId' = gatewayId
      OBVIOUS
    <3> QED
      BY <3>1, <3>2, <1>1, <1>4 DEF Tickets
  <2> QED
    BY <2>1, <2>2, <2>5, <2>6
<1>23. ASSUME NEW w \in Workers,
              ReserveRefused(w) \/ ReserveLost(w) \/ Compensate(w) \/ CompensateLost(w)
       PROVE  Parts'
  BY <1>11, <1>23 DEF ReserveRefused, ReserveLost, Compensate, CompensateLost, envVars
\* cancel_order
<1>30. ASSUME NEW w \in Workers, NEW o \in OrderIds, CancelFind(w, o) PROVE Parts'
  <2> USE <1>30 DEF CancelFind, envVars
  <2>1. Counts' /\ Env'
    BY <1>1 DEF Counts, Env
  <2>2. Locals'
    BY <1>1 DEF Locals, Serving
  <2>3. Creating' = Creating
    BY <1>1 DEF Creating, Locals
  <2>4. Rows' /\ Tickets'
    BY <1>1, <2>3, CancelFindCounts DEF Rows, Tickets
  <2> QED
    BY <2>1, <2>2, <2>4
<1>31. ASSUME NEW w \in Workers, CancelUpdate(w) \/ CancelUpdateFails(w) PROVE Parts'
  <2> USE <1>31 DEF CancelUpdate, CancelUpdateFails, envVars
  <2>1. Counts' /\ Env'
    BY <1>1 DEF Counts, Env, Fault
  <2>2. Locals' /\ Pending' \subseteq Pending /\ Creating' \subseteq Creating
    <3>1. CASE CancelUpdateFails(w)
      BY <3>1, AnswerTypes DEF Locals
    <3>2. CASE CancelUpdate(w)
      <4>1. Locals'
        BY <3>2, <1>1 DEF Locals, Serving, GoTo
      <4>2. Pending' \subseteq Pending /\ Creating' \subseteq Creating
        BY <3>2, <1>1 DEF Locals, Pending, Creating, GoTo
      <4> QED
        BY <4>1, <4>2
    <3> QED
      BY <3>1, <3>2
  <2>3. orders' \in Seq(OrderRows) /\ Len(orders') = Len(orders)
    <3>1. order[w] \in OrderIds /\ orders \in Seq(OrderRows)
      BY <1>1 DEF Rows, Locals
    <3>2. CASE MarkCancelled(order[w])
      BY <3>1, <3>2, OrderRowTypes DEF MarkCancelled
    <3>3. CASE UNCHANGED orders
      BY <3>1, <3>3
    <3> QED
      BY <3>2, <3>3
  <2>4. Rows'
    BY <1>1, <1>4, <1>5, <2>2, <2>3 DEF Rows
  <2>5. Tickets'
    <3>1. gatewayId \in Nat /\ Cardinality(Pending') <= Cardinality(Pending)
             /\ Cardinality(Pending') \in Nat
      BY <2>2, <1>1, <1>6 DEF Counts
    <3>2. gatewayId' = gatewayId
      OBVIOUS
    <3> QED
      BY <3>1, <3>2, <1>1, <1>4 DEF Tickets
  <2> QED
    BY <2>1, <2>2, <2>4, <2>5
<1>32. ASSUME NEW w \in Workers, CancelReread(w) PROVE Parts'
  <2> USE <1>32 DEF CancelReread, envVars
  <2>1. Counts' /\ Env'
    BY <1>1 DEF Counts, Env
  <2>2. Locals'
    BY <1>1 DEF Locals, Serving
  <2>3. Pending' \subseteq Pending /\ Creating' = Creating
    BY <1>1 DEF Locals, Pending, Creating
  <2>4. gatewayId \in Nat /\ Cardinality(Pending') <= Cardinality(Pending)
          /\ Cardinality(Pending') \in Nat
    BY <2>3, <1>1, <1>6 DEF Counts
  <2>5. Rows' /\ Tickets'
    BY <1>1, <1>4, <2>3, <2>4 DEF Rows, Tickets
  <2> QED
    BY <2>1, <2>2, <2>5
<1>33. ASSUME NEW w \in Workers, CancelRereadFails(w) PROVE Parts'
  BY <1>11, <1>33 DEF CancelRereadFails
<1>34. ASSUME NEW w \in Workers, NEW b \in Books, CancelRelease(w, b) PROVE Parts'
  <2> USE <1>34 DEF CancelRelease
  <2>1. Env'
    BY <1>1 DEF Env, RpcFault
  <2>2. /\ Locals'
        /\ Creating' \subseteq Creating
        /\ Pending' \subseteq Pending \ {<<w, b>>}
    <3>1. CASE todo[w] = {b}
      BY <3>1, AnswerTypes DEF Locals
    <3>2. CASE todo[w] # {b}
      <4>1. Locals'
        BY <3>2, <1>1 DEF Locals, Serving
      <4>2. Pending' \subseteq Pending \ {<<w, b>>} /\ Creating' \subseteq Creating
        BY <3>2, <1>1 DEF Locals, Pending, Creating
      <4> QED
        BY <4>1, <4>2
    <3> QED
      BY <3>1, <3>2
  <2>3. <<w, b>> \in Pending
    BY DEF Pending
  <2>4. Cardinality(Pending') + 1 <= Cardinality(Pending) /\ Cardinality(Pending') \in Nat
    BY <2>2, <2>3, <1>4, Fewer
  <2>5. gatewayId \in Nat /\ gatewayId' = gatewayId + 1
    BY <1>1 DEF Counts
  <2>6. Tickets' /\ gatewayId' \in 1 .. MaxIds + 1
    BY <1>1, <1>4, <2>4, <2>5, SMTT(30) DEF Tickets
  <2>7. Counts'
    BY <1>1, <2>6 DEF Counts, RpcFault, Fault
  <2>8. Rows'
    BY <1>1, <1>4, <1>5, <2>2 DEF Rows
  <2> QED
    BY <2>1, <2>2, <2>6, <2>7, <2>8
\* The process dies; what it has sent arrives
<1>40. ASSUME Restart PROVE Parts'
  <2> USE <1>40 DEF Restart
  <2>1. Counts'
    BY <1>1 DEF Counts
  <2>2. Locals'
    BY <1>1, IdFacts DEF Locals, Serving, OrderIds
  <2>3. Creating' = {} /\ Pending' = {}
    BY DEF Creating, Pending
  <2>4. Cardinality(Creating') = 0 /\ Cardinality(Pending') = 0
    BY <2>3, FS_EmptySet
  <2>5. Rows' /\ Tickets'
    BY <1>1, <1>4, <2>4 DEF Rows, Tickets
  <2>6. Env'
    <3>1. ASSUME NEW w \in Workers, pc[w] \in {"reserve", "compensate"}
          PROVE  [call |-> pc[w], rid |-> rid[w], items |-> demand[w]]
                   \in [call : {"reserve", "compensate"}, rid : Ids, items : Demands]
      BY <3>1, <1>1 DEF Locals, Serving
    <3> QED
      BY <3>1, <1>1 DEF Env
  <2> QED
    BY <2>1, <2>2, <2>5, <2>6
<1>41. ASSUME NEW c \in late, LateCall(c) PROVE Parts'
  <2>1. Locals' /\ Counts' /\ Creating' = Creating /\ Pending' = Pending
    BY <1>1, <1>41 DEF LateCall, Locals, Counts, Serving, Creating, Pending
  <2>2. Env' /\ Rows' /\ Tickets'
    BY <1>1, <1>41, <2>1 DEF LateCall, Env, Rows, Tickets
  <2> QED
    BY <2>1, <2>2
<1> QED
  <2>1. ASSUME NEW w \in Workers, WorkerStep(w) PROVE Parts'
    BY <2>1, <1>21, <1>22, <1>23, <1>31, <1>32, <1>33, <1>34 DEF WorkerStep
  <2>2. CASE UNCHANGED vars
    BY <2>2, <1>10 DEF vars
  <2>3. ASSUME NEW w \in Workers, NEW o \in OrderIds, CancelAgain(w, o) \/ ReadOnly(w)
        PROVE  TypeInv'
    BY <2>3, <1>10 DEF CancelAgain, ReadOnly, vars
  <2>4. ASSUME NEW w \in Workers, ReadOnly(w) PROVE  TypeInv'
    BY <2>4, <1>10 DEF ReadOnly, vars
  <2>5. ASSUME NEW b \in Books, NEW q \in 1 .. MaxQuantity, AddStock(b, q) PROVE TypeInv'
    BY <2>5, <1>10 DEF AddStock
  <2> HIDE DEF Parts
  <2> QED
    BY <2>1, <2>2, <2>3, <2>4, <2>5, <1>3, <1>20, <1>30, <1>40, <1>41 DEF Next

(* Whatever the threads do, whatever is lost and however often the process *)
(* is restarted, the tables, the requests under way and the late calls     *)
(* keep their types, and the order rows and the ids handed out stay within *)
(* their bounds.                                                           *)
THEOREM SplitTyping == Spec => []TypeOK
<1>1. TypeInv => TypeOK
  BY DEF TypeInv
<1> QED
  BY <1>1, TypeInit, TypeStep, PTL DEF Spec

(* The order service uses the inventory service only as its interface      *)
(* allows: with the order service's threads, faults and restarts around    *)
(* it, the three inventory tables behave as the ledger.                    *)
THEOREM SplitUsesLedger == Spec => LedgerSpec
<1>1. Init => LedgerInit
  BY DEF Init
<1> QED
  BY <1>1, TypeInit, TypeStep, StepIsLedgerStep, PTL DEF Spec, LedgerSpec

-----------------------------------------------------------------------------
(* Conservation                                                            *)
(*                                                                         *)
(* The argument of InventoryRepositoryProofs, for the tables as the order  *)
(* service finds them.                                                     *)

(* The units one reservation holds of one book: q of them, numbered.       *)
LEMMA OwnUnits ==
  ASSUME NEW r, NEW q \in Nat
  PROVE  /\ IsFiniteSet({r} \X (1 .. q))
         /\ Cardinality({r} \X (1 .. q)) = q
<1>1. IsFiniteSet({r}) /\ Cardinality({r}) = 1
  BY FS_Singleton
<1>2. IsFiniteSet(1 .. q) /\ Cardinality(1 .. q) = q
  <2>1. 1 \in Int /\ q \in Int
    OBVIOUS
  <2> QED
    BY <2>1, FS_Interval
<1>3. Cardinality({r} \X (1 .. q)) = Cardinality({r}) * Cardinality(1 .. q)
  BY <1>1, <1>2, FS_Product
<1> QED
  BY <1>1, <1>2, <1>3, FS_Product

(* The units held of a book are finitely many. *)
LEMMA HeldUnitsFinite ==
  ASSUME NEW b \in Books
  PROVE  IsFiniteSet(HeldUnits(b)) /\ Cardinality(HeldUnits(b)) \in Nat
<1>1. IsFiniteSet(1 .. MaxQuantity)
  BY FS_Interval
<1>2. IsFiniteSet(Ids \X (1 .. MaxQuantity))
  BY <1>1, FS_Product
<1>3. HeldUnits(b) \in SUBSET (Ids \X (1 .. MaxQuantity))
  BY DEF HeldUnits
<1> QED
  BY <1>2, <1>3, FS_Subset, FS_CardinalityType

(* Adding to, or removing from, a finite set the units of a reservation    *)
(* that are not, or all are, in it.                                        *)
LEMMA DisjointUnits ==
  ASSUME NEW S, IsFiniteSet(S), NEW r, NEW q \in Nat,
         S \cap ({r} \X (1 .. q)) = {}
  PROVE  Cardinality(S \cup ({r} \X (1 .. q))) = Cardinality(S) + q
<1>1. Cardinality(S \cup ({r} \X (1 .. q)))
        = Cardinality(S) + Cardinality({r} \X (1 .. q)) - Cardinality(S \cap ({r} \X (1 .. q)))
  BY OwnUnits, FS_Union
<1>2. Cardinality(S) \in Nat
  BY FS_CardinalityType
<1>3. Cardinality({r} \X (1 .. q)) = q
  BY OwnUnits
<1>4. Cardinality(S \cap ({r} \X (1 .. q))) = 0
  BY FS_EmptySet
<1> QED
  BY <1>1, <1>2, <1>3, <1>4

(* The inductive invariant: conservation needs the types, because units    *)
(* are counted as elements of a finite set of pairs.                       *)
LedgerInv == LedgerTypeOK /\ Conservation

(* Nothing is held and nothing has been stocked at the start.              *)
LEMMA InitConserves == LedgerInit => LedgerInv
<1> SUFFICES ASSUME LedgerInit PROVE LedgerInv
  OBVIOUS
<1>1. LedgerTypeOK
  BY DEF LedgerInit, LedgerTypeOK, Statuses, NoItems
<1>2. ASSUME NEW b \in Books PROVE HeldUnits(b) = {}
  BY DEF LedgerInit, HeldUnits
<1>3. ASSUME NEW b \in Books PROVE available[b] + Cardinality(HeldUnits(b)) = stocked[b]
  <2>1. Cardinality(HeldUnits(b)) = 0
    BY <1>2, FS_EmptySet
  <2>2. available[b] \in Nat /\ available[b] = stocked[b]
    BY <1>1 DEF LedgerInit, LedgerTypeOK
  <2> QED
    BY <2>1, <2>2
<1> QED
  BY <1>1, <1>3 DEF LedgerInv, Conservation

(* reserve_stock turns as many available units into held ones as it takes. *)
LEMMA ReserveConserves ==
  ASSUME LedgerInv, NEW r \in Ids, NEW d \in Demands, Reserve(r, d), LedgerTypeOK'
  PROVE  Conservation'
<1> SUFFICES ASSUME NEW b \in Books
             PROVE  available'[b] + Cardinality(HeldUnits(b)') = stocked'[b]
  BY DEF Conservation
<1> DEFINE own == {r} \X (1 .. d[b])
<1>1. d[b] \in Nat /\ d[b] <= MaxQuantity /\ d[b] <= available[b]
  BY DEF Demands, Reserve, Sufficient
<1>2. HeldUnits(b) \cap own = {}
  BY DEF HeldUnits, Reserve
<1>3. HeldUnits(b)' = HeldUnits(b) \cup own
  <2>1. ASSUME NEW u \in Ids \X (1 .. MaxQuantity)
        PROVE  (status'[u[1]] = "reserved" /\ u[2] <= held'[u[1]][b])
                 <=> (u \in HeldUnits(b) \/ u \in own)
    <3>1. CASE u[1] = r
      <4>1. status'[u[1]] = "reserved" /\ held'[u[1]] = d
        BY <3>1 DEF Reserve, LedgerInv, LedgerTypeOK
      <4>2. u \notin HeldUnits(b)
        BY <3>1 DEF Reserve, HeldUnits
      <4>3. u \in own <=> u[2] <= d[b]
        BY <3>1, <1>1
      <4> QED
        BY <4>1, <4>2, <4>3
    <3>2. CASE u[1] # r
      <4>1. status'[u[1]] = status[u[1]] /\ held'[u[1]] = held[u[1]]
        BY <3>2 DEF Reserve, LedgerInv, LedgerTypeOK
      <4>2. u \notin own
        BY <3>2
      <4> QED
        BY <4>1, <4>2 DEF HeldUnits
    <3> QED
      BY <3>1, <3>2
  <2>2. own \subseteq Ids \X (1 .. MaxQuantity)
    BY <1>1
  <2> QED
    BY <2>1, <2>2 DEF HeldUnits
<1>4. Cardinality(HeldUnits(b)') = Cardinality(HeldUnits(b)) + d[b]
  <2>1. IsFiniteSet(HeldUnits(b))
    BY HeldUnitsFinite
  <2>2. Cardinality(HeldUnits(b) \cup own) = Cardinality(HeldUnits(b)) + d[b]
    BY <1>1, <1>2, <2>1, DisjointUnits
  <2> QED
    BY <1>3, <2>2
<1>5. available'[b] = available[b] - d[b] /\ stocked'[b] = stocked[b]
  BY DEF Reserve, LedgerInv, LedgerTypeOK
<1>6. available[b] + Cardinality(HeldUnits(b)) = stocked[b]
  BY DEF LedgerInv, Conservation
<1> QED
  BY <1>1, <1>4, <1>5, <1>6, HeldUnitsFinite DEF LedgerInv, LedgerTypeOK

(* release_stock makes exactly the reservation's units available again.    *)
LEMMA ReleaseConserves ==
  ASSUME LedgerInv, NEW r \in Ids, Release(r)
  PROVE  Conservation'
<1> SUFFICES ASSUME NEW b \in Books
             PROVE  available'[b] + Cardinality(HeldUnits(b)') = stocked'[b]
  BY DEF Conservation
<1> DEFINE own == {r} \X (1 .. held[r][b])
           rest == HeldUnits(b)'
<1>1. held[r][b] \in Nat /\ held[r][b] <= MaxQuantity
  BY DEF LedgerInv, LedgerTypeOK
<1>2. rest \cap own = {}
  BY DEF HeldUnits, Release, LedgerInv, LedgerTypeOK
<1>3. HeldUnits(b) = rest \cup own
  <2>1. ASSUME NEW u \in Ids \X (1 .. MaxQuantity)
        PROVE  (status[u[1]] = "reserved" /\ u[2] <= held[u[1]][b])
                 <=> (u \in rest \/ u \in own)
    <3>1. CASE u[1] = r
      <4>1. status'[u[1]] # "reserved" /\ status[u[1]] = "reserved"
        BY <3>1 DEF Release, LedgerInv, LedgerTypeOK
      <4>2. u \in own <=> u[2] <= held[r][b]
        BY <3>1, <1>1
      <4> QED
        BY <3>1, <4>1, <4>2 DEF HeldUnits
    <3>2. CASE u[1] # r
      <4>1. status'[u[1]] = status[u[1]] /\ held' = held
        BY <3>2 DEF Release, LedgerInv, LedgerTypeOK
      <4>2. u \notin own
        BY <3>2
      <4> QED
        BY <4>1, <4>2 DEF HeldUnits
    <3> QED
      BY <3>1, <3>2
  <2>2. own \subseteq Ids \X (1 .. MaxQuantity)
    BY <1>1
  <2> QED
    BY <2>1, <2>2 DEF HeldUnits
<1>4. IsFiniteSet(rest) /\ Cardinality(rest) \in Nat
  <2>1. rest \in SUBSET HeldUnits(b)
    BY <1>3
  <2> QED
    BY <2>1, HeldUnitsFinite, FS_Subset, FS_CardinalityType
<1>5. Cardinality(HeldUnits(b)) = Cardinality(rest) + held[r][b]
  <2> HIDE DEF rest
  <2>1. Cardinality(rest \cup own) = Cardinality(rest) + held[r][b]
    BY <1>1, <1>2, <1>4, DisjointUnits
  <2> QED
    BY <1>3, <2>1
<1>6. available'[b] = available[b] + held[r][b] /\ stocked'[b] = stocked[b]
  BY DEF Release, LedgerInv, LedgerTypeOK
<1>7. available[b] + Cardinality(HeldUnits(b)) = stocked[b]
  BY DEF LedgerInv, Conservation
<1> QED
  BY <1>1, <1>4, <1>5, <1>6, <1>7 DEF LedgerInv, LedgerTypeOK

(* No order, cancel, fault or restart of the order service loses or        *)
(* invents a unit in the inventory tables.                                 *)
THEOREM SplitConserves == Spec => []Conservation
<1>1. Init => LedgerInv
  BY InitConserves DEF Init
<1>2. LedgerInv /\ [LedgerNext]_ledgerVars => LedgerInv'
  <2> SUFFICES ASSUME LedgerInv, [LedgerNext]_ledgerVars PROVE LedgerInv'
    OBVIOUS
  <2>1. LedgerTypeOK'
    BY LedgerStepTypes DEF LedgerInv
  <2>2. ASSUME NEW b \in Books, NEW q \in 1 .. MaxQuantity, Inbound(b, q)
        PROVE  Conservation'
    <3>1. ASSUME NEW c \in Books PROVE HeldUnits(c)' = HeldUnits(c)
      BY <2>2 DEF Inbound, HeldUnits
    <3>2. ASSUME NEW c \in Books
          PROVE  available'[c] + Cardinality(HeldUnits(c)) = stocked'[c]
      BY <2>2, HeldUnitsFinite DEF Inbound, LedgerInv, LedgerTypeOK, Conservation
    <3> QED
      BY <3>1, <3>2 DEF Conservation
  <2>3. ASSUME UNCHANGED ledgerVars PROVE Conservation'
    BY <2>3 DEF ledgerVars, LedgerInv, Conservation, HeldUnits
  <2>4. Conservation'
    BY <2>1, <2>2, <2>3, ReserveConserves, ReleaseConserves DEF LedgerNext
  <2> QED
    BY <2>1, <2>4 DEF LedgerInv
<1>3. LedgerInv => Conservation
  BY DEF LedgerInv
<1> QED
  BY <1>1, <1>2, <1>3, TypeInit, TypeStep, StepIsLedgerStep, PTL DEF Spec

-----------------------------------------------------------------------------
(* One run of the order service                                            *)
(*                                                                         *)
(* OrdersAreBacked is not inductive: a sure order's reservation could be   *)
(* one that a request under way is about to release, or an id that is yet  *)
(* to be handed out.  Within one run ids are handed out once, in order,    *)
(* and the place of a request says what its id's reservation is.           *)

(* An id not handed out yet, or of the prefix that only release loops use, *)
(* has no reservation.                                                     *)
FreshIds == \A r \in Ids : r[1] = Gateway \/ r[2] >= nextId => status[r] = "none"

(* The id of a request under way was handed out to it alone. *)
OwnIds == \A w \in Workers : Serving(w) =>
            /\ rid[w][1] \in Users /\ rid[w][2] < nextId
            /\ \A v \in Workers : v # w /\ Serving(v) => rid[v] # rid[w]

(* The id of an order was handed out, and to the request of that order     *)
(* alone.                                                                  *)
OrderIdsOnce == \A o \in DOMAIN orders :
                  /\ orders[o].rid[1] \in Users /\ orders[o].rid[2] < nextId
                  /\ \A p \in DOMAIN orders : p # o => orders[p].rid # orders[o].rid

(* What the place of a request says about its id. *)
Places == \A w \in Workers :
            /\ pc[w] = "reserve" => status[rid[w]] = "none"
            /\ pc[w] = "insert" => status[rid[w]] = "reserved" /\ held[rid[w]] = demand[w]
            /\ pc[w] \in {"reserve", "insert"} => \A o \in DOMAIN orders : orders[o].rid # rid[w]
            /\ pc[w] = "compensate" =>
                 \A o \in DOMAIN orders : orders[o].rid = rid[w] => ~ orders[o].sure

(* The reservation of an order known to be inserted and not cancelled. *)
Backed == \A o \in DOMAIN orders : orders[o].sure /\ orders[o].status = "created" =>
            status[orders[o].rid] = "reserved" /\ held[orders[o].rid] = orders[o].items

FirstRun == restarts = 0 => /\ late = {}
                            /\ FreshIds /\ OwnIds /\ OrderIdsOnce /\ Places /\ Backed

(* The orders after an insertion. *)
LEMMA NewRow ==
  ASSUME TypeInv, NEW w \in Workers, NEW known \in BOOLEAN, orders' = NewOrder(w, known)
  PROVE  \E n \in Nat :
           /\ n \notin DOMAIN orders /\ DOMAIN orders' = DOMAIN orders \cup {n}
           /\ \A o \in DOMAIN orders : orders'[o] = orders[o]
           /\ orders'[n].items = demand[w] /\ orders'[n].rid = rid[w] /\ orders'[n].sure = known
<1>1. orders \in Seq(OrderRows)
  BY DEF TypeInv, TypeOK
<1>2. DOMAIN orders = 1 .. Len(orders) /\ Len(orders) \in Nat
  BY <1>1, LenProperties
<1> WITNESS Len(orders) + 1 \in Nat
<1> QED
  BY <1>1, <1>2 DEF NewOrder

(* The orders after an update of a status: none is created again, and all *)
(* else is as it was.                                                     *)
LEMMA MarkedRows ==
  ASSUME TypeInv, NEW o \in OrderIds, MarkCancelled(o)
  PROVE  /\ DOMAIN orders' = DOMAIN orders
         /\ \A p \in DOMAIN orders : /\ orders'[p].rid = orders[p].rid
                                     /\ orders'[p].sure = orders[p].sure
                                     /\ orders'[p].items = orders[p].items
                                     /\ orders'[p].status = "created" =>
                                          orders[p].status = "created"
<1>1. orders \in Seq(OrderRows)
  BY DEF TypeInv, TypeOK
<1>2. \A p \in DOMAIN orders : orders[p] \in OrderRows
  BY <1>1, ElementOfSeq, LenProperties
<1> QED
  BY <1>2 DEF MarkCancelled, OrderRows

(* One reservation changes at a time. *)
LEMMA OneReservation ==
  ASSUME TypeInv, NEW r \in Ids
  PROVE  /\ \A d \in Demands : Reserve(r, d) =>
              /\ status'[r] = "reserved" /\ held'[r] = d
              /\ \A s \in Ids : s # r => status'[s] = status[s] /\ held'[s] = held[s]
         /\ Release(r) =>
              /\ status'[r] = "released" /\ held' = held
              /\ \A s \in Ids : s # r => status'[s] = status[s]
  BY DEF Reserve, Release, TypeInv, TypeOK, LedgerTypeOK

(* Inside one run every step keeps the ids apart and the orders backed. *)
LEMMA FirstRunStep ==
  ASSUME TypeInv, TypeInv', FirstRun, [Next]_vars
  PROVE  FirstRun'
<1> SUFFICES ASSUME restarts' = 0
             PROVE  late' = {} /\ FreshIds' /\ OwnIds' /\ OrderIdsOnce' /\ Places' /\ Backed'
  BY DEF FirstRun
<1> DEFINE Kept == late' = {} /\ FreshIds' /\ OwnIds' /\ OrderIdsOnce' /\ Places' /\ Backed'
<1>1. restarts = 0 /\ ~ Restart
  <2>1. ~ Restart
    BY DEF TypeInv, TypeOK, Restart
  <2>2. ASSUME NEW w \in Workers, WorkerStep(w) PROVE restarts' = restarts
    BY <2>2 DEF WorkerStep, envVars, ReserveOk, ReserveRefused, ReserveLost, InsertOrder, InsertFails,
                Compensate, CompensateLost, CancelUpdate, CancelUpdateFails, CancelReread,
                CancelRereadFails, CancelRelease
  <2>3. restarts' = restarts
    BY <2>1, <2>2 DEF Next, vars, orderVars, envVars, CreateOrder, CancelFind, CancelAgain,
                      ReadOnly, LateCall, AddStock
  <2> QED
    BY <2>1, <2>3
<1>2. late = {} /\ FreshIds /\ OwnIds /\ OrderIdsOnce /\ Places /\ Backed
  BY <1>1 DEF FirstRun
<1>3. /\ Gateway \notin Users
      /\ \A r \in Ids : r[1] \in Users \cup {Gateway} /\ r[2] \in 1 .. MaxIds
      /\ nextId \in 1 .. MaxIds + 1 /\ MaxIds \in Nat
  BY SplitAssumption, IdFacts DEF TypeInv, TypeOK
<1>4. /\ pc \in [Workers -> {"idle", "reserve", "insert", "compensate",
                             "cancel", "reread", "release"}]
      /\ rid \in [Workers -> Ids]
      /\ demand \in [Workers -> Demands \cup {NoItems}]
      /\ \A o \in DOMAIN orders : orders[o].rid \in Ids
  <2>1. ASSUME NEW o \in DOMAIN orders PROVE orders[o] \in OrderRows
    BY ElementOfSeq, LenProperties DEF TypeInv, TypeOK
  <2> QED
    BY <2>1 DEF TypeInv, TypeOK, OrderRows
\* create_order
<1>10. ASSUME NEW w \in Workers, NEW u \in Users, NEW d \in Demands, CreateOrder(w, u, d)
       PROVE  Kept
  <2> USE <1>10 DEF CreateOrder, envVars, ledgerVars
  <2>1. late' = {} /\ FreshIds'
    BY <1>2, <1>3 DEF FreshIds
  <2>2. OwnIds' /\ OrderIdsOnce'
    BY <1>2, <1>3, <1>4 DEF OwnIds, OrderIdsOnce, Serving, NextReservationId
  <2>3. Places'
    <3>1. NextReservationId(u) \in Ids /\ NextReservationId(u)[2] = nextId
      BY IdFacts, <1>3 DEF NextReservationId
    <3>2. /\ status[NextReservationId(u)] = "none"
          /\ \A o \in DOMAIN orders : orders[o].rid # NextReservationId(u)
      BY <1>2, <1>3, <1>4, <3>1 DEF FreshIds, OrderIdsOnce
    <3> QED
      BY <3>2, <1>2, <1>4 DEF Places
  <2>4. Backed'
    BY <1>2 DEF Backed
  <2> QED
    BY <2>1, <2>2, <2>3, <2>4
\* ReserveInventory, answered or not
<1>11. ASSUME NEW w \in Workers, pc[w] = "reserve", Reserve(rid[w], demand[w]),
              UNCHANGED <<orders, nextId, late>>, GoTo(w, "insert") \/ Answer(w)
       PROVE  Kept
  <2> USE <1>11
  <2>1. rid[w] \in Ids /\ demand[w] \in Demands
    BY DEF TypeInv, TypeOK, Serving
  <2>2. /\ status'[rid[w]] = "reserved" /\ held'[rid[w]] = demand[w]
        /\ \A s \in Ids : s # rid[w] => status'[s] = status[s] /\ held'[s] = held[s]
    BY <2>1, OneReservation
  <2>3. /\ rid[w][1] \in Users /\ rid[w][2] < nextId
        /\ \A v \in Workers : v # w /\ Serving(v) => rid[v] # rid[w]
        /\ \A o \in DOMAIN orders : orders[o].rid # rid[w]
    BY <1>2 DEF OwnIds, Places, Serving
  <2>4. \A v \in Workers : v # w => pc'[v] = pc[v] /\ rid'[v] = rid[v] /\ demand'[v] = demand[v]
    BY <1>4 DEF GoTo, Answer
  <2>5. pc'[w] = "idle" \/ (pc'[w] = "insert" /\ rid'[w] = rid[w] /\ demand'[w] = demand[w])
    BY <1>4 DEF GoTo, Answer
  <2>6. late' = {} /\ FreshIds'
    BY <1>2, <1>3, <2>2, <2>3 DEF FreshIds
  <2>7. OwnIds' /\ OrderIdsOnce'
    BY <1>2, <2>3, <2>4, <2>5 DEF OwnIds, OrderIdsOnce, Serving
  <2>8. Places'
    BY <1>2, <1>4, <2>2, <2>3, <2>4, <2>5 DEF Places, Serving
  <2>9. Backed'
    BY <1>2, <1>4, <2>2, <2>3 DEF Backed
  <2> QED
    BY <2>6, <2>7, <2>8, <2>9
\* A request ends and neither the orders nor the reservations change
<1>12. ASSUME NEW w \in Workers, Answer(w), UNCHANGED <<orders, nextId, late, status, held>>
       PROVE  Kept
  <2>1. pc'[w] = "idle" /\ \A v \in Workers : v # w =>
          pc'[v] = pc[v] /\ rid'[v] = rid[v] /\ demand'[v] = demand[v]
    BY <1>4, <1>12 DEF Answer
  <2>2. late' = {} /\ FreshIds' /\ OrderIdsOnce' /\ Backed'
    BY <1>2, <1>12 DEF FreshIds, OrderIdsOnce, Backed
  <2>3. OwnIds' /\ Places'
    BY <1>2, <1>12, <2>1 DEF OwnIds, Places, Serving
  <2> QED
    BY <2>2, <2>3
<1>13. ASSUME NEW w \in Workers, ReserveOk(w) \/ ReserveRefused(w) \/ ReserveLost(w)
       PROVE  Kept
  <2>1. pc[w] = "reserve" /\ UNCHANGED <<orders, nextId, late>>
    BY <1>13 DEF ReserveOk, ReserveRefused, ReserveLost, envVars
  <2>2. status[rid[w]] = "none"
    BY <1>2, <2>1 DEF Places
  <2>3. CASE ReserveOk(w)
    BY <2>1, <2>2, <2>3, <1>11 DEF ReserveOk, Reserved
  <2>4. CASE ReserveRefused(w)
    BY <2>1, <2>4, <1>12 DEF ReserveRefused, ledgerVars
  <2>5. CASE ReserveLost(w)
    BY <2>1, <2>2, <2>5, <1>11, <1>12 DEF ReserveLost, Reserved, ledgerVars
  <2> QED
    BY <1>13, <2>3, <2>4, <2>5
\* MysqlOrderRepository::create_order
<1>14. ASSUME NEW w \in Workers, pc[w] = "insert", UNCHANGED <<nextId, late, status, held>>,
              \/ orders' = NewOrder(w, TRUE) /\ Answer(w)
              \/ orders' = NewOrder(w, FALSE) /\ GoTo(w, "compensate")
       PROVE  Kept
  <2> USE <1>14
  <2>1. PICK n \in Nat :
          /\ n \notin DOMAIN orders /\ DOMAIN orders' = DOMAIN orders \cup {n}
          /\ \A o \in DOMAIN orders : orders'[o] = orders[o]
          /\ orders'[n].items = demand[w] /\ orders'[n].rid = rid[w]
          /\ Answer(w) \/ (~ orders'[n].sure /\ GoTo(w, "compensate"))
    <3>1. CASE orders' = NewOrder(w, TRUE) /\ Answer(w)
      BY <3>1, NewRow
    <3>2. CASE orders' = NewOrder(w, FALSE) /\ GoTo(w, "compensate")
      <4> HIDE <1>14
      <4> QED
        BY <3>2, NewRow
    <3> QED
      BY <3>1, <3>2
  <2>2. /\ rid[w][1] \in Users /\ rid[w][2] < nextId
        /\ \A v \in Workers : v # w /\ Serving(v) => rid[v] # rid[w]
        /\ \A o \in DOMAIN orders : orders[o].rid # rid[w]
        /\ status[rid[w]] = "reserved" /\ held[rid[w]] = demand[w]
    BY <1>2 DEF OwnIds, Places, Serving
  <2>3. \A v \in Workers : v # w => pc'[v] = pc[v] /\ rid'[v] = rid[v] /\ demand'[v] = demand[v]
    BY <1>4 DEF GoTo, Answer
  <2>4. pc'[w] = "idle" \/ (~ orders'[n].sure /\ pc'[w] = "compensate" /\ rid'[w] = rid[w])
    BY <1>4, <2>1 DEF GoTo, Answer
  <2>5. late' = {} /\ FreshIds' /\ OwnIds'
    BY <1>2, <2>2, <2>3, <2>4 DEF FreshIds, OwnIds, Serving
  <2>6. OrderIdsOnce'
    BY <1>2, <2>1, <2>2 DEF OrderIdsOnce
  <2>7. Places'
    BY <1>2, <2>1, <2>2, <2>3, <2>4 DEF Places, Serving
  <2>8. Backed'
    BY <1>2, <2>1, <2>2 DEF Backed
  <2> QED
    BY <2>5, <2>6, <2>7, <2>8
<1>15. ASSUME NEW w \in Workers, InsertOrder(w) PROVE Kept
  BY <1>15, <1>14 DEF InsertOrder, envVars, ledgerVars
<1>16. ASSUME NEW w \in Workers, InsertFails(w) PROVE Kept
  <2>1. CASE orders' = NewOrder(w, FALSE)
    BY <1>16, <2>1, <1>14 DEF InsertFails, ledgerVars
  <2>2. CASE UNCHANGED orders
    <3>1. pc[w] = "insert" /\ UNCHANGED <<orders, nextId, late, status, held, rid, demand>>
      BY <1>16, <2>2 DEF InsertFails, ledgerVars, GoTo
    <3>2. pc'[w] = "compensate" /\ \A v \in Workers : v # w => pc'[v] = pc[v]
      BY <1>4, <1>16 DEF InsertFails, GoTo
    <3>3. late' = {} /\ FreshIds' /\ OrderIdsOnce' /\ Backed'
      BY <1>2, <3>1 DEF FreshIds, OrderIdsOnce, Backed
    <3>4. OwnIds' /\ Places'
      BY <1>2, <3>1, <3>2 DEF OwnIds, Places, Serving
    <3> QED
      BY <3>3, <3>4
  <2> QED
    BY <1>16, <2>1, <2>2 DEF InsertFails
<1>17. ASSUME NEW w \in Workers, Compensate(w) PROVE Kept
  <2>1. CASE status[rid[w]] # "reserved"
    BY <1>17, <2>1, <1>12 DEF Compensate, Released, Release, envVars, ledgerVars
  <2>2. CASE status[rid[w]] = "reserved"
    <3>1. /\ pc[w] = "compensate" /\ Release(rid[w]) /\ Answer(w)
          /\ UNCHANGED <<orders, nextId, late>>
      BY <1>17, <2>2 DEF Compensate, Released, envVars
    <3>2. held' = held /\ \A s \in Ids : s # rid[w] => status'[s] = status[s]
      BY <3>1, <1>4, OneReservation
    <3>3. /\ rid[w][1] \in Users /\ rid[w][2] < nextId
          /\ \A v \in Workers : v # w /\ Serving(v) => rid[v] # rid[w]
          /\ \A o \in DOMAIN orders : orders[o].rid = rid[w] => ~ orders[o].sure
      BY <1>2, <3>1 DEF OwnIds, Places, Serving
    <3>4. pc'[w] = "idle" /\ \A v \in Workers : v # w =>
            pc'[v] = pc[v] /\ rid'[v] = rid[v] /\ demand'[v] = demand[v]
      BY <1>4, <3>1 DEF Answer
    <3>5. late' = {} /\ FreshIds'
      BY <1>2, <1>3, <3>1, <3>2, <3>3 DEF FreshIds
    <3>6. OwnIds' /\ OrderIdsOnce'
      BY <1>2, <3>1, <3>4 DEF OwnIds, OrderIdsOnce, Serving
    <3>7. Places'
      BY <1>2, <1>4, <3>1, <3>2, <3>3, <3>4 DEF Places, Serving
    <3>8. Backed'
      BY <1>2, <1>4, <3>1, <3>2, <3>3 DEF Backed
    <3> QED
      BY <3>5, <3>6, <3>7, <3>8
  <2> QED
    BY <2>1, <2>2
<1>18. ASSUME NEW w \in Workers, CompensateLost(w) PROVE Kept
  BY <1>18, <1>12 DEF CompensateLost, ledgerVars
\* cancel_order changes no reservation: nobody reserves under the ids it releases
<1>20. ASSUME NEW w \in Workers, UNCHANGED <<nextId, late, status, held, rid, demand>>,
              ~ Serving(w), pc' = [pc EXCEPT ![w] = "cancel"] \/ pc' = [pc EXCEPT ![w] = "reread"]
                            \/ pc' = [pc EXCEPT ![w] = "release"] \/ pc' = pc,
              DOMAIN orders' = DOMAIN orders,
              \A p \in DOMAIN orders : /\ orders'[p].rid = orders[p].rid
                                       /\ orders'[p].sure = orders[p].sure
                                       /\ orders'[p].items = orders[p].items
                                       /\ orders'[p].status = "created" => orders[p].status = "created"
       PROVE  Kept
  <2>1. ~ Serving(w)' /\ \A v \in Workers : v # w => pc'[v] = pc[v]
    BY <1>4, <1>20 DEF Serving
  <2>2. late' = {} /\ FreshIds' /\ OrderIdsOnce' /\ Backed'
    BY <1>2, <1>20 DEF FreshIds, OrderIdsOnce, Backed
  <2>3. OwnIds' /\ Places'
    BY <1>2, <1>20, <2>1 DEF OwnIds, Places, Serving
  <2> QED
    BY <2>2, <2>3
<1>21. ASSUME NEW w \in Workers, NEW o \in OrderIds, CancelFind(w, o) PROVE Kept
  BY <1>21, <1>20 DEF CancelFind, Serving, envVars, ledgerVars
<1>22. ASSUME NEW w \in Workers, CancelUpdate(w) PROVE Kept
  <2>1. order[w] \in OrderIds
    BY DEF TypeInv, TypeOK
  <2> QED
    BY <2>1, <1>22, <1>20, MarkedRows DEF CancelUpdate, Serving, GoTo, envVars, ledgerVars
<1>23. ASSUME NEW w \in Workers, CancelUpdateFails(w) PROVE Kept
  <2>1. CASE UNCHANGED orders
    BY <2>1, <1>23, <1>12 DEF CancelUpdateFails, ledgerVars
  <2>2. CASE MarkCancelled(order[w])
    <3>1. order[w] \in OrderIds
      BY DEF TypeInv, TypeOK
    <3>2. /\ DOMAIN orders' = DOMAIN orders
          /\ \A p \in DOMAIN orders : /\ orders'[p].rid = orders[p].rid
                                      /\ orders'[p].sure = orders[p].sure
                                      /\ orders'[p].items = orders[p].items
                                      /\ orders'[p].status = "created" => orders[p].status = "created"
      BY <3>1, <2>2, MarkedRows
    <3>3. UNCHANGED <<nextId, late, status, held>>
      BY <1>23 DEF CancelUpdateFails, ledgerVars
    <3>4. pc'[w] = "idle" /\ \A v \in Workers : v # w =>
            pc'[v] = pc[v] /\ rid'[v] = rid[v] /\ demand'[v] = demand[v]
      BY <1>4, <1>23 DEF CancelUpdateFails, Answer
    <3>5. late' = {} /\ FreshIds' /\ OrderIdsOnce' /\ Backed'
      BY <1>2, <3>2, <3>3 DEF FreshIds, OrderIdsOnce, Backed
    <3>6. OwnIds' /\ Places'
      BY <1>2, <3>2, <3>3, <3>4 DEF OwnIds, Places, Serving
    <3> QED
      BY <3>5, <3>6
  <2> QED
    BY <1>23, <2>1, <2>2 DEF CancelUpdateFails
<1>24. ASSUME NEW w \in Workers, CancelReread(w) PROVE Kept
  BY <1>24, <1>20 DEF CancelReread, Serving, envVars, ledgerVars
<1>25. ASSUME NEW w \in Workers, CancelRereadFails(w) PROVE Kept
  BY <1>25, <1>12 DEF CancelRereadFails, ledgerVars
<1>26. ASSUME NEW w \in Workers, NEW b \in Books, CancelRelease(w, b) PROVE Kept
  <2>1. UNCHANGED ledgerVars
    <3>1. gatewayId \in 1 .. MaxIds + 1 /\ gatewayId' \in 1 .. MaxIds + 1 /\ gatewayId' = gatewayId + 1
      BY <1>26 DEF CancelRelease, TypeInv, TypeOK
    <3>2. gatewayId \in 1 .. MaxIds
      BY <3>1, <1>3
    <3>3. <<Gateway, gatewayId>> \in Ids
      BY <3>2, IdFacts
    <3>4. status[<<Gateway, gatewayId>>] = "none"
      BY <3>3, <1>2 DEF FreshIds
    <3> QED
      BY <3>4, <1>26 DEF CancelRelease, Released, Release
  <2>2. CASE todo[w] = {b}
    BY <1>26, <2>1, <2>2, <1>12 DEF CancelRelease, ledgerVars
  <2>3. CASE todo[w] # {b}
    BY <1>26, <2>1, <2>3, <1>20 DEF CancelRelease, ledgerVars, Serving
  <2> QED
    BY <2>2, <2>3
\* Steps that change nothing of this
<1>30. ASSUME UNCHANGED <<nextId, late, status, held, rid, demand, pc, orders>> PROVE Kept
  BY <1>2, <1>30 DEF FreshIds, OwnIds, OrderIdsOnce, Places, Backed, Serving
<1>31. ASSUME UNCHANGED vars PROVE Kept
  BY <1>30, <1>31 DEF vars, orderVars, envVars, ledgerVars
<1>32. ASSUME NEW b \in Books, NEW q \in 1 .. MaxQuantity, AddStock(b, q) PROVE Kept
  BY <1>30, <1>32 DEF AddStock, Inbound, orderVars, envVars
<1>33. ASSUME NEW w \in Workers, WorkerStep(w) PROVE Kept
  BY <1>33, <1>13, <1>15, <1>16, <1>17, <1>18, <1>22, <1>23, <1>24, <1>25, <1>26 DEF WorkerStep
<1>34. ASSUME NEW w \in Workers, NEW o \in OrderIds, CancelAgain(w, o) PROVE Kept
  BY <1>34, <1>31 DEF CancelAgain
<1>35. ASSUME NEW w \in Workers, ReadOnly(w) PROVE Kept
  BY <1>35, <1>31 DEF ReadOnly
<1> HIDE DEF Kept
<1>36. Kept
  BY <1>1, <1>2, <1>10, <1>21, <1>31, <1>32, <1>33, <1>34, <1>35 DEF Next
<1> QED
  BY <1>36 DEF Kept

(* At the start no id is handed out and nothing is reserved. *)
LEMMA FirstRunInit == Init => FirstRun
<1> SUFFICES ASSUME Init PROVE FirstRun
  OBVIOUS
<1>1. DOMAIN orders = {} /\ \A w \in Workers : ~ Serving(w) /\ pc[w] = "idle"
  BY DEF Init, Serving
<1>2. late = {} /\ FreshIds
  BY DEF Init, LedgerInit, FreshIds
<1> QED
  BY <1>1, <1>2 DEF FirstRun, OwnIds, OrderIdsOnce, Places, Backed

(* The order service keeps its promise to a customer whose order it        *)
(* acknowledged: within one run of the process and until the order is      *)
(* cancelled, no thread, fault or compensation of another request takes    *)
(* its reservation away.                                                   *)
THEOREM SplitOrdersBacked == Spec => []OrdersAreBacked
<1>1. FirstRun => OrdersAreBacked
  BY DEF FirstRun, OrdersAreBacked, OrderIdsOnce, Backed
<1> QED
  BY <1>1, TypeInit, TypeStep, FirstRunInit, FirstRunStep, PTL DEF Spec

(* A step that loses no answer leaves no reservation without its request   *)
(* or its order.                                                           *)
LEMMA NoOrphanStep ==
  ASSUME TypeInv, FirstRun, NoOrphanReservation, [Next]_vars
  PROVE  NoOrphanReservation'
<1> DEFINE Owned(r) == \/ \E w \in Workers : pc[w] \in {"insert", "compensate"} /\ rid[w] = r
                       \/ \E o \in DOMAIN orders : orders[o].rid = r
           Clean == \A r \in Ids : status[r] = "reserved" => Owned(r)
<1> SUFFICES ASSUME ~ rpcLost', restarts' = 0 PROVE Clean'
  BY DEF NoOrphanReservation
<1>1. /\ restarts = 0 /\ ~ rpcLost /\ ~ Restart
      /\ \A w \in Workers : ~ ReserveLost(w) /\ ~ CompensateLost(w)
  <2>1. ~ Restart /\ \A w \in Workers : ~ ReserveLost(w) /\ ~ CompensateLost(w)
    BY DEF TypeInv, TypeOK, Restart, ReserveLost, CompensateLost, RpcFault
  <2>2. ASSUME NEW w \in Workers, WorkerStep(w) PROVE restarts' = restarts /\ rpcLost' = rpcLost
    BY <2>1, <2>2 DEF WorkerStep, envVars, ReserveOk, ReserveRefused, InsertOrder, InsertFails,
                Compensate, CancelUpdate, CancelUpdateFails, CancelReread,
                CancelRereadFails, CancelRelease, RpcFault, TypeInv, TypeOK
  <2>3. restarts' = restarts /\ rpcLost' = rpcLost
    BY <2>1, <2>2 DEF Next, vars, orderVars, envVars, CreateOrder, CancelFind, CancelAgain,
                      ReadOnly, LateCall, AddStock
  <2> QED
    BY <2>1, <2>3
<1>2. Clean /\ late = {} /\ OwnIds /\ Places
  BY <1>1 DEF NoOrphanReservation, FirstRun
<1>3. /\ pc \in [Workers -> {"idle", "reserve", "insert", "compensate",
                             "cancel", "reread", "release"}]
      /\ rid \in [Workers -> Ids]
  BY DEF TypeInv, TypeOK
\* A worker that is not at insert or compensate moves, no order and no id is lost
<1>4. ASSUME NEW w \in Workers, pc[w] \notin {"insert", "compensate"},
             \A v \in Workers : v # w => pc'[v] = pc[v] /\ rid'[v] = rid[v],
             DOMAIN orders' = DOMAIN orders,
             \A o \in DOMAIN orders : orders'[o].rid = orders[o].rid,
             \A r \in Ids : status'[r] = "reserved" => status[r] = "reserved"
      PROVE  Clean'
  BY <1>2, <1>4
<1>10. ASSUME NEW w \in Workers, NEW u \in Users, NEW d \in Demands, CreateOrder(w, u, d)
       PROVE  Clean'
  BY <1>3, <1>10, <1>4 DEF CreateOrder, ledgerVars
<1>11. ASSUME NEW w \in Workers, ReserveOk(w) PROVE Clean'
  <2>1. rid[w] \in Ids /\ demand[w] \in Demands
    BY <1>11 DEF ReserveOk, TypeInv, TypeOK, Serving
  <2>2. \A r \in Ids : r # rid[w] => status'[r] = status[r]
    BY <1>11, <2>1, OneReservation DEF ReserveOk, Reserved, ledgerVars
  <2>3. /\ pc'[w] = "insert" /\ rid' = rid /\ orders' = orders
        /\ \A v \in Workers : v # w => pc'[v] = pc[v]
        /\ pc[w] = "reserve"
    BY <1>11, <1>3 DEF ReserveOk, GoTo
  <2> QED
    BY <1>2, <2>2, <2>3
<1>12. ASSUME NEW w \in Workers, ReserveRefused(w) PROVE Clean'
  BY <1>3, <1>12, <1>4 DEF ReserveRefused, Answer, ledgerVars
<1>13. ASSUME NEW w \in Workers, InsertOrder(w) PROVE Clean'
  <2>1. /\ orders' = NewOrder(w, TRUE) /\ status' = status
        /\ \A v \in Workers : v # w => pc'[v] = pc[v] /\ rid'[v] = rid[v]
    BY <1>3, <1>13 DEF InsertOrder, Answer, ledgerVars
  <2>2. PICK n \in Nat : /\ DOMAIN orders' = DOMAIN orders \cup {n}
                         /\ n \notin DOMAIN orders
                         /\ \A o \in DOMAIN orders : orders'[o] = orders[o]
                         /\ orders'[n].rid = rid[w]
    BY <2>1, NewRow
  <2>3. ASSUME NEW r \in Ids, status'[r] = "reserved" PROVE Owned(r)'
    <3>1. CASE r = rid[w]
      BY <3>1, <2>2
    <3>2. CASE r # rid[w] /\ \E v \in Workers : pc[v] \in {"insert", "compensate"} /\ rid[v] = r
      BY <3>2, <2>1
    <3>3. CASE \E o \in DOMAIN orders : orders[o].rid = r
      BY <3>3, <2>2
    <3> QED
      BY <1>2, <2>1, <2>3, <3>1, <3>2, <3>3
  <2> QED
    BY <2>3
<1>14. ASSUME NEW w \in Workers, InsertFails(w) PROVE Clean'
  <2>1. /\ status' = status /\ rid' = rid /\ pc[w] = "insert" /\ pc'[w] = "compensate"
        /\ \A v \in Workers : v # w => pc'[v] = pc[v]
    BY <1>3, <1>14 DEF InsertFails, GoTo, ledgerVars
  <2>2. CASE orders' = NewOrder(w, FALSE)
    <3>1. PICK n \in Nat : /\ DOMAIN orders' = DOMAIN orders \cup {n}
                           /\ \A o \in DOMAIN orders : orders'[o] = orders[o]
      BY <2>2, NewRow
    <3> QED
      BY <1>2, <2>1, <3>1
  <2>3. CASE orders' = orders
    BY <1>2, <2>1, <2>3
  <2> QED
    BY <1>14, <2>2, <2>3 DEF InsertFails
<1>15. ASSUME NEW w \in Workers, Compensate(w) PROVE Clean'
  <2>1. /\ orders' = orders /\ pc[w] = "compensate"
        /\ \A v \in Workers : v # w => pc'[v] = pc[v] /\ rid'[v] = rid[v]
    BY <1>3, <1>15 DEF Compensate, Answer
  <2>2. status'[rid[w]] # "reserved" /\ \A r \in Ids : r # rid[w] => status'[r] = status[r]
    BY <1>15, <1>3, OneReservation DEF Compensate, Released, ledgerVars
  <2> QED
    BY <1>2, <2>1, <2>2
<1>20. ASSUME NEW w \in Workers, NEW o \in OrderIds, CancelFind(w, o) PROVE Clean'
  BY <1>3, <1>20, <1>4 DEF CancelFind, ledgerVars
<1>21. ASSUME NEW w \in Workers, CancelUpdate(w) \/ CancelUpdateFails(w) PROVE Clean'
  <2>1. order[w] \in OrderIds
    BY DEF TypeInv, TypeOK
  <2>2. /\ DOMAIN orders' = DOMAIN orders
        /\ \A o \in DOMAIN orders : orders'[o].rid = orders[o].rid
    BY <1>21, <2>1, MarkedRows DEF CancelUpdate, CancelUpdateFails
  <2>3. /\ pc[w] = "cancel" /\ status' = status
        /\ \A v \in Workers : v # w => pc'[v] = pc[v] /\ rid'[v] = rid[v]
    BY <1>3, <1>21 DEF CancelUpdate, CancelUpdateFails, GoTo, Answer, ledgerVars
  <2> QED
    BY <2>2, <2>3, <1>4
<1>22. ASSUME NEW w \in Workers, CancelReread(w) \/ CancelRereadFails(w) PROVE Clean'
  BY <1>3, <1>22, <1>4 DEF CancelReread, CancelRereadFails, Answer, ledgerVars
<1>23. ASSUME NEW w \in Workers, NEW b \in Books, CancelRelease(w, b) PROVE Clean'
  <2>1. \A r \in Ids : status'[r] = "reserved" => status[r] = "reserved"
    BY <1>23 DEF CancelRelease, Released, Release, ledgerVars, TypeInv, TypeOK, LedgerTypeOK
  <2>2. /\ pc[w] = "release" /\ orders' = orders
        /\ \A v \in Workers : v # w => pc'[v] = pc[v] /\ rid'[v] = rid[v]
    BY <1>3, <1>23 DEF CancelRelease, Answer
  <2> QED
    BY <2>1, <2>2, <1>4
<1>30. ASSUME UNCHANGED <<pc, rid, orders, status>> PROVE Clean'
  BY <1>2, <1>30
<1>31. ASSUME UNCHANGED vars PROVE Clean'
  BY <1>30, <1>31 DEF vars, orderVars, ledgerVars
<1>32. ASSUME NEW b \in Books, NEW q \in 1 .. MaxQuantity, AddStock(b, q) PROVE Clean'
  BY <1>30, <1>32 DEF AddStock, Inbound, orderVars
<1>33. ASSUME NEW w \in Workers, WorkerStep(w) PROVE Clean'
  BY <1>1, <1>33, <1>11, <1>12, <1>13, <1>14, <1>15, <1>21, <1>22, <1>23 DEF WorkerStep
<1>34. ASSUME NEW w \in Workers, NEW o \in OrderIds, CancelAgain(w, o) PROVE Clean'
  BY <1>34, <1>31 DEF CancelAgain
<1>35. ASSUME NEW w \in Workers, ReadOnly(w) PROVE Clean'
  BY <1>35, <1>31 DEF ReadOnly
<1> HIDE DEF Clean
<1> QED
  BY <1>1, <1>2, <1>10, <1>20, <1>31, <1>32, <1>33, <1>34, <1>35 DEF Next

(* create_order cleans up after itself: with no lost answer and no         *)
(* restart, a reservation belongs to a request under way or to an order,   *)
(* also when the insertion of the order has failed.                        *)
THEOREM SplitNoOrphan == Spec => []NoOrphanReservation
<1>1. Init => NoOrphanReservation
  BY DEF Init, LedgerInit, NoOrphanReservation
<1> QED
  BY <1>1, TypeInit, TypeStep, FirstRunInit, FirstRunStep, NoOrphanStep, PTL DEF Spec
=============================================================================
