--------------------- MODULE InventoryRepositoryProofs ---------------------
(***************************************************************************)
(* First the ledger: conservation of stock and finality of reservations,   *)
(* for every set of books, every finite set of reservation ids and every   *)
(* bound.  Then the repository: its transactions, statement by statement   *)
(* and under every interleaving of any number of sessions, implement the   *)
(* atomic ledger.                                                          *)
(***************************************************************************)
EXTENDS InventoryRepository, FiniteSetTheorems, TLAPS

USE LedgerAssumption, RepositoryAssumption

-----------------------------------------------------------------------------
(* The ledger *)

(* Every call of the ledger keeps the tables within their types: reserve   *)
(* takes only what Sufficient allows, so available stays non-negative.     *)
LEMMA LedgerStepTypes ==
  ASSUME LedgerTypeOK, [LedgerNext]_ledgerVars
  PROVE  LedgerTypeOK'
<1> USE DEF LedgerTypeOK
<1>1. ASSUME NEW r \in Ids, NEW d \in Demands, Reserve(r, d)
      PROVE  LedgerTypeOK'
  BY <1>1 DEF Reserve, Sufficient, Demands, Statuses
<1>2. ASSUME NEW r \in Ids, Release(r)
      PROVE  LedgerTypeOK'
  BY <1>2 DEF Release, Statuses
<1>3. ASSUME NEW b \in Books, NEW q \in 1 .. MaxQuantity, Inbound(b, q)
      PROVE  LedgerTypeOK'
  BY <1>3 DEF Inbound
<1>4. CASE UNCHANGED ledgerVars
  BY <1>4 DEF ledgerVars
<1> QED
  BY <1>1, <1>2, <1>3, <1>4 DEF LedgerNext

(* The tables keep their column types under every operation of the         *)
(* repository: in particular available never becomes negative.             *)
THEOREM LedgerTyping == LedgerSpec => []LedgerTypeOK
<1>1. LedgerInit => LedgerTypeOK
  BY DEF LedgerInit, LedgerTypeOK, Statuses, NoItems
<1>2. LedgerTypeOK /\ [LedgerNext]_ledgerVars => LedgerTypeOK'
  BY LedgerStepTypes
<1> QED
  BY <1>1, <1>2, PTL DEF LedgerSpec

-----------------------------------------------------------------------------

(* The units one reservation holds of one book: q of them, numbered.       *)
LEMMA OwnUnits ==
  ASSUME NEW r, NEW q \in Nat
  PROVE  /\ IsFiniteSet({r} \X (1 .. q))
         /\ Cardinality({r} \X (1 .. q)) = q
<1>1. IsFiniteSet({r}) /\ Cardinality({r}) = 1
  BY FS_Singleton
<1>2. IsFiniteSet(1 .. q) /\ Cardinality(1 .. q) = q
  <2>1. 1 \in Int /\ q \in Int
    OBVIOUS
  <2> QED
    BY <2>1, FS_Interval
<1>3. Cardinality({r} \X (1 .. q)) = Cardinality({r}) * Cardinality(1 .. q)
  BY <1>1, <1>2, FS_Product
<1> QED
  BY <1>1, <1>2, <1>3, FS_Product

(* The units held of a book are finitely many. *)
LEMMA HeldUnitsFinite ==
  ASSUME NEW b \in Books
  PROVE  IsFiniteSet(HeldUnits(b)) /\ Cardinality(HeldUnits(b)) \in Nat
<1>1. IsFiniteSet(1 .. MaxQuantity)
  BY FS_Interval
<1>2. IsFiniteSet(Ids \X (1 .. MaxQuantity))
  BY <1>1, FS_Product
<1>3. HeldUnits(b) \in SUBSET (Ids \X (1 .. MaxQuantity))
  BY DEF HeldUnits
<1> QED
  BY <1>2, <1>3, FS_Subset, FS_CardinalityType

(* Adding to, or removing from, a finite set the units of a reservation    *)
(* that are not, or all are, in it.                                        *)
LEMMA DisjointUnits ==
  ASSUME NEW S, IsFiniteSet(S), NEW r, NEW q \in Nat,
         S \cap ({r} \X (1 .. q)) = {}
  PROVE  Cardinality(S \cup ({r} \X (1 .. q))) = Cardinality(S) + q
<1>1. Cardinality(S \cup ({r} \X (1 .. q)))
        = Cardinality(S) + Cardinality({r} \X (1 .. q)) - Cardinality(S \cap ({r} \X (1 .. q)))
  BY OwnUnits, FS_Union
<1>2. Cardinality(S) \in Nat
  BY FS_CardinalityType
<1>3. Cardinality({r} \X (1 .. q)) = q
  BY OwnUnits
<1>4. Cardinality(S \cap ({r} \X (1 .. q))) = 0
  BY FS_EmptySet
<1> QED
  BY <1>1, <1>2, <1>3, <1>4

-----------------------------------------------------------------------------

(* The inductive invariant: conservation needs the types, because units    *)
(* are counted as elements of a finite set of pairs.                       *)
LedgerInv == LedgerTypeOK /\ Conservation

(* Nothing is held and nothing has been stocked at the start.              *)
LEMMA InitConserves == LedgerInit => LedgerInv
<1> SUFFICES ASSUME LedgerInit PROVE LedgerInv
  OBVIOUS
<1>1. LedgerTypeOK
  BY DEF LedgerInit, LedgerTypeOK, Statuses, NoItems
<1>2. ASSUME NEW b \in Books PROVE HeldUnits(b) = {}
  BY DEF LedgerInit, HeldUnits
<1>3. ASSUME NEW b \in Books PROVE available[b] + Cardinality(HeldUnits(b)) = stocked[b]
  <2>1. Cardinality(HeldUnits(b)) = 0
    BY <1>2, FS_EmptySet
  <2>2. available[b] \in Nat /\ available[b] = stocked[b]
    BY <1>1 DEF LedgerInit, LedgerTypeOK
  <2> QED
    BY <2>1, <2>2
<1> QED
  BY <1>1, <1>3 DEF LedgerInv, Conservation

(* reserve_stock turns as many available units into held ones as it takes. *)
LEMMA ReserveConserves ==
  ASSUME LedgerInv, NEW r \in Ids, NEW d \in Demands, Reserve(r, d), LedgerTypeOK'
  PROVE  Conservation'
<1> SUFFICES ASSUME NEW b \in Books
             PROVE  available'[b] + Cardinality(HeldUnits(b)') = stocked'[b]
  BY DEF Conservation
<1> DEFINE own == {r} \X (1 .. d[b])
<1>1. d[b] \in Nat /\ d[b] <= MaxQuantity /\ d[b] <= available[b]
  BY DEF Demands, Reserve, Sufficient
<1>2. HeldUnits(b) \cap own = {}
  BY DEF HeldUnits, Reserve
<1>3. HeldUnits(b)' = HeldUnits(b) \cup own
  <2>1. ASSUME NEW u \in Ids \X (1 .. MaxQuantity)
        PROVE  (status'[u[1]] = "reserved" /\ u[2] <= held'[u[1]][b])
                 <=> (u \in HeldUnits(b) \/ u \in own)
    <3>1. CASE u[1] = r
      <4>1. status'[u[1]] = "reserved" /\ held'[u[1]] = d
        BY <3>1 DEF Reserve, LedgerInv, LedgerTypeOK
      <4>2. u \notin HeldUnits(b)
        BY <3>1 DEF Reserve, HeldUnits
      <4>3. u \in own <=> u[2] <= d[b]
        BY <3>1, <1>1
      <4> QED
        BY <4>1, <4>2, <4>3
    <3>2. CASE u[1] # r
      <4>1. status'[u[1]] = status[u[1]] /\ held'[u[1]] = held[u[1]]
        BY <3>2 DEF Reserve, LedgerInv, LedgerTypeOK
      <4>2. u \notin own
        BY <3>2
      <4> QED
        BY <4>1, <4>2 DEF HeldUnits
    <3> QED
      BY <3>1, <3>2
  <2>2. own \subseteq Ids \X (1 .. MaxQuantity)
    BY <1>1
  <2> QED
    BY <2>1, <2>2 DEF HeldUnits
<1>4. Cardinality(HeldUnits(b)') = Cardinality(HeldUnits(b)) + d[b]
  <2>1. IsFiniteSet(HeldUnits(b))
    BY HeldUnitsFinite
  <2>2. Cardinality(HeldUnits(b) \cup own) = Cardinality(HeldUnits(b)) + d[b]
    BY <1>1, <1>2, <2>1, DisjointUnits
  <2> QED
    BY <1>3, <2>2
<1>5. available'[b] = available[b] - d[b] /\ stocked'[b] = stocked[b]
  BY DEF Reserve, LedgerInv, LedgerTypeOK
<1>6. available[b] + Cardinality(HeldUnits(b)) = stocked[b]
  BY DEF LedgerInv, Conservation
<1> QED
  BY <1>1, <1>4, <1>5, <1>6, HeldUnitsFinite DEF LedgerInv, LedgerTypeOK

(* release_stock makes exactly the reservation's units available again.    *)
LEMMA ReleaseConserves ==
  ASSUME LedgerInv, NEW r \in Ids, Release(r)
  PROVE  Conservation'
<1> SUFFICES ASSUME NEW b \in Books
             PROVE  available'[b] + Cardinality(HeldUnits(b)') = stocked'[b]
  BY DEF Conservation
<1> DEFINE own == {r} \X (1 .. held[r][b])
           rest == HeldUnits(b)'
<1>1. held[r][b] \in Nat /\ held[r][b] <= MaxQuantity
  BY DEF LedgerInv, LedgerTypeOK
<1>2. rest \cap own = {}
  BY DEF HeldUnits, Release, LedgerInv, LedgerTypeOK
<1>3. HeldUnits(b) = rest \cup own
  <2>1. ASSUME NEW u \in Ids \X (1 .. MaxQuantity)
        PROVE  (status[u[1]] = "reserved" /\ u[2] <= held[u[1]][b])
                 <=> (u \in rest \/ u \in own)
    <3>1. CASE u[1] = r
      <4>1. status'[u[1]] # "reserved" /\ status[u[1]] = "reserved"
        BY <3>1 DEF Release, LedgerInv, LedgerTypeOK
      <4>2. u \in own <=> u[2] <= held[r][b]
        BY <3>1, <1>1
      <4> QED
        BY <3>1, <4>1, <4>2 DEF HeldUnits
    <3>2. CASE u[1] # r
      <4>1. status'[u[1]] = status[u[1]] /\ held' = held
        BY <3>2 DEF Release, LedgerInv, LedgerTypeOK
      <4>2. u \notin own
        BY <3>2
      <4> QED
        BY <4>1, <4>2 DEF HeldUnits
    <3> QED
      BY <3>1, <3>2
  <2>2. own \subseteq Ids \X (1 .. MaxQuantity)
    BY <1>1
  <2> QED
    BY <2>1, <2>2 DEF HeldUnits
<1>4. IsFiniteSet(rest) /\ Cardinality(rest) \in Nat
  <2>1. rest \in SUBSET HeldUnits(b)
    BY <1>3
  <2> QED
    BY <2>1, HeldUnitsFinite, FS_Subset, FS_CardinalityType
<1>5. Cardinality(HeldUnits(b)) = Cardinality(rest) + held[r][b]
  <2> HIDE DEF rest
  <2>1. Cardinality(rest \cup own) = Cardinality(rest) + held[r][b]
    BY <1>1, <1>2, <1>4, DisjointUnits
  <2> QED
    BY <1>3, <2>1
<1>6. available'[b] = available[b] + held[r][b] /\ stocked'[b] = stocked[b]
  BY DEF Release, LedgerInv, LedgerTypeOK
<1>7. available[b] + Cardinality(HeldUnits(b)) = stocked[b]
  BY DEF LedgerInv, Conservation
<1> QED
  BY <1>1, <1>4, <1>5, <1>6, <1>7 DEF LedgerInv, LedgerTypeOK

(* No operation of the reservation API loses or invents a unit of stock:   *)
(* the books add up after any number of reservations, releases and inbound *)
(* deliveries.                                                             *)
THEOREM LedgerConserves == LedgerSpec => []Conservation
<1>1. LedgerInv /\ LedgerTypeOK' /\ [LedgerNext]_ledgerVars => LedgerInv'
  <2> SUFFICES ASSUME LedgerInv, LedgerTypeOK', [LedgerNext]_ledgerVars
               PROVE  Conservation'
    BY DEF LedgerInv
  <2>1. ASSUME NEW b \in Books, NEW q \in 1 .. MaxQuantity, Inbound(b, q)
        PROVE  Conservation'
    <3>1. ASSUME NEW c \in Books PROVE HeldUnits(c)' = HeldUnits(c)
      BY <2>1 DEF Inbound, HeldUnits
    <3>2. ASSUME NEW c \in Books
          PROVE  available'[c] + Cardinality(HeldUnits(c)) = stocked'[c]
      BY <2>1, HeldUnitsFinite DEF Inbound, LedgerInv, LedgerTypeOK, Conservation
    <3> QED
      BY <3>1, <3>2 DEF Conservation
  <2>2. CASE UNCHANGED ledgerVars
    BY <2>2 DEF ledgerVars, LedgerInv, Conservation, HeldUnits
  <2> QED
    BY <2>1, <2>2, ReserveConserves, ReleaseConserves DEF LedgerNext
<1>2. LedgerInv => Conservation
  BY DEF LedgerInv
<1> QED
  BY <1>1, <1>2, InitConserves, LedgerTyping, PTL DEF LedgerSpec

(* A released id stays released and the items of a reservation never       *)
(* change: the idempotence answers of ReserveInventory and                 *)
(* ReleaseInventory rest on it.                                            *)
THEOREM LedgerIsFinal == LedgerSpec => ReservationsAreFinal
<1> DEFINE Final == \A r \in Ids :
              /\ status[r] = "released" => status'[r] = "released"
              /\ status[r] # "none" => status'[r] # "none" /\ held'[r] = held[r]
<1>1. LedgerTypeOK /\ [LedgerNext]_ledgerVars => [Final]_ledgerVars
  <2> SUFFICES ASSUME LedgerTypeOK, LedgerNext PROVE Final
    OBVIOUS
  <2> USE DEF LedgerTypeOK
  <2>1. ASSUME NEW r \in Ids, NEW d \in Demands, Reserve(r, d) PROVE Final
    BY <2>1 DEF Reserve
  <2>2. ASSUME NEW r \in Ids, Release(r) PROVE Final
    BY <2>2 DEF Release
  <2>3. ASSUME NEW b \in Books, NEW q \in 1 .. MaxQuantity, Inbound(b, q) PROVE Final
    BY <2>3 DEF Inbound
  <2> QED
    BY <2>1, <2>2, <2>3 DEF LedgerNext
<1> QED
  BY <1>1, LedgerTyping, PTL DEF LedgerSpec, ReservationsAreFinal

-----------------------------------------------------------------------------
(* The repository *)

(* The items of a reserve call form a non-empty sequence.                  *)
LEMMA RequestsAreSequences == Requests \subseteq {q \in Seq(Item) : Len(q) >= 1}
  BY DEF Requests

(* A session without uncommitted work has a well-typed delta.              *)
LEMMA NoItemsType == NoItems \in [Books -> 0 .. MaxQuantity]
  BY DEF NoItems

(* Case split of a step, stated once for the invariance proofs below.      *)
SessionStep(s) ==
  \/ \E r \in Ids, request \in Requests : BeginReserve(s, r, request)
  \/ \E r \in Ids : BeginRelease(s, r)
  \/ FindForUpdate(s)
  \/ InsertReservation(s)
  \/ TakeItem(s)
  \/ ReadItems(s)
  \/ \E b \in Books : GiveItem(s, b)
  \/ MarkReleased(s)
  \/ Commit(s, "ok")
  \/ Commit(s, "failed")
  \/ Fail(s)

(* Ending a transaction keeps the types of the session variables.          *)
LEMMA EndTxTypes ==
  ASSUME TypeOK, NEW s \in Sessions, NEW a \in {"none", "ok", "failed"},
         EndTx(s, a), LedgerTypeOK'
  PROVE  TypeOK'
  BY NoItemsType DEF TypeOK, EndTx, States

(* The inductive invariant.  available stays non-negative because a        *)
(* reserve call only publishes what WorkIsPublishable bounds, and that in  *)
(* turn needs the locks LookupStillHolds describes.                        *)
RepositoryInv == TypeOK /\ LookupStillHolds /\ WorkIsPublishable

(* The tables, locks and sessions of a fresh server satisfy it.            *)
LEMMA RepositoryInit == Init => RepositoryInv
<1> SUFFICES ASSUME Init PROVE RepositoryInv
  OBVIOUS
<1>1. TypeOK
  <2>1. LedgerTypeOK
    BY DEF Init, LedgerInit, LedgerTypeOK, Statuses, NoItems
  <2>2. items \in [Sessions -> Seq(Item)]
    <3>1. << >> \in Seq(Item)
      OBVIOUS
    <3> QED
      BY <3>1 DEF Init
  <2>3. op \in [Sessions -> {"reserve", "release"}]
    BY DEF Init
  <2> QED
    BY <2>1, <2>2, <2>3, NoItemsType DEF Init, TypeOK, States
<1>2. LookupStillHolds
  BY DEF Init, LookupStillHolds, LookupHolds
<1>3. WorkIsPublishable
  BY <1>1 DEF Init, WorkIsPublishable, Publishable, NoItems, TypeOK, LedgerTypeOK
<1> QED
  BY <1>1, <1>2, <1>3 DEF RepositoryInv

-----------------------------------------------------------------------------
(* Commits are ledger steps. *)

(* The COMMIT of a reserve call is the ledger's atomic Reserve.            *)
LEMMA CommitReserves ==
  ASSUME RepositoryInv, NEW s \in Sessions, pc[s] = "commit", op[s] = "reserve",
         PublishReserve(s)
  PROVE  rid[s] \in Ids /\ delta[s] \in Demands /\ Reserve(rid[s], delta[s])
<1> USE DEF RepositoryInv, TypeOK
<1>1. rid[s] \in Ids /\ delta[s] \in [Books -> 0 .. MaxQuantity]
  OBVIOUS
<1>2. status[rid[s]] = "none"
  BY DEF LookupStillHolds, LookupHolds
<1>3. \A b \in Books : delta[s][b] <= available[b]
  BY DEF WorkIsPublishable, Publishable
<1>4. \E b \in Books : delta[s][b] > 0
  <2>1. delta[s] # NoItems
    BY DEF WorkIsPublishable, Publishable
  <2> QED
    BY <1>1, <2>1 DEF NoItems
<1> QED
  BY <1>1, <1>2, <1>3, <1>4 DEF Demands, Reserve, Sufficient, PublishReserve

(* The COMMIT of a release call is the ledger's atomic Release.            *)
LEMMA CommitReleases ==
  ASSUME RepositoryInv, NEW s \in Sessions, pc[s] = "commit", op[s] = "release",
         PublishRelease(s)
  PROVE  rid[s] \in Ids /\ Release(rid[s])
<1>1. rid[s] \in Ids
  BY DEF RepositoryInv, TypeOK
<1>2. status[rid[s]] = "reserved"
  BY DEF RepositoryInv, LookupStillHolds, LookupHolds
<1>3. delta[s] = held[rid[s]]
  BY DEF RepositoryInv, WorkIsPublishable, Publishable
<1> QED
  BY <1>1, <1>2, <1>3 DEF Release, PublishRelease

(* Every step of a session leaves the tables alone, or is a COMMIT and     *)
(* then one step of the ledger on the session's reservation.               *)
LEMMA SessionStepIsLedgerStep ==
  ASSUME RepositoryInv, NEW s \in Sessions, SessionStep(s)
  PROVE  \/ UNCHANGED ledgerVars
         \/ /\ pc[s] = "commit"
            /\ \/ op[s] = "reserve" /\ Reserve(rid[s], delta[s]) /\ delta[s] \in Demands
               \/ op[s] = "release" /\ Release(rid[s])
<1>1. ASSUME NEW a, Commit(s, a)
      PROVE  /\ pc[s] = "commit"
             /\ \/ op[s] = "reserve" /\ Reserve(rid[s], delta[s]) /\ delta[s] \in Demands
                \/ op[s] = "release" /\ Release(rid[s])
  BY <1>1, CommitReserves, CommitReleases DEF Commit, Publish
<1>2. ASSUME FindForUpdate(s) PROVE UNCHANGED ledgerVars
  BY <1>2 DEF FindForUpdate, EndUnchanged
<1>3. ASSUME TakeItem(s) PROVE UNCHANGED ledgerVars
  BY <1>3 DEF TakeItem, EndUnchanged
<1>4. ASSUME Fail(s) PROVE UNCHANGED ledgerVars
  BY <1>4 DEF Fail, EndUnchanged
<1> QED
  BY <1>1, <1>2, <1>3, <1>4
     DEF SessionStep, BeginReserve, BeginRelease, InsertReservation, ReadItems,
         GiveItem, MarkReleased

(* Every statement is a call of the ledger or invisible to it.             *)
LEMMA StepIsLedgerStep ==
  ASSUME RepositoryInv, [Next]_vars
  PROVE  [LedgerNext]_ledgerVars
<1>1. ASSUME NEW s \in Sessions, SessionStep(s) PROVE [LedgerNext]_ledgerVars
  <2>1. rid[s] \in Ids
    BY DEF RepositoryInv, TypeOK
  <2> QED
    BY <1>1, <2>1, SessionStepIsLedgerStep DEF LedgerNext
<1>2. ASSUME NEW b \in Books, NEW q \in 1 .. MaxQuantity, InboundStock(b, q)
      PROVE  [LedgerNext]_ledgerVars
  BY <1>2 DEF InboundStock, LedgerNext
<1>3. CASE UNCHANGED vars
  BY <1>3 DEF vars
<1> QED
  BY <1>1, <1>2, <1>3 DEF Next, SessionStep

-----------------------------------------------------------------------------
(* The inductive invariant: types, locks and uncommitted work. *)

(* Every statement keeps the types, those of the ledger because it is one  *)
(* of the ledger's steps.                                                  *)
LEMMA TypesPreserved ==
  ASSUME RepositoryInv, [Next]_vars
  PROVE  TypeOK'
<1>1. LedgerTypeOK'
  BY StepIsLedgerStep, LedgerStepTypes DEF RepositoryInv, TypeOK
<1>2. TypeOK
  BY DEF RepositoryInv
<1>3. ASSUME NEW s \in Sessions, NEW r \in Ids, NEW request \in Requests,
             BeginReserve(s, r, request)
      PROVE  TypeOK'
  BY <1>1, <1>2, <1>3, RequestsAreSequences DEF BeginReserve, TypeOK, States
<1>4. ASSUME NEW s \in Sessions, NEW r \in Ids, BeginRelease(s, r) PROVE TypeOK'
  BY <1>1, <1>2, <1>4 DEF BeginRelease, TypeOK, States
<1>5. ASSUME NEW s \in Sessions, FindForUpdate(s) PROVE TypeOK'
  <2>1. CASE EndTx(s, "none") \/ EndTx(s, "ok") \/ EndTx(s, "failed")
    BY <1>1, <1>2, <2>1, EndTxTypes
  <2>2. ASSUME NEW step \in {"insert", "read"},
               pc' = [pc EXCEPT ![s] = step],
               resLock' = [resLock EXCEPT ![rid[s]] = @ \cup {s}],
               UNCHANGED <<op, rid, items, next, todo, delta, rowLock, reply>>
        PROVE  TypeOK'
    BY <1>1, <1>2, <2>2 DEF TypeOK, States
  <2> QED
    BY <1>5, <2>1, <2>2 DEF FindForUpdate, EndUnchanged
<1>6. ASSUME NEW s \in Sessions, InsertReservation(s) PROVE TypeOK'
  BY <1>1, <1>2, <1>6 DEF InsertReservation, TypeOK, States
<1>7. ASSUME NEW s \in Sessions, TakeItem(s) PROVE TypeOK'
  <2>1. CASE EndTx(s, "failed")
    BY <1>1, <1>2, <2>1, EndTxTypes, SMTT(30)
  <2>2. CASE UNCHANGED <<op, rid, items, todo, resLock, reply, ledgerVars>>
    <3> DEFINE it == items[s][next[s]]
    <3>1. pc[s] = "take"
      BY <1>7 DEF TakeItem
    <3>2. it \in Item
      BY <1>2, <3>1
         DEF RepositoryInv, WorkIsPublishable, Publishable, LookupStillHolds, LookupHolds, TypeOK
    <3>3. it.book \in Books /\ it.quantity \in 0 .. MaxQuantity
      BY <3>2 DEF Item
    <3>4. CASE /\ delta' = [delta EXCEPT ![s][it.book] = it.quantity]
               /\ rowLock' = [rowLock EXCEPT ![it.book] = s]
               /\ next' = [next EXCEPT ![s] = @ + 1]
               /\ pc' = [pc EXCEPT ![s] = IF next[s] = Len(items[s])
                                            THEN "commit" ELSE "take"]
      <4> HIDE DEF it
      <4> QED
        BY <1>1, <1>2, <2>2, <3>3, <3>4 DEF TypeOK, States
    <3> QED
      BY <1>1, <1>2, <1>7, <2>1, <3>4 DEF TakeItem, CanTake, AfterTake, EndUnchanged
  <2> QED
    BY <1>7, <2>1, <2>2, SMTT(30) DEF TakeItem, EndUnchanged
<1>8. ASSUME NEW s \in Sessions, ReadItems(s) PROVE TypeOK'
  BY <1>1, <1>2, <1>8 DEF ReadItems, TypeOK, States
<1>9. ASSUME NEW s \in Sessions, NEW b \in Books, GiveItem(s, b) PROVE TypeOK'
  BY <1>1, <1>2, <1>9, SMTT(30) DEF GiveItem, TypeOK, LedgerTypeOK, States
<1>10. ASSUME NEW s \in Sessions, MarkReleased(s) PROVE TypeOK'
  BY <1>1, <1>2, <1>10 DEF MarkReleased, TypeOK, States
<1>11. ASSUME NEW s \in Sessions, Commit(s, "ok") \/ Commit(s, "failed") PROVE TypeOK'
  BY <1>1, <1>2, <1>11, EndTxTypes DEF Commit
<1>12. ASSUME NEW s \in Sessions, Fail(s) PROVE TypeOK'
  BY <1>1, <1>2, <1>12, EndTxTypes DEF Fail, EndUnchanged
<1>13. ASSUME NEW b \in Books, NEW q \in 1 .. MaxQuantity, InboundStock(b, q) PROVE TypeOK'
  BY <1>1, <1>2, <1>13 DEF InboundStock, sessionVars, TypeOK
<1>14. CASE UNCHANGED vars
  BY <1>1, <1>2, <1>14 DEF vars, sessionVars, TypeOK
<1> QED
  BY <1>3, <1>4, <1>5, <1>6, <1>7, <1>8, <1>9, <1>10, <1>11, <1>12, <1>13, <1>14 DEF Next

(* Locks of the others survive the end of a transaction; a commit changes  *)
(* the status of a reservation that no other session has locked.           *)
LEMMA EndTxLookup ==
  ASSUME RepositoryInv, NEW s \in Sessions, NEW a, EndTx(s, a), TypeOK',
         \/ UNCHANGED status
         \/ /\ pc[s] = "commit"
            /\ \E x : status' = [status EXCEPT ![rid[s]] = x]
  PROVE  LookupStillHolds'
<1>0. TypeOK /\ \A t \in Sessions : LookupHolds(t)
  BY DEF RepositoryInv, LookupStillHolds
<1>1. LookupHolds(s)'
  BY <1>0 DEF EndTx, LookupHolds, TypeOK
<1>2. ASSUME NEW t \in Sessions, t # s PROVE LookupHolds(t)'
  <2>1. /\ pc'[t] = pc[t] /\ op'[t] = op[t] /\ rid'[t] = rid[t]
        /\ resLock'[rid[t]] = resLock[rid[t]] \ {s}
    BY <1>0, <1>2 DEF EndTx, TypeOK
  <2>2. CASE pc[t] \in {"idle", "find"}
    BY <2>1, <2>2 DEF LookupHolds
  <2>3. CASE pc[t] \notin {"idle", "find"}
    <3>1. t \in resLock[rid[t]]
      <4>1. pc[t] \in {"insert", "take", "read", "give", "commit"}
        BY <1>0, <2>3 DEF TypeOK, States
      <4>2. CASE pc[t] = "insert"
        BY <1>0, <4>2 DEF LookupHolds
      <4>3. CASE pc[t] \in {"take", "read", "give", "commit"}
        <5>1. resLock[rid[t]] = {t}
          BY <1>0, <4>3 DEF LookupHolds
        <5> QED
          BY <5>1
      <4> QED
        BY <4>1, <4>2, <4>3
    <3>2. pc[s] = "commit" => rid[s] # rid[t]
      BY <1>0, <1>2, <3>1 DEF LookupHolds
    <3>3. status'[rid[t]] = status[rid[t]]
      BY <1>0, <3>2 DEF TypeOK, LedgerTypeOK
    <3> QED
      BY <1>0, <1>2, <2>1, <3>1, <3>3 DEF LookupHolds
  <2> QED
    BY <2>2, <2>3
<1> QED
  BY <1>1, <1>2 DEF LookupStillHolds

(* No statement of one session changes the reservation another session has *)
(* locked.                                                                 *)
LEMMA LookupPreserved ==
  ASSUME RepositoryInv, [Next]_vars, TypeOK'
  PROVE  LookupStillHolds'
<1> USE DEF RepositoryInv
<1>1. ASSUME NEW s \in Sessions, NEW r \in Ids, NEW request \in Requests,
             BeginReserve(s, r, request)
      PROVE  LookupStillHolds'
  BY <1>1 DEF BeginReserve, LookupStillHolds, LookupHolds, TypeOK, ledgerVars
<1>2. ASSUME NEW s \in Sessions, NEW r \in Ids, BeginRelease(s, r) PROVE LookupStillHolds'
  BY <1>2 DEF BeginRelease, LookupStillHolds, LookupHolds, TypeOK, ledgerVars
<1>3. ASSUME NEW s \in Sessions, FindForUpdate(s) PROVE LookupStillHolds'
  <2>1. CASE \E a : EndUnchanged(s, a)
    BY <2>1, EndTxLookup DEF EndUnchanged, ledgerVars
  <2>2. ASSUME op[s] = "reserve", status[rid[s]] = "none",
               pc' = [pc EXCEPT ![s] = "insert"],
               resLock' = [resLock EXCEPT ![rid[s]] = @ \cup {s}],
               UNCHANGED <<op, rid, status>>
        PROVE  LookupStillHolds'
    <3>1. \A t \in resLock[rid[s]] \ {s} : pc[t] = "insert"
      BY <1>3 DEF FindForUpdate, Grantable
    <3> QED
      BY <2>2, <3>1 DEF LookupStillHolds, LookupHolds, TypeOK
  <2>3. ASSUME op[s] = "release", status[rid[s]] = "reserved",
               pc' = [pc EXCEPT ![s] = "read"],
               resLock' = [resLock EXCEPT ![rid[s]] = @ \cup {s}],
               UNCHANGED <<op, rid, status>>
        PROVE  LookupStillHolds'
    <3>1. resLock[rid[s]] \ {s} = {}
      BY <1>3, <2>3 DEF FindForUpdate, Grantable
    <3> QED
      BY <2>3, <3>1 DEF LookupStillHolds, LookupHolds, TypeOK
  <2> QED
    BY <1>3, <2>1, <2>2, <2>3 DEF FindForUpdate, ledgerVars
<1>4. ASSUME NEW s \in Sessions, InsertReservation(s) PROVE LookupStillHolds'
  BY <1>4 DEF InsertReservation, LookupStillHolds, LookupHolds, TypeOK, ledgerVars
<1>5. ASSUME NEW s \in Sessions, TakeItem(s) PROVE LookupStillHolds'
  <2>1. CASE EndUnchanged(s, "failed")
    BY <2>1, EndTxLookup DEF EndUnchanged, ledgerVars
  <2>2. ASSUME pc[s] = "take",
               pc' = [pc EXCEPT ![s] = IF next[s] = Len(items[s]) THEN "commit" ELSE "take"],
               UNCHANGED <<op, rid, resLock, status>>
        PROVE  LookupStillHolds'
    BY <2>2 DEF LookupStillHolds, LookupHolds, TypeOK
  <2> QED
    BY <1>5, <2>1, <2>2 DEF TakeItem, AfterTake, ledgerVars
<1>6. ASSUME NEW s \in Sessions, ReadItems(s) PROVE LookupStillHolds'
  BY <1>6 DEF ReadItems, LookupStillHolds, LookupHolds, TypeOK, ledgerVars
<1>7. ASSUME NEW s \in Sessions, NEW b \in Books, GiveItem(s, b) PROVE LookupStillHolds'
  BY <1>7 DEF GiveItem, LookupStillHolds, LookupHolds, TypeOK, ledgerVars
<1>8. ASSUME NEW s \in Sessions, MarkReleased(s) PROVE LookupStillHolds'
  BY <1>8 DEF MarkReleased, LookupStillHolds, LookupHolds, TypeOK, ledgerVars
<1>9. ASSUME NEW s \in Sessions, Commit(s, "ok") \/ Commit(s, "failed")
      PROVE  LookupStillHolds'
  BY <1>9, EndTxLookup DEF Commit, Publish, PublishReserve, PublishRelease
<1>10. ASSUME NEW s \in Sessions, Fail(s) PROVE LookupStillHolds'
  BY <1>10, EndTxLookup DEF Fail, EndUnchanged, ledgerVars
<1>11. ASSUME NEW b \in Books, NEW q \in 1 .. MaxQuantity, InboundStock(b, q)
       PROVE  LookupStillHolds'
  BY <1>11 DEF InboundStock, Inbound, sessionVars, LookupStillHolds, LookupHolds
<1>12. CASE UNCHANGED vars
  BY <1>12 DEF vars, sessionVars, ledgerVars, LookupStillHolds, LookupHolds
<1> QED
  BY <1>1, <1>2, <1>3, <1>4, <1>5, <1>6, <1>7, <1>8, <1>9, <1>10, <1>11, <1>12 DEF Next

-----------------------------------------------------------------------------

(* A session whose own state did not change keeps its work publishable as  *)
(* long as nobody takes its row locks, changes the rows it has locked or   *)
(* lowers what it read.                                                    *)
LEMMA OthersKeepWork ==
  ASSUME TypeOK, NEW t \in Sessions, Publishable(t), LookupHolds(t), TypeOK',
         pc'[t] = pc[t], op'[t] = op[t], rid'[t] = rid[t], items'[t] = items[t],
         next'[t] = next[t], todo'[t] = todo[t], delta'[t] = delta[t],
         pc[t] \in {"give", "commit"} /\ op[t] = "release" => held'[rid[t]] = held[rid[t]],
         \A b \in Books : delta[t][b] > 0 => /\ rowLock'[b] = t
                                             /\ available'[b] >= available[b]
  PROVE  Publishable(t)'
<1>1. \A b \in Books : delta'[t][b] > 0 => rowLock'[b] = t
  OBVIOUS
<1>2. op'[t] = "reserve" => \A b \in Books : delta'[t][b] <= available'[b]
  <2> SUFFICES ASSUME op[t] = "reserve", NEW b \in Books
               PROVE  delta[t][b] <= available'[b]
    OBVIOUS
  <2>1. delta[t][b] \in Nat /\ available[b] \in Nat /\ available'[b] \in Nat
    BY DEF TypeOK, LedgerTypeOK
  <2>2. delta[t][b] <= available[b]
    BY DEF Publishable
  <2> QED
    BY <2>1, <2>2
<1>3. pc'[t] = "give" =>
        \A b \in Books : delta'[t][b] = IF b \in todo'[t] THEN 0 ELSE held'[rid'[t]][b]
  BY DEF Publishable, LookupHolds
<1>4. pc'[t] = "commit" /\ op'[t] = "release" => delta'[t] = held'[rid'[t]]
  BY DEF Publishable
<1> QED
  BY <1>1, <1>2, <1>3, <1>4 DEF Publishable

(* COMMIT and ROLLBACK leave the work of every other session publishable.  *)
LEMMA EndTxWork ==
  ASSUME RepositoryInv, NEW s \in Sessions, NEW a, EndTx(s, a), TypeOK',
         \/ UNCHANGED ledgerVars
         \/ pc[s] = "commit" /\ op[s] = "reserve" /\ PublishReserve(s)
         \/ pc[s] = "commit" /\ op[s] = "release" /\ PublishRelease(s)
  PROVE  WorkIsPublishable'
<1>1. Publishable(s)'
  <2>1. pc'[s] = "idle" /\ delta'[s] = NoItems /\ next'[s] = 1
    BY DEF EndTx, RepositoryInv, TypeOK
  <2> QED
    BY <2>1 DEF Publishable, NoItems, TypeOK, LedgerTypeOK
<1>2. ASSUME NEW t \in Sessions, t # s PROVE Publishable(t)'
  <2>1. TypeOK /\ Publishable(t) /\ Publishable(s) /\ LookupHolds(t) /\ LookupHolds(s)
    BY DEF RepositoryInv, WorkIsPublishable, LookupStillHolds
  <2>2. /\ pc'[t] = pc[t] /\ op'[t] = op[t] /\ rid'[t] = rid[t] /\ items'[t] = items[t]
        /\ next'[t] = next[t] /\ todo'[t] = todo[t] /\ delta'[t] = delta[t]
    BY <1>2, <2>1 DEF EndTx, TypeOK
  <2>3. ASSUME NEW b \in Books, delta[t][b] > 0
        PROVE  rowLock'[b] = t /\ available'[b] >= available[b]
    <3>1. rowLock[b] = t /\ rowLock'[b] = t
      BY <1>2, <2>1, <2>3 DEF Publishable, EndTx
    <3>2. delta[s][b] = 0
      BY <1>2, <2>1, <3>1 DEF Publishable, TypeOK
    <3>3. available[b] \in Nat
      BY <2>1 DEF TypeOK, LedgerTypeOK
    <3>4. available'[b] = available[b]
      BY <3>2, <3>3 DEF ledgerVars, PublishReserve, PublishRelease
    <3> QED
      BY <3>1, <3>3, <3>4
  <2>4. pc[t] \in {"give", "commit"} /\ op[t] = "release" => held'[rid[t]] = held[rid[t]]
    <3>1. pc[t] \in {"give", "commit"} /\ pc[s] = "commit" => rid[s] # rid[t]
      BY <1>2, <2>1 DEF LookupHolds
    <3> QED
      BY <2>1, <3>1, ZenonT(40) DEF TypeOK, LedgerTypeOK, ledgerVars, PublishReserve, PublishRelease
  <2> QED
    BY <2>1, <2>2, <2>3, <2>4, OthersKeepWork
<1> QED
  BY <1>1, <1>2 DEF WorkIsPublishable

(* A step of session s that stays inside its transaction and keeps the     *)
(* tables: the others keep their work.                                     *)
LEMMA InnerStepWork ==
  ASSUME RepositoryInv, TypeOK', NEW s \in Sessions, UNCHANGED ledgerVars,
         \A t \in Sessions \ {s} :
           /\ pc'[t] = pc[t] /\ op'[t] = op[t] /\ rid'[t] = rid[t] /\ items'[t] = items[t]
           /\ next'[t] = next[t] /\ todo'[t] = todo[t] /\ delta'[t] = delta[t],
         \A b \in Books : rowLock'[b] # rowLock[b] => rowLock[b] = Free,
         Publishable(s)'
  PROVE  WorkIsPublishable'
<1>1. ASSUME NEW t \in Sessions, t # s PROVE Publishable(t)'
  <2>1. TypeOK /\ Publishable(t) /\ LookupHolds(t)
    BY DEF RepositoryInv, WorkIsPublishable, LookupStillHolds
  <2>2. ASSUME NEW b \in Books, delta[t][b] > 0
        PROVE  rowLock'[b] = t /\ available'[b] >= available[b]
    <3>1. rowLock[b] = t /\ rowLock[b] # Free
      BY <2>1, <2>2 DEF Publishable
    <3>2. available[b] \in Nat /\ available' = available
      BY <2>1 DEF ledgerVars, TypeOK, LedgerTypeOK
    <3> QED
      BY <3>1, <3>2
  <2>3. held' = held
    BY DEF ledgerVars
  <2> QED
    BY <1>1, <2>1, <2>2, <2>3, OthersKeepWork
<1> QED
  BY <1>1 DEF WorkIsPublishable

(* Every statement leaves the uncommitted work of every session publishable. *)
LEMMA WorkPreserved ==
  ASSUME RepositoryInv, [Next]_vars, TypeOK'
  PROVE  WorkIsPublishable'
<1>0. TypeOK /\ \A s \in Sessions : Publishable(s) /\ LookupHolds(s)
  BY DEF RepositoryInv, WorkIsPublishable, LookupStillHolds
<1>1. ASSUME NEW s \in Sessions, NEW r \in Ids, NEW request \in Requests,
             BeginReserve(s, r, request)
      PROVE  WorkIsPublishable'
  <2>1. pc'[s] = "find" /\ delta'[s] = NoItems /\ next'[s] = 1 /\ items'[s] = request
    BY <1>0, <1>1 DEF BeginReserve, Publishable, TypeOK
  <2>2. next'[s] \in 1 .. Len(items'[s])
    BY <2>1, RequestsAreSequences
  <2>3. Publishable(s)'
    BY <2>1, <2>2 DEF Publishable, NoItems, TypeOK, LedgerTypeOK
  <2> QED
    BY <1>0, <1>1, <2>3, InnerStepWork DEF BeginReserve, TypeOK
<1>2. ASSUME NEW s \in Sessions, NEW r \in Ids, BeginRelease(s, r)
      PROVE  WorkIsPublishable'
  <2>1. pc'[s] = "find" /\ op'[s] = "release" /\ delta'[s] = NoItems
    BY <1>0, <1>2 DEF BeginRelease, Publishable, TypeOK
  <2>2. Publishable(s)'
    BY <2>1 DEF Publishable, NoItems, TypeOK, LedgerTypeOK
  <2> QED
    BY <1>0, <1>2, <2>2, InnerStepWork DEF BeginRelease, TypeOK
<1>3. ASSUME NEW s \in Sessions, FindForUpdate(s) PROVE WorkIsPublishable'
  <2>1. CASE \E a : EndUnchanged(s, a)
    BY <2>1, EndTxWork DEF EndUnchanged
  <2>2. ASSUME NEW step \in {"insert", "read"}, pc[s] = "find",
               pc' = [pc EXCEPT ![s] = step],
               UNCHANGED <<op, rid, items, next, todo, delta, rowLock, ledgerVars>>
        PROVE  WorkIsPublishable'
    <3>1. /\ pc'[s] = step /\ delta'[s] = NoItems
          /\ op'[s] = "reserve" => next'[s] \in 1 .. Len(items'[s])
      BY <1>0, <2>2 DEF Publishable, TypeOK
    <3>2. Publishable(s)'
      BY <3>1 DEF Publishable, NoItems, TypeOK, LedgerTypeOK
    <3> QED
      BY <1>0, <2>2, <3>2, InnerStepWork DEF TypeOK
  <2> QED
    BY <1>3, <2>1, <2>2 DEF FindForUpdate
<1>4. ASSUME NEW s \in Sessions, InsertReservation(s) PROVE WorkIsPublishable'
  <2>1. pc'[s] = "take" /\ delta'[s] = NoItems /\ op'[s] = "reserve"
    BY <1>0, <1>4 DEF InsertReservation, Publishable, LookupHolds, TypeOK
  <2>2. next'[s] \in 1 .. Len(items'[s])
    BY <1>0, <1>4 DEF InsertReservation, Publishable, LookupHolds
  <2>3. Publishable(s)'
    BY <2>1, <2>2, SMTT(30) DEF Publishable, NoItems, TypeOK, LedgerTypeOK
  <2> QED
    BY <1>0, <1>4, <2>3, InnerStepWork DEF InsertReservation, TypeOK
<1>5. ASSUME NEW s \in Sessions, TakeItem(s) PROVE WorkIsPublishable'
  <2>1. CASE EndUnchanged(s, "failed")
    BY <2>1, EndTxWork DEF EndUnchanged
  <2> DEFINE b == items[s][next[s]].book
             q == items[s][next[s]].quantity
  <2>2. ASSUME pc[s] = "take", rowLock[b] \in {Free, s}, available[b] >= q,
               delta[s][b] = 0,
               delta' = [delta EXCEPT ![s][b] = q],
               rowLock' = [rowLock EXCEPT ![b] = s],
               next' = [next EXCEPT ![s] = @ + 1],
               pc' = [pc EXCEPT ![s] = IF next[s] = Len(items[s]) THEN "commit" ELSE "take"],
               UNCHANGED <<op, rid, items, todo, ledgerVars>>
        PROVE  WorkIsPublishable'
    <3>1. op[s] = "reserve" /\ next[s] \in 1 .. Len(items[s])
      BY <1>0, <2>2 DEF LookupHolds, Publishable
    <3>2. items[s][next[s]] \in Item
      BY <1>0, <3>1 DEF TypeOK
    <3>3. b \in Books /\ q \in 1 .. MaxQuantity
      BY <3>2 DEF Item
    <3> HIDE DEF b, q
    <3>4. /\ delta'[s] = [delta[s] EXCEPT ![b] = q] /\ delta'[s][b] = q
          /\ op'[s] = "reserve" /\ items'[s] = items[s]
          /\ next'[s] = next[s] + 1 /\ available' = available
          /\ pc'[s] = IF next[s] = Len(items[s]) THEN "commit" ELSE "take"
      BY <1>0, <2>2, <3>1, <3>3 DEF TypeOK, ledgerVars
    <3>5. delta'[s] # NoItems
      BY <3>3, <3>4 DEF NoItems
    <3>6. \A c \in Books : /\ delta'[s][c] > 0 => rowLock'[c] = s
                           /\ delta'[s][c] <= available'[c]
      BY <1>0, <2>2, <3>1, <3>3, <3>4, SMTT(30) DEF Publishable, TypeOK, LedgerTypeOK
    <3>7. pc'[s] = "take" => next'[s] \in 1 .. Len(items'[s])
      BY <1>0, <3>1, <3>4 DEF TypeOK
    <3>8. Publishable(s)'
      BY <3>4, <3>5, <3>6, <3>7 DEF Publishable
    <3>9. \A c \in Books : rowLock'[c] # rowLock[c] => rowLock[c] = Free
      BY <1>0, <2>2, <3>3 DEF TypeOK
    <3> QED
      BY <1>0, <2>2, <3>8, <3>9, InnerStepWork DEF TypeOK
  <2> QED
    BY <1>5, <2>1, <2>2 DEF TakeItem, RowGrantable, CanTake, AfterTake
<1>6. ASSUME NEW s \in Sessions, ReadItems(s) PROVE WorkIsPublishable'
  <2>1. /\ pc'[s] = "give" /\ op'[s] = "release" /\ delta'[s] = NoItems
        /\ rid'[s] = rid[s] /\ held' = held
        /\ todo'[s] = {b \in Books : held[rid[s]][b] > 0}
    BY <1>0, <1>6 DEF ReadItems, Publishable, LookupHolds, TypeOK, ledgerVars
  <2>2. \A b \in Books : held[rid[s]][b] \in Nat
    BY <1>0 DEF TypeOK, LedgerTypeOK
  <2>3. Publishable(s)'
    BY <2>1, <2>2 DEF Publishable, NoItems
  <2> QED
    BY <1>0, <1>6, <2>3, InnerStepWork DEF ReadItems, TypeOK
<1>7. ASSUME NEW s \in Sessions, NEW b \in Books, GiveItem(s, b) PROVE WorkIsPublishable'
  <2>1. /\ pc'[s] = "give" /\ op'[s] = "release" /\ rid'[s] = rid[s] /\ held' = held
        /\ delta'[s] = [delta[s] EXCEPT ![b] = held[rid[s]][b]]
        /\ todo'[s] = todo[s] \ {b} /\ rowLock' = [rowLock EXCEPT ![b] = s]
        /\ pc[s] = "give"
    BY <1>0, <1>7 DEF GiveItem, RowGrantable, LookupHolds, TypeOK, ledgerVars
  <2>2. Publishable(s)'
    BY <1>0, <2>1, SMTT(30) DEF Publishable, TypeOK
  <2>3. \A c \in Books : rowLock'[c] # rowLock[c] => rowLock[c] = Free
    BY <1>0, <1>7, <2>1 DEF GiveItem, RowGrantable, TypeOK
  <2> QED
    BY <1>0, <1>7, <2>2, <2>3, InnerStepWork DEF GiveItem, RowGrantable, TypeOK
<1>8. ASSUME NEW s \in Sessions, MarkReleased(s) PROVE WorkIsPublishable'
  <2>1. /\ pc[s] = "give" /\ pc'[s] = "commit" /\ op'[s] = "release" /\ rid'[s] = rid[s]
        /\ held' = held /\ delta' = delta /\ rowLock' = rowLock /\ todo[s] = {}
    BY <1>0, <1>8 DEF MarkReleased, LookupHolds, TypeOK, ledgerVars
  <2>2. delta[s] = held[rid[s]]
    BY <1>0, <2>1 DEF Publishable, TypeOK, LedgerTypeOK
  <2>3. Publishable(s)'
    BY <1>0, <2>1, <2>2 DEF Publishable
  <2> QED
    BY <1>0, <1>8, <2>3, InnerStepWork DEF MarkReleased, TypeOK
<1>9. ASSUME NEW s \in Sessions, Commit(s, "ok") \/ Commit(s, "failed")
      PROVE  WorkIsPublishable'
  BY <1>9, EndTxWork DEF Commit, Publish
<1>10. ASSUME NEW s \in Sessions, Fail(s) PROVE WorkIsPublishable'
  BY <1>10, EndTxWork DEF Fail, EndUnchanged
<1>11. ASSUME NEW b \in Books, NEW q \in 1 .. MaxQuantity, InboundStock(b, q)
       PROVE  WorkIsPublishable'
  <2>1. ASSUME NEW t \in Sessions, NEW c \in Books, delta[t][c] > 0
        PROVE  rowLock'[c] = t /\ available'[c] >= available[c]
    <3>1. rowLock[c] = t /\ c # b
      BY <1>0, <1>11, <2>1 DEF Publishable, InboundStock
    <3>2. available'[c] = available[c] /\ available[c] \in Nat /\ rowLock' = rowLock
      BY <1>0, <1>11, <3>1 DEF InboundStock, Inbound, sessionVars, TypeOK, LedgerTypeOK
    <3> QED
      BY <3>1, <3>2
  <2>2. held' = held /\ UNCHANGED sessionVars
    BY <1>11 DEF InboundStock, Inbound
  <2> QED
    BY <1>0, <2>1, <2>2, OthersKeepWork DEF sessionVars, WorkIsPublishable
<1>12. CASE UNCHANGED vars
  BY <1>0, <1>12 DEF vars, sessionVars, ledgerVars, WorkIsPublishable, Publishable
<1> QED
  BY <1>1, <1>2, <1>3, <1>4, <1>5, <1>6, <1>7, <1>8, <1>9, <1>10, <1>11, <1>12 DEF Next

-----------------------------------------------------------------------------

(* The types, the locks and the uncommitted work are as stated in every    *)
(* reachable state: the inductive invariant of the statement-level model.  *)
THEOREM RepositoryInvariance == Spec => [](TypeOK /\ LookupStillHolds /\ WorkIsPublishable)
<1>1. RepositoryInv /\ [Next]_vars => RepositoryInv'
  BY TypesPreserved, LookupPreserved, WorkPreserved DEF RepositoryInv
<1>2. RepositoryInv => TypeOK /\ LookupStillHolds /\ WorkIsPublishable
  BY DEF RepositoryInv
<1> QED
  BY <1>1, <1>2, RepositoryInit, PTL DEF Spec

(* The transactions of reserve_stock and release_stock, interleaved        *)
(* statement by statement with failures and lost COMMIT answers, implement *)
(* the atomic ledger.                                                      *)
THEOREM RepositoryRefinesLedger == Spec => LedgerSpec
<1>1. Init => LedgerInit
  BY DEF Init
<1>2. RepositoryInv /\ [Next]_vars => [LedgerNext]_ledgerVars
  BY StepIsLedgerStep
<1>3. TypeOK /\ LookupStillHolds /\ WorkIsPublishable => RepositoryInv
  BY DEF RepositoryInv
<1> QED
  BY <1>1, <1>2, <1>3, RepositoryInvariance, PTL DEF Spec, LedgerSpec

(* Hence the concurrent transactions neither lose nor invent stock.        *)
THEOREM RepositoryConserves == Spec => []Conservation
  BY RepositoryRefinesLedger, LedgerConserves, PTL

(* The tables, the locks and what the sessions remember keep their types.  *)
THEOREM RepositoryTyping == Spec => []TypeOK
  BY RepositoryInvariance, PTL

(* Between its SELECT ... FOR UPDATE and its COMMIT no transaction works   *)
(* on a reservation that another one has changed.                          *)
THEOREM RepositoryLookups == Spec => []LookupStillHolds
  BY RepositoryInvariance, PTL

-----------------------------------------------------------------------------
(* The answer of reserve_stock *)

(* The loop of a reserve call, before its next turn: the uncommitted       *)
(* change holds the items of the turns done, and no other book.            *)
TakenSoFar(s) ==
  op[s] = "reserve" =>
    /\ pc[s] \in {"idle", "find", "insert"} => next[s] = 1
    /\ pc[s] = "take" => next[s] <= Len(items[s])
    /\ pc[s] = "commit" => next[s] = Len(items[s]) + 1
    /\ pc[s] \in {"take", "commit"} =>
         \A b \in Books :
           /\ (\A i \in 1 .. next[s] - 1 : items[s][i].book # b) => delta[s][b] = 0
           /\ \A i \in 1 .. next[s] - 1 : items[s][i].book = b => delta[s][b] = items[s][i].quantity

LoopInv == \A s \in Sessions : TakenSoFar(s)

(* A step of one session leaves the loops of the others alone. *)
LEMMA OthersKeepLoops ==
  ASSUME TypeOK, NEW s \in Sessions,
         \A t \in Sessions \ {s} : UNCHANGED <<pc[t], op[t], items[t], next[t], delta[t]>>,
         LoopInv, TakenSoFar(s)'
  PROVE  LoopInv'
<1>1. ASSUME NEW t \in Sessions \ {s} PROVE TakenSoFar(t)'
  <2>1. TakenSoFar(t)
    BY <1>1 DEF LoopInv
  <2>2. /\ pc'[t] = pc[t] /\ op'[t] = op[t] /\ items'[t] = items[t]
        /\ next'[t] = next[t] /\ delta'[t] = delta[t]
    BY <1>1
  <2> QED
    BY ONLY <2>1, <2>2 DEF TakenSoFar
<1> QED
  BY <1>1 DEF LoopInv

(* At the end of a transaction the loop's index is back at the start. *)
LEMMA EndTxLoop ==
  ASSUME TypeOK, LoopInv, NEW s \in Sessions, NEW answer, EndTx(s, answer)
  PROVE  LoopInv'
<1>1. pc'[s] = "idle" /\ next'[s] = 1
  BY DEF EndTx, TypeOK
<1>2. \A t \in Sessions \ {s} : UNCHANGED <<pc[t], op[t], items[t], next[t], delta[t]>>
  BY DEF EndTx, TypeOK
<1>3. TakenSoFar(s)'
  BY <1>1 DEF TakenSoFar
<1> QED
  BY <1>2, <1>3, OthersKeepLoops

(* Every statement keeps the loops' account. *)
LEMMA LoopStep ==
  ASSUME RepositoryInv, LoopInv, [Next]_vars
  PROVE  LoopInv'
<1> USE DEF RepositoryInv
<1>0. TypeOK
  OBVIOUS
<1>1. ASSUME NEW s \in Sessions, NEW r \in Ids, NEW request \in Requests, BeginReserve(s, r, request)
      PROVE  LoopInv'
  <2>1. pc'[s] = "find" /\ next'[s] = 1
    BY <1>1 DEF BeginReserve, TypeOK, WorkIsPublishable, Publishable
  <2>2. TakenSoFar(s)'
    BY <2>1 DEF TakenSoFar
  <2>3. \A t \in Sessions \ {s} : UNCHANGED <<pc[t], op[t], items[t], next[t], delta[t]>>
    BY <1>1 DEF BeginReserve, TypeOK
  <2> QED
    BY <1>0, <2>2, <2>3, OthersKeepLoops
<1>2. ASSUME NEW s \in Sessions, NEW r \in Ids, BeginRelease(s, r) PROVE LoopInv'
  <2>1. TakenSoFar(s)'
    BY <1>2 DEF BeginRelease, TypeOK, TakenSoFar
  <2>2. \A t \in Sessions \ {s} : UNCHANGED <<pc[t], op[t], items[t], next[t], delta[t]>>
    BY <1>2 DEF BeginRelease, TypeOK
  <2> QED
    BY <1>0, <2>1, <2>2, OthersKeepLoops
<1>3. ASSUME NEW s \in Sessions, FindForUpdate(s) PROVE LoopInv'
  <2>1. CASE \E answer \in {"ok", "failed", "none"} : EndTx(s, answer)
    BY <1>0, <2>1, EndTxLoop
  <2>2. CASE /\ pc[s] = "find" /\ pc' = [pc EXCEPT ![s] = IF op[s] = "reserve" THEN "insert" ELSE "read"]
             /\ UNCHANGED <<op, items, next, delta>>
    <3>1. TakenSoFar(s)'
      BY <2>2 DEF LoopInv, TakenSoFar, TypeOK
    <3>2. \A t \in Sessions \ {s} : UNCHANGED <<pc[t], op[t], items[t], next[t], delta[t]>>
      BY <2>2 DEF TypeOK
    <3> QED
      BY <1>0, <3>1, <3>2, OthersKeepLoops
  <2> QED
    BY <1>3, <2>1, <2>2 DEF FindForUpdate, EndUnchanged
<1>4. ASSUME NEW s \in Sessions, InsertReservation(s) PROVE LoopInv'
  <2>1. /\ pc[s] = "insert" /\ pc'[s] = "take" /\ op[s] = "reserve"
        /\ UNCHANGED <<op, items, next, delta>>
        /\ delta[s] = NoItems /\ next[s] \in 1 .. Len(items[s]) /\ next[s] = 1
    BY <1>4 DEF InsertReservation, TypeOK, WorkIsPublishable, Publishable, LookupStillHolds,
                LookupHolds, LoopInv, TakenSoFar
  <2>2. TakenSoFar(s)'
    BY <2>1 DEF TakenSoFar, NoItems
  <2>3. \A t \in Sessions \ {s} : UNCHANGED <<pc[t], op[t], items[t], next[t], delta[t]>>
    BY <1>4 DEF InsertReservation, TypeOK
  <2> QED
    BY <1>0, <2>2, <2>3, OthersKeepLoops
<1>5. ASSUME NEW s \in Sessions, TakeItem(s) PROVE LoopInv'
  <2>1. CASE EndTx(s, "failed")
    BY <1>0, <2>1, EndTxLoop
  <2>2. CASE ~ EndTx(s, "failed")
    <3> DEFINE b == items[s][next[s]].book
               q == items[s][next[s]].quantity
    <3>1. /\ pc[s] = "take" /\ CanTake(s, b, q)
          /\ delta' = [delta EXCEPT ![s][b] = q]
          /\ next' = [next EXCEPT ![s] = @ + 1]
          /\ pc' = [pc EXCEPT ![s] = AfterTake(s)]
          /\ UNCHANGED <<op, items>>
      BY <1>5, <2>2 DEF TakeItem, EndUnchanged
    <3>2. op[s] = "reserve" /\ next[s] \in 1 .. Len(items[s]) /\ Len(items[s]) \in Nat
      BY <3>1 DEF TypeOK, LookupStillHolds, LookupHolds, WorkIsPublishable, Publishable
    <3>3. items[s][next[s]] \in Item
      BY <3>2 DEF TypeOK
    <3>4. b \in Books /\ q \in 1 .. MaxQuantity
      BY <3>3 DEF Item
    <3>5. /\ next'[s] = next[s] + 1 /\ pc'[s] = AfterTake(s)
          /\ delta'[s][b] = q /\ \A c \in Books \ {b} : delta'[s][c] = delta[s][c]
      BY <3>1, <3>4 DEF TypeOK
    <3>6. \A i \in 1 .. next[s] - 1 : items[s][i].book # b
      <4> SUFFICES ASSUME NEW i \in 1 .. next[s] - 1, items[s][i].book = b PROVE FALSE
        OBVIOUS
      <4>1. delta[s][b] = items[s][i].quantity
        BY <3>1, <3>2, <3>4 DEF LoopInv, TakenSoFar
      <4>2. items[s][i] \in Item
        BY <3>2 DEF TypeOK
      <4>3. items[s][i].quantity \in 1 .. MaxQuantity
        BY <4>2 DEF Item
      <4> QED
        BY <4>1, <4>3, <3>1 DEF CanTake
    <3> HIDE DEF b, q
    <3>7. ASSUME NEW c \in Books
          PROVE  /\ (\A i \in 1 .. next'[s] - 1 : items[s][i].book # c) => delta'[s][c] = 0
                 /\ \A i \in 1 .. next'[s] - 1 : items[s][i].book = c => delta'[s][c] = items[s][i].quantity
      <4>0. 1 .. next'[s] - 1 = (1 .. next[s] - 1) \cup {next[s]}
        BY <3>2, <3>5
      <4>1. CASE c = b
        BY <4>0, <4>1, <3>5, <3>6 DEF b, q
      <4>2. CASE c # b
        <5>1. /\ (\A i \in 1 .. next[s] - 1 : items[s][i].book # c) => delta[s][c] = 0
              /\ \A i \in 1 .. next[s] - 1 : items[s][i].book = c => delta[s][c] = items[s][i].quantity
          BY <3>1, <3>2 DEF LoopInv, TakenSoFar
        <5>2. delta'[s][c] = delta[s][c] /\ items[s][next[s]].book # c
          BY <3>5, <4>2 DEF b
        <5> QED
          BY <4>0, <5>1, <5>2
      <4> QED
        BY <4>1, <4>2
    <3>8. TakenSoFar(s)'
      <4>1. /\ pc'[s] \in {"take", "commit"} /\ items' = items
            /\ pc'[s] = "take" => next'[s] <= Len(items[s])
            /\ pc'[s] = "commit" => next'[s] = Len(items[s]) + 1
        BY <3>1, <3>2, <3>5 DEF AfterTake
      <4> QED
        BY <4>1, <3>7 DEF TakenSoFar
    <3>9. \A t \in Sessions \ {s} : UNCHANGED <<pc[t], op[t], items[t], next[t], delta[t]>>
      BY <3>1 DEF TypeOK
    <3> QED
      BY <1>0, <3>8, <3>9, OthersKeepLoops
  <2> QED
    BY <2>1, <2>2
<1>6. ASSUME NEW s \in Sessions, op[s] = "release", op' = op,
             \A t \in Sessions \ {s} : UNCHANGED <<pc[t], op[t], items[t], next[t], delta[t]>>
      PROVE  LoopInv'
  <2>1. TakenSoFar(s)'
    BY <1>6 DEF TakenSoFar
  <2> QED
    BY <1>0, <1>6, <2>1, OthersKeepLoops
<1>7. ASSUME NEW s \in Sessions, ReadItems(s) \/ MarkReleased(s) \/ \E b \in Books : GiveItem(s, b)
      PROVE  LoopInv'
  <2>1. op[s] = "release" /\ op' = op
    BY <1>7 DEF ReadItems, MarkReleased, GiveItem, LookupStillHolds, LookupHolds
  <2>2. \A t \in Sessions \ {s} : UNCHANGED <<pc[t], op[t], items[t], next[t], delta[t]>>
    BY <1>7 DEF ReadItems, MarkReleased, GiveItem, TypeOK
  <2> QED
    BY <1>6, <2>1, <2>2
<1>8. ASSUME NEW s \in Sessions, Commit(s, "ok") \/ Commit(s, "failed") \/ Fail(s) PROVE LoopInv'
  BY <1>0, <1>8, EndTxLoop DEF Commit, Fail, EndUnchanged
<1>9. ASSUME UNCHANGED sessionVars PROVE LoopInv'
  BY <1>9 DEF sessionVars, LoopInv, TakenSoFar
<1> QED
  BY <1>1, <1>2, <1>3, <1>4, <1>5, <1>7, <1>8, <1>9 DEF Next, InboundStock, vars

(* When reserve_stock returns true the reservation is there; if this call  *)
(* made it, the loop over the items has put every item of the request into *)
(* it in full, and nothing else.                                           *)
THEOREM RepositoryOkMeansReserved == Spec => OkMeansReserved
<1> DEFINE Right == \A s \in Sessions :
              reply'[s] = "ok" /\ reply[s] # "ok" =>
                /\ status'[rid[s]] = "reserved"
                /\ pc[s] = "commit" => HoldsRequest(held'[rid[s]], items[s])
<1>1. Init => LoopInv
  BY DEF Init, LoopInv, TakenSoFar
<1>2. ASSUME RepositoryInv, LoopInv, [Next]_vars PROVE [Right]_vars
  <2> SUFFICES ASSUME Next, NEW s \in Sessions, reply'[s] = "ok", reply[s] # "ok"
               PROVE  /\ status'[rid[s]] = "reserved"
                      /\ pc[s] = "commit" => HoldsRequest(held'[rid[s]], items[s])
    BY <1>2
  <2> USE <1>2 DEF RepositoryInv
  <2>1. \/ FindForUpdate(s) /\ op[s] = "reserve" /\ status[rid[s]] = "reserved" /\ UNCHANGED ledgerVars
        \/ Commit(s, "ok") /\ op[s] = "reserve"
    <3>1. ASSUME NEW t \in Sessions, NEW answer, EndTx(t, answer)
          PROVE  t = s /\ answer = "ok"
      BY <3>1 DEF EndTx, TypeOK
    <3>2. reply' # reply
      OBVIOUS
    <3>3. ASSUME NEW t \in Sessions, NEW r \in Ids,
                 BeginRelease(t, r) \/ \E request \in Requests : BeginReserve(t, r, request)
          PROVE  FALSE
      BY <3>3 DEF BeginRelease, BeginReserve, TypeOK
    <3>4. ASSUME NEW t \in Sessions, FindForUpdate(t)
          PROVE  t = s /\ op[s] = "reserve" /\ status[rid[s]] = "reserved" /\ UNCHANGED ledgerVars
      BY <3>1, <3>2, <3>4 DEF FindForUpdate, EndUnchanged
    <3>5. ASSUME NEW t \in Sessions, TakeItem(t) \/ Commit(t, "failed") \/ Fail(t) PROVE FALSE
      BY <3>1, <3>2, <3>5 DEF TakeItem, Commit, Fail, EndUnchanged
    <3>6. ASSUME NEW t \in Sessions, Commit(t, "ok") PROVE t = s /\ op[s] = "reserve"
      BY <3>1, <3>6 DEF Commit, TypeOK
    <3> QED
      BY <3>2, <3>3, <3>4, <3>5, <3>6
         DEF Next, InsertReservation, ReadItems, GiveItem, MarkReleased, InboundStock, sessionVars
  <2>2. CASE Commit(s, "ok") /\ op[s] = "reserve"
    <3>1. status'[rid[s]] = "reserved" /\ held'[rid[s]] = delta[s] /\ pc[s] = "commit"
      BY <2>2 DEF Commit, Publish, PublishReserve, TypeOK, LedgerTypeOK
    <3>2. items[s] \in Seq(Item) /\ next[s] = Len(items[s]) + 1
      BY <2>2, <3>1 DEF LoopInv, TakenSoFar, TypeOK
    <3>3. DOMAIN items[s] = 1 .. next[s] - 1
      BY <3>2
    <3>4. HoldsRequest(delta[s], items[s])
      BY <2>2, <3>1, <3>3 DEF LoopInv, TakenSoFar, HoldsRequest
    <3> QED
      BY <3>1, <3>4
  <2>3. CASE FindForUpdate(s) /\ status[rid[s]] = "reserved" /\ UNCHANGED ledgerVars
    BY <2>3 DEF FindForUpdate, ledgerVars
  <2> QED
    BY <2>1, <2>2, <2>3
<1>3. TypeOK /\ LookupStillHolds /\ WorkIsPublishable => RepositoryInv
  BY DEF RepositoryInv
<1> QED
  BY <1>1, <1>2, <1>3, LoopStep, RepositoryInvariance, PTL DEF Spec, OkMeansReserved
=============================================================================
