-------------------------- MODULE ThreadPoolProofs --------------------------
(***************************************************************************)
(* Proofs about the connection pool, for any number of threads,            *)
(* connections and levels of nesting, and that the thread pool uses it as  *)
(* ConnectionPool says.                                                    *)
(***************************************************************************)
EXTENDS ThreadPool, FiniteSetTheorems, TLAPS

(* The inductive invariant. *)
PoolInv == PoolTypeOK /\ OneOwner /\ NoLostWakeup

(* What pushing a connection does to the stacks.                           *)
LEMMA PushFacts ==
  ASSUME PoolTypeOK, NEW t \in Threads, NEW c \in Conns \cup {NullConn}, Push(t, c)
  PROVE  /\ stack' \in [Threads -> Seq(Conns \cup {NullConn})]
         /\ Len(stack'[t]) = Len(stack[t]) + 1
         /\ stack'[t][Len(stack[t]) + 1] = c
         /\ \A i \in 1 .. Len(stack[t]) : stack'[t][i] = stack[t][i]
         /\ \A u \in Threads \ {t} : stack'[u] = stack[u]
BY DEF PoolTypeOK, Push

(* What popping one does: the others keep their places.                    *)
LEMMA PopFacts ==
  ASSUME PoolTypeOK, NEW t \in Threads, stack[t] # << >>, Pop(t)
  PROVE  /\ stack' \in [Threads -> Seq(Conns \cup {NullConn})]
         /\ Len(stack[t]) \in Nat \ {0}
         /\ Len(stack'[t]) = Len(stack[t]) - 1
         /\ Top(t) \in Conns \cup {NullConn}
         /\ \A i \in 1 .. Len(stack'[t]) : stack'[t][i] = stack[t][i]
         /\ \A u \in Threads \ {t} : stack'[u] = stack[u]
<1>1. stack[t] \in Seq(Conns \cup {NullConn}) /\ Len(stack[t]) \in Nat \ {0}
  BY DEF PoolTypeOK
<1>2. stack'[t] = SubSeq(stack[t], 1, Len(stack[t]) - 1)
  BY DEF PoolTypeOK, Pop
<1>3. /\ stack'[t] \in Seq(Conns \cup {NullConn})
      /\ Len(stack'[t]) = Len(stack[t]) - 1
      /\ \A i \in 1 .. Len(stack'[t]) : stack'[t][i] = stack[t][i]
  BY <1>1, <1>2
<1>4. Top(t) \in Conns \cup {NullConn}
  BY <1>1 DEF Top
<1> QED
  BY <1>1, <1>3, <1>4 DEF PoolTypeOK, Pop

(* All connections are on the list and no thread is in the pool. *)
LEMMA PoolTypeInit == PoolInit => PoolTypeOK
<1> SUFFICES ASSUME PoolInit PROVE PoolTypeOK
  OBVIOUS
<1>1. \A t \in Threads : at[t] = "run" /\ stack[t] = << >> /\ Len(stack[t]) = 0
  BY DEF PoolInit
<1>2. << >> \in Seq(Conns \cup {NullConn})
  OBVIOUS
<1>3. stack \in [Threads -> Seq(Conns \cup {NullConn})]
  BY <1>2 DEF PoolInit
<1>4. \A t \in Threads :
        Len(stack[t]) <= IF at[t] \in {"ask", "waiting"} THEN MaxDepth - 1 ELSE MaxDepth
  BY <1>1, PoolAssumption
<1>5. free \subseteq Conns /\ closed \subseteq Conns /\ shutdown \in BOOLEAN
  BY DEF PoolInit
<1>6. at \in [Threads -> {"run", "ask", "waiting", "notify"}]
  BY DEF PoolInit
<1> QED
  BY <1>3, <1>4, <1>5, <1>6 DEF PoolTypeOK

(* Every step of the pool keeps the types and the bounds on the nesting.   *)
LEMMA PoolTypeStep == ASSUME PoolTypeOK, [PoolNext]_poolVars PROVE PoolTypeOK'
<1> USE PoolAssumption DEF PoolTypeOK
<1>1. ASSUME NEW t \in Threads, Ask(t) PROVE PoolTypeOK'
  BY <1>1 DEF Ask
<1>2. ASSUME NEW t \in Threads, NEW c \in Conns, Take(t, c) PROVE PoolTypeOK'
  BY <1>2 DEF Take, Push
<1>3. ASSUME NEW t \in Threads, Wait(t) PROVE PoolTypeOK'
  BY <1>3 DEF Wait
<1>4. ASSUME NEW t \in Threads, GetNull(t) PROVE PoolTypeOK'
  BY <1>4 DEF GetNull, Push
<1>5. ASSUME NEW t \in Threads, SpuriousWake(t) PROVE PoolTypeOK'
  BY <1>5 DEF SpuriousWake
<1>6. ASSUME NEW t \in Threads, ReleaseConnection(t) PROVE PoolTypeOK'
  <2>1. stack[t] # << >> /\ Pop(t) /\ at[t] = "run"
    BY <1>6 DEF ReleaseConnection, GiveBack, GiveBackNull
  <2>2. \A u \in Threads : Len(stack'[u]) <= Len(stack[u]) /\ Len(stack[u]) \in Nat
    BY <2>1, PopFacts, SMTT(30)
  <2>3. /\ free' \subseteq Conns
        /\ UNCHANGED <<closed, shutdown>>
        /\ at' = [at EXCEPT ![t] = "notify"] \/ at' = at
    BY <1>6, <2>1, PopFacts DEF ReleaseConnection, GiveBack, GiveBackNull
  <2>4. \A u \in Threads :
          Len(stack'[u]) <= IF at'[u] \in {"ask", "waiting"} THEN MaxDepth - 1 ELSE MaxDepth
    BY <2>1, <2>2, <2>3, PopFacts
  <2> QED
    BY <2>1, <2>3, <2>4, PopFacts
<1>7. ASSUME NEW t \in Threads, NotifyOne(t) PROVE PoolTypeOK'
  BY <1>7 DEF NotifyOne, Waiting
<1>8. CASE DestroyPool
  BY <1>8 DEF DestroyPool, Waiting
<1>9. CASE UNCHANGED poolVars
  BY <1>9 DEF poolVars
<1> QED
  BY <1>1, <1>2, <1>3, <1>4, <1>5, <1>6, <1>7, <1>8, <1>9
     DEF PoolNext, PoolStep, GetConnection

(* Every step of the pool leaves each connection with one owner.           *)
LEMMA OwnerStep ==
  ASSUME PoolTypeOK, OneOwner, [PoolNext]_poolVars PROVE OneOwner'
<1> USE PoolAssumption
<1>1. ASSUME NEW t \in Threads, NEW c \in Conns, Take(t, c) PROVE OneOwner'
  <2>1. Push(t, c) /\ c \in free /\ free' = free \ {c} /\ closed' = closed
    BY <1>1 DEF Take
  <2>2. Len(stack[t]) \in Nat /\ c # NullConn
    BY DEF PoolTypeOK
  <2>3. \A u \in Threads : \A i \in 1 .. Len(stack'[u]) :
          \/ i \in 1 .. Len(stack[u]) /\ stack'[u][i] = stack[u][i]
          \/ u = t /\ i = Len(stack[t]) + 1 /\ stack'[u][i] = c
    BY <2>1, <2>2, PushFacts
  <2>4. \A u \in Threads : \A i \in 1 .. Len(stack[u]) :
          i \in 1 .. Len(stack'[u]) /\ stack'[u][i] = stack[u][i] /\ stack[u][i] # c
    BY <2>1, <2>2, PushFacts DEF OneOwner
  <2>5. OwnedBy(c, t)'
    BY <2>1, <2>2, PushFacts DEF OwnedBy
  <2>6. \A d \in Conns \ (free' \cup closed') : \E u \in Threads : OwnedBy(d, u)'
    BY <2>1, <2>4, <2>5, SMTT(30) DEF OneOwner, OwnedBy
  <2>7. \A u \in Threads : \A i \in 1 .. Len(stack'[u]) :
          /\ stack'[u][i] \notin free' \cup closed'
          /\ \A v \in Threads : \A j \in 1 .. Len(stack'[v]) :
               stack'[u][i] = stack'[v][j] /\ stack'[u][i] # NullConn => u = v /\ i = j
    <3> SUFFICES ASSUME NEW u \in Threads, NEW i \in 1 .. Len(stack'[u])
                 PROVE  /\ stack'[u][i] \notin free' \cup closed'
                        /\ \A v \in Threads : \A j \in 1 .. Len(stack'[v]) :
                             stack'[u][i] = stack'[v][j] /\ stack'[u][i] # NullConn
                               => u = v /\ i = j
      OBVIOUS
    <3>1. stack'[u][i] \notin free' \cup closed'
      BY <2>1, <2>3 DEF OneOwner
    <3>2. ASSUME NEW v \in Threads, NEW j \in 1 .. Len(stack'[v]),
                 stack'[u][i] = stack'[v][j], stack'[u][i] # NullConn
          PROVE  u = v /\ i = j
      <4>1. CASE stack'[u][i] = c
        BY <4>1, <3>2, <2>3, <2>4, SMTT(30)
      <4>2. CASE stack'[u][i] # c
        <5>1. i \in 1 .. Len(stack[u]) /\ stack'[u][i] = stack[u][i]
          BY <4>2, <2>3
        <5>2. j \in 1 .. Len(stack[v]) /\ stack'[v][j] = stack[v][j]
          BY <4>2, <3>2, <2>3
        <5>3. stack[u][i] = stack[v][j] /\ stack[u][i] # NullConn
          BY <5>1, <5>2, <3>2
        <5>4. \A y \in Threads : \A k \in 1 .. Len(stack[y]) :
                stack[u][i] = stack[y][k] /\ stack[u][i] # NullConn => u = y /\ i = k
          BY <5>1 DEF OneOwner
        <5> QED
          BY <5>2, <5>3, <5>4
      <4> QED
        BY <4>1, <4>2
    <3> QED
      BY <3>1, <3>2
  <2> QED
    BY <2>1, <2>6, <2>7 DEF OneOwner
<1>2. ASSUME NEW t \in Threads, GetNull(t) PROVE OneOwner'
  <2>1. Push(t, NullConn) /\ UNCHANGED <<free, closed>> /\ free \cup closed \subseteq Conns
    BY <1>2 DEF GetNull, PoolTypeOK
  <2>2. Len(stack[t]) \in Nat
    BY DEF PoolTypeOK
  <2>3. \A u \in Threads : \A i \in 1 .. Len(stack'[u]) :
          \/ i \in 1 .. Len(stack[u]) /\ stack'[u][i] = stack[u][i]
          \/ stack'[u][i] = NullConn
    BY <2>1, <2>2, PushFacts
  <2>4. \A u \in Threads : \A i \in 1 .. Len(stack[u]) :
          i \in 1 .. Len(stack'[u]) /\ stack'[u][i] = stack[u][i]
    BY <2>1, <2>2, PushFacts
  <2> QED
    BY <2>1, <2>3, <2>4, SMTT(30) DEF OneOwner, OwnedBy
<1>3. ASSUME NEW t \in Threads, ReleaseConnection(t) PROVE OneOwner'
  <2>1. /\ stack[t] # << >> /\ Pop(t) /\ closed' = closed
        /\ Top(t) = NullConn => free' = free
        /\ Top(t) # NullConn => free' = free \cup {Top(t)}
        /\ free' \subseteq free \cup {Top(t)}
    BY <1>3 DEF ReleaseConnection, GiveBack, GiveBackNull
  <2> DEFINE n == Len(stack[t])
  <2>2. n \in Nat \ {0} /\ Top(t) = stack[t][n] /\ n \in 1 .. Len(stack[t])
    BY <2>1, PopFacts DEF Top
  <2>3. \A u \in Threads : \A i \in 1 .. Len(stack'[u]) :
          /\ i \in 1 .. Len(stack[u]) /\ stack'[u][i] = stack[u][i]
          /\ ~ (u = t /\ i = n)
    BY <2>1, <2>2, PopFacts
  <2>4. \A u \in Threads : \A i \in 1 .. Len(stack[u]) :
          (u = t /\ i = n) \/ (i \in 1 .. Len(stack'[u]) /\ stack'[u][i] = stack[u][i])
    BY <2>1, <2>2, PopFacts
  <2>5. Top(t) # NullConn => Top(t) \notin free \cup closed
    BY <2>2 DEF OneOwner
  <2>6. \A d \in Conns \ (free' \cup closed') : \E u \in Threads : OwnedBy(d, u)'
    <3> SUFFICES ASSUME NEW d \in Conns \ (free' \cup closed')
                 PROVE  \E u \in Threads : OwnedBy(d, u)'
      OBVIOUS
    <3>1. d \notin free \cup closed /\ d # Top(t)
      BY <2>1
    <3>2. PICK u \in Threads : \E i \in 1 .. Len(stack[u]) : stack[u][i] = d
      BY <3>1 DEF OneOwner, OwnedBy
    <3> QED
      BY <3>1, <3>2, <2>2, <2>4 DEF OwnedBy
  <2>7. \A u \in Threads : \A i \in 1 .. Len(stack'[u]) :
          /\ stack'[u][i] \notin free' \cup closed'
          /\ \A v \in Threads : \A j \in 1 .. Len(stack'[v]) :
               stack'[u][i] = stack'[v][j] /\ stack'[u][i] # NullConn => u = v /\ i = j
    <3> SUFFICES ASSUME NEW u \in Threads, NEW i \in 1 .. Len(stack'[u])
                 PROVE  /\ stack'[u][i] \notin free' \cup closed'
                        /\ \A v \in Threads : \A j \in 1 .. Len(stack'[v]) :
                             stack'[u][i] = stack'[v][j] /\ stack'[u][i] # NullConn
                               => u = v /\ i = j
      OBVIOUS
    <3>1. i \in 1 .. Len(stack[u]) /\ stack'[u][i] = stack[u][i] /\ ~ (u = t /\ i = n)
      BY <2>3
    <3>2. stack[u][i] \notin free \cup closed
      BY <3>1 DEF OneOwner
    <3>3. Top(t) # NullConn => stack[u][i] # Top(t)
      BY <3>1, <2>2 DEF OneOwner
    <3>4. stack'[u][i] \notin free' \cup closed'
      BY <3>1, <3>2, <3>3, <2>1
    <3>5. \A v \in Threads : \A j \in 1 .. Len(stack'[v]) :
            stack'[u][i] = stack'[v][j] /\ stack'[u][i] # NullConn => u = v /\ i = j
      BY <3>1, <2>3, SMTT(40) DEF OneOwner
    <3> QED
      BY <3>4, <3>5
  <2> QED
    BY <2>1, <2>5, <2>6, <2>7 DEF OneOwner
<1>4. CASE DestroyPool
  BY <1>4 DEF DestroyPool, OneOwner, OwnedBy
<1>5. ASSUME UNCHANGED <<free, closed, stack>> PROVE OneOwner'
  BY <1>5 DEF OneOwner, OwnedBy
<1>6. ASSUME NEW t \in Threads, Ask(t) \/ Wait(t) \/ SpuriousWake(t) \/ NotifyOne(t)
      PROVE  OneOwner'
  BY <1>5, <1>6 DEF Ask, Wait, SpuriousWake, NotifyOne
<1>7. CASE UNCHANGED poolVars
  BY <1>5, <1>7 DEF poolVars
<1> QED
  BY <1>1, <1>2, <1>3, <1>4, <1>6, <1>7 DEF PoolNext, PoolStep, GetConnection

(* The sets that NoLostWakeup counts are finite.                           *)
LEMMA PoolFinite ==
  ASSUME PoolTypeOK
  PROVE  /\ IsFiniteSet(free) /\ Cardinality(free) \in Nat
         /\ IsFiniteSet(Underway) /\ Cardinality(Underway) \in Nat
<1>1. free \subseteq Conns /\ Underway \subseteq Threads
  BY DEF PoolTypeOK, Underway
<1>2. IsFiniteSet(free) /\ IsFiniteSet(Underway)
  BY <1>1, PoolAssumption, FS_Subset
<1> QED
  BY <1>2, FS_CardinalityType

(* No step of the pool loses a wake-up.                                    *)
LEMMA WakeupStep ==
  ASSUME PoolTypeOK, NoLostWakeup, [PoolNext]_poolVars PROVE NoLostWakeup'
<1> USE PoolAssumption
<1>0. IsFiniteSet(Underway') /\ Cardinality(Underway') \in Nat
  <2>1. Underway' \subseteq Threads
    BY DEF Underway
  <2> QED
    BY <2>1, FS_Subset, FS_CardinalityType
<1>1. ASSUME NEW t \in Threads, Ask(t) PROVE NoLostWakeup'
  <2>1. Waiting' = Waiting /\ Underway' = Underway \cup {t} /\ UNCHANGED <<free, shutdown>>
    BY <1>1 DEF Ask, PoolTypeOK, Waiting, Underway
  <2>2. Cardinality(Underway) <= Cardinality(Underway')
    BY <2>1, <1>0, FS_Subset
  <2> QED
    BY <2>1, <2>2, <1>0, PoolFinite DEF NoLostWakeup
<1>2. ASSUME NEW t \in Threads, NEW c \in Conns, Take(t, c) PROVE NoLostWakeup'
  <2>1. /\ Waiting' = Waiting /\ Underway' = Underway \ {t} /\ t \in Underway
        /\ free' = free \ {c} /\ c \in free /\ shutdown' = shutdown
    BY <1>2 DEF Take, PoolTypeOK, Waiting, Underway
  <2>2. /\ Cardinality(Underway') = Cardinality(Underway) - 1
        /\ Cardinality(free') = Cardinality(free) - 1
    BY <2>1, PoolFinite, FS_RemoveElement
  <2> QED
    BY <2>1, <2>2, PoolFinite DEF NoLostWakeup
<1>3. ASSUME NEW t \in Threads, Wait(t) PROVE NoLostWakeup'
  <2>1. Cardinality(free') = 0 /\ ~ shutdown'
    BY <1>3, FS_EmptySet DEF Wait
  <2>2. Cardinality(Underway') \in Nat
    BY <1>0, PoolFinite
  <2> QED
    BY <2>1, <2>2 DEF NoLostWakeup
<1>4. ASSUME NEW t \in Threads, GetNull(t) PROVE NoLostWakeup'
  BY <1>4 DEF GetNull, PoolTypeOK, NoLostWakeup, Waiting
<1>5. ASSUME NEW t \in Threads, SpuriousWake(t) PROVE NoLostWakeup'
  <2>1. /\ Waiting' \subseteq Waiting /\ Underway' = Underway \cup {t}
        /\ UNCHANGED <<free, shutdown>>
    BY <1>5 DEF SpuriousWake, PoolTypeOK, Waiting, Underway
  <2>2. Cardinality(Underway) <= Cardinality(Underway')
    BY <2>1, <1>0, FS_Subset
  <2> QED
    BY <2>1, <2>2, <1>0, PoolFinite DEF NoLostWakeup
<1>6. ASSUME NEW t \in Threads, GiveBack(t) PROVE NoLostWakeup'
  <2>1. /\ Waiting' = Waiting /\ Underway' = Underway \cup {t} /\ t \notin Underway
        /\ free' = free \cup {Top(t)} /\ shutdown' = shutdown
    BY <1>6 DEF GiveBack, PoolTypeOK, Waiting, Underway
  <2>2. Cardinality(Underway') = Cardinality(Underway) + 1
    BY <2>1, PoolFinite, FS_AddElement
  <2>3. Cardinality(free') \in Nat /\ Cardinality(free') <= Cardinality(free) + 1
    <3>1. CASE Top(t) \in free
      <4>1. free' = free
        BY <2>1, <3>1
      <4> QED
        BY <4>1, PoolFinite
    <3>2. CASE Top(t) \notin free
      <4>1. Cardinality(free') = Cardinality(free) + 1
        BY <2>1, <3>2, PoolFinite, FS_AddElement
      <4> QED
        BY <4>1, PoolFinite
    <3> QED
      BY <3>1, <3>2
  <2> QED
    BY <2>1, <2>2, <2>3, PoolFinite DEF NoLostWakeup
<1>7. ASSUME NEW t \in Threads, NotifyOne(t) PROVE NoLostWakeup'
  <2>1. CASE Waiting = {} /\ at' = [at EXCEPT ![t] = "run"]
    BY <2>1, <1>7 DEF NotifyOne, PoolTypeOK, NoLostWakeup, Waiting
  <2>2. ASSUME NEW u \in Waiting, at' = [at EXCEPT ![t] = "run", ![u] = "ask"]
        PROVE  NoLostWakeup'
    <3>1. /\ Waiting' \subseteq Waiting /\ t \in Underway /\ u \notin Underway
          /\ Underway' = (Underway \ {t}) \cup {u} /\ UNCHANGED <<free, shutdown>>
      BY <2>2, <1>7 DEF NotifyOne, PoolTypeOK, Waiting, Underway
    <3>2. /\ IsFiniteSet(Underway \ {t})
          /\ Cardinality(Underway \ {t}) = Cardinality(Underway) - 1
      BY <3>1, PoolFinite, FS_RemoveElement
    <3>3. Cardinality(Underway') = Cardinality(Underway \ {t}) + 1
      BY <3>1, <3>2, FS_AddElement
    <3> QED
      BY <3>1, <3>2, <3>3, PoolFinite DEF NoLostWakeup
  <2> QED
    BY <2>1, <2>2, <1>7 DEF NotifyOne
<1>8. CASE DestroyPool
  BY <1>8 DEF DestroyPool, PoolTypeOK, NoLostWakeup, Waiting
<1>9. ASSUME UNCHANGED <<free, shutdown, at>> PROVE NoLostWakeup'
  BY <1>9 DEF NoLostWakeup, Waiting, Underway
<1> QED
  BY <1>1, <1>2, <1>3, <1>4, <1>5, <1>6, <1>7, <1>8, <1>9
     DEF PoolNext, PoolStep, GetConnection, ReleaseConnection, GiveBackNull, poolVars

(* The pool hands each connection to one connectionRAII at a time, mislays *)
(* none and loses no wake-up, for every number of threads, connections and *)
(* levels of nesting and whenever DestroyPool is called.                   *)
THEOREM PoolInvariance == PoolSpec => [](PoolTypeOK /\ OneOwner /\ NoLostWakeup)
<1>1. PoolInit => PoolInv
  <2>1. PoolInit => PoolTypeOK
    BY PoolTypeInit
  <2>2. PoolInit => OneOwner
    <3> SUFFICES ASSUME PoolInit PROVE OneOwner
      OBVIOUS
    <3>1. \A t \in Threads : 1 .. Len(stack[t]) = {}
      BY DEF PoolInit
    <3> QED
      BY <3>1 DEF PoolInit, OneOwner
  <2>3. PoolInit => NoLostWakeup
    BY DEF PoolInit, NoLostWakeup, Waiting
  <2> QED
    BY <2>1, <2>2, <2>3 DEF PoolInv
<1>2. PoolInv /\ [PoolNext]_poolVars => PoolInv'
  BY PoolTypeStep, OwnerStep, WakeupStep DEF PoolInv
<1> QED
  BY <1>1, <1>2, PTL DEF PoolSpec, PoolInv

(* After DestroyPool, and only then, connections are closed.               *)
ClosedAtShutdown == closed # {} => shutdown

(* If all threads waited, every connection would be in the hands of a      *)
(* thread that has at most MaxDepth - 1 of them: there are not so many     *)
(* places.                                                                 *)
LEMMA EnoughConnections ==
  ASSUME PoolInv, ClosedAtShutdown,
         Cardinality(Conns) > Cardinality(Threads) * (MaxDepth - 1)
  PROVE  NotAllWaiting
<1> SUFFICES ASSUME Waiting = Threads PROVE FALSE
  BY DEF NotAllWaiting
<1> USE PoolAssumption
<1>1. free = {} /\ closed = {}
  <2>1. Underway = {}
    BY DEF Waiting, Underway
  <2>2. ~ shutdown /\ Cardinality(free) <= 0
    BY <2>1, FS_EmptySet DEF PoolInv, NoLostWakeup
  <2>3. IsFiniteSet(free) /\ Cardinality(free) \in Nat
    BY PoolFinite DEF PoolInv
  <2> QED
    BY <2>2, <2>3, FS_EmptySet DEF ClosedAtShutdown
<1> DEFINE Places == Threads \X (1 .. MaxDepth - 1)
           Place(c) == CHOOSE p \in Places :
                         p[2] \in 1 .. Len(stack[p[1]]) /\ stack[p[1]][p[2]] = c
           f == [c \in Conns |-> Place(c)]
<1>2. \A t \in Threads : Len(stack[t]) \in Nat /\ Len(stack[t]) <= MaxDepth - 1
  BY SMTT(30) DEF PoolInv, PoolTypeOK, Waiting
<1>3. ASSUME NEW c \in Conns
      PROVE  Place(c) \in Places /\ stack[Place(c)[1]][Place(c)[2]] = c
  <2>0. PICK t \in Threads : OwnedBy(c, t)
    BY <1>1 DEF PoolInv, OneOwner
  <2>1. PICK i \in 1 .. Len(stack[t]) : stack[t][i] = c
    BY <2>0 DEF OwnedBy
  <2>2. <<t, i>> \in Places
    BY <1>2, <2>1
  <2>3. \E p \in Places : p[2] \in 1 .. Len(stack[p[1]]) /\ stack[p[1]][p[2]] = c
    BY <2>1, <2>2
  <2> QED
    BY <2>3
<1>4. f \in Injection(Conns, Places)
  <2> HIDE DEF Place
  <2>1. \A c \in Conns : f[c] \in Places /\ stack[f[c][1]][f[c][2]] = c
    BY <1>3
  <2>2. f \in [Conns -> Places]
    BY <2>1
  <2>3. \A c, d \in Conns : f[c] = f[d] => c = d
    BY <2>1
  <2> HIDE DEF f, Places
  <2> QED
    BY <2>2, <2>3 DEF Injection, IsInjective
<1>5. /\ IsFiniteSet(1 .. MaxDepth - 1)
      /\ Cardinality(1 .. MaxDepth - 1) = MaxDepth - 1
  BY FS_Interval
<1>6. /\ IsFiniteSet(Places)
      /\ Cardinality(Places) = Cardinality(Threads) * (MaxDepth - 1)
  BY <1>5, FS_Product
<1>7. Cardinality(Conns) <= Cardinality(Places)
  BY <1>4, <1>6, FS_Injection DEF ExistsInjection
<1> QED
  BY <1>6, <1>7, FS_CardinalityType

(* With more than Cardinality(Threads) * (MaxDepth - 1) connections the    *)
(* threads are never all blocked in GetConnection, whatever they nest.     *)
THEOREM PoolNeverDeadlocks ==
  ASSUME Cardinality(Conns) > Cardinality(Threads) * (MaxDepth - 1)
  PROVE  PoolSpec => []NotAllWaiting
<1>1. PoolInit => ClosedAtShutdown
  BY DEF PoolInit, ClosedAtShutdown
<1>2. ClosedAtShutdown /\ [PoolNext]_poolVars => ClosedAtShutdown'
  BY DEF ClosedAtShutdown, PoolNext, poolVars, PoolStep, Ask, GetConnection, Take, Wait,
         GetNull, SpuriousWake, ReleaseConnection, GiveBack, GiveBackNull, NotifyOne,
         DestroyPool
<1>3. PoolInv /\ ClosedAtShutdown => NotAllWaiting
  BY EnoughConnections
<1> QED
  BY <1>1, <1>2, <1>3, PoolInvariance, PTL DEF PoolSpec, PoolInv

(* The worker threads use the connection pool as ConnectionPool describes, *)
(* so that everything proved of the pool holds in the server.              *)
THEOREM ThreadPoolRefinesPool == Spec => PoolSpec
<1>1. Init => PoolInit
  BY DEF Init
<1>2. [Next]_vars => [PoolNext]_poolVars
  <2> SUFFICES ASSUME [Next]_vars PROVE [PoolNext]_poolVars
    OBVIOUS
  <2>1. ASSUME NEW r \in Requests, AppendRequest(r) \/ AppendRefused(r) \/ Reconnect(r)
        PROVE  UNCHANGED poolVars
    BY <2>1 DEF AppendRequest, AppendRefused, Reconnect
  <2>2. CASE Stop \/ SignalOne \/ SignalAll
    BY <2>2 DEF Stop, SignalOne, SignalAll
  <2>3. CASE JoinAndDestroy
    BY <2>3 DEF JoinAndDestroy, PoolNext
  <2>4. ASSUME NEW t \in Threads, WorkerStep(t) PROVE [PoolNext]_poolVars
    BY <2>4 DEF WorkerStep, Fetch, Exit, Block, AskConnection, ReturnInner, Rearm,
                ReturnOuter, Finish, PoolNext, PoolStep
  <2>5. ASSUME NEW t \in Threads, SpuriousReady(t) PROVE [PoolNext]_poolVars
    BY <2>5 DEF SpuriousReady, PoolNext
  <2>6. CASE Terminated \/ UNCHANGED vars
    BY <2>6 DEF Terminated, vars
  <2> QED
    BY <2>1, <2>2, <2>3, <2>4, <2>5, <2>6 DEF Next, MainStep
<1> QED
  BY <1>1, <1>2, PTL DEF Spec, PoolSpec

(* In the server the worker threads are never all blocked in               *)
(* GetConnection, provided the pool has more than                          *)
(* thread_num * (MaxDepth - 1) connections.                                *)
THEOREM WorkersNeverDeadlock ==
  ASSUME Cardinality(Conns) > Cardinality(Threads) * (MaxDepth - 1)
  PROVE  Spec => []NotAllWaiting
BY PoolNeverDeadlocks, ThreadPoolRefinesPool, PTL

(* No notification of the connection pool is lost: every connection on     *)
(* the list has a thread that will take it or wake a waiting one.          *)
THEOREM PoolKeepsWakeups == PoolSpec => []NoLostWakeup
  BY PoolInvariance, PTL

-----------------------------------------------------------------------------
(* The worker threads and the shutdown *)

(* A worker outside process() has no connection and no request, one inside *)
(* has its request, and only one inside, or on its way out, is in the pool.*)
WorkerPlaces ==
  \A t \in Threads :
    /\ work[t] \in {"ready", "idle", "exited"} => stack[t] = << >> /\ at[t] = "run"
    /\ work[t] = "done" => at[t] \in {"run", "notify"}
    /\ work[t] = "serve" <=> job[t] \in Requests

(* What a worker that has returned, and the main thread's place, say: the  *)
(* queue is drained for good, and the pool is destroyed last.              *)
Shutdown ==
  /\ stop <=> main \in {"signalAll", "join", "done"}
  /\ shutdown <=> main = "done"
  /\ \A t \in Threads : work[t] = "exited" => stop /\ queue = << >>
  /\ main = "done" => /\ \A t \in Threads : work[t] = "exited"
                      /\ free = {}

(* The inductive invariant behind TypeOK and NothingLeftBehind. *)
WorkInv == TypeOK /\ WorkerPlaces /\ Shutdown

(* A thread leaves the pool's locked region only by its own steps, or is   *)
(* woken while it waits.                                                   *)
LEMMA PoolStepLocal ==
  ASSUME PoolTypeOK, NEW t \in Threads, PoolStep(t) \/ SpuriousWake(t)
  PROVE  /\ \A u \in Threads \ {t} :
              /\ stack'[u] = stack[u]
              /\ at'[u] = at[u] \/ (at[u] = "waiting" /\ at'[u] = "ask")
         /\ shutdown' = shutdown
         /\ free = {} /\ shutdown => free' = {} \/ (at[t] = "run" /\ stack[t] # << >>)
<1>1. CASE Ask(t) \/ Wait(t) \/ SpuriousWake(t)
  BY <1>1 DEF Ask, Wait, SpuriousWake, PoolTypeOK
<1>2. CASE NotifyOne(t)
  BY <1>2 DEF NotifyOne, Waiting, PoolTypeOK
<1>3. ASSUME NEW c \in Conns, Take(t, c) PROVE shutdown' = shutdown /\ ~ shutdown
                /\ \A u \in Threads \ {t} : stack'[u] = stack[u] /\ at'[u] = at[u]
  BY <1>3, PushFacts DEF Take, PoolTypeOK
<1>4. CASE GetNull(t)
  BY <1>4, PushFacts DEF GetNull, PoolTypeOK
<1>5. CASE ReleaseConnection(t)
  BY <1>5, PopFacts DEF ReleaseConnection, GiveBack, GiveBackNull, PoolTypeOK
<1> QED
  BY <1>1, <1>2, <1>3, <1>4, <1>5 DEF PoolStep, GetConnection

(* The queue after an append and after a fetch. *)
LEMMA QueueFacts ==
  ASSUME TypeOK
  PROVE  /\ Len(queue) \in Nat
         /\ \A r \in Requests : /\ Append(queue, r) \in Seq(Requests)
                                /\ Len(Append(queue, r)) = Len(queue) + 1
         /\ queue # << >> => /\ Head(queue) \in Requests
                             /\ Tail(queue) \in Seq(Requests)
                             /\ Len(Tail(queue)) = Len(queue) - 1
<1>1. queue \in Seq(Requests)
  BY DEF TypeOK
<1> QED
  BY <1>1

(* Every step of the main thread and of the workers keeps it. *)
LEMMA WorkStep ==
  ASSUME WorkInv, [Next]_vars, [PoolNext]_poolVars
  PROVE  WorkInv'
<1> DEFINE Types == /\ queue \in Seq(Requests) /\ Len(queue) <= MaxRequests
                    /\ stop \in BOOLEAN
                    /\ work \in [Threads -> {"ready", "idle", "serve", "done", "exited"}]
                    /\ job \in [Threads -> Requests \cup {NoRequest}]
                    /\ calls \in [Threads -> 0 .. MaxCalls]
                    /\ main \in {"loop", "signal", "signalAll", "join", "done"}
                    /\ armed \subseteq Requests
           Goal == Types' /\ WorkerPlaces' /\ Shutdown'
<1>1. PoolTypeOK /\ PoolTypeOK' /\ Types /\ WorkerPlaces /\ Shutdown
  BY PoolTypeStep DEF WorkInv, TypeOK
<1>2. Goal => WorkInv'
  BY <1>1 DEF WorkInv, TypeOK
<1>3. NoRequest \notin Requests /\ MaxCalls \in Nat \ {0} /\ MaxRequests \in Nat \ {0}
  BY ThreadPoolAssumption
<1>4. TypeOK
  BY DEF WorkInv
\* The main thread
<1>10. ASSUME NEW r \in Requests, AppendRequest(r) PROVE Goal
  <2> USE <1>10 DEF AppendRequest, poolVars
  <2>1. Types'
    BY <1>1, <1>3, <1>4, QueueFacts
  <2>2. WorkerPlaces'
    BY <1>1 DEF WorkerPlaces
  <2>3. Shutdown'
    BY <1>1 DEF Shutdown
  <2> QED
    BY <2>1, <2>2, <2>3
<1>11. ASSUME NEW r \in Requests, AppendRefused(r) \/ Reconnect(r) PROVE Goal
  <2> USE <1>11 DEF AppendRefused, Reconnect, poolVars
  <2>1. Types'
    BY <1>1
  <2>2. WorkerPlaces' /\ Shutdown'
    BY <1>1 DEF WorkerPlaces, Shutdown
  <2> QED
    BY <2>1, <2>2
<1>12. ASSUME SignalOne PROVE Goal
  <2> USE <1>12 DEF SignalOne, poolVars, Idle
  <2>1. Types'
    BY <1>1
  <2>2. WorkerPlaces'
    BY <1>1 DEF WorkerPlaces
  <2>3. Shutdown'
    BY <1>1 DEF Shutdown
  <2> QED
    BY <2>1, <2>2, <2>3
<1>13. ASSUME Stop PROVE Goal
  <2> USE <1>13 DEF Stop, poolVars
  <2>1. Types'
    BY <1>1
  <2>2. WorkerPlaces'
    BY <1>1 DEF WorkerPlaces
  <2>3. Shutdown'
    BY <1>1 DEF Shutdown
  <2> QED
    BY <2>1, <2>2, <2>3
<1>14. ASSUME SignalAll PROVE Goal
  <2> USE <1>14 DEF SignalAll, poolVars, Idle
  <2>1. Types'
    BY <1>1
  <2>2. WorkerPlaces'
    BY <1>1 DEF WorkerPlaces
  <2>3. Shutdown'
    BY <1>1 DEF Shutdown
  <2> QED
    BY <2>1, <2>2, <2>3
<1>15. ASSUME JoinAndDestroy PROVE Goal
  <2> USE <1>15 DEF JoinAndDestroy, DestroyPool
  <2>1. Types'
    BY <1>1
  <2>2. WorkerPlaces'
    BY <1>1 DEF WorkerPlaces, Waiting, PoolTypeOK
  <2>3. Shutdown'
    BY <1>1 DEF Shutdown
  <2> QED
    BY <2>1, <2>2, <2>3
\* The workers
<1>20. ASSUME NEW t \in Threads, Fetch(t) PROVE Goal
  <2> USE <1>20 DEF Fetch, poolVars
  <2>0. Head(queue) \in Requests /\ Tail(queue) \in Seq(Requests) /\ Len(Tail(queue)) <= MaxRequests
    BY <1>1, <1>3, <1>4, QueueFacts
  <2>1. Types'
    BY <1>1, <2>0
  <2>2. WorkerPlaces'
    BY <1>1, <1>3, <2>0 DEF WorkerPlaces
  <2>3. Shutdown'
    BY <1>1 DEF Shutdown
  <2> QED
    BY <2>1, <2>2, <2>3
<1>21. ASSUME NEW t \in Threads, Exit(t) \/ Block(t) \/ Finish(t) PROVE Goal
  <2> USE <1>21 DEF Exit, Block, Finish, poolVars
  <2>1. Types'
    BY <1>1
  <2>2. WorkerPlaces'
    BY <1>1 DEF WorkerPlaces
  <2>3. Shutdown'
    BY <1>1 DEF Shutdown
  <2> QED
    BY <2>1, <2>2, <2>3
<1>22. ASSUME NEW t \in Threads, Rearm(t) PROVE Goal
  <2> USE <1>22 DEF Rearm, poolVars
  <2>1. Types'
    BY <1>1, <1>3 DEF WorkerPlaces
  <2>2. WorkerPlaces'
    BY <1>1, <1>3 DEF WorkerPlaces
  <2>3. Shutdown'
    BY <1>1 DEF Shutdown
  <2> QED
    BY <2>1, <2>2, <2>3
\* Steps in the connection pool
<1>23. ASSUME NEW t \in Threads, PoolStep(t) \/ SpuriousWake(t), work[t] \in {"serve", "done"},
              work[t] = "done" => at'[t] \in {"run", "notify"},
              Types', UNCHANGED <<queue, stop, work, job, main>>
       PROVE  Goal
  <2>1. /\ \A u \in Threads \ {t} :
             /\ stack'[u] = stack[u]
             /\ at'[u] = at[u] \/ (at[u] = "waiting" /\ at'[u] = "ask")
        /\ shutdown' = shutdown
    BY <1>1, <1>23, PoolStepLocal
  <2>2. WorkerPlaces'
    BY <1>1, <1>23, <2>1 DEF WorkerPlaces
  <2>3. main # "done"
    BY <1>1, <1>23 DEF Shutdown
  <2>4. Shutdown'
    BY <1>1, <1>23, <2>1, <2>3 DEF Shutdown
  <2> QED
    BY <1>23, <2>2, <2>4
<1>24. ASSUME NEW t \in Threads, AskConnection(t) PROVE Goal
  <2>1. Types'
    BY <1>1, <1>3, <1>24 DEF AskConnection
  <2> QED
    BY <2>1, <1>23, <1>24 DEF AskConnection, PoolStep
<1>25. ASSUME NEW t \in Threads, ReturnInner(t) \/ ReturnOuter(t) PROVE Goal
  <2>1. Types' /\ UNCHANGED <<queue, stop, work, job, main>>
    BY <1>1, <1>25 DEF ReturnInner, ReturnOuter, workVars
  <2>2. at'[t] \in {"run", "notify"} /\ PoolStep(t) /\ work[t] \in {"serve", "done"}
    BY <1>1, <1>25 DEF ReturnInner, ReturnOuter, ReleaseConnection, GiveBack, GiveBackNull,
                       PoolStep, PoolTypeOK
  <2> QED
    BY <2>1, <2>2, <1>23
<1>26. ASSUME NEW t \in Threads, GetConnection(t) \/ NotifyOne(t), UNCHANGED workVars PROVE Goal
  <2>1. Types' /\ UNCHANGED <<queue, stop, work, job, main>>
    BY <1>1, <1>26 DEF workVars
  <2>2. at[t] \in {"ask", "notify"} /\ (at[t] = "notify" => at'[t] = "run")
    BY <1>1, <1>26 DEF GetConnection, Take, Wait, GetNull, NotifyOne, Waiting, PoolTypeOK
  <2>3. work[t] \in {"serve", "done"} /\ (work[t] = "done" => at[t] = "notify")
    BY <1>1, <2>2 DEF WorkerPlaces
  <2> QED
    BY <2>1, <2>2, <2>3, <1>23, <1>26 DEF PoolStep
<1>27. ASSUME NEW t \in Threads, SpuriousReady(t) PROVE Goal
  <2>1. CASE SpuriousWake(t) /\ UNCHANGED workVars
    <3>1. Types' /\ UNCHANGED <<queue, stop, work, job, main>>
      BY <1>1, <2>1 DEF workVars
    <3>2. work[t] = "serve"
      BY <1>1, <2>1 DEF SpuriousWake, WorkerPlaces
    <3> QED
      BY <2>1, <3>1, <3>2, <1>23
  <2>2. CASE /\ work[t] = "idle" /\ work' = [work EXCEPT ![t] = "ready"]
             /\ UNCHANGED <<queue, stop, job, calls, main, armed, poolVars>>
    <3>1. Types'
      BY <1>1, <2>2
    <3>2. WorkerPlaces'
      BY <1>1, <2>2 DEF WorkerPlaces, poolVars
    <3>3. Shutdown'
      BY <1>1, <2>2 DEF Shutdown, poolVars
    <3> QED
      BY <3>1, <3>2, <3>3
  <2> QED
    BY <1>27, <2>1, <2>2 DEF SpuriousReady
<1>30. ASSUME UNCHANGED vars PROVE Goal
  <2>1. Types'
    BY <1>1, <1>30 DEF vars, workVars
  <2>2. WorkerPlaces' /\ Shutdown'
    BY <1>1, <1>30 DEF vars, workVars, poolVars, WorkerPlaces, Shutdown
  <2> QED
    BY <2>1, <2>2
<1> HIDE DEF Goal
<1>31. Goal
  BY <1>10, <1>11, <1>12, <1>13, <1>14, <1>15, <1>20, <1>21, <1>22, <1>24, <1>25, <1>26, <1>27, <1>30
     DEF Next, MainStep, WorkerStep, Terminated
<1> QED
  BY <1>2, <1>31

(* The server starts with every worker outside process() and nothing       *)
(* asked of it.                                                            *)
LEMMA WorkInit == Init => WorkInv
<1> SUFFICES ASSUME Init PROVE WorkInv
  OBVIOUS
<1>1. PoolTypeOK
  BY PoolTypeInit DEF Init
<1>2. /\ queue \in Seq(Requests) /\ Len(queue) <= MaxRequests
      /\ calls \in [Threads -> 0 .. MaxCalls]
  BY ThreadPoolAssumption DEF Init
<1>3. TypeOK
  BY <1>1, <1>2 DEF Init, TypeOK
<1>4. WorkerPlaces
  BY ThreadPoolAssumption DEF Init, PoolInit, WorkerPlaces
<1>5. Shutdown
  BY DEF Init, PoolInit, Shutdown
<1> QED
  BY <1>3, <1>4, <1>5 DEF WorkInv

(* The thread pool's state keeps its types: m_workqueue never holds more   *)
(* than m_max_requests requests, and a worker's request is never lost      *)
(* sight of while process() runs.                                          *)
THEOREM WorkersTyping == Spec => []TypeOK
<1>1. [Next]_vars /\ WorkInv /\ [PoolNext]_poolVars => WorkInv'
  BY WorkStep
<1>2. WorkInv => TypeOK
  BY DEF WorkInv
<1>3. Spec => [][PoolNext]_poolVars
  BY ThreadPoolRefinesPool, PTL DEF PoolSpec
<1> QED
  BY <1>1, <1>2, <1>3, WorkInit, PTL DEF Spec

(* ~WebServer leaves nothing behind: when the join has returned and the    *)
(* pool is destroyed, the queue is drained, no worker has a request, and   *)
(* every MySQL connection is closed.                                       *)
THEOREM ShutdownLeavesNothing == Spec => []NothingLeftBehind
<1>1. [Next]_vars /\ WorkInv /\ [PoolNext]_poolVars => WorkInv'
  BY WorkStep
<1>2. ASSUME WorkInv, OneOwner PROVE NothingLeftBehind
  <2> SUFFICES ASSUME main = "done"
               PROVE  /\ closed = Conns /\ queue = << >>
                      /\ \A t \in Threads : stack[t] = << >> /\ job[t] = NoRequest
    BY DEF NothingLeftBehind
  <2>1. \A t \in Threads : work[t] = "exited"
    BY <1>2 DEF WorkInv, Shutdown
  <2>2. queue = << >>
    BY <1>2, <2>1, PoolAssumption DEF WorkInv, Shutdown
  <2>3. \A t \in Threads : stack[t] = << >> /\ job[t] = NoRequest
    BY <1>2, <2>1 DEF WorkInv, WorkerPlaces, TypeOK
  <2>4. ASSUME NEW c \in Conns PROVE c \in closed
    <3>1. free = {}
      BY <1>2 DEF WorkInv, Shutdown
    <3>2. \A t \in Threads : ~ OwnedBy(c, t)
      BY <2>3 DEF OwnedBy
    <3> QED
      BY <1>2, <3>1, <3>2 DEF OneOwner
  <2>5. closed \subseteq Conns
    BY <1>2 DEF WorkInv, TypeOK, PoolTypeOK
  <2> QED
    BY <2>2, <2>3, <2>4, <2>5
<1>3. Spec => [][PoolNext]_poolVars
  BY ThreadPoolRefinesPool, PTL DEF PoolSpec
<1>4. Spec => []OneOwner
  BY ThreadPoolRefinesPool, PoolInvariance, PTL
<1> QED
  BY <1>1, <1>2, <1>3, <1>4, WorkInit, PTL DEF Spec
=============================================================================
