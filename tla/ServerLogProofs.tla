-------------------------- MODULE ServerLogProofs --------------------------
(***************************************************************************)
(* Proofs about the server's log, for any number of threads, any queue     *)
(* length and any m_split_lines: the circular array is a FIFO, no line is  *)
(* mislaid or duplicated, and every line gets to a file of the right day.  *)
(***************************************************************************)
EXTENDS ServerLog, FiniteSetTheorems, SequenceTheorems, TLAPS

-----------------------------------------------------------------------------
(* Arithmetic of the circular array and of the split *)

(* One lap at most: a remainder is a subtraction. *)
LEMMA OneLap ==
  ASSUME NEW m \in Nat \ {0}, NEW f \in -1 .. m - 1, NEW i \in 1 .. m
  PROVE  /\ (f + i) % m = IF f + i < m THEN f + i ELSE f + i - m
         /\ (f + i) % m \in 0 .. m - 1
  OBVIOUS

(* Whole laps leave no remainder. *)
LEMMA WholeLaps ==
  ASSUME NEW m \in Nat \ {0}, NEW x \in {0 - m, 0, m}
  PROVE  x % m = 0
  OBVIOUS

-----------------------------------------------------------------------------
(* Sequences *)

(* What is appended behind comes last. *)
LEMMA AppendBehind ==
  ASSUME NEW S, NEW s \in Seq(S), NEW t \in Seq(S), NEW x \in S
  PROVE  s \o Append(t, x) = Append(s \o t, x)
  BY AppendProperties, ConcatProperties

(* The first element of what is behind may be counted to what is before. *)
LEMMA HeadMoves ==
  ASSUME NEW S, NEW s \in Seq(S), NEW t \in Seq(S), t # << >>
  PROVE  (s \o << >>) \o t = (s \o <<Head(t)>>) \o Tail(t)
  OBVIOUS

(* An element in the middle may be counted to what is before. *)
LEMMA MiddleMoves ==
  ASSUME NEW S, NEW s \in Seq(S), NEW t \in Seq(S), NEW x \in S
  PROVE  (s \o <<x>>) \o t = (Append(s, x) \o << >>) \o t
  OBVIOUS

(* The elements of a sequence that grows by one. *)
LEMMA ElementsGrow ==
  ASSUME NEW S, NEW s \in Seq(S), NEW x \in S
  PROVE  ToSet(Append(s, x)) = ToSet(s) \cup {x}
<1>1. /\ Len(s) \in Nat /\ DOMAIN s = 1 .. Len(s)
      /\ DOMAIN Append(s, x) = 1 .. Len(s) + 1
      /\ \A i \in 1 .. Len(s) : Append(s, x)[i] = s[i]
      /\ Append(s, x)[Len(s) + 1] = x
  BY AppendProperties, LenProperties
<1>2. 1 .. Len(s) + 1 = 1 .. Len(s) \cup {Len(s) + 1}
  BY <1>1
<1> HIDE <1>2
<1> DEFINE t == Append(s, x)
<1>3. ASSUME NEW y \in ToSet(t) PROVE y \in ToSet(s) \cup {x}
  <2>1. PICK i \in DOMAIN t : y = t[i]
    BY DEF ToSet
  <2> QED
    BY <1>1, <1>2, <2>1 DEF ToSet
<1>4. ASSUME NEW y \in ToSet(s) PROVE y \in ToSet(t)
  <2>1. PICK i \in DOMAIN s : y = s[i]
    BY DEF ToSet
  <2>2. i \in DOMAIN t /\ t[i] = y
    BY <1>1, <1>2, <2>1
  <2> QED
    BY <2>2 DEF ToSet
<1>5. x \in ToSet(t)
  <2>1. Len(s) + 1 \in DOMAIN t /\ t[Len(s) + 1] = x
    BY <1>1, <1>2
  <2> QED
    BY <2>1 DEF ToSet
<1> QED
  BY <1>3, <1>4, <1>5

-----------------------------------------------------------------------------
(* The inductive invariant *)

(* Between the two indices there are m_size elements, up to whole laps. *)
Circle == back - front - size \in {0 - MaxSize, 0, MaxSize}

Queue == /\ array \in [0 .. MaxSize - 1 -> 0 .. MaxLines]
         /\ front \in -1 .. MaxSize - 1 /\ back \in -1 .. MaxSize - 1
         /\ size \in 0 .. MaxSize /\ Circle
         /\ shut \in BOOLEAN

Files == Nat \X Nat
Entry == [line : 1 .. MaxLines, file : Files]
Locking == {p \in Callers : at[p] = "lock"}

Threads == /\ writer \in {"pop", "waiting", "write", "ended"}
           /\ hand \in 0 .. MaxLines /\ (hand # NoLine <=> writer = "write")
           /\ at \in [Callers -> {"out", "lock", "test", "push"}]
           /\ stamp \in [Callers -> Nat]
           /\ line \in [Callers -> 0 .. MaxLines]

File == /\ fp \in Files /\ failures \in Nat /\ wentBack \in BOOLEAN
        /\ count \in Nat /\ today \in Nat /\ clock \in Nat

(* What has been formatted, and where the lines may be. The lines that may *)
(* still be formatted are counted.                                         *)
History == /\ stampOf \in Seq(Nat) /\ Len(stampOf) + Cardinality(Locking) <= MaxLines
           /\ out \in Seq(Entry)
           /\ \A i \in 1 .. Len(out) : out[i].line <= Len(stampOf)
           /\ \A l \in dropped : l \in 1 .. Len(stampOf)

(* The lines in the queue and in the writer's hand are lines. *)
Queued == /\ \A i \in 1 .. size : Contents[i] \in 1 .. Len(stampOf)
          /\ hand \in 0 .. Len(stampOf)

(* What the destructor has done, and who is left.                          *)
Life == /\ mode \in {"async", "sync", "closed"}
        /\ phase \in {"up", "notify", "join", "gone", "crashed"}
        /\ mode # "async" => writer = "ended"
        /\ writer = "ended" => size = 0
        /\ mode = "async" /\ writer = "ended" => shut = TRUE
        /\ shut = TRUE => phase \in {"notify", "join", "gone"}
        /\ phase = "gone" => writer = "ended"
        /\ phase \in {"notify", "join", "gone"} => \A p \in Callers : at[p] = "out"
        /\ \A p \in Callers : at[p] \in {"test", "push"} => mode = "async"

(* The line that caller p has formatted and not got rid of is its own. *)
Held(p) == /\ line[p] # NoLine <=> at[p] \in {"test", "push"}
           /\ line[p] \in 0 .. Len(stampOf) /\ line[p] \notin dropped
           /\ \A q \in Callers : line[q] = line[p] /\ line[p] # NoLine => q = p

LogInv == /\ Queue /\ Threads /\ File /\ History /\ Queued /\ Life
          /\ \A p \in Callers : Held(p)

(* The constants are positive numbers. *)
LEMMA Constants ==
  /\ MaxSize \in Nat \ {0} /\ SplitLines \in Nat \ {0} /\ MaxLines \in Nat \ {0}
  /\ MaxFailures \in Nat /\ IsFiniteSet(Callers)
  BY LogAssumption

(* It implies what the runs check of the types. *)
LEMMA LogInvImplies == LogInv => TypeOK
<1> SUFFICES ASSUME LogInv PROVE TypeOK
  OBVIOUS
<1>1. (back - front - size) % MaxSize = 0
  BY Constants, WholeLaps DEF LogInv, Queue, Circle
<1> QED
  BY <1>1 DEF LogInv, Queue, Threads, File, Life, TypeOK

-----------------------------------------------------------------------------
(* The circular array *)

(* The slot of the i-th element. *)
Slot(i) == (front + i) % MaxSize

(* The slots of up to m_max_size elements are different places of the      *)
(* array.                                                                  *)
LEMMA SlotFacts ==
  ASSUME Queue
  PROVE  /\ \A i \in 1 .. MaxSize : /\ Slot(i) \in 0 .. MaxSize - 1
                                  /\ Slot(i) = IF front + i < MaxSize THEN front + i ELSE front + i - MaxSize
         /\ \A i, j \in 1 .. MaxSize : Slot(i) = Slot(j) => i = j
<1>1. MaxSize \in Nat \ {0} /\ front \in -1 .. MaxSize - 1
  BY Constants DEF Queue
<1>2. ASSUME NEW i \in 1 .. MaxSize
      PROVE  Slot(i) = IF front + i < MaxSize THEN front + i ELSE front + i - MaxSize
  <2>1. (front + i) % MaxSize = IF front + i < MaxSize THEN front + i ELSE front + i - MaxSize
    BY <1>1, OneLap
  <2> QED
    BY <2>1 DEF Slot
<1>3. ASSUME NEW i \in 1 .. MaxSize PROVE Slot(i) \in 0 .. MaxSize - 1
  BY <1>1, <1>2
<1>4. ASSUME NEW i \in 1 .. MaxSize, NEW j \in 1 .. MaxSize, Slot(i) = Slot(j) PROVE i = j
  BY <1>1, <1>2, <1>4
<1> QED
  BY <1>2, <1>3, <1>4

(* The lines in the queue, as a sequence. *)
LEMMA ContentsFacts ==
  ASSUME Queue
  PROVE  /\ Contents \in Seq(0 .. MaxLines) /\ Len(Contents) = size /\ size \in Nat
         /\ \A i \in 1 .. size : Contents[i] = array[Slot(i)]
<1>1. size \in Nat /\ size <= MaxSize /\ MaxSize \in Nat
  BY Constants DEF Queue
<1>2. \A i \in 1 .. size : array[Slot(i)] \in 0 .. MaxLines
  BY <1>1, SlotFacts DEF Queue
<1>3. Contents = [i \in 1 .. size |-> array[Slot(i)]]
  BY DEF Contents, Slot
<1>4. Contents \in Seq(0 .. MaxLines) /\ Len(Contents) = size
  BY <1>1, <1>2, <1>3, IsASeq, LenProperties
<1> QED
  BY <1>1, <1>3, <1>4

(* Storing behind the last element appends to the queue. *)
LEMMA EnqueueFacts ==
  ASSUME Queue, NEW l \in 0 .. MaxLines, ~ Full, Enqueue(l)
  PROVE  Queue' /\ size' = size + 1 /\ Contents' = Append(Contents, l)
<1>1. /\ MaxSize \in Nat \ {0} /\ front \in -1 .. MaxSize - 1 /\ back \in -1 .. MaxSize - 1
      /\ size \in 0 .. MaxSize - 1 /\ back - front - size \in {0 - MaxSize, 0, MaxSize}
  BY Constants DEF Queue, Full, Circle
<1>2. back' = IF back + 1 < MaxSize THEN back + 1 ELSE 0
  <2>1. 1 \in 1 .. MaxSize
    BY <1>1
  <2>2. back' = (back + 1) % MaxSize
    BY DEF Enqueue
  <2>3. (back + 1) % MaxSize = IF back + 1 < MaxSize THEN back + 1 ELSE back + 1 - MaxSize
    BY <1>1, <2>1, OneLap
  <2> QED
    BY <1>1, <2>2, <2>3
<1>3. size' = size + 1 /\ front' = front /\ shut' = shut
  BY DEF Enqueue
<1>4. back' - front' - size' \in {0 - MaxSize, 0, MaxSize} /\ back' \in 0 .. MaxSize - 1
  BY <1>1, <1>2, <1>3
<1>5. array' = [array EXCEPT ![back'] = l]
  BY DEF Enqueue
<1>6. Queue'
  <2>1. array' \in [0 .. MaxSize - 1 -> 0 .. MaxLines]
    BY <1>4, <1>5 DEF Queue
  <2>2. front' \in -1 .. MaxSize - 1 /\ back' \in -1 .. MaxSize - 1 /\ size' \in 0 .. MaxSize
    BY <1>1, <1>3, <1>4
  <2>3. shut' \in BOOLEAN
    BY <1>3, Zenon DEF Queue
  <2> QED
    BY <1>4, <2>1, <2>2, <2>3, Zenon DEF Queue, Circle
<1>7. back' = Slot(size + 1)
  <2>1. size + 1 \in 1 .. MaxSize
    BY <1>1
  <2>2. Slot(size + 1) = IF front + (size + 1) < MaxSize THEN front + (size + 1) ELSE front + (size + 1) - MaxSize
    BY <2>1, SlotFacts
  <2> QED
    BY <1>1, <1>2, <1>3, <1>4, <2>2
<1>8. \A i \in 1 .. size + 1 : Slot(i)' = Slot(i)
  BY <1>3 DEF Slot
<1>9. /\ Contents \in Seq(0 .. MaxLines) /\ Len(Contents) = size
      /\ \A i \in 1 .. size : Contents[i] = array[Slot(i)]
  BY ContentsFacts
<1>10. Contents' = [i \in 1 .. size + 1 |-> array'[Slot(i)]]
  BY <1>3 DEF Contents, Slot
<1>11. \A i \in 1 .. size : array'[Slot(i)] = array[Slot(i)]
  <2> SUFFICES ASSUME NEW i \in 1 .. size PROVE array'[Slot(i)] = array[Slot(i)]
    OBVIOUS
  <2>1. i \in 1 .. MaxSize /\ size + 1 \in 1 .. MaxSize /\ i # size + 1
    BY <1>1
  <2>2. Slot(i) # back' /\ Slot(i) \in 0 .. MaxSize - 1
    BY <1>7, <2>1, SlotFacts
  <2> QED
    BY <1>5, <2>2 DEF Queue
<1>12. array'[Slot(size + 1)] = l
  BY <1>4, <1>5, <1>7 DEF Queue
<1>13. Contents' = Append(Contents, l)
  <2> DEFINE c == Contents
             d == Contents'
  <2>1. c \in Seq(0 .. MaxLines) /\ Len(c) = size /\ size \in Nat
    BY <1>1, <1>9
  <2>2. \A i \in 1 .. size : d[i] = c[i]
    BY <1>1, <1>9, <1>10, <1>11
  <2>3. d[size + 1] = l /\ DOMAIN d = 1 .. size + 1
    BY <1>1, <1>10, <1>12
  <2>4. d \in Seq(0 .. MaxLines) /\ Len(d) = size + 1
    <3>1. \A i \in 1 .. size + 1 : array'[Slot(i)] \in 0 .. MaxLines
      <4>1. Queue' => \A i \in 0 .. MaxSize - 1 : array'[i] \in 0 .. MaxLines
        BY DEF Queue
      <4>2. \A i \in 1 .. size + 1 : Slot(i) \in 0 .. MaxSize - 1
        <5>1. \A i \in 1 .. size + 1 : i \in 1 .. MaxSize
          BY <1>1
        <5> QED
          BY <5>1, SlotFacts
      <4> QED
        BY <1>6, <4>1, <4>2, Zenon
    <3> QED
      BY <1>1, <1>10, <3>1, IsASeq, LenProperties
  <2> HIDE DEF c, d
  <2>5. d = Append(c, l)
    BY <2>1, <2>2, <2>3, <2>4, SeqEqual, AppendProperties
  <2> QED
    BY <2>5 DEF c, d
<1> QED
  BY <1>3, <1>6, <1>13

(* Taking from the front takes the oldest. *)
LEMMA DequeueFacts ==
  ASSUME Queue, size > 0, Dequeue
  PROVE  /\ Queue' /\ size' = size - 1
         /\ Contents # << >> /\ hand' = Head(Contents) /\ Contents' = Tail(Contents)
<1>1. /\ MaxSize \in Nat \ {0} /\ front \in -1 .. MaxSize - 1 /\ back \in -1 .. MaxSize - 1
      /\ size \in 1 .. MaxSize /\ back - front - size \in {0 - MaxSize, 0, MaxSize}
  BY Constants DEF Queue, Circle
<1>2. front' = IF front + 1 < MaxSize THEN front + 1 ELSE 0
  <2>1. 1 \in 1 .. MaxSize
    BY <1>1
  <2>2. front' = (front + 1) % MaxSize
    BY DEF Dequeue
  <2>3. (front + 1) % MaxSize = IF front + 1 < MaxSize THEN front + 1 ELSE front + 1 - MaxSize
    BY <1>1, <2>1, OneLap
  <2> QED
    BY <1>1, <2>2, <2>3
<1>3. size' = size - 1 /\ back' = back /\ shut' = shut /\ array' = array /\ hand' = array[front']
  BY DEF Dequeue
<1>4. back' - front' - size' \in {0 - MaxSize, 0, MaxSize} /\ front' \in 0 .. MaxSize - 1
  BY <1>1, <1>2, <1>3
<1>5. Queue'
  <2>1. array' \in [0 .. MaxSize - 1 -> 0 .. MaxLines]
    BY <1>3 DEF Queue
  <2>2. front' \in -1 .. MaxSize - 1 /\ back' \in -1 .. MaxSize - 1 /\ size' \in 0 .. MaxSize
    BY <1>1, <1>3, <1>4
  <2>3. shut' \in BOOLEAN
    BY <1>3, Zenon DEF Queue
  <2> QED
    BY <1>4, <2>1, <2>2, <2>3, Zenon DEF Queue, Circle
<1>6. front' = Slot(1)
  BY DEF Dequeue, Slot
<1>7. \A i \in 1 .. size - 1 : (front' + i) % MaxSize = Slot(i + 1)
  <2> SUFFICES ASSUME NEW i \in 1 .. size - 1 PROVE (front' + i) % MaxSize = Slot(i + 1)
    OBVIOUS
  <2>1. i \in 1 .. MaxSize /\ i + 1 \in 1 .. MaxSize
    BY <1>1
  <2>4. front' \in -1 .. MaxSize - 1
    BY <1>1, <1>4
  <2>2. (front' + i) % MaxSize = IF front' + i < MaxSize THEN front' + i ELSE front' + i - MaxSize
    <3> HIDE DEF Dequeue
    <3>1. MaxSize \in Nat \ {0} /\ i \in 1 .. MaxSize
      BY <1>1, <2>1
    <3> QED
      BY <2>4, <3>1, OneLap
  <2>3. Slot(i + 1) = IF front + (i + 1) < MaxSize THEN front + (i + 1) ELSE front + (i + 1) - MaxSize
    BY <2>1, SlotFacts
  <2> QED
    BY <1>1, <1>2, <2>2, <2>3
<1>8. /\ Contents \in Seq(0 .. MaxLines) /\ Len(Contents) = size
      /\ \A i \in 1 .. size : Contents[i] = array[Slot(i)]
  BY ContentsFacts
<1>9. Contents' = [i \in 1 .. size - 1 |-> array[(front' + i) % MaxSize]]
  BY <1>3 DEF Contents
<1> DEFINE c == Contents
           d == Contents'
<1>10. c \in Seq(0 .. MaxLines) /\ Len(c) = size
  BY <1>8
<1>11. hand' = c[1]
  BY <1>1, <1>3, <1>6, <1>8
<1>12. \A i \in 1 .. size - 1 : d[i] = c[i + 1]
  <2> SUFFICES ASSUME NEW i \in 1 .. size - 1 PROVE d[i] = c[i + 1]
    OBVIOUS
  <2>1. i + 1 \in 1 .. size
    BY <1>1
  <2> QED
    BY <1>7, <1>8, <1>9, <2>1
<1>13. d = [i \in 1 .. size - 1 |-> c[i + 1]]
  BY <1>9, <1>12
<1> HIDE DEF c, d
<1>14. c # << >> /\ hand' = Head(c) /\ d = Tail(c)
  <2>1. size \in Nat /\ size >= 1
    BY <1>1
  <2>2. c # << >>
    BY <1>10, <2>1
  <2>3. Head(c) = c[1]
    BY <1>10, <2>2, HeadTailProperties
  <2>4. /\ Tail(c) \in Seq(0 .. MaxLines) /\ Len(Tail(c)) = size - 1
        /\ \A i \in 1 .. size - 1 : Tail(c)[i] = c[i + 1]
    BY <1>10, <2>2, HeadTailProperties
  <2>5. Tail(c) = [i \in 1 .. size - 1 |-> c[i + 1]]
    BY <2>1, <2>4, LenProperties
  <2>6. Tail(c) = d
    BY <1>13, <2>5
  <2> QED
    BY <1>11, <2>2, <2>3, <2>6
<1> QED
  BY <1>3, <1>5, <1>14 DEF c, d

-----------------------------------------------------------------------------
(* The invariant is inductive *)

(* A step that leaves the queue alone leaves its contents. *)
LEMMA QueueFrame ==
  ASSUME Queue, UNCHANGED queueVars
  PROVE  Queue' /\ Contents' = Contents /\ size' = size /\ shut' = shut
<1>1. array' = array /\ front' = front /\ back' = back /\ size' = size /\ shut' = shut
  BY DEF queueVars
<1>2. Queue'
  BY <1>1, Zenon DEF Queue, Circle
<1>3. Contents' = Contents
  BY <1>1 DEF Contents
<1> QED
  BY <1>1, <1>2, <1>3

(* A step that formats nothing, drops nothing and leaves the queue and the *)
(* writer's hand alone leaves what is said of the lines.                   *)
LEMMA QueuedFrame ==
  ASSUME Queue, Queued, UNCHANGED queueVars, stampOf' = stampOf, hand' = hand
  PROVE  Queued'
  BY QueueFrame DEF Queued

(* Nobody is at m_mutex who was not there before.                          *)
LEMMA LockingShrinks ==
  ASSUME at \in [Callers -> {"out", "lock", "test", "push"}], Locking' \subseteq Locking
  PROVE  Cardinality(Locking') <= Cardinality(Locking) /\ Cardinality(Locking) \in Nat
         /\ Cardinality(Locking') \in Nat
<1>1. IsFiniteSet(Locking) /\ IsFiniteSet(Locking')
  <2>1. Locking \subseteq Callers
    BY DEF Locking
  <2> QED
    BY <2>1, Constants, FS_Subset
<1> QED
  BY <1>1, FS_Subset, FS_CardinalityType

(* The state that log_write leaves. *)
LEMMA LogInit == Init => LogInv
<1> SUFFICES ASSUME Init PROVE LogInv
  OBVIOUS
<1> USE Constants
<1>1. Queue
  <2>1. array \in [0 .. MaxSize - 1 -> 0 .. MaxLines]
    BY DEF Init, NoLine
  <2>2. /\ front = -1 /\ back = -1 /\ size = 0 /\ shut = FALSE
    BY DEF Init
  <2>3. /\ front \in -1 .. MaxSize - 1 /\ back \in -1 .. MaxSize - 1
        /\ size \in 0 .. MaxSize /\ Circle
    BY <2>2 DEF Circle
  <2>4. shut \in BOOLEAN
    BY <2>2
  <2> QED
    BY <2>1, <2>3, <2>4, Zenon DEF Queue
<1>2. Threads
  BY DEF Init, Threads, NoLine
<1>3. File
  <2>1. fp \in Files /\ failures \in Nat
    BY DEF Init, Files, NoFile, Base
  <2>2. wentBack \in BOOLEAN
    BY DEF Init
  <2>3. count \in Nat /\ today \in Nat /\ clock \in Nat
    BY DEF Init
  <2> QED
    BY <2>1, <2>2, <2>3, Zenon DEF File
<1>4. History
  <2>1. stampOf = << >> /\ out = << >> /\ dropped = {}
    BY DEF Init
  <2>2. Locking = {}
    BY DEF Init, Locking
  <2>3. Cardinality(Locking) = 0
    BY <2>2, FS_EmptySet
  <2> QED
    BY <2>1, <2>3 DEF History
<1>5. Queued
  <2>1. size = 0 /\ hand = 0 /\ stampOf = << >>
    BY DEF Init, NoLine
  <2> QED
    BY <2>1 DEF Queued
<1>6. Life
  BY DEF Init, Life
<1>7. \A p \in Callers : Held(p)
  BY DEF Init, Held, NoLine
<1> QED
  BY <1>1, <1>2, <1>3, <1>4, <1>5, <1>6, <1>7 DEF LogInv

(* Reading the clock. *)
LEMMA ReadClockInv ==
  ASSUME LogInv, NEW p \in Callers, ReadClock(p)
  PROVE  LogInv'
<1> USE Constants
<1>1. /\ phase = "up" /\ at[p] = "out"
      /\ at' = [at EXCEPT ![p] = "lock"] /\ stamp' = [stamp EXCEPT ![p] = clock]
      /\ UNCHANGED <<mode, queueVars, writer, hand, fileVars, line, clock, out, phase, dropped>>
  BY DEF ReadClock
<1>2. Queue' /\ Queued'
  BY <1>1, QueueFrame, QueuedFrame DEF LogInv, fileVars
<1>3. Threads'
  BY <1>1 DEF LogInv, Threads, File
<1>4. File'
  BY <1>1, Zenon DEF LogInv, File, fileVars
<1>5. History'
  <2>1. Locking' = Locking \cup {p} /\ p \notin Locking
    BY <1>1 DEF LogInv, Threads, Locking
  <2>2. IsFiniteSet(Locking)
    <3>1. Locking \subseteq Callers
      BY DEF Locking
    <3> QED
      BY <3>1, FS_Subset
  <2>3. Cardinality(Locking') = Cardinality(Locking) + 1 /\ Cardinality(Locking) \in Nat
    BY <2>1, <2>2, FS_AddElement, FS_CardinalityType
  <2>4. Len(stampOf) + Cardinality(Locking) < MaxLines
    BY DEF ReadClock, Locking
  <2>5. Len(stampOf) \in Nat
    BY LenProperties DEF LogInv, History
  <2>6. stampOf' = stampOf /\ out' = out /\ dropped' = dropped
    BY <1>1 DEF fileVars
  <2> QED
    BY <2>3, <2>4, <2>5, <2>6 DEF LogInv, History
<1>6. Life'
  BY <1>1 DEF LogInv, Life, Threads, queueVars
<1>7. ASSUME NEW q \in Callers PROVE Held(q)'
  <2>1. Held(q) /\ line' = line /\ stampOf' = stampOf /\ dropped' = dropped
    BY <1>1 DEF LogInv, fileVars
  <2>2. at'[q] \in {"test", "push"} <=> at[q] \in {"test", "push"}
    BY <1>1 DEF LogInv, Threads
  <2> QED
    BY <2>1, <2>2, Zenon DEF Held
<1> QED
  BY <1>2, <1>3, <1>4, <1>5, <1>6, <1>7 DEF LogInv

(* A number of the file that is split is a number. *)
LEMMA WholeFiles ==
  ASSUME NEW c \in Nat, NEW k \in Nat \ {0}
  PROVE  (c + 1) \div k \in Nat
  OBVIOUS

(* There is a number for the line that is formatted under m_mutex. *)
LEMMA FormattedFacts ==
  ASSUME LogInv, NEW p \in Callers, at[p] = "lock",
         at' = [at EXCEPT ![p] = "test"] \/ at' = [at EXCEPT ![p] = "out"],
         stampOf' = Append(stampOf, stamp[p])
  PROVE  /\ Formatted \in 1 .. MaxLines /\ Formatted = Len(stampOf) + 1
         /\ Len(stampOf) \in Nat /\ Len(stampOf') = Len(stampOf) + 1
         /\ stampOf' \in Seq(Nat) /\ stampOf'[Formatted] = stamp[p]
         /\ \A i \in 1 .. Len(stampOf) : stampOf'[i] = stampOf[i]
         /\ Len(stampOf') + Cardinality(Locking') <= MaxLines
<1> USE Constants
<1>1. p \in Locking /\ Locking \subseteq Callers /\ Locking' = Locking \ {p}
  BY DEF LogInv, Threads, Locking
<1>2. IsFiniteSet(Locking)
  BY <1>1, FS_Subset
<1>3. Cardinality(Locking') = Cardinality(Locking) - 1 /\ Cardinality(Locking) \in Nat
      /\ Cardinality(Locking') \in Nat
  <2>1. IsFiniteSet(Locking') /\ Cardinality(Locking') = Cardinality(Locking) - 1
    BY <1>1, <1>2, FS_RemoveElement
  <2> QED
    BY <1>2, <2>1, FS_CardinalityType
<1>4. stampOf \in Seq(Nat) /\ stamp[p] \in Nat /\ Len(stampOf) \in Nat
  BY LenProperties DEF LogInv, History, Threads
<1>5. /\ stampOf' \in Seq(Nat) /\ Len(stampOf') = Len(stampOf) + 1
      /\ stampOf'[Len(stampOf) + 1] = stamp[p]
      /\ \A i \in 1 .. Len(stampOf) : stampOf'[i] = stampOf[i]
  BY <1>4, AppendProperties
<1>6. Len(stampOf) + Cardinality(Locking) <= MaxLines
  BY DEF LogInv, History
<1>7. Formatted = Len(stampOf) + 1
  BY DEF Formatted
<1> QED
  BY <1>3, <1>4, <1>5, <1>6, <1>7

(* What Format does to the file and to the count. *)
LEMMA FormatFile ==
  ASSUME LogInv, NEW p \in Callers, Format(p)
  PROVE  /\ fp' \in Files /\ failures' \in Nat /\ wentBack' \in BOOLEAN
         /\ count' \in Nat /\ today' \in Nat /\ clock' = clock
<1> USE Constants
<1>1. /\ fp \in Files /\ failures \in Nat /\ count \in Nat /\ today \in Nat
      /\ stamp[p] \in Nat /\ clock' = clock /\ wentBack \in BOOLEAN
  BY DEF LogInv, File, Threads, Format
<1>2. CASE ~ Rotates(p)
  <2>1. count' = count + 1 /\ fp' = fp /\ today' = today /\ failures' = failures
        /\ wentBack' = wentBack
    BY <1>2 DEF Format
  <2>2. count' \in Nat
    BY <1>1, <2>1
  <2> QED
    BY <1>1, <2>1, <2>2, Zenon
<1>3. CASE Rotates(p)
  <2>1. /\ Reopen(p) /\ today' = stamp[p] /\ count' = (IF today # stamp[p] THEN 0 ELSE count + 1)
        /\ wentBack' = (wentBack \/ stamp[p] < today)
    BY <1>3 DEF Format
  <2>2. NewFile(p) \in Files
    BY <1>1, WholeFiles DEF NewFile, Files, Base
  <2>3. NoFile \in Files
    BY DEF NoFile, Files
  <2>4. fp' \in Files /\ failures' \in Nat
    BY <1>1, <2>1, <2>2, <2>3 DEF Reopen
  <2>5. count' \in Nat /\ today' \in Nat
    BY <1>1, <2>1
  <2>6. wentBack' \in BOOLEAN
    BY <1>1, <2>1, Zenon
  <2> QED
    BY <1>1, <2>4, <2>5, <2>6
<1> QED
  BY <1>2, <1>3

(* The part of write_log under m_mutex, with whichever mode. *)
LEMMA FormatInv ==
  ASSUME LogInv, NEW p \in Callers, Format(p)
  PROVE  LogInv'
<1> USE Constants
<1>1. /\ at[p] = "lock" /\ phase # "crashed" /\ stampOf' = Append(stampOf, stamp[p])
      /\ AfterFormat(p) /\ UNCHANGED <<mode, queueVars, writer, hand, clock, phase, dropped>>
  BY DEF Format
<1>2. at' = [at EXCEPT ![p] = "test"] \/ at' = [at EXCEPT ![p] = "out"]
  BY <1>1 DEF AfterFormat
<1>3. /\ Formatted \in 1 .. MaxLines /\ Formatted = Len(stampOf) + 1
      /\ Len(stampOf) \in Nat /\ Len(stampOf') = Len(stampOf) + 1
      /\ stampOf' \in Seq(Nat) /\ Len(stampOf') + Cardinality(Locking') <= MaxLines
  BY <1>1, <1>2, FormattedFacts
<1>4. /\ fp' \in Files /\ failures' \in Nat /\ wentBack' \in BOOLEAN
      /\ count' \in Nat /\ today' \in Nat /\ clock' = clock
  BY FormatFile
<1>5. Queue' /\ Contents' = Contents /\ size' = size /\ shut' = shut
  BY <1>1, QueueFrame DEF LogInv
<1>6. Queued'
  BY <1>1, <1>3, <1>5 DEF LogInv, Queued
<1>7. File'
  BY <1>4, Zenon DEF File, LogInv
<1>8. Held(p) /\ line[p] = NoLine
  BY <1>1 DEF LogInv, Held
<1>9. Threads'
  <2>1. CASE mode = "async"
    <3>1. /\ at' = [at EXCEPT ![p] = "test"] /\ line' = [line EXCEPT ![p] = Formatted]
          /\ stamp' = stamp
      BY <1>1, <2>1 DEF AfterFormat
    <3>2. line' \in [Callers -> 0 .. MaxLines]
      BY <1>3, <3>1 DEF LogInv, Threads
    <3> QED
      BY <1>1, <3>1, <3>2 DEF LogInv, Threads
  <2>2. CASE mode # "async"
    <3>1. /\ at' = [at EXCEPT ![p] = "out"] /\ line' = line /\ stamp' = [stamp EXCEPT ![p] = 0]
      BY <1>1, <2>2 DEF AfterFormat
    <3> QED
      BY <1>1, <3>1 DEF LogInv, Threads
  <2> QED
    BY <2>1, <2>2
<1>10. out' \in Seq(Entry) /\ \A i \in 1 .. Len(out') : out'[i].line <= Len(stampOf')
  <2>0. /\ out \in Seq(Entry) /\ \A i \in 1 .. Len(out) : out[i].line <= Len(stampOf)
        /\ \A i \in 1 .. Len(out) : out[i] \in Entry
    BY ElementOfSeq DEF LogInv, History
  <2>00. \A i \in 1 .. Len(out) : out[i].line \in Nat
    BY <2>0 DEF Entry
  <2>1. CASE mode = "async"
    <3>1. out' = out
      BY <1>1, <2>1 DEF AfterFormat
    <3> QED
      BY <1>3, <2>0, <2>00, <3>1
  <2>2. CASE mode # "async"
    <3> DEFINE e == [line |-> Formatted, file |-> fp']
    <3>1. out' = Append(out, e)
      BY <1>1, <2>2 DEF AfterFormat
    <3>2. e \in Entry /\ e.line = Len(stampOf')
      BY <1>3, <1>4 DEF Entry
    <3> HIDE DEF e
    <3>3. /\ out' \in Seq(Entry) /\ Len(out') = Len(out) + 1 /\ out'[Len(out) + 1] = e
          /\ \A i \in 1 .. Len(out) : out'[i] = out[i]
      BY <2>0, <3>1, <3>2, AppendProperties
    <3>4. Len(out) \in Nat
      BY <2>0, LenProperties
    <3>5. ASSUME NEW i \in 1 .. Len(out') PROVE out'[i].line <= Len(stampOf')
      <4>1. CASE i = Len(out) + 1
        BY <1>3, <3>2, <3>3, <4>1
      <4>2. CASE i # Len(out) + 1
        <5>1. i \in 1 .. Len(out)
          BY <3>3, <3>4, <4>2
        <5> QED
          BY <1>3, <2>0, <2>00, <3>3, <5>1, SMTT(30)
      <4> QED
        BY <4>1, <4>2
    <3> QED
      BY <3>3, <3>5
  <2> QED
    BY <2>1, <2>2
<1>11. History'
  <2>1. \A l \in dropped' : l \in 1 .. Len(stampOf')
    BY <1>1, <1>3 DEF LogInv, History
  <2> QED
    BY <1>3, <1>10, <2>1 DEF History
<1>12. Life'
  <2>1. \A q \in Callers : at'[q] \in {"test", "push"} => mode = "async"
    BY <1>1 DEF AfterFormat, LogInv, Life, Threads
  <2>2. phase \notin {"notify", "join", "gone"}
    BY <1>1 DEF LogInv, Life
  <2> QED
    BY <1>1, <1>5, <2>1, <2>2 DEF LogInv, Life
<1>13. ASSUME NEW q \in Callers PROVE Held(q)'
  <2>1. \A r \in Callers : line[r] \in 0 .. Len(stampOf)
    BY DEF LogInv, Held
  <2>2. \A l \in dropped : l \in 1 .. Len(stampOf)
    BY DEF LogInv, History
  <2>3. Held(q)
    BY DEF LogInv
  <2>4. CASE mode = "async"
    <3>1. /\ at' = [at EXCEPT ![p] = "test"] /\ line' = [line EXCEPT ![p] = Formatted]
      BY <1>1, <2>4 DEF AfterFormat
    <3>2. /\ \A r \in Callers : line'[r] = IF r = p THEN Formatted ELSE line[r]
          /\ \A r \in Callers : at'[r] = IF r = p THEN "test" ELSE at[r]
      BY <3>1 DEF LogInv, Threads
    <3>3. Formatted \notin dropped /\ \A r \in Callers : line[r] # Formatted
      BY <1>3, <2>1, <2>2
    <3>4. dropped' = dropped /\ line'[q] \in 0 .. Len(stampOf') /\ line'[q] \notin dropped
      BY <1>1, <1>3, <2>1, <2>3, <3>2, <3>3 DEF Held
    <3>5. (line'[q] # NoLine) <=> (at'[q] \in {"test", "push"})
      BY <1>3, <2>3, <3>2 DEF Held, NoLine
    <3>6. \A r \in Callers : line'[r] = line'[q] /\ line'[q] # NoLine => r = q
      BY <2>3, <3>2, <3>3 DEF Held
    <3> QED
      BY <3>4, <3>5, <3>6, Zenon DEF Held
  <2>5. CASE mode # "async"
    <3>1. at' = [at EXCEPT ![p] = "out"] /\ line' = line
      BY <1>1, <2>5 DEF AfterFormat
    <3>2. at'[q] \in {"test", "push"} <=> at[q] \in {"test", "push"}
      BY <1>1, <3>1 DEF LogInv, Threads
    <3>3. line[q] \in 0 .. Len(stampOf') /\ dropped' = dropped
      BY <1>1, <1>3, <2>1
    <3> QED
      BY <2>3, <3>1, <3>2, <3>3, Zenon DEF Held
  <2> QED
    BY <2>4, <2>5
<1> QED
  BY <1>5, <1>6, <1>7, <1>9, <1>11, <1>12, <1>13, Zenon DEF LogInv

(* A caller that leaves write_log has handed its line on. *)
LEMMA LeaveFacts ==
  ASSUME LogInv, NEW p \in Callers, at[p] \in {"test", "push"}, Leave(p),
         stampOf' = stampOf, out' = out, dropped' \in {dropped, dropped \cup {line[p]}}
  PROVE  /\ at' \in [Callers -> {"out", "lock", "test", "push"}]
         /\ stamp' \in [Callers -> Nat] /\ line' \in [Callers -> 0 .. MaxLines]
         /\ line[p] \in 1 .. Len(stampOf) /\ line[p] \notin dropped
         /\ \A q \in Callers : at'[q] = IF q = p THEN "out" ELSE at[q]
         /\ History' /\ \A q \in Callers : Held(q)'
<1> USE Constants
<1>1. /\ at' = [at EXCEPT ![p] = "out"] /\ line' = [line EXCEPT ![p] = NoLine]
      /\ stamp' = [stamp EXCEPT ![p] = 0]
  BY DEF Leave
<1>2. /\ \A q \in Callers : at'[q] = IF q = p THEN "out" ELSE at[q]
      /\ \A q \in Callers : line'[q] = IF q = p THEN NoLine ELSE line[q]
  BY <1>1 DEF LogInv, Threads
<1>3. /\ at' \in [Callers -> {"out", "lock", "test", "push"}]
      /\ stamp' \in [Callers -> Nat] /\ line' \in [Callers -> 0 .. MaxLines]
  BY <1>1 DEF LogInv, Threads, NoLine
<1>4. Held(p) /\ line[p] # NoLine
  BY DEF LogInv, Held
<1>5. Len(stampOf) \in Nat
  BY LenProperties DEF LogInv, History
<1>6. line[p] \in 1 .. Len(stampOf) /\ line[p] \notin dropped
  BY <1>4, <1>5 DEF Held, NoLine
<1>7. History'
  <2>1. Locking' = Locking
    BY <1>2 DEF Locking, LogInv, Threads
  <2>2. \A l \in dropped' : l \in 1 .. Len(stampOf)
    BY <1>6 DEF LogInv, History
  <2> QED
    BY <2>1, <2>2 DEF LogInv, History
<1>8. ASSUME NEW q \in Callers PROVE Held(q)'
  <2>1. Held(q)
    BY DEF LogInv
  <2>2. (line'[q] # NoLine) <=> (at'[q] \in {"test", "push"})
    BY <1>2, <2>1 DEF Held
  <2>3. line'[q] \in 0 .. Len(stampOf')
    BY <1>2, <1>5, <2>1 DEF Held, NoLine
  <2>4. NoLine \notin dropped'
    BY <1>5, <1>6 DEF LogInv, History, NoLine
  <2>5. line'[q] \notin dropped'
    <3>1. CASE q = p
      BY <1>2, <2>4, <3>1
    <3>2. CASE q # p
      BY <1>2, <1>4, <2>1, <3>2 DEF Held
    <3> QED
      BY <3>1, <3>2
  <2>6. \A r \in Callers : line'[r] = line'[q] /\ line'[q] # NoLine => r = q
    BY <1>2, <2>1 DEF Held
  <2> QED
    BY <2>2, <2>3, <2>5, <2>6, Zenon DEF Held
<1> QED
  BY <1>2, <1>3, <1>6, <1>7, <1>8

(* full() answers. *)
LEMMA TestFullInv ==
  ASSUME LogInv, NEW p \in Callers, TestFull(p)
  PROVE  LogInv'
<1>1. /\ at[p] = "test" /\ phase # "crashed"
      /\ UNCHANGED <<mode, queueVars, writer, hand, fileVars, clock, out, phase>>
  BY DEF TestFull
<1>2. Queue' /\ Queued' /\ size' = size /\ shut' = shut
  BY <1>1, QueueFrame, QueuedFrame DEF LogInv, fileVars
<1>3. File'
  BY <1>1, Zenon DEF LogInv, File, fileVars
<1>4. stampOf' = stampOf /\ phase \notin {"notify", "join", "gone"} /\ mode = "async"
  BY <1>1 DEF fileVars, LogInv, Life
<1>5. CASE Full /\ Leave(p) /\ dropped' = dropped \cup {line[p]}
  <2>1. /\ at' \in [Callers -> {"out", "lock", "test", "push"}]
        /\ stamp' \in [Callers -> Nat] /\ line' \in [Callers -> 0 .. MaxLines]
        /\ History' /\ \A q \in Callers : Held(q)'
    BY <1>1, <1>4, <1>5, LeaveFacts
  <2>2. Threads'
    BY <1>1, <2>1 DEF LogInv, Threads
  <2>3. Life'
    BY <1>1, <1>2, <1>4 DEF LogInv, Life
  <2> QED
    BY <1>2, <1>3, <2>1, <2>2, <2>3 DEF LogInv
<1>6. CASE ~ Full /\ at' = [at EXCEPT ![p] = "push"] /\ UNCHANGED <<line, stamp, dropped>>
  <2>1. Threads'
    BY <1>1, <1>6 DEF LogInv, Threads
  <2>2. Life'
    BY <1>1, <1>2, <1>4 DEF LogInv, Life
  <2>3. History'
    <3>1. Locking' = Locking
      BY <1>1, <1>6 DEF Locking, LogInv, Threads
    <3> QED
      BY <1>1, <1>4, <1>6, <3>1 DEF LogInv, History
  <2>4. ASSUME NEW q \in Callers PROVE Held(q)'
    <3>1. at'[q] \in {"test", "push"} <=> at[q] \in {"test", "push"}
      BY <1>1, <1>6 DEF LogInv, Threads
    <3>2. Held(q)
      BY DEF LogInv
    <3> QED
      BY <1>4, <1>6, <3>1, <3>2, Zenon DEF Held
  <2> QED
    BY <1>2, <1>3, <2>1, <2>2, <2>3, <2>4 DEF LogInv
<1> QED
  BY <1>5, <1>6 DEF TestFull

(* push() stores the line or finds the queue full. *)
LEMMA PushLineInv ==
  ASSUME LogInv, NEW p \in Callers, PushLine(p)
  PROVE  LogInv'
<1> USE Constants
<1>1. /\ at[p] = "push" /\ phase # "crashed" /\ Leave(p)
      /\ UNCHANGED <<mode, hand, fileVars, clock, out, phase>>
      /\ \/ Full /\ dropped' = dropped \cup {line[p]} /\ UNCHANGED <<queueVars, writer>>
         \/ ~ Full /\ Enqueue(line[p]) /\ Notify /\ UNCHANGED dropped
  BY DEF PushLine
<1>2. stampOf' = stampOf /\ out' = out /\ phase \notin {"notify", "join", "gone"} /\ mode = "async"
  BY <1>1 DEF fileVars, LogInv, Life
<1>3. /\ at' \in [Callers -> {"out", "lock", "test", "push"}]
      /\ stamp' \in [Callers -> Nat] /\ line' \in [Callers -> 0 .. MaxLines]
      /\ line[p] \in 1 .. Len(stampOf)
      /\ History' /\ \A q \in Callers : Held(q)'
  BY <1>1, <1>2, LeaveFacts
<1>4. File'
  BY <1>1, Zenon DEF LogInv, File, fileVars
<1>5. Queue' /\ Queued' /\ shut' = shut /\ (writer = "ended" => size' = size)
  <2>1. CASE UNCHANGED queueVars
    BY <1>1, <1>2, <2>1, QueueFrame, QueuedFrame DEF LogInv
  <2>2. CASE ~ Full /\ Enqueue(line[p])
    <3>1. line[p] \in 0 .. MaxLines
      BY DEF LogInv, Threads
    <3>2. Queue' /\ size' = size + 1 /\ Contents' = Append(Contents, line[p])
      BY <2>2, <3>1, EnqueueFacts DEF LogInv
    <3>3. Contents \in Seq(0 .. MaxLines) /\ Len(Contents) = size /\ size \in Nat
      BY ContentsFacts DEF LogInv
    <3>4. \A i \in 1 .. size : Contents'[i] = Contents[i]
      BY <3>1, <3>2, <3>3, AppendProperties
    <3>5. Contents'[size + 1] = line[p]
      BY <3>1, <3>2, <3>3, AppendProperties
    <3>6. ASSUME NEW i \in 1 .. size' PROVE Contents'[i] \in 1 .. Len(stampOf')
      <4>1. i = size + 1 \/ i \in 1 .. size
        BY <3>2, <3>3
      <4> QED
        BY <1>2, <1>3, <3>4, <3>5, <4>1 DEF LogInv, Queued
    <3>7. Queued'
      BY <1>1, <1>2, <3>6 DEF LogInv, Queued
    <3>8. shut' = shut
      BY <2>2 DEF Enqueue
    <3>9. writer # "ended"
      BY <1>2 DEF LogInv, Life
    <3> QED
      BY <3>2, <3>7, <3>8, <3>9
  <2> QED
    BY <1>1, <2>1, <2>2
<1>6. Threads'
  <2>1. writer' \in {"pop", "waiting", "write", "ended"} /\ (writer' = "write" <=> writer = "write")
    BY <1>1 DEF LogInv, Threads, Notify
  <2>2. hand' = hand /\ hand \in 0 .. MaxLines /\ (hand # NoLine <=> writer = "write")
    BY <1>1 DEF LogInv, Threads
  <2> QED
    BY <1>3, <2>1, <2>2, Zenon DEF Threads
<1>7. Life'
  <2>1. writer' = "ended" <=> writer = "ended"
    BY <1>1 DEF Notify
  <2>2. \A q \in Callers : at'[q] \in {"test", "push"} => mode' = "async"
    BY <1>1, <1>2
  <2> QED
    BY <1>1, <1>2, <1>5, <2>1, <2>2 DEF LogInv, Life
<1> QED
  BY <1>3, <1>4, <1>5, <1>6, <1>7 DEF LogInv

(* pop() takes the oldest line. *)
LEMMA PopLineInv ==
  ASSUME LogInv, PopLine
  PROVE  LogInv' /\ writer = "pop" /\ writer' = "write" /\ Contents # << >>
         /\ hand' = Head(Contents) /\ Contents' = Tail(Contents)
<1> USE Constants
<1>1. /\ writer = "pop" /\ phase # "crashed" /\ size > 0 /\ Dequeue /\ writer' = "write"
      /\ UNCHANGED <<mode, fileVars, callVars, clock, out, phase, dropped>>
  BY DEF PopLine
<1>2. /\ Queue' /\ size' = size - 1
      /\ Contents # << >> /\ hand' = Head(Contents) /\ Contents' = Tail(Contents)
  BY <1>1, DequeueFacts DEF LogInv
<1>3. Contents \in Seq(0 .. MaxLines) /\ Len(Contents) = size /\ size \in Nat
  BY ContentsFacts DEF LogInv
<1>4. hand' = Contents[1] /\ \A i \in 1 .. size' : Contents'[i] = Contents[i + 1]
  BY <1>2, <1>3, HeadTailProperties
<1>5. /\ stampOf' = stampOf /\ line' = line /\ at' = at /\ stamp' = stamp /\ out' = out
      /\ dropped' = dropped /\ Len(stampOf) \in Nat
  BY <1>1, LenProperties DEF fileVars, callVars, LogInv, History
<1>6. hand' \in 1 .. Len(stampOf)
  BY <1>1, <1>3, <1>4 DEF LogInv, Queued
<1>7. Queued'
  <2>1. ASSUME NEW i \in 1 .. size' PROVE Contents'[i] \in 1 .. Len(stampOf)
    <3>1. i + 1 \in 1 .. size
      BY <1>2, <1>3
    <3> QED
      BY <1>4, <3>1 DEF LogInv, Queued
  <2> QED
    BY <1>5, <1>6, <2>1 DEF Queued
<1>8. Threads'
  <2>1. Len(stampOf) <= MaxLines
    <3>1. Cardinality(Locking) \in Nat
      <4>1. Locking \subseteq Callers
        BY DEF Locking
      <4> QED
        BY <4>1, FS_Subset, FS_CardinalityType
    <3> QED
      BY <1>5, <3>1 DEF LogInv, History
  <2>2. hand' \in 0 .. MaxLines /\ hand' # NoLine
    BY <1>5, <1>6, <2>1 DEF NoLine
  <2> QED
    BY <1>1, <1>5, <2>2 DEF LogInv, Threads
<1>9. File'
  BY <1>1, Zenon DEF LogInv, File, fileVars
<1>10. History'
  BY <1>5 DEF LogInv, History, Locking
<1>11. Life'
  <2>1. shut' = shut
    BY <1>1 DEF Dequeue
  <2> QED
    BY <1>1, <1>5, <2>1 DEF LogInv, Life
<1>12. ASSUME NEW q \in Callers PROVE Held(q)'
  <2>1. Held(q)
    BY DEF LogInv
  <2> QED
    BY <1>5, <2>1, Zenon DEF Held
<1> QED
  BY <1>1, <1>2, <1>7, <1>8, <1>9, <1>10, <1>11, <1>12 DEF LogInv

(* The steps that move neither a line nor a caller. *)
LEMMA QuietInv ==
  ASSUME LogInv, UNCHANGED <<mode, array, front, back, size, hand, fileVars, callVars, out, dropped>>,
         shut' \in BOOLEAN, clock' \in Nat,
         writer' \in {"pop", "waiting", "write", "ended"}, writer' = "write" <=> writer = "write",
         Life'
  PROVE  LogInv' /\ Contents' = Contents
<1>1. Contents' = Contents
  BY DEF Contents
<1>2. /\ stampOf' = stampOf /\ line' = line /\ at' = at /\ stamp' = stamp /\ out' = out
      /\ dropped' = dropped /\ hand' = hand /\ size' = size
  BY DEF fileVars, callVars
<1>3. Queue'
  BY Zenon DEF LogInv, Queue, Circle
<1>4. Threads'
  BY <1>2, Zenon DEF LogInv, Threads
<1>5. File'
  BY Zenon DEF LogInv, File, fileVars
<1>6. History'
  BY <1>2 DEF LogInv, History, Locking
<1>7. Queued'
  BY <1>1, <1>2 DEF LogInv, Queued
<1>8. ASSUME NEW q \in Callers PROVE Held(q)'
  <2>1. Held(q)
    BY DEF LogInv
  <2> QED
    BY <1>2, <2>1, Zenon DEF Held
<1> QED
  BY <1>1, <1>3, <1>4, <1>5, <1>6, <1>7, <1>8 DEF LogInv

(* The steps of the destructor, of a writer thread without a line, of the  *)
(* calendar, and the crash.                                                *)
QuietStep == \/ PopEnd \/ PopWait \/ SpuriousWake \/ CloseQueue \/ NotifyAll \/ Join \/ NextDay
             \/ \E p \in Callers : CloseNull(p)

(* They keep the invariant. *)
LEMMA QuietSteps ==
  ASSUME LogInv, QuietStep
  PROVE  /\ LogInv' /\ Contents' = Contents /\ hand' = hand /\ out' = out /\ line' = line
         /\ stampOf' = stampOf /\ dropped' = dropped /\ size' = size
         /\ (writer' = "write" <=> writer = "write")
<1> DEFINE frame == UNCHANGED <<mode, array, front, back, size, hand, fileVars, callVars, out,
                                dropped>>
<1>1. /\ shut \in BOOLEAN /\ clock \in Nat /\ Life
      /\ writer \in {"pop", "waiting", "write", "ended"}
  BY DEF LogInv, Queue, File, Threads
<1>2. CASE PopEnd
  <2>1. frame /\ shut' = shut /\ clock' = clock /\ phase' = phase /\ writer = "pop" /\ writer' = "ended"
    BY <1>2 DEF PopEnd, queueVars
  <2>2. shut = TRUE /\ size = 0
    BY <1>1, <1>2 DEF PopEnd
  <2>3. Life'
    BY <1>1, <2>1, <2>2 DEF Life, callVars
  <2> QED
    BY <1>1, <2>1, <2>3, QuietInv DEF fileVars, callVars
<1>3. CASE PopWait
  <2>1. frame /\ shut' = shut /\ clock' = clock /\ phase' = phase /\ writer = "pop" /\ writer' = "waiting"
    BY <1>3 DEF PopWait, queueVars
  <2>2. Life'
    BY <1>1, <2>1 DEF Life, callVars
  <2> QED
    BY <1>1, <2>1, <2>2, QuietInv DEF fileVars, callVars
<1>4. CASE SpuriousWake
  <2>1. frame /\ shut' = shut /\ clock' = clock /\ phase' = phase /\ writer = "waiting" /\ writer' = "pop"
    BY <1>4 DEF SpuriousWake, queueVars
  <2>2. Life'
    BY <1>1, <2>1 DEF Life, callVars
  <2> QED
    BY <1>1, <2>1, <2>2, QuietInv DEF fileVars, callVars
<1>5. CASE CloseQueue
  <2>1. frame /\ clock' = clock /\ phase = "up" /\ writer' = writer
    BY <1>5 DEF CloseQueue
  <2>2. (mode = "async" /\ shut' = TRUE /\ phase' = "notify") \/ (mode # "async" /\ phase' = "gone" /\ shut' = shut)
    BY <1>5 DEF CloseQueue
  <2>3. shut' \in BOOLEAN
    BY <1>1, <2>2, Zenon
  <2>4. \A p \in Callers : at'[p] = "out"
    BY <1>5, <2>1 DEF CloseQueue, callVars
  <2>5. Life'
    BY <1>1, <2>1, <2>2, <2>4 DEF Life, callVars
  <2> QED
    BY <1>1, <2>1, <2>3, <2>5, QuietInv DEF fileVars, callVars
<1>6. CASE NotifyAll
  <2>1. /\ frame /\ shut' = shut /\ clock' = clock /\ phase = "notify" /\ phase' = "join"
        /\ writer' = IF writer = "waiting" THEN "pop" ELSE writer
    BY <1>6 DEF NotifyAll, queueVars, Notify
  <2>2. Life'
    BY <1>1, <2>1 DEF Life, callVars
  <2> QED
    BY <1>1, <2>1, <2>2, QuietInv DEF fileVars, callVars
<1>7. CASE Join
  <2>1. /\ frame /\ shut' = shut /\ clock' = clock /\ phase = "join" /\ phase' = "gone"
        /\ writer = "ended" /\ writer' = "ended"
    BY <1>7 DEF Join, queueVars
  <2>2. Life'
    BY <1>1, <2>1 DEF Life, callVars
  <2> QED
    BY <1>1, <2>1, <2>2, QuietInv DEF fileVars, callVars
<1>8. CASE NextDay
  <2>1. frame /\ shut' = shut /\ clock' = clock + 1 /\ phase' = phase /\ writer' = writer
    BY <1>8 DEF NextDay, queueVars
  <2>2. Life'
    BY <1>1, <2>1 DEF Life, callVars
  <2>3. clock' \in Nat
    BY <1>1, <2>1
  <2> QED
    BY <1>1, <2>1, <2>2, <2>3, QuietInv DEF fileVars, callVars
<1>9. CASE \E p \in Callers : CloseNull(p)
  <2>1. PICK p \in Callers : CloseNull(p)
    BY <1>9
  <2>2. frame /\ shut' = shut /\ clock' = clock /\ phase' = "crashed" /\ writer' = writer /\ at[p] = "lock"
    BY <2>1 DEF CloseNull, queueVars
  <2>3. shut # TRUE
    BY <1>1, <2>2 DEF Life
  <2>4. Life'
    BY <1>1, <2>2, <2>3 DEF Life, callVars
  <2> QED
    BY <1>1, <2>2, <2>4, QuietInv DEF fileVars, callVars
<1> QED
  BY <1>2, <1>3, <1>4, <1>5, <1>6, <1>7, <1>8, <1>9 DEF QuietStep

(* The writer thread writes the line in its hand. *)
LEMMA WriteLineInv ==
  ASSUME LogInv, WriteLine
  PROVE  /\ LogInv' /\ Contents' = Contents /\ size' = size /\ hand \in 1 .. Len(stampOf)
         /\ [line |-> hand, file |-> fp] \in Entry
<1> USE Constants
<1>1. /\ writer = "write" /\ phase # "crashed" /\ out' = Append(out, [line |-> hand, file |-> fp])
      /\ hand' = NoLine /\ writer' = "pop"
      /\ UNCHANGED <<mode, queueVars, fileVars, callVars, clock, phase, dropped>>
  BY DEF WriteLine
<1>2. Queue' /\ Contents' = Contents /\ size' = size /\ shut' = shut
  BY <1>1, QueueFrame DEF LogInv
<1>3. /\ stampOf' = stampOf /\ line' = line /\ at' = at /\ stamp' = stamp
      /\ dropped' = dropped /\ Len(stampOf) \in Nat
  BY <1>1, LenProperties DEF fileVars, callVars, LogInv, History
<1>4. hand \in 1 .. Len(stampOf) /\ hand \in 1 .. MaxLines
  BY <1>1, <1>3 DEF LogInv, Queued, Threads, NoLine
<1> DEFINE e == [line |-> hand, file |-> fp]
<1>5. e \in Entry /\ e.line = hand
  BY <1>4 DEF Entry, LogInv, File
<1>6. out' = Append(out, e) /\ out \in Seq(Entry)
  BY <1>1 DEF LogInv, History
<1> HIDE DEF e
<1>7. /\ out' \in Seq(Entry) /\ Len(out') = Len(out) + 1 /\ out'[Len(out) + 1] = e
      /\ \A i \in 1 .. Len(out) : out'[i] = out[i]
  BY <1>5, <1>6, AppendProperties
<1>8. ASSUME NEW i \in 1 .. Len(out') PROVE out'[i].line <= Len(stampOf')
  <2>1. Len(out) \in Nat
    BY <1>6, LenProperties
  <2>2. CASE i = Len(out) + 1
    BY <1>3, <1>4, <1>5, <1>7, <2>2
  <2>3. CASE i # Len(out) + 1
    <3>1. i \in 1 .. Len(out)
      BY <1>7, <2>1, <2>3
    <3> QED
      BY <1>3, <1>7, <3>1 DEF LogInv, History
  <2> QED
    BY <2>2, <2>3
<1>9. History'
  <2>1. Locking' = Locking
    BY <1>3 DEF Locking
  <2> QED
    BY <1>3, <1>7, <1>8, <2>1 DEF LogInv, History
<1>10. Queued'
  BY <1>1, <1>2, <1>3 DEF LogInv, Queued, NoLine
<1>11. Threads'
  BY <1>1, <1>3 DEF LogInv, Threads, NoLine
<1>12. File'
  BY <1>1, Zenon DEF LogInv, File, fileVars
<1>13. Life'
  BY <1>1, <1>2, <1>3 DEF LogInv, Life
<1>14. ASSUME NEW q \in Callers PROVE Held(q)'
  <2>1. Held(q)
    BY DEF LogInv
  <2> QED
    BY <1>3, <2>1, Zenon DEF Held
<1> QED
  BY <1>2, <1>4, <1>5, <1>9, <1>10, <1>11, <1>12, <1>13, <1>14 DEF LogInv, e

(* Nothing happens. *)
LEMMA LogStutters ==
  ASSUME LogInv, UNCHANGED vars
  PROVE  /\ LogInv' /\ Contents' = Contents /\ hand' = hand /\ out' = out /\ line' = line
         /\ stampOf' = stampOf /\ dropped' = dropped /\ writer' = writer /\ size' = size
<1>1. /\ UNCHANGED <<mode, array, front, back, size, hand, fileVars, callVars, out, dropped>>
      /\ shut' = shut /\ clock' = clock /\ writer' = writer /\ phase' = phase
  BY DEF vars, queueVars
<1>2. Life'
  BY <1>1 DEF LogInv, Life, callVars
<1>3. shut' \in BOOLEAN /\ clock' \in Nat /\ writer' \in {"pop", "waiting", "write", "ended"}
  BY <1>1 DEF LogInv, Queue, File, Threads
<1> QED
  BY <1>1, <1>2, <1>3, QuietInv DEF fileVars, callVars

(* The kinds of steps. *)
LEMMA LogCases ==
  ASSUME [Next]_vars
  PROVE  \/ \E p \in Callers : ReadClock(p) \/ Format(p) \/ TestFull(p) \/ PushLine(p)
         \/ PopLine \/ WriteLine \/ QuietStep \/ UNCHANGED vars
  BY DEF Next, CallerStep, WriterStep, Ended, QuietStep

(* The invariant is inductive. *)
LEMMA LogStep == LogInv /\ [Next]_vars => LogInv'
<1> SUFFICES ASSUME LogInv, [Next]_vars PROVE LogInv'
  OBVIOUS
<1> QED
  BY LogCases, ReadClockInv, FormatInv, TestFullInv, PushLineInv, PopLineInv, WriteLineInv,
     QuietSteps, LogStutters

(* Every behaviour keeps it. *)
LEMMA LogAlways == Spec => []LogInv
  BY LogInit, LogStep, PTL DEF Spec

(* Every variable of the log keeps its type, the circular indices enclose  *)
(* exactly m_size elements, and the writer has a line exactly when it is   *)
(* writing, for any number of threads and any queue length.                *)
THEOREM LogTyping == Spec => []TypeOK
  BY LogAlways, LogInvImplies, PTL

-----------------------------------------------------------------------------
(* The log is a FIFO *)

Done == [i \in DOMAIN out |-> out[i].line]

(* What the abstract specification sees as accepted. *)
Accepted == (Done \o InHand) \o Contents

(* The lines that are done, as a sequence. *)
LEMMA DoneFacts ==
  ASSUME LogInv
  PROVE  /\ Done \in Seq(0 .. MaxLines) /\ Len(Done) = Len(out) /\ Len(out) \in Nat
         /\ \A i \in 1 .. Len(out) : Done[i] = out[i].line
<1>1. out \in Seq(Entry) /\ Len(out) \in Nat /\ DOMAIN out = 1 .. Len(out)
  BY LenProperties DEF LogInv, History
<1>2. \A i \in 1 .. Len(out) : out[i] \in Entry
  BY <1>1, ElementOfSeq
<1>3. \A i \in 1 .. Len(out) : out[i].line \in 0 .. MaxLines
  BY <1>2, Constants DEF Entry
<1>4. Done = [i \in 1 .. Len(out) |-> out[i].line]
  BY <1>1 DEF Done
<1> HIDE DEF Done
<1>5. Done \in Seq(0 .. MaxLines)
  BY <1>1, <1>3, <1>4, IsASeq
<1>6. Len(Done) = Len(out)
  BY <1>1, <1>4, <1>5, LenProperties
<1> QED
  BY <1>1, <1>4, <1>5, <1>6

(* One more line is done. *)
LEMMA DoneGrows ==
  ASSUME LogInv, NEW e \in Entry, out' = Append(out, e)
  PROVE  Done' = Append(Done, e.line) /\ Len(out') = Len(out) + 1 /\ e.line \in 0 .. MaxLines
<1>1. out \in Seq(Entry) /\ Len(out) \in Nat /\ DOMAIN out = 1 .. Len(out)
  BY LenProperties DEF LogInv, History
<1>2. /\ out' \in Seq(Entry) /\ Len(out') = Len(out) + 1 /\ out'[Len(out) + 1] = e
      /\ \A i \in 1 .. Len(out) : out'[i] = out[i]
      /\ DOMAIN out' = 1 .. Len(out) + 1
  BY <1>1, AppendProperties, LenProperties
<1>3. Done \in Seq(0 .. MaxLines) /\ Len(Done) = Len(out)
      /\ \A i \in 1 .. Len(out) : Done[i] = out[i].line
  BY DoneFacts
<1>4. e.line \in 0 .. MaxLines
  BY Constants DEF Entry
<1> DEFINE d == Done
           f == Done'
           a == Append(d, e.line)
           n == Len(out)
<1>5. f = [i \in 1 .. n + 1 |-> out'[i].line]
  BY <1>2 DEF Done
<1>6. /\ a \in Seq(0 .. MaxLines) /\ Len(a) = n + 1 /\ a[n + 1] = e.line
      /\ \A i \in 1 .. n : a[i] = d[i]
  BY <1>3, <1>4, AppendProperties
<1>7. a = [i \in 1 .. n + 1 |-> a[i]]
  BY <1>1, <1>6, LenProperties
<1>8. ASSUME NEW i \in 1 .. n + 1 PROVE a[i] = out'[i].line
  <2>1. i = n + 1 \/ i \in 1 .. n
    BY <1>1
  <2> QED
    BY <1>2, <1>3, <1>6, <2>1
<1> HIDE DEF d, f, a, n
<1>9. f = a
  BY <1>5, <1>7, <1>8
<1> QED
  BY <1>2, <1>4, <1>9 DEF f, a, d, n

(* The three parts of what is accepted. *)
LEMMA AcceptedFacts ==
  ASSUME LogInv
  PROVE  /\ Done \in Seq(0 .. MaxLines) /\ InHand \in Seq(0 .. MaxLines)
         /\ Contents \in Seq(0 .. MaxLines) /\ Accepted \in Seq(0 .. MaxLines)
         /\ InHand = IF writer = "write" THEN <<hand>> ELSE << >>
         /\ Len(out) \in Nat /\ size \in Nat /\ Len(Done) = Len(out) /\ Len(Contents) = size
         /\ Len(InHand) = IF writer = "write" THEN 1 ELSE 0
         /\ Len(Accepted) = Len(out) + Len(InHand) + size
<1>1. Done \in Seq(0 .. MaxLines) /\ Len(Done) = Len(out) /\ Len(out) \in Nat
  BY DoneFacts
<1>2. Contents \in Seq(0 .. MaxLines) /\ Len(Contents) = size /\ size \in Nat
  BY ContentsFacts DEF LogInv
<1>3. /\ InHand = IF writer = "write" THEN <<hand>> ELSE << >>
      /\ InHand \in Seq(0 .. MaxLines) /\ Len(InHand) = IF writer = "write" THEN 1 ELSE 0
  <2>1. hand \in 0 .. MaxLines
    BY DEF LogInv, Threads
  <2>2. <<hand>> \in Seq(0 .. MaxLines) /\ Len(<<hand>>) = 1
    BY <2>1
  <2>3. << >> \in Seq(0 .. MaxLines) /\ Len(<< >>) = 0
    OBVIOUS
  <2>4. CASE writer = "write"
    BY <2>2, <2>4, Zenon DEF InHand
  <2>5. CASE writer # "write"
    <3>1. InHand = << >>
      BY <2>5 DEF InHand
    <3> QED
      BY <2>3, <2>5, <3>1
  <2> QED
    BY <2>4, <2>5
<1>4. Done \o InHand \in Seq(0 .. MaxLines) /\ Len(Done \o InHand) = Len(Done) + Len(InHand)
  BY <1>1, <1>3, ConcatProperties
<1> DEFINE s == Done \o InHand
<1>5. s \o Contents \in Seq(0 .. MaxLines) /\ Len(s \o Contents) = Len(s) + Len(Contents)
  <2> HIDE DEF s
  <2>1. s \in Seq(0 .. MaxLines)
    BY <1>4 DEF s
  <2> QED
    BY <1>2, <2>1, ConcatProperties
<1>6. Accepted \in Seq(0 .. MaxLines) /\ Len(Accepted) = Len(out) + Len(InHand) + size
  BY <1>1, <1>2, <1>4, <1>5 DEF Accepted
<1> QED
  BY <1>1, <1>2, <1>3, <1>6

(* A step that moves no line. *)
LEMMA AcceptedFrame ==
  ASSUME Contents' = Contents, out' = out, hand' = hand, writer' = "write" <=> writer = "write"
  PROVE  Accepted' = Accepted
<1>1. Done' = Done
  BY DEF Done
<1>2. InHand' = InHand
  BY DEF InHand
<1> QED
  BY <1>1, <1>2 DEF Accepted

(* push: the line comes last. *)
LEMMA PushAccepts ==
  ASSUME LogInv, NEW p \in Callers, PushLine(p), ~ Full
  PROVE  /\ Accepted' = Append(Accepted, line[p]) /\ out' = out
         /\ line[p] \in 1 .. MaxLines /\ Contents' = Append(Contents, line[p])
<1> USE Constants
<1>1. /\ at[p] = "push" /\ Enqueue(line[p]) /\ Notify /\ hand' = hand /\ out' = out
  BY DEF PushLine
<1>2. line[p] \in 0 .. MaxLines /\ line[p] # NoLine
  BY <1>1 DEF LogInv, Threads, Held
<1>3. Contents' = Append(Contents, line[p])
  BY <1>1, <1>2, EnqueueFacts DEF LogInv
<1>4. Done' = Done
  BY <1>1 DEF Done
<1>5. InHand' = InHand
  BY <1>1 DEF InHand, Notify
<1> DEFINE s == Done \o InHand
<1>6. s \in Seq(0 .. MaxLines) /\ Contents \in Seq(0 .. MaxLines)
  <2>1. Done \in Seq(0 .. MaxLines) /\ InHand \in Seq(0 .. MaxLines) /\ Contents \in Seq(0 .. MaxLines)
    BY AcceptedFacts
  <2> QED
    BY <2>1, ConcatProperties
<1>7. Accepted' = s \o Contents'
  BY <1>4, <1>5 DEF Accepted
<1> HIDE DEF s
<1>8. Accepted' = Append(s \o Contents, line[p])
  BY <1>2, <1>3, <1>6, <1>7, AppendBehind
<1>9. line[p] \in 1 .. MaxLines
  BY <1>2 DEF NoLine
<1> QED
  BY <1>1, <1>3, <1>8, <1>9 DEF s, Accepted

(* pop: the first line of the queue is in the hand now. *)
LEMMA PopMoves ==
  ASSUME LogInv, PopLine
  PROVE  Accepted' = Accepted /\ out' = out
<1>1. /\ writer = "pop" /\ writer' = "write" /\ Contents # << >>
      /\ hand' = Head(Contents) /\ Contents' = Tail(Contents) /\ out' = out
  BY PopLineInv DEF PopLine
<1>2. InHand = << >> /\ InHand' = <<Head(Contents)>> /\ Done' = Done
  BY <1>1 DEF InHand, Done
<1>3. Done \in Seq(0 .. MaxLines) /\ Contents \in Seq(0 .. MaxLines)
  BY AcceptedFacts
<1>4. (Done \o << >>) \o Contents = (Done \o <<Head(Contents)>>) \o Tail(Contents)
  BY <1>1, <1>3, HeadMoves
<1> QED
  BY <1>1, <1>2, <1>4 DEF Accepted

(* The writer thread: the line in the hand is done now. *)
LEMMA WriteMoves ==
  ASSUME LogInv, WriteLine
  PROVE  Accepted' = Accepted /\ Len(out') = Len(out) + 1
<1>1. /\ writer = "write" /\ writer' = "pop" /\ out' = Append(out, [line |-> hand, file |-> fp])
  BY DEF WriteLine
<1>2. Contents' = Contents /\ [line |-> hand, file |-> fp] \in Entry
  BY WriteLineInv
<1>3. Done' = Append(Done, hand) /\ Len(out') = Len(out) + 1 /\ hand \in 0 .. MaxLines
  BY <1>1, <1>2, DoneGrows
<1>4. InHand = <<hand>> /\ InHand' = << >>
  BY <1>1 DEF InHand
<1>5. Done \in Seq(0 .. MaxLines) /\ Contents \in Seq(0 .. MaxLines)
  BY AcceptedFacts
<1>6. (Done \o <<hand>>) \o Contents = (Append(Done, hand) \o << >>) \o Contents
  BY <1>3, <1>5, MiddleMoves
<1> QED
  BY <1>2, <1>3, <1>4, <1>6 DEF Accepted

(* Without the writer thread a line is accepted and done in one step, and  *)
(* none can be under way.                                                  *)
LEMMA SyncAccepts ==
  ASSUME LogInv, NEW p \in Callers, Format(p), mode # "async"
  PROVE  /\ Accepted' = Append(Accepted, Formatted) /\ Formatted \in 1 .. MaxLines
         /\ Len(out') = Len(out) + 1 /\ Len(Accepted) = Len(out) /\ Done' = Append(Done, Formatted)
<1>1. /\ at[p] = "lock" /\ stampOf' = Append(stampOf, stamp[p]) /\ writer' = writer /\ hand' = hand
      /\ at' = [at EXCEPT ![p] = "out"] /\ out' = Append(out, [line |-> Formatted, file |-> fp'])
      /\ UNCHANGED queueVars
  BY DEF Format, AfterFormat
<1>2. Formatted \in 1 .. MaxLines
  BY <1>1, FormattedFacts
<1>3. fp' \in Files
  BY FormatFile
<1>4. [line |-> Formatted, file |-> fp'] \in Entry
  BY <1>2, <1>3 DEF Entry
<1>5. Done' = Append(Done, Formatted) /\ Len(out') = Len(out) + 1
  BY <1>1, <1>4, DoneGrows
<1>6. writer = "ended" /\ size = 0
  BY DEF LogInv, Life
<1>7. Contents' = Contents
  BY <1>1, QueueFrame DEF LogInv
<1>8. /\ Done \in Seq(0 .. MaxLines) /\ Contents \in Seq(0 .. MaxLines) /\ Len(Contents) = 0
      /\ Len(Done) = Len(out) /\ InHand = << >>
  BY <1>6, AcceptedFacts
<1>9. Contents = << >>
  BY <1>8, EmptySeq
<1>10. InHand' = << >>
  BY <1>1, <1>6 DEF InHand
<1> DEFINE d == Done
           l == Formatted
           f == Done'
<1>11. d \in Seq(0 .. MaxLines) /\ l \in 0 .. MaxLines /\ f = Append(d, l) /\ Len(d) = Len(out)
  BY <1>2, <1>5, <1>8, Constants
<1>12. Accepted' = (f \o << >>) \o << >> /\ Accepted = (d \o << >>) \o << >>
  BY <1>7, <1>8, <1>9, <1>10 DEF Accepted
<1> HIDE DEF d, l, f
<1>13. (f \o << >>) \o << >> = f /\ (d \o << >>) \o << >> = d
  <2>1. f \in Seq(0 .. MaxLines)
    BY <1>11, AppendProperties
  <2> QED
    BY <1>11, <2>1, ConcatEmptySeq
<1>14. Accepted' = Append(d, l) /\ Accepted = d
  BY <1>11, <1>12, <1>13
<1> QED
  BY <1>2, <1>5, <1>8, <1>14 DEF l, d

(* Every step of the log is a step of the FIFO or changes nothing that it  *)
(* sees: Format without a writer thread accepts and handles, push accepts, *)
(* pop moves a line from the queue into the hand and is not seen, the      *)
(* write handles, and the last step of the destructor ends.                *)
LEMMA FifoStep ==
  ASSUME LogInv, LogInv', [Next]_vars
  PROVE  [Fifo!FifoNext]_(Fifo!fifoVars)
<1> DEFINE over == phase = "gone"
<1> USE Constants
<1>1. SUFFICES \/ \E l \in 1 .. MaxLines :
                    /\ ~ over /\ Len(Accepted) - Len(out) < MaxSize + 1
                    /\ Accepted' = Append(Accepted, l) /\ Len(out') = Len(out) /\ over' = over
               \/ \E l \in 1 .. MaxLines :
                    /\ ~ over /\ Len(out) = Len(Accepted)
                    /\ Accepted' = Append(Accepted, l) /\ Len(out') = Len(out) + 1 /\ over' = over
               \/ /\ ~ over /\ Len(out) < Len(Accepted)
                  /\ Len(out') = Len(out) + 1 /\ Accepted' = Accepted /\ over' = over
               \/ /\ Len(out) = Len(Accepted) /\ over' = TRUE
                  /\ Accepted' = Accepted /\ Len(out') = Len(out)
               \/ Accepted' = Accepted /\ Len(out') = Len(out) /\ over' = over
  BY DEF Fifo!FifoNext, Fifo!Accept, Fifo!AcceptAndHandle, Fifo!Handle, Fifo!End, Fifo!fifoVars,
         Accepted, Done
<1>2. /\ Len(Accepted) = Len(out) + Len(InHand) + size /\ size \in Nat /\ Len(out) \in Nat
      /\ Len(InHand) = IF writer = "write" THEN 1 ELSE 0
  BY AcceptedFacts
<1>3. \A p \in Callers : at[p] # "out" => phase # "gone"
  BY DEF LogInv, Life
<1>4. CASE UNCHANGED vars
  BY <1>4, LogStutters, AcceptedFrame DEF vars
<1>5. CASE \E p \in Callers : ReadClock(p)
  <2>1. PICK p \in Callers : ReadClock(p)
    BY <1>5
  <2>2. UNCHANGED <<queueVars, writer, hand, out, phase>>
    BY <2>1 DEF ReadClock
  <2>3. Contents' = Contents
    BY <2>2, QueueFrame DEF LogInv
  <2> QED
    BY <2>2, <2>3, AcceptedFrame
<1>6. CASE \E p \in Callers : TestFull(p)
  <2>1. PICK p \in Callers : TestFull(p)
    BY <1>6
  <2>2. UNCHANGED <<queueVars, writer, hand, out, phase>>
    BY <2>1 DEF TestFull
  <2>3. Contents' = Contents
    BY <2>2, QueueFrame DEF LogInv
  <2> QED
    BY <2>2, <2>3, AcceptedFrame
<1>7. CASE \E p \in Callers : Format(p)
  <2>1. PICK p \in Callers : Format(p)
    BY <1>7
  <2>2. phase' = phase /\ phase # "gone" /\ UNCHANGED <<queueVars, writer, hand>>
    BY <1>3, <2>1 DEF Format
  <2>3. CASE mode = "async"
    <3>1. out' = out
      BY <2>1, <2>3 DEF Format, AfterFormat
    <3>2. Contents' = Contents
      BY <2>2, QueueFrame DEF LogInv
    <3> QED
      BY <2>2, <3>1, <3>2, AcceptedFrame
  <2>4. CASE mode # "async"
    <3>1. /\ Accepted' = Append(Accepted, Formatted) /\ Formatted \in 1 .. MaxLines
          /\ Len(out') = Len(out) + 1 /\ Len(Accepted) = Len(out)
      BY <2>1, <2>4, SyncAccepts
    <3> QED
      BY <2>2, <3>1
  <2> QED
    BY <2>3, <2>4
<1>8. CASE \E p \in Callers : PushLine(p)
  <2>1. PICK p \in Callers : PushLine(p)
    BY <1>8
  <2>2. phase' = phase /\ phase # "gone" /\ hand' = hand /\ out' = out
    BY <1>3, <2>1 DEF PushLine
  <2>3. CASE Full
    <3>1. UNCHANGED <<queueVars, writer>>
      BY <2>1, <2>3 DEF PushLine
    <3>2. Contents' = Contents
      BY <3>1, QueueFrame DEF LogInv
    <3> QED
      BY <2>2, <3>1, <3>2, AcceptedFrame
  <2>4. CASE ~ Full
    <3>1. Accepted' = Append(Accepted, line[p]) /\ line[p] \in 1 .. MaxLines
      BY <2>1, <2>4, PushAccepts
    <3>2. size < MaxSize
      BY <1>2, <2>4 DEF Full
    <3>3. Len(Accepted) - Len(out) < MaxSize + 1
      BY <1>2, <3>2
    <3> QED
      BY <2>2, <3>1, <3>3
  <2> QED
    BY <2>3, <2>4
<1>9. CASE PopLine
  BY <1>9, PopMoves DEF PopLine
<1>10. CASE WriteLine
  <2>1. writer = "write" /\ phase' = phase /\ phase # "gone"
    BY <1>10 DEF WriteLine, LogInv, Life
  <2>2. Accepted' = Accepted /\ Len(out') = Len(out) + 1
    BY <1>10, WriteMoves
  <2>3. Len(out) < Len(Accepted)
    BY <1>2, <2>1
  <2> QED
    BY <2>1, <2>2, <2>3
<1>11. CASE QuietStep
  <2>1. Accepted' = Accepted /\ out' = out
    BY <1>11, QuietSteps, AcceptedFrame
  <2>2. CASE phase' = "gone" /\ phase # "gone"
    <3>1. writer = "ended"
      BY <1>11, <2>2 DEF QuietStep, CloseQueue, Join, PopEnd, PopWait, SpuriousWake, NotifyAll,
                         NextDay, CloseNull, LogInv, Life
    <3>2. size = 0
      BY <3>1 DEF LogInv, Life
    <3>3. Len(out) = Len(Accepted)
      BY <1>2, <3>1, <3>2
    <3> QED
      BY <2>1, <2>2, <3>3
  <2>3. CASE ~ (phase' = "gone" /\ phase # "gone")
    <3>1. phase = "gone" => phase' = "gone"
      BY <1>3, <1>11 DEF QuietStep, CloseQueue, Join, PopEnd, PopWait, SpuriousWake, NotifyAll,
                         NextDay, CloseNull
    <3>2. over' = over
      BY <2>3, <3>1
    <3> QED
      BY <2>1, <3>2
  <2> QED
    BY <2>2, <2>3
<1> QED
  BY <1>4, <1>5, <1>6, <1>7, <1>8, <1>9, <1>10, <1>11, LogCases

(* The circular array, the writer thread and the destructor together       *)
(* implement the FIFO: lines are handled in the order in which push        *)
(* accepted them, at most m_max_size + 1 are under way, and ~Log ends only *)
(* when none is, for any number of threads and any queue length.           *)
THEOREM LogIsFifo == Spec => FifoSpec
<1>1. Init => Fifo!FifoInit
  <2> SUFFICES ASSUME Init PROVE Fifo!FifoInit
    OBVIOUS
  <2>1. out = << >> /\ size = 0 /\ writer # "write" /\ phase = "up"
    BY DEF Init
  <2>2. LogInv
    BY LogInit
  <2>3. Len(Accepted) = 0 /\ Accepted \in Seq(0 .. MaxLines)
    BY <2>1, <2>2, AcceptedFacts
  <2>4. Accepted = << >>
    BY <2>3, EmptySeq
  <2> QED
    BY <2>1, <2>4 DEF Fifo!FifoInit, Accepted, Done
<1>2. LogInv /\ LogInv' /\ [Next]_vars => [Fifo!FifoNext]_(Fifo!fifoVars)
  BY FifoStep
<1> QED
  BY <1>1, <1>2, LogAlways, PTL DEF Spec, FifoSpec, Fifo!FifoSpec

-----------------------------------------------------------------------------
(* No line is mislaid *)

(* The elements of two sequences one behind the other. *)
LEMMA ElementsOfBoth ==
  ASSUME NEW S, NEW s \in Seq(S), NEW t \in Seq(S)
  PROVE  ToSet(s \o t) = ToSet(s) \cup ToSet(t)
<1>1. /\ Len(s) \in Nat /\ DOMAIN s = 1 .. Len(s) /\ Len(t) \in Nat /\ DOMAIN t = 1 .. Len(t)
      /\ s \o t \in Seq(S) /\ Len(s \o t) = Len(s) + Len(t)
      /\ \A i \in 1 .. Len(s) + Len(t) : (s \o t)[i] = IF i <= Len(s) THEN s[i] ELSE t[i - Len(s)]
  BY ConcatProperties, LenProperties
<1> DEFINE c == s \o t
           m == Len(s)
           n == Len(t)
<1>2. /\ m \in Nat /\ DOMAIN s = 1 .. m /\ n \in Nat /\ DOMAIN t = 1 .. n
      /\ DOMAIN c = 1 .. m + n
      /\ \A i \in 1 .. m + n : c[i] = IF i <= m THEN s[i] ELSE t[i - m]
  BY <1>1, LenProperties
<1> HIDE DEF c, m, n
<1>3. ASSUME NEW y \in ToSet(c) PROVE y \in ToSet(s) \cup ToSet(t)
  <2>1. PICK i \in DOMAIN c : y = c[i]
    BY DEF ToSet
  <2>2. CASE i <= m
    <3>1. i \in DOMAIN s /\ y = s[i]
      BY <1>2, <2>1, <2>2
    <3> QED
      BY <3>1 DEF ToSet
  <2>3. CASE ~ (i <= m)
    <3>1. i - m \in DOMAIN t /\ y = t[i - m]
      BY <1>2, <2>1, <2>3
    <3> QED
      BY <3>1 DEF ToSet
  <2> QED
    BY <2>2, <2>3
<1>4. ASSUME NEW y \in ToSet(s) PROVE y \in ToSet(c)
  <2>1. PICK i \in DOMAIN s : y = s[i]
    BY DEF ToSet
  <2>2. i \in DOMAIN c /\ y = c[i]
    BY <1>2, <2>1
  <2> QED
    BY <2>2 DEF ToSet
<1>5. ASSUME NEW y \in ToSet(t) PROVE y \in ToSet(c)
  <2>1. PICK i \in DOMAIN t : y = t[i]
    BY DEF ToSet
  <2>2. i + m \in DOMAIN c /\ y = c[i + m]
    <3>1. i \in Nat /\ 1 <= i /\ i <= n
      BY <1>2, <2>1
    <3>2. i + m \in 1 .. m + n /\ ~ (i + m <= m) /\ (i + m) - m = i
      BY <1>2, <3>1
    <3> QED
      BY <1>2, <2>1, <3>2
  <2> QED
    BY <2>2 DEF ToSet
<1> QED
  BY <1>3, <1>4, <1>5 DEF c

HeldLines == {line[p] : p \in Callers} \ {NoLine}

(* EveryLineOnce, told of the accepted lines together. *)
Once == /\ (ToSet(Accepted) \cup HeldLines) \cup dropped = 1 .. Len(stampOf)
        /\ Len(Accepted) + Cardinality(HeldLines) + Cardinality(dropped) = Len(stampOf)

(* It is the property that the run checks. *)
LEMMA OnceImplies == LogInv /\ Once => EveryLineOnce
<1> SUFFICES ASSUME LogInv, Once PROVE EveryLineOnce
  OBVIOUS
<1>1. /\ Done \in Seq(0 .. MaxLines) /\ InHand \in Seq(0 .. MaxLines)
      /\ Contents \in Seq(0 .. MaxLines)
      /\ Len(Accepted) = Len(out) + Len(InHand) + size
  BY AcceptedFacts
<1>2. ToSet(Done \o InHand) = ToSet(Done) \cup ToSet(InHand) /\ Done \o InHand \in Seq(0 .. MaxLines)
  BY <1>1, ElementsOfBoth, ConcatProperties
<1> DEFINE s == Done \o InHand
<1>3. ToSet(Accepted) = ToSet(s) \cup ToSet(Contents)
  <2>1. s \in Seq(0 .. MaxLines)
    BY <1>2
  <2> HIDE DEF s
  <2>2. ToSet(s \o Contents) = ToSet(s) \cup ToSet(Contents)
    BY <1>1, <2>1, ElementsOfBoth
  <2> QED
    BY <2>2 DEF s, Accepted
<1>4. ToSet(Done) = {out[i].line : i \in DOMAIN out}
  BY DEF ToSet, Done
<1>5. (ToSet(Contents) \cup ToSet(InHand)) \cup {out[i].line : i \in DOMAIN out} = ToSet(Accepted)
  BY <1>2, <1>3, <1>4
<1>6. ((ToSet(Contents) \cup ToSet(InHand)) \cup {out[i].line : i \in DOMAIN out} \cup HeldLines)
        \cup dropped = 1 .. Len(stampOf)
  BY <1>5, Zenon DEF Once
<1>7. Len(out) + Len(InHand) + size + Cardinality(HeldLines) + Cardinality(dropped) = Len(stampOf)
  BY <1>1 DEF Once
<1> QED
  BY <1>6, <1>7, Zenon DEF EveryLineOnce, HeldLines

(* The sets of lines are finite. *)
LEMMA LinesFinite ==
  ASSUME LogInv
  PROVE  /\ IsFiniteSet(HeldLines) /\ IsFiniteSet(dropped)
         /\ Cardinality(HeldLines) \in Nat /\ Cardinality(dropped) \in Nat
         /\ HeldLines \subseteq 1 .. Len(stampOf) /\ dropped \subseteq 1 .. Len(stampOf)
         /\ Len(stampOf) \in Nat /\ Len(Accepted) \in Nat
<1>1. Len(stampOf) \in Nat /\ Len(Accepted) \in Nat
  <2>1. stampOf \in Seq(Nat) /\ Accepted \in Seq(0 .. MaxLines)
    BY AcceptedFacts DEF LogInv, History
  <2> QED
    BY <2>1, LenProperties
<1>2. IsFiniteSet(1 .. Len(stampOf))
  BY <1>1, FS_Interval
<1>3. HeldLines \subseteq 1 .. Len(stampOf)
  BY <1>1 DEF HeldLines, LogInv, Held, NoLine
<1>4. dropped \subseteq 1 .. Len(stampOf)
  BY DEF LogInv, History
<1> QED
  BY <1>1, <1>2, <1>3, <1>4, FS_Subset, FS_CardinalityType

(* A line leaves the caller's hands. *)
LEMMA HeldLess ==
  ASSUME LogInv, NEW p \in Callers, at[p] \in {"test", "push"}, Leave(p)
  PROVE  /\ HeldLines' = HeldLines \ {line[p]} /\ line[p] \in HeldLines /\ line[p] \notin dropped
         /\ Cardinality(HeldLines') = Cardinality(HeldLines) - 1
<1>1. Held(p) /\ line[p] # NoLine /\ line[p] \notin dropped
  BY DEF LogInv, Held
<1>2. \A q \in Callers : line'[q] = IF q = p THEN NoLine ELSE line[q]
  BY DEF Leave, LogInv, Threads
<1>3. \A q \in Callers : line[q] = line[p] => q = p
  BY <1>1 DEF Held
<1>4. line[p] \in HeldLines
  BY <1>1 DEF HeldLines
<1>5. HeldLines' = HeldLines \ {line[p]}
  <2>1. ASSUME NEW l, l \in HeldLines' PROVE l \in HeldLines \ {line[p]}
    BY <1>2, <1>3, <2>1 DEF HeldLines
  <2>2. ASSUME NEW l, l \in HeldLines \ {line[p]} PROVE l \in HeldLines'
    BY <1>2, <2>2 DEF HeldLines
  <2> QED
    BY <2>1, <2>2
<1>6. Cardinality(HeldLines') = Cardinality(HeldLines) - 1
  <2>1. IsFiniteSet(HeldLines)
    BY LinesFinite
  <2> QED
    BY <1>4, <1>5, <2>1, FS_RemoveElement
<1> QED
  BY <1>1, <1>4, <1>5, <1>6

(* A line is dropped: it leaves the caller's hands and is counted.         *)
LEMMA DropOnce ==
  ASSUME LogInv, Once, NEW p \in Callers, at[p] \in {"test", "push"}, Leave(p),
         stampOf' = stampOf, dropped' = dropped \cup {line[p]}, Accepted' = Accepted
  PROVE  Once'
<1>1. /\ HeldLines' = HeldLines \ {line[p]} /\ line[p] \in HeldLines /\ line[p] \notin dropped
      /\ Cardinality(HeldLines') = Cardinality(HeldLines) - 1
  BY HeldLess
<1>2. Cardinality(dropped') = Cardinality(dropped) + 1
  BY <1>1, LinesFinite, FS_AddElement
<1>3. (ToSet(Accepted') \cup HeldLines') \cup dropped' = 1 .. Len(stampOf')
  BY <1>1 DEF Once
<1>4. Len(Accepted') + Cardinality(HeldLines') + Cardinality(dropped') = Len(stampOf')
  BY <1>1, <1>2, LinesFinite DEF Once
<1> QED
  BY <1>3, <1>4 DEF Once

(* A step that moves no line, or only between queue, hand and file. *)
LEMMA OnceFrame ==
  ASSUME Once, Accepted' = Accepted, line' = line, dropped' = dropped, stampOf' = stampOf
  PROVE  Once'
<1>1. HeldLines' = HeldLines
  BY DEF HeldLines
<1> QED
  BY <1>1, Zenon DEF Once

(* A formatted line is in its caller's hands (async), or done (sync). *)
LEMMA FormatOnce ==
  ASSUME LogInv, Once, NEW p \in Callers, Format(p)
  PROVE  Once'
<1>1. /\ at[p] = "lock" /\ stampOf' = Append(stampOf, stamp[p])
      /\ UNCHANGED <<mode, queueVars, writer, hand, clock, phase, dropped>>
      /\ AfterFormat(p)
  BY DEF Format
<1>2. at' = [at EXCEPT ![p] = "test"] \/ at' = [at EXCEPT ![p] = "out"]
  BY <1>1 DEF AfterFormat
<1>3. Len(stampOf) \in Nat /\ Len(stampOf') = Len(stampOf) + 1 /\ Formatted = Len(stampOf) + 1
  BY <1>1, <1>2, FormattedFacts
<1>4. 1 .. Len(stampOf') = 1 .. Len(stampOf) \cup {Formatted}
  BY <1>3
<1>5. CASE mode = "async"
  <2>1. line' = [line EXCEPT ![p] = Formatted] /\ out' = out
    BY <1>1, <1>5 DEF AfterFormat
  <2>2. Contents' = Contents
    BY <1>1, QueueFrame DEF LogInv
  <2>3. Accepted' = Accepted
    BY <1>1, <2>1, <2>2, AcceptedFrame
  <2>4. line[p] = NoLine
    BY <1>1 DEF LogInv, Held
  <2>5. \A q \in Callers : line'[q] = IF q = p THEN Formatted ELSE line[q]
    BY <2>1 DEF LogInv, Threads
  <2>6. Formatted # NoLine
    BY <1>3 DEF NoLine
  <2>7. HeldLines' = HeldLines \cup {Formatted}
    <3>1. ASSUME NEW l, l \in HeldLines' PROVE l \in HeldLines \cup {Formatted}
      BY <2>5, <3>1 DEF HeldLines
    <3>2. ASSUME NEW l, l \in HeldLines \cup {Formatted} PROVE l \in HeldLines'
      BY <2>4, <2>5, <2>6, <3>2 DEF HeldLines
    <3> QED
      BY <3>1, <3>2
  <2>8. Formatted \notin HeldLines
    BY <1>3, LinesFinite
  <2>9. Cardinality(HeldLines') = Cardinality(HeldLines) + 1
    BY <2>7, <2>8, LinesFinite, FS_AddElement
  <2>10. (ToSet(Accepted') \cup HeldLines') \cup dropped' = 1 .. Len(stampOf')
    BY <1>1, <1>4, <2>3, <2>7 DEF Once
  <2>11. Len(Accepted') + Cardinality(HeldLines') + Cardinality(dropped') = Len(stampOf')
    BY <1>1, <1>3, <2>3, <2>9, LinesFinite DEF Once
  <2> QED
    BY <2>10, <2>11 DEF Once
<1>6. CASE mode # "async"
  <2>1. Accepted' = Append(Accepted, Formatted) /\ Formatted \in 1 .. MaxLines
    BY <1>6, SyncAccepts
  <2>2. line' = line
    BY <1>1, <1>6 DEF AfterFormat
  <2>3. HeldLines' = HeldLines
    BY <2>2 DEF HeldLines
  <2>4. Accepted \in Seq(0 .. MaxLines) /\ Formatted \in 0 .. MaxLines
    BY <2>1, AcceptedFacts, Constants
  <2>5. ToSet(Accepted') = ToSet(Accepted) \cup {Formatted} /\ Len(Accepted') = Len(Accepted) + 1
    <3> DEFINE a == Accepted
               l == Formatted
               b == Accepted'
               S == 0 .. MaxLines
    <3>1. a \in Seq(S) /\ l \in S
      BY <2>4
    <3>2. b = Append(a, l)
      BY <2>1
    <3> HIDE DEF a, b, l, S
    <3>3. ToSet(Append(a, l)) = ToSet(a) \cup {l}
      BY <3>1, ElementsGrow
    <3>4. Len(Append(a, l)) = Len(a) + 1
      BY <3>1, AppendProperties
    <3> QED
      BY <3>2, <3>3, <3>4 DEF a, b, l
  <2>6. (ToSet(Accepted') \cup HeldLines') \cup dropped' = 1 .. Len(stampOf')
    BY <1>1, <1>4, <2>3, <2>5 DEF Once
  <2>7. Len(Accepted') + Cardinality(HeldLines') + Cardinality(dropped') = Len(stampOf')
    BY <1>1, <1>3, <2>3, <2>5, LinesFinite, SMTT(30) DEF Once
  <2> QED
    BY <2>6, <2>7 DEF Once
<1> QED
  BY <1>5, <1>6

(* push hands the line on to the queue, or drops it. *)
LEMMA PushOnce ==
  ASSUME LogInv, Once, NEW p \in Callers, PushLine(p)
  PROVE  Once'
<1>1. at[p] = "push" /\ Leave(p) /\ stampOf' = stampOf /\ out' = out /\ hand' = hand
  BY DEF PushLine, fileVars
<1>2. CASE Full
  <2>1. dropped' = dropped \cup {line[p]} /\ UNCHANGED <<queueVars, writer>>
    BY <1>2 DEF PushLine
  <2>2. Contents' = Contents
    BY <2>1, QueueFrame DEF LogInv
  <2>3. Accepted' = Accepted
    BY <1>1, <2>1, <2>2, AcceptedFrame
  <2> QED
    BY <1>1, <2>1, <2>3, DropOnce
<1>3. CASE ~ Full
  <2>1. dropped' = dropped
    BY <1>3 DEF PushLine
  <2>2. Accepted' = Append(Accepted, line[p]) /\ line[p] \in 1 .. MaxLines
    BY <1>3, PushAccepts
  <2>3. /\ HeldLines' = HeldLines \ {line[p]} /\ line[p] \in HeldLines
        /\ Cardinality(HeldLines') = Cardinality(HeldLines) - 1
    BY <1>1, HeldLess
  <2>4. Accepted \in Seq(0 .. MaxLines) /\ line[p] \in 0 .. MaxLines
    BY AcceptedFacts DEF LogInv, Threads
  <2>5. ToSet(Accepted') = ToSet(Accepted) \cup {line[p]} /\ Len(Accepted') = Len(Accepted) + 1
    <3> DEFINE a == Accepted
               l == line[p]
               b == Accepted'
               S == 0 .. MaxLines
    <3>1. a \in Seq(S) /\ l \in S
      BY <2>4
    <3>2. b = Append(a, l)
      BY <2>2
    <3> HIDE DEF a, b, l, S
    <3>3. ToSet(Append(a, l)) = ToSet(a) \cup {l}
      BY <3>1, ElementsGrow
    <3>4. Len(Append(a, l)) = Len(a) + 1
      BY <3>1, AppendProperties
    <3> QED
      BY <3>2, <3>3, <3>4 DEF a, b, l
  <2>6. (ToSet(Accepted') \cup HeldLines') \cup dropped' = 1 .. Len(stampOf')
    BY <1>1, <2>1, <2>3, <2>5 DEF Once
  <2>7. Len(Accepted') + Cardinality(HeldLines') + Cardinality(dropped') = Len(stampOf')
    BY <1>1, <2>1, <2>3, <2>5, LinesFinite DEF Once
  <2> QED
    BY <2>6, <2>7 DEF Once
<1> QED
  BY <1>2, <1>3

(* Every step keeps every line in one place. *)
LEMMA OnceStep == LogInv /\ Once /\ [Next]_vars => Once'
<1> SUFFICES ASSUME LogInv, Once, [Next]_vars PROVE Once'
  OBVIOUS
<1>1. CASE UNCHANGED vars
  BY <1>1, LogStutters, AcceptedFrame, OnceFrame
<1>2. CASE \E p \in Callers : ReadClock(p)
  <2>1. PICK p \in Callers : ReadClock(p)
    BY <1>2
  <2>2. UNCHANGED <<queueVars, writer, hand, out, line, dropped, stampOf>>
    BY <2>1 DEF ReadClock, fileVars
  <2>3. Contents' = Contents
    BY <2>2, QueueFrame DEF LogInv
  <2>4. Accepted' = Accepted
    BY <2>2, <2>3, AcceptedFrame
  <2> QED
    BY <2>2, <2>4, OnceFrame
<1>3. CASE \E p \in Callers : TestFull(p)
  <2>1. PICK p \in Callers : TestFull(p)
    BY <1>3
  <2>2. UNCHANGED <<queueVars, writer, hand, out, stampOf>> /\ at[p] = "test"
    BY <2>1 DEF TestFull, fileVars
  <2>3. Contents' = Contents
    BY <2>2, QueueFrame DEF LogInv
  <2>4. Accepted' = Accepted
    BY <2>2, <2>3, AcceptedFrame
  <2>5. CASE Leave(p) /\ dropped' = dropped \cup {line[p]}
    BY <2>2, <2>4, <2>5, DropOnce
  <2>6. CASE UNCHANGED <<line, stamp, dropped>>
    BY <2>2, <2>4, <2>6, OnceFrame
  <2> QED
    BY <2>1, <2>5, <2>6 DEF TestFull
<1>4. CASE \E p \in Callers : Format(p)
  BY <1>4, FormatOnce
<1>5. CASE \E p \in Callers : PushLine(p)
  BY <1>5, PushOnce
<1>6. CASE PopLine
  <2>1. line' = line /\ dropped' = dropped /\ stampOf' = stampOf
    BY <1>6 DEF PopLine, fileVars, callVars
  <2> QED
    BY <1>6, <2>1, PopMoves, OnceFrame
<1>7. CASE WriteLine
  <2>1. line' = line /\ dropped' = dropped /\ stampOf' = stampOf
    BY <1>7 DEF WriteLine, fileVars, callVars
  <2> QED
    BY <1>7, <2>1, WriteMoves, OnceFrame
<1>8. CASE QuietStep
  BY <1>8, QuietSteps, AcceptedFrame, OnceFrame
<1> QED
  BY <1>1, <1>2, <1>3, <1>4, <1>5, <1>6, <1>7, <1>8, LogCases

(* Every line that was formatted is in exactly one place: with its caller, *)
(* dropped by a full queue, in the queue, in the writer's hand or handled; *)
(* whatever happens between full() and push().                             *)
THEOREM LogLinesOnce == Spec => []EveryLineOnce
<1>1. Init => Once
  <2> SUFFICES ASSUME Init PROVE Once
    OBVIOUS
  <2>1. out = << >> /\ size = 0 /\ writer # "write" /\ stampOf = << >> /\ dropped = {}
        /\ line = [p \in Callers |-> NoLine]
    BY DEF Init
  <2>2. LogInv
    BY LogInit
  <2>3. Len(Accepted) = 0 /\ Accepted \in Seq(0 .. MaxLines)
    BY <2>1, <2>2, AcceptedFacts
  <2>4. Accepted = << >>
    BY <2>3, EmptySeq
  <2>5. ToSet(Accepted) = {}
    BY <2>4 DEF ToSet
  <2>6. HeldLines = {}
    BY <2>1 DEF HeldLines
  <2>7. Cardinality({}) = 0
    BY FS_EmptySet
  <2> QED
    BY <2>1, <2>3, <2>5, <2>6, <2>7 DEF Once
<1> QED
  BY <1>1, OnceStep, OnceImplies, LogAlways, PTL DEF Spec

-----------------------------------------------------------------------------
(* Every line gets to a file of the right day *)

(* The file that is open is one of m_today, and without an inversion at    *)
(* midnight no line shows a later day.                                     *)
Days == /\ fp # NoFile => fp[1] = today
        /\ wentBack = FALSE => \A n \in 1 .. Len(stampOf) : stampOf[n] <= today

(* FileOfTheDay of one entry. *)
RightDay(i) == out[i].file # NoFile =>
                 /\ mode = "sync" => out[i].file[1] = stampOf[out[i].line]
                 /\ mode = "async" /\ wentBack = FALSE => out[i].file[1] >= stampOf[out[i].line]

DayInv == Days /\ \A i \in 1 .. Len(out) : RightDay(i)

(* It implies what the run checks. *)
LEMMA DayInvImplies == LogInv /\ DayInv => FileOfTheDay
<1> SUFFICES ASSUME LogInv, DayInv PROVE FileOfTheDay
  OBVIOUS
<1>1. DOMAIN out = 1 .. Len(out) /\ wentBack \in BOOLEAN
  BY LenProperties DEF LogInv, History, File
<1>2. ~ wentBack => wentBack = FALSE
  BY <1>1
<1> QED
  BY <1>1, <1>2 DEF DayInv, RightDay, FileOfTheDay

(* What has been written shows a line that was formatted. *)
LEMMA OutFacts ==
  ASSUME LogInv
  PROVE  /\ out \in Seq(Entry) /\ Len(out) \in Nat /\ DOMAIN out = 1 .. Len(out)
         /\ stampOf \in Seq(Nat) /\ Len(stampOf) \in Nat
         /\ \A i \in 1 .. Len(out) : /\ out[i].line \in 1 .. Len(stampOf)
                                     /\ out[i].file \in Files
         /\ \A n \in 1 .. Len(stampOf) : stampOf[n] \in Nat
<1>1. /\ out \in Seq(Entry) /\ Len(out) \in Nat /\ DOMAIN out = 1 .. Len(out)
      /\ stampOf \in Seq(Nat) /\ Len(stampOf) \in Nat
  BY LenProperties DEF LogInv, History
<1>2. /\ \A i \in 1 .. Len(out) : out[i] \in Entry
      /\ \A n \in 1 .. Len(stampOf) : stampOf[n] \in Nat
  BY <1>1, ElementOfSeq
<1>3. \A i \in 1 .. Len(out) : out[i].line \in 1 .. MaxLines /\ out[i].file \in Files
  BY <1>2 DEF Entry
<1>4. \A i \in 1 .. Len(out) : out[i].line <= Len(stampOf)
  BY DEF LogInv, History
<1> QED
  BY <1>1, <1>2, <1>3, <1>4, Constants

(* After Format m_today is the day of the line, and the file that is open  *)
(* is one of that day.                                                     *)
LEMMA FormatDay ==
  ASSUME LogInv, Days, NEW p \in Callers, Format(p)
  PROVE  /\ today' = stamp[p] /\ (fp' # NoFile => fp'[1] = stamp[p])
         /\ (wentBack' = FALSE => wentBack = FALSE /\ today <= stamp[p])
         /\ stamp[p] \in Nat /\ today \in Nat
<1>1. /\ stamp[p] \in Nat /\ today \in Nat /\ wentBack \in BOOLEAN
  BY DEF LogInv, File, Threads
<1>2. CASE ~ Rotates(p)
  <2>1. today = stamp[p] /\ fp' = fp /\ today' = today /\ wentBack' = wentBack
    BY <1>2 DEF Rotates, Format
  <2> QED
    BY <1>1, <2>1 DEF Days
<1>3. CASE Rotates(p)
  <2>1. /\ Reopen(p) /\ today' = stamp[p] /\ wentBack' = (wentBack \/ stamp[p] < today)
    BY <1>3 DEF Format
  <2>2. fp' = NewFile(p) \/ fp' = NoFile
    BY <2>1 DEF Reopen
  <2>3. NewFile(p)[1] = stamp[p]
    BY DEF NewFile, Base
  <2>4. wentBack' = FALSE => wentBack = FALSE /\ ~ (stamp[p] < today)
    BY <1>1, <2>1
  <2> QED
    BY <1>1, <2>1, <2>2, <2>3, <2>4
<1> QED
  BY <1>2, <1>3

(* A step that neither formats nor writes. *)
LEMMA DayFrame ==
  ASSUME DayInv, UNCHANGED <<mode, fileVars, out>>
  PROVE  DayInv'
<1>1. /\ fp' = fp /\ today' = today /\ wentBack' = wentBack /\ stampOf' = stampOf
      /\ out' = out /\ mode' = mode
  BY DEF fileVars
<1>2. Days'
  BY <1>1, Zenon DEF DayInv, Days
<1>3. \A i \in 1 .. Len(out') : RightDay(i)'
  BY <1>1 DEF DayInv, RightDay
<1> QED
  BY <1>2, <1>3 DEF DayInv

(* Format: the line, when it is written at once, is in the file of its     *)
(* day.                                                                    *)
LEMMA FormatRightDay ==
  ASSUME LogInv, DayInv, NEW p \in Callers, Format(p)
  PROVE  DayInv'
<1>1. /\ at[p] = "lock" /\ stampOf' = Append(stampOf, stamp[p]) /\ mode' = mode
      /\ AfterFormat(p)
  BY DEF Format
<1>2. at' = [at EXCEPT ![p] = "test"] \/ at' = [at EXCEPT ![p] = "out"]
  BY <1>1 DEF AfterFormat
<1>3. /\ Formatted = Len(stampOf) + 1 /\ Len(stampOf) \in Nat /\ Len(stampOf') = Len(stampOf) + 1
      /\ stampOf'[Formatted] = stamp[p]
      /\ \A n \in 1 .. Len(stampOf) : stampOf'[n] = stampOf[n]
  BY <1>1, <1>2, FormattedFacts
<1>4. /\ today' = stamp[p] /\ (fp' # NoFile => fp'[1] = stamp[p])
      /\ (wentBack' = FALSE => wentBack = FALSE /\ today <= stamp[p])
      /\ stamp[p] \in Nat /\ today \in Nat
  BY FormatDay DEF DayInv
<1>5. Days'
  <2>1. ASSUME wentBack' = FALSE, NEW n \in 1 .. Len(stampOf') PROVE stampOf'[n] <= today'
    <3>1. n = Formatted \/ n \in 1 .. Len(stampOf)
      BY <1>3
    <3>2. CASE n = Formatted
      BY <1>3, <1>4, <3>2
    <3>3. CASE n \in 1 .. Len(stampOf)
      <4>1. stampOf[n] <= today /\ stampOf[n] \in Nat
        BY <1>4, <2>1, <3>3, OutFacts DEF DayInv, Days
      <4> QED
        BY <1>3, <1>4, <2>1, <3>3, <4>1
    <3> QED
      BY <3>1, <3>2, <3>3
  <2> QED
    BY <1>4, <2>1 DEF Days
<1>6. ASSUME NEW i \in 1 .. Len(out), out'[i] = out[i] PROVE RightDay(i)'
  <2>1. out[i].line \in 1 .. Len(stampOf)
    BY OutFacts
  <2>2. stampOf'[out[i].line] = stampOf[out[i].line]
    BY <1>3, <2>1
  <2> QED
    BY <1>1, <1>4, <1>6, <2>2 DEF DayInv, RightDay
<1>7. CASE mode = "async"
  <2>1. out' = out
    BY <1>1, <1>7 DEF AfterFormat
  <2> QED
    BY <1>5, <1>6, <2>1 DEF DayInv
<1>8. CASE mode # "async"
  <2> DEFINE e == [line |-> Formatted, file |-> fp']
  <2>1. out' = Append(out, e)
    BY <1>1, <1>8 DEF AfterFormat
  <2>2. e.line = Formatted /\ e.file = fp'
    OBVIOUS
  <2> HIDE DEF e
  <2>3. /\ Len(out') = Len(out) + 1 /\ out'[Len(out) + 1] = e /\ Len(out) \in Nat
        /\ \A i \in 1 .. Len(out) : out'[i] = out[i]
    BY <2>1, OutFacts
  <2>4. ASSUME NEW i \in 1 .. Len(out') PROVE RightDay(i)'
    <3>1. i = Len(out) + 1 \/ i \in 1 .. Len(out)
      BY <2>3
    <3>2. CASE i = Len(out) + 1
      BY <1>1, <1>3, <1>4, <1>8, <2>2, <2>3, <3>2 DEF RightDay
    <3>3. CASE i \in 1 .. Len(out)
      BY <1>6, <2>3, <3>3
    <3> QED
      BY <3>1, <3>2, <3>3
  <2> QED
    BY <1>5, <2>4 DEF DayInv
<1> QED
  BY <1>7, <1>8

(* The writer thread: the file that is open is of no earlier day than the  *)
(* line shows.                                                             *)
LEMMA WriteRightDay ==
  ASSUME LogInv, DayInv, WriteLine
  PROVE  DayInv'
<1> DEFINE e == [line |-> hand, file |-> fp]
<1>1. /\ writer = "write" /\ out' = Append(out, e) /\ mode' = mode
      /\ fp' = fp /\ today' = today /\ wentBack' = wentBack /\ stampOf' = stampOf
  BY DEF WriteLine, fileVars
<1>2. e.line = hand /\ e.file = fp
  OBVIOUS
<1> HIDE DEF e
<1>3. /\ Len(out') = Len(out) + 1 /\ out'[Len(out) + 1] = e /\ Len(out) \in Nat
      /\ \A i \in 1 .. Len(out) : out'[i] = out[i]
  BY <1>1, OutFacts
<1>4. hand \in 1 .. Len(stampOf) /\ mode = "async"
  BY <1>1, WriteLineInv DEF LogInv, Life
<1>5. Days'
  BY <1>1, Zenon DEF DayInv, Days
<1>6. stampOf[hand] \in Nat /\ today \in Nat
  BY <1>4, OutFacts DEF LogInv, File
<1>7. ASSUME NEW i \in 1 .. Len(out') PROVE RightDay(i)'
  <2>1. i = Len(out) + 1 \/ i \in 1 .. Len(out)
    BY <1>3
  <2>2. CASE i = Len(out) + 1
    BY <1>1, <1>2, <1>3, <1>4, <1>6, <2>2 DEF RightDay, DayInv, Days
  <2>3. CASE i \in 1 .. Len(out)
    BY <1>1, <1>3, <2>3 DEF RightDay, DayInv
  <2> QED
    BY <2>1, <2>2, <2>3
<1> QED
  BY <1>5, <1>7 DEF DayInv

(* Every step keeps the lines in files of the right day. *)
LEMMA DayStep == LogInv /\ DayInv /\ [Next]_vars => DayInv'
<1> SUFFICES ASSUME LogInv, DayInv, [Next]_vars PROVE DayInv'
  OBVIOUS
<1>1. CASE UNCHANGED vars
  BY <1>1, DayFrame DEF vars
<1>2. CASE \E p \in Callers : ReadClock(p) \/ TestFull(p) \/ PushLine(p)
  BY <1>2, DayFrame DEF ReadClock, TestFull, PushLine
<1>3. CASE \E p \in Callers : Format(p)
  BY <1>3, FormatRightDay
<1>4. CASE PopLine
  BY <1>4, DayFrame DEF PopLine
<1>5. CASE WriteLine
  BY <1>5, WriteRightDay
<1>6. CASE QuietStep
  BY <1>6, DayFrame DEF QuietStep, PopEnd, PopWait, SpuriousWake, CloseQueue, NotifyAll, Join,
                        NextDay, CloseNull
<1> QED
  BY <1>1, <1>2, <1>3, <1>4, <1>5, <1>6, LogCases

(* Nothing is written when the log starts. *)
LEMMA DayInit == Init => DayInv
<1> SUFFICES ASSUME Init PROVE DayInv
  OBVIOUS
<1>1. out = << >> /\ stampOf = << >> /\ Len(out) = 0 /\ Len(stampOf) = 0
  BY DEF Init
<1>2. fp # NoFile => fp[1] = today
  BY DEF Init, Base, NoFile
<1> QED
  BY <1>1, <1>2 DEF DayInv, Days

(* In synchronous mode every line is in the file of the day it shows; in   *)
(* asynchronous mode it is never in the file of an earlier day, unless two *)
(* threads passed midnight in the opposite order.                          *)
THEOREM LogFileOfTheDay == Spec => []FileOfTheDay
  BY DayInit, DayStep, DayInvImplies, LogAlways, PTL DEF Spec

-----------------------------------------------------------------------------
(* The split *)

(* The lines of the day that are before the file. *)
Before(f) == f[2] * SplitLines

(* A day goes on within a file. *)
LEMMA SplitGoesOn ==
  ASSUME NEW s \in Nat \ {0}, NEW k \in Nat, NEW c \in Nat,
         k * s <= c, c < k * s + s, (c + 1) % s # 0
  PROVE  c + 1 < k * s + s
<1> SUFFICES ASSUME c + 1 = k * s + s PROVE FALSE
  OBVIOUS
<1>1. c + 1 = (k + 1) * s
  OBVIOUS
<1>2. ((k + 1) * s) % s = 0
  OBVIOUS
<1> QED
  BY <1>1, <1>2

(* A new file starts after whole files. *)
LEMMA SplitStarts ==
  ASSUME NEW s \in Nat \ {0}, NEW c \in Nat, (c + 1) % s = 0
  PROVE  ((c + 1) \div s) * s = c + 1
  OBVIOUS

(* In synchronous mode and without an inversion at midnight: the file that *)
(* is open has the lines that m_count says, and every file that was        *)
(* written to is not after it.                                             *)
OpenFile == fp # NoFile => /\ Before(fp) <= count /\ count < Before(fp) + SplitLines
                           /\ Cardinality(LinesIn(fp)) <= count - Before(fp) + 1

NotLater(f) == f[1] < today \/ (f[1] = today /\ Before(f) <= count)

ShortFiles == /\ OpenFile
              /\ \A i \in 1 .. Len(out) : out[i].file # NoFile =>
                   /\ NotLater(out[i].file)
                   /\ Cardinality(LinesIn(out[i].file)) <= SplitLines

ShortInv == mode = "sync" /\ wentBack = FALSE => ShortFiles

(* It implies what the run checks. *)
LEMMA ShortInvImplies == LogInv /\ ShortInv => FilesStayShort
<1> SUFFICES ASSUME LogInv, ShortInv PROVE FilesStayShort
  OBVIOUS
<1>1. DOMAIN out = 1 .. Len(out) /\ wentBack \in BOOLEAN
  BY LenProperties DEF LogInv, History, File
<1>2. ~ wentBack => wentBack = FALSE
  BY <1>1
<1> QED
  BY <1>1, <1>2 DEF ShortInv, ShortFiles, FilesStayShort

(* The lines of a file are finitely many. *)
LEMMA LinesInFinite ==
  ASSUME LogInv, NEW f
  PROVE  IsFiniteSet(LinesIn(f)) /\ Cardinality(LinesIn(f)) \in Nat
<1>1. LinesIn(f) \subseteq 1 .. Len(out) /\ Len(out) \in Nat
  BY OutFacts DEF LinesIn
<1>2. IsFiniteSet(1 .. Len(out))
  BY <1>1, FS_Interval
<1> QED
  BY <1>1, <1>2, FS_Subset, FS_CardinalityType

(* A line more in the file g. *)
LEMMA LinesInGrow ==
  ASSUME LogInv, NEW e \in Entry, out' = Append(out, e), NEW f, NEW g, e.file = g
  PROVE  /\ f # g => LinesIn(f)' = LinesIn(f)
         /\ Cardinality(LinesIn(g)') = Cardinality(LinesIn(g)) + 1
<1>1. /\ Len(out') = Len(out) + 1 /\ out'[Len(out) + 1] = e /\ Len(out) \in Nat
      /\ \A i \in 1 .. Len(out) : out'[i] = out[i]
      /\ DOMAIN out' = 1 .. Len(out) + 1 /\ DOMAIN out = 1 .. Len(out)
  BY OutFacts, AppendProperties, LenProperties
<1>2. 1 .. Len(out) + 1 = 1 .. Len(out) \cup {Len(out) + 1} /\ Len(out) + 1 \notin 1 .. Len(out)
  BY <1>1
<1>3. \A h : LinesIn(h) = {i \in 1 .. Len(out) : out[i].file = h}
  BY <1>1 DEF LinesIn
<1>4. \A h : LinesIn(h)' = {i \in 1 .. Len(out) + 1 : out'[i].file = h}
  BY <1>1 DEF LinesIn
<1>5. f # g => LinesIn(f)' = LinesIn(f)
  BY <1>1, <1>2, <1>3, <1>4
<1>6. LinesIn(g)' = LinesIn(g) \cup {Len(out) + 1} /\ Len(out) + 1 \notin LinesIn(g)
  BY <1>1, <1>2, <1>3, <1>4
<1>7. Cardinality(LinesIn(g)') = Cardinality(LinesIn(g)) + 1
  BY <1>6, LinesInFinite, FS_AddElement
<1> QED
  BY <1>5, <1>7

(* Format: the line goes on in the file that is open, or is the first of   *)
(* its own.                                                                *)
LEMMA FormatShort ==
  ASSUME LogInv, DayInv, ShortInv, NEW p \in Callers, Format(p)
  PROVE  ShortInv'
<1> USE Constants
<1> SUFFICES ASSUME mode' = "sync", wentBack' = FALSE PROVE ShortFiles'
  BY DEF ShortInv
<1>1. /\ at[p] = "lock" /\ stampOf' = Append(stampOf, stamp[p]) /\ mode = "sync"
      /\ AfterFormat(p)
  BY DEF Format
<1>2. /\ at' = [at EXCEPT ![p] = "out"] /\ out' = Append(out, [line |-> Formatted, file |-> fp'])
  BY <1>1 DEF AfterFormat
<1>3. Formatted \in 1 .. MaxLines
  BY <1>1, <1>2, FormattedFacts
<1>4. /\ today' = stamp[p] /\ (fp' # NoFile => fp'[1] = stamp[p])
      /\ wentBack = FALSE /\ today <= stamp[p]
      /\ stamp[p] \in Nat /\ today \in Nat
  BY FormatDay DEF DayInv
<1>5. /\ fp' \in Files /\ fp \in Files /\ count \in Nat
  BY FormatFile DEF LogInv, File
<1>6. ShortFiles
  BY <1>1, <1>4 DEF ShortInv
<1>7. [line |-> Formatted, file |-> fp'] \in Entry
  BY <1>3, <1>5 DEF Entry
<1>8. PICK e \in Entry : e = [line |-> Formatted, file |-> fp']
  BY <1>7
<1>9. PICK g \in Files : g = fp'
  BY <1>5
<1>10. e.file = g /\ out' = Append(out, e)
  BY <1>2, <1>8, <1>9
<1>11. /\ \A f : f # g => LinesIn(f)' = LinesIn(f)
       /\ Cardinality(LinesIn(g)') = Cardinality(LinesIn(g)) + 1
       /\ Cardinality(LinesIn(g)) \in Nat
  BY <1>10, LinesInGrow, LinesInFinite
<1>12. /\ Len(out') = Len(out) + 1 /\ out'[Len(out) + 1] = e /\ Len(out) \in Nat
       /\ \A i \in 1 .. Len(out) : out'[i] = out[i]
  BY <1>10, OutFacts
<1>13. \A f \in Files : Before(f) \in Nat /\ f[1] \in Nat
  BY DEF Files, Before
<1>14. ASSUME g # NoFile
       PROVE  /\ Before(g) <= count' /\ count' < Before(g) + SplitLines
              /\ Cardinality(LinesIn(g)) <= count' - Before(g)
              /\ count' \in Nat
  <2>1. CASE ~ Rotates(p)
    <3>1. g = fp /\ count' = count + 1 /\ (count + 1) % SplitLines # 0
      BY <1>9, <2>1 DEF Format, Rotates
    <3>2. /\ Before(g) <= count /\ count < Before(g) + SplitLines
          /\ Cardinality(LinesIn(g)) <= count - Before(g) + 1
      BY <1>6, <1>14, <3>1 DEF ShortFiles, OpenFile
    <3>3. PICK k \in Nat : k = g[2]
      BY <1>9 DEF Files
    <3>4. count + 1 < k * SplitLines + SplitLines
      <4>1. k * SplitLines <= count /\ count < k * SplitLines + SplitLines
        BY <3>2, <3>3 DEF Before
      <4> QED
        BY <1>5, <3>1, <4>1, SplitGoesOn
    <3>5. count + 1 < Before(g) + SplitLines
      BY <3>3, <3>4 DEF Before
    <3> QED
      BY <1>5, <1>11, <1>13, <3>1, <3>2, <3>5
  <2>2. CASE Rotates(p)
    <3>1. /\ g = NewFile(p) /\ count' = (IF today # stamp[p] THEN 0 ELSE count + 1)
      BY <1>9, <1>14, <2>2 DEF Format, Reopen
    <3>2. /\ Before(g) = count' /\ count' \in Nat
      <4>1. CASE today # stamp[p]
        <5>1. g[2] = 0 /\ count' = 0
          BY <3>1, <4>1 DEF NewFile, Base
        <5> QED
          BY <5>1 DEF Before
      <4>2. CASE today = stamp[p]
        <5>1. /\ (count + 1) % SplitLines = 0 /\ count' = count + 1
              /\ g[2] = (count + 1) \div SplitLines
          BY <2>2, <3>1, <4>2 DEF NewFile, Rotates
        <5>2. ((count + 1) \div SplitLines) * SplitLines = count + 1
          BY <1>5, <5>1, SplitStarts
        <5> QED
          BY <1>5, <5>1, <5>2 DEF Before
      <4> QED
        BY <4>1, <4>2
    <3>3. LinesIn(g) = {}
      <4> SUFFICES ASSUME NEW i \in 1 .. Len(out), out[i].file = g PROVE FALSE
        BY OutFacts DEF LinesIn
      <4>1. NotLater(g)
        BY <1>6, <1>14 DEF ShortFiles
      <4>2. g[1] = stamp[p]
        BY <1>4, <1>9, <1>14
      <4>3. stamp[p] = today /\ Before(g) <= count
        BY <1>4, <4>1, <4>2 DEF NotLater
      <4> QED
        BY <1>5, <3>1, <3>2, <4>3
    <3>4. Cardinality(LinesIn(g)) = 0
      BY <3>3, FS_EmptySet
    <3>5. PICK b \in Nat : b = Before(g)
      BY <3>2
    <3>6. b <= b /\ b < b + SplitLines /\ 0 <= b - b
      OBVIOUS
    <3>7. count' = b
      BY <3>2, <3>5
    <3> QED
      BY <3>4, <3>5, <3>6, <3>7
  <2> QED
    BY <2>1, <2>2
<1>15. OpenFile'
  <2>1. LinesIn(fp)' = LinesIn(g)'
    BY <1>9 DEF LinesIn
  <2>2. Before(fp)' = Before(g)
    BY <1>9 DEF Before
  <2>3. ASSUME g # NoFile
        PROVE  /\ Before(g) <= count' /\ count' < Before(g) + SplitLines
               /\ Cardinality(LinesIn(g)') <= count' - Before(g) + 1
    BY <1>9, <1>11, <1>13, <1>14, <2>3
  <2> QED
    BY <1>9, <2>1, <2>2, <2>3 DEF OpenFile
<1>16. ASSUME NEW i \in 1 .. Len(out'), out'[i].file # NoFile
       PROVE  /\ NotLater(out[i].file)'
              /\ Cardinality(LinesIn(out[i].file)') <= SplitLines
  <2>1. i = Len(out) + 1 \/ i \in 1 .. Len(out)
    BY <1>12
  <2>2. PICK f \in Files : f = out'[i].file
    <3>1. out'[i].file \in Files
      BY <1>9, <1>10, <1>12, <2>1, OutFacts
    <3> QED
      BY <3>1
  <2>3. LinesIn(out[i].file)' = LinesIn(f)'
    BY <2>2 DEF LinesIn
  <2>4. NotLater(out[i].file)' <=> f[1] < today' \/ (f[1] = today' /\ Before(f) <= count')
    BY <2>2 DEF NotLater, Before
  <2>5. CASE f = g
    <3>1. f[1] = today' /\ Before(f) <= count'
      BY <1>4, <1>9, <1>14, <1>16, <2>2, <2>5
    <3>2. Cardinality(LinesIn(f)') <= SplitLines
      BY <1>11, <1>13, <1>14, <1>16, <2>2, <2>5
    <3> QED
      BY <2>3, <2>4, <3>1, <3>2
  <2>6. CASE f # g
    <3>1. i \in 1 .. Len(out) /\ out[i].file = f
      BY <1>10, <1>12, <2>1, <2>2, <2>6
    <3>2. NotLater(f) /\ Cardinality(LinesIn(f)) <= SplitLines
      BY <1>6, <1>16, <2>2, <3>1 DEF ShortFiles
    <3>3. LinesIn(f)' = LinesIn(f)
      BY <1>11, <2>6
    <3>4. f[1] < today' \/ (f[1] = today' /\ Before(f) <= count')
      <4>1. f[1] \in Nat /\ Before(f) \in Nat
        BY <1>13
      <4>2. CASE today < stamp[p]
        BY <1>4, <3>2, <4>1, <4>2 DEF NotLater
      <4>3. CASE today = stamp[p]
        <5>1. count' = count + 1
          BY <4>3 DEF Format
        <5> QED
          BY <1>4, <1>5, <3>2, <4>1, <4>3, <5>1 DEF NotLater
      <4> QED
        BY <1>4, <4>2, <4>3
    <3> QED
      BY <2>3, <2>4, <3>2, <3>3, <3>4
  <2> QED
    BY <2>5, <2>6
<1> QED
  BY <1>15, <1>16 DEF ShortFiles

(* The other steps write nothing in synchronous mode. *)
LEMMA ShortFrame ==
  ASSUME ShortInv, mode' = mode, UNCHANGED fileVars, mode = "sync" => out' = out
  PROVE  ShortInv'
<1> SUFFICES ASSUME mode' = "sync", wentBack' = FALSE PROVE ShortFiles'
  BY DEF ShortInv
<1>1. /\ fp' = fp /\ today' = today /\ wentBack' = wentBack /\ count' = count
      /\ out' = out /\ mode = "sync"
  BY DEF fileVars
<1>2. ShortFiles
  BY <1>1 DEF ShortInv
<1>3. \A f : LinesIn(f)' = LinesIn(f)
  BY <1>1 DEF LinesIn
<1> QED
  BY <1>1, <1>2, <1>3 DEF ShortFiles, OpenFile, NotLater, Before, LinesIn

(* Every step keeps the files short. *)
LEMMA ShortStep == LogInv /\ DayInv /\ ShortInv /\ [Next]_vars => ShortInv'
<1> SUFFICES ASSUME LogInv, DayInv, ShortInv, [Next]_vars PROVE ShortInv'
  OBVIOUS
<1>1. CASE UNCHANGED vars
  BY <1>1, ShortFrame DEF vars
<1>2. CASE \E p \in Callers : ReadClock(p) \/ TestFull(p) \/ PushLine(p)
  BY <1>2, ShortFrame DEF ReadClock, TestFull, PushLine
<1>3. CASE \E p \in Callers : Format(p)
  BY <1>3, FormatShort
<1>4. CASE PopLine
  BY <1>4, ShortFrame DEF PopLine
<1>5. CASE WriteLine
  <2>1. mode # "sync"
    BY <1>5 DEF WriteLine, LogInv, Life
  <2> QED
    BY <1>5, <2>1, ShortFrame DEF WriteLine
<1>6. CASE QuietStep
  BY <1>6, ShortFrame DEF QuietStep, PopEnd, PopWait, SpuriousWake, CloseQueue, NotifyAll, Join,
                          NextDay, CloseNull
<1> QED
  BY <1>1, <1>2, <1>3, <1>4, <1>5, <1>6, LogCases

(* "Split by lines": in synchronous mode no file gets more than            *)
(* m_split_lines lines, whatever the split and the calendar do, unless an  *)
(* inversion at midnight reopens the file of an earlier day.               *)
THEOREM LogFilesShort == Spec => []FilesStayShort
<1>1. Init => ShortInv
  <2> SUFFICES ASSUME Init PROVE ShortInv
    OBVIOUS
  <2>1. out = << >> /\ Len(out) = 0 /\ count = 0
    BY DEF Init
  <2>2. \A f : LinesIn(f) = {}
    BY <2>1 DEF LinesIn
  <2>3. Cardinality(LinesIn(fp)) = 0
    BY <2>2, FS_EmptySet
  <2>4. fp # NoFile => fp[2] = 0
    BY DEF Init, Base, NoFile
  <2>5. fp # NoFile => Before(fp) = 0
    BY <2>4, Constants DEF Before
  <2> QED
    BY <2>1, <2>3, <2>5, Constants DEF ShortInv, ShortFiles, OpenFile
<1> QED
  BY <1>1, DayInit, DayStep, ShortStep, ShortInvImplies, LogAlways, PTL DEF Spec
=============================================================================
