-------------------------- MODULE EventLoopProofs --------------------------
(***************************************************************************)
(* Proofs about the event loop, for any number of descriptors, clients and *)
(* workers and in both concurrency models:                                 *)
(*   - an http_conn, which has no lock, is in one pair of hands at a time; *)
(*     of the timers nothing is used: tick may call back any set of        *)
(*     descriptors;                                                        *)
(*   - in the proactor model a connection and its timer come and go        *)
(*     together, and the counters agree with what they count; of the heap  *)
(*     it is used that push adds its argument, that pop takes its top, and *)
(*     that purge keeps the timers that run, never in which order;         *)
(*   - every variable has its type.                                        *)
(***************************************************************************)
EXTENDS EventLoop, FiniteSetTheorems, SequenceTheorems, WellFoundedInduction, TLAPS

-----------------------------------------------------------------------------
(* The inductive invariant *)

Serving(w) == step[w] \in {"io", "process"}

(* Nobody works on descriptor f or will. *)
Free(f) == /\ \A i \in 1 .. Len(queue) : queue[i].fd # f
           /\ \A w \in Workers : Serving(w) => job[w].fd # f

(* A descriptor is registered exactly while it is open. *)
Kernel == /\ owner \in [Fds -> Clients \cup {NoClient}]
          /\ armed \in [Fds -> {"none", "in", "out", "off"}]
          /\ \A f \in Fds : armed[f] = "none" <=> owner[f] = NoClient

Work == /\ queue \in Seq(Job)
        /\ job \in [Workers -> Job \cup {NoJob}]
        /\ step \in [Workers -> {"idle", "io", "process", "flag"}]
        /\ \A w \in Workers : Serving(w) => job[w] \in Job

Flags == waiting \in Fds /\ timerFlag \in [Fds -> BOOLEAN] /\ overrun \in BOOLEAN

(* A request is served on behalf of the client that sent it. *)
Served == /\ \A i \in 1 .. Len(queue) : owner[queue[i].fd] = queue[i].client
          /\ \A w \in Workers : Serving(w) => owner[job[w].fd] = job[w].client

(* Two of those who work on a descriptor, or an event of it, exclude each  *)
(* other.                                                                  *)
Apart == /\ \A i, j \in 1 .. Len(queue) : queue[i].fd = queue[j].fd => i = j
         /\ \A v, w \in Workers : Serving(v) /\ Serving(w) /\ job[v].fd = job[w].fd => v = w
         /\ \A i \in 1 .. Len(queue), w \in Workers : Serving(w) => queue[i].fd # job[w].fd
         /\ \A f \in Fds : armed[f] \in {"in", "out"} => Free(f)

Single == overrun = FALSE => Served /\ Apart

LoopInv == Kernel /\ Work /\ Flags /\ Single

(* The server has a descriptor. *)
LEMMA LoopConstants == Fds # {} /\ NoClient \notin Clients /\ AnyFd \in Fds
  BY LoopAssumption DEF AnyFd

(* The queue's elements are requests. *)
LEMMA QueueFacts ==
  ASSUME Work
  PROVE  /\ Len(queue) \in Nat /\ DOMAIN queue = 1 .. Len(queue)
         /\ \A i \in 1 .. Len(queue) : queue[i] \in Job
  BY LenProperties, ElementOfSeq DEF Work

-----------------------------------------------------------------------------
(* It implies the property *)

(* A set without two different elements. *)
LEMMA AtMostOne ==
  ASSUME NEW S, \A x, y \in S : x = y
  PROVE  Cardinality(S) <= 1
<1>1. CASE S = {}
  BY <1>1, FS_EmptySet
<1>2. CASE S # {}
  <2>1. PICK x : x \in S
    BY <1>2
  <2>2. S = {x}
    BY <2>1
  <2>3. Cardinality({x}) = 1
    BY FS_Singleton
  <2> QED
    BY <2>2, <2>3
<1> QED
  BY <1>1, <1>2

(* Hands that exclude each other are one pair. *)
LEMMA LoopInvImplies == LoopInv => OneAtATime
<1> SUFFICES ASSUME LoopInv, ~ overrun PROVE /\ \A f \in Fds : Cardinality(Hands(f)) <= 1
                                            /\ \A b \in Busy : owner[b.fd] = b.client
  BY DEF OneAtATime
<1>1. overrun = FALSE
  BY DEF LoopInv, Flags
<1>2. Served /\ Apart
  BY <1>1 DEF LoopInv, Single
<1>3. DOMAIN queue = 1 .. Len(queue)
  BY QueueFacts DEF LoopInv
<1>4. ASSUME NEW f \in Fds PROVE Cardinality(Hands(f)) <= 1
  <2>1. ASSUME NEW x \in Hands(f)
        PROVE  \/ x = <<"epoll", 0>> /\ armed[f] \in {"in", "out"}
               \/ \E i \in 1 .. Len(queue) : x = <<"queue", i>> /\ queue[i].fd = f
               \/ \E w \in Workers : x = <<"worker", w>> /\ Serving(w) /\ job[w].fd = f
    BY <1>3 DEF Hands, Serving
  <2>2. ASSUME NEW x \in Hands(f), NEW y \in Hands(f) PROVE x = y
    <3>1. CASE x = <<"epoll", 0>> /\ armed[f] \in {"in", "out"}
      BY <1>2, <2>1, <3>1 DEF Apart, Free
    <3>2. CASE \E i \in 1 .. Len(queue) : x = <<"queue", i>> /\ queue[i].fd = f
      BY <1>2, <2>1, <3>2 DEF Apart, Free
    <3>3. CASE \E w \in Workers : x = <<"worker", w>> /\ Serving(w) /\ job[w].fd = f
      BY <1>2, <2>1, <3>3 DEF Apart, Free
    <3> QED
      BY <2>1, <3>1, <3>2, <3>3
  <2> QED
    BY <2>2, AtMostOne
<1>5. ASSUME NEW b \in Busy PROVE owner[b.fd] = b.client
  BY <1>2, <1>3 DEF Busy, Served, Serving
<1> QED
  BY <1>4, <1>5

-----------------------------------------------------------------------------
(* It is inductive *)

(* The server starts without connections. *)
LEMMA LoopInit == Init => LoopInv
<1> SUFFICES ASSUME Init PROVE LoopInv
  OBVIOUS
<1>1. Kernel
  BY DEF Init, Kernel
<1>2. Work
  BY DEF Init, Work, Serving
<1>3. Flags
  BY LoopConstants DEF Init, Flags
<1>4. Single
  <2>1. queue = << >> /\ Len(queue) = 0 /\ \A w \in Workers : ~ Serving(w)
    BY DEF Init, Serving
  <2> QED
    BY <2>1 DEF Single, Served, Apart, Free
<1> QED
  BY <1>1, <1>2, <1>3, <1>4 DEF LoopInv

(* A step that touches neither the descriptors nor the work. *)
LEMMA IdleStep ==
  ASSUME LoopInv, UNCHANGED <<kernelVars, workVars>>, overrun' = overrun, Flags'
  PROVE  LoopInv'
<1>1. owner' = owner /\ armed' = armed /\ queue' = queue /\ job' = job /\ step' = step
  BY DEF kernelVars, workVars
<1>2. Kernel' /\ Work'
  BY <1>1 DEF LoopInv, Kernel, Work, Serving
<1>3. Single'
  BY <1>1 DEF LoopInv, Single, Served, Apart, Free, Serving
<1> QED
  BY <1>2, <1>3 DEF LoopInv

(* Closing descriptors on which nobody works. *)
LEMMA CloseStep ==
  ASSUME LoopInv, NEW S, CloseFds(S), UNCHANGED workVars, Flags',
         overrun' = FALSE => overrun = FALSE /\ \A f \in S \cap Fds : Free(f)
  PROVE  LoopInv'
<1>1. queue' = queue /\ job' = job /\ step' = step
  BY DEF workVars
<1>2. /\ \A f \in Fds : owner'[f] = IF f \in S THEN NoClient ELSE owner[f]
      /\ \A f \in Fds : armed'[f] = IF f \in S THEN "none" ELSE armed[f]
  BY DEF CloseFds
<1>3. Kernel'
  <2>1. /\ owner' \in [Fds -> Clients \cup {NoClient}]
        /\ armed' \in [Fds -> {"none", "in", "out", "off"}]
    BY DEF CloseFds, LoopInv, Kernel
  <2>2. \A f \in Fds : armed'[f] = "none" <=> owner'[f] = NoClient
    BY <1>2 DEF LoopInv, Kernel
  <2> QED
    BY <2>1, <2>2 DEF Kernel
<1>4. Work'
  BY <1>1 DEF LoopInv, Work, Serving
<1>5. ASSUME overrun' = FALSE PROVE Served' /\ Apart'
  <2>1. Served /\ Apart /\ \A f \in S \cap Fds : Free(f)
    BY <1>5 DEF LoopInv, Single
  <2>2. \A i \in 1 .. Len(queue) : queue[i].fd \in Fds \ S
    BY <2>1, QueueFacts DEF LoopInv, Free, Job
  <2>3. \A w \in Workers : Serving(w) => job[w].fd \in Fds \ S
    BY <2>1 DEF LoopInv, Work, Free, Job
  <2>4. Served'
    BY <1>1, <1>2, <2>1, <2>2, <2>3 DEF Served, Serving
  <2>5. Apart'
    BY <1>1, <1>2, <2>1 DEF Apart, Free, Serving
  <2> QED
    BY <2>4, <2>5
<1> QED
  BY <1>3, <1>4, <1>5 DEF LoopInv, Single

(* A client is let in on a descriptor that is closed, so that nobody works *)
(* on it.                                                                  *)
LEMMA AcceptStep ==
  ASSUME LoopInv, NEW f \in Fds, NEW c \in Clients, Accept(f, c)
  PROVE  LoopInv'
<1>1. /\ owner[f] = NoClient /\ owner' = [owner EXCEPT ![f] = c] /\ armed' = [armed EXCEPT ![f] = "in"]
      /\ timerFlag' = [timerFlag EXCEPT ![f] = FALSE]
      /\ queue' = queue /\ job' = job /\ step' = step /\ waiting' = waiting /\ overrun' = overrun
  BY DEF Accept, workVars, mainVars, historyVars
<1>2. /\ \A g \in Fds : owner'[g] = IF g = f THEN c ELSE owner[g]
      /\ \A g \in Fds : armed'[g] = IF g = f THEN "in" ELSE armed[g]
  BY <1>1 DEF LoopInv, Kernel
<1>3. Kernel'
  <2>1. /\ owner' \in [Fds -> Clients \cup {NoClient}]
        /\ armed' \in [Fds -> {"none", "in", "out", "off"}]
    BY <1>1 DEF LoopInv, Kernel
  <2>2. \A g \in Fds : armed'[g] = "none" <=> owner'[g] = NoClient
    BY <1>2, LoopConstants DEF LoopInv, Kernel
  <2> QED
    BY <2>1, <2>2 DEF Kernel
<1>4. Work'
  BY <1>1 DEF LoopInv, Work, Serving
<1>5. Flags'
  BY <1>1 DEF LoopInv, Flags
<1>6. ASSUME overrun' = FALSE PROVE Served' /\ Apart'
  <2>1. Served /\ Apart
    BY <1>1, <1>6 DEF LoopInv, Single
  <2>2. \A i \in 1 .. Len(queue) : queue[i].fd \in Fds \ {f}
    <3>1. \A i \in 1 .. Len(queue) : queue[i].fd \in Fds /\ queue[i].client \in Clients
      BY QueueFacts DEF LoopInv, Job
    <3> QED
      BY <1>1, <2>1, <3>1, LoopConstants DEF Served
  <2>3. \A w \in Workers : Serving(w) => job[w].fd \in Fds \ {f}
    <3>1. \A w \in Workers : Serving(w) => job[w].fd \in Fds /\ job[w].client \in Clients
      BY DEF LoopInv, Work, Job
    <3> QED
      BY <1>1, <2>1, <3>1, LoopConstants DEF Served
  <2>4. Served'
    BY <1>1, <1>2, <2>1, <2>2, <2>3 DEF Served, Serving
  <2>5. Apart'
    BY <1>1, <1>2, <2>1, <2>2, <2>3 DEF Apart, Free, Serving
  <2> QED
    BY <2>4, <2>5
<1> QED
  BY <1>3, <1>4, <1>5, <1>6 DEF LoopInv, Single

(* The event awaited on a descriptor that is registered changes, and       *)
(* nobody works on it.                                                     *)
LEMMA ArmStep ==
  ASSUME LoopInv, NEW f \in Fds, armed[f] # "none", NEW event \in {"in", "out", "off"},
         armed' = [armed EXCEPT ![f] = event], owner' = owner, UNCHANGED workVars,
         overrun' = overrun, Flags', overrun = FALSE => Free(f)
  PROVE  LoopInv'
<1>1. queue' = queue /\ job' = job /\ step' = step
  BY DEF workVars
<1>2. \A g \in Fds : armed'[g] = IF g = f THEN event ELSE armed[g]
  BY DEF LoopInv, Kernel
<1>3. Kernel'
  <2>1. armed' \in [Fds -> {"none", "in", "out", "off"}]
    BY DEF LoopInv, Kernel
  <2>2. \A g \in Fds : armed'[g] = "none" <=> owner'[g] = NoClient
    BY <1>2 DEF LoopInv, Kernel
  <2> QED
    BY <2>1, <2>2 DEF LoopInv, Kernel
<1>4. Work'
  BY <1>1 DEF LoopInv, Work, Serving
<1>5. ASSUME overrun' = FALSE PROVE Served' /\ Apart'
  <2>1. Served /\ Apart /\ Free(f)
    BY <1>5 DEF LoopInv, Single
  <2>2. Served'
    BY <1>1, <2>1 DEF Served, Serving
  <2>3. Apart'
    BY <1>1, <1>2, <2>1 DEF Apart, Free, Serving
  <2> QED
    BY <2>2, <2>3
<1> QED
  BY <1>3, <1>4, <1>5 DEF LoopInv, Single

(* An event is reported and the request put into the queue, unless that is *)
(* full.                                                                   *)
LEMMA EnqueueStep ==
  ASSUME LoopInv, NEW f \in Fds, NEW event \in {"in", "out"}, armed[f] = event, OneShot(f),
         queue' = Enqueued(f, event), job' = job, step' = step, overrun' = overrun, Flags'
  PROVE  LoopInv'
<1>1. armed' = [armed EXCEPT ![f] = "off"] /\ owner' = owner
  BY DEF OneShot, Rearmed
<1>2. overrun = FALSE => Served /\ Apart /\ Free(f)
  BY DEF LoopInv, Single, Apart
<1>3. CASE queue' = queue
  BY <1>1, <1>2, <1>3, ArmStep DEF workVars
<1> DEFINE r == [fd |-> f, io |-> event, client |-> owner[f]]
<1>4. CASE queue' = Append(queue, r)
  <2>1. r \in Job /\ r.fd = f /\ r.client = owner[f]
    BY DEF Job, LoopInv, Kernel
  <2> HIDE DEF r
  <2>2. /\ queue \in Seq(Job) /\ Len(queue) \in Nat
        /\ \A i \in 1 .. Len(queue) : queue[i] \in Job
    BY QueueFacts DEF LoopInv, Work
  <2>3. /\ queue' \in Seq(Job) /\ Len(queue') = Len(queue) + 1 /\ queue'[Len(queue) + 1] = r
        /\ \A i \in 1 .. Len(queue) : queue'[i] = queue[i]
    BY <1>4, <2>1, <2>2, AppendProperties
  <2>4. \A i \in 1 .. Len(queue') :
           \/ i = Len(queue) + 1 /\ queue'[i] = r
           \/ i \in 1 .. Len(queue) /\ queue'[i] = queue[i]
    <3> SUFFICES ASSUME NEW i \in 1 .. Len(queue')
                 PROVE  \/ i = Len(queue) + 1 /\ queue'[i] = r
                        \/ i \in 1 .. Len(queue) /\ queue'[i] = queue[i]
      OBVIOUS
    <3>1. i = Len(queue) + 1 \/ i \in 1 .. Len(queue)
      BY <2>2, <2>3
    <3>2. CASE i = Len(queue) + 1
      BY <2>3, <3>2
    <3>3. CASE i \in 1 .. Len(queue)
      BY <2>3, <3>3
    <3> QED
      BY <3>1, <3>2, <3>3
  <2>5. \A g \in Fds : armed'[g] = IF g = f THEN "off" ELSE armed[g]
    BY <1>1 DEF LoopInv, Kernel
  <2>6. Kernel'
    <3>1. armed' \in [Fds -> {"none", "in", "out", "off"}]
      BY <1>1 DEF LoopInv, Kernel
    <3>2. \A g \in Fds : armed'[g] = "none" <=> owner'[g] = NoClient
      BY <1>1, <2>5 DEF LoopInv, Kernel
    <3> QED
      BY <1>1, <3>1, <3>2 DEF LoopInv, Kernel
  <2>7. Work'
    BY <2>3 DEF LoopInv, Work, Serving
  <2>8. ASSUME overrun' = FALSE PROVE Served' /\ Apart'
    <3>1. Served /\ Apart /\ Free(f)
      BY <1>2, <2>8
    <3>2. Served'
      BY <1>1, <2>1, <2>4, <3>1 DEF Served, Serving
    <3>3. \A i, j \in 1 .. Len(queue') : queue'[i].fd = queue'[j].fd => i = j
      BY <2>1, <2>4, <3>1 DEF Apart, Free
    <3>4. \A i \in 1 .. Len(queue'), w \in Workers : Serving(w) => queue'[i].fd # job[w].fd
      BY <2>1, <2>4, <3>1 DEF Apart, Free
    <3>5. \A g \in Fds : armed'[g] \in {"in", "out"} => Free(g)'
      BY <2>1, <2>4, <2>5, <3>1 DEF Apart, Free, Serving
    <3>6. Apart'
      BY <3>1, <3>3, <3>4, <3>5 DEF Apart, Serving
    <3> QED
      BY <3>2, <3>6
  <2> QED
    BY <2>6, <2>7, <2>8 DEF LoopInv, Single
<1> QED
  BY <1>3, <1>4 DEF Enqueued

(* A worker takes the oldest request. *)
LEMMA FetchStep ==
  ASSUME LoopInv, NEW w \in Workers, Fetch(w)
  PROVE  LoopInv'
<1> DEFINE next == IF mode = "proactor" THEN "process" ELSE "io"
<1>1. /\ step[w] = "idle" /\ queue # << >> /\ job' = [job EXCEPT ![w] = Head(queue)]
      /\ queue' = Tail(queue) /\ step' = [step EXCEPT ![w] = next]
      /\ owner' = owner /\ armed' = armed /\ waiting' = waiting /\ timerFlag' = timerFlag
      /\ overrun' = overrun
  BY DEF Fetch, kernelVars, mainVars, flagVars, historyVars
<1>2. next \in {"io", "process"}
  OBVIOUS
<1> HIDE DEF next
<1>3. /\ queue \in Seq(Job) /\ Len(queue) \in Nat /\ Len(queue) > 0
      /\ \A i \in 1 .. Len(queue) : queue[i] \in Job
  BY <1>1, QueueFacts, EmptySeq DEF LoopInv, Work
<1>4. /\ queue' \in Seq(Job) /\ Len(queue') = Len(queue) - 1
      /\ \A i \in 1 .. Len(queue') : queue'[i] = queue[i + 1]
  BY <1>1, <1>3, HeadTailProperties
<1>5. Head(queue) = queue[1] /\ 1 \in 1 .. Len(queue) /\ Head(queue) \in Job
  BY <1>1, <1>3
<1>6. \A i \in 1 .. Len(queue') : i + 1 \in 1 .. Len(queue) /\ i + 1 # 1 /\ i \in Int
  BY <1>3, <1>4
<1>7. /\ \A v \in Workers : job'[v] = IF v = w THEN queue[1] ELSE job[v]
      /\ \A v \in Workers : Serving(v)' <=> v = w \/ Serving(v)
      /\ ~ Serving(w)
  BY <1>1, <1>2, <1>5 DEF LoopInv, Work, Serving
<1>8. Kernel' /\ Flags'
  BY <1>1 DEF LoopInv, Kernel, Flags
<1>9. Work'
  <2>1. /\ job' \in [Workers -> Job \cup {NoJob}]
        /\ step' \in [Workers -> {"idle", "io", "process", "flag"}]
    BY <1>1, <1>2, <1>5 DEF LoopInv, Work
  <2>2. \A v \in Workers : Serving(v)' => job'[v] \in Job
    BY <1>5, <1>7 DEF LoopInv, Work
  <2> QED
    BY <1>4, <2>1, <2>2 DEF Work
<1>10. ASSUME overrun' = FALSE PROVE Served' /\ Apart'
  <2>1. Served /\ Apart
    BY <1>1, <1>10 DEF LoopInv, Single
  <2>2. Served'
    <3>1. \A i \in 1 .. Len(queue') : owner'[queue'[i].fd] = queue'[i].client
      BY <1>1, <1>4, <1>6, <2>1 DEF Served
    <3>2. \A v \in Workers : Serving(v)' => owner'[job'[v].fd] = job'[v].client
      BY <1>1, <1>5, <1>7, <2>1 DEF Served
    <3> QED
      BY <3>1, <3>2 DEF Served
  <2>3. \A i, j \in 1 .. Len(queue') : queue'[i].fd = queue'[j].fd => i = j
    <3> SUFFICES ASSUME NEW i \in 1 .. Len(queue'), NEW j \in 1 .. Len(queue'),
                        queue'[i].fd = queue'[j].fd
                 PROVE  i = j
      OBVIOUS
    <3>1. i + 1 = j + 1
      BY <1>4, <1>6, <2>1 DEF Apart
    <3> QED
      BY <1>6, <3>1
  <2>4. \A u, v \in Workers : Serving(u)' /\ Serving(v)' /\ job'[u].fd = job'[v].fd => u = v
    BY <1>5, <1>7, <2>1 DEF Apart
  <2>5. \A i \in 1 .. Len(queue'), v \in Workers : Serving(v)' => queue'[i].fd # job'[v].fd
    <3> SUFFICES ASSUME NEW i \in 1 .. Len(queue'), NEW v \in Workers, Serving(v)'
                 PROVE  queue'[i].fd # job'[v].fd
      OBVIOUS
    <3>1. queue'[i] = queue[i + 1] /\ i + 1 \in 1 .. Len(queue) /\ i + 1 # 1
      BY <1>4, <1>6
    <3>2. CASE v = w
      BY <1>5, <1>7, <2>1, <3>1, <3>2 DEF Apart
    <3>3. CASE v # w
      BY <1>7, <2>1, <3>1, <3>3 DEF Apart
    <3> QED
      BY <3>2, <3>3
  <2>6. \A g \in Fds : armed'[g] \in {"in", "out"} => Free(g)'
    BY <1>1, <1>4, <1>5, <1>6, <1>7, <2>1 DEF Apart, Free
  <2> QED
    BY <2>2, <2>3, <2>4, <2>5, <2>6 DEF Apart
<1> QED
  BY <1>8, <1>9, <1>10 DEF LoopInv, Single

(* A worker goes on with the request that it serves. *)
LEMMA ReadStep ==
  ASSUME LoopInv, NEW w \in Workers, WorkerReads(w)
  PROVE  LoopInv'
<1>1. /\ step[w] = "io" /\ step' = [step EXCEPT ![w] = "process"] /\ job' = job /\ queue' = queue
      /\ owner' = owner /\ armed' = armed /\ waiting' = waiting /\ timerFlag' = timerFlag
      /\ overrun' = overrun
  BY DEF WorkerReads, GoOn, SetImprov, kernelVars, mainVars, historyVars
<1>2. \A v \in Workers : Serving(v)' <=> Serving(v)
  BY <1>1 DEF LoopInv, Work, Serving
<1>3. Kernel' /\ Flags'
  BY <1>1 DEF LoopInv, Kernel, Flags
<1>4. Work'
  BY <1>1, <1>2 DEF LoopInv, Work
<1>5. Single'
  BY <1>1, <1>2 DEF LoopInv, Single, Served, Apart, Free
<1> QED
  BY <1>3, <1>4, <1>5 DEF LoopInv

(* A worker has done with a request, or has none, and may have armed the   *)
(* descriptor before it lets go of it.                                     *)
LEMMA DoneStep ==
  ASSUME LoopInv, NEW w \in Workers, NEW next \in {"idle", "flag"}, GoOn(w, next),
         \/ UNCHANGED kernelVars
         \/ Serving(w) /\ \E event \in {"in", "out"} : ModFd(job[w].fd, event),
         overrun' = overrun, Flags'
  PROVE  LoopInv'
<1>1. /\ step' = [step EXCEPT ![w] = next] /\ queue' = queue /\ owner' = owner
      /\ job' = job \/ job' = [job EXCEPT ![w] = NoJob]
  BY DEF GoOn, ModFd, kernelVars
<1>2. /\ \A v \in Workers : Serving(v)' <=> v # w /\ Serving(v)
      /\ \A v \in Workers : v # w => job'[v] = job[v]
  BY <1>1 DEF LoopInv, Work, Serving
<1>3. Work'
  <2>1. /\ job' \in [Workers -> Job \cup {NoJob}]
        /\ step' \in [Workers -> {"idle", "io", "process", "flag"}]
    BY <1>1 DEF LoopInv, Work
  <2>2. \A v \in Workers : Serving(v)' => job'[v] \in Job
    BY <1>2 DEF LoopInv, Work
  <2> QED
    BY <1>1, <2>1, <2>2 DEF LoopInv, Work
<1>4. ASSUME overrun' = FALSE PROVE /\ Served' /\ Served /\ Apart
                                   /\ \A g \in Fds : Free(g) => Free(g)'
  <2>1. Served /\ Apart
    BY <1>4 DEF LoopInv, Single
  <2>2. Served'
    BY <1>1, <1>2, <2>1 DEF Served
  <2>3. \A g \in Fds : Free(g) => Free(g)'
    BY <1>1, <1>2 DEF Free
  <2> QED
    BY <2>1, <2>2, <2>3
<1>5. ASSUME overrun' = FALSE, \A g \in Fds : armed'[g] \in {"in", "out"} => Free(g)' PROVE Apart'
  <2>1. Apart
    BY <1>4, <1>5
  <2>2. \A i, j \in 1 .. Len(queue') : queue'[i].fd = queue'[j].fd => i = j
    BY <1>1, <2>1 DEF Apart
  <2>3. \A u, v \in Workers : Serving(u)' /\ Serving(v)' /\ job'[u].fd = job'[v].fd => u = v
    BY <1>2, <2>1 DEF Apart
  <2>4. \A i \in 1 .. Len(queue'), v \in Workers : Serving(v)' => queue'[i].fd # job'[v].fd
    BY <1>1, <1>2, <2>1 DEF Apart
  <2> QED
    BY <1>5, <2>2, <2>3, <2>4 DEF Apart
<1>6. CASE armed' = armed
  <2>1. Kernel'
    BY <1>1, <1>6 DEF LoopInv, Kernel
  <2>2. overrun' = FALSE => Apart'
    BY <1>4, <1>5, <1>6 DEF Apart
  <2> QED
    BY <1>3, <1>4, <2>1, <2>2 DEF LoopInv, Single
<1>7. CASE armed' # armed
  <2>1. Serving(w) /\ job[w] \in Job /\ job[w].fd \in Fds
    BY <1>7 DEF kernelVars, LoopInv, Work, Job
  <2>2. PICK event \in {"in", "out"} : ModFd(job[w].fd, event)
    BY <1>7 DEF kernelVars
  <2>3. PICK f \in Fds : f = job[w].fd
    BY <2>1
  <2>4. armed[f] # "none" /\ armed' = [armed EXCEPT ![f] = event]
    BY <1>7, <2>2, <2>3 DEF ModFd
  <2>5. \A g \in Fds : armed'[g] = IF g = f THEN event ELSE armed[g]
    BY <2>4 DEF LoopInv, Kernel
  <2>6. Kernel'
    <3>1. armed' \in [Fds -> {"none", "in", "out", "off"}]
      BY <2>4 DEF LoopInv, Kernel
    <3>2. \A g \in Fds : armed'[g] = "none" <=> owner'[g] = NoClient
      BY <1>1, <2>4, <2>5 DEF LoopInv, Kernel
    <3> QED
      BY <1>1, <3>1, <3>2 DEF LoopInv, Kernel
  <2>7. ASSUME overrun' = FALSE PROVE Apart'
    <3>1. Apart
      BY <1>4, <2>7
    <3>2. Free(f)'
      BY <1>1, <1>2, <2>1, <2>3, <3>1 DEF Apart, Free
    <3>3. \A g \in Fds : armed'[g] \in {"in", "out"} => Free(g)'
      BY <1>4, <2>5, <2>7, <3>1, <3>2 DEF Apart
    <3> QED
      BY <1>5, <2>7, <3>3
  <2> QED
    BY <1>3, <1>4, <2>6, <2>7 DEF LoopInv, Single
<1> QED
  BY <1>6, <1>7

(* A set of descriptors is closed without cutting off a request: nobody    *)
(* works on any of them.                                                   *)
LEMMA NotCutOff ==
  ASSUME LoopInv, overrun = FALSE, NEW S, ~ CutsOff(S), NEW f \in S
  PROVE  Free(f)
<1>1. Served /\ DOMAIN queue = 1 .. Len(queue)
  BY QueueFacts DEF LoopInv, Single
<1>2. ASSUME NEW i \in 1 .. Len(queue), queue[i].fd = f PROVE FALSE
  <2>1. [fd |-> f, client |-> owner[f]] = [fd |-> queue[i].fd, client |-> queue[i].client]
    BY <1>1, <1>2 DEF Served
  <2>2. [fd |-> queue[i].fd, client |-> queue[i].client] \in Busy
    BY <1>1 DEF Busy
  <2> QED
    BY <2>1, <2>2 DEF CutsOff
<1>3. ASSUME NEW w \in Workers, Serving(w), job[w].fd = f PROVE FALSE
  <2>1. [fd |-> f, client |-> owner[f]] = [fd |-> job[w].fd, client |-> job[w].client]
    BY <1>1, <1>3 DEF Served
  <2>2. [fd |-> job[w].fd, client |-> job[w].client] \in Busy
    BY <1>3 DEF Busy, Serving
  <2> QED
    BY <2>1, <2>2 DEF CutsOff
<1> QED
  BY <1>2, <1>3 DEF Free

(* timer_handler. *)
LEMMA TickStep ==
  ASSUME LoopInv, Tick
  PROVE  LoopInv'
<1>1. PICK S : CloseFds(S) /\ overrun' = (overrun \/ CutsOff(S))
  BY DEF Tick
<1>2. waiting' = waiting /\ timerFlag' = timerFlag /\ UNCHANGED workVars
  BY DEF Tick, mainVars, flagVars
<1>3. Flags'
  BY <1>1, <1>2, Zenon DEF LoopInv, Flags
<1>4. ASSUME overrun' = FALSE PROVE overrun = FALSE /\ \A f \in S \cap Fds : Free(f)
  <2>1. overrun = FALSE /\ ~ CutsOff(S)
    BY <1>1, <1>4 DEF LoopInv, Flags
  <2> QED
    BY <2>1, NotCutOff
<1> QED
  BY <1>1, <1>2, <1>3, <1>4, CloseStep

(* wait_improv, with a timer_flag that may be of another request. *)
LEMMA CheckStep ==
  ASSUME LoopInv, CheckTimerFlag
  PROVE  LoopInv'
<1>1. /\ waiting' = AnyFd /\ timerFlag' = [timerFlag EXCEPT ![waiting] = FALSE] /\ UNCHANGED workVars
      /\ overrun' = (overrun \/ (timerFlag[waiting] /\ CutsOff({waiting})))
      /\ IF timerFlag[waiting] THEN DealOldTimer(waiting)
                               ELSE UNCHANGED <<kernelVars, userCount, timerVars>>
  BY DEF CheckTimerFlag
<1>2. overrun' \in BOOLEAN
  BY <1>1, Zenon DEF LoopInv, Flags
<1>3. Flags'
  BY <1>1, <1>2, LoopConstants DEF LoopInv, Flags
<1>4. timerFlag[waiting] \in BOOLEAN /\ overrun \in BOOLEAN
  BY DEF LoopInv, Flags
<1>5. CASE timerFlag[waiting] = TRUE
  <2>1. CloseFds({waiting}) /\ overrun' = (overrun \/ CutsOff({waiting}))
    BY <1>1, <1>5 DEF DealOldTimer
  <2>2. PICK S : S = {waiting}
    OBVIOUS
  <2>3. CloseFds(S) /\ overrun' = (overrun \/ CutsOff(S))
    BY <2>1, <2>2
  <2>4. ASSUME overrun' = FALSE PROVE overrun = FALSE /\ \A f \in S \cap Fds : Free(f)
    <3>1. overrun = FALSE /\ ~ CutsOff(S)
      BY <1>4, <2>3, <2>4
    <3> QED
      BY <3>1, NotCutOff
  <2> QED
    BY <1>1, <1>3, <2>3, <2>4, CloseStep
<1>6. CASE timerFlag[waiting] = FALSE
  <2>1. UNCHANGED kernelVars /\ overrun' = overrun
    BY <1>1, <1>4, <1>6
  <2> QED
    BY <1>1, <1>3, <2>1, IdleStep
<1> QED
  BY <1>4, <1>5, <1>6

(* The steps of the main thread for one descriptor. *)
LEMMA DescriptorStep ==
  ASSUME LoopInv, NEW f \in Fds,
         \/ \E c \in Clients : Accept(f, c)
         \/ Hangup(f) \/ ReadProactor(f) \/ CloseProactor(f)
         \/ \E event \in {"in", "out"} : WriteProactor(f, event) \/ HandOver(f, event)
  PROVE  LoopInv'
<1>1. armed[f] \in {"in", "out"} /\ overrun = FALSE => Free(f)
  BY DEF LoopInv, Single, Apart
<1>2. CASE \E c \in Clients : Accept(f, c)
  BY <1>2, AcceptStep
<1>3. CASE Hangup(f) \/ CloseProactor(f)
  <2>1. /\ armed[f] \in {"in", "out"} /\ CloseFds({f}) /\ UNCHANGED workVars
        /\ waiting' = waiting /\ timerFlag' = timerFlag /\ overrun' = overrun
    BY <1>3 DEF Hangup, CloseProactor, DealTimer, mainVars, flagVars, historyVars
  <2>2. Flags'
    BY <2>1 DEF LoopInv, Flags
  <2>3. overrun' = FALSE => overrun = FALSE /\ \A g \in {f} \cap Fds : Free(g)
    BY <1>1, <2>1
  <2> QED
    BY <2>1, <2>2, <2>3, CloseStep
<1>4. CASE ReadProactor(f)
  <2>1. /\ armed[f] = "in" /\ OneShot(f) /\ queue' = Enqueued(f, "in") /\ job' = job /\ step' = step
        /\ waiting' = waiting /\ timerFlag' = timerFlag /\ overrun' = overrun
    BY <1>4 DEF ReadProactor, Report, mainVars, flagVars, historyVars
  <2>2. Flags'
    BY <2>1 DEF LoopInv, Flags
  <2> QED
    BY <2>1, <2>2, EnqueueStep
<1>5. ASSUME NEW event \in {"in", "out"}, WriteProactor(f, event) PROVE LoopInv'
  <2>1. /\ armed[f] = "out" /\ armed' = [armed EXCEPT ![f] = event] /\ owner' = owner
        /\ UNCHANGED workVars
        /\ waiting' = waiting /\ timerFlag' = timerFlag /\ overrun' = overrun
    BY <1>5 DEF WriteProactor, Report, Rearmed, mainVars, flagVars, historyVars
  <2>2. Flags'
    BY <2>1 DEF LoopInv, Flags
  <2> QED
    BY <1>1, <2>1, <2>2, ArmStep
<1>6. ASSUME NEW event \in {"in", "out"}, HandOver(f, event) PROVE LoopInv'
  <2>1. /\ armed[f] = event /\ OneShot(f) /\ queue' = Enqueued(f, event) /\ job' = job /\ step' = step
        /\ waiting' = f /\ timerFlag' = timerFlag /\ overrun' = overrun
    BY <1>6 DEF HandOver, Report, flagVars, historyVars
  <2>2. Flags'
    BY <2>1 DEF LoopInv, Flags
  <2> QED
    BY <2>1, <2>2, EnqueueStep
<1> QED
  BY <1>2, <1>3, <1>4, <1>5, <1>6

(* The steps of a worker. *)
LEMMA WorkerKeeps ==
  ASSUME LoopInv, NEW w \in Workers, WorkerStep(w)
  PROVE  LoopInv'
<1>1. CASE Fetch(w)
  BY <1>1, FetchStep
<1>2. CASE WorkerReads(w)
  BY <1>2, ReadStep
<1>3. CASE WorkerFails(w)
  <2>1. /\ step[w] = "io" /\ GoOn(w, "flag")
        /\ UNCHANGED kernelVars \/ ModFd(job[w].fd, "in")
        /\ waiting' = waiting /\ timerFlag' = timerFlag /\ overrun' = overrun
    BY <1>3 DEF WorkerFails, SetImprov, mainVars, historyVars
  <2>2. Flags'
    BY <2>1 DEF LoopInv, Flags
  <2> QED
    BY <2>1, <2>2, DoneStep DEF Serving
<1>4. CASE SetTimerFlag(w)
  <2>1. /\ step[w] = "flag" /\ GoOn(w, "idle") /\ UNCHANGED kernelVars
        /\ waiting' = waiting /\ timerFlag' = [timerFlag EXCEPT ![job[w].fd] = TRUE]
        /\ overrun' = overrun
    BY <1>4 DEF SetTimerFlag, mainVars, historyVars
  <2>2. Flags'
    BY <2>1 DEF LoopInv, Flags
  <2> QED
    BY <2>1, <2>2, DoneStep
<1>5. ASSUME NEW event \in {"in", "out"}, WorkerWrites(w, event) PROVE LoopInv'
  <2>1. /\ step[w] = "io" /\ GoOn(w, "idle") /\ ModFd(job[w].fd, event)
        /\ waiting' = waiting /\ overrun' = overrun
        /\ timerFlag' = timerFlag \/ timerFlag' = [timerFlag EXCEPT ![job[w].fd] = FALSE]
    BY <1>5 DEF WorkerWrites, SetImprov, mainVars, historyVars
  <2>2. Flags'
    BY <2>1 DEF LoopInv, Flags
  <2> QED
    BY <2>1, <2>2, DoneStep DEF Serving
<1>6. ASSUME NEW event \in {"in", "out"}, Process(w, event) PROVE LoopInv'
  <2>1. /\ step[w] = "process" /\ GoOn(w, "idle") /\ ModFd(job[w].fd, event)
        /\ waiting' = waiting /\ overrun' = overrun /\ timerFlag' = timerFlag
    BY <1>6 DEF Process, flagVars, mainVars, historyVars
  <2>2. Flags'
    BY <2>1 DEF LoopInv, Flags
  <2> QED
    BY <2>1, <2>2, DoneStep DEF Serving
<1> QED
  BY <1>1, <1>2, <1>3, <1>4, <1>5, <1>6 DEF WorkerStep

(* The invariant is inductive. *)
LEMMA LoopStep == LoopInv /\ [Next]_vars => LoopInv'
<1> SUFFICES ASSUME LoopInv, [Next]_vars PROVE LoopInv'
  OBVIOUS
<1>1. ASSUME UNCHANGED <<kernelVars, workVars>>, overrun' = overrun, waiting' = waiting,
             timerFlag' = timerFlag
      PROVE  LoopInv'
  <2>1. Flags'
    BY <1>1 DEF LoopInv, Flags
  <2> QED
    BY <1>1, <2>1, IdleStep
<1>2. CASE UNCHANGED vars \/ AcceptRefused \/ Stopped
  BY <1>1, <1>2 DEF vars, AcceptRefused, Stopped, mainVars, flagVars, historyVars
<1>3. CASE SeeImprov \/ CallFreedTimer \/ Terminate \/ Pass
  BY <1>1, <1>3 DEF SeeImprov, CallFreedTimer, Terminate, Pass, mainVars, flagVars, historyVars
<1>4. CASE CheckTimerFlag
  BY <1>4, CheckStep
<1>5. CASE Tick
  BY <1>5, TickStep
<1>6. CASE \E w \in Workers : WorkerStep(w)
  BY <1>6, WorkerKeeps
<1>7. ASSUME NEW f \in Fds,
             \/ \E c \in Clients : Accept(f, c)
             \/ Hangup(f) \/ ReadProactor(f) \/ CloseProactor(f)
             \/ \E event \in {"in", "out"} : WriteProactor(f, event) \/ HandOver(f, event)
      PROVE  LoopInv'
  BY <1>7, DescriptorStep
<1> QED
  BY <1>2, <1>3, <1>4, <1>5, <1>6, <1>7 DEF Next, WaitImprov

(* An http_conn is in one pair of hands at a time and every request is     *)
(* served for the client that sent it, in both concurrency models and      *)
(* whatever the timers do, as long as no connection is closed while it is  *)
(* served.                                                                 *)
THEOREM LoopOneAtATime == Spec => []OneAtATime
  BY LoopInit, LoopStep, LoopInvImplies, PTL DEF Spec

-----------------------------------------------------------------------------
(* Counting the elements of a sequence *)

(* A set of numbers has a least one. *)
LEMMA Least ==
  ASSUME NEW T, T \subseteq Nat, T # {}
  PROVE  \E m \in T : \A k \in T : m <= k
<1> DEFINE R == {p \in Nat \X Nat : p[1] < p[2]}
<1>1. IsWellFoundedOn(OpToRel(<, Nat), Nat)
  BY NatLessThanWellFounded
<1>2. R = OpToRel(<, Nat)
  BY Zenon DEF OpToRel
<1>3. IsWellFoundedOn(R, Nat)
  BY <1>1, <1>2, Zenon
<1>4. \E x \in T : \A y \in T : ~ (<<y, x>> \in R)
  <2> HIDE DEF R
  <2> QED
    BY <1>3, WFMin
<1>5. PICK x \in T : \A y \in T : ~ (<<y, x>> \in R)
  BY <1>4
<1>6. ASSUME NEW y \in T PROVE x <= y
  <2>1. x \in Nat /\ y \in Nat
    OBVIOUS
  <2>2. ~ (<<y, x>> \in R)
    BY <1>5
  <2> QED
    BY <2>1, <2>2
<1> QED
  BY <1>6

(* A set that has 0, and with every number the next, has all of them. *)
LEMMA SetInduction ==
  ASSUME NEW S, 0 \in S, \A n \in Nat : n \in S => n + 1 \in S
  PROVE  Nat \subseteq S
<1> SUFFICES ASSUME Nat \ S # {} PROVE FALSE
  OBVIOUS
<1>1. PICK m \in Nat \ S : \A k \in Nat \ S : m <= k
  BY Least
<1>2. m # 0 /\ m - 1 \in Nat
  BY <1>1
<1>3. m - 1 \in S
  BY <1>1, <1>2
<1> QED
  BY <1>1, <1>2, <1>3

One(x, K) == IF x \in K THEN 1 ELSE 0

(* How many of the first k elements of s, or of all of them, are in K. *)
CountTo(s, k, K) == Cardinality({i \in 1 .. k : s[i] \in K})

Count(s, K) == CountTo(s, Len(s), K)

(* One element more. *)
LEMMA CountOneMore ==
  ASSUME NEW s, NEW K, NEW k \in Nat
  PROVE  /\ IsFiniteSet({i \in 1 .. k : s[i] \in K}) /\ CountTo(s, k, K) \in Nat
         /\ CountTo(s, 0, K) = 0
         /\ CountTo(s, k + 1, K) = CountTo(s, k, K) + One(s[k + 1], K)
<1> DEFINE A(n) == {i \in 1 .. n : s[i] \in K}
<1>1. IsFiniteSet(1 .. k)
  BY FS_Interval
<1>2. A(k) \in SUBSET (1 .. k)
  OBVIOUS
<1>3. IsFiniteSet(A(k)) /\ Cardinality(A(k)) \in Nat
  BY <1>1, <1>2, FS_Subset, FS_CardinalityType
<1>4. A(0) = {}
  OBVIOUS
<1>5. CASE s[k + 1] \in K
  <2>1. A(k + 1) = A(k) \cup {k + 1} /\ k + 1 \notin A(k)
    BY <1>5
  <2>2. Cardinality(A(k) \cup {k + 1}) = Cardinality(A(k)) + 1
    BY <1>3, <2>1, FS_AddElement
  <2> QED
    BY <1>3, <1>4, <1>5, <2>1, <2>2, FS_EmptySet DEF CountTo, One
<1>6. CASE s[k + 1] \notin K
  <2>1. A(k + 1) = A(k)
    BY <1>6
  <2> QED
    BY <1>3, <1>4, <1>6, <2>1, FS_EmptySet DEF CountTo, One
<1> QED
  BY <1>5, <1>6

(* Sequences that agree. *)
LEMMA CountSame ==
  ASSUME NEW s, NEW t, NEW K, NEW k \in Nat, \A i \in 1 .. k : s[i] = t[i]
  PROVE  CountTo(s, k, K) = CountTo(t, k, K)
<1>1. {i \in 1 .. k : s[i] \in K} = {i \in 1 .. k : t[i] \in K}
  OBVIOUS
<1> QED
  BY <1>1 DEF CountTo

(* An element is replaced. *)
LEMMA CountExcept ==
  ASSUME NEW T, NEW s \in Seq(T), NEW j \in 1 .. Len(s), NEW x \in T, NEW K
  PROVE  /\ [s EXCEPT ![j] = x] \in Seq(T) /\ Len([s EXCEPT ![j] = x]) = Len(s)
         /\ \A i \in 1 .. Len(s) : [s EXCEPT ![j] = x][i] = IF i = j THEN x ELSE s[i]
         /\ Count([s EXCEPT ![j] = x], K) = (Count(s, K) + One(x, K)) - One(s[j], K)
<1> DEFINE u == [s EXCEPT ![j] = x]
           n == Len(s)
           A == {i \in 1 .. n : s[i] \in K}
           B == {i \in 1 .. n : u[i] \in K}
<1>1. n \in Nat /\ DOMAIN s = 1 .. n
  BY LenProperties
<1>2. /\ u \in Seq(T) /\ Len(u) = n /\ \A i \in 1 .. n : u[i] = IF i = j THEN x ELSE s[i]
  BY ExceptSeq
<1> HIDE DEF u, n
<1>3. IsFiniteSet(A) /\ IsFiniteSet(B) /\ Cardinality(A) \in Nat /\ Cardinality(B) \in Nat
  <2>1. IsFiniteSet(A) /\ CountTo(s, n, K) \in Nat
    BY <1>1, CountOneMore
  <2>2. IsFiniteSet(B) /\ CountTo(u, n, K) \in Nat
    BY <1>1, CountOneMore
  <2> QED
    BY <2>1, <2>2 DEF CountTo
<1>4. Count(s, K) = Cardinality(A) /\ Count(u, K) = Cardinality(B)
  BY <1>2 DEF Count, CountTo, n
<1>5. A \ {j} = B \ {j}
  BY <1>2
<1>6. Cardinality(A \ {j}) = IF j \in A THEN Cardinality(A) - 1 ELSE Cardinality(A)
  BY <1>3, FS_RemoveElement
<1>7. Cardinality(B \ {j}) = IF j \in B THEN Cardinality(B) - 1 ELSE Cardinality(B)
  BY <1>3, FS_RemoveElement
<1>8. (j \in A <=> s[j] \in K) /\ (j \in B <=> x \in K)
  BY <1>2 DEF n
<1> HIDE DEF A, B
<1>9. Cardinality(B) = (Cardinality(A) + One(x, K)) - One(s[j], K)
  <2>1. (IF j \in A THEN Cardinality(A) - 1 ELSE Cardinality(A))
          = (IF j \in B THEN Cardinality(B) - 1 ELSE Cardinality(B))
    BY <1>5, <1>6, <1>7
  <2>2. One(x, K) = (IF j \in B THEN 1 ELSE 0) /\ One(s[j], K) = (IF j \in A THEN 1 ELSE 0)
    BY <1>8 DEF One
  <2> QED
    BY <1>3, <2>1, <2>2
<1> QED
  BY <1>2, <1>4, <1>9 DEF u, n

(* An element is added. *)
LEMMA CountAppend ==
  ASSUME NEW T, NEW s \in Seq(T), NEW x \in T, NEW K
  PROVE  /\ Append(s, x) \in Seq(T) /\ Len(Append(s, x)) = Len(s) + 1
         /\ \A i \in 1 .. Len(s) : Append(s, x)[i] = s[i]
         /\ Append(s, x)[Len(s) + 1] = x
         /\ Count(Append(s, x), K) = Count(s, K) + One(x, K)
<1> DEFINE u == Append(s, x)
           n == Len(s)
<1>1. /\ u \in Seq(T) /\ Len(u) = n + 1 /\ n \in Nat
      /\ \A i \in 1 .. n : u[i] = s[i]
      /\ u[n + 1] = x
  BY AppendProperties, LenProperties
<1> HIDE DEF u, n
<1>2. CountTo(u, n + 1, K) = CountTo(u, n, K) + One(u[n + 1], K)
  BY <1>1, CountOneMore
<1>3. CountTo(u, n, K) = CountTo(s, n, K)
  BY <1>1, CountSame
<1>4. Count(u, K) = Count(s, K) + One(x, K)
  BY <1>1, <1>2, <1>3 DEF Count, n
<1> QED
  BY <1>1, <1>4 DEF u, n

(* Counts are numbers. *)
LEMMA CountType ==
  ASSUME NEW T, NEW s \in Seq(T), NEW K
  PROVE  Count(s, K) \in Nat /\ \A x : One(x, K) \in {0, 1}
  BY CountOneMore, LenProperties DEF Count, One

-----------------------------------------------------------------------------
(* The heap of timers *)

(* The equation of Rise's recursive function, up to n. *)
RiseEq(f, h, t, n) ==
  f = [j \in 1 .. n |-> IF j > 1 /\ h[j \div 2].left > t.left
                          THEN [f[j \div 2] EXCEPT ![j] = h[j \div 2]]
                          ELSE [h EXCEPT ![j] = t]]

(* It has a solution. *)
LEMMA RiseExists ==
  ASSUME NEW h, NEW t, NEW n \in Nat
  PROVE  \E f : RiseEq(f, h, t, n)
<1> DEFINE S == {k \in Nat : \E f : RiseEq(f, h, t, k)}
           Up(j) == j > 1 /\ h[j \div 2].left > t.left
<1>1. 0 \in S
  <2>1. RiseEq([i \in 1 .. 0 |-> i], h, t, 0)
    BY DEF RiseEq
  <2> QED
    BY <2>1
<1>2. ASSUME NEW k \in Nat, k \in S PROVE k + 1 \in S
  <2>1. PICK f : RiseEq(f, h, t, k)
    BY <1>2
  <2>2. \A j \in 1 .. k : f[j] = IF Up(j) THEN [f[j \div 2] EXCEPT ![j] = h[j \div 2]]
                                          ELSE [h EXCEPT ![j] = t]
    BY <2>1 DEF RiseEq
  <2> DEFINE last == IF Up(k + 1) THEN [f[(k + 1) \div 2] EXCEPT ![k + 1] = h[(k + 1) \div 2]]
                                  ELSE [h EXCEPT ![k + 1] = t]
             g == [j \in 1 .. k + 1 |-> IF j = k + 1 THEN last ELSE f[j]]
  <2> HIDE DEF last
  <2>3. \A j \in 1 .. k : g[j] = f[j]
    OBVIOUS
  <2>4. g[k + 1] = last
    OBVIOUS
  <2>5. \A j \in 1 .. k + 1 : j > 1 => j \div 2 \in 1 .. k
    OBVIOUS
  <2>6. DOMAIN g = 1 .. k + 1 /\ g = [j \in 1 .. k + 1 |-> g[j]]
    OBVIOUS
  <2> HIDE DEF g
  <2>7. ASSUME NEW j \in 1 .. k + 1
        PROVE  g[j] = IF Up(j) THEN [g[j \div 2] EXCEPT ![j] = h[j \div 2]]
                               ELSE [h EXCEPT ![j] = t]
    <3>1. Up(j) => g[j \div 2] = f[j \div 2]
      BY <2>3, <2>5
    <3>2. CASE j = k + 1
      <4>1. g[j] = IF Up(j) THEN [f[j \div 2] EXCEPT ![j] = h[j \div 2]]
                            ELSE [h EXCEPT ![j] = t]
        BY <2>4, <3>2 DEF last
      <4> HIDE DEF Up
      <4> QED
        BY <3>1, <4>1
    <3>3. CASE j # k + 1
      <4>1. j \in 1 .. k
        BY <3>3
      <4>2. g[j] = IF Up(j) THEN [f[j \div 2] EXCEPT ![j] = h[j \div 2]]
                            ELSE [h EXCEPT ![j] = t]
        BY <2>2, <2>3, <4>1
      <4> HIDE DEF Up
      <4> QED
        BY <3>1, <4>2
    <3> QED
      BY <3>2, <3>3
  <2>8. RiseEq(g, h, t, k + 1)
    BY <2>6, <2>7, Zenon DEF RiseEq
  <2> QED
    BY <2>8
<1> HIDE DEF S
<1>3. n \in S
  BY <1>1, <1>2, SetInduction
<1> QED
  BY <1>3 DEF S

(* t rises from the place i: it takes the place of what was there, and     *)
(* everything else stays in the heap.                                      *)
LEMMA RiseCounts ==
  ASSUME NEW T, NEW h \in Seq(T), NEW i \in 1 .. Len(h), NEW t \in T
  PROVE  /\ Rise(h, i, t) \in Seq(T) /\ Len(Rise(h, i, t)) = Len(h)
         /\ \A K : Count(Rise(h, i, t), K) = (Count(h, K) + One(t, K)) - One(h[i], K)
<1> DEFINE n == Len(h)
           F == CHOOSE f : RiseEq(f, h, t, n)
<1>1. n \in Nat /\ \A j \in 1 .. n : h[j] \in T
  BY LenProperties, ElementOfSeq
<1>2. RiseEq(F, h, t, n)
  <2>1. \E f : RiseEq(f, h, t, n)
    BY <1>1, RiseExists
  <2> QED
    BY <2>1
<1>3. Rise(h, i, t) = F[i]
  BY DEF Rise, RiseEq
<1> HIDE DEF F
<1>4. \A j \in 1 .. n : F[j] = IF j > 1 /\ h[j \div 2].left > t.left
                                 THEN [F[j \div 2] EXCEPT ![j] = h[j \div 2]]
                                 ELSE [h EXCEPT ![j] = t]
  BY <1>2 DEF RiseEq
<1> DEFINE Good(j) == /\ F[j] \in Seq(T) /\ Len(F[j]) = n
                      /\ \A q \in j + 1 .. n : F[j][q] = h[q]
                      /\ \A K : Count(F[j], K) = (Count(h, K) + One(t, K)) - One(h[j], K)
           S == {k \in Nat : \A j \in 1 .. n : j <= k => Good(j)}
<1>5. ASSUME NEW j \in 1 .. n, ~ (j > 1 /\ h[j \div 2].left > t.left) PROVE Good(j)
  <2>1. F[j] = [h EXCEPT ![j] = t]
    BY <1>4, <1>5
  <2>2. \A q \in j + 1 .. n : q \in 1 .. n /\ q # j
    BY <1>1
  <2> QED
    BY <2>1, <2>2, CountExcept
<1>6. ASSUME NEW j \in 1 .. n, j > 1, h[j \div 2].left > t.left, Good(j \div 2) PROVE Good(j)
  <2> DEFINE p == j \div 2
  <2>1. p \in 1 .. j - 1 /\ p \in 1 .. n /\ j \in p + 1 .. n
    BY <1>1, <1>6
  <2>2. F[j] = [F[p] EXCEPT ![j] = h[p]] /\ Good(p)
    BY <1>4, <1>6
  <2> HIDE DEF p
  <2>3. F[p] \in Seq(T) /\ j \in 1 .. Len(F[p]) /\ h[p] \in T /\ F[p][j] = h[j]
    BY <1>1, <2>1, <2>2
  <2>4. /\ F[j] \in Seq(T) /\ Len(F[j]) = n
        /\ \A q \in 1 .. n : F[j][q] = IF q = j THEN h[p] ELSE F[p][q]
    BY <2>2, <2>3, CountExcept
  <2>5. ASSUME NEW q \in j + 1 .. n PROVE F[j][q] = h[q]
    <3>1. q \in 1 .. n /\ q # j /\ q \in p + 1 .. n
      BY <1>1, <2>1
    <3> QED
      BY <2>2, <2>4, <3>1
  <2>6. ASSUME NEW K PROVE Count(F[j], K) = (Count(h, K) + One(t, K)) - One(h[j], K)
    <3>1. Count(F[j], K) = (Count(F[p], K) + One(h[p], K)) - One(h[j], K)
      BY <2>2, <2>3, CountExcept
    <3>2. Count(F[p], K) = (Count(h, K) + One(t, K)) - One(h[p], K)
      BY <2>2
    <3>3. Count(h, K) \in Nat /\ One(h[p], K) \in {0, 1} /\ One(h[j], K) \in {0, 1}
          /\ One(t, K) \in {0, 1}
      BY CountType
    <3> QED
      BY <3>1, <3>2, <3>3
  <2> QED
    BY <2>4, <2>5, <2>6
<1> HIDE DEF Good
<1>7. 0 \in S
  BY <1>1
<1>8. ASSUME NEW k \in Nat, k \in S PROVE k + 1 \in S
  <2> SUFFICES ASSUME NEW j \in 1 .. n, j <= k + 1 PROVE Good(j)
    OBVIOUS
  <2>1. CASE j > 1 /\ h[j \div 2].left > t.left
    <3>1. j \div 2 \in 1 .. n /\ j \div 2 <= k
      BY <1>1, <2>1
    <3>2. Good(j \div 2)
      BY <1>8, <3>1
    <3> QED
      BY <1>6, <2>1, <3>2
  <2> QED
    BY <1>5, <2>1
<1> HIDE DEF S
<1>9. n \in S
  BY <1>1, <1>7, <1>8, SetInduction
<1>10. Good(i)
  BY <1>1, <1>9 DEF S
<1> QED
  BY <1>3, <1>10 DEF Good

(* priority_queue::push *)
LEMMA PushCounts ==
  ASSUME NEW T, NEW h \in Seq(T), NEW t \in T
  PROVE  /\ PushHeap(h, t) \in Seq(T) /\ Len(PushHeap(h, t)) = Len(h) + 1
         /\ \A K : Count(PushHeap(h, t), K) = Count(h, K) + One(t, K)
<1> DEFINE a == Append(h, t)
           n == Len(h)
<1>1. n \in Nat /\ a \in Seq(T) /\ Len(a) = n + 1 /\ a[n + 1] = t
      /\ \A K : Count(a, K) = Count(h, K) + One(t, K)
  BY CountAppend, LenProperties
<1>2. PushHeap(h, t) = Rise(a, n + 1, t)
  BY DEF PushHeap
<1> HIDE DEF a, n
<1>3. n + 1 \in 1 .. Len(a)
  BY <1>1
<1>4. /\ Rise(a, n + 1, t) \in Seq(T) /\ Len(Rise(a, n + 1, t)) = Len(a)
      /\ \A K : Count(Rise(a, n + 1, t), K) = (Count(a, K) + One(t, K)) - One(a[n + 1], K)
  <2>1. a \in Seq(T)
    BY <1>1
  <2> QED
    BY <1>3, <2>1, RiseCounts
<1>5. ASSUME NEW K PROVE Count(PushHeap(h, t), K) = Count(h, K) + One(t, K)
  <2>1. Count(a, K) \in Nat /\ One(t, K) \in {0, 1} /\ Count(h, K) \in Nat
    BY <1>1, CountType
  <2>2. Count(PushHeap(h, t), K) = (Count(a, K) + One(t, K)) - One(t, K)
    BY <1>1, <1>2, <1>4
  <2> QED
    BY <1>1, <2>1, <2>2
<1> QED
  BY <1>1, <1>2, <1>4, <1>5 DEF n

(* The child to which PopHeap's hole sinks. *)
Child(r, n, j) == IF 2 * j + 1 <= n /\ r[2 * j + 1].left <= r[2 * j].left
                    THEN 2 * j + 1 ELSE 2 * j

(* The equations of PopHeap's recursive functions. *)
BottomEq(f, r, n) == f = [j \in 1 .. n |-> IF 2 * j <= n THEN f[Child(r, n, j)] ELSE j]

SinkEq(f, r, n) ==
  f = [j \in 1 .. n |-> IF 2 * j <= n THEN [f[Child(r, n, j)] EXCEPT ![j] = r[Child(r, n, j)]]
                                      ELSE r]

(* A child is below its parent. *)
LEMMA ChildBelow ==
  ASSUME NEW r, NEW n \in Nat, NEW j \in 1 .. n, 2 * j <= n
  PROVE  Child(r, n, j) \in j + 1 .. n /\ Child(r, n, j) \in 1 .. n /\ Child(r, n, j) > j
<1>1. CASE 2 * j + 1 <= n /\ r[2 * j + 1].left <= r[2 * j].left
  BY <1>1 DEF Child
<1>2. CASE ~ (2 * j + 1 <= n /\ r[2 * j + 1].left <= r[2 * j].left)
  BY <1>2 DEF Child
<1> QED
  BY <1>1, <1>2

(* They have solutions: from the bottom of the heap upwards. *)
LEMMA BottomExists ==
  ASSUME NEW r, NEW n \in Nat
  PROVE  \E f : BottomEq(f, r, n)
<1> DEFINE C(j) == Child(r, n, j)
           Solves(f, k) == \A j \in 1 .. n : j + k > n => f[j] = IF 2 * j <= n THEN f[C(j)] ELSE j
           S == {k \in Nat : \E f : /\ f = [j \in 1 .. n |-> f[j]]
                                    /\ Solves(f, k)}
<1>0. \A j \in 1 .. n : 2 * j <= n => C(j) \in 1 .. n /\ C(j) > j
  BY ChildBelow
<1> HIDE DEF C
<1>1. 0 \in S
  <2> DEFINE g == [j \in 1 .. n |-> j]
  <2>1. g = [j \in 1 .. n |-> g[j]] /\ Solves(g, 0)
    OBVIOUS
  <2> QED
    BY <2>1
<1>2. ASSUME NEW k \in Nat, k \in S PROVE k + 1 \in S
  <2>1. PICK f : f = [j \in 1 .. n |-> f[j]] /\ Solves(f, k)
    BY <1>2
  <2> DEFINE g == [j \in 1 .. n |-> IF j + k = n THEN (IF 2 * j <= n THEN f[C(j)] ELSE j) ELSE f[j]]
  <2>2. g = [j \in 1 .. n |-> g[j]]
    OBVIOUS
  <2>3. \A j \in 1 .. n : j + k # n => g[j] = f[j]
    OBVIOUS
  <2>4. \A j \in 1 .. n : j + k = n => g[j] = IF 2 * j <= n THEN f[C(j)] ELSE j
    OBVIOUS
  <2> HIDE DEF g
  <2>5. ASSUME NEW j \in 1 .. n, j + (k + 1) > n
        PROVE  g[j] = IF 2 * j <= n THEN g[C(j)] ELSE j
    <3>1. j + k >= n
      BY <2>5
    <3>2. 2 * j <= n => g[C(j)] = f[C(j)]
      BY <1>0, <2>3, <3>1
    <3>3. CASE j + k = n
      BY <2>4, <3>2, <3>3
    <3>4. CASE j + k # n
      <4>1. j + k > n
        BY <3>1, <3>4
      <4> QED
        BY <2>1, <2>3, <3>2, <3>4, <4>1
    <3> QED
      BY <3>3, <3>4
  <2>6. Solves(g, k + 1)
    BY <2>5
  <2>7. k + 1 \in Nat /\ \E u : u = [j \in 1 .. n |-> u[j]] /\ Solves(u, k + 1)
    <3> HIDE DEF Solves
    <3> QED
      BY <2>2, <2>6
  <2> QED
    BY <2>7
<1>3. n \in S
  <2> HIDE DEF S
  <2> QED
    BY <1>1, <1>2, SetInduction
<1>4. PICK f : f = [j \in 1 .. n |-> f[j]] /\ Solves(f, n)
  BY <1>3
<1>5. \A j \in 1 .. n : f[j] = IF 2 * j <= n THEN f[C(j)] ELSE j
  <2>1. \A j \in 1 .. n : j + n > n
    OBVIOUS
  <2>2. Solves(f, n)
    BY <1>4
  <2> QED
    BY <2>1, <2>2
<1>6. f = [j \in 1 .. n |-> IF 2 * j <= n THEN f[C(j)] ELSE j]
  BY <1>4, <1>5
<1> QED
  BY <1>6 DEF BottomEq, C

(* The same for the heap with the hole sunk. *)
LEMMA SinkExists ==
  ASSUME NEW r, NEW n \in Nat
  PROVE  \E f : SinkEq(f, r, n)
<1> DEFINE C(j) == Child(r, n, j)
           Put(s, j) == [s EXCEPT ![j] = r[C(j)]]
           Solves(f, k) == \A j \in 1 .. n : j + k > n => f[j] = IF 2 * j <= n THEN Put(f[C(j)], j) ELSE r
           S == {k \in Nat : \E f : /\ f = [j \in 1 .. n |-> f[j]]
                                    /\ Solves(f, k)}
<1>0. \A j \in 1 .. n : 2 * j <= n => C(j) \in 1 .. n /\ C(j) > j
  BY ChildBelow
<1> HIDE DEF C, Put
<1>1. 0 \in S
  <2> DEFINE g == [j \in 1 .. n |-> j]
  <2>1. g = [j \in 1 .. n |-> g[j]] /\ Solves(g, 0)
    OBVIOUS
  <2> QED
    BY <2>1
<1>2. ASSUME NEW k \in Nat, k \in S PROVE k + 1 \in S
  <2>1. PICK f : f = [j \in 1 .. n |-> f[j]] /\ Solves(f, k)
    BY <1>2
  <2> DEFINE g == [j \in 1 .. n |-> IF j + k = n THEN (IF 2 * j <= n THEN Put(f[C(j)], j) ELSE r)
                                               ELSE f[j]]
  <2>2. g = [j \in 1 .. n |-> g[j]]
    OBVIOUS
  <2>3. \A j \in 1 .. n : j + k # n => g[j] = f[j]
    OBVIOUS
  <2>4. \A j \in 1 .. n : j + k = n => g[j] = IF 2 * j <= n THEN Put(f[C(j)], j) ELSE r
    OBVIOUS
  <2> HIDE DEF g
  <2>5. ASSUME NEW j \in 1 .. n, j + (k + 1) > n
        PROVE  g[j] = IF 2 * j <= n THEN Put(g[C(j)], j) ELSE r
    <3>1. j + k >= n
      BY <2>5
    <3>2. 2 * j <= n => g[C(j)] = f[C(j)]
      BY <1>0, <2>3, <3>1
    <3>3. CASE j + k = n
      BY <2>4, <3>2, <3>3
    <3>4. CASE j + k # n
      <4>1. j + k > n
        BY <3>1, <3>4
      <4> QED
        BY <2>1, <2>3, <3>2, <3>4, <4>1
    <3> QED
      BY <3>3, <3>4
  <2>6. Solves(g, k + 1)
    BY <2>5
  <2>7. k + 1 \in Nat /\ \E u : u = [j \in 1 .. n |-> u[j]] /\ Solves(u, k + 1)
    <3> HIDE DEF Solves
    <3> QED
      BY <2>2, <2>6
  <2> QED
    BY <2>7
<1>3. n \in S
  <2> HIDE DEF S
  <2> QED
    BY <1>1, <1>2, SetInduction
<1>4. PICK f : f = [j \in 1 .. n |-> f[j]] /\ Solves(f, n)
  BY <1>3
<1>5. \A j \in 1 .. n : f[j] = IF 2 * j <= n THEN Put(f[C(j)], j) ELSE r
  BY <1>4
<1>6. f = [j \in 1 .. n |-> IF 2 * j <= n THEN Put(f[C(j)], j) ELSE r]
  BY <1>4, <1>5
<1> QED
  BY <1>6, Zenon DEF SinkEq, C, Put

(* priority_queue::pop takes the top of the heap and nothing else. *)
LEMMA PopCounts ==
  ASSUME NEW T, NEW h \in Seq(T), Len(h) >= 1
  PROVE  /\ PopHeap(h) \in Seq(T) /\ Len(PopHeap(h)) = Len(h) - 1
         /\ \A K : Count(PopHeap(h), K) + One(h[1], K) = Count(h, K)
<1> DEFINE n == Len(h) - 1
           r == SubSeq(h, 1, n)
           B == CHOOSE f : BottomEq(f, r, n)
           F == CHOOSE f : SinkEq(f, r, n)
<1>1. /\ n \in Nat /\ Len(h) = n + 1 /\ h[1] \in T /\ h[n + 1] \in T
      /\ \A j \in 1 .. n : h[j] \in T
  BY LenProperties, ElementOfSeq
<1>2. /\ r \in Seq(T) /\ Len(r) = n
      /\ \A j \in 1 .. n : r[j] = h[j] /\ r[j] \in T
  <2>1. \A j \in 1 .. n : j \in 1 .. Len(h)
    BY <1>1
  <2>2. 1 <= Len(h) /\ n \in 0 .. Len(h)
    BY <1>1
  <2>3. r \in Seq(T) /\ Len(r) = n /\ \A j \in 1 .. n : r[j] = h[j]
    <3> HIDE DEF n
    <3> QED
      BY <1>1, <2>1, SMT
  <2> QED
    BY <1>1, <2>3
<1>3. \A K : Count(h, K) = Count(r, K) + One(h[n + 1], K)
  <2>1. ASSUME NEW K PROVE Count(h, K) = Count(r, K) + One(h[n + 1], K)
    <3> HIDE DEF n, r
    <3>1. CountTo(h, n + 1, K) = CountTo(h, n, K) + One(h[n + 1], K)
      BY <1>1, CountOneMore
    <3>2. CountTo(h, n, K) = CountTo(r, n, K)
      BY <1>1, <1>2, CountSame
    <3> QED
      BY <1>1, <1>2, <3>1, <3>2 DEF Count
  <2> QED
    BY <2>1
<1>4. BottomEq(B, r, n) /\ SinkEq(F, r, n)
  <2>1. \E f : BottomEq(f, r, n)
    BY <1>1, BottomExists
  <2>2. \E f : SinkEq(f, r, n)
    BY <1>1, SinkExists
  <2> QED
    BY <2>1, <2>2
<1>5. PopHeap(h) = IF n = 0 THEN << >> ELSE Rise(F[1], B[1], h[n + 1])
  BY DEF PopHeap, BottomEq, SinkEq, Child
<1> HIDE DEF B, F, r, n
<1>6. \A j \in 1 .. n : B[j] = IF 2 * j <= n THEN B[Child(r, n, j)] ELSE j
  BY <1>4 DEF BottomEq
<1>7. \A j \in 1 .. n : F[j] = IF 2 * j <= n
                                 THEN [F[Child(r, n, j)] EXCEPT ![j] = r[Child(r, n, j)]]
                                 ELSE r
  BY <1>4 DEF SinkEq
<1> DEFINE Good(j) == /\ F[j] \in Seq(T) /\ Len(F[j]) = n /\ B[j] \in j .. n
                      /\ \A q \in 1 .. j : F[j][q] = r[q] \/ q = j
                      /\ \A K : Count(F[j], K) + One(r[j], K) = Count(r, K) + One(F[j][B[j]], K)
           S == {k \in Nat : \A j \in 1 .. n : j + k > n => Good(j)}
<1>8. ASSUME NEW j \in 1 .. n, ~ (2 * j <= n) PROVE Good(j)
  <2>1. F[j] = r /\ B[j] = j
    BY <1>6, <1>7, <1>8
  <2> QED
    BY <1>1, <1>2, <2>1
<1>9. ASSUME NEW j \in 1 .. n, 2 * j <= n, Good(Child(r, n, j)) PROVE Good(j)
  <2> DEFINE c == Child(r, n, j)
  <2>1. c \in j + 1 .. n /\ c \in 1 .. n /\ c > j /\ j \in 1 .. c
    BY <1>1, <1>9, ChildBelow
  <2>2. F[j] = [F[c] EXCEPT ![j] = r[c]] /\ B[j] = B[c] /\ Good(c)
    BY <1>6, <1>7, <1>9
  <2> HIDE DEF c
  <2>3. /\ F[c] \in Seq(T) /\ j \in 1 .. Len(F[c]) /\ r[c] \in T /\ F[c][j] = r[j]
        /\ Len(F[c]) = n /\ B[c] \in 1 .. n /\ B[c] # j /\ B[c] \in j .. n
    BY <1>1, <1>2, <2>1, <2>2
  <2>4. /\ F[j] \in Seq(T) /\ Len(F[j]) = n
        /\ \A q \in 1 .. n : F[j][q] = IF q = j THEN r[c] ELSE F[c][q]
        /\ \A K : Count(F[j], K) = (Count(F[c], K) + One(r[c], K)) - One(r[j], K)
    BY <2>2, <2>3, CountExcept
  <2>5. ASSUME NEW q \in 1 .. j PROVE F[j][q] = r[q] \/ q = j
    <3>1. q \in 1 .. n /\ q \in 1 .. c /\ q # c
      BY <1>1, <2>1
    <3> QED
      BY <2>2, <2>4, <3>1
  <2>6. F[j][B[j]] = F[c][B[c]]
    BY <2>2, <2>3, <2>4
  <2>7. ASSUME NEW K PROVE Count(F[j], K) + One(r[j], K) = Count(r, K) + One(F[j][B[j]], K)
    <3>1. Count(F[c], K) + One(r[c], K) = Count(r, K) + One(F[c][B[c]], K)
      BY <2>2
    <3>2. Count(F[j], K) = (Count(F[c], K) + One(r[c], K)) - One(r[j], K)
      BY <2>4
    <3>3. One(r[j], K) \in {0, 1} /\ One(r[c], K) \in {0, 1} /\ One(F[c][B[c]], K) \in {0, 1}
          /\ Count(F[c], K) \in Nat /\ Count(r, K) \in Nat
      BY <1>2, <2>3, CountType
    <3> QED
      BY <2>6, <3>1, <3>2, <3>3
  <2>8. B[j] \in j .. n
    BY <2>2, <2>3
  <2> QED
    BY <2>4, <2>5, <2>7, <2>8
<1> HIDE DEF Good
<1>10. 0 \in S
  BY <1>1
<1>11. ASSUME NEW k \in Nat, k \in S PROVE k + 1 \in S
  <2> SUFFICES ASSUME NEW j \in 1 .. n, j + (k + 1) > n PROVE Good(j)
    OBVIOUS
  <2>1. CASE 2 * j <= n
    <3> DEFINE c == Child(r, n, j)
    <3>1. c \in 1 .. n /\ c > j
      BY <1>1, <2>1, ChildBelow
    <3> HIDE DEF c
    <3>2. c + k > n
      BY <1>1, <3>1
    <3>3. Good(c)
      BY <1>11, <3>1, <3>2
    <3> QED
      BY <1>9, <2>1, <3>3 DEF c
  <2> QED
    BY <1>8, <2>1
<1>12. n \in S
  <2> HIDE DEF S
  <2> QED
    BY <1>1, <1>10, <1>11, SetInduction
<1>13. CASE n = 0
  <2>1. PopHeap(h) = << >>
    BY <1>5, <1>13
  <2>2. \A K : Count(<< >>, K) = 0 /\ Count(r, K) = 0
    BY <1>1, <1>2, <1>13, CountOneMore DEF Count
  <2>3. \A K : Count(h, K) = One(h[1], K)
    BY <1>3, <1>13, <2>2, CountType
  <2>4. \A K : One(h[1], K) \in {0, 1}
    BY CountType
  <2>5. << >> \in Seq(T) /\ Len(<< >>) = 0
    OBVIOUS
  <2> QED
    BY <1>1, <1>13, <2>1, <2>2, <2>3, <2>4, <2>5
<1>14. CASE n # 0
  <2>1. 1 \in 1 .. n /\ 1 + n > n
    BY <1>1, <1>14
  <2>2. Good(1)
    BY <1>12, <2>1
  <2> DEFINE s == F[1]
             b == B[1]
             x == h[n + 1]
  <2>3. /\ s \in Seq(T) /\ Len(s) = n /\ b \in 1 .. Len(s) /\ x \in T /\ r[1] = h[1]
        /\ \A K : Count(s, K) + One(h[1], K) = Count(r, K) + One(s[b], K)
    BY <1>1, <1>2, <2>1, <2>2 DEF Good
  <2>4. PopHeap(h) = Rise(s, b, x)
    BY <1>5, <1>14
  <2>5. \A K : Count(h, K) = Count(r, K) + One(x, K)
    BY <1>3
  <2> HIDE DEF s, b, x
  <2>6. /\ Rise(s, b, x) \in Seq(T) /\ Len(Rise(s, b, x)) = Len(s)
        /\ \A K : Count(Rise(s, b, x), K) = (Count(s, K) + One(x, K)) - One(s[b], K)
    BY <2>3, RiseCounts
  <2>7. ASSUME NEW K PROVE Count(PopHeap(h), K) + One(h[1], K) = Count(h, K)
    <3>1. /\ Count(s, K) \in Nat /\ Count(r, K) \in Nat /\ Count(h, K) \in Nat
          /\ One(x, K) \in {0, 1} /\ One(s[b], K) \in {0, 1} /\ One(h[1], K) \in {0, 1}
      BY <1>2, <2>3, CountType
    <3>2. Count(PopHeap(h), K) = (Count(s, K) + One(x, K)) - One(s[b], K)
      BY <2>4, <2>6
    <3>3. Count(s, K) + One(h[1], K) = Count(r, K) + One(s[b], K)
      BY <2>3
    <3>4. Count(h, K) = Count(r, K) + One(x, K)
      BY <2>5
    <3> QED
      BY <3>1, <3>2, <3>3, <3>4
  <2> QED
    BY <1>1, <2>3, <2>4, <2>6, <2>7
<1> QED
  BY <1>13, <1>14

(* The equation of Popped's recursive function, up to n. *)
PopsEq(f, h, n) ==
  f = [j \in 0 .. n |-> IF j = 0 THEN [taken |-> << >>, rest |-> h]
                        ELSE [taken |-> Append(f[j - 1].taken, f[j - 1].rest[1]),
                              rest |-> PopHeap(f[j - 1].rest)]]

(* It has a solution. *)
LEMMA PopsExist ==
  ASSUME NEW h, NEW n \in Nat
  PROVE  \E f : PopsEq(f, h, n)
<1> DEFINE S == {k \in Nat : \E f : PopsEq(f, h, k)}
           None == [taken |-> << >>, rest |-> h]
           Pop(p) == [taken |-> Append(p.taken, p.rest[1]), rest |-> PopHeap(p.rest)]
<1>1. 0 \in S
  <2> DEFINE g == [j \in 0 .. 0 |-> None]
  <2>1. g = [j \in 0 .. 0 |-> IF j = 0 THEN None ELSE Pop(g[j - 1])]
    <3> HIDE DEF None, Pop
    <3> QED
      OBVIOUS
  <2>2. PopsEq(g, h, 0)
    BY <2>1, Zenon DEF PopsEq
  <2> QED
    BY <2>2
<1>2. ASSUME NEW k \in Nat, k \in S PROVE k + 1 \in S
  <2>1. PICK f : PopsEq(f, h, k)
    BY <1>2
  <2>2. f = [j \in 0 .. k |-> IF j = 0 THEN None ELSE Pop(f[j - 1])]
    BY <2>1, Zenon DEF PopsEq
  <2> DEFINE g == [j \in 0 .. k + 1 |-> IF j = k + 1 THEN Pop(f[k]) ELSE f[j]]
  <2> HIDE DEF None, Pop
  <2>3. \A j \in 0 .. k : g[j] = f[j] /\ f[j] = IF j = 0 THEN None ELSE Pop(f[j - 1])
    BY <2>2
  <2>4. g[k + 1] = Pop(f[k]) /\ g = [j \in 0 .. k + 1 |-> g[j]]
    OBVIOUS
  <2> HIDE DEF g
  <2>5. ASSUME NEW j \in 0 .. k + 1 PROVE g[j] = IF j = 0 THEN None ELSE Pop(g[j - 1])
    <3>1. CASE j = k + 1
      <4>1. j - 1 = k /\ k \in 0 .. k /\ j # 0
        BY <3>1
      <4> QED
        BY <2>3, <2>4, <3>1, <4>1
    <3>2. CASE j # k + 1
      <4>1. j \in 0 .. k /\ (j # 0 => j - 1 \in 0 .. k)
        BY <3>2
      <4> QED
        BY <2>3, <4>1
    <3> QED
      BY <3>1, <3>2
  <2>6. g = [j \in 0 .. k + 1 |-> IF j = 0 THEN None ELSE Pop(g[j - 1])]
    BY <2>4, <2>5
  <2>7. PopsEq(g, h, k + 1)
    BY <2>6, Zenon DEF PopsEq, None, Pop
  <2> QED
    BY <2>7
<1> HIDE DEF S
<1>3. n \in S
  BY <1>1, <1>2, SetInduction
<1> QED
  BY <1>3 DEF S

(* What k pops take and leave is what there was, and taking all goes on    *)
(* where taking k ended.                                                   *)
LEMMA PoppedCounts ==
  ASSUME NEW T, NEW h \in Seq(T), NEW k \in 0 .. Len(h)
  PROVE  /\ Popped(h, k).taken \in Seq(T) /\ Len(Popped(h, k).taken) = k
         /\ Popped(h, k).rest \in Seq(T) /\ Len(Popped(h, k).rest) = Len(h) - k
         /\ \A K : Count(Popped(h, k).taken, K) + Count(Popped(h, k).rest, K) = Count(h, K)
         /\ \A i \in 1 .. k : Popped(h, k).taken[i] = PopOrder(h)[i]
<1> DEFINE n == Len(h)
           F == CHOOSE f : PopsEq(f, h, n)
<1>1. n \in Nat
  BY LenProperties
<1>2. PopsEq(F, h, n)
  <2>1. \E f : PopsEq(f, h, n)
    BY <1>1, PopsExist
  <2> QED
    BY <2>1
<1>3. ASSUME NEW j \in 0 .. n PROVE Popped(h, j) = F[j]
  BY DEF Popped, PopsEq
<1> HIDE DEF F
<1> DEFINE None == [taken |-> << >>, rest |-> h]
           Pop(q) == [taken |-> Append(q.taken, q.rest[1]), rest |-> PopHeap(q.rest)]
<1>4. F = [j \in 0 .. n |-> IF j = 0 THEN None ELSE Pop(F[j - 1])]
  BY <1>2, Zenon DEF PopsEq
<1>5. F[0] = None
  <2> HIDE DEF None, Pop
  <2> QED
    BY <1>1, <1>4
<1>6. \A j \in 1 .. n : F[j] = Pop(F[j - 1])
  <2> HIDE DEF None, Pop
  <2> QED
    BY <1>1, <1>4
<1> DEFINE Good(j) == /\ F[j].taken \in Seq(T) /\ Len(F[j].taken) = j
                      /\ F[j].rest \in Seq(T) /\ Len(F[j].rest) = n - j
                      /\ \A K : Count(F[j].taken, K) + Count(F[j].rest, K) = Count(h, K)
                      /\ \A p \in 0 .. j : \A i \in 1 .. p : F[p].taken[i] = F[j].taken[i]
           S == {j \in Nat : j <= n => Good(j)}
<1>7. 0 \in S
  <2>1. F[0].taken = << >> /\ F[0].rest = h
    BY <1>5
  <2>2. << >> \in Seq(T) /\ Len(<< >>) = 0
    OBVIOUS
  <2>3. \A K : Count(<< >>, K) = 0 /\ Count(h, K) \in Nat
    BY CountOneMore, CountType DEF Count
  <2>4. \A K : Count(<< >>, K) + Count(h, K) = Count(h, K)
    BY <2>3
  <2>5. \A p \in 0 .. 0 : \A i \in 1 .. p : F[p].taken[i] = F[0].taken[i]
    OBVIOUS
  <2>6. Good(0)
    BY <1>1, <2>1, <2>2, <2>4, <2>5
  <2> HIDE DEF Good
  <2> QED
    BY <2>6
<1>8. ASSUME NEW j \in Nat, j \in S PROVE j + 1 \in S
  <2> SUFFICES ASSUME j + 1 <= n PROVE Good(j + 1)
    BY SMTT(30)
  <2> DEFINE a == F[j].taken
             s == F[j].rest
             x == s[1]
  <2>1. Good(j)
    BY <1>1, <1>8
  <2>2. F[j + 1].taken = Append(a, x) /\ F[j + 1].rest = PopHeap(s)
    <3>1. j + 1 \in 1 .. n /\ (j + 1) - 1 = j
      BY <1>1
    <3>2. F[j + 1] = Pop(F[j])
      <4> HIDE DEF Pop
      <4> QED
        BY <1>6, <3>1
    <3> QED
      BY <3>2
  <2>3. /\ a \in Seq(T) /\ Len(a) = j /\ s \in Seq(T) /\ Len(s) = n - j /\ Len(s) >= 1 /\ x \in T
        /\ \A K : Count(a, K) + Count(s, K) = Count(h, K)
    <3>1. s \in Seq(T) /\ Len(s) = n - j /\ Len(s) >= 1
      BY <1>1, <2>1
    <3>2. x \in T
      BY <3>1, ElementOfSeq
    <3> QED
      BY <2>1, <3>1, <3>2
  <2>4. \A p \in 0 .. j : \A i \in 1 .. p : F[p].taken[i] = a[i]
    BY <2>1
  <2> HIDE DEF a, s, x
  <2>5. /\ PopHeap(s) \in Seq(T) /\ Len(PopHeap(s)) = Len(s) - 1
        /\ \A K : Count(PopHeap(s), K) + One(x, K) = Count(s, K)
    BY <2>3, PopCounts DEF x
  <2>6. /\ Append(a, x) \in Seq(T) /\ Len(Append(a, x)) = Len(a) + 1
        /\ \A i \in 1 .. Len(a) : Append(a, x)[i] = a[i]
        /\ \A K : Count(Append(a, x), K) = Count(a, K) + One(x, K)
    BY <2>3, CountAppend
  <2>7. ASSUME NEW K
        PROVE  Count(Append(a, x), K) + Count(PopHeap(s), K) = Count(h, K)
    <3>1. /\ Count(a, K) \in Nat /\ Count(s, K) \in Nat /\ Count(PopHeap(s), K) \in Nat
          /\ One(x, K) \in {0, 1}
      BY <2>3, <2>5, CountType
    <3>2. /\ Count(a, K) + Count(s, K) = Count(h, K)
          /\ Count(PopHeap(s), K) + One(x, K) = Count(s, K)
          /\ Count(Append(a, x), K) = Count(a, K) + One(x, K)
      BY <2>3, <2>5, <2>6
    <3> QED
      BY <3>1, <3>2
  <2>8. ASSUME NEW p \in 0 .. j + 1, NEW i \in 1 .. p PROVE F[p].taken[i] = F[j + 1].taken[i]
    <3>1. CASE p = j + 1
      BY <3>1
    <3>2. CASE p # j + 1
      <4>1. p \in 0 .. j /\ i \in 1 .. Len(a)
        BY <2>3, <3>2
      <4> QED
        BY <2>2, <2>4, <2>6, <4>1
    <3> QED
      BY <3>1, <3>2
  <2>9. /\ F[j + 1].taken \in Seq(T) /\ Len(F[j + 1].taken) = j + 1
        /\ F[j + 1].rest \in Seq(T) /\ Len(F[j + 1].rest) = n - (j + 1)
    BY <1>1, <2>2, <2>3, <2>5, <2>6
  <2> QED
    BY <2>2, <2>7, <2>8, <2>9
<1>9. \A j \in Nat : j \in S
  <2> HIDE DEF S
  <2> QED
    BY <1>7, <1>8, SetInduction
<1>10. Good(k) /\ Good(n)
  <2>1. k \in Nat /\ k <= n
    BY <1>1
  <2> HIDE DEF Good
  <2> QED
    BY <1>1, <1>9, <2>1
<1>11. Popped(h, k) = F[k] /\ PopOrder(h) = F[n].taken
  <2>1. n \in 0 .. n
    BY <1>1
  <2> QED
    BY <1>3, <2>1 DEF PopOrder
<1>12. \A i \in 1 .. k : F[k].taken[i] = F[n].taken[i]
  BY <1>1, <1>10
<1> QED
  BY <1>10, <1>11, <1>12

(* The order of the pops lists the heap. *)
LEMMA PopOrderCounts ==
  ASSUME NEW T, NEW h \in Seq(T)
  PROVE  /\ PopOrder(h) \in Seq(T) /\ Len(PopOrder(h)) = Len(h)
         /\ \A i \in 1 .. Len(h) : PopOrder(h)[i] \in T
         /\ \A K : Count(PopOrder(h), K) = Count(h, K)
<1> DEFINE n == Len(h)
           p == Popped(h, n)
<1>1. n \in Nat /\ n \in 0 .. n /\ n - n = 0
  BY LenProperties
<1>2. /\ p.taken \in Seq(T) /\ Len(p.taken) = n /\ p.rest \in Seq(T) /\ Len(p.rest) = n - n
      /\ \A K : Count(p.taken, K) + Count(p.rest, K) = Count(h, K)
  BY <1>1, PoppedCounts
<1>3. PopOrder(h) = p.taken
  BY DEF PopOrder
<1> HIDE DEF n, p
<1>4. ASSUME NEW K PROVE Count(p.rest, K) = 0 /\ Count(p.taken, K) \in Nat
  <2>1. Len(p.rest) = 0
    BY <1>1, <1>2
  <2>2. CountTo(p.rest, 0, K) = 0
    BY CountOneMore
  <2>3. Count(p.taken, K) \in Nat
    BY <1>2, CountType
  <2> QED
    BY <2>1, <2>2, <2>3 DEF Count
<1>5. \A K : Count(p.taken, K) = Count(h, K)
  BY <1>2, <1>4
<1>6. \A i \in 1 .. n : p.taken[i] \in T
  BY <1>2, ElementOfSeq
<1> QED
  BY <1>2, <1>3, <1>5, <1>6 DEF n

(* The equation of Rebuilt's recursive function, up to n. *)
PushedEq(f, order, n) ==
  f = [k \in 0 .. n |-> IF k = 0 THEN << >>
                        ELSE IF IsLive(order[k]) THEN PushHeap(f[k - 1], order[k]) ELSE f[k - 1]]

(* It has a solution. *)
LEMMA PushedExist ==
  ASSUME NEW order, NEW n \in Nat
  PROVE  \E f : PushedEq(f, order, n)
<1> DEFINE S == {k \in Nat : \E f : PushedEq(f, order, k)}
           Push(s, j) == IF IsLive(order[j]) THEN PushHeap(s, order[j]) ELSE s
<1>1. 0 \in S
  <2> DEFINE g == [j \in 0 .. 0 |-> << >>]
  <2>1. g = [j \in 0 .. 0 |-> IF j = 0 THEN << >> ELSE Push(g[j - 1], j)]
    <3> HIDE DEF Push
    <3> QED
      OBVIOUS
  <2>2. PushedEq(g, order, 0)
    BY <2>1, Zenon DEF PushedEq
  <2> QED
    BY <2>2
<1>2. ASSUME NEW k \in Nat, k \in S PROVE k + 1 \in S
  <2>1. PICK f : PushedEq(f, order, k)
    BY <1>2
  <2>2. f = [j \in 0 .. k |-> IF j = 0 THEN << >> ELSE Push(f[j - 1], j)]
    BY <2>1, Zenon DEF PushedEq
  <2> DEFINE g == [j \in 0 .. k + 1 |-> IF j = k + 1 THEN Push(f[k], k + 1) ELSE f[j]]
  <2> HIDE DEF Push
  <2>3. \A j \in 0 .. k : g[j] = f[j] /\ f[j] = IF j = 0 THEN << >> ELSE Push(f[j - 1], j)
    BY <2>2
  <2>4. g[k + 1] = Push(f[k], k + 1) /\ g = [j \in 0 .. k + 1 |-> g[j]]
    OBVIOUS
  <2> HIDE DEF g
  <2>5. ASSUME NEW j \in 0 .. k + 1 PROVE g[j] = IF j = 0 THEN << >> ELSE Push(g[j - 1], j)
    <3>1. CASE j = k + 1
      <4>1. j - 1 = k /\ k \in 0 .. k /\ j # 0
        BY <3>1
      <4> QED
        BY <2>3, <2>4, <3>1, <4>1
    <3>2. CASE j # k + 1
      <4>1. j \in 0 .. k /\ (j # 0 => j - 1 \in 0 .. k)
        BY <3>2
      <4> QED
        BY <2>3, <4>1
    <3> QED
      BY <3>1, <3>2
  <2>6. g = [j \in 0 .. k + 1 |-> IF j = 0 THEN << >> ELSE Push(g[j - 1], j)]
    BY <2>4, <2>5
  <2>7. PushedEq(g, order, k + 1)
    BY <2>6, Zenon DEF PushedEq, Push
  <2> QED
    BY <2>7
<1> HIDE DEF S
<1>3. n \in S
  BY <1>1, <1>2, SetInduction
<1> QED
  BY <1>3 DEF S

(* The timers of K that run. *)
Living(K) == {t \in K : IsLive(t)}

(* purge keeps the timers that run, and only those. *)
LEMMA RebuiltCounts ==
  ASSUME NEW T, NEW h \in Seq(T)
  PROVE  /\ Rebuilt(h) \in Seq(T)
         /\ \A K : Count(Rebuilt(h), K) = Count(h, Living(K))
<1> DEFINE n == Len(h)
           order == PopOrder(h)
           F == CHOOSE f : PushedEq(f, order, n)
           Push(s, j) == IF IsLive(order[j]) THEN PushHeap(s, order[j]) ELSE s
<1>1. /\ n \in Nat /\ Len(order) = n /\ order \in Seq(T) /\ \A i \in 1 .. n : order[i] \in T
      /\ \A K : Count(order, K) = Count(h, K)
  BY LenProperties, PopOrderCounts
<1>2. PushedEq(F, order, n)
  <2>1. \E f : PushedEq(f, order, n)
    BY <1>1, PushedExist
  <2> QED
    BY <2>1
<1>3. Rebuilt(h) = F[n]
  BY DEF Rebuilt, PushedEq
<1> HIDE DEF F, order, n
<1>4. F = [j \in 0 .. n |-> IF j = 0 THEN << >> ELSE Push(F[j - 1], j)]
  BY <1>2, Zenon DEF PushedEq
<1>5. F[0] = << >> /\ \A j \in 1 .. n : F[j] = Push(F[j - 1], j)
  <2> HIDE DEF Push
  <2> QED
    BY <1>1, <1>4
<1> DEFINE Good(j) == /\ F[j] \in Seq(T)
                      /\ \A K : Count(F[j], K) = CountTo(order, j, Living(K))
           S == {j \in Nat : j <= n => Good(j)}
<1>6. 0 \in S
  <2>1. << >> \in Seq(T) /\ Len(<< >>) = 0
    OBVIOUS
  <2>2. \A K : Count(<< >>, K) = 0 /\ CountTo(order, 0, Living(K)) = 0
    BY <2>1, CountOneMore DEF Count
  <2>3. Good(0)
    BY <1>5, <2>1, <2>2
  <2> HIDE DEF Good
  <2> QED
    BY <2>3
<1>7. ASSUME NEW j \in Nat, j \in S PROVE j + 1 \in S
  <2> SUFFICES ASSUME j + 1 <= n PROVE Good(j + 1)
    OBVIOUS
  <2> DEFINE s == F[j]
             t == order[j + 1]
  <2>1. Good(j)
    BY <1>1, <1>7
  <2>2. j + 1 \in 1 .. n /\ (j + 1) - 1 = j
    BY <1>1
  <2>3. F[j + 1] = Push(s, j + 1)
    <3> HIDE DEF Push
    <3> QED
      BY <1>5, <2>2
  <2>4. s \in Seq(T) /\ t \in T /\ \A K : Count(s, K) = CountTo(order, j, Living(K))
    BY <1>1, <2>1, <2>2
  <2>5. F[j + 1] = IF IsLive(t) THEN PushHeap(s, t) ELSE s
    BY <2>3
  <2>6. \A K : CountTo(order, j + 1, Living(K)) = CountTo(order, j, Living(K)) + One(t, Living(K))
    BY CountOneMore
  <2> HIDE DEF s, t
  <2>7. CASE IsLive(t)
    <3>1. /\ PushHeap(s, t) \in Seq(T)
          /\ \A K : Count(PushHeap(s, t), K) = Count(s, K) + One(t, K)
      BY <2>4, PushCounts
    <3>2. \A K : One(t, Living(K)) = One(t, K)
      BY <2>7 DEF One, Living
    <3>3. \A K : Count(F[j + 1], K) = CountTo(order, j + 1, Living(K))
      BY <2>4, <2>5, <2>6, <2>7, <3>1, <3>2
    <3> QED
      BY <2>5, <2>7, <3>1, <3>3
  <2>8. CASE ~ IsLive(t)
    <3>1. \A K : One(t, Living(K)) = 0
      BY <2>8 DEF One, Living
    <3>2. \A K : CountTo(order, j, Living(K)) \in Nat
      BY CountOneMore
    <3>3. \A K : Count(F[j + 1], K) = CountTo(order, j + 1, Living(K))
      BY <2>4, <2>5, <2>6, <2>8, <3>1, <3>2
    <3> QED
      BY <2>4, <2>5, <2>8, <3>3
  <2> QED
    BY <2>7, <2>8
<1>8. \A j \in Nat : j \in S
  <2> HIDE DEF S
  <2> QED
    BY <1>6, <1>7, SetInduction
<1>9. Good(n)
  <2> HIDE DEF Good
  <2> QED
    BY <1>1, <1>8
<1> QED
  BY <1>1, <1>3, <1>9 DEF Count

-----------------------------------------------------------------------------
(* What the operations of sort_timer_lst do to the heap *)

Timer == [fd : Fds, left : Slots, kind : {"current", "stray", "dead"}]

Own(f) == {t \in Timer : t.kind = "current" /\ t.fd = f}
Strays == {t \in Timer : t.kind = "stray"}
DeadOnes == {t \in Timer : t.kind = "dead"}

(* The sets of places in the heap that the properties speak of. *)
LEMMA HeapPlaces ==
  ASSUME heap \in Seq(Timer)
  PROVE  /\ Len(heap) \in Nat /\ DOMAIN heap = 1 .. Len(heap)
         /\ \A i \in 1 .. Len(heap) : heap[i] \in Timer
         /\ \A f \in Fds : At(f) = {i \in 1 .. Len(heap) : heap[i] \in Own(f)}
         /\ \A f \in Fds : Cardinality(At(f)) = Count(heap, Own(f))
         /\ Timers("stray") = {i \in 1 .. Len(heap) : heap[i] \in Strays}
         /\ Cardinality(Timers("stray")) = Count(heap, Strays)
         /\ Cardinality(Timers("dead")) = Count(heap, DeadOnes)
<1>1. /\ Len(heap) \in Nat /\ DOMAIN heap = 1 .. Len(heap)
      /\ \A i \in 1 .. Len(heap) : heap[i] \in Timer
  BY LenProperties, ElementOfSeq
<1>2. \A f \in Fds : At(f) = {i \in 1 .. Len(heap) : heap[i] \in Own(f)}
  BY <1>1 DEF At, Timers, Own
<1>3. Timers("stray") = {i \in 1 .. Len(heap) : heap[i] \in Strays}
  BY <1>1 DEF Timers, Strays
<1>4. Timers("dead") = {i \in 1 .. Len(heap) : heap[i] \in DeadOnes}
  BY <1>1 DEF Timers, DeadOnes
<1> QED
  BY <1>1, <1>2, <1>3, <1>4 DEF Count, CountTo

(* The timers that the code makes. *)
LEMMA TimerFacts ==
  ASSUME NEW f \in Fds, NEW left \in Slots
  PROVE  /\ NewTimer(f) \in Own(f) /\ Dead(left) \in DeadOnes
         /\ NewTimer(f) \in Timer /\ Dead(left) \in Timer
         /\ Lifetime \in Slots /\ Lifetime # 0
<1>1. Lifetime \in Nat \ {0} /\ Lifetime \in Slots
  BY LoopAssumption DEF Slots
<1>2. NewTimer(f) \in Timer
  BY <1>1 DEF NewTimer, Timer
<1>3. Dead(left) \in Timer
  BY LoopConstants DEF Dead, Timer
<1> QED
  BY <1>1, <1>2, <1>3 DEF Own, DeadOnes, NewTimer, Dead

(* A timer is of one kind and belongs to one descriptor. *)
LEMMA KindsApart ==
  /\ \A f \in Fds : Own(f) \cap Strays = {} /\ Own(f) \cap DeadOnes = {}
  /\ \A f, g \in Fds : f # g => Own(f) \cap Own(g) = {}
  /\ Strays \cap DeadOnes = {}
  BY DEF Own, Strays, DeadOnes

(* A function on 1 .. n is a sequence of length n. *)
LEMMA FunctionSeq ==
  ASSUME NEW T, NEW n \in Nat, NEW s \in [1 .. n -> T]
  PROVE  s \in Seq(T) /\ Len(s) = n
<1>1. s \in Seq(T)
  BY SeqDef
<1>2. DOMAIN s = 1 .. n /\ DOMAIN s = 1 .. Len(s) /\ Len(s) \in Nat
  BY <1>1, LenProperties
<1>3. 1 .. n = 1 .. Len(s)
  BY <1>2
<1>4. n <= Len(s)
  <2>1. CASE n = 0
    BY <1>2, <2>1
  <2>2. CASE n # 0
    <3>1. n \in 1 .. n
      BY <2>2
    <3> QED
      BY <1>2, <1>3, <3>1
  <2> QED
    BY <2>1, <2>2
<1>5. Len(s) <= n
  <2>1. CASE Len(s) = 0
    BY <1>2, <2>1
  <2>2. CASE Len(s) # 0
    <3>1. Len(s) \in 1 .. Len(s)
      BY <1>2, <2>2
    <3> QED
      BY <1>2, <1>3, <3>1
  <2> QED
    BY <2>1, <2>2
<1> QED
  BY <1>1, <1>2, <1>4, <1>5

(* The timer of f is cancelled, the others stay. *)
LEMMA CancelCounts ==
  ASSUME heap \in Seq(Timer), NEW f \in Fds, NEW left \in Slots
  PROVE  /\ Cancel(At(f), left) \in Seq(Timer)
         /\ \A g \in Fds : Count(Cancel(At(f), left), Own(g)) = IF g = f THEN 0 ELSE Count(heap, Own(g))
         /\ Count(Cancel(At(f), left), Strays) = Count(heap, Strays)
         /\ Count(Cancel(At(f), left), DeadOnes) = Count(heap, DeadOnes) + Count(heap, Own(f))
<1> DEFINE n == Len(heap)
           c == Cancel(At(f), left)
<1>1. /\ n \in Nat /\ DOMAIN heap = 1 .. n /\ \A i \in 1 .. n : heap[i] \in Timer
      /\ At(f) = {i \in 1 .. n : heap[i] \in Own(f)}
  BY HeapPlaces
<1>2. \A i \in 1 .. n : heap[i].left \in Slots
  BY <1>1 DEF Timer
<1>3. /\ c = [i \in 1 .. n |-> c[i]]
      /\ \A i \in 1 .. n : IF heap[i] \in Own(f) THEN c[i] \in DeadOnes ELSE c[i] = heap[i]
  <2>1. c = [i \in 1 .. n |-> IF i \in At(f) THEN Dead(IF left = 0 THEN heap[i].left ELSE left)
                                             ELSE heap[i]]
    BY <1>1 DEF Cancel
  <2>2. \A i \in 1 .. n : Dead(IF left = 0 THEN heap[i].left ELSE left) \in DeadOnes
    BY <1>2, TimerFacts
  <2> HIDE DEF c
  <2> QED
    BY <1>1, <2>1, <2>2
<1> HIDE DEF c
<1>4. \A i \in 1 .. n : c[i] \in Timer
  BY <1>1, <1>3 DEF DeadOnes
<1>5. c \in Seq(Timer) /\ Len(c) = n
  <2>1. c \in [1 .. n -> Timer]
    BY <1>3, <1>4
  <2> HIDE DEF n
  <2> QED
    BY <1>1, <2>1, FunctionSeq
<1> HIDE DEF n
<1> DEFINE Places(s, K) == {i \in 1 .. n : s[i] \in K}
<1>6. /\ \A K : Count(heap, K) = Cardinality(Places(heap, K)) /\ IsFiniteSet(Places(heap, K))
      /\ \A K : Count(c, K) = Cardinality(Places(c, K)) /\ IsFiniteSet(Places(c, K))
  BY <1>1, <1>5, CountOneMore DEF Count, CountTo, n
<1>7. ASSUME NEW g \in Fds
      PROVE  Count(c, Own(g)) = IF g = f THEN 0 ELSE Count(heap, Own(g))
  <2>1. CASE g = f
    <3>1. Places(c, Own(g)) = {}
      BY <1>3, <2>1, KindsApart
    <3> QED
      BY <1>6, <2>1, <3>1, FS_EmptySet
  <2>2. CASE g # f
    <3>1. Places(c, Own(g)) = Places(heap, Own(g))
      BY <1>3, <2>2, KindsApart
    <3> QED
      BY <1>6, <2>2, <3>1
  <2> QED
    BY <2>1, <2>2
<1>8. Count(c, Strays) = Count(heap, Strays)
  <2>1. Places(c, Strays) = Places(heap, Strays)
    BY <1>3, KindsApart
  <2> QED
    BY <1>6, <2>1
<1>9. Count(c, DeadOnes) = Count(heap, DeadOnes) + Count(heap, Own(f))
  <2> DEFINE A == Places(heap, DeadOnes)
             B == Places(heap, Own(f))
  <2>1. Places(c, DeadOnes) = A \cup B /\ A \cap B = {}
    BY <1>3, KindsApart
  <2>2. IsFiniteSet(A) /\ IsFiniteSet(B) /\ Cardinality(A) \in Nat /\ Cardinality(B) \in Nat
    BY <1>6, FS_CardinalityType
  <2>3. Count(c, DeadOnes) = Cardinality(A \cup B) /\ Count(heap, DeadOnes) = Cardinality(A)
        /\ Count(heap, Own(f)) = Cardinality(B)
    BY <1>6, <2>1
  <2> HIDE DEF A, B
  <2>4. Cardinality(A \cup B) = Cardinality(A) + Cardinality(B)
    <3>1. Cardinality(A \cup B) = Cardinality(A) + Cardinality(B) - Cardinality(A \cap B)
      BY <2>2, FS_Union
    <3>2. Cardinality(A \cap B) = 0
      BY <2>1, FS_EmptySet
    <3> QED
      BY <2>2, <3>1, <3>2
  <2> QED
    BY <2>3, <2>4
<1> QED
  BY <1>5, <1>7, <1>8, <1>9 DEF c

(* purge throws away the cancelled timers and no other. *)
LEMMA PurgeCounts ==
  ASSUME NEW h \in Seq(Timer), NEW count \in Nat, PurgeIfDue(h, count)
  PROVE  /\ heap' \in Seq(Timer) /\ cancelled' \in Nat
         /\ \A g \in Fds : Count(heap', Own(g)) = Count(h, Own(g))
         /\ Count(heap', Strays) = Count(h, Strays)
         /\ \/ Count(heap', DeadOnes) = 0 /\ cancelled' = 0
            \/ Count(heap', DeadOnes) = Count(h, DeadOnes) /\ cancelled' = count
<1>1. CASE heap' = h /\ cancelled' = count
  BY <1>1
<1>2. CASE heap' = Rebuilt(h) /\ cancelled' = 0
  <2>1. Rebuilt(h) \in Seq(Timer) /\ \A K : Count(Rebuilt(h), K) = Count(h, Living(K))
    BY RebuiltCounts
  <2>2. /\ \A g \in Fds : Living(Own(g)) = Own(g)
        /\ Living(Strays) = Strays /\ Living(DeadOnes) = {}
    BY DEF Living, IsLive, Own, Strays, DeadOnes
  <2>3. Count(h, {}) = 0
    <3>1. {i \in 1 .. Len(h) : h[i] \in {}} = {}
      OBVIOUS
    <3> QED
      BY <3>1, FS_EmptySet DEF Count, CountTo
  <2> QED
    BY <1>2, <2>1, <2>2, <2>3
<1> QED
  BY <1>1, <1>2 DEF PurgeIfDue

-----------------------------------------------------------------------------
(* The timers and the counters: the inductive invariant *)

Open == {f \in Fds : owner[f] # NoClient}

(* In both models: a descriptor has at most one timer that users_timer     *)
(* points at, and m_cancelled_count, from which tick subtracts what it     *)
(* pops, is no less than the number of cancelled timers in the heap.       *)
Counted == /\ mode \in Modes
           /\ heap \in Seq(Timer) /\ cancelled \in Nat
           /\ Count(heap, DeadOnes) <= cancelled
           /\ \A f \in Fds : Count(heap, Own(f)) <= 1

(* In the proactor model, where the main thread never waits for a worker.  *)
Paired == mode = "proactor" =>
  /\ main \in {"loop", "stopped"}
  /\ \A f \in Fds : Count(heap, Own(f)) = IF owner[f] = NoClient THEN 0 ELSE 1
  /\ Count(heap, Strays) = 0
  /\ Count(heap, DeadOnes) = cancelled
  /\ IsFiniteSet(Open) /\ userCount = Cardinality(Open)

TimerInv == Counted /\ Paired

(* It implies the properties. *)
LEMMA TimerInvImplies == TimerInv => OneTimerEach /\ CountsAgree
<1> SUFFICES ASSUME TimerInv, mode = "proactor"
             PROVE  /\ \A f \in Fds : Cardinality(At(f)) = IF owner[f] = NoClient THEN 0 ELSE 1
                    /\ Timers("stray") = {}
                    /\ userCount = Cardinality({f \in Fds : owner[f] # NoClient})
                    /\ cancelled = Cardinality(Timers("dead"))
  BY DEF OneTimerEach, CountsAgree
<1>1. /\ \A f \in Fds : Count(heap, Own(f)) = IF owner[f] = NoClient THEN 0 ELSE 1
      /\ Count(heap, Strays) = 0 /\ Count(heap, DeadOnes) = cancelled
      /\ userCount = Cardinality({f \in Fds : owner[f] # NoClient})
  BY DEF TimerInv, Paired, Open
<1>2. heap \in Seq(Timer)
  BY DEF TimerInv, Counted
<1>3. /\ \A f \in Fds : Cardinality(At(f)) = Count(heap, Own(f))
      /\ Timers("stray") = {i \in 1 .. Len(heap) : heap[i] \in Strays}
      /\ Cardinality(Timers("stray")) = Count(heap, Strays)
      /\ Cardinality(Timers("dead")) = Count(heap, DeadOnes)
      /\ Len(heap) \in Nat
  BY <1>2, HeapPlaces
<1>4. Timers("stray") = {}
  <2>1. IsFiniteSet({i \in 1 .. Len(heap) : heap[i] \in Strays})
    BY <1>3, CountOneMore
  <2>2. IsFiniteSet(Timers("stray")) /\ Cardinality(Timers("stray")) = 0
    BY <1>1, <1>3, <2>1
  <2> QED
    BY <2>2, FS_EmptySet
<1> QED
  BY <1>1, <1>3, <1>4

(* The server starts with an empty heap. *)
LEMMA TimerInit == Init => TimerInv
<1> SUFFICES ASSUME Init PROVE TimerInv
  OBVIOUS
<1>1. heap = << >> /\ cancelled = 0 /\ mode \in Modes /\ userCount = 0 /\ main = "loop"
      /\ owner = [f \in Fds |-> NoClient]
  BY DEF Init
<1>2. heap \in Seq(Timer) /\ Len(heap) = 0
  BY <1>1
<1>3. \A K : Count(heap, K) = 0
  BY <1>2, CountOneMore DEF Count
<1>4. Open = {}
  BY <1>1 DEF Open
<1>5. IsFiniteSet({}) /\ Cardinality({}) = 0
  BY FS_EmptySet
<1>6. Counted
  BY <1>1, <1>2, <1>3 DEF Counted
<1>7. Paired
  BY <1>1, <1>3, <1>4, <1>5 DEF Paired
<1> QED
  BY <1>6, <1>7 DEF TimerInv

(* A step that touches neither the timers nor the connections. *)
LEMMA TimerIdle ==
  ASSUME TimerInv, mode' = mode, owner' = owner, userCount' = userCount, heap' = heap,
         cancelled' = cancelled, mode = "proactor" => main' \in {"loop", "stopped"}
  PROVE  TimerInv'
<1>1. Open' = Open
  BY DEF Open
<1> QED
  BY <1>1 DEF TimerInv, Counted, Paired

(* adjust_timer, on a connection that is open. *)
LEMMA TimerAdjust ==
  ASSUME TimerInv, NEW f \in Fds, owner[f] # NoClient, AdjustTimer(f), mode' = mode,
         owner' = owner, userCount' = userCount,
         mode = "proactor" => main' \in {"loop", "stopped"}
  PROVE  TimerInv'
<1> DEFINE c == Cancel(At(f), Lifetime)
           p == PushHeap(c, NewTimer(f))
<1>1. heap \in Seq(Timer) /\ cancelled \in Nat /\ Count(heap, DeadOnes) <= cancelled
      /\ Count(heap, Own(f)) <= 1
  BY DEF TimerInv, Counted
<1>2. Lifetime \in Slots /\ NewTimer(f) \in Own(f) /\ NewTimer(f) \in Timer
  <2>1. 0 \in Slots
    BY LoopAssumption DEF Slots
  <2> QED
    BY <2>1, TimerFacts
<1>3. /\ c \in Seq(Timer)
      /\ \A g \in Fds : Count(c, Own(g)) = IF g = f THEN 0 ELSE Count(heap, Own(g))
      /\ Count(c, Strays) = Count(heap, Strays)
      /\ Count(c, DeadOnes) = Count(heap, DeadOnes) + Count(heap, Own(f))
  BY <1>1, <1>2, CancelCounts
<1>4. PurgeIfDue(p, cancelled + 1)
  BY DEF AdjustTimer
<1> HIDE DEF c
<1>5. p \in Seq(Timer) /\ \A K : Count(p, K) = Count(c, K) + One(NewTimer(f), K)
  BY <1>2, <1>3, PushCounts
<1>6. /\ \A g \in Fds : One(NewTimer(f), Own(g)) = IF g = f THEN 1 ELSE 0
      /\ One(NewTimer(f), Strays) = 0 /\ One(NewTimer(f), DeadOnes) = 0
  BY <1>2, KindsApart DEF One
<1> HIDE DEF p
<1>7. /\ heap' \in Seq(Timer) /\ cancelled' \in Nat
      /\ \A g \in Fds : Count(heap', Own(g)) = Count(p, Own(g))
      /\ Count(heap', Strays) = Count(p, Strays)
      /\ \/ Count(heap', DeadOnes) = 0 /\ cancelled' = 0
         \/ Count(heap', DeadOnes) = Count(p, DeadOnes) /\ cancelled' = cancelled + 1
  <2>1. cancelled + 1 \in Nat /\ p \in Seq(Timer)
    BY <1>1, <1>5
  <2> QED
    BY <1>4, <2>1, PurgeCounts
<1>8. /\ \A K : Count(heap, K) \in Nat
      /\ \A K : Count(c, K) \in Nat
  BY <1>1, <1>3, CountType
<1>9. \A g \in Fds : Count(heap', Own(g)) = IF g = f THEN 1 ELSE Count(heap, Own(g))
  BY <1>3, <1>5, <1>6, <1>7, <1>8
<1>10. Count(heap', Strays) = Count(heap, Strays)
  BY <1>3, <1>5, <1>6, <1>7, <1>8
<1>11. \/ Count(heap', DeadOnes) = 0 /\ cancelled' = 0
       \/ /\ Count(heap', DeadOnes) = Count(heap, DeadOnes) + Count(heap, Own(f))
          /\ cancelled' = cancelled + 1
  BY <1>3, <1>5, <1>6, <1>7, <1>8
<1>12. Counted'
  <2>1. Count(heap', DeadOnes) <= cancelled'
    BY <1>1, <1>8, <1>11
  <2>2. \A g \in Fds : Count(heap', Own(g)) <= 1
    BY <1>9 DEF TimerInv, Counted
  <2> QED
    BY <1>7, <2>1, <2>2 DEF Counted, TimerInv
<1>13. ASSUME mode = "proactor" PROVE Paired'
  <2>1. /\ \A g \in Fds : Count(heap, Own(g)) = IF owner[g] = NoClient THEN 0 ELSE 1
        /\ Count(heap, Strays) = 0 /\ Count(heap, DeadOnes) = cancelled
        /\ IsFiniteSet(Open) /\ userCount = Cardinality(Open)
    BY <1>13 DEF TimerInv, Paired
  <2>2. Open' = Open
    BY DEF Open
  <2>3. \A g \in Fds : Count(heap', Own(g)) = IF owner'[g] = NoClient THEN 0 ELSE 1
    BY <1>9, <2>1
  <2>4. Count(heap', DeadOnes) = cancelled'
    BY <1>11, <2>1
  <2> QED
    BY <1>10, <1>13, <2>1, <2>2, <2>3, <2>4 DEF Paired
<1> QED
  BY <1>12, <1>13 DEF TimerInv, Paired

(* deal_timer, on a connection that is open. *)
LEMMA TimerDeal ==
  ASSUME TimerInv, Kernel, NEW f \in Fds, owner[f] # NoClient, DealTimer(f), mode' = mode, main' = main
  PROVE  TimerInv'
<1>1. heap \in Seq(Timer) /\ cancelled \in Nat /\ Count(heap, DeadOnes) <= cancelled
      /\ Count(heap, Own(f)) <= 1
  BY DEF TimerInv, Counted
<1>2. 0 \in Slots
  BY LoopAssumption DEF Slots
<1>3. /\ heap' \in Seq(Timer)
      /\ \A g \in Fds : Count(heap', Own(g)) = IF g = f THEN 0 ELSE Count(heap, Own(g))
      /\ Count(heap', Strays) = Count(heap, Strays)
      /\ Count(heap', DeadOnes) = Count(heap, DeadOnes) + Count(heap, Own(f))
  <2>1. heap' = Cancel(At(f), 0)
    BY DEF DealTimer
  <2> QED
    BY <1>1, <1>2, <2>1, CancelCounts
<1>4. cancelled' = cancelled + 1 /\ userCount' = userCount - 1
      /\ \A g \in Fds : owner'[g] = IF g = f THEN NoClient ELSE owner[g]
  BY DEF DealTimer, CloseFds
<1>5. \A K : Count(heap, K) \in Nat
  BY <1>1, CountType
<1>6. Counted'
  <2>1. Count(heap', DeadOnes) <= cancelled' /\ cancelled' \in Nat
    BY <1>1, <1>3, <1>4, <1>5
  <2>2. \A g \in Fds : Count(heap', Own(g)) <= 1
    BY <1>3 DEF TimerInv, Counted
  <2> QED
    BY <1>3, <2>1, <2>2 DEF Counted, TimerInv
<1>7. ASSUME mode = "proactor" PROVE Paired'
  <2>1. /\ main \in {"loop", "stopped"}
        /\ \A g \in Fds : Count(heap, Own(g)) = IF owner[g] = NoClient THEN 0 ELSE 1
        /\ Count(heap, Strays) = 0 /\ Count(heap, DeadOnes) = cancelled
        /\ IsFiniteSet(Open) /\ userCount = Cardinality(Open)
    BY <1>7 DEF TimerInv, Paired
  <2>2. Open' = Open \ {f} /\ f \in Open
    BY <1>4 DEF Open
  <2>3. IsFiniteSet(Open \ {f}) /\ Cardinality(Open \ {f}) = Cardinality(Open) - 1
    BY <2>1, <2>2, FS_RemoveElement
  <2>4. \A g \in Fds : Count(heap', Own(g)) = IF owner'[g] = NoClient THEN 0 ELSE 1
    BY <1>3, <1>4, <2>1
  <2>5. Count(heap', DeadOnes) = cancelled'
    BY <1>3, <1>4, <2>1
  <2> QED
    BY <1>3, <1>4, <1>7, <2>1, <2>2, <2>3, <2>4, <2>5 DEF Paired
<1> QED
  BY <1>6, <1>7 DEF TimerInv, Paired

(* deal_timer with an old timer, which happens in the reactor model. *)
LEMMA TimerDealOld ==
  ASSUME TimerInv, mode # "proactor", mode' = mode, heap' = heap,
         cancelled' = cancelled \/ cancelled' = cancelled + 1
  PROVE  TimerInv'
<1>1. cancelled \in Nat /\ Count(heap, DeadOnes) <= cancelled /\ Count(heap, DeadOnes) \in Nat
  BY CountType DEF TimerInv, Counted
<1>2. cancelled' \in Nat /\ Count(heap', DeadOnes) <= cancelled'
  BY <1>1
<1>3. Counted'
  BY <1>2 DEF TimerInv, Counted
<1> QED
  BY <1>3 DEF TimerInv, Paired

(* Replacing the timers by others of the same sort. *)
LEMMA SameSorts ==
  ASSUME heap \in Seq(Timer), NEW s \in [1 .. Len(heap) -> Timer],
         \A i \in 1 .. Len(heap) : s[i].kind = heap[i].kind /\ s[i].fd = heap[i].fd
  PROVE  /\ s \in Seq(Timer) /\ Len(s) = Len(heap)
         /\ \A g \in Fds : Count(s, Own(g)) = Count(heap, Own(g))
         /\ Count(s, Strays) = Count(heap, Strays) /\ Count(s, DeadOnes) = Count(heap, DeadOnes)
<1> DEFINE n == Len(heap)
           Places(q, K) == {i \in 1 .. n : q[i] \in K}
<1>1. n \in Nat /\ \A i \in 1 .. n : heap[i] \in Timer /\ s[i] \in Timer
  BY HeapPlaces
<1>2. s \in Seq(Timer) /\ Len(s) = n
  BY <1>1, FunctionSeq
<1>3. /\ \A g \in Fds : Places(s, Own(g)) = Places(heap, Own(g))
      /\ Places(s, Strays) = Places(heap, Strays)
      /\ Places(s, DeadOnes) = Places(heap, DeadOnes)
  BY <1>1 DEF Own, Strays, DeadOnes
<1>4. \A K : Count(s, K) = Cardinality(Places(s, K)) /\ Count(heap, K) = Cardinality(Places(heap, K))
  BY <1>2 DEF Count, CountTo
<1> QED
  BY <1>2, <1>3, <1>4

(* A slot passes. *)
LEMMA TimerPass ==
  ASSUME TimerInv, Pass
  PROVE  TimerInv'
<1>1. heap \in Seq(Timer)
  BY DEF TimerInv, Counted
<1>2. /\ mode' = mode /\ owner' = owner /\ userCount' = userCount /\ cancelled' = cancelled
      /\ main' = main
  BY DEF Pass, kernelVars, mainVars
<1>3. DOMAIN heap = 1 .. Len(heap) /\ \A i \in 1 .. Len(heap) : heap[i] \in Timer
  BY <1>1, HeapPlaces
<1>4. heap' = [i \in 1 .. Len(heap) |->
                 [heap[i] EXCEPT !.left = IF heap[i].left = 0 THEN 0 ELSE heap[i].left - 1]]
  BY <1>3 DEF Pass
<1>5. ASSUME NEW i \in 1 .. Len(heap)
      PROVE  heap'[i] \in Timer /\ heap'[i].kind = heap[i].kind /\ heap'[i].fd = heap[i].fd
  <2> DEFINE l == IF heap[i].left = 0 THEN 0 ELSE heap[i].left - 1
  <2>1. heap[i] \in Timer
    BY <1>3
  <2>2. l \in Slots
    <3>1. heap[i].left \in Slots
      BY <2>1 DEF Timer
    <3> QED
      BY <3>1, LoopAssumption DEF Slots
  <2>3. heap'[i] = [heap[i] EXCEPT !.left = l]
    BY <1>4
  <2> HIDE DEF l
  <2> QED
    BY <2>1, <2>2, <2>3 DEF Timer
<1>6. heap' \in [1 .. Len(heap) -> Timer]
  BY <1>4, <1>5
<1>7. /\ heap' \in Seq(Timer)
      /\ \A g \in Fds : Count(heap', Own(g)) = Count(heap, Own(g))
      /\ Count(heap', Strays) = Count(heap, Strays)
      /\ Count(heap', DeadOnes) = Count(heap, DeadOnes)
  <2>1. PICK s : s = heap'
    OBVIOUS
  <2>2. s \in [1 .. Len(heap) -> Timer]
        /\ \A i \in 1 .. Len(heap) : s[i].kind = heap[i].kind /\ s[i].fd = heap[i].fd
    BY <1>5, <1>6, <2>1
  <2>3. /\ s \in Seq(Timer)
        /\ \A g \in Fds : Count(s, Own(g)) = Count(heap, Own(g))
        /\ Count(s, Strays) = Count(heap, Strays)
        /\ Count(s, DeadOnes) = Count(heap, DeadOnes)
    BY <1>1, <2>2, SameSorts
  <2> QED
    BY <2>1, <2>3
<1>8. Open' = Open
  BY <1>2 DEF Open
<1>9. Counted'
  BY <1>2, <1>7 DEF TimerInv, Counted
<1>10. Paired'
  BY <1>2, <1>7, <1>8 DEF TimerInv, Paired
<1> QED
  BY <1>9, <1>10 DEF TimerInv

(* A client is accepted: the timer that users_timer still pointed at, if   *)
(* there is one, is a stray now.                                           *)
LEMMA TimerAccept ==
  ASSUME TimerInv, Kernel, NEW f \in Fds, NEW c \in Clients, Accept(f, c)
  PROVE  TimerInv'
<1> DEFINE n == Len(heap)
           m == [i \in DOMAIN heap |->
                   IF i \in At(f) THEN [heap[i] EXCEPT !.kind = "stray"] ELSE heap[i]]
           Places(q, K) == {i \in 1 .. n : q[i] \in K}
<1>1. heap \in Seq(Timer) /\ cancelled \in Nat /\ Count(heap, DeadOnes) <= cancelled
      /\ \A g \in Fds : Count(heap, Own(g)) <= 1
  BY DEF TimerInv, Counted
<1>2. /\ n \in Nat /\ DOMAIN heap = 1 .. n /\ \A i \in 1 .. n : heap[i] \in Timer
      /\ At(f) = {i \in 1 .. n : heap[i] \in Own(f)}
  BY <1>1, HeapPlaces
<1>3. /\ mode' = mode /\ cancelled' = cancelled /\ main' = main /\ userCount' = userCount + 1
      /\ owner[f] = NoClient /\ owner' = [owner EXCEPT ![f] = c]
      /\ heap' = PushHeap(m, NewTimer(f))
  BY DEF Accept, mainVars
<1>4. ASSUME NEW i \in 1 .. n
      PROVE  IF heap[i] \in Own(f) THEN m[i] \in Strays ELSE m[i] = heap[i]
  <2>1. CASE heap[i] \in Own(f)
    <3>1. m[i] = [heap[i] EXCEPT !.kind = "stray"] /\ heap[i] \in Timer
      BY <1>2, <2>1
    <3> QED
      BY <2>1, <3>1 DEF Strays, Timer
  <2>2. CASE heap[i] \notin Own(f)
    BY <1>2, <2>2
  <2> QED
    BY <2>1, <2>2
<1>5. m = [i \in 1 .. n |-> m[i]]
  BY <1>2
<1> HIDE DEF m
<1>6. \A i \in 1 .. n : m[i] \in Timer
  BY <1>2, <1>4 DEF Strays
<1>7. m \in Seq(Timer) /\ Len(m) = n
  <2>1. m \in [1 .. n -> Timer]
    BY <1>5, <1>6
  <2> HIDE DEF n
  <2> QED
    BY <1>2, <2>1, FunctionSeq
<1>8. \A K : /\ Count(m, K) = Cardinality(Places(m, K)) /\ Count(heap, K) = Cardinality(Places(heap, K))
             /\ Count(m, K) \in Nat /\ Count(heap, K) \in Nat
  BY <1>1, <1>7, CountType DEF Count, CountTo
<1>9. \A g \in Fds : Count(m, Own(g)) = IF g = f THEN 0 ELSE Count(heap, Own(g))
  <2>1. Places(m, Own(f)) = {}
    BY <1>4, KindsApart
  <2>2. \A g \in Fds : g # f => Places(m, Own(g)) = Places(heap, Own(g))
    BY <1>4, KindsApart
  <2> QED
    BY <1>8, <2>1, <2>2, FS_EmptySet, ZenonT(40)
<1>10. Count(m, DeadOnes) = Count(heap, DeadOnes)
  <2>1. Places(m, DeadOnes) = Places(heap, DeadOnes)
    BY <1>4, KindsApart
  <2> QED
    BY <1>8, <2>1
<1>11. Count(heap, Own(f)) = 0 => Count(m, Strays) = Count(heap, Strays)
  <2> SUFFICES ASSUME Count(heap, Own(f)) = 0 PROVE Count(m, Strays) = Count(heap, Strays)
    OBVIOUS
  <2>1. IsFiniteSet(Places(heap, Own(f))) /\ Cardinality(Places(heap, Own(f))) = 0
    BY <1>2, <1>8, CountOneMore
  <2>2. Places(heap, Own(f)) = {}
    BY <2>1, FS_EmptySet
  <2>3. Places(m, Strays) = Places(heap, Strays)
    BY <1>4, <2>2
  <2> QED
    BY <1>8, <2>3
<1>12. /\ NewTimer(f) \in Timer
       /\ \A g \in Fds : One(NewTimer(f), Own(g)) = IF g = f THEN 1 ELSE 0
       /\ One(NewTimer(f), Strays) = 0 /\ One(NewTimer(f), DeadOnes) = 0
  <2>1. 0 \in Slots
    BY LoopAssumption DEF Slots
  <2>2. NewTimer(f) \in Timer /\ NewTimer(f) \in Own(f)
    BY <2>1, TimerFacts
  <2> QED
    BY <2>2, KindsApart DEF One
<1>13. heap' \in Seq(Timer) /\ \A K : Count(heap', K) = Count(m, K) + One(NewTimer(f), K)
  BY <1>3, <1>7, <1>12, PushCounts
<1>14. /\ \A g \in Fds : Count(heap', Own(g)) = IF g = f THEN 1 ELSE Count(heap, Own(g))
       /\ Count(heap', DeadOnes) = Count(heap, DeadOnes)
       /\ Count(heap, Own(f)) = 0 => Count(heap', Strays) = Count(heap, Strays)
  <2>1. \A g \in Fds : Count(heap', Own(g)) = IF g = f THEN 1 ELSE Count(heap, Own(g))
    BY <1>8, <1>9, <1>12, <1>13
  <2>2. Count(heap', DeadOnes) = Count(heap, DeadOnes)
    BY <1>8, <1>10, <1>12, <1>13
  <2>3. Count(heap, Own(f)) = 0 => Count(heap', Strays) = Count(heap, Strays)
    BY <1>8, <1>11, <1>12, <1>13
  <2> QED
    BY <2>1, <2>2, <2>3
<1>15. Counted'
  BY <1>1, <1>3, <1>13, <1>14 DEF TimerInv, Counted
<1>16. ASSUME mode = "proactor" PROVE Paired'
  <2>1. /\ main \in {"loop", "stopped"}
        /\ \A g \in Fds : Count(heap, Own(g)) = IF owner[g] = NoClient THEN 0 ELSE 1
        /\ Count(heap, Strays) = 0 /\ Count(heap, DeadOnes) = cancelled
        /\ IsFiniteSet(Open) /\ userCount = Cardinality(Open)
    BY <1>16 DEF TimerInv, Paired
  <2>2. \A g \in Fds : owner'[g] = IF g = f THEN c ELSE owner[g]
    BY <1>3 DEF Kernel
  <2>3. Open' = Open \cup {f} /\ f \notin Open
    BY <1>3, <2>2, LoopConstants DEF Open
  <2>4. IsFiniteSet(Open \cup {f}) /\ Cardinality(Open \cup {f}) = Cardinality(Open) + 1
    BY <2>1, <2>3, FS_AddElement
  <2>5. \A g \in Fds : Count(heap', Own(g)) = IF owner'[g] = NoClient THEN 0 ELSE 1
    BY <1>14, <2>1, <2>2, LoopConstants
  <2>6. Count(heap', Strays) = 0 /\ Count(heap', DeadOnes) = cancelled'
    BY <1>3, <1>14, <2>1
  <2> QED
    BY <1>3, <1>16, <2>1, <2>3, <2>4, <2>5, <2>6 DEF Paired
<1> QED
  BY <1>3, <1>15, <1>16 DEF TimerInv, Paired

(* A set of numbers that goes down to 1 is an interval. *)
LEMMA InitialSegment ==
  ASSUME NEW n \in Nat, NEW P \in SUBSET (1 .. n),
         \A k \in P : \A j \in 1 .. n : j <= k => j \in P
  PROVE  Cardinality(P) \in 0 .. n /\ P = 1 .. Cardinality(P)
<1> DEFINE D == {k \in Nat : k + 1 \notin P}
<1>1. n \in D
  OBVIOUS
<1>2. PICK m \in D : \A k \in D : m <= k
  BY <1>1, Least
<1>3. m \in 0 .. n
  BY <1>1, <1>2
<1>4. P = 1 .. m
  <2>1. ASSUME NEW j \in P PROVE j \in 1 .. m
    <3>1. m + 1 \notin P
      BY <1>2
    <3>2. m + 1 \in 1 .. n => ~ (m + 1 <= j)
      BY <2>1, <3>1
    <3> QED
      BY <1>3, <3>2
  <2>2. ASSUME NEW j \in 1 .. m PROVE j \in P
    <3>1. j - 1 \in Nat /\ ~ (m <= j - 1) /\ (j - 1) + 1 = j
      BY <1>3
    <3>2. j - 1 \notin D
      BY <1>2, <3>1
    <3> QED
      BY <3>1, <3>2
  <2> QED
    BY <2>1, <2>2
<1>5. Cardinality(1 .. m) = m
  BY <1>3, FS_Interval
<1> QED
  BY <1>3, <1>4, <1>5

(* tick *)
LEMMA TimerTick ==
  ASSUME TimerInv, Kernel, Tick
  PROVE  TimerInv'
<1> DEFINE n == Len(heap)
           order == PopOrder(heap)
           stops == {k \in 1 .. n : order[k].left > 0}
           popped == {k \in 1 .. n : \A j \in stops : k < j}
           due == {k \in popped : IsLive(order[k])}
           gone == {order[k].fd : k \in due}
           m == Cardinality(popped)
           p == Popped(heap, m)
<1>1. heap \in Seq(Timer) /\ cancelled \in Nat /\ Count(heap, DeadOnes) <= cancelled
      /\ \A g \in Fds : Count(heap, Own(g)) <= 1
  BY DEF TimerInv, Counted
<1>2. /\ n \in Nat /\ order \in Seq(Timer) /\ Len(order) = n
      /\ \A i \in 1 .. n : order[i] \in Timer
      /\ \A K : Count(order, K) = Count(heap, K)
  BY <1>1, HeapPlaces, PopOrderCounts
<1>3. /\ CloseFds(gone) /\ userCount' = userCount - Cardinality(due)
      /\ PurgeIfDue(p.rest, cancelled - Cardinality(popped \ due))
      /\ mode' = mode /\ main' = main
  BY DEF Tick, mainVars
<1> HIDE DEF n, order
<1>4. popped = 1 .. m /\ m \in 0 .. n /\ IsFiniteSet(popped)
  <2>1. popped \in SUBSET (1 .. n)
    OBVIOUS
  <2>2. ASSUME NEW k \in popped, NEW j \in 1 .. n, j <= k PROVE j \in popped
    <3>1. \A i \in stops : i \in 1 .. n /\ k < i
      OBVIOUS
    <3> HIDE DEF stops
    <3>2. \A i \in stops : j < i
      BY <1>2, <2>2, <3>1
    <3> QED
      BY <3>2
  <2> HIDE DEF popped
  <2>3. Cardinality(popped) \in 0 .. n /\ popped = 1 .. Cardinality(popped)
    BY <1>2, <2>1, <2>2, InitialSegment
  <2>4. IsFiniteSet(1 .. n)
    BY <1>2, FS_Interval
  <2>5. IsFiniteSet(popped)
    BY <2>1, <2>4, FS_Subset
  <2> QED
    BY <2>3, <2>5
<1> HIDE DEF popped, m
<1>5. /\ p.taken \in Seq(Timer) /\ Len(p.taken) = m /\ p.rest \in Seq(Timer)
      /\ \A K : Count(p.taken, K) + Count(p.rest, K) = Count(heap, K)
      /\ \A i \in 1 .. m : p.taken[i] = order[i]
  BY <1>1, <1>4, PoppedCounts DEF order, n
<1> HIDE DEF p
<1>6. \A K : /\ Count(p.taken, K) = Cardinality({i \in 1 .. m : order[i] \in K})
             /\ IsFiniteSet({i \in 1 .. m : order[i] \in K})
             /\ Count(p.taken, K) \in Nat /\ Count(p.rest, K) \in Nat /\ Count(heap, K) \in Nat
  <2>1. ASSUME NEW K
        PROVE  /\ Count(p.taken, K) = Cardinality({i \in 1 .. m : order[i] \in K})
               /\ IsFiniteSet({i \in 1 .. m : order[i] \in K})
    <3>1. m \in Nat
      BY <1>2, <1>4
    <3>2. CountTo(p.taken, m, K) = CountTo(order, m, K)
      BY <1>5, <3>1, CountSame
    <3>3. IsFiniteSet({i \in 1 .. m : order[i] \in K})
      BY <3>1, CountOneMore
    <3> QED
      BY <1>5, <3>2, <3>3 DEF Count, CountTo
  <2>2. \A K : Count(p.taken, K) \in Nat /\ Count(p.rest, K) \in Nat /\ Count(heap, K) \in Nat
    BY <1>1, <1>5, CountType
  <2> QED
    BY <2>1, <2>2
<1>7. \A i \in 1 .. m : i \in 1 .. n /\ order[i] \in Timer
  BY <1>2, <1>4
<1>8. Cardinality(popped \ due) = Count(p.taken, DeadOnes)
  <2>1. popped \ due = {i \in 1 .. m : order[i] \in DeadOnes}
    BY <1>4, <1>7 DEF IsLive, DeadOnes
  <2> QED
    BY <1>6, <2>1
<1> DEFINE left == cancelled - Count(p.taken, DeadOnes)
<1>9. /\ Count(p.rest, DeadOnes) <= left /\ left \in Nat
      /\ Count(heap, DeadOnes) = cancelled => Count(p.rest, DeadOnes) = left
  <2>1. Count(p.taken, DeadOnes) + Count(p.rest, DeadOnes) = Count(heap, DeadOnes)
    BY <1>5
  <2>2. /\ Count(p.taken, DeadOnes) \in Nat /\ Count(p.rest, DeadOnes) \in Nat
        /\ Count(heap, DeadOnes) \in Nat
    BY <1>6
  <2> QED
    BY <1>1, <2>1, <2>2
<1>10. PurgeIfDue(p.rest, left)
  BY <1>3, <1>8
<1> HIDE DEF left
<1>11. /\ heap' \in Seq(Timer) /\ cancelled' \in Nat
       /\ \A g \in Fds : Count(heap', Own(g)) = Count(p.rest, Own(g))
       /\ Count(heap', Strays) = Count(p.rest, Strays)
       /\ \/ Count(heap', DeadOnes) = 0 /\ cancelled' = 0
          \/ Count(heap', DeadOnes) = Count(p.rest, DeadOnes) /\ cancelled' = left
  BY <1>5, <1>9, <1>10, PurgeCounts
<1>12. \A g \in Fds : Count(heap', Own(g)) = Count(heap, Own(g)) - Count(p.taken, Own(g))
  <2>1. ASSUME NEW g \in Fds
        PROVE  Count(heap', Own(g)) = Count(heap, Own(g)) - Count(p.taken, Own(g))
    <3>1. Count(p.taken, Own(g)) + Count(p.rest, Own(g)) = Count(heap, Own(g))
      BY <1>5
    <3>2. /\ Count(p.taken, Own(g)) \in Nat /\ Count(p.rest, Own(g)) \in Nat
          /\ Count(heap, Own(g)) \in Nat
      BY <1>6
    <3> QED
      BY <1>11, <3>1, <3>2
  <2> QED
    BY <2>1
<1>13. Counted'
  <2>1. Count(heap', DeadOnes) <= cancelled'
    BY <1>6, <1>9, <1>11
  <2>2. ASSUME NEW g \in Fds PROVE Count(heap', Own(g)) <= 1
    <3>1. Count(heap', Own(g)) = Count(heap, Own(g)) - Count(p.taken, Own(g))
      BY <1>12
    <3>2. /\ Count(heap, Own(g)) <= 1 /\ Count(heap, Own(g)) \in Nat
          /\ Count(p.taken, Own(g)) \in Nat
      BY <1>1, <1>6
    <3> QED
      BY <3>1, <3>2
  <2> QED
    BY <1>3, <1>11, <2>1, <2>2 DEF Counted, TimerInv
<1>14. ASSUME mode = "proactor" PROVE Paired'
  <2>1. /\ main \in {"loop", "stopped"}
        /\ \A g \in Fds : Count(heap, Own(g)) = IF owner[g] = NoClient THEN 0 ELSE 1
        /\ Count(heap, Strays) = 0 /\ Count(heap, DeadOnes) = cancelled
        /\ IsFiniteSet(Open) /\ userCount = Cardinality(Open)
    BY <1>14 DEF TimerInv, Paired
  <2>2. Count(heap', Strays) = 0 /\ Count(p.taken, Strays) = 0
    <3>1. Count(p.taken, Strays) + Count(p.rest, Strays) = Count(heap, Strays)
      BY <1>5
    <3>2. Count(p.taken, Strays) \in Nat /\ Count(p.rest, Strays) \in Nat
      BY <1>6
    <3> QED
      BY <1>11, <2>1, <3>1, <3>2
  <2>3. Count(heap', DeadOnes) = cancelled'
    BY <1>9, <1>11, <2>1
  <2>4. \A k \in due : k \in 1 .. m /\ order[k] \in Timer /\ order[k].fd \in gone
                       /\ order[k].fd \in Fds /\ order[k] \in Own(order[k].fd)
    <3>1. {i \in 1 .. m : order[i] \in Strays} = {}
      BY <1>6, <2>2, FS_EmptySet
    <3>2. ASSUME NEW k \in due PROVE /\ k \in 1 .. m /\ order[k] \in Timer /\ order[k].fd \in gone
                                     /\ order[k].fd \in Fds /\ order[k] \in Own(order[k].fd)
      <4>1. k \in 1 .. m /\ order[k] \in Timer /\ IsLive(order[k]) /\ order[k].fd \in gone
        BY <1>4, <1>7
      <4>2. order[k] \notin Strays
        BY <3>1, <4>1
      <4> HIDE DEF due, gone
      <4> QED
        BY <4>1, <4>2 DEF IsLive, Strays, Own, Timer
    <3> QED
      BY <3>2
  <2>5. \A g \in Fds : {i \in 1 .. m : order[i] \in Own(g)} = {k \in due : order[k].fd = g}
    <3>1. ASSUME NEW g \in Fds, NEW i \in 1 .. m, order[i] \in Own(g)
          PROVE  i \in due /\ order[i].fd = g
      BY <1>4, <3>1 DEF Own, IsLive
    <3>2. ASSUME NEW g \in Fds, NEW k \in due, order[k].fd = g
          PROVE  k \in 1 .. m /\ order[k] \in Own(g)
      BY <2>4, <3>2
    <3> QED
      BY <3>1, <3>2
  <2>6. \A g \in Fds : /\ Count(p.taken, Own(g)) = Cardinality({k \in due : order[k].fd = g})
                       /\ IsFiniteSet({k \in due : order[k].fd = g})
                       /\ Count(p.taken, Own(g)) <= Count(heap, Own(g))
    <3>1. ASSUME NEW g \in Fds PROVE Count(p.taken, Own(g)) <= Count(heap, Own(g))
      <4>1. Count(p.taken, Own(g)) + Count(p.rest, Own(g)) = Count(heap, Own(g))
        BY <1>5
      <4>2. /\ Count(p.taken, Own(g)) \in Nat /\ Count(p.rest, Own(g)) \in Nat
            /\ Count(heap, Own(g)) \in Nat
        BY <1>6
      <4> QED
        BY <4>1, <4>2
    <3> QED
      BY <1>6, <2>5, <3>1
  <2> DEFINE Of(g) == {k \in due : order[k].fd = g}
  <2>7. IsFiniteSet(due)
    <3>1. due \in SUBSET popped
      OBVIOUS
    <3> HIDE DEF due
    <3> QED
      BY <1>4, <3>1, FS_Subset
  <2>8. \A g \in Fds : g \in gone => Count(p.taken, Own(g)) = 1 /\ owner[g] # NoClient
    <3>1. ASSUME NEW g \in Fds, g \in gone
          PROVE  Count(p.taken, Own(g)) = 1 /\ owner[g] # NoClient
      <4>1. Of(g) # {}
        BY <3>1
      <4> HIDE DEF gone, due
      <4>2. IsFiniteSet(Of(g)) /\ Count(p.taken, Own(g)) = Cardinality(Of(g))
        BY <2>6
      <4>3. Cardinality(Of(g)) # 0 /\ Cardinality(Of(g)) \in Nat
        BY <4>1, <4>2, FS_EmptySet, FS_CardinalityType
      <4>4. Count(p.taken, Own(g)) <= Count(heap, Own(g)) /\ Count(heap, Own(g)) \in Nat
        BY <1>6, <2>6
      <4>5. Count(heap, Own(g)) = IF owner[g] = NoClient THEN 0 ELSE 1
        BY <2>1
      <4> HIDE DEF Of
      <4> QED
        BY <4>2, <4>3, <4>4, <4>5
    <3> QED
      BY <3>1
  <2>9. \A g \in Fds : g \notin gone => Count(p.taken, Own(g)) = 0
    <3>1. ASSUME NEW g \in Fds, g \notin gone PROVE Count(p.taken, Own(g)) = 0
      <4>1. Of(g) = {}
        BY <3>1
      <4>2. Count(p.taken, Own(g)) = Cardinality(Of(g))
        BY <2>6
      <4> QED
        BY <4>1, <4>2, FS_EmptySet
    <3> QED
      BY <3>1
  <2>10. \A g \in Fds : owner'[g] = IF g \in gone THEN NoClient ELSE owner[g]
    BY <1>3 DEF CloseFds
  <2>11. gone \subseteq Fds
    BY <2>4
  <2>12. Open' = Open \ gone /\ gone \subseteq Open
    <3> HIDE DEF gone
    <3> QED
      BY <2>8, <2>10, <2>11 DEF Open
  <2>13. \A j, k \in due : order[j].fd = order[k].fd => j = k
    <3> SUFFICES ASSUME NEW j \in due, NEW k \in due, order[j].fd = order[k].fd, j # k PROVE FALSE
      OBVIOUS
    <3> DEFINE g == order[k].fd
    <3>1. g \in gone /\ g \in Fds /\ j \in Of(g) /\ k \in Of(g)
      BY <2>4
    <3> HIDE DEF gone, due, g
    <3>2. IsFiniteSet(Of(g)) /\ Cardinality(Of(g)) = 1
      BY <2>6, <2>8, <3>1
    <3>3. \E x : Of(g) = {x}
      <4> HIDE DEF Of
      <4> QED
        BY <3>2, FS_Singleton
    <3> HIDE DEF Of
    <3> QED
      BY <3>1, <3>3
  <2>14. IsFiniteSet(gone) /\ Cardinality(gone) = Cardinality(due)
    <3> DEFINE F == [k \in due |-> order[k].fd]
    <3>1. F \in [due -> gone] /\ \A k \in due : F[k] = order[k].fd
      OBVIOUS
    <3>2. \A g \in gone : \E k \in due : F[k] = g
      OBVIOUS
    <3> HIDE DEF due, gone, F
    <3>3. \A j, k \in due : F[j] = F[k] => j = k
      BY <2>13, <3>1
    <3>4. F \in Bijection(due, gone)
      BY <3>1, <3>2, <3>3 DEF Bijection, Injection, IsInjective, Surjection
    <3>5. ExistsBijection(due, gone)
      BY <3>4 DEF ExistsBijection
    <3> QED
      BY <2>7, <3>5, FS_Bijection
  <2> HIDE DEF gone, due
  <2>15. IsFiniteSet(Open \ gone) /\ Cardinality(Open \ gone) = Cardinality(Open) - Cardinality(gone)
    <3>1. Open \cap gone = gone
      BY <2>12
    <3>2. IsFiniteSet(Open \ gone)
          /\ Cardinality(Open \ gone) = Cardinality(Open) - Cardinality(Open \cap gone)
      BY <2>1, FS_Difference
    <3> QED
      BY <3>1, <3>2
  <2>16. \A g \in Fds : Count(heap', Own(g)) = IF owner'[g] = NoClient THEN 0 ELSE 1
    <3>1. ASSUME NEW g \in Fds PROVE Count(heap', Own(g)) = IF owner'[g] = NoClient THEN 0 ELSE 1
      <4>1. Count(heap', Own(g)) = Count(heap, Own(g)) - Count(p.taken, Own(g))
        BY <1>12
      <4>2. Count(heap, Own(g)) = IF owner[g] = NoClient THEN 0 ELSE 1
        BY <2>1
      <4>3. CASE g \in gone
        BY <2>8, <2>10, <4>1, <4>2, <4>3
      <4>4. CASE g \notin gone
        BY <2>9, <2>10, <4>1, <4>2, <4>4
      <4> QED
        BY <4>3, <4>4
    <3> QED
      BY <3>1
  <2>17. IsFiniteSet(Open') /\ userCount' = Cardinality(Open')
    BY <1>3, <2>1, <2>12, <2>14, <2>15
  <2> QED
    BY <1>3, <2>1, <2>2, <2>3, <2>16, <2>17 DEF Paired
<1> QED
  BY <1>3, <1>13, <1>14 DEF TimerInv, Paired

(* The invariant is inductive, next to that of the work. *)
LEMMA TimerStep == LoopInv /\ TimerInv /\ [Next]_vars => TimerInv'
<1> SUFFICES ASSUME LoopInv, TimerInv, [Next]_vars PROVE TimerInv'
  OBVIOUS
<1>1. Kernel /\ \A f \in Fds : armed[f] \in {"in", "out"} => owner[f] # NoClient
  BY DEF LoopInv, Kernel
<1>2. mode = "proactor" => main \in {"loop", "stopped"}
  BY DEF TimerInv, Paired
<1>3. CASE UNCHANGED vars \/ AcceptRefused \/ Stopped
  <2>1. mode' = mode /\ owner' = owner /\ userCount' = userCount /\ heap' = heap
        /\ cancelled' = cancelled /\ main' = main
    BY <1>3 DEF vars, AcceptRefused, Stopped, kernelVars, timerVars, mainVars
  <2> QED
    BY <1>2, <2>1, TimerIdle
<1>4. CASE SeeImprov \/ CallFreedTimer
  <2>1. /\ mode' = mode /\ owner' = owner /\ userCount' = userCount /\ heap' = heap
        /\ cancelled' = cancelled /\ mode # "proactor"
    BY <1>2, <1>4 DEF SeeImprov, CallFreedTimer, kernelVars, timerVars
  <2> QED
    BY <2>1, TimerIdle
<1>5. CASE Terminate
  <2>1. /\ mode' = mode /\ owner' = owner /\ userCount' = userCount /\ heap' = heap
        /\ cancelled' = cancelled /\ main' = "stopped"
    BY <1>5 DEF Terminate, kernelVars, timerVars
  <2> QED
    BY <2>1, TimerIdle
<1>6. CASE CheckTimerFlag
  <2>1. /\ mode' = mode /\ heap' = heap /\ mode # "proactor"
        /\ cancelled' = cancelled \/ cancelled' = cancelled + 1
    BY <1>2, <1>6 DEF CheckTimerFlag, DealOldTimer, timerVars
  <2> QED
    BY <2>1, TimerDealOld
<1>7. CASE Tick
  BY <1>1, <1>7, TimerTick
<1>8. CASE Pass
  BY <1>8, TimerPass
<1>9. CASE \E w \in Workers : WorkerStep(w)
  <2>1. PICK w \in Workers : WorkerStep(w)
    BY <1>9
  <2>2. mode' = mode /\ owner' = owner /\ userCount' = userCount /\ UNCHANGED timerVars
        /\ UNCHANGED mainVars
    <3>1. CASE Fetch(w) \/ WorkerReads(w) \/ SetTimerFlag(w)
      BY <3>1 DEF Fetch, WorkerReads, SetTimerFlag, kernelVars
    <3>2. CASE WorkerFails(w)
      BY <3>2 DEF WorkerFails, kernelVars, ModFd
    <3>3. ASSUME NEW event \in {"in", "out"}, WorkerWrites(w, event) \/ Process(w, event)
          PROVE  mode' = mode /\ owner' = owner /\ userCount' = userCount /\ UNCHANGED timerVars
                 /\ UNCHANGED mainVars
      BY <3>3 DEF WorkerWrites, Process, ModFd
    <3> QED
      BY <2>1, <3>1, <3>2, <3>3 DEF WorkerStep
  <2> QED
    BY <1>2, <2>2, TimerIdle DEF timerVars, mainVars
<1>10. ASSUME NEW f \in Fds, NEW c \in Clients, Accept(f, c) PROVE TimerInv'
  BY <1>1, <1>10, TimerAccept
<1>11. ASSUME NEW f \in Fds, Hangup(f) \/ CloseProactor(f) PROVE TimerInv'
  <2>1. armed[f] \in {"in", "out"} /\ DealTimer(f) /\ mode' = mode /\ main' = main
    BY <1>11 DEF Hangup, CloseProactor, mainVars
  <2> QED
    BY <1>1, <2>1, TimerDeal
<1>12. ASSUME NEW f \in Fds, ReadProactor(f) PROVE TimerInv'
  <2>1. armed[f] = "in" /\ AdjustTimer(f) /\ mode' = mode /\ main' = main /\ owner' = owner
        /\ userCount' = userCount
    BY <1>12 DEF ReadProactor, Report, OneShot, Rearmed, mainVars
  <2> QED
    BY <1>1, <1>2, <2>1, TimerAdjust
<1>13. ASSUME NEW f \in Fds, NEW event \in {"in", "out"}, WriteProactor(f, event) PROVE TimerInv'
  <2>1. armed[f] = "out" /\ AdjustTimer(f) /\ mode' = mode /\ main' = main /\ owner' = owner
        /\ userCount' = userCount
    BY <1>13 DEF WriteProactor, Report, Rearmed, mainVars
  <2> QED
    BY <1>1, <1>2, <2>1, TimerAdjust
<1>14. ASSUME NEW f \in Fds, NEW event \in {"in", "out"}, HandOver(f, event) PROVE TimerInv'
  <2>1. armed[f] = event /\ AdjustTimer(f) /\ mode' = mode /\ mode = "reactor" /\ owner' = owner
        /\ userCount' = userCount
    BY <1>14 DEF HandOver, Report, OneShot, Rearmed
  <2> QED
    BY <1>1, <2>1, TimerAdjust
<1> QED
  BY <1>3, <1>4, <1>5, <1>6, <1>7, <1>8, <1>9, <1>10, <1>11, <1>12, <1>13, <1>14 DEF Next, WaitImprov

(* In the proactor model a connection and its timer come and go together,  *)
(* whatever adjust_timer, deal_timer, tick and purge do to the heap and    *)
(* in whatever order the heap gives the timers out.                        *)
THEOREM LoopOneTimerEach == Spec => []OneTimerEach
<1>1. LoopInv /\ TimerInv /\ [Next]_vars => (LoopInv /\ TimerInv)'
  BY LoopStep, TimerStep
<1>2. Init => LoopInv /\ TimerInv
  BY LoopInit, TimerInit
<1>3. TimerInv => OneTimerEach
  BY TimerInvImplies
<1> QED
  BY <1>1, <1>2, <1>3, PTL DEF Spec

(* In the proactor model user_count is the number of open connections and  *)
(* m_cancelled_count that of the cancelled timers in the heap.             *)
THEOREM LoopCountsAgree == Spec => []CountsAgree
<1>1. LoopInv /\ TimerInv /\ [Next]_vars => (LoopInv /\ TimerInv)'
  BY LoopStep, TimerStep
<1>2. Init => LoopInv /\ TimerInv
  BY LoopInit, TimerInit
<1>3. TimerInv => CountsAgree
  BY TimerInvImplies
<1> QED
  BY <1>1, <1>2, <1>3, PTL DEF Spec

-----------------------------------------------------------------------------
(* Types *)

Others == /\ userCount \in Int
          /\ timeout \in BOOLEAN
          /\ Len(queue) <= MaxRequests
          /\ main \in {"loop", "wait", "check", "stopped", "crashed"}
          /\ freed \in BOOLEAN
          /\ improv \in [Fds -> BOOLEAN]
          /\ wronged \in BOOLEAN

(* What LoopInv and TimerInv leave to be said. *)
LEMMA TypesImply == LoopInv /\ TimerInv /\ Others => TypeOK
  BY DEF LoopInv, Kernel, Work, Flags, TimerInv, Counted, Timer, Others, TypeOK

(* They hold initially. *)
LEMMA OthersInit == Init => Others
<1> SUFFICES ASSUME Init PROVE Others
  OBVIOUS
<1>1. Len(queue) = 0 /\ MaxRequests \in Nat
  BY LoopAssumption DEF Init
<1>2. Len(queue) <= MaxRequests
  BY <1>1
<1>3. improv \in [Fds -> BOOLEAN]
  BY DEF Init
<1>4. userCount = 0 /\ timeout = FALSE /\ main = "loop" /\ freed = FALSE /\ wronged = FALSE
  BY DEF Init
<1>5. 0 \in Int
  OBVIOUS
<1> QED
  BY <1>2, <1>3, <1>4, <1>5, Zenon DEF Others

(* append and append_p keep the queue within m_max_requests. *)
LEMMA EnqueuedFits ==
  ASSUME LoopInv, Others, NEW f \in Fds, NEW event \in {"in", "out"}
  PROVE  Len(Enqueued(f, event)) <= MaxRequests
<1> DEFINE r == [fd |-> f, io |-> event, client |-> owner[f]]
<1>1. queue \in Seq(Job) /\ Len(queue) \in Nat /\ MaxRequests \in Nat /\ Len(queue) <= MaxRequests
  BY QueueFacts, LoopAssumption DEF LoopInv, Work, Others
<1>2. Len(Append(queue, r)) = Len(queue) + 1
  <2> HIDE DEF r
  <2> QED
    BY <1>1
<1>3. Enqueued(f, event) = IF Len(queue) < MaxRequests THEN Append(queue, r) ELSE queue
  BY DEF Enqueued
<1> HIDE DEF r
<1> QED
  BY <1>1, <1>2, <1>3

(* Every step keeps them. *)
LEMMA OthersStep == LoopInv /\ TimerInv /\ Others /\ [Next]_vars => Others'
<1> SUFFICES ASSUME LoopInv, TimerInv, Others, [Next]_vars PROVE Others'
  OBVIOUS
<1>0. /\ userCount \in Int /\ timeout \in BOOLEAN /\ Len(queue) <= MaxRequests
      /\ main \in {"loop", "wait", "check", "stopped", "crashed"}
      /\ freed \in BOOLEAN /\ improv \in [Fds -> BOOLEAN] /\ wronged \in BOOLEAN
  BY DEF Others
<1>1. CASE UNCHANGED vars \/ AcceptRefused \/ Stopped
  BY <1>0, <1>1 DEF vars, AcceptRefused, Stopped, workVars, mainVars, flagVars, historyVars, Others
<1>2. CASE SeeImprov \/ CallFreedTimer \/ Terminate \/ Pass
  BY <1>0, <1>2 DEF SeeImprov, CallFreedTimer, Terminate, Pass, workVars, mainVars, flagVars,
                    historyVars, Others
<1>3. CASE CheckTimerFlag
  <2>1. /\ timeout' = timeout /\ queue' = queue /\ wronged' = wronged /\ main' = "loop"
        /\ freed' = FALSE /\ improv' = [improv EXCEPT ![waiting] = FALSE]
    BY <1>3 DEF CheckTimerFlag, workVars
  <2>2. userCount' = userCount \/ userCount' = userCount - 1
    BY <1>3 DEF CheckTimerFlag, DealOldTimer
  <2>3. userCount' \in Int
    BY <1>0, <2>2
  <2>4. improv' \in [Fds -> BOOLEAN]
    BY <1>0, <2>1
  <2> QED
    BY <1>0, <2>1, <2>3, <2>4 DEF Others
<1>4. CASE Tick
  <2>1. timeout' = FALSE /\ UNCHANGED <<workVars, mainVars, flagVars>> /\ wronged' \in BOOLEAN
    BY <1>4 DEF Tick
  <2>2. userCount' \in Int
    <3> DEFINE order == PopOrder(heap)
               stops == {k \in 1 .. Len(heap) : order[k].left > 0}
               popped == {k \in 1 .. Len(heap) : \A j \in stops : k < j}
               due == {k \in popped : IsLive(order[k])}
    <3>1. due \in SUBSET (1 .. Len(heap)) /\ userCount' = userCount - Cardinality(due)
      BY <1>4 DEF Tick
    <3>2. Len(heap) \in Nat
      BY HeapPlaces DEF TimerInv, Counted
    <3> HIDE DEF due
    <3>3. IsFiniteSet(due)
      <4>1. IsFiniteSet(1 .. Len(heap))
        BY <3>2, FS_Interval
      <4> QED
        BY <3>1, <4>1, FS_Subset
    <3>4. Cardinality(due) \in Nat
      BY <3>3, FS_CardinalityType
    <3> QED
      BY <1>0, <3>1, <3>4
  <2> QED
    BY <1>0, <2>1, <2>2 DEF workVars, mainVars, flagVars, Others
<1>5. ASSUME NEW w \in Workers, WorkerStep(w) PROVE Others'
  <2>1. CASE Fetch(w)
    <3>1. /\ queue # << >> /\ queue' = Tail(queue)
          /\ UNCHANGED <<userCount, timeout, mainVars, flagVars, historyVars>>
      BY <2>1 DEF Fetch
    <3>2. queue \in Seq(Job) /\ Len(queue) \in Nat /\ MaxRequests \in Nat
      BY QueueFacts, LoopAssumption DEF LoopInv, Work
    <3>3. Len(queue') = Len(queue) - 1
      BY <3>1, <3>2, HeadTailProperties
    <3>4. Len(queue') <= MaxRequests
      BY <1>0, <3>2, <3>3
    <3> QED
      BY <1>0, <3>1, <3>4 DEF mainVars, flagVars, historyVars, Others
  <2>2. CASE WorkerReads(w) \/ WorkerFails(w)
    BY <1>0, <2>2 DEF WorkerReads, WorkerFails, SetImprov, GoOn, mainVars, historyVars, Others
  <2>3. CASE SetTimerFlag(w)
    BY <1>0, <2>3 DEF SetTimerFlag, GoOn, mainVars, historyVars, Others
  <2>4. ASSUME NEW event \in {"in", "out"}, WorkerWrites(w, event) \/ Process(w, event)
        PROVE  Others'
    BY <1>0, <2>4 DEF WorkerWrites, Process, SetImprov, GoOn, mainVars, flagVars, historyVars, Others
  <2> QED
    BY <1>5, <2>1, <2>2, <2>3, <2>4 DEF WorkerStep
<1>6. ASSUME NEW f \in Fds, NEW c \in Clients, Accept(f, c) PROVE Others'
  BY <1>0, <1>6 DEF Accept, workVars, mainVars, historyVars, Others
<1>7. ASSUME NEW f \in Fds, Hangup(f) \/ CloseProactor(f) PROVE Others'
  BY <1>0, <1>7 DEF Hangup, CloseProactor, DealTimer, workVars, mainVars, flagVars, historyVars, Others
<1>8. ASSUME NEW f \in Fds, ReadProactor(f) PROVE Others'
  <2>1. Len(queue') <= MaxRequests
    BY <1>8, EnqueuedFits DEF ReadProactor
  <2> QED
    BY <1>0, <1>8, <2>1 DEF ReadProactor, mainVars, flagVars, historyVars, Others
<1>9. ASSUME NEW f \in Fds, NEW event \in {"in", "out"}, WriteProactor(f, event) PROVE Others'
  BY <1>0, <1>9 DEF WriteProactor, workVars, mainVars, flagVars, historyVars, Others
<1>10. ASSUME NEW f \in Fds, NEW event \in {"in", "out"}, HandOver(f, event) PROVE Others'
  <2>1. Len(queue') <= MaxRequests
    BY <1>10, EnqueuedFits DEF HandOver
  <2> QED
    BY <1>0, <1>10, <2>1 DEF HandOver, flagVars, historyVars, Others
<1> QED
  BY <1>1, <1>2, <1>3, <1>4, <1>5, <1>6, <1>7, <1>8, <1>9, <1>10 DEF Next, WaitImprov

(* Every variable has its type: no step of either model overfills          *)
(* m_workqueue, and tick never takes more from m_cancelled_count than the  *)
(* cancelled timers it pops, of which there are no more than that.         *)
THEOREM LoopTyping == Spec => []TypeOK
<1>1. LoopInv /\ TimerInv /\ Others /\ [Next]_vars => (LoopInv /\ TimerInv /\ Others)'
  BY LoopStep, TimerStep, OthersStep
<1>2. Init => LoopInv /\ TimerInv /\ Others
  BY LoopInit, TimerInit, OthersInit
<1> QED
  BY <1>1, <1>2, TypesImply, PTL DEF Spec

-----------------------------------------------------------------------------
(* What tick closes in the proactor model *)

(* Nothing else runs there but the connections' own timers. *)
LEMMA TickOwn ==
  ASSUME TimerInv, mode = "proactor", NEW k \in 1 .. Len(heap), IsLive(PopOrder(heap)[k])
  PROVE  PopOrder(heap)[k].kind = "current"
<1> DEFINE order == PopOrder(heap)
           n == Len(heap)
<1>1. heap \in Seq(Timer) /\ Count(heap, Strays) = 0
  BY DEF TimerInv, Counted, Paired
<1>2. /\ n \in Nat /\ Len(order) = n /\ \A i \in 1 .. n : order[i] \in Timer
      /\ Count(order, Strays) = Count(heap, Strays)
  BY <1>1, HeapPlaces, PopOrderCounts
<1> HIDE DEF order, n
<1>3. /\ IsFiniteSet({i \in 1 .. n : order[i] \in Strays})
      /\ Cardinality({i \in 1 .. n : order[i] \in Strays}) = 0
  <2>1. CountTo(order, n, Strays) = 0
    BY <1>1, <1>2 DEF Count
  <2>2. IsFiniteSet({i \in 1 .. n : order[i] \in Strays})
    BY <1>2, CountOneMore
  <2> QED
    BY <2>1, <2>2 DEF CountTo
<1>4. {i \in 1 .. n : order[i] \in Strays} = {}
  BY <1>3, FS_EmptySet
<1>5. k \in 1 .. n /\ IsLive(order[k])
  BY DEF order, n
<1>6. order[k] \in Timer /\ order[k] \notin Strays
  BY <1>2, <1>4, <1>5
<1>7. order[k].kind = "current"
  BY <1>5, <1>6 DEF IsLive, Strays, Timer
<1> QED
  BY <1>7 DEF order

(* Tick closes no connection whose own timer has not expired. *)
LEMMA InactiveStep ==
  ASSUME TimerInv, ProactorClosesInactive, [Next]_vars
  PROVE  ProactorClosesInactive'
<1>1. mode' = mode
  BY DEF Next, vars, Accept, Hangup, ReadProactor, CloseProactor, WriteProactor, HandOver,
         AcceptRefused, WaitImprov, SeeImprov, CheckTimerFlag, CallFreedTimer, Tick, Terminate,
         Stopped, WorkerStep, Fetch, WorkerReads, WorkerFails, SetTimerFlag, WorkerWrites, Process,
         Pass
<1>2. CASE Tick
  <2> SUFFICES ASSUME mode = "proactor" PROVE ~ wronged'
    BY <1>1 DEF ProactorClosesInactive, ClosesInactive
  <2> DEFINE order == PopOrder(heap)
             stops == {k \in 1 .. Len(heap) : order[k].left > 0}
             popped == {k \in 1 .. Len(heap) : \A j \in stops : k < j}
             due == {k \in popped : IsLive(order[k])}
             gone == {order[k].fd : k \in due}
             own == {order[k].fd : k \in {j \in due : order[j].kind = "current"}}
  <2>1. wronged' = (wronged \/ \E f \in gone \ own : owner[f] # NoClient)
    BY <1>2 DEF Tick
  <2>2. \A k \in due : k \in 1 .. Len(heap) /\ IsLive(PopOrder(heap)[k])
    OBVIOUS
  <2> HIDE DEF popped
  <2>3. \A k \in due : order[k].kind = "current"
    <3> HIDE DEF due
    <3> QED
      BY <2>2, TickOwn
  <2>4. {j \in due : order[j].kind = "current"} = due
    <3> HIDE DEF due
    <3> QED
      BY <2>3
  <2>5. gone \ own = {}
    <3> HIDE DEF due
    <3> QED
      BY <2>4
  <2>6. ~ wronged
    BY DEF ProactorClosesInactive, ClosesInactive
  <2> HIDE DEF gone, own
  <2> QED
    BY <2>1, <2>5, <2>6
<1>3. CASE ~ Tick
  <2>1. wronged' = wronged
    BY <1>3 DEF Next, vars, Accept, Hangup, ReadProactor, CloseProactor, WriteProactor, HandOver,
         AcceptRefused, WaitImprov, SeeImprov, CheckTimerFlag, CallFreedTimer, Terminate,
         Stopped, WorkerStep, Fetch, WorkerReads, WorkerFails, SetTimerFlag, WorkerWrites, Process,
         Pass, historyVars
  <2> QED
    BY <1>1, <2>1 DEF ProactorClosesInactive, ClosesInactive
<1> QED
  BY <1>2, <1>3

(* In the proactor model the timer closes only connections whose own       *)
(* timer, which every read and write restarts, has expired.                *)
THEOREM LoopClosesInactive == Spec => []ProactorClosesInactive
<1>1. LoopInv /\ TimerInv /\ [Next]_vars => (LoopInv /\ TimerInv)'
  BY LoopStep, TimerStep
<1>2. Init => LoopInv /\ TimerInv
  BY LoopInit, TimerInit
<1>3. Init => ProactorClosesInactive
  BY DEF Init, ProactorClosesInactive, ClosesInactive
<1>4. TimerInv /\ ProactorClosesInactive /\ [Next]_vars => ProactorClosesInactive'
  BY InactiveStep
<1> QED
  BY <1>1, <1>2, <1>3, <1>4, PTL DEF Spec
=============================================================================
