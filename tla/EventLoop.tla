----------------------------- MODULE EventLoop -----------------------------
(***************************************************************************)
(* The main thread of the server (src/core/webserver.cpp) with its idle    *)
(* timers (src/timer/lst_timer.cpp) and the hand-over of connections to    *)
(* the workers, in both concurrency models: proactor, in which the main    *)
(* thread reads and writes, and reactor, in which the workers do and the   *)
(* main thread spins on improv until they have.                            *)
(*                                                                         *)
(* The tables users and users_timer are indexed by descriptor, so what the *)
(* code knows is a descriptor; who is connected to it is known to the      *)
(* kernel only (owner).  What a request says is left to the outcomes of    *)
(* read_once, process and write.  The work queue's own synchronisation is  *)
(* the subject of ThreadPool, whose QueuedIsTaken justifies the fairness   *)
(* of the workers here.  process_write cannot fail on the responses that   *)
(* process_read can ask for, so process() never calls close_conn.          *)
(*                                                                         *)
(* Time is counted in slots of TIMESLOT seconds.                           *)
(***************************************************************************)
EXTENDS TimerHeap, Integers, FiniteSets

CONSTANTS Fds,          \* descriptors that accept may return
          Clients,
          NoClient,
          Workers,
          Modes,        \* the values of m_actormodel: "proactor", "reactor"
          Lifetime,     \* a timer runs for 3 * TIMESLOT
          PurgeLimit,   \* cancelled timers that make the heap be rebuilt (512)
          MaxUsers,     \* MAX_FD
          MaxRequests,  \* m_max_requests
          MaxCancelled  \* bound on m_cancelled_count when a client is let in

ASSUME LoopAssumption ==
  /\ Fds # {} /\ NoClient \notin Clients
  /\ Modes \subseteq {"proactor", "reactor"}
  /\ {Lifetime, PurgeLimit, MaxUsers, MaxRequests} \subseteq Nat \ {0}
  /\ MaxCancelled \in Nat

VARIABLES mode,         \* m_actormodel
          owner,        \* kernel: the client a descriptor is connected to
          armed,        \* epoll: the event awaited on the descriptor, "off" after
                        \*   EPOLLONESHOT has reported one, "none" if not registered
          userCount,    \* HttpConn::user_count
          heap,         \* m_heap: the slots a timer has left, its descriptor, and
                        \*   its kind: "current" if users_timer points at it,
                        \*   "stray" if not, "dead" once it is cancelled
          cancelled,    \* m_cancelled_count
          timeout,      \* SIGALRM has been sent and not been handled
          queue,        \* m_workqueue: requests [fd, io, client (history)]
          job,          \* the request the worker serves
          step,         \* what the worker does next
          main,         \* where the main thread is
          waiting,      \* the descriptor that wait_improv waits for
          freed,        \* purge has deleted the timer that wait_improv was given
          improv, timerFlag,
          overrun,      \* history: a connection has been closed that a worker was
                        \*   about to serve or was serving
          wronged       \* history: a connection has been closed by tick although its
                        \*   own timer had not expired

timerVars == <<heap, cancelled>>
kernelVars == <<owner, armed>>
workVars == <<queue, job, step>>
flagVars == <<improv, timerFlag>>
mainVars == <<main, waiting, freed>>
historyVars == <<overrun, wronged>>
vars == <<mode, kernelVars, userCount, timerVars, timeout, workVars, mainVars, flagVars,
          historyVars>>

Slots == 0 .. Lifetime
AnyFd == CHOOSE f \in Fds : TRUE
NoJob == [fd |-> AnyFd, io |-> "none", client |-> NoClient]

Init == /\ mode \in Modes
        /\ owner = [f \in Fds |-> NoClient]
        /\ armed = [f \in Fds |-> "none"]
        /\ userCount = 0
        /\ heap = << >>
        /\ cancelled = 0
        /\ timeout = FALSE
        /\ queue = << >>
        /\ job = [w \in Workers |-> NoJob]
        /\ step = [w \in Workers |-> "idle"]
        /\ main = "loop"
        /\ waiting = AnyFd
        /\ freed = FALSE
        /\ improv = [f \in Fds |-> FALSE]
        /\ timerFlag = [f \in Fds |-> FALSE]
        /\ overrun = FALSE
        /\ wronged = FALSE

-----------------------------------------------------------------------------
(* sort_timer_lst *)

Timers(kind) == {i \in DOMAIN heap : heap[i].kind = kind}

NewTimer(f) == [fd |-> f, left |-> Lifetime, kind |-> "current"]

Dead(left) == [fd |-> AnyFd, left |-> left, kind |-> "dead"]

(* Where users_timer[f].timer is in the heap. *)
At(f) == {i \in Timers("current") : heap[i].fd = f}

(* Timer i is cancelled and stays in the heap. *)
Cancel(S, left) ==
  [i \in DOMAIN heap |-> IF i \in S THEN Dead(IF left = 0 THEN heap[i].left ELSE left)
                                    ELSE heap[i]]

IsLive(t) == t.kind # "dead"

(* Everything is popped, and what is not cancelled pushed again. *)
Rebuilt(h) ==
  LET order == PopOrder(h)
      pushed[k \in 0 .. Len(h)] ==
        IF k = 0 THEN << >>
        ELSE IF IsLive(order[k]) THEN PushHeap(pushed[k - 1], order[k]) ELSE pushed[k - 1]
  IN pushed[Len(h)]

(* Seeded fault: the heap is rebuilt but its count is kept. *)
PurgeKeepsCount(h, count) ==
  /\ heap' = IF count >= PurgeLimit THEN Rebuilt(h) ELSE h
  /\ cancelled' = count

(* purge, when there is enough to throw away. *)
PurgeIfDue(h, count) ==
  IF count >= PurgeLimit
    THEN heap' = Rebuilt(h) /\ cancelled' = 0
    ELSE heap' = h /\ cancelled' = count

(* Seeded fault: the new timer is not put into the heap. *)
AdjustForgets(f) == PurgeIfDue(Cancel(At(f), Lifetime), cancelled + 1)

(* WebServer::adjust_timer: the old timer is given the new expiry where it *)
(* is in the heap, and cancelled; a new one with that expiry is pushed.    *)
AdjustTimer(f) ==
  PurgeIfDue(PushHeap(Cancel(At(f), Lifetime), NewTimer(f)), cancelled + 1)

(* cb_func: the descriptors leave epoll and are closed. *)
CloseFds(S) ==
  /\ owner' = [f \in Fds |-> IF f \in S THEN NoClient ELSE owner[f]]
  /\ armed' = [f \in Fds |-> IF f \in S THEN "none" ELSE armed[f]]

(* Seeded fault: the callback only; the timer is not cancelled. *)
DealTimerKeeps(f) ==
  /\ CloseFds({f})
  /\ userCount' = userCount - 1
  /\ UNCHANGED timerVars

(* WebServer::deal_timer: the callback, then del_timer. *)
DealTimer(f) ==
  /\ CloseFds({f})
  /\ userCount' = userCount - 1
  /\ heap' = Cancel(At(f), 0)
  /\ cancelled' = cancelled + 1

(* deal_timer with a timer that adjust_timer has cancelled, and perhaps    *)
(* purged, before: the connection's own timer runs on.                     *)
DealOldTimer(f) ==
  /\ CloseFds({f})
  /\ userCount' = userCount - 1
  /\ cancelled' = cancelled + 1
  /\ UNCHANGED heap

-----------------------------------------------------------------------------
(* The main thread *)

(* The requests that a worker serves or will serve. *)
Busy == {[fd |-> queue[i].fd, client |-> queue[i].client] : i \in DOMAIN queue}
          \cup {[fd |-> job[w].fd, client |-> job[w].client] :
                  w \in {v \in Workers : step[v] \in {"io", "process"}}}

(* The descriptors in S are closed: does that cut off a request? *)
CutsOff(S) == \E f \in S : [fd |-> f, client |-> owner[f]] \in Busy

AtLoop == main = "loop"

(* Bounds: cancelled timers, timers in all, and how far user_count may be  *)
(* off before another client is let in.                                    *)
WithinBounds == /\ cancelled < MaxCancelled
                /\ Cardinality(Timers("current") \cup Timers("stray")) < Cardinality(Fds)
                /\ userCount >= 0

(* dealclientdata and timer: a client is accepted.  users_timer forgets    *)
(* the descriptor's last timer, whether or not it still runs.              *)
Accept(f, c) ==
  /\ AtLoop
  /\ owner[f] = NoClient /\ \A g \in Fds : owner[g] # c
  /\ userCount < MaxUsers
  /\ WithinBounds
  /\ owner' = [owner EXCEPT ![f] = c]
  /\ armed' = [armed EXCEPT ![f] = "in"]
  /\ userCount' = userCount + 1
  /\ improv' = [improv EXCEPT ![f] = FALSE]
  /\ timerFlag' = [timerFlag EXCEPT ![f] = FALSE]
  /\ heap' = PushHeap([i \in DOMAIN heap |->
                         IF i \in At(f) THEN [heap[i] EXCEPT !.kind = "stray"] ELSE heap[i]],
                      NewTimer(f))
  /\ UNCHANGED <<mode, cancelled, timeout, workVars, mainVars, historyVars>>

(* user_count has reached MAX_FD: the new descriptor, which is in none of  *)
(* the tables, is closed at once.                                          *)
AcceptRefused ==
  /\ AtLoop
  /\ userCount >= MaxUsers
  /\ UNCHANGED vars

(* EPOLLRDHUP, EPOLLHUP or EPOLLERR. *)
Hangup(f) ==
  /\ AtLoop
  /\ armed[f] \in {"in", "out"}
  /\ DealTimer(f)
  /\ UNCHANGED <<mode, timeout, workVars, mainVars, flagVars, historyVars>>

Report(f, event) == AtLoop /\ armed[f] = event

(* Seeded fault: the size check is off by one. *)
EnqueuedOneMore(f, event) ==
  IF Len(queue) <= MaxRequests
    THEN Append(queue, [fd |-> f, io |-> event, client |-> owner[f]])
    ELSE queue

(* append and append_p; whether they took the request is not looked at. *)
Enqueued(f, event) ==
  IF Len(queue) < MaxRequests
    THEN Append(queue, [fd |-> f, io |-> event, client |-> owner[f]])
    ELSE queue

Rearmed(f, event) == armed' = [armed EXCEPT ![f] = event] /\ UNCHANGED owner

(* Seeded fault: the descriptor was registered without EPOLLONESHOT. *)
KeepReporting(f) == UNCHANGED kernelVars

(* EPOLLONESHOT: a reported descriptor is silent until mod_fd. *)
OneShot(f) == Rearmed(f, "off")

(* dealwithread, proactor, read_once succeeded. *)
ReadProactor(f) ==
  /\ mode = "proactor"
  /\ Report(f, "in")
  /\ OneShot(f)
  /\ queue' = Enqueued(f, "in")
  /\ AdjustTimer(f)
  /\ UNCHANGED <<mode, userCount, timeout, job, step, mainVars, flagVars, historyVars>>

(* dealwithwrite, proactor: the response is sent in part (EPOLLOUT is      *)
(* awaited again) or in full on a connection that is kept alive.           *)
WriteProactor(f, event) ==
  /\ mode = "proactor"
  /\ Report(f, "out")
  /\ Rearmed(f, event)
  /\ AdjustTimer(f)
  /\ UNCHANGED <<mode, userCount, timeout, workVars, mainVars, flagVars, historyVars>>

(* read_once or write returned false: an error, the end of the stream, or  *)
(* a response sent in full on a connection that is not kept alive.         *)
CloseProactor(f) ==
  /\ mode = "proactor"
  /\ AtLoop /\ armed[f] \in {"in", "out"}
  /\ DealTimer(f)
  /\ UNCHANGED <<mode, timeout, workVars, mainVars, flagVars, historyVars>>

(* dealwithread and dealwithwrite, reactor.  The local timer still is the  *)
(* one that adjust_timer has cancelled.                                    *)
HandOver(f, event) ==
  /\ mode = "reactor"
  /\ Report(f, event)
  /\ OneShot(f)
  /\ AdjustTimer(f)
  /\ queue' = Enqueued(f, event)
  /\ main' = "wait"
  /\ waiting' = f
  /\ freed' = (cancelled + 1 >= PurgeLimit)
  /\ UNCHANGED <<mode, userCount, timeout, job, step, flagVars, historyVars>>

(* wait_improv: improv is seen ... *)
SeeImprov ==
  /\ main = "wait"
  /\ improv[waiting]
  /\ main' = "check"
  /\ UNCHANGED <<mode, kernelVars, userCount, timerVars, timeout, workVars, waiting, freed,
                 flagVars, historyVars>>

(* ... and then timer_flag is looked at. *)
CheckTimerFlag ==
  /\ main = "check"
  /\ IF timerFlag[waiting]
       THEN DealOldTimer(waiting)
       ELSE UNCHANGED <<kernelVars, userCount, timerVars>>
  /\ timerFlag' = [timerFlag EXCEPT ![waiting] = FALSE]
  /\ improv' = [improv EXCEPT ![waiting] = FALSE]
  /\ overrun' = (overrun \/ (timerFlag[waiting] /\ CutsOff({waiting})))
  /\ main' = "loop"
  /\ waiting' = AnyFd
  /\ freed' = FALSE
  /\ UNCHANGED <<mode, timeout, workVars, wronged>>

(* deal_timer calls cb_func through the timer it is given, which purge may *)
(* have deleted in the meantime.  That need not, but may, be the end.      *)
CallFreedTimer ==
  /\ main = "check"
  /\ timerFlag[waiting] /\ freed
  /\ main' = "crashed"
  /\ UNCHANGED <<mode, kernelVars, userCount, timerVars, timeout, workVars, waiting, freed,
                 flagVars, historyVars>>

Ended == main \in {"stopped", "crashed"}

(* A slot passes.  alarm was set a slot ago unless SIGALRM still waits to  *)
(* be handled.  How long ago a timer has expired is not kept.              *)
Pass ==
  /\ ~ Ended
  /\ timeout' = TRUE
  /\ heap' = [i \in DOMAIN heap |-> [heap[i] EXCEPT !.left = IF @ = 0 THEN 0 ELSE @ - 1]]
  /\ UNCHANGED <<mode, kernelVars, userCount, cancelled, workVars, mainVars, flagVars,
                 historyVars>>

(* timer_handler: tick pops timers until the one on top has not expired,   *)
(* and calls back those of them that have not been cancelled.              *)
Tick ==
  LET order == PopOrder(heap)
      stops == {k \in 1 .. Len(heap) : order[k].left > 0}
      popped == {k \in 1 .. Len(heap) : \A j \in stops : k < j}
      due == {k \in popped : IsLive(order[k])}
      gone == {order[k].fd : k \in due}
      own == {order[k].fd : k \in {j \in due : order[j].kind = "current"}}
  IN
  /\ AtLoop
  /\ timeout
  /\ CloseFds(gone)
  /\ userCount' = userCount - Cardinality(due)
  /\ PurgeIfDue(Popped(heap, Cardinality(popped)).rest, cancelled - Cardinality(popped \ due))
  /\ timeout' = FALSE
  /\ overrun' = (overrun \/ CutsOff(gone))
  /\ wronged' = (wronged \/ \E f \in gone \ own : owner[f] # NoClient)
  /\ UNCHANGED <<mode, workVars, mainVars, flagVars>>

(* SIGTERM ends the loop. *)
Terminate ==
  /\ AtLoop
  /\ main' = "stopped"
  /\ UNCHANGED <<mode, kernelVars, userCount, timerVars, timeout, workVars, waiting, freed,
                 flagVars, historyVars>>

Stopped == Ended /\ UNCHANGED vars

-----------------------------------------------------------------------------
(* The workers *)

Fetch(w) ==
  /\ step[w] = "idle"
  /\ queue # << >>
  /\ job' = [job EXCEPT ![w] = Head(queue)]
  /\ queue' = Tail(queue)
  /\ step' = [step EXCEPT ![w] = IF mode = "proactor" THEN "process" ELSE "io"]
  /\ UNCHANGED <<mode, kernelVars, userCount, timerVars, timeout, mainVars, flagVars,
                 historyVars>>

(* mod_fd fails on a descriptor that is not registered. *)
ModFd(f, event) ==
  /\ armed' = IF armed[f] = "none" THEN armed ELSE [armed EXCEPT ![f] = event]
  /\ UNCHANGED owner

SetImprov(f) == improv' = [improv EXCEPT ![f] = TRUE] /\ UNCHANGED timerFlag

GoOn(w, next) == /\ step' = [step EXCEPT ![w] = next]
                 /\ job' = IF next = "idle" THEN [job EXCEPT ![w] = NoJob] ELSE job
                 /\ UNCHANGED queue

(* Reactor: read_once succeeded. *)
WorkerReads(w) ==
  /\ step[w] = "io" /\ job[w].io = "in"
  /\ SetImprov(job[w].fd)
  /\ GoOn(w, "process")
  /\ UNCHANGED <<mode, kernelVars, userCount, timerVars, timeout, mainVars, historyVars>>

(* Reactor: write sent something and wants the next event, or everything   *)
(* on a connection that is kept alive (reset_state also clears the flags). *)
WorkerWrites(w, event) ==
  /\ step[w] = "io" /\ job[w].io = "out"
  /\ ModFd(job[w].fd, event)
  /\ IF event = "in"
       THEN /\ improv' = [improv EXCEPT ![job[w].fd] = TRUE]
            /\ timerFlag' = [timerFlag EXCEPT ![job[w].fd] = FALSE]
       ELSE SetImprov(job[w].fd)
  /\ GoOn(w, "idle")
  /\ UNCHANGED <<mode, userCount, timerVars, timeout, mainVars, historyVars>>

(* Seeded fault: a failure is not signalled to the main thread. *)
WorkerFailsSilently(w) ==
  /\ step[w] = "io"
  /\ GoOn(w, "flag")
  /\ UNCHANGED <<mode, kernelVars, userCount, timerVars, timeout, mainVars, flagVars,
                 historyVars>>

(* Reactor: read_once or write returned false.  After a full response on a *)
(* connection that is not kept alive, EPOLLIN has been armed before.       *)
WorkerFails(w) ==
  /\ step[w] = "io"
  /\ \/ UNCHANGED kernelVars
     \/ job[w].io = "out" /\ ModFd(job[w].fd, "in")
  /\ SetImprov(job[w].fd)
  /\ GoOn(w, "flag")
  /\ UNCHANGED <<mode, userCount, timerVars, timeout, mainVars, historyVars>>

SetTimerFlag(w) ==
  /\ step[w] = "flag"
  /\ timerFlag' = [timerFlag EXCEPT ![job[w].fd] = TRUE]
  /\ GoOn(w, "idle")
  /\ UNCHANGED <<mode, kernelVars, userCount, timerVars, timeout, mainVars, improv,
                 historyVars>>

(* process(): more input is needed, or a response is ready to be sent. *)
Process(w, event) ==
  /\ step[w] = "process"
  /\ ModFd(job[w].fd, event)
  /\ GoOn(w, "idle")
  /\ UNCHANGED <<mode, userCount, timerVars, timeout, mainVars, flagVars, historyVars>>

WorkerStep(w) ==
  /\ main # "crashed"
  /\ \/ Fetch(w) \/ WorkerReads(w) \/ WorkerFails(w) \/ SetTimerFlag(w)
     \/ \E event \in {"in", "out"} : WorkerWrites(w, event) \/ Process(w, event)

WaitImprov == SeeImprov \/ CheckTimerFlag \/ CallFreedTimer

Next ==
  \/ \E f \in Fds :
       \/ \E c \in Clients : Accept(f, c)
       \/ Hangup(f)
       \/ ReadProactor(f)
       \/ CloseProactor(f)
       \/ \E event \in {"in", "out"} : WriteProactor(f, event) \/ HandOver(f, event)
  \/ AcceptRefused \/ WaitImprov \/ Tick \/ Terminate \/ Stopped
  \/ \E w \in Workers : WorkerStep(w)
  \/ Pass

(* Time passes; a worker that can go on does; the main thread leaves       *)
(* wait_improv when it can, and calls timer_handler at the end of every    *)
(* batch of events that follows SIGALRM, however many events there are: a  *)
(* step that takes timeout back is a step of Tick.                         *)
TickRuns == AtLoop /\ timeout /\ timeout' = FALSE

Fairness == /\ WF_vars(Pass)
            /\ SF_timeout(TickRuns)
            /\ WF_vars(WaitImprov)
            /\ \A w \in Workers : WF_vars(WorkerStep(w))

Spec == Init /\ [][Next]_vars

FairSpec == Spec /\ Fairness

-----------------------------------------------------------------------------

Job == [fd : Fds, io : {"in", "out"}, client : Clients]

(* Every variable has its type; the queue stays within m_max_requests.     *)
TypeOK == /\ mode \in Modes
          /\ owner \in [Fds -> Clients \cup {NoClient}]
          /\ armed \in [Fds -> {"none", "in", "out", "off"}]
          /\ userCount \in Int
          /\ heap \in Seq([fd : Fds, left : Slots, kind : {"current", "stray", "dead"}])
          /\ cancelled \in Nat
          /\ timeout \in BOOLEAN
          /\ queue \in Seq(Job) /\ Len(queue) <= MaxRequests
          /\ job \in [Workers -> Job \cup {NoJob}]
          /\ step \in [Workers -> {"idle", "io", "process", "flag"}]
          /\ main \in {"loop", "wait", "check", "stopped", "crashed"}
          /\ waiting \in Fds /\ freed \in BOOLEAN
          /\ improv \in [Fds -> BOOLEAN]
          /\ timerFlag \in [Fds -> BOOLEAN]
          /\ overrun \in BOOLEAN
          /\ wronged \in BOOLEAN

(* In the proactor model a connection and its timer come and go together:  *)
(* whatever adjust_timer, deal_timer, tick and purge have done,            *)
(* users_timer points at the one running timer of every connection, and no *)
(* other timer runs that could close a descriptor.                         *)
OneTimerEach ==
  mode = "proactor" =>
    /\ \A f \in Fds : Cardinality(At(f)) = IF owner[f] = NoClient THEN 0 ELSE 1
    /\ Timers("stray") = {}

(* In the proactor model user_count is the number of open connections, and *)
(* m_cancelled_count, on which purge depends, that of the cancelled timers.*)
CountsAgree ==
  mode = "proactor" =>
    /\ userCount = Cardinality({f \in Fds : owner[f] # NoClient})
    /\ cancelled = Cardinality(Timers("dead"))

(* The ways in which something may touch the http_conn of descriptor f: an *)
(* event that epoll may report, a request in the queue, a worker.          *)
Hands(f) == {<<"epoll", 0>> : x \in {y \in {f} : armed[y] \in {"in", "out"}}}
              \cup {<<"queue", i>> : i \in {j \in DOMAIN queue : queue[j].fd = f}}
              \cup {<<"worker", w>> : w \in {v \in Workers : job[v].fd = f
                                                          /\ step[v] \in {"io", "process"}}}

(* An http_conn has no lock: it is in one pair of hands at a time, and a   *)
(* request is served on behalf of the client that sent it.  This holds in  *)
(* both models as long as no connection is closed while it is served, by   *)
(* its timer or, in the reactor model, by a timer_flag set too late.       *)
OneAtATime ==
  ~ overrun =>
    /\ \A f \in Fds : Cardinality(Hands(f)) <= 1
    /\ \A b \in Busy : owner[b.fd] = b.client

(* wait_improv ends: in the reactor model the request handed over is       *)
(* always taken into the queue, and its worker always reports back.        *)
WaitEnds == main = "wait" ~> main \in {"loop", "crashed"}

(* A connection that epoll does not watch and nobody works on. *)
Stuck(f) == /\ ~ Ended
            /\ owner[f] # NoClient
            /\ Hands(f) = {}

(* A connection whose request was dropped by a full queue, or whose        *)
(* failure the main thread missed, does not stay open for ever: its timer  *)
(* closes it.                                                              *)
StuckEnds == \A f \in Fds : Stuck(f) ~> ~ Stuck(f)

(* timer/README.md: the timer handles inactive connections and releases    *)
(* their resources.  It never closes a connection whose own timer, which   *)
(* every read and write restarts, has not expired.                         *)
ClosesInactive == ~ wronged

(* In the proactor model it keeps that promise: there tick calls back no   *)
(* timer but the one that users_timer points at.                           *)
ProactorClosesInactive == mode = "proactor" => ClosesInactive

(* lst_timer.h: the heap is a "min-heap ordered by ascending expire", from *)
(* which tick takes the timers that have expired: when it has run, none is *)
(* left.                                                                   *)
TickClosesExpired ==
  ~ timeout => \A i \in DOMAIN heap : IsLive(heap[i]) => heap[i].left > 0
=============================================================================
