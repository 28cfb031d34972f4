----------------------------- MODULE ThreadPool -----------------------------
(***************************************************************************)
(* threadpool<http_conn> of src/pool/threadpool.h: the worker threads, the *)
(* bounded work queue that the main thread's event loop fills, and the     *)
(* shutdown done by ~WebServer (delete m_pool) and, after main, by the     *)
(* destructor of the static connection_pool.  The workers' MySQL           *)
(* connections are those of ConnectionPool: the dispatcher holds one while *)
(* it runs process(), the repositories called below it take a second, and  *)
(* create_book, update_book and cancel_order call find_... while they hold *)
(* theirs, which makes three.                                              *)
(***************************************************************************)
EXTENDS ConnectionPool

CONSTANTS Requests,     \* the http_conn objects
          NoRequest,
          MaxRequests,  \* m_max_requests
          MaxCalls      \* bound on the connections one request asks for

ASSUME ThreadPoolAssumption == /\ NoRequest \notin Requests
                               /\ {MaxRequests, MaxCalls} \subseteq Nat \ {0}

VARIABLES queue,    \* m_workqueue
          stop,     \* m_stop
          work,     \* where the worker is: about to test the predicate of run()
                    \*   ("ready"), blocked on m_cond ("idle"), in process()
                    \*   ("serve"), after it ("done"), returned ("exited")
          job,      \* the request the worker has dequeued
          calls,    \* connections asked for on behalf of that request
          main,     \* where the main thread is
          armed     \* connections that epoll may report an event for

workVars == <<queue, stop, work, job, calls, main, armed>>
vars == <<poolVars, workVars>>

Init == /\ PoolInit
        /\ queue = << >>
        /\ stop = FALSE
        /\ work = [t \in Threads |-> "ready"]
        /\ job = [t \in Threads |-> NoRequest]
        /\ calls = [t \in Threads |-> 0]
        /\ main = "loop"
        /\ armed = Requests

-----------------------------------------------------------------------------
(* The main thread *)

(* Seeded fault: the size check is off by one. *)
AppendOneMore(r) ==
  /\ main = "loop"
  /\ r \in armed
  /\ Len(queue) <= MaxRequests
  /\ queue' = Append(queue, r)
  /\ armed' = armed \ {r}
  /\ main' = "signal"
  /\ UNCHANGED <<stop, work, job, calls, poolVars>>

(* epoll reports an event for r, once (EPOLLONESHOT), and the event loop   *)
(* calls append or append_p.                                               *)
AppendRequest(r) ==
  /\ main = "loop"
  /\ r \in armed
  /\ Len(queue) < MaxRequests
  /\ queue' = Append(queue, r)
  /\ armed' = armed \ {r}
  /\ main' = "signal"
  /\ UNCHANGED <<stop, work, job, calls, poolVars>>

(* The queue is full: append returns false, which the event loop ignores.  *)
AppendRefused(r) ==
  /\ main = "loop"
  /\ r \in armed
  /\ Len(queue) >= MaxRequests
  /\ armed' = armed \ {r}
  /\ UNCHANGED <<queue, stop, work, job, calls, main, poolVars>>

Idle == {t \in Threads : work[t] = "idle"}

(* Seeded fault: append does not notify. *)
SignalNobody ==
  /\ main = "signal"
  /\ main' = "loop"
  /\ UNCHANGED <<queue, stop, work, job, calls, armed, poolVars>>

(* m_cond.notify_one() *)
SignalOne ==
  /\ main = "signal"
  /\ main' = "loop"
  /\ \/ Idle = {} /\ UNCHANGED work
     \/ \E t \in Idle : work' = [work EXCEPT ![t] = "ready"]
  /\ UNCHANGED <<queue, stop, job, calls, armed, poolVars>>

(* SIGTERM ends the event loop; ~threadpool sets m_stop under the lock ... *)
Stop ==
  /\ main = "loop"
  /\ stop' = TRUE
  /\ main' = "signalAll"
  /\ UNCHANGED <<queue, work, job, calls, armed, poolVars>>

(* Seeded fault: notify_one instead of notify_all. *)
SignalJustOne ==
  /\ main = "signalAll"
  /\ main' = "join"
  /\ \/ Idle = {} /\ UNCHANGED work
     \/ \E t \in Idle : work' = [work EXCEPT ![t] = "ready"]
  /\ UNCHANGED <<queue, stop, job, calls, armed, poolVars>>

(* ... wakes every worker and joins them. *)
SignalAll ==
  /\ main = "signalAll"
  /\ main' = "join"
  /\ work' = [t \in Threads |-> IF t \in Idle THEN "ready" ELSE work[t]]
  /\ UNCHANGED <<queue, stop, job, calls, armed, poolVars>>

(* Static destruction: ~connection_pool calls DestroyPool. *)
JoinAndDestroy ==
  /\ main = "join"
  /\ \A t \in Threads : work[t] = "exited"
  /\ DestroyPool
  /\ main' = "done"
  /\ UNCHANGED <<queue, stop, work, job, calls, armed>>

(* External: an idle connection that epoll does not report any more is     *)
(* closed by its timer, and another client gets its http_conn.             *)
Reconnect(r) ==
  /\ main = "loop"
  /\ r \notin armed /\ (\A i \in DOMAIN queue : queue[i] # r)
  /\ \A t \in Threads : job[t] # r
  /\ armed' = armed \cup {r}
  /\ UNCHANGED <<queue, stop, work, job, calls, main, poolVars>>

MainStep == SignalOne \/ SignalAll \/ JoinAndDestroy

-----------------------------------------------------------------------------
(* The workers: run() and the dispatcher *)

(* The predicate holds and there is a request. *)
Fetch(t) ==
  /\ work[t] = "ready"
  /\ queue # << >>
  /\ job' = [job EXCEPT ![t] = Head(queue)]
  /\ queue' = Tail(queue)
  /\ work' = [work EXCEPT ![t] = "serve"]
  /\ UNCHANGED <<stop, calls, main, armed, poolVars>>

(* Seeded fault: m_stop alone makes a worker return. *)
ExitAtOnce(t) ==
  /\ work[t] = "ready"
  /\ stop
  /\ work' = [work EXCEPT ![t] = "exited"]
  /\ UNCHANGED <<queue, stop, job, calls, main, armed, poolVars>>

(* The predicate holds because of m_stop and the queue is empty. *)
Exit(t) ==
  /\ work[t] = "ready"
  /\ queue = << >> /\ stop
  /\ work' = [work EXCEPT ![t] = "exited"]
  /\ UNCHANGED <<queue, stop, job, calls, main, armed, poolVars>>

Block(t) ==
  /\ work[t] = "ready"
  /\ queue = << >> /\ ~ stop
  /\ work' = [work EXCEPT ![t] = "idle"]
  /\ UNCHANGED <<queue, stop, job, calls, main, armed, poolVars>>

(* The dispatcher's connectionRAII, or one of a repository below it.       *)
AskConnection(t) ==
  /\ work[t] = "serve"
  /\ stack[t] # << >> \/ calls[t] = 0
  /\ calls[t] < MaxCalls
  /\ Ask(t)
  /\ calls' = [calls EXCEPT ![t] = @ + 1]
  /\ UNCHANGED <<queue, stop, work, job, main, armed>>

(* A repository call returns its connection. *)
ReturnInner(t) ==
  /\ work[t] = "serve" /\ Len(stack[t]) > 1
  /\ ReleaseConnection(t)
  /\ UNCHANGED workVars

(* process() ends with modfd, which arms the connection again.  A write in *)
(* reactor mode, or a failed read, gets here without any connection.       *)
Rearm(t) ==
  /\ work[t] = "serve" /\ at[t] = "run" /\ Len(stack[t]) <= 1
  /\ armed' = armed \cup {job[t]}
  /\ job' = [job EXCEPT ![t] = NoRequest]
  /\ work' = [work EXCEPT ![t] = "done"]
  /\ calls' = [calls EXCEPT ![t] = 0]
  /\ UNCHANGED <<queue, stop, main, poolVars>>

(* The dispatcher's own connectionRAII ends. *)
ReturnOuter(t) ==
  /\ work[t] = "done"
  /\ ReleaseConnection(t)
  /\ UNCHANGED workVars

Finish(t) ==
  /\ work[t] = "done" /\ at[t] = "run" /\ stack[t] = << >>
  /\ work' = [work EXCEPT ![t] = "ready"]
  /\ UNCHANGED <<queue, stop, job, calls, main, armed, poolVars>>

WorkerStep(t) ==
  \/ Fetch(t) \/ Exit(t) \/ Block(t)
  \/ AskConnection(t) \/ ReturnInner(t) \/ Rearm(t) \/ ReturnOuter(t) \/ Finish(t)
  \/ (GetConnection(t) \/ NotifyOne(t)) /\ UNCHANGED workVars

(* A condition variable may wake a thread that nobody notified. *)
SpuriousReady(t) ==
  \/ SpuriousWake(t) /\ UNCHANGED workVars
  \/ /\ work[t] = "idle"
     /\ work' = [work EXCEPT ![t] = "ready"]
     /\ UNCHANGED <<queue, stop, job, calls, main, armed, poolVars>>

Terminated == main = "done" /\ UNCHANGED vars

Next == \/ \E r \in Requests : AppendRequest(r) \/ AppendRefused(r) \/ Reconnect(r)
        \/ Stop
        \/ MainStep
        \/ \E t \in Threads : WorkerStep(t) \/ SpuriousReady(t)
        \/ Terminated

(* The operating system lets every thread that can run run again.  Neither *)
(* mutex nor condition variable is assumed to be fair: which thread gets   *)
(* the lock, or the notification, is left open.                            *)
Fairness == /\ WF_vars(MainStep)
            /\ \A t \in Threads : WF_vars(WorkerStep(t))

Spec == Init /\ [][Next]_vars

FairSpec == Spec /\ Fairness

-----------------------------------------------------------------------------

(* Every variable has its type. *)
TypeOK == /\ PoolTypeOK
          /\ queue \in Seq(Requests) /\ Len(queue) <= MaxRequests
          /\ stop \in BOOLEAN
          /\ work \in [Threads -> {"ready", "idle", "serve", "done", "exited"}]
          /\ job \in [Threads -> Requests \cup {NoRequest}]
          /\ calls \in [Threads -> 0 .. MaxCalls]
          /\ main \in {"loop", "signal", "signalAll", "join", "done"}
          /\ armed \subseteq Requests

(* When the pool is destroyed, draining and joining have brought every     *)
(* connection home: none is left open, and no accepted request is dropped. *)
NothingLeftBehind ==
  main = "done" => /\ closed = Conns
                   /\ queue = << >>
                   /\ \A t \in Threads : stack[t] = << >> /\ job[t] = NoRequest

Queued(r) == \E i \in DOMAIN queue : queue[i] = r

(* A request in the queue is taken by a worker, whatever the others do and *)
(* also when the server is being stopped.                                  *)
QueuedIsTaken == \A r \in Requests : Queued(r) ~> ~ Queued(r)

(* threadpool.h on run(): stop signal and an empty queue make a worker     *)
(* exit safely.  Once m_stop is set, every worker drains the queue and     *)
(* returns, so that ~threadpool's join returns.                            *)
StopEndsWorkers == stop ~> \A t \in Threads : work[t] = "exited"
=============================================================================
