--------------------------- MODULE ConnectionPool ---------------------------
(***************************************************************************)
(* connection_pool and connectionRAII of src/db/sql_connection_pool.cpp:   *)
(* the MySQL connections that the threads of one process share.  A thread  *)
(* takes connections in a nested way (a connectionRAII in an outer scope   *)
(* stays alive while an inner one waits) and gives them back in reverse    *)
(* order.  What runs under lock_ is one step; waiting on cv_ and notifying *)
(* it after the lock is released are steps of their own.                   *)
(***************************************************************************)
EXTENDS Naturals, Sequences, FiniteSets

CONSTANTS Threads,
          Conns,      \* the connections that init opens (sql_num of them)
          NullConn,   \* nullptr, what GetConnection returns after DestroyPool
          MaxDepth    \* connectionRAII objects alive in one thread

ASSUME PoolAssumption == /\ IsFiniteSet(Threads) /\ Threads # {}
                         /\ IsFiniteSet(Conns)
                         /\ NullConn \notin Conns
                         /\ MaxDepth \in Nat \ {0}

VARIABLES free,       \* connList
          closed,     \* connections that DestroyPool has closed
          shutdown,   \* m_shutdown
          stack,      \* connections of the thread's live connectionRAII objects
          at          \* where the thread is: outside the pool ("run"), about to
                      \*   test the wait's predicate ("ask"), blocked on cv_
                      \*   ("waiting"), about to call notify_one ("notify")

poolVars == <<free, closed, shutdown, stack, at>>

PoolInit == /\ free = Conns
            /\ closed = {}
            /\ shutdown = FALSE
            /\ stack = [t \in Threads |-> << >>]
            /\ at = [t \in Threads |-> "run"]

(* A connectionRAII is constructed: GetConnection is called. *)
Ask(t) == /\ at[t] = "run"
          /\ Len(stack[t]) < MaxDepth
          /\ at' = [at EXCEPT ![t] = "ask"]
          /\ UNCHANGED <<free, closed, shutdown, stack>>

Push(t, c) == stack' = [stack EXCEPT ![t] = Append(@, c)]

Pop(t) == stack' = [stack EXCEPT ![t] = SubSeq(@, 1, Len(@) - 1)]

Top(t) == stack[t][Len(stack[t])]

(* Seeded fault: front() without pop_front(). *)
TakeWithoutPop(t, c) == /\ at[t] = "ask"
                        /\ ~ shutdown
                        /\ c \in free
                        /\ Push(t, c)
                        /\ at' = [at EXCEPT ![t] = "run"]
                        /\ UNCHANGED <<free, closed, shutdown>>

(* The predicate holds and a connection is taken off the list. *)
Take(t, c) == /\ at[t] = "ask"
              /\ ~ shutdown
              /\ c \in free
              /\ free' = free \ {c}
              /\ Push(t, c)
              /\ at' = [at EXCEPT ![t] = "run"]
              /\ UNCHANGED <<closed, shutdown>>

(* Seeded fault: the predicate asks for more than one connection. *)
WaitTooEarly(t) == /\ at[t] = "ask"
                   /\ ~ shutdown
                   /\ Cardinality(free) <= 1
                   /\ at' = [at EXCEPT ![t] = "waiting"]
                   /\ UNCHANGED <<free, closed, shutdown, stack>>

(* The predicate is false: the thread gives the lock up and blocks. *)
Wait(t) == /\ at[t] = "ask"
           /\ ~ shutdown
           /\ free = {}
           /\ at' = [at EXCEPT ![t] = "waiting"]
           /\ UNCHANGED <<free, closed, shutdown, stack>>

GetNull(t) == /\ at[t] = "ask"
              /\ shutdown
              /\ Push(t, NullConn)
              /\ at' = [at EXCEPT ![t] = "run"]
              /\ UNCHANGED <<free, closed, shutdown>>

(* std::condition_variable may wake a thread that nobody notified. *)
SpuriousWake(t) == /\ at[t] = "waiting"
                   /\ at' = [at EXCEPT ![t] = "ask"]
                   /\ UNCHANGED <<free, closed, shutdown, stack>>

(* Seeded fault: nobody is notified. *)
GiveBackSilently(t) == /\ at[t] = "run"
                       /\ stack[t] # << >> /\ Top(t) # NullConn
                       /\ free' = free \cup {Top(t)}
                       /\ Pop(t)
                       /\ UNCHANGED <<closed, shutdown, at>>

(* ~connectionRAII: ReleaseConnection puts the connection back ... *)
GiveBack(t) == /\ at[t] = "run"
               /\ stack[t] # << >> /\ Top(t) # NullConn
               /\ free' = free \cup {Top(t)}
               /\ Pop(t)
               /\ at' = [at EXCEPT ![t] = "notify"]
               /\ UNCHANGED <<closed, shutdown>>

GiveBackNull(t) == /\ at[t] = "run"
                   /\ stack[t] # << >> /\ Top(t) = NullConn
                   /\ Pop(t)
                   /\ UNCHANGED <<free, closed, shutdown, at>>

Waiting == {t \in Threads : at[t] = "waiting"}

(* ... and notifies one waiting thread, if there is one. *)
NotifyOne(t) == /\ at[t] = "notify"
                /\ \/ Waiting = {} /\ at' = [at EXCEPT ![t] = "run"]
                   \/ \E u \in Waiting : at' = [at EXCEPT ![t] = "run", ![u] = "ask"]
                /\ UNCHANGED <<free, closed, shutdown, stack>>

(* The connections on the list are closed and every waiting thread is      *)
(* woken.  No thread begins to wait between the unlock and notify_all, so  *)
(* the two are one step.                                                   *)
DestroyPool == /\ ~ shutdown
               /\ shutdown' = TRUE
               /\ closed' = closed \cup free
               /\ free' = {}
               /\ at' = [t \in Threads |-> IF t \in Waiting THEN "ask" ELSE at[t]]
               /\ UNCHANGED stack

GetConnection(t) == (\E c \in Conns : Take(t, c)) \/ Wait(t) \/ GetNull(t)

ReleaseConnection(t) == GiveBack(t) \/ GiveBackNull(t)

PoolStep(t) == Ask(t) \/ GetConnection(t) \/ ReleaseConnection(t) \/ NotifyOne(t)

PoolNext == \/ \E t \in Threads : PoolStep(t) \/ SpuriousWake(t)
            \/ DestroyPool

PoolSpec == PoolInit /\ [][PoolNext]_poolVars

-----------------------------------------------------------------------------

(* Every variable has its type; no thread nests deeper than MaxDepth.      *)
PoolTypeOK == /\ free \subseteq Conns
              /\ closed \subseteq Conns
              /\ shutdown \in BOOLEAN
              /\ stack \in [Threads -> Seq(Conns \cup {NullConn})]
              /\ at \in [Threads -> {"run", "ask", "waiting", "notify"}]
              /\ \A t \in Threads :
                   Len(stack[t]) <= IF at[t] \in {"ask", "waiting"} THEN MaxDepth - 1
                                                                    ELSE MaxDepth

OwnedBy(c, t) == \E i \in 1 .. Len(stack[t]) : stack[t][i] = c

(* A connection is on the list, closed, or in the hands of exactly one     *)
(* connectionRAII: GetConnection never hands the same MYSQL* to two        *)
(* threads, nor twice to one, and none is ever mislaid.                    *)
OneOwner == /\ free \cap closed = {}
            /\ \A t \in Threads : \A i \in 1 .. Len(stack[t]) :
                 /\ stack[t][i] \notin free \cup closed
                 /\ \A u \in Threads : \A j \in 1 .. Len(stack[u]) :
                      stack[t][i] = stack[u][j] /\ stack[t][i] # NullConn => t = u /\ i = j
            /\ \A c \in Conns \ (free \cup closed) : \E t \in Threads : OwnedBy(c, t)

Underway == {t \in Threads : at[t] \in {"ask", "notify"}}

(* No wake-up is lost between ReleaseConnection's unlock and its           *)
(* notify_one: while a thread waits, every connection on the list has a    *)
(* thread of its own that is about to take it or about to notify.          *)
NoLostWakeup ==
  Waiting # {} => ~ shutdown /\ Cardinality(free) <= Cardinality(Underway)

(* The threads never all wait for each other's connections.  This takes    *)
(* enough connections: it is proved, and checked, for more than            *)
(* Cardinality(Threads) * (MaxDepth - 1) of them.                          *)
NotAllWaiting == Waiting # Threads
=============================================================================
