----------------------------- MODULE ServerLog -----------------------------
(***************************************************************************)
(* The server's log: Log of src/log/log.cpp and the circular block_queue   *)
(* of src/log/block_queue.h between the threads that call write_log and    *)
(* the writer thread of the asynchronous mode.  What runs under a mutex is *)
(* one step: write_log is a step that reads the clock, one under m_mutex,  *)
(* and in asynchronous mode one that asks full() and one that pushes.  A   *)
(* line is a number, given in the order in which lines are formatted.      *)
(***************************************************************************)
EXTENDS Integers, Sequences, FiniteSets, SequencesExt

CONSTANTS Callers,     \* the threads that log
          MaxSize,     \* m_max_size
          SplitLines,  \* m_split_lines
          MaxLines,    \* bound on the lines
          MaxDay,      \* bound on the calendar
          MaxFailures  \* bound on the fopen calls that fail

ASSUME LogAssumption == /\ IsFiniteSet(Callers)
                        /\ {MaxSize, SplitLines, MaxLines, MaxDay} \subseteq Nat \ {0}
                        /\ MaxFailures \in Nat

VARIABLES mode,      \* "async", "sync", or "closed": close_log is set, so that
                     \*   WebServer::log_write never calls init
          array, front, back, size, shut,   \* the queue; shut is m_closed
          writer,    \* the writer thread: about to test pop's predicate ("pop"),
                     \*   blocked on m_cond ("waiting"), with a line in hand
                     \*   ("write"), returned ("ended")
          hand,      \* single_log
          fp,        \* m_fp: the file that is open, or NoFile
          count, today,                     \* m_count, m_today
          clock,     \* the day it is
          at,        \* the callers: "out", "lock", "test", "push"
          stamp,     \* the day the caller has read
          line,      \* log_str
          stampOf,   \* history: the day in each formatted line
          out,       \* history: the lines handled and the file each went to
          failures,  \* history: fopen calls that failed
          wentBack,  \* history: a rotation opened the file of an earlier day
          phase,     \* ~Log: "up", "notify", "join", "gone"; or "crashed"
          dropped    \* history: lines that the queue did not accept

queueVars == <<array, front, back, size, shut>>
fileVars == <<fp, count, today, stampOf, failures, wentBack>>
callVars == <<at, stamp, line>>
vars == <<mode, queueVars, writer, hand, fileVars, callVars, clock, out, phase, dropped>>

NoFile == <<0, 0>>
NoLine == 0

(* A file is named after a day and, beyond the first, a number.            *)
Base(day) == <<day, 0>>

(* The state that WebServer::log_write leaves.  Whether init could open    *)
(* the file is not looked at.                                              *)
Init == /\ mode \in {"async", "sync", "closed"}
        /\ array = [i \in 0 .. MaxSize - 1 |-> NoLine]
        /\ front = -1 /\ back = -1 /\ size = 0 /\ shut = FALSE
        /\ writer = IF mode = "async" THEN "pop" ELSE "ended"
        /\ hand = NoLine
        /\ \/ mode = "closed" /\ fp = NoFile /\ failures = 0
           \/ mode # "closed" /\ fp = Base(1) /\ failures = 0
           \/ mode # "closed" /\ fp = NoFile /\ failures = 1 /\ MaxFailures > 0
        /\ count = 0 /\ clock = 1
        /\ today = IF mode = "closed" THEN 0 ELSE 1
        /\ at = [p \in Callers |-> "out"]
        /\ stamp = [p \in Callers |-> 0]
        /\ line = [p \in Callers |-> NoLine]
        /\ stampOf = << >> /\ out = << >> /\ dropped = {} /\ wentBack = FALSE
        /\ phase = "up"

-----------------------------------------------------------------------------
(* block_queue *)

(* Seeded fault: the bound is off by one. *)
FullLate == size > MaxSize

Full == size >= MaxSize

(* Seeded fault: the new element is stored where the oldest one is. *)
EnqueueAtHead(l) == /\ back' = (back + 1) % MaxSize
                    /\ array' = [array EXCEPT ![(front + 1) % MaxSize] = l]
                    /\ size' = size + 1
                    /\ UNCHANGED <<front, shut>>

Enqueue(l) == /\ back' = (back + 1) % MaxSize
              /\ array' = [array EXCEPT ![back'] = l]
              /\ size' = size + 1
              /\ UNCHANGED <<front, shut>>

Dequeue == /\ front' = (front + 1) % MaxSize
           /\ hand' = array[front']
           /\ size' = size - 1
           /\ UNCHANGED <<array, back, shut>>

(* The lines in the queue, the oldest first.                               *)
Contents == [i \in 1 .. size |-> array[(front + i) % MaxSize]]

-----------------------------------------------------------------------------
(* write_log *)

(* m_close_log is 0 here: init is called only with 0, and the constructor  *)
(* sets 0 as well.  The clock is read before m_mutex is taken.             *)
ReadClock(p) == /\ phase = "up"
                /\ at[p] = "out"
                /\ Len(stampOf) + Cardinality({q \in Callers : at[q] = "lock"}) < MaxLines
                /\ at' = [at EXCEPT ![p] = "lock"]
                /\ stamp' = [stamp EXCEPT ![p] = clock]
                /\ UNCHANGED <<mode, queueVars, writer, hand, fileVars, line, clock, out,
                               phase, dropped>>

(* Seeded fault: one line too many before the file is split. *)
RotatesLate(p) == today # stamp[p] \/ (count + 1) % (SplitLines + 1) = 0

(* Seeded fault: the day is not looked at. *)
RotatesByLines(p) == (count + 1) % SplitLines = 0

(* Another day, or the file has its lines.                                 *)
Rotates(p) == today # stamp[p] \/ (count + 1) % SplitLines = 0

NewFile(p) == IF today # stamp[p] THEN Base(stamp[p])
                                  ELSE <<today, (count + 1) \div SplitLines>>

(* fopen may fail, which nobody looks at.                                  *)
Reopen(p) == \/ fp' = NewFile(p) /\ UNCHANGED failures
             \/ failures < MaxFailures /\ fp' = NoFile /\ failures' = failures + 1

Formatted == Len(stampOf) + 1

(* The synchronous mode writes the line under the lock.                    *)
AfterFormat(p) ==
  IF mode = "async"
  THEN /\ at' = [at EXCEPT ![p] = "test"]
       /\ line' = [line EXCEPT ![p] = Formatted]
       /\ UNCHANGED <<stamp, out>>
  ELSE /\ at' = [at EXCEPT ![p] = "out"]
       /\ out' = Append(out, [line |-> Formatted, file |-> fp'])
       /\ stamp' = [stamp EXCEPT ![p] = 0]
       /\ UNCHANGED line

(* The part under m_mutex.                                                 *)
Format(p) ==
  /\ at[p] = "lock" /\ phase # "crashed"
  /\ \/ /\ ~ Rotates(p)
        /\ count' = count + 1
        /\ UNCHANGED <<fp, today, failures, wentBack>>
     \/ /\ Rotates(p) /\ fp # NoFile
        /\ Reopen(p)
        /\ count' = IF today # stamp[p] THEN 0 ELSE count + 1
        /\ today' = stamp[p]
        /\ wentBack' = (wentBack \/ stamp[p] < today)
  /\ stampOf' = Append(stampOf, stamp[p])
  /\ AfterFormat(p)
  /\ UNCHANGED <<mode, queueVars, writer, hand, clock, phase, dropped>>

(* A rotation calls fflush(m_fp), fclose(m_fp) without looking at m_fp:    *)
(* fclose(nullptr) is undefined and kills the process in the C library     *)
(* this is built with.                                                     *)
CloseNull(p) ==
  /\ at[p] = "lock" /\ phase # "crashed"
  /\ Rotates(p) /\ fp = NoFile
  /\ phase' = "crashed"
  /\ UNCHANGED <<mode, queueVars, writer, hand, fileVars, callVars, clock, out, dropped>>

Leave(p) == /\ at' = [at EXCEPT ![p] = "out"]
            /\ line' = [line EXCEPT ![p] = NoLine]
            /\ stamp' = [stamp EXCEPT ![p] = 0]

(* full() and push() take the queue's lock one after the other; push looks *)
(* at the size again.  The second of them may find it full.                *)
TestFull(p) ==
  /\ at[p] = "test" /\ phase # "crashed"
  /\ \/ Full /\ Leave(p) /\ dropped' = dropped \cup {line[p]}
     \/ ~ Full /\ at' = [at EXCEPT ![p] = "push"] /\ UNCHANGED <<line, stamp, dropped>>
  /\ UNCHANGED <<mode, queueVars, writer, hand, fileVars, clock, out, phase>>

(* Seeded fault: push does not notify. *)
NotifyNobody == UNCHANGED writer

(* m_cond.notify_one(): the writer thread is the only one that waits.      *)
Notify == writer' = IF writer = "waiting" THEN "pop" ELSE writer

PushLine(p) ==
  /\ at[p] = "push" /\ phase # "crashed"
  /\ \/ Full /\ dropped' = dropped \cup {line[p]} /\ UNCHANGED <<queueVars, writer>>
     \/ ~ Full /\ Enqueue(line[p]) /\ Notify /\ UNCHANGED dropped
  /\ Leave(p)
  /\ UNCHANGED <<mode, hand, fileVars, clock, out, phase>>

-----------------------------------------------------------------------------
(* async_write_log *)

(* pop: the predicate holds and there is a line ...                        *)
PopLine == /\ writer = "pop" /\ phase # "crashed"
           /\ size > 0
           /\ Dequeue
           /\ writer' = "write"
           /\ UNCHANGED <<mode, fileVars, callVars, clock, out, phase, dropped>>

(* Seeded fault: a closed queue is not drained. *)
PopEndAtOnce == /\ writer = "pop" /\ phase # "crashed"
                /\ shut
                /\ writer' = "ended"
                /\ UNCHANGED <<mode, queueVars, hand, fileVars, callVars, clock, out, phase,
                               dropped>>

(* ... or it is closed and empty, which ends the thread ...                *)
PopEnd == /\ writer = "pop" /\ phase # "crashed"
          /\ shut /\ size = 0
          /\ writer' = "ended"
          /\ UNCHANGED <<mode, queueVars, hand, fileVars, callVars, clock, out, phase,
                         dropped>>

(* ... or the thread waits.                                                *)
PopWait == /\ writer = "pop" /\ phase # "crashed"
           /\ ~ shut /\ size = 0
           /\ writer' = "waiting"
           /\ UNCHANGED <<mode, queueVars, hand, fileVars, callVars, clock, out, phase,
                          dropped>>

SpuriousWake == /\ writer = "waiting" /\ phase # "crashed"
                /\ writer' = "pop"
                /\ UNCHANGED <<mode, queueVars, hand, fileVars, callVars, clock, out, phase,
                               dropped>>

(* Under m_mutex, into the file that is open now; nowhere if there is none.*)
WriteLine == /\ writer = "write" /\ phase # "crashed"
             /\ out' = Append(out, [line |-> hand, file |-> fp])
             /\ hand' = NoLine
             /\ writer' = "pop"
             /\ UNCHANGED <<mode, queueVars, fileVars, callVars, clock, phase, dropped>>

WriterStep == PopLine \/ PopEnd \/ PopWait \/ WriteLine

-----------------------------------------------------------------------------
(* ~Log, after main: the thread pool's workers have been joined. *)

CloseQueue == /\ phase = "up"
              /\ \A p \in Callers : at[p] = "out"
              /\ IF mode = "async" THEN shut' = TRUE /\ phase' = "notify"
                                   ELSE phase' = "gone" /\ UNCHANGED shut
              /\ UNCHANGED <<mode, array, front, back, size, writer, hand, fileVars,
                             callVars, clock, out, dropped>>

NotifyAll == /\ phase = "notify"
             /\ phase' = "join"
             /\ Notify
             /\ UNCHANGED <<mode, queueVars, hand, fileVars, callVars, clock, out, dropped>>

(* The thread has returned: the queue is deleted, the file closed.         *)
Join == /\ phase = "join"
        /\ writer = "ended"
        /\ phase' = "gone"
        /\ UNCHANGED <<mode, queueVars, writer, hand, fileVars, callVars, clock, out, dropped>>

NextDay == /\ clock < MaxDay
           /\ clock' = clock + 1
           /\ UNCHANGED <<mode, queueVars, writer, hand, fileVars, callVars, out, phase,
                          dropped>>

Ended == phase \in {"gone", "crashed"} /\ UNCHANGED vars

CallerStep(p) == Format(p) \/ CloseNull(p) \/ TestFull(p) \/ PushLine(p)

Next == \/ \E p \in Callers : ReadClock(p) \/ CallerStep(p)
        \/ WriterStep \/ SpuriousWake
        \/ CloseQueue \/ NotifyAll \/ Join
        \/ NextDay \/ Ended

(* The scheduler runs the writer thread and the thread in ~Log.            *)
Spec == Init /\ [][Next]_vars /\ WF_vars(WriterStep) /\ WF_vars(NotifyAll \/ Join)

-----------------------------------------------------------------------------

(* Every variable has its type, and the indices of the circular array      *)
(* enclose exactly m_size elements.                                        *)
TypeOK == /\ mode \in {"async", "sync", "closed"}
          /\ array \in [0 .. MaxSize - 1 -> 0 .. MaxLines]
          /\ {front, back} \subseteq -1 .. MaxSize - 1
          /\ size \in 0 .. MaxSize /\ (back - front - size) % MaxSize = 0
          /\ writer \in {"pop", "waiting", "write", "ended"}
          /\ hand \in 0 .. MaxLines /\ (hand # NoLine <=> writer = "write")
          /\ {count, today, clock} \subseteq Nat
          /\ at \in [Callers -> {"out", "lock", "test", "push"}]
          /\ phase \in {"up", "notify", "join", "gone", "crashed"}

InHand == IF writer = "write" THEN <<hand>> ELSE << >>

Fifo == INSTANCE FifoLog WITH
          Lines <- 1 .. MaxLines,
          Capacity <- MaxSize + 1,
          accepted <- [i \in DOMAIN out |-> out[i].line] \o InHand \o Contents,
          handled <- Len(out),
          over <- phase = "gone"

(* The circular array, the writer thread and the destructor together are a *)
(* FIFO: what push accepted is handled in that order, nothing overtakes,   *)
(* and ~Log does not end while an accepted line is still in the queue or   *)
(* in the writer's hand.                                                   *)
FifoSpec == Fifo!FifoSpec

(* A line that was formatted is accepted exactly once, dropped by a full   *)
(* queue, or still in a caller's hands; none is duplicated or mislaid      *)
(* between full() and push().                                              *)
EveryLineOnce ==
  LET queued == ToSet(Contents) \cup ToSet(InHand)
      done   == {out[i].line : i \in DOMAIN out}
      held   == {line[p] : p \in Callers} \ {NoLine}
  IN /\ queued \cup done \cup held \cup dropped = 1 .. Len(stampOf)
     /\ Len(out) + Len(InHand) + size + Cardinality(held) + Cardinality(dropped)
          = Len(stampOf)

(* In synchronous mode every line is in the file of the day it shows, even *)
(* when two threads pass midnight in the opposite order.  In asynchronous  *)
(* mode it may be in a later file than its own (the writer uses the file   *)
(* that is open when it gets there), but not in an earlier one unless such *)
(* an inversion happened.                                                  *)
FileOfTheDay ==
  \A i \in DOMAIN out : out[i].file # NoFile =>
    LET day == stampOf[out[i].line] IN
      /\ mode = "sync" => out[i].file[1] = day
      /\ mode = "async" /\ ~ wentBack => out[i].file[1] >= day

LinesIn(f) == {i \in DOMAIN out : out[i].file = f}

(* "Split by lines" (log/README.md:9): in synchronous mode no file gets    *)
(* more than m_split_lines lines, across splits and changes of day, unless *)
(* an inversion at midnight reopens a file with a fresh count.             *)
FilesStayShort ==
  mode = "sync" /\ ~ wentBack =>
    \A i \in DOMAIN out : out[i].file # NoFile =>
      Cardinality(LinesIn(out[i].file)) <= SplitLines

(* ~Log ends: close() wakes the writer thread wherever it is, and it       *)
(* drains the queue and returns.                                           *)
CloseEnds == (phase = "notify") ~> (phase = "gone")
=============================================================================
