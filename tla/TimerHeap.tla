----------------------------- MODULE TimerHeap -----------------------------
(***************************************************************************)
(* m_heap of sort_timer_lst (src/timer/lst_timer.h): a priority_queue of   *)
(* timers, the one that expires first on top.  The queue is the binary     *)
(* heap of the C++ library, an array whose element i has the elements 2i   *)
(* and 2i + 1 below it.  The library orders the array on push and pop      *)
(* only: what happens after the key of an element has been changed in      *)
(* place depends on how it moves the elements, so that is modelled too.    *)
(***************************************************************************)
EXTENDS Naturals, Sequences

(* __push_heap: t rises from position i past everything that expires       *)
(* later.                                                                  *)
Rise(h, i, t) ==
  LET rise[j \in 1 .. Len(h)] ==
        IF j > 1 /\ h[j \div 2].left > t.left
          THEN [rise[j \div 2] EXCEPT ![j] = h[j \div 2]]
          ELSE [h EXCEPT ![j] = t]
  IN rise[i]

(* priority_queue::push *)
PushHeap(h, t) == Rise(Append(h, t), Len(h) + 1, t)

(* __adjust_heap: the hole left by the top sinks to the bottom, always to  *)
(* the child that expires first, and the last element rises from there.    *)
PopHeap(h) ==
  LET n == Len(h) - 1
      rest == SubSeq(h, 1, n)
      child(j) == IF 2 * j + 1 <= n /\ rest[2 * j + 1].left <= rest[2 * j].left
                    THEN 2 * j + 1 ELSE 2 * j
      bottom[j \in 1 .. n] == IF 2 * j <= n THEN bottom[child(j)] ELSE j
      sink[j \in 1 .. n] ==
        IF 2 * j <= n THEN [sink[child(j)] EXCEPT ![j] = rest[child(j)]] ELSE rest
  IN IF n = 0 THEN << >> ELSE Rise(sink[1], bottom[1], h[n + 1])

(* What k pops take off the heap, in their order, and what they leave.     *)
Popped(h, k) ==
  LET pops[j \in 0 .. Len(h)] ==
        IF j = 0 THEN [taken |-> << >>, rest |-> h]
        ELSE LET before == pops[j - 1]
             IN [taken |-> Append(before.taken, before.rest[1]),
                 rest |-> PopHeap(before.rest)]
  IN pops[k]

(* Everything on the heap, in the order of the pops. *)
PopOrder(h) == Popped(h, Len(h)).taken
=============================================================================
