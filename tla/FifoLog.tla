------------------------------ MODULE FifoLog ------------------------------
(***************************************************************************)
(* What the log promises of the lines it accepts, whatever thread writes   *)
(* them: they are handled one at a time, in the order in which they were   *)
(* accepted, at most Capacity of them are under way, and the log ends only *)
(* when none is.  ServerLog is shown to implement this.                    *)
(***************************************************************************)
EXTENDS Naturals, Sequences

CONSTANTS Lines,
          Capacity

VARIABLES accepted,   \* the lines accepted so far, in that order
          handled,    \* how many of them have been handled
          over        \* the log has ended

fifoVars == <<accepted, handled, over>>

FifoInit == accepted = << >> /\ handled = 0 /\ over = FALSE

Accept(l) == /\ ~ over
             /\ Len(accepted) - handled < Capacity
             /\ accepted' = Append(accepted, l)
             /\ UNCHANGED <<handled, over>>

Handle == /\ ~ over
          /\ handled < Len(accepted)
          /\ handled' = handled + 1
          /\ UNCHANGED <<accepted, over>>

(* A line that is accepted and handled at once may not overtake another.   *)
AcceptAndHandle(l) == /\ ~ over
                      /\ handled = Len(accepted)
                      /\ accepted' = Append(accepted, l)
                      /\ handled' = handled + 1
                      /\ UNCHANGED over

End == /\ handled = Len(accepted)
       /\ over' = TRUE
       /\ UNCHANGED <<accepted, handled>>

FifoNext == (\E l \in Lines : Accept(l) \/ AcceptAndHandle(l)) \/ Handle \/ End

FifoSpec == FifoInit /\ [][FifoNext]_fifoVars
=============================================================================
