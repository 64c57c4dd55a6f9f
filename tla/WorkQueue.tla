------------------------------ MODULE WorkQueue ------------------------------
(***************************************************************************)
(* What a client of the thread pool may rely on (inc/threadpool.h:25-46):  *)
(* work is accepted, started in the order it was accepted by at most       *)
(* MaxActive threads, and finished; after Close nothing more is started    *)
(* and the pool ends when no work is active.  Locks, condition variables   *)
(* and worker threads do not appear here: ThreadPool implements this.      *)
(***************************************************************************)
EXTENDS Naturals, Sequences, FiniteSets, Functions

CONSTANTS
  Jobs,       \* work items a client can submit
  MaxActive   \* number of items that may be running at the same time

VARIABLES
  accepted,   \* items tpool_add_work answered 0 for, in that order
  started,    \* items handed to a thread, in that order
  finished,   \* items whose routine has returned
  open,       \* FALSE once tpool_destroy has told the workers
  ended       \* tpool_destroy has released the pool

vars == <<accepted, started, finished, open, ended>>

Active == Range(started) \ finished

Init ==
  /\ accepted = <<>>
  /\ started = <<>>
  /\ finished = {}
  /\ open = TRUE
  /\ ended = FALSE

\* Work may be accepted until the pool is released, even while it closes.
Accept(j) ==
  /\ ~ended
  /\ j \notin Range(accepted)
  /\ accepted' = Append(accepted, j)
  /\ UNCHANGED <<started, finished, open, ended>>

Start ==
  /\ open
  /\ Len(started) < Len(accepted)
  /\ Cardinality(Active) < MaxActive
  /\ started' = Append(started, accepted[Len(started) + 1])
  /\ UNCHANGED <<accepted, finished, open, ended>>

Finish(j) ==
  /\ j \in Active
  /\ finished' = finished \cup {j}
  /\ UNCHANGED <<accepted, started, open, ended>>

Close ==
  /\ open
  /\ open' = FALSE
  /\ UNCHANGED <<accepted, started, finished, ended>>

End ==
  /\ ~open
  /\ ~ended
  /\ Active = {}
  /\ ended' = TRUE
  /\ UNCHANGED <<accepted, started, finished, open>>

Next ==
  \/ \E j \in Jobs : Accept(j) \/ Finish(j)
  \/ Start
  \/ Close
  \/ End

Spec == Init /\ [][Next]_vars

=============================================================================
