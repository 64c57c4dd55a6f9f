---------------------------- MODULE PendingQueue ----------------------------
(***************************************************************************)
(* What the list of pending commands promises to its users: a queue whose  *)
(* operations happen at one instant, and that a thread may ask whether it  *)
(* is empty without taking the lock.  TaskManager is written on top of     *)
(* this view; PendingList shows that the linked list of inc/dlist.h under  *)
(* pendlock provides it.                                                   *)
(***************************************************************************)
EXTENDS Sequences

CONSTANT Nodes   \* the nodes that can be in the queue

VARIABLES
  items,    \* the queue, oldest first
  verdict   \* what the last unlocked list_empty returned

vars == <<items, verdict>>

Init == items = <<>> /\ verdict = TRUE

Add(n) ==
  /\ \A i \in DOMAIN items : items[i] # n
  /\ items' = Append(items, n)
  /\ UNCHANGED verdict

Acquire ==
  /\ items # <<>>
  /\ items' = Tail(items)
  /\ UNCHANGED verdict

AskEmpty ==
  /\ verdict' = (items = <<>>)
  /\ UNCHANGED items

Next == (\E n \in Nodes : Add(n)) \/ Acquire \/ AskEmpty

Spec == Init /\ [][Next]_vars
=============================================================================
