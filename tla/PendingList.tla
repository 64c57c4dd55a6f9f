---------------------------- MODULE PendingList -----------------------------
(***************************************************************************)
(* The list of pending commands, store by store: the circular doubly       *)
(* linked list of inc/dlist.h, changed by task_pending_add and             *)
(* task_pending_acquire under pendlock, and read by task_allocate without  *)
(* it (src/sys_task.c:305).                                                *)
(*                                                                         *)
(* list_add_tail and list_del are a few plain stores each.  Nothing orders *)
(* them before the unlock, so a thread that reads without the lock may see *)
(* them in any order: the holder of the lock has a set of stores to do,    *)
(* and does them one by one in an order of its choice.  A store of a       *)
(* pointer is indivisible.                                                 *)
(***************************************************************************)
EXTENDS Integers, Sequences, FiniteSets, SequencesExt

CONSTANTS
  Nodes,     \* addresses malloc can return for a pending node
  Adders,    \* threads in task_pending_add
  Takers,    \* threads in task_pending_acquire
  Anchor,    \* the list_head in the task manager, head of dlist.h
  Poison1, Poison2,  \* LIST_POISON1 and LIST_POISON2
  Wild,      \* what malloc leaves in a field
  NoNode,    \* no node
  NoOne      \* pendlock is free

ASSUME PointersAssumption ==
  /\ {Anchor, Poison1, Poison2, Wild, NoNode} \cap Nodes = {}
  /\ Cardinality({Anchor, Poison1, Poison2, Wild, NoNode}) = 5

Threads == Adders \cup Takers
ASSUME ThreadsAssumption == NoOne \notin Threads /\ Adders \cap Takers = {}

Cells == Nodes \cup {Anchor}
Pointers == Cells \cup {Poison1, Poison2, Wild}

VARIABLES
  next, prev,  \* the two fields of every list_head
  lock,        \* the thread that holds pendlock, or NoOne
  todo,        \* the stores its holder has not done
  pc,          \* where each thread is
  node,        \* the node a thread has in hand
  verdict,     \* what the last list_empty of task_allocate returned
  linked       \* history: the nodes in the queue, at the store that shows it

vars == <<next, prev, lock, todo, pc, node, verdict, linked>>

Init ==
  /\ next = [c \in Cells |-> IF c = Anchor THEN Anchor ELSE Wild]
  /\ prev = [c \in Cells |-> IF c = Anchor THEN Anchor ELSE Wild]
  /\ lock = NoOne
  /\ todo = {}
  /\ pc = [t \in Threads |-> "idle"]
  /\ node = [t \in Threads |-> NoNode]
  /\ verdict = TRUE
  /\ linked = <<>>

-----------------------------------------------------------------------------
(* inc/dlist.h                                                             *)

ListEmpty == next[Anchor] = Anchor

\* A store to a field of a list_head.  kind tells which one of an operation it
\* is, for the history.
Store(field, at, val, kind) ==
  [field |-> field, at |-> at, val |-> val, kind |-> kind]

\* __list_add: new goes between before and after.
InsertBetween(new, before, after) ==
  {Store("prev", after, new, "plain"),
   Store("next", new, after, "plain"),
   Store("prev", new, before, "plain"),
   Store("next", before, new, "add")}

\* Mutant: list_add, which is one word shorter.
ListAdd(new) == InsertBetween(new, Anchor, next[Anchor])
ListAddTail(new) == InsertBetween(new, prev[Anchor], Anchor)

\* Mutant: the next entry is not told of its new predecessor.
ListDelForward(entry) ==
  {Store("next", prev[entry], next[entry], "del"),
   Store("next", entry, Poison1, "plain"),
   Store("prev", entry, Poison2, "plain")}
\* Mutant: prev->next = prev in the place of prev->next = next.
ListDelSwapped(entry) ==
  {Store("prev", next[entry], prev[entry], "plain"),
   Store("next", prev[entry], prev[entry], "del"),
   Store("next", entry, Poison1, "plain"),
   Store("prev", entry, Poison2, "plain")}
ListDel(entry) ==
  {Store("prev", next[entry], prev[entry], "plain"),
   Store("next", prev[entry], next[entry], "del"),
   Store("next", entry, Poison1, "plain"),
   Store("prev", entry, Poison2, "plain")}

\* The holder of the lock does one of its stores.
DoStore(t) ==
  /\ lock = t
  /\ \E s \in todo :
       /\ todo' = todo \ {s}
       /\ IF s.field = "next"
          THEN next' = [next EXCEPT ![s.at] = s.val] /\ UNCHANGED prev
          ELSE prev' = [prev EXCEPT ![s.at] = s.val] /\ UNCHANGED next
       /\ linked' = CASE s.kind = "add" -> Append(linked, node[t])
                      [] s.kind = "del" -> Tail(linked)
                      [] OTHER -> linked
  /\ UNCHANGED <<lock, pc, node, verdict>>

-----------------------------------------------------------------------------
(* task_pending_add                                                        *)

\* The addresses no thread and no list holds.
FreeNodes ==
  Nodes \ ({node[t] : t \in Threads} \cup ToSet(linked))

\* event_serial allocates a node; what is in its fields is unspecified.
Allocate(a) ==
  /\ pc[a] = "idle"
  /\ \E n \in FreeNodes :
       /\ node' = [node EXCEPT ![a] = n]
       /\ next' = [next EXCEPT ![n] = Wild]
       /\ prev' = [prev EXCEPT ![n] = Wild]
  /\ pc' = [pc EXCEPT ![a] = "add"]
  /\ UNCHANGED <<lock, todo, verdict, linked>>

AddLocked(a) ==
  /\ pc[a] = "add"
  /\ lock = NoOne
  /\ lock' = a
  /\ todo' = ListAddTail(node[a])
  /\ pc' = [pc EXCEPT ![a] = "added"]
  /\ UNCHANGED <<next, prev, node, verdict, linked>>

AddUnlock(a) ==
  /\ pc[a] = "added"
  /\ lock = a
  /\ todo = {}
  /\ lock' = NoOne
  /\ node' = [node EXCEPT ![a] = NoNode]
  /\ pc' = [pc EXCEPT ![a] = "idle"]
  /\ UNCHANGED <<next, prev, todo, verdict, linked>>

-----------------------------------------------------------------------------
(* task_pending_acquire                                                    *)

AcquireNull(t) ==
  /\ pc[t] = "idle"
  /\ lock = NoOne
  /\ ListEmpty
  /\ UNCHANGED vars

\* Mutant: the list is not tested for emptiness again under the lock.
AcquireUntested(t) ==
  /\ pc[t] = "idle"
  /\ lock = NoOne
  /\ node' = [node EXCEPT ![t] = next[Anchor]]
  /\ todo' = ListDel(next[Anchor])
  /\ lock' = t
  /\ pc' = [pc EXCEPT ![t] = "taking"]
  /\ UNCHANGED <<next, prev, verdict, linked>>

\* Mutant: list_last_entry in the place of list_first_entry.
AcquireLast(t) ==
  /\ pc[t] = "idle"
  /\ lock = NoOne
  /\ ~ListEmpty
  /\ node' = [node EXCEPT ![t] = prev[Anchor]]
  /\ todo' = ListDel(prev[Anchor])
  /\ lock' = t
  /\ pc' = [pc EXCEPT ![t] = "taking"]
  /\ UNCHANGED <<next, prev, verdict, linked>>

AcquireLocked(t) ==
  /\ pc[t] = "idle"
  /\ lock = NoOne
  /\ ~ListEmpty
  /\ node' = [node EXCEPT ![t] = next[Anchor]]
  /\ todo' = ListDel(next[Anchor])
  /\ lock' = t
  /\ pc' = [pc EXCEPT ![t] = "taking"]
  /\ UNCHANGED <<next, prev, verdict, linked>>

AcquireUnlock(t) ==
  /\ pc[t] = "taking"
  /\ lock = t
  /\ todo = {}
  /\ lock' = NoOne
  /\ pc' = [pc EXCEPT ![t] = "taken"]
  /\ UNCHANGED <<next, prev, todo, node, verdict, linked>>

\* The command is executed and task_node_recycle frees its node.
Recycle(t) ==
  /\ pc[t] = "taken"
  /\ node' = [node EXCEPT ![t] = NoNode]
  /\ pc' = [pc EXCEPT ![t] = "idle"]
  /\ UNCHANGED <<next, prev, lock, todo, verdict, linked>>

-----------------------------------------------------------------------------
\* task_allocate asks whether there is a command, without pendlock.
LookUnlocked ==
  /\ verdict' = ListEmpty
  /\ UNCHANGED <<next, prev, lock, todo, pc, node, linked>>

Next ==
  \/ \E a \in Adders : Allocate(a) \/ AddLocked(a) \/ AddUnlock(a)
  \/ \E t \in Takers :
       AcquireNull(t) \/ AcquireLocked(t) \/ AcquireUnlock(t) \/ Recycle(t)
  \/ \E t \in Threads : DoStore(t)
  \/ LookUnlocked

Spec == Init /\ [][Next]_vars

-----------------------------------------------------------------------------
(* Properties.                                                             *)

TypeOK ==
  /\ next \in [Cells -> Pointers]
  /\ prev \in [Cells -> Pointers]
  /\ lock \in Threads \cup {NoOne}
  /\ pc \in [Threads -> {"idle", "add", "added", "taking", "taken"}]
  /\ node \in [Threads -> Nodes \cup {NoNode}]
  /\ \A s \in todo : s.at \in Cells /\ s.val \in Pointers
  /\ verdict \in BOOLEAN
  /\ linked \in Seq(Nodes)

\* Whenever nobody is changing the list, the links lead from the head through
\* exactly the queued nodes, in the order they were added, and back to the
\* head; and the back pointers lead the same way round in the other direction.
\* A list_del on a node that has left, or two threads in the list at a time,
\* would break the ring for good.
RingIsQueue ==
  lock = NoOne =>
    LET ring == <<Anchor>> \o linked \o <<Anchor>>
    IN  \A i \in 1..(Len(ring) - 1) :
          next[ring[i]] = ring[i + 1] /\ prev[ring[i + 1]] = ring[i]

\* The list_empty that task_allocate calls without pendlock (305) is never
\* wrong in the middle of an operation: the head points to itself exactly
\* while the queue is empty, whatever the order of the stores.
UnlockedEmptyIsExact == (next[Anchor] = Anchor) <=> (linked = <<>>)

\* A node is in one place: in the queue once, or in the hands of one thread.
\* Only the thread that is linking or unlinking it has it in both.
OnePlace ==
  /\ IsInjective(linked)
  /\ \A t, u \in Threads : node[t] = node[u] /\ node[t] # NoNode => t = u
  /\ \A t \in Threads : node[t] \in ToSet(linked) => lock = t

\* The linked list is a queue with operations that happen at one instant, the
\* unlocked test for emptiness included.
Queue == INSTANCE PendingQueue WITH items <- linked
ImplementsQueue == Queue!Spec

=============================================================================
