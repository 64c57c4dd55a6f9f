----------------------------- MODULE TaskManager -----------------------------
(***************************************************************************)
(* The task manager of src/sys_task.c and the producer that feeds it.      *)
(*                                                                         *)
(*   event_serial --pend--> task_allocte_resources --tasklist--> scheduler *)
(*        |                        ^                                       *)
(*        +--fifo--> task_allocate +  (tpool_add_work)                     *)
(*                                                                         *)
(* event_serial puts a command in the pending list and writes a byte to    *)
(* the named pipe; the allocator thread reads the pipe and hands           *)
(* task_allocte_resources to the thread pool; a pool thread moves one      *)
(* command into the bounded schedule list; the scheduler thread executes.  *)
(*                                                                         *)
(* The pool is what WorkQueue says: the work items are all the same, so a  *)
(* count of those not started and NumWorkers threads stand for it.  Each   *)
(* list is read and changed under its own mutex only (pendlock,            *)
(* taskschlock), so an access is one action, except task_allocate's        *)
(* list_empty, which reads one pointer.  running is never cleared: the     *)
(* threads do not end, and only the reader of the serial port may.         *)
(***************************************************************************)
EXTENDS Integers, Sequences, FiniteSets, Functions

CONSTANTS
  NumWorkers,    \* threads of the pool that serve the task manager
  TASK_MAXNUM,   \* ELEXSMRT_TASK_MAXNUM, initial value of tasksem_empty
  PipeCap,       \* bytes the named pipe holds
  ReadMax,       \* bytes task_triggered asks for in one read: 127
  MaxCmds,       \* bound: commands that arrive on the serial port
  Faults,        \* the kinds of failure that may happen
  MaxFaults,     \* bound: failures that happen
  Leftover       \* what a field of a task node may hold after malloc

FaultKinds ==
  {"node",       \* malloc of the pending node
   "write",      \* write to the pipe
   "read",       \* read from the pipe
   "work",       \* tpool_add_work
   "parse"}      \* malloc of the task node

ASSUME SizesAssumption ==
  /\ NumWorkers \in Nat \ {0}
  /\ TASK_MAXNUM \in Nat \ {0}
  /\ PipeCap \in Nat \ {0}
  /\ ReadMax \in Nat \ {0}
  /\ MaxCmds \in Nat
  /\ MaxFaults \in Nat

ASSUME FaultsAssumption == Faults \subseteq FaultKinds

Workers == 1..NumWorkers
Commands == 1..MaxCmds    \* a command is its place in the order of arrival

\* A field that nobody has written: NULL by chance, or what the memory was used
\* for before.
ASSUME LeftoverAssumption == Leftover \subseteq {"zero", "junk"}

\* The fields of struct taskl that matter once it is out of task_parse.
Task == [taskcom : Commands, dev_latest : Leftover]
NoTask == [taskcom |-> 0]

VARIABLES
  arrived,   \* how many commands the serial port has delivered
  ppc,       \* where event_serial is in its loop
  pend,      \* mtask->pend.pendlist
  fifo,      \* bytes in the named pipe
  apc,       \* where task_allocate is in its loop
  jobs,      \* task_allocte_resources calls the pool has not started
  wpc,       \* where each pool thread is in task_allocte_resources
  wtask,     \* the task node a pool thread holds
  empty,     \* tasksem_empty
  full,      \* tasksem_full
  tasklist,  \* mtask->schtask->tasklist
  spc,       \* where task_schedule is in its loop
  stask,     \* the task node the scheduler holds
  faults,    \* how many failures have happened
  misread,   \* history: how many reads of the pipe have failed
  dropped,   \* history: commands event_serial could not store
  executed   \* history: commands executed, in that order

producerVars == <<arrived, ppc, dropped>>
allocatorVars == <<apc, misread>>
workerVars == <<wpc, wtask>>
listVars == <<empty, full, tasklist>>
schedulerVars == <<spc, stask, executed>>

vars == <<arrived, ppc, pend, fifo, apc, jobs, wpc, wtask, empty, full,
          tasklist, spc, stask, faults, misread, dropped, executed>>

ProducerStates ==
  {"read",     \* in evop_read
   "add",      \* has a node for the command
   "trigger",  \* the node is in the pending list
   "stopped"}  \* read failed, uCrunning is cleared
AllocatorStates == {"read", "test", "work"}
WorkerStates ==
  {"idle",
   "wait",     \* has a task node, in sem_wait(&tasksem_empty)
   "insert",
   "post"}     \* before sem_post(&tasksem_full)
SchedulerStates ==
  {"wait",     \* in sem_wait(&tasksem_full)
   "pop",
   "post",     \* before sem_post(&tasksem_empty)
   "execute",
   "aborted"}  \* the process is gone: free() of something not allocated

WorkersIn(S) == {w \in Workers : wpc[w] \in S}

\* 1 where b holds: the part an actor that is halfway has in a count.
One(b) == IF b THEN 1 ELSE 0

\* list_empty
\* Mutant: the last entry is overlooked.
OneOrLess(list) == Len(list) <= 1
ListEmpty(list) == list = <<>>

Smaller(m, n) == IF m < n THEN m ELSE n

Fault(kind) ==
  /\ kind \in Faults
  /\ faults < MaxFaults
  /\ faults' = faults + 1

Init ==
  /\ arrived = 0
  /\ ppc = "read"
  /\ pend = <<>>
  /\ fifo = 0
  /\ apc = "read"
  /\ jobs = 0
  /\ wpc = [w \in Workers |-> "idle"]
  /\ wtask = [w \in Workers |-> NoTask]
  /\ empty = TASK_MAXNUM
  /\ full = 0
  /\ tasklist = <<>>
  /\ spc = "wait"
  /\ stask = NoTask
  /\ faults = 0
  /\ misread = 0
  /\ dropped = {}
  /\ executed = <<>>

-----------------------------------------------------------------------------
(* event_serial                                                            *)

Arrive ==
  /\ ppc = "read"
  /\ arrived < MaxCmds
  /\ arrived' = arrived + 1

\* Mutant: task_pending_add is not called.
NodeNotAdded ==
  /\ Arrive
  /\ ppc' = "trigger"
  /\ UNCHANGED <<pend, fifo, jobs, faults, dropped, allocatorVars, workerVars,
                 listVars, schedulerVars>>

NodeAllocated ==
  /\ Arrive
  /\ ppc' = "add"
  /\ UNCHANGED <<pend, fifo, jobs, faults, dropped, allocatorVars, workerVars,
                 listVars, schedulerVars>>

NodeFails ==
  /\ Arrive
  /\ Fault("node")
  /\ ppc' = "read"
  /\ dropped' = dropped \cup {arrived'}
  /\ UNCHANGED <<pend, fifo, jobs, allocatorVars, workerVars, listVars,
                 schedulerVars>>

\* The read fails or ends: the loop does too.
StopReading ==
  /\ ppc = "read"
  /\ ppc' = "stopped"
  /\ UNCHANGED <<arrived, pend, fifo, jobs, faults, dropped, allocatorVars,
                 workerVars, listVars, schedulerVars>>

\* Mutant: list_add in the place of list_add_tail.
PendAddFirst ==
  /\ ppc = "add"
  /\ pend' = <<arrived>> \o pend
  /\ ppc' = "trigger"
  /\ UNCHANGED <<arrived, fifo, jobs, faults, dropped, allocatorVars,
                 workerVars, listVars, schedulerVars>>

\* task_pending_add
PendAdd ==
  /\ ppc = "add"
  /\ pend' = Append(pend, arrived)
  /\ ppc' = "trigger"
  /\ UNCHANGED <<arrived, fifo, jobs, faults, dropped, allocatorVars,
                 workerVars, listVars, schedulerVars>>

\* task_trigger: the write blocks while the pipe is full.
Trigger ==
  /\ ppc = "trigger"
  /\ fifo < PipeCap
  /\ fifo' = fifo + 1
  /\ ppc' = "read"
  /\ UNCHANGED <<arrived, pend, jobs, faults, dropped, allocatorVars,
                 workerVars, listVars, schedulerVars>>

\* The error is printed and forgotten.
TriggerFails ==
  /\ ppc = "trigger"
  /\ Fault("write")
  /\ ppc' = "read"
  /\ UNCHANGED <<arrived, pend, fifo, jobs, dropped, allocatorVars,
                 workerVars, listVars, schedulerVars>>

Producer ==
  \/ NodeAllocated \/ NodeFails \/ StopReading
  \/ PendAdd
  \/ Trigger \/ TriggerFails

-----------------------------------------------------------------------------
(* task_allocate                                                           *)

\* One read takes all the bytes there are, up to ReadMax.
TriggerRead ==
  /\ apc = "read"
  /\ fifo > 0
  /\ fifo' = fifo - Smaller(fifo, ReadMax)
  /\ apc' = "test"
  /\ UNCHANGED <<pend, jobs, faults, misread, producerVars, workerVars,
                 listVars, schedulerVars>>

\* task_triggered prints the error and returns.
TriggerReadFails ==
  /\ apc = "read"
  /\ Fault("read")
  /\ misread' = misread + 1
  /\ apc' = "test"
  /\ UNCHANGED <<pend, fifo, jobs, producerVars, workerVars, listVars,
                 schedulerVars>>

\* Mutant: the pending list is not tested.
AllocateAlways ==
  /\ apc = "test"
  /\ apc' = "work"
  /\ UNCHANGED <<pend, fifo, jobs, faults, misread, producerVars, workerVars,
                 listVars, schedulerVars>>

AllocateTest ==
  /\ apc = "test"
  /\ apc' = IF ListEmpty(pend) THEN "read" ELSE "work"
  /\ UNCHANGED <<pend, fifo, jobs, faults, misread, producerVars, workerVars,
                 listVars, schedulerVars>>

AllocateWork ==
  /\ apc = "work"
  /\ jobs' = jobs + 1
  /\ apc' = "read"
  /\ UNCHANGED <<pend, fifo, faults, misread, producerVars, workerVars,
                 listVars, schedulerVars>>

\* The result of tpool_add_work is ignored.
AllocateWorkFails ==
  /\ apc = "work"
  /\ Fault("work")
  /\ apc' = "read"
  /\ UNCHANGED <<pend, fifo, jobs, misread, producerVars, workerVars,
                 listVars, schedulerVars>>

Allocator ==
  \/ TriggerRead \/ TriggerReadFails
  \/ AllocateTest
  \/ AllocateWork \/ AllocateWorkFails

-----------------------------------------------------------------------------
(* task_allocte_resources, run by a thread of the pool                     *)

StartJob(w) ==
  /\ wpc[w] = "idle"
  /\ jobs > 0
  /\ jobs' = jobs - 1

\* Mutant: the node stays in the pending list.
ParseKeeps(w) ==
  /\ StartJob(w)
  /\ ~ListEmpty(pend)
  /\ \E d \in Leftover :
       wtask' = [wtask EXCEPT ![w] = [taskcom |-> Head(pend), dev_latest |-> d]]
  /\ wpc' = [wpc EXCEPT ![w] = "wait"]
  /\ UNCHANGED <<pend, fifo, faults, producerVars, allocatorVars, listVars,
                 schedulerVars>>

\* task_parse: the fields it does not write keep what malloc found there.
Parse(w) ==
  /\ StartJob(w)
  /\ ~ListEmpty(pend)
  /\ \E d \in Leftover :
       wtask' = [wtask EXCEPT ![w] = [taskcom |-> Head(pend), dev_latest |-> d]]
  /\ pend' = Tail(pend)
  /\ wpc' = [wpc EXCEPT ![w] = "wait"]
  /\ UNCHANGED <<fifo, faults, producerVars, allocatorVars, listVars,
                 schedulerVars>>

ParseFindsNothing(w) ==
  /\ StartJob(w)
  /\ ListEmpty(pend)
  /\ UNCHANGED <<pend, fifo, faults, producerVars, allocatorVars, workerVars,
                 listVars, schedulerVars>>

ParseFails(w) ==
  /\ StartJob(w)
  /\ Fault("parse")
  /\ UNCHANGED <<pend, fifo, producerVars, allocatorVars, workerVars,
                 listVars, schedulerVars>>

\* task_schedule_add: sem_wait, the list, sem_post.
\* Mutant: the semaphore is tested and not taken.
WaitEmptyKeeps(w) ==
  /\ wpc[w] = "wait"
  /\ empty > 0
  /\ wpc' = [wpc EXCEPT ![w] = "insert"]
  /\ UNCHANGED <<pend, fifo, jobs, wtask, faults, producerVars, allocatorVars,
                 listVars, schedulerVars>>

WaitEmpty(w) ==
  /\ wpc[w] = "wait"
  /\ empty > 0
  /\ empty' = empty - 1
  /\ wpc' = [wpc EXCEPT ![w] = "insert"]
  /\ UNCHANGED <<pend, fifo, jobs, wtask, full, tasklist, faults,
                 producerVars, allocatorVars, schedulerVars>>

Insert(w) ==
  /\ wpc[w] = "insert"
  /\ tasklist' = Append(tasklist, wtask[w])
  /\ wtask' = [wtask EXCEPT ![w] = NoTask]
  /\ wpc' = [wpc EXCEPT ![w] = "post"]
  /\ UNCHANGED <<pend, fifo, jobs, empty, full, faults, producerVars,
                 allocatorVars, schedulerVars>>

PostFull(w) ==
  /\ wpc[w] = "post"
  /\ full' = full + 1
  /\ wpc' = [wpc EXCEPT ![w] = "idle"]
  /\ UNCHANGED <<pend, fifo, jobs, wtask, empty, tasklist, faults,
                 producerVars, allocatorVars, schedulerVars>>

Worker(w) ==
  \/ Parse(w) \/ ParseFindsNothing(w) \/ ParseFails(w)
  \/ WaitEmpty(w) \/ Insert(w) \/ PostFull(w)

-----------------------------------------------------------------------------
(* task_schedule                                                           *)

\* Mutant: the semaphore is tested and not taken.
WaitFullKeeps ==
  /\ spc = "wait"
  /\ full > 0
  /\ spc' = "pop"
  /\ UNCHANGED <<pend, fifo, jobs, listVars, stask, faults, executed,
                 producerVars, allocatorVars, workerVars>>

WaitFull ==
  /\ spc = "wait"
  /\ full > 0
  /\ full' = full - 1
  /\ spc' = "pop"
  /\ UNCHANGED <<pend, fifo, jobs, empty, tasklist, stask, faults, executed,
                 producerVars, allocatorVars, workerVars>>

\* task_schedule_acquire returns NULL for an empty list, and the loop goes on;
\* neither semaphore is posted then.
Pop ==
  /\ spc = "pop"
  /\ IF ListEmpty(tasklist) THEN spc' = "wait" /\ UNCHANGED <<tasklist, stask>>
     ELSE /\ stask' = Head(tasklist)
          /\ tasklist' = Tail(tasklist)
          /\ spc' = "post"
  /\ UNCHANGED <<pend, fifo, jobs, empty, full, faults, executed,
                 producerVars, allocatorVars, workerVars>>

\* Mutant: tasksem_empty is not posted.
PostEmptyNot ==
  /\ spc = "post"
  /\ spc' = "execute"
  /\ UNCHANGED <<pend, fifo, jobs, listVars, stask, faults, executed,
                 producerVars, allocatorVars, workerVars>>

PostEmpty ==
  /\ spc = "post"
  /\ empty' = empty + 1
  /\ spc' = "execute"
  /\ UNCHANGED <<pend, fifo, jobs, full, tasklist, stask, faults, executed,
                 producerVars, allocatorVars, workerVars>>

\* task_excute prints the command; task_node_recycle frees taskcom, what
\* dev_latest points to, and the node.
Execute ==
  /\ spc = "execute"
  /\ executed' = Append(executed, stask.taskcom)
  /\ stask' = NoTask
  /\ spc' = IF stask.dev_latest = "zero" THEN "wait" ELSE "aborted"
  /\ UNCHANGED <<pend, fifo, jobs, faults, listVars, producerVars,
                 allocatorVars, workerVars>>

Scheduler == WaitFull \/ Pop \/ PostEmpty \/ Execute

-----------------------------------------------------------------------------
Alive == spc # "aborted"

Next ==
  /\ Alive
  /\ \/ Producer
     \/ Allocator
     \/ \E w \in Workers : Worker(w)
     \/ Scheduler

Spec == Init /\ [][Next]_vars

\* Each thread goes on when it can.  Commands need not arrive, the reader
\* need not stop, and nothing has to fail.
Fairness ==
  /\ WF_vars(Alive /\ (PendAdd \/ Trigger))
  /\ WF_vars(Alive /\ (TriggerRead \/ AllocateTest \/ AllocateWork))
  /\ \A w \in Workers :
       WF_vars(Alive /\ (Parse(w) \/ ParseFindsNothing(w) \/ WaitEmpty(w)
                           \/ Insert(w) \/ PostFull(w)))
  /\ WF_vars(Alive /\ Scheduler)

FairSpec == Spec /\ Fairness

-----------------------------------------------------------------------------
(* Properties                                                              *)

\* Every variable has a value of its type; no semaphore exceeds the capacity
\* of the schedule list.
TypeOK ==
  /\ arrived \in 0..MaxCmds
  /\ ppc \in ProducerStates
  /\ pend \in Seq(Commands)
  /\ fifo \in 0..PipeCap
  /\ apc \in AllocatorStates
  /\ jobs \in Nat
  /\ wpc \in [Workers -> WorkerStates]
  /\ wtask \in [Workers -> Task \cup {NoTask}]
  /\ empty \in 0..TASK_MAXNUM
  /\ full \in 0..TASK_MAXNUM
  /\ tasklist \in Seq(Task)
  /\ spc \in SchedulerStates
  /\ stask \in Task \cup {NoTask}
  /\ faults \in 0..MaxFaults
  /\ misread \in 0..faults
  /\ dropped \in SUBSET Commands
  /\ executed \in Seq(Commands)

\* The two semaphores and the schedule list agree at every step: each slot is
\* free, about to be filled, filled, or about to be given back, and each task
\* in the list is announced, about to be, or about to be fetched.
SemBalance ==
  /\ empty + Cardinality(WorkersIn({"insert"})) + Len(tasklist)
       + One(spc = "post") = TASK_MAXNUM
  /\ Len(tasklist) = full + Cardinality(WorkersIn({"post"})) + One(spc = "pop")

\* task_schedule_acquire never returns NULL, a path on which it would not post
\* tasksem_empty and so lose a slot of the schedule list for good.
SchedulerFindsTask == spc = "pop" => tasklist # <<>>

\* The places where a command can be; it is in exactly one of them.
Places(c) ==
  One(ppc = "add" /\ c = arrived)
    + One(c \in dropped)
    + Cardinality({i \in DOMAIN pend : pend[i] = c})
    + Cardinality({w \in Workers : wtask[w].taskcom = c})
    + Cardinality({i \in DOMAIN tasklist : tasklist[i].taskcom = c})
    + One(stask.taskcom = c)
    + Cardinality({i \in DOMAIN executed : executed[i] = c})

\* No command is lost or executed twice, whichever threads hold it and
\* whichever calls fail; only a command without a node is dropped.
OnePlace == \A c \in Commands : Places(c) = One(c <= arrived)

Scheduled == {stask.taskcom} \cup {tasklist[i].taskcom : i \in DOMAIN tasklist}
               \cup Range(executed)
InHand == {wtask[w].taskcom : w \in Workers} \cup Scheduled

TakenInOrder ==
  /\ \A i, k \in DOMAIN pend : i < k => pend[i] < pend[k]
  /\ \A c \in InHand, d \in Range(pend) : c < d

\* Pool threads take commands in the order of arrival.  On the way to the
\* schedule list they may overtake one another: a command that a later one is
\* ahead of is in the hands of a pool thread, and nowhere else.
PendingFifo ==
  /\ TakenInOrder
  /\ \A c \in Commands, d \in Scheduled :
       c < d => \/ c \in Scheduled \cup dropped
                \/ \E w \in Workers : wtask[w].taskcom = c

\* The list_empty tests of task_allocate and task_pending_acquire do not find
\* the list empty, although nothing holds it still between the notice and the
\* test: there are never more notices on the way than commands waiting.  Only
\* a read of the pipe that fails is a notice out of nothing; a failed malloc,
\* write or tpool_add_work makes none.
TriggersCovered ==
  fifo + One(apc # "read") + jobs + One(ppc = "trigger")
    <= Len(pend) + misread

\* A command that a pool thread has taken is executed.
AcquiredExecuted ==
  \A c \in Commands :
    (\E w \in Workers : wtask[w].taskcom = c) ~> c \in Range(executed)

\* While a call of task_allocte_resources is queued, the command that waits
\* longest is on its way to be executed, even behind commands whose notices
\* were merged, unless something fails before it gets there: its task node may
\* be the one that cannot be allocated.
OldestExecuted ==
  \A c \in Commands, n \in 0..MaxFaults :
    jobs > 0 /\ pend # <<>> /\ Head(pend) = c /\ faults = n
      ~> c \in Range(executed) \/ faults > n

\* Nobody is at work and no notice is on its way.
Quiet ==
  /\ ppc = "read"
  /\ fifo = 0
  /\ apc = "read"
  /\ jobs = 0
  /\ WorkersIn({"idle"}) = Workers
  /\ spc = "wait"

\* "When a task has been produced the allocator is notified to process it"
\* (reference/task_schedule.txt:16): if nothing fails, no command is left
\* in the pending list with every thread waiting.
NoStrandedCommand == Quiet => pend = <<>>

\* dev_latest is "The device latest infomation after it has been operated"
\* (inc/sys_task.h:91), which nobody has stored yet: it is NULL when
\* task_node_recycle frees it.
RecycleFreesNothingElse == spc # "aborted"

=============================================================================
