------------------------------ MODULE SysServer ------------------------------
(***************************************************************************)
(* The server put together: main starts its parts (sys.c), the events are  *)
(* jobs of the thread pool (src/sys_event_dispatch.c), and they share its  *)
(* threads and its one queue with the task manager's calls of              *)
(* task_allocte_resources.                                                 *)
(*                                                                         *)
(* The module extends TaskManager: each step of a part of the task manager *)
(* is a step here, when the thread that makes it exists and, for a thread  *)
(* of the pool, when the job at the head of the queue is the one.          *)
(* NumWorkers is now the size of the pool.  Of the pool itself only what   *)
(* WorkQueue promises is used.  The port's two loops are SerialPort's; all *)
(* that matters here is how long they occupy a thread.                     *)
(***************************************************************************)
EXTENDS TaskManager

VARIABLES
  boot,    \* how far main is
  queue,   \* the routines in the queue of the pool, oldest first
  role     \* the event a pool thread is in

sysVars == <<vars, boot, queue, role>>

\* In the order of main, do_system_server and event_trigger.
BootStates ==
  {"init",      \* in main, system_info_init is next
   "net",       \* about to call system_net_init
   "task",      \* about to call task_init
   "create",    \* the task manager's threads run, tpool_create is next
   "serial",    \* about to submit event_serial
   "ethernet",  \* about to submit event_ethernet
   "up",        \* in the loop of do_system_server
   "exited"}    \* exit was called: no thread is left

Events == {"serial", "write", "ethernet"}
JobKinds == Events \cup {"alloc"}
Roles ==
  {"none",
   "serial",    \* in event_serial, the port is being started
   "reading",   \* in its loop
   "write", "ethernet"}

PoolUp == boot \in {"serial", "ethernet", "up"}
ManagerUp == boot = "create" \/ PoolUp

SysInit ==
  /\ Init
  /\ boot = "init"
  /\ queue = <<>>
  /\ role = [w \in Workers |-> "none"]

-----------------------------------------------------------------------------
(* main                                                                    *)

\* Each part is initialised or ends the process.
SystemInit ==
  /\ boot = "init"
  /\ boot' \in {"net", "exited"}
  /\ UNCHANGED <<queue, role, vars>>

\* One socket call and five ioctls for each network interface, any of which may
\* fail.
NetInit ==
  /\ boot = "net"
  /\ boot' \in {"task", "exited"}
  /\ UNCHANGED <<queue, role, vars>>

TaskInit ==
  /\ boot = "task"
  /\ boot' \in {"create", "exited"}
  /\ UNCHANGED <<queue, role, vars>>

CreatePool ==
  /\ boot = "create"
  /\ boot' \in {"serial", "exited"}
  /\ UNCHANGED <<queue, role, vars>>

\* tpool_add_work: the routine is queued or, without memory, it is not; the
\* callers do not look at the result.
\* Mutant: the node is linked twice.
AddTwice(job) == queue' \in {queue, queue \o <<job, job>>}
AddWork(job) == queue' \in {queue, Append(queue, job)}

\* Mutant: a task is allocated at the start, for a command nobody sent.
SubmitEventAndTask(event, next) ==
  /\ boot = event
  /\ queue' = queue \o <<event, "alloc">>
  /\ jobs' = jobs + 1
  /\ boot' = next
  /\ UNCHANGED <<role, pend, fifo, faults, producerVars, allocatorVars,
                 workerVars, listVars, schedulerVars>>

\* event_trigger
SubmitEvent(event, next) ==
  /\ boot = event
  /\ AddWork(event)
  /\ boot' = next
  /\ UNCHANGED <<role, vars>>

Main ==
  \/ SystemInit \/ NetInit \/ TaskInit \/ CreatePool
  \/ SubmitEvent("serial", "ethernet")
  \/ SubmitEvent("ethernet", "up")

-----------------------------------------------------------------------------
(* The events, in threads of the pool                                      *)

Idle(w) == wpc[w] = "idle" /\ role[w] = "none"

Take(w, job) ==
  /\ PoolUp
  /\ Idle(w)
  /\ queue # <<>>
  /\ Head(queue) = job
  /\ queue' = Tail(queue)

TakeEvent(w, event) ==
  /\ Take(w, event)
  /\ role' = [role EXCEPT ![w] = event]
  /\ UNCHANGED <<boot, vars>>

\* event_serial starts the port and submits serial_write, even when the start
\* has failed, which leaves its own loop at once.
SerialStarts(w) ==
  /\ role[w] = "serial"
  /\ role' = [role EXCEPT ![w] = "reading"]
  /\ AddWork("write")
  /\ UNCHANGED vars \/ StopReading
  /\ UNCHANGED boot

\* The loop of event_serial.
SerialReads ==
  /\ \E w \in Workers : role[w] = "reading"
  /\ Producer
  /\ UNCHANGED <<boot, queue, role>>

Leave(w) ==
  /\ role' = [role EXCEPT ![w] = "none"]
  /\ UNCHANGED <<boot, queue, vars>>

ReaderLeaves(w) == role[w] = "reading" /\ ppc = "stopped" /\ Leave(w)

\* Its write has failed, or it has seen uCrunning cleared.
WriterLeaves(w) == role[w] = "write" /\ Leave(w)

\* Mutant: without __HTTP_ENABLE__ the thread stays in event_base_dispatch.
EthernetStays(w) == role[w] = "ethernet" /\ UNCHANGED sysVars

\* event_ethernet listens, creates the HTTP server's thread and returns.
EthernetReturns(w) == role[w] = "ethernet" /\ Leave(w)

Event(w) ==
  \/ \E event \in Events : TakeEvent(w, event)
  \/ SerialStarts(w)
  \/ ReaderLeaves(w) \/ WriterLeaves(w) \/ EthernetReturns(w)

-----------------------------------------------------------------------------
(* The task manager                                                        *)

\* AllocateWork calls tpool_add_work.
AllocatorRuns ==
  \/ AllocateWork /\ queue' = Append(queue, "alloc") /\ UNCHANGED <<boot, role>>
  \/ /\ TriggerRead \/ TriggerReadFails \/ AllocateTest \/ AllocateWorkFails
     /\ UNCHANGED <<boot, queue, role>>

AllocateBegins(w) ==
  /\ Take(w, "alloc")
  /\ Parse(w) \/ ParseFindsNothing(w) \/ ParseFails(w)
  /\ UNCHANGED <<boot, role>>

AllocateContinues(w) ==
  /\ WaitEmpty(w) \/ Insert(w) \/ PostFull(w)
  /\ UNCHANGED <<boot, queue, role>>

SchedulerRuns == Scheduler /\ UNCHANGED <<boot, queue, role>>

SysNext ==
  \/ Alive /\ Main
  \/ /\ Alive
     /\ ManagerUp
     /\ \/ SerialReads
        \/ AllocatorRuns
        \/ SchedulerRuns
        \/ \E w \in Workers :
             Event(w) \/ AllocateBegins(w) \/ AllocateContinues(w)

SysSpec == SysInit /\ [][SysNext]_sysVars

\* Main goes on and every thread of the pool takes the next job.  The read of
\* the port and the write after the fgets need never return; event_ethernet
\* and the start of the port do.
SysFairness ==
  /\ WF_sysVars(Main)
  /\ WF_sysVars((PendAdd \/ Trigger) /\ SerialReads)
  /\ WF_sysVars(ManagerUp /\ AllocatorRuns
                  /\ (TriggerRead \/ AllocateTest \/ AllocateWork))
  /\ WF_sysVars(ManagerUp /\ SchedulerRuns)
  /\ \A w \in Workers :
       WF_sysVars(\/ \E event \in Events : TakeEvent(w, event)
                  \/ SerialStarts(w) \/ ReaderLeaves(w) \/ EthernetReturns(w)
                  \/ AllocateBegins(w) \/ AllocateContinues(w))

SysFairSpec == SysSpec /\ SysFairness

-----------------------------------------------------------------------------
(* Properties.                                                             *)

\* task_init starts task_allocate, which calls tpool_add_work, before main
\* calls tpool_create: it never gets to that call while there is no pool.
\* Only the test of the pending list keeps it from doing so.
PoolReadyWhenUsed == apc = "work" => PoolUp

\* The roles a thread has on account of an event.
Occupies(event) == {event} \cup (IF event = "serial" THEN {"reading"} ELSE {})

\* The port has one reader and one writer: no event is twice in the queue or
\* in the threads of the pool.
EventsOnce ==
  \A event \in Events :
    Cardinality({i \in DOMAIN queue : queue[i] = event})
      + Cardinality({w \in Workers : role[w] \in Occupies(event)}) <= 1

\* The two loops of the serial port keep two threads of the pool for good; one
\* more is enough for everything else that is submitted to be started.
PoolSuffices ==
  NumWorkers >= 3 => (queue # <<>> ~> queue = <<>>)

\* The task manager inside the server behaves as TaskManager says it does
\* alone, so what is shown of it holds in the server.
ImplementsTaskManager == Spec

=============================================================================
