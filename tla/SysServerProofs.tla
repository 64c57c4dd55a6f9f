--------------------------- MODULE SysServerProofs ---------------------------
(***************************************************************************)
(* Proofs about SysServer, for every size of the pool, of the schedule     *)
(* list and of the pipe: the task manager in the server is TaskManager,    *)
(* from which its invariants follow, and the pool is there when it is      *)
(* used.                                                                   *)
(***************************************************************************)
EXTENDS SysServer, TaskManagerProofs, TLAPS

\* A step of the server is a step of the task manager, or leaves it alone: no
\* event, job or start-up step touches the lists, semaphores and threads of
\* the task manager but through its own operations (src/sys_task.c).
LEMMA StepImplements == [SysNext]_sysVars => [Next]_vars
<1> SUFFICES ASSUME [SysNext]_sysVars PROVE [Next]_vars
    OBVIOUS
<1>1. CASE UNCHANGED sysVars
  BY <1>1 DEF sysVars
<1>2. CASE Alive /\ Main
  BY <1>2 DEF Main, SystemInit, NetInit, TaskInit, CreatePool, SubmitEvent
<1>3. CASE Alive /\ SerialReads
  BY <1>3 DEF SerialReads, Next
<1>4. CASE Alive /\ AllocatorRuns
  BY <1>4 DEF AllocatorRuns, Next, Allocator
<1>5. CASE Alive /\ SchedulerRuns
  BY <1>5 DEF SchedulerRuns, Next
<1>6. ASSUME Alive, ManagerUp, NEW w \in Workers,
             Event(w) \/ AllocateBegins(w) \/ AllocateContinues(w)
      PROVE  [Next]_vars
  <2>1. CASE \E event \in Events : TakeEvent(w, event)
    BY <2>1 DEF TakeEvent
  <2>2. CASE SerialStarts(w)
    BY <2>2, <1>6 DEF SerialStarts, Next, Producer
  <2>3. CASE ReaderLeaves(w) \/ WriterLeaves(w) \/ EthernetReturns(w)
    BY <2>3 DEF ReaderLeaves, WriterLeaves, EthernetReturns, Leave
  <2>4. CASE AllocateBegins(w)
    BY <2>4, <1>6 DEF AllocateBegins, Next, Worker
  <2>5. CASE AllocateContinues(w)
    BY <2>5, <1>6 DEF AllocateContinues, Next, Worker
  <2>6. QED
    BY <1>6, <2>1, <2>2, <2>3, <2>4, <2>5 DEF Event
<1>7. QED
  BY <1>1, <1>2, <1>3, <1>4, <1>5, <1>6 DEF SysNext

\* The task manager inside the server, fed and run by the threads of the pool
\* (src/sys_event_dispatch.c:9, src/sys_task.c:307), is TaskManager.
THEOREM ServerImplementsManager == SysSpec => ImplementsTaskManager
<1>1. SysInit => Init
  BY DEF SysInit
<1>2. QED
  BY <1>1, StepImplements, PTL DEF SysSpec, ImplementsTaskManager, Spec

\* What is shown of the task manager holds in the whole server, where it shares
\* the threads and the queue of the pool with the events: the semaphores agree
\* with the schedule list, task_schedule_acquire finds a task whenever it is
\* let in, no command is lost, duplicated or overtaken while it is pending, none
\* is executed long before its turn, and the hand-over does not come to a halt.
THEOREM ManagerInServer ==
  SysSpec => [](/\ TypeOK /\ SemBalance /\ SchedulerFindsTask
                /\ TriggersCovered /\ PendingFifo /\ OnePlace /\ TurnKept
                /\ NoMutualWait)
<1>1. SysSpec => Spec
  BY ServerImplementsManager DEF ImplementsTaskManager
<1>2. QED
  BY <1>1, TypeCorrect, SemaphoresBalance, NoEmptyPop, NoticesCovered,
     PendingInOrder, CommandsInOnePlace, CommandsKeepTheirTurn,
     HandOverGoesOn, PTL

\* What the server may leave undone, and why: as long as the calls that pass a
\* notice on succeed, of the commands stored one in a batch of merged notices
\* is taken; and the process does not abort if task_parse clears the node.
THEOREM DefectsInServer ==
  /\ Faults \subseteq {"node", "read"} => (SysSpec => []OneInABatchTaken)
  /\ Leftover \subseteq {"zero"} => (SysSpec => []RecycleFreesNothingElse)
<1>1. SysSpec => Spec
  BY ServerImplementsManager DEF ImplementsTaskManager
<1>2. ASSUME Faults \subseteq {"node", "read"} PROVE SysSpec => []OneInABatchTaken
  <2>1. Spec => []OneInABatchTaken
    BY <1>2, MergedNoticesBounded
  <2> QED
    BY <1>1, <2>1, PTL
<1>3. ASSUME Leftover \subseteq {"zero"} PROVE SysSpec => []RecycleFreesNothingElse
  <2>1. Spec => []RecycleFreesNothingElse
    BY <1>3, ClearedFieldFreesNothingElse
  <2> QED
    BY <1>1, <2>1, PTL
<1> QED
  BY <1>2, <1>3

-----------------------------------------------------------------------------
(* Until main has created the pool, nobody runs who could put a command in *)
(* the pending list, and task_allocate turns back at its test.             *)

BootInv ==
  ~PoolUp => /\ pend = <<>>
             /\ apc # "work"
             /\ role = [w \in Workers |-> "none"]
             /\ wpc = [w \in Workers |-> "idle"]

\* Main's steps lead up, and none of them touches what the others own.
LEMMA BootMain == ASSUME BootInv, Main PROVE BootInv'
<1> USE DEF BootInv, PoolUp, vars
<1>1. CASE SystemInit \/ NetInit \/ TaskInit \/ CreatePool
  BY <1>1 DEF SystemInit, NetInit, TaskInit, CreatePool
<1>2. CASE SubmitEvent("serial", "ethernet") \/ SubmitEvent("ethernet", "up")
  BY <1>2 DEF SubmitEvent
<1>3. QED
  BY <1>1, <1>2 DEF Main

\* The steps of the other threads preserve BootInv: before the pool is up only
\* task_allocate and task_schedule can make one.
LEMMA BootOthers ==
  ASSUME BootInv, ~PoolUp,
         \/ SerialReads \/ AllocatorRuns \/ SchedulerRuns
         \/ \E w \in Workers : Event(w) \/ AllocateBegins(w)
                                 \/ AllocateContinues(w)
  PROVE  BootInv'
<1> USE DEF BootInv
<1>1. CASE SerialReads
  BY <1>1 DEF SerialReads
<1>2. CASE AllocatorRuns
  BY <1>2 DEF AllocatorRuns, AllocateWork, TriggerRead, TriggerReadFails,
              AllocateTest, AllocateWorkFails, ListEmpty, workerVars
<1>3. CASE SchedulerRuns
  BY <1>3 DEF SchedulerRuns, Scheduler, WaitFull, Pop, PostEmpty, Execute,
              allocatorVars, workerVars
<1>4. CASE \E w \in Workers : Event(w) \/ AllocateBegins(w)
                                \/ AllocateContinues(w)
  <2> PICK w \in Workers : Event(w) \/ AllocateBegins(w)
                             \/ AllocateContinues(w)
    BY <1>4
  <2>1. ~ Event(w)
    BY DEF Event, TakeEvent, Take, SerialStarts, ReaderLeaves, WriterLeaves,
           EthernetReturns
  <2>2. ~ AllocateBegins(w)
    BY DEF AllocateBegins, Take
  <2>3. ~ AllocateContinues(w)
    BY DEF AllocateContinues, WaitEmpty, Insert, PostFull
  <2>4. QED
    BY <2>1, <2>2, <2>3
<1>5. QED
  BY <1>1, <1>2, <1>3, <1>4

\* A thread that is not main does not change how far main is.
LEMMA BootKept ==
  ASSUME \/ SerialReads \/ AllocatorRuns \/ SchedulerRuns
         \/ \E w \in Workers : Event(w) \/ AllocateBegins(w)
                                 \/ AllocateContinues(w)
  PROVE  boot' = boot
BY DEF SerialReads, AllocatorRuns, SchedulerRuns, Event, TakeEvent,
       SerialStarts, ReaderLeaves, WriterLeaves, EthernetReturns, Leave,
       AllocateBegins, AllocateContinues

\* task_allocate runs before tpool_create (src/sys_task.c:140, sys.c:28), and
\* never calls tpool_add_work without a pool.
THEOREM PoolReady == SysSpec => []PoolReadyWhenUsed
<1>1. SysInit => BootInv
  BY DEF SysInit, Init, BootInv
<1>2. BootInv /\ [SysNext]_sysVars => BootInv'
  <2> SUFFICES ASSUME BootInv, [SysNext]_sysVars PROVE BootInv'
      OBVIOUS
  <2>1. CASE UNCHANGED sysVars
    BY <2>1 DEF sysVars, vars, BootInv, PoolUp
  <2>2. CASE Main
    BY <2>2, BootMain
  <2>3. ASSUME \/ SerialReads \/ AllocatorRuns \/ SchedulerRuns
               \/ \E w \in Workers : Event(w) \/ AllocateBegins(w)
                                       \/ AllocateContinues(w)
        PROVE  BootInv'
    <3>1. CASE PoolUp
      BY <3>1, <2>3, BootKept DEF BootInv, PoolUp
    <3>2. CASE ~PoolUp
      BY <3>2, <2>3, BootOthers
    <3>3. QED
      BY <3>1, <3>2
  <2>4. QED
    BY <2>1, <2>2, <2>3 DEF SysNext
<1>3. BootInv => PoolReadyWhenUsed
  BY DEF BootInv, PoolReadyWhenUsed
<1>4. QED
  BY <1>1, <1>2, <1>3, PTL DEF SysSpec

-----------------------------------------------------------------------------
(* Each event is in one place: event_trigger submits two events once, and   *)
(* event_serial, which runs once, the third.                                *)

OnceIn(q, e) == \A i, k \in DOMAIN q : q[i] = e /\ q[k] = e => i = k
Held(e) == \E w \in Workers : role[w] \in Occupies(e)
Gone(e) == e \notin Range(queue) /\ ~Held(e)

\* An event that main has still to submit is nowhere, nor is serial_write
\* before event_serial has submitted it.
PlaceInv ==
  /\ \A e \in Events :
       /\ OnceIn(queue, e)
       /\ \A v, w \in Workers :
            role[v] \in Occupies(e) /\ role[w] \in Occupies(e) => v = w
       /\ e \in Range(queue) => ~Held(e)
  /\ boot \notin {"ethernet", "up"} => Gone("serial") /\ Gone("write")
  /\ boot # "up" => Gone("ethernet")
  /\ "serial" \in Range(queue) \/ (\E w \in Workers : role[w] = "serial")
       => Gone("write")

EventInv ==
  /\ queue \in Seq(JobKinds)
  /\ role \in [Workers -> Roles]
  /\ PlaceInv

\* A routine behind the others in the queue.
LEMMA AppendOnce ==
  ASSUME NEW q \in Seq(JobKinds), NEW x \in JobKinds
  PROVE  /\ Append(q, x) \in Seq(JobKinds)
         /\ Range(Append(q, x)) = Range(q) \cup {x}
         /\ \A e : OnceIn(q, e) /\ (x = e => e \notin Range(q))
                     => OnceIn(Append(q, x), e)
<1>1. /\ Append(q, x) \in Seq(JobKinds) /\ DOMAIN q = 1..Len(q)
      /\ DOMAIN Append(q, x) = 1..(Len(q) + 1) /\ Len(q) \in Nat
      /\ Append(q, x)[Len(q) + 1] = x
      /\ \A i \in 1..Len(q) : Append(q, x)[i] = q[i]
  OBVIOUS
<1> DEFINE r == Append(q, x)
<1> HIDE DEF r
<1>2. Range(r) = Range(q) \cup {x}
  BY <1>1 DEF r, Range
<1>3. ASSUME NEW e, OnceIn(q, e), x = e => e \notin Range(q)
      PROVE  OnceIn(r, e)
  BY <1>1, <1>3 DEF r, Range, OnceIn
<1> QED
  BY <1>1, <1>2, <1>3 DEF r

\* The queue without the routine at its head.
LEMMA TailOnce ==
  ASSUME NEW q \in Seq(JobKinds), q # <<>>
  PROVE  /\ Tail(q) \in Seq(JobKinds)
         /\ Head(q) \in Range(q)
         /\ Range(Tail(q)) \subseteq Range(q)
         /\ \A e : OnceIn(q, e) => OnceIn(Tail(q), e)
         /\ OnceIn(q, Head(q)) => Head(q) \notin Range(Tail(q))
<1>1. /\ Tail(q) \in Seq(JobKinds) /\ Head(q) = q[1]
      /\ Len(q) \in Nat /\ Len(q) > 0 /\ DOMAIN q = 1..Len(q)
      /\ DOMAIN Tail(q) = 1..(Len(q) - 1)
      /\ \A i \in 1..(Len(q) - 1) : Tail(q)[i] = q[i + 1]
  OBVIOUS
<1> DEFINE r == Tail(q)
<1> HIDE DEF r
<1>2. q[1] \in Range(q)
  BY <1>1 DEF Range
<1>3. Range(r) \subseteq Range(q)
  <2> SUFFICES ASSUME NEW i \in 1..(Len(q) - 1) PROVE r[i] \in Range(q)
    BY <1>1 DEF r, Range
  <2>1. i + 1 \in 1..Len(q) /\ r[i] = q[i + 1]
    BY <1>1 DEF r
  <2> QED
    BY <1>1, <2>1 DEF Range
<1>4. ASSUME NEW e, OnceIn(q, e) PROVE OnceIn(r, e)
  BY <1>1, <1>4 DEF r, OnceIn
<1>5. ASSUME OnceIn(q, q[1]) PROVE q[1] \notin Range(r)
  <2> SUFFICES ASSUME NEW i \in 1..(Len(q) - 1), r[i] = q[1] PROVE FALSE
    BY <1>1 DEF r, Range
  <2>1. i + 1 \in 1..Len(q) /\ q[i + 1] = q[1] /\ 1 \in 1..Len(q)
    BY <1>1 DEF r
  <2> QED
    BY <1>1, <1>5, <2>1 DEF OnceIn
<1> QED
  BY <1>1, <1>2, <1>3, <1>4, <1>5 DEF r

\* A step that changes neither the queue nor the roles changes no place.
LEMMA PlacesKept ==
  ASSUME EventInv, UNCHANGED <<queue, role>>,
         boot' = boot \/ (boot' \notin {"ethernet", "up"} /\ boot \notin {"ethernet", "up"})
  PROVE  EventInv'
BY DEF EventInv, PlaceInv, OnceIn, Gone, Held, Range

\* An event that is nowhere is submitted.
LEMMA PlaceSubmit ==
  ASSUME EventInv, NEW e \in Events, Gone(e), queue' = Append(queue, e),
         UNCHANGED role,
         boot' \notin {"ethernet", "up"} => boot \notin {"ethernet", "up"} /\ e = "ethernet",
         boot' # "up" => boot # "up" /\ e # "ethernet",
         e = "serial" => Gone("write"),
         e = "write" => /\ "serial" \notin Range(queue)
                        /\ \A w \in Workers : role[w] # "serial"
  PROVE  EventInv'
<1>1. /\ queue' \in Seq(JobKinds) /\ Range(queue') = Range(queue) \cup {e}
      /\ \A d \in Events : OnceIn(queue', d)
  BY AppendOnce DEF EventInv, PlaceInv, Gone, JobKinds
<1>2. \A d : Held(d)' <=> Held(d)
  BY DEF Held
<1>3. \A d \in Events : d \in Range(queue') => ~Held(d)
  BY <1>1 DEF EventInv, PlaceInv, Gone
<1>4. \A d \in Events : d # e /\ Gone(d) => Gone(d)'
  BY <1>1, <1>2 DEF Gone
<1> QED
  BY <1>1, <1>2, <1>3, <1>4 DEF EventInv, PlaceInv, Events

\* A call of task_allocte_resources is no event.
LEMMA PlaceAlloc ==
  ASSUME EventInv, queue' = Append(queue, "alloc"), UNCHANGED <<role, boot>>
  PROVE  EventInv'
<1>1. "alloc" \in JobKinds /\ "alloc" \notin Events
  BY DEF JobKinds, Events
<1>2. /\ queue' \in Seq(JobKinds) /\ Range(queue') = Range(queue) \cup {"alloc"}
      /\ \A d \in Events : OnceIn(queue', d)
  BY <1>1, AppendOnce DEF EventInv, PlaceInv
<1>3. \A d : Held(d)' <=> Held(d)
  BY DEF Held
<1>4. \A d \in Events : (d \in Range(queue') <=> d \in Range(queue)) /\ (Gone(d)' <=> Gone(d))
  BY <1>1, <1>2, <1>3 DEF Gone
<1> QED
  BY <1>2, <1>3, <1>4 DEF EventInv, PlaceInv, Events

\* A pool thread takes the routine at the head of the queue.
LEMMA PlaceTake ==
  ASSUME EventInv, NEW w \in Workers, NEW job \in JobKinds, Take(w, job),
         \/ job \in Events /\ role' = [role EXCEPT ![w] = job]
         \/ job \notin Events /\ role' = role,
         boot' = boot
  PROVE  EventInv'
<1>1. /\ queue' \in Seq(JobKinds) /\ Range(queue') \subseteq Range(queue)
      /\ \A d \in Events : OnceIn(queue', d)
      /\ job \in Range(queue)
      /\ job \in Events => job \notin Range(queue')
      /\ role[w] = "none"
  BY TailOnce DEF Take, Idle, EventInv, PlaceInv
<1>2. CASE job \notin Events
  <2>1. \A d : Held(d)' <=> Held(d)
    BY <1>2 DEF Held
  <2>2. \A d : Gone(d) => Gone(d)'
    BY <1>1, <2>1 DEF Gone
  <2> QED
    BY <1>1, <1>2, <2>1, <2>2 DEF EventInv, PlaceInv
<1>3. CASE job \in Events
  <2>1. /\ role'[w] = job
        /\ \A v \in Workers : v # w => role'[v] = role[v]
        /\ role' \in [Workers -> Roles]
    BY <1>3 DEF EventInv, Events, Roles
  <2>2. \A d \in Events : job \in Occupies(d) <=> job = d
    BY <1>3 DEF Occupies, Events
  <2>3. \A d \in Events : role[w] \notin Occupies(d)
    BY <1>1 DEF Occupies, Events
  <2>4. ~Held(job)
    BY <1>1, <1>3 DEF EventInv, PlaceInv
  <2>5. \A d \in Events : d # job => (Held(d)' <=> Held(d))
    BY <2>1, <2>2, <2>3 DEF Held
  <2>6. \A d \in Events : Gone(d) => Gone(d)'
    BY <1>1, <2>5 DEF Gone
  <2>7. \A d \in Events, u, v \in Workers :
          role'[u] \in Occupies(d) /\ role'[v] \in Occupies(d) => u = v
    BY <2>1, <2>2, <2>3, <2>4 DEF EventInv, PlaceInv, Held
  <2>8. \A d \in Events : d \in Range(queue') => ~Held(d)'
    BY <1>1, <1>3, <2>5 DEF EventInv, PlaceInv
  <2>9. "serial" \in Range(queue') \/ (\E v \in Workers : role'[v] = "serial")
          => "serial" \in Range(queue) \/ (\E v \in Workers : role[v] = "serial")
    BY <1>1, <2>1
  <2> QED
    BY <1>1, <2>1, <2>6, <2>7, <2>8, <2>9 DEF EventInv, PlaceInv, Events
<1> QED
  BY <1>2, <1>3

\* A pool thread leaves its event.
LEMMA PlaceLeave ==
  ASSUME EventInv, NEW w \in Workers, Leave(w)
  PROVE  EventInv'
<1>1. /\ role'[w] = "none" /\ \A v \in Workers : v # w => role'[v] = role[v]
      /\ role' \in [Workers -> Roles] /\ UNCHANGED <<boot, queue>>
  BY DEF Leave, EventInv, Roles
<1>2. \A d \in Events : "none" \notin Occupies(d)
  BY DEF Occupies, Events
<1>3. \A d \in Events, v \in Workers :
        role'[v] \in Occupies(d) => role[v] \in Occupies(d)
  BY <1>1, <1>2
<1>4. \A d \in Events : Held(d)' => Held(d)
  BY <1>3 DEF Held
<1>5. \A d \in Events : Gone(d) => Gone(d)'
  BY <1>1, <1>4 DEF Gone
<1>6. \A v \in Workers : role'[v] = "serial" => role[v] = "serial"
  BY <1>1
<1> QED
  BY <1>1, <1>3, <1>4, <1>5, <1>6 DEF EventInv, PlaceInv, Events

\* event_serial goes into its loop, with serial_write submitted or not.
LEMMA PlaceStart ==
  ASSUME EventInv, NEW w \in Workers, SerialStarts(w)
  PROVE  EventInv'
<1>1. /\ role[w] = "serial" /\ role'[w] = "reading"
      /\ \A v \in Workers : v # w => role'[v] = role[v]
      /\ role' \in [Workers -> Roles] /\ boot' = boot
      /\ queue' \in {queue, Append(queue, "write")}
  BY DEF SerialStarts, AddWork, EventInv, Roles
<1>2. \A d \in Events, v \in Workers :
        role'[v] \in Occupies(d) <=> role[v] \in Occupies(d)
  BY <1>1 DEF Occupies, Events
<1>3. \A d \in Events : Held(d)' <=> Held(d)
  BY <1>2 DEF Held
<1>4. Held("serial") /\ "serial" \in Events
  BY <1>1 DEF Held, Occupies, Events
<1>5. "serial" \notin Range(queue) /\ Gone("write") /\ boot \in {"ethernet", "up"}
  BY <1>1, <1>4 DEF EventInv, PlaceInv, Gone
<1>6. \A v \in Workers : role'[v] # "serial"
  BY <1>1, <1>4 DEF EventInv, PlaceInv, Occupies
<1>7. "write" \in JobKinds /\ "write" \in Events
  BY DEF JobKinds, Events
<1>8. /\ queue' \in Seq(JobKinds) /\ Range(queue') \subseteq Range(queue) \cup {"write"}
      /\ \A d \in Events : OnceIn(queue', d)
  <2>1. /\ queue \in Seq(JobKinds) /\ "write" \notin Range(queue)
        /\ \A d \in Events : OnceIn(queue, d)
    BY <1>5 DEF EventInv, PlaceInv, Gone
  <2>2. CASE queue' = queue
    BY <2>1, <2>2
  <2>3. CASE queue' = Append(queue, "write")
    BY <1>7, <2>1, <2>3, AppendOnce
  <2> QED
    BY <1>1, <2>2, <2>3
<1>9. \A d \in Events : d \in Range(queue') => ~Held(d)'
  BY <1>3, <1>5, <1>8 DEF EventInv, PlaceInv, Gone
<1>10. "serial" \notin Range(queue')
  BY <1>5, <1>8
<1>11. Gone("ethernet") => Gone("ethernet")'
  BY <1>3, <1>8 DEF Gone, Events
<1> QED
  BY <1>1, <1>2, <1>5, <1>6, <1>8, <1>9, <1>10, <1>11 DEF EventInv, PlaceInv

\* Each step of the server leaves every event in one place at most.
LEMMA EventStep ==
  ASSUME EventInv, [SysNext]_sysVars
  PROVE  EventInv'
<1>1. CASE UNCHANGED sysVars
  BY <1>1, PlacesKept DEF sysVars
<1>2. CASE SystemInit \/ NetInit \/ TaskInit \/ CreatePool
  BY <1>2, PlacesKept DEF SystemInit, NetInit, TaskInit, CreatePool
<1>3. CASE SubmitEvent("serial", "ethernet")
  <2>1. /\ boot = "serial" /\ boot' = "ethernet" /\ role' = role
        /\ queue' \in {queue, Append(queue, "serial")}
    BY <1>3 DEF SubmitEvent, AddWork
  <2>2. Gone("serial") /\ Gone("write")
    BY <2>1 DEF EventInv, PlaceInv
  <2>3. CASE queue' = queue
    BY <2>1, <2>3 DEF EventInv, PlaceInv, OnceIn, Gone, Held, Range
  <2>4. CASE queue' = Append(queue, "serial")
    BY <2>1, <2>2, <2>4, PlaceSubmit DEF Events
  <2> QED
    BY <2>1, <2>3, <2>4
<1>4. CASE SubmitEvent("ethernet", "up")
  <2>1. /\ boot = "ethernet" /\ boot' = "up" /\ role' = role
        /\ queue' \in {queue, Append(queue, "ethernet")}
    BY <1>4 DEF SubmitEvent, AddWork
  <2>2. Gone("ethernet")
    BY <2>1 DEF EventInv, PlaceInv
  <2>3. CASE queue' = queue
    BY <2>1, <2>3 DEF EventInv, PlaceInv, OnceIn, Gone, Held, Range
  <2>4. CASE queue' = Append(queue, "ethernet")
    BY <2>1, <2>2, <2>4, PlaceSubmit DEF Events
  <2> QED
    BY <2>1, <2>3, <2>4
<1>5. CASE SerialReads \/ SchedulerRuns
  BY <1>5, PlacesKept DEF SerialReads, SchedulerRuns
<1>6. CASE AllocatorRuns
  BY <1>6, PlacesKept, PlaceAlloc DEF AllocatorRuns
<1>7. ASSUME NEW w \in Workers, AllocateBegins(w) \/ AllocateContinues(w)
      PROVE  EventInv'
  <2>1. "alloc" \in JobKinds /\ "alloc" \notin Events
    BY DEF JobKinds, Events
  <2> QED
    BY <1>7, <2>1, PlacesKept, PlaceTake DEF AllocateBegins, AllocateContinues
<1>8. ASSUME NEW w \in Workers, Event(w) PROVE EventInv'
  <2>1. ASSUME NEW event \in Events, TakeEvent(w, event) PROVE EventInv'
    BY <2>1, PlaceTake DEF TakeEvent, JobKinds
  <2>2. CASE ReaderLeaves(w) \/ WriterLeaves(w) \/ EthernetReturns(w)
    BY <2>2, PlaceLeave DEF ReaderLeaves, WriterLeaves, EthernetReturns
  <2> QED
    BY <1>8, <2>1, <2>2, PlaceStart DEF Event
<1> QED
  BY <1>1, <1>2, <1>3, <1>4, <1>5, <1>6, <1>7, <1>8 DEF SysNext, Main

\* A set whose elements are equal has at most one.
LEMMA AtMostOneElement ==
  ASSUME NEW S, \A x, y \in S : x = y
  PROVE  Cardinality(S) \in {0, 1} /\ (Cardinality(S) = 1 => S # {})
<1>1. CASE S = {}
  BY <1>1, FS_EmptySet
<1>2. CASE S # {}
  <2>1. PICK x : S = {x}
    BY <1>2
  <2> QED
    BY <2>1, FS_Singleton
<1> QED
  BY <1>1, <1>2

\* EventInv is an invariant of the server.
LEMMA EventInvariant == SysSpec => []EventInv
<1>1. SysInit => EventInv
  <2>1. SysInit => queue = <<>> /\ boot = "init" /\ \A w \in Workers : role[w] = "none"
    BY DEF SysInit
  <2>2. SysInit => role \in [Workers -> Roles]
    BY DEF SysInit, Roles
  <2>3. \A e \in Events : "none" \notin Occupies(e)
    BY DEF Occupies, Events
  <2> QED
    BY <2>1, <2>2, <2>3
       DEF EventInv, PlaceInv, OnceIn, Gone, Held, Range, Events
<1>2. EventInv /\ [SysNext]_sysVars => EventInv'
  BY EventStep
<1> QED
  BY <1>1, <1>2, PTL DEF SysSpec

\* The port has one reader and one writer (src/sys_event_dispatch.c:9,
\* src/sys_serial_event.c:325), and nothing else is submitted twice.
THEOREM EventsInOnePlace == SysSpec => []EventsOnce
<1>1. EventInv => EventsOnce
  <2> SUFFICES ASSUME EventInv, NEW e \in Events
               PROVE  Cardinality({i \in DOMAIN queue : queue[i] = e})
                        + Cardinality({w \in Workers : role[w] \in Occupies(e)}) <= 1
    BY DEF EventsOnce
  <2> DEFINE S == {i \in DOMAIN queue : queue[i] = e}
             T == {w \in Workers : role[w] \in Occupies(e)}
  <2>1. (\A x, y \in S : x = y) /\ (\A x, y \in T : x = y) /\ (S = {} \/ T = {})
    BY DEF EventInv, PlaceInv, OnceIn, Held, Range
  <2>2. /\ Cardinality(S) \in {0, 1} /\ (Cardinality(S) = 1 => S # {})
        /\ Cardinality(T) \in {0, 1} /\ (Cardinality(T) = 1 => T # {})
    BY <2>1, AtMostOneElement
  <2> HIDE DEF S, T
  <2> QED
    BY <2>1, <2>2 DEF S, T
<1> QED
  BY <1>1, EventInvariant, PTL

-----------------------------------------------------------------------------
(* The threads of the pool are shared.  A thread is in an event or in      *)
(* task_allocte_resources, not in both, and each call that the task        *)
(* manager counts as submitted is in the queue.                            *)

Calls(q) == Cardinality(EntriesIn(q, {"alloc"}))

ShareInv ==
  /\ \A w \in Workers : role[w] # "none" => wpc[w] = "idle"
  /\ jobs = Calls(queue)

\* A step that leaves alone what ShareInv is about.
LEMMA ShareKept ==
  ASSUME ShareInv, UNCHANGED <<wpc, jobs, queue, role>>
  PROVE  ShareInv'
BY DEF ShareInv, Calls, EntriesIn

\* An event that is submitted, or taken, is not a call of the task manager.
LEMMA CallsOf ==
  ASSUME NEW q \in Seq(JobKinds)
  PROVE  /\ Calls(q) \in Nat
         /\ Calls(Append(q, "alloc")) = Calls(q) + 1
         /\ \A e \in Events : Calls(Append(q, e)) = Calls(q)
         /\ q # <<>> /\ Head(q) = "alloc" => Calls(Tail(q)) = Calls(q) - 1
         /\ q # <<>> /\ Head(q) \in Events => Calls(Tail(q)) = Calls(q)
<1>1. /\ "alloc" \in JobKinds /\ "alloc" \in {"alloc"} /\ Events \subseteq JobKinds
      /\ \A e \in Events : e \notin {"alloc"}
  BY DEF JobKinds, Events
<1>2. Calls(q) \in Nat
  BY EntriesFinite DEF Calls
<1>3. \A e \in JobKinds :
        Calls(Append(q, e)) = Calls(q) + (IF e \in {"alloc"} THEN 1 ELSE 0)
  BY EntriesAppend DEF Calls
<1>4. q # <<>> =>
        Calls(Tail(q)) = Calls(q) - (IF Head(q) \in {"alloc"} THEN 1 ELSE 0)
  BY EntriesTail DEF Calls
<1> HIDE DEF Calls
<1> QED
  BY <1>1, <1>2, <1>3, <1>4

\* Main submits events, and event_serial a third.
LEMMA ShareSubmit ==
  ASSUME ShareInv, EventInv, NEW e \in Events, queue' \in {queue, Append(queue, e)},
         UNCHANGED <<wpc, jobs>>,
         \A w \in Workers : role'[w] # "none" => role[w] # "none"
  PROVE  ShareInv'
BY CallsOf DEF ShareInv, EventInv

\* Each step of the server preserves ShareInv.
LEMMA ShareStep ==
  ASSUME ShareInv, EventInv, TypeOK, [SysNext]_sysVars
  PROVE  ShareInv'
<1>1. CASE UNCHANGED sysVars
  BY <1>1, ShareKept DEF sysVars, vars
<1>2. CASE SystemInit \/ NetInit \/ TaskInit \/ CreatePool
  BY <1>2, ShareKept DEF SystemInit, NetInit, TaskInit, CreatePool, vars
<1>3. CASE SubmitEvent("serial", "ethernet") \/ SubmitEvent("ethernet", "up")
  BY <1>3, ShareSubmit DEF SubmitEvent, AddWork, Events, vars
<1>4. CASE SerialReads
  BY <1>4, ShareKept
     DEF SerialReads, Producer, NodeAllocated, NodeFails, StopReading, PendAdd,
         Trigger, TriggerFails, Arrive, workerVars
<1>5. CASE AllocatorRuns
  <2>1. CASE AllocateWork /\ queue' = Append(queue, "alloc") /\ UNCHANGED <<boot, role>>
    BY <2>1, CallsOf DEF AllocateWork, workerVars, ShareInv, EventInv
  <2>2. CASE /\ TriggerRead \/ TriggerReadFails \/ AllocateTest \/ AllocateWorkFails
             /\ UNCHANGED <<boot, queue, role>>
    BY <2>2, ShareKept
       DEF TriggerRead, TriggerReadFails, AllocateTest, AllocateWorkFails, workerVars
  <2> QED
    BY <1>5, <2>1, <2>2 DEF AllocatorRuns
<1>6. CASE SchedulerRuns
  BY <1>6, ShareKept
     DEF SchedulerRuns, Scheduler, WaitFull, Pop, PostEmpty, Execute, workerVars
<1>7. ASSUME NEW w \in Workers, AllocateBegins(w) PROVE ShareInv'
  <2>1. /\ queue # <<>> /\ Head(queue) = "alloc" /\ queue' = Tail(queue)
        /\ role[w] = "none" /\ role' = role
    BY <1>7 DEF AllocateBegins, Take, Idle
  <2>2. jobs' = jobs - 1 /\ wpc' \in {wpc, [wpc EXCEPT ![w] = "wait"]}
    BY <1>7 DEF AllocateBegins, Parse, ParseFindsNothing, ParseFails, StartJob,
                workerVars
  <2> QED
    BY <2>1, <2>2, CallsOf DEF ShareInv, EventInv, TypeOK
<1>8. ASSUME NEW w \in Workers, AllocateContinues(w) PROVE ShareInv'
  <2>1. wpc[w] # "idle" /\ UNCHANGED <<jobs, queue, role>>
    BY <1>8 DEF AllocateContinues, WaitEmpty, Insert, PostFull
  <2>2. \A v \in Workers : v # w => wpc'[v] = wpc[v]
    BY <1>8 DEF AllocateContinues, WaitEmpty, Insert, PostFull, TypeOK
  <2> QED
    BY <2>1, <2>2 DEF ShareInv, Calls, EntriesIn
<1>9. ASSUME NEW w \in Workers, Event(w) PROVE ShareInv'
  <2>1. ASSUME NEW event \in Events, TakeEvent(w, event) PROVE ShareInv'
    <3>1. /\ queue # <<>> /\ Head(queue) \in Events /\ queue' = Tail(queue)
          /\ wpc[w] = "idle" /\ UNCHANGED <<wpc, jobs>>
          /\ \A v \in Workers : v # w => role'[v] = role[v]
      BY <2>1 DEF TakeEvent, Take, Idle, vars, EventInv
    <3> QED
      BY <3>1, CallsOf DEF ShareInv, EventInv
  <2>2. CASE SerialStarts(w)
    <3>1. /\ queue' \in {queue, Append(queue, "write")} /\ UNCHANGED <<wpc, jobs>>
          /\ \A v \in Workers : role'[v] # "none" => role[v] # "none"
      BY <2>2 DEF SerialStarts, AddWork, StopReading, vars, workerVars, EventInv
    <3> QED
      BY <3>1, ShareSubmit DEF Events
  <2>3. CASE ReaderLeaves(w) \/ WriterLeaves(w) \/ EthernetReturns(w)
    <3>1. /\ UNCHANGED <<queue, wpc, jobs>>
          /\ \A v \in Workers : role'[v] # "none" => role[v] # "none"
      BY <2>3 DEF ReaderLeaves, WriterLeaves, EthernetReturns, Leave, vars, EventInv
    <3> QED
      BY <3>1 DEF ShareInv, Calls, EntriesIn
  <2> QED
    BY <1>9, <2>1, <2>2, <2>3 DEF Event
<1> QED
  BY <1>1, <1>2, <1>3, <1>4, <1>5, <1>6, <1>7, <1>8, <1>9 DEF SysNext, Main

\* ShareInv is an invariant: a call that task_allocate has submitted is in the
\* queue of the pool until a thread without any other work takes it.
THEOREM PoolIsShared == SysSpec => []ShareInv
<1>1. SysInit => ShareInv
  <2>1. ASSUME SysInit PROVE jobs = 0 /\ queue = <<>> /\ \A w \in Workers : role[w] = "none"
    BY <2>1 DEF SysInit, Init
  <2>2. Calls(<<>>) = 0
    BY FS_EmptySet DEF Calls, EntriesIn
  <2> QED
    BY <2>1, <2>2 DEF ShareInv
<1>2. ShareInv /\ EventInv /\ TypeOK /\ [SysNext]_sysVars => ShareInv'
  BY ShareStep
<1> QED
  BY <1>1, <1>2, EventInvariant, ManagerInServer, PTL DEF SysSpec

-----------------------------------------------------------------------------
(* The pool has threads enough.                                            *)

\* The events that need never return keep two threads, whatever else happens.
TwoThreadsKept ==
  Cardinality({w \in Workers : role[w] \in {"serial", "reading", "write"}}) <= 2

\* While the pool is up and the process runs, one of its threads can take the
\* next job, go on with its own, or return from event_ethernet, or the
\* scheduler is about to let one go on.
PoolMoves ==
  NumWorkers >= 3 /\ PoolUp /\ Alive =>
    \/ \E w \in Workers :
         \/ Idle(w) \/ role[w] \in {"serial", "ethernet"}
         \/ wpc[w] \in {"insert", "post"} \/ (wpc[w] = "wait" /\ empty > 0)
    \/ full > 0 \/ spc # "wait"

\* Two threads of the pool at most are kept by the loops of the serial port
\* (src/sys_event_dispatch.c:18), for any size of the pool.
THEOREM PoolKeepsTwo == SysSpec => []TwoThreadsKept
<1>1. EventInv => TwoThreadsKept
  <2> SUFFICES ASSUME EventInv PROVE TwoThreadsKept
    OBVIOUS
  <2> DEFINE A == {w \in Workers : role[w] \in Occupies("serial")}
             B == {w \in Workers : role[w] \in Occupies("write")}
             C == {w \in Workers : role[w] \in {"serial", "reading", "write"}}
  <2>1. (\A x, y \in A : x = y) /\ (\A x, y \in B : x = y)
    BY DEF EventInv, PlaceInv, Events
  <2>2. C = A \cup B
    BY DEF Occupies
  <2>3. IsFiniteSet(A) /\ IsFiniteSet(B)
    <3>1. IsFiniteSet(Workers) /\ A \in SUBSET Workers /\ B \in SUBSET Workers
      BY SizesAssumption, FS_Interval DEF Workers
    <3> QED
      BY <3>1, FS_Subset
  <2>4. Cardinality(A) \in {0, 1} /\ Cardinality(B) \in {0, 1}
    BY <2>1, AtMostOneElement
  <2>5. Cardinality(A \cup B) = Cardinality(A) + Cardinality(B) - Cardinality(A \cap B)
    BY <2>3, FS_Union
  <2>6. Cardinality(A \cap B) \in Nat
    BY <2>3, FS_Intersection, FS_CardinalityType
  <2> HIDE DEF A, B, C
  <2>7. Cardinality(C) <= 2
    BY <2>2, <2>4, <2>5, <2>6
  <2> QED
    BY <2>7 DEF C, TwoThreadsKept
<1> QED
  BY <1>1, EventInvariant, PTL

\* A pool of three threads or more does not come to a halt: neither the loops of
\* the port nor the full schedule list can take all of its threads
\* (src/sys_event_dispatch.c:18, src/sys_task.c:237).
THEOREM PoolNeverHalts == SysSpec => []PoolMoves
<1>1. EventInv /\ ShareInv /\ TypeOK /\ NoMutualWait => PoolMoves
  <2> SUFFICES ASSUME EventInv, ShareInv, TypeOK, NoMutualWait,
                      NumWorkers >= 3, Alive
               PROVE  PoolMoves
    BY DEF PoolMoves
  <2>1. PICK w \in Workers : role[w] \notin {"serial", "reading", "write"}
    <3>1. \A u, v \in Workers :
            /\ role[u] \in {"serial", "reading"} /\ role[v] \in {"serial", "reading"} => u = v
            /\ role[u] = "write" /\ role[v] = "write" => u = v
      BY DEF EventInv, PlaceInv, Events, Occupies
    <3>2. 1 \in Workers /\ 2 \in Workers /\ 3 \in Workers
      BY SizesAssumption DEF Workers
    <3> QED
      BY <3>1, <3>2
  <2>2. CASE role[w] # "none"
    <3>1. role[w] = "ethernet"
      BY <2>1, <2>2 DEF EventInv, Roles
    <3> QED
      BY <3>1 DEF PoolMoves
  <2>3. CASE role[w] = "none"
    <3>1. wpc[w] \in {"idle", "wait", "insert", "post"}
      BY DEF TypeOK, WorkerStates
    <3>2. CASE wpc[w] = "wait"
      <4>1. \/ empty > 0 \/ full > 0 \/ spc # "wait"
            \/ \E v \in Workers : wpc[v] \in {"insert", "post"}
        <5>1. w \in WorkersIn({"wait"})
          BY <3>2 DEF WorkersIn
        <5>2. WorkersIn({"insert", "post"}) # {}
                => \E v \in Workers : wpc[v] \in {"insert", "post"}
          BY DEF WorkersIn
        <5> QED
          BY <5>1, <5>2 DEF NoMutualWait
      <4> QED
        BY <3>2, <4>1 DEF PoolMoves
    <3> QED
      BY <2>3, <3>1, <3>2 DEF PoolMoves, Idle
  <2> QED
    BY <2>2, <2>3
<1> QED
  BY <1>1, EventInvariant, PoolIsShared, ManagerInServer, PTL

=============================================================================
