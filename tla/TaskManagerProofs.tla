------------------------- MODULE TaskManagerProofs -------------------------
(***************************************************************************)
(* Safety of the task manager for any number of pool threads and commands, *)
(* any capacity of the schedule list and of the pipe, and any failures.    *)
(***************************************************************************)
EXTENDS TaskManager, Functions, FiniteSetTheorems, TLAPS

\* Whoever is between two steps with a command or a task node has one.
HandInv ==
  /\ ppc = "add" => arrived \in Commands
  /\ \A w \in Workers : wpc[w] \in {"wait", "insert"} => wtask[w] \in Task
  /\ spc \in {"post", "execute"} => stask \in Task

IndInv == TypeOK /\ HandInv /\ SemBalance

-----------------------------------------------------------------------------
\* The counts that SemBalance adds up are numbers.
LEMMA CountNat == ASSUME NEW S PROVE Cardinality(WorkersIn(S)) \in Nat
<1>1. IsFiniteSet(Workers)
  BY SizesAssumption, FS_Interval DEF Workers
<1>2. IsFiniteSet(WorkersIn(S))
  BY <1>1, FS_Subset DEF WorkersIn
<1> QED
  BY <1>2, FS_CardinalityType

\* A pool thread that goes from one state to another counts where it arrives
\* and no longer where it was.
LEMMA CountMove ==
  ASSUME wpc \in [Workers -> WorkerStates], NEW w \in Workers, NEW to, NEW S,
         wpc' = [wpc EXCEPT ![w] = to]
  PROVE  Cardinality(WorkersIn(S))'
           = Cardinality(WorkersIn(S)) + One(to \in S) - One(wpc[w] \in S)
<1> DEFINE before == WorkersIn(S)
           after == WorkersIn(S)'
<1>1. IsFiniteSet(before) /\ Cardinality(before) \in Nat
  <2>1. IsFiniteSet(Workers)
    BY SizesAssumption, FS_Interval DEF Workers
  <2> QED
    BY <2>1, CountNat, FS_Subset DEF WorkersIn
<1>2. CASE wpc[w] \in S /\ to \in S
  <2>1. after = before
    BY <1>2 DEF WorkersIn
  <2> QED
    BY <1>1, <1>2, <2>1 DEF One
<1>3. CASE wpc[w] \in S /\ to \notin S
  <2>1. after = before \ {w} /\ w \in before
    BY <1>3 DEF WorkersIn
  <2>2. Cardinality(after) = Cardinality(before) - 1
    BY <1>1, <2>1, FS_RemoveElement
  <2> QED
    BY <1>1, <1>3, <2>2 DEF One
<1>4. CASE wpc[w] \notin S /\ to \in S
  <2>1. after = before \cup {w} /\ w \notin before
    BY <1>4 DEF WorkersIn
  <2>2. Cardinality(after) = Cardinality(before) + 1
    BY <1>1, <2>1, FS_AddElement
  <2> QED
    BY <1>1, <1>4, <2>2 DEF One
<1>5. CASE wpc[w] \notin S /\ to \notin S
  <2>1. after = before
    BY <1>5 DEF WorkersIn
  <2> QED
    BY <1>1, <1>5, <2>1 DEF One
<1> QED
  BY <1>2, <1>3, <1>4, <1>5

\* What the moves of task_schedule_add do to the counts in SemBalance.
LEMMA CountMoves ==
  ASSUME wpc \in [Workers -> WorkerStates], NEW w \in Workers, NEW to,
         wpc' = [wpc EXCEPT ![w] = to]
  PROVE  /\ Cardinality(WorkersIn({"insert"}))'
              = Cardinality(WorkersIn({"insert"})) + One(to = "insert")
                  - One(wpc[w] = "insert")
         /\ Cardinality(WorkersIn({"post"}))'
              = Cardinality(WorkersIn({"post"})) + One(to = "post")
                  - One(wpc[w] = "post")
<1>1. \A x, y : x \in {y} <=> x = y
  OBVIOUS
<1>2. Cardinality(WorkersIn({"insert"}))'
        = Cardinality(WorkersIn({"insert"})) + One(to \in {"insert"})
            - One(wpc[w] \in {"insert"})
  BY CountMove
<1>3. Cardinality(WorkersIn({"post"}))'
        = Cardinality(WorkersIn({"post"})) + One(to \in {"post"})
            - One(wpc[w] \in {"post"})
  BY CountMove
<1> QED
  BY <1>1, <1>2, <1>3 DEF One

\* A pool thread that is in a state counts there.
LEMMA CountPositive ==
  ASSUME NEW S, NEW w \in Workers, wpc[w] \in S
  PROVE  Cardinality(WorkersIn(S)) >= 1
<1>1. IsFiniteSet(WorkersIn(S)) /\ w \in WorkersIn(S)
  <2>1. IsFiniteSet(Workers)
    BY SizesAssumption, FS_Interval DEF Workers
  <2> QED
    BY <2>1, FS_Subset DEF WorkersIn
<1>2. Cardinality(WorkersIn(S)) # 0
  BY <1>1, FS_EmptySet
<1> QED
  BY <1>2, CountNat

-----------------------------------------------------------------------------
\* The inductive invariant holds of the initial states.
LEMMA IndInit == Init => IndInv
<1> SUFFICES ASSUME Init PROVE IndInv
  OBVIOUS
<1> USE DEF Init
<1>1. TypeOK
  BY SizesAssumption
     DEF TypeOK, ProducerStates, AllocatorStates, WorkerStates, SchedulerStates
<1>2. HandInv
  BY DEF HandInv
<1>3. SemBalance
  <2>1. WorkersIn({"insert"}) = {} /\ WorkersIn({"post"}) = {}
    BY DEF WorkersIn
  <2> QED
    <3>1. Cardinality({}) = 0
      BY FS_EmptySet
    <3>2. Len(tasklist) = 0 /\ empty = TASK_MAXNUM /\ full = 0 /\ spc = "wait"
      OBVIOUS
    <3>3. Cardinality(WorkersIn({"insert"})) = 0
          /\ Cardinality(WorkersIn({"post"})) = 0
      BY <2>1, <3>1
    <3>4. One(spc = "post") = 0 /\ One(spc = "pop") = 0
      BY <3>2 DEF One
    <3> HIDE DEF Init
    <3> QED
      BY <3>2, <3>3, <3>4, SizesAssumption DEF SemBalance
<1> QED
  BY <1>1, <1>2, <1>3 DEF IndInv

\* The serial reader and the allocator touch neither semaphores nor list.
LEMMA IndProducer == ASSUME IndInv, Producer \/ Allocator PROVE IndInv'
<1> USE SizesAssumption
    DEF IndInv, TypeOK, HandInv, ProducerStates, AllocatorStates, Commands,
        producerVars, allocatorVars, workerVars, listVars, schedulerVars,
        Fault, Smaller, Arrive
<1>1. UNCHANGED <<wpc, wtask, empty, full, tasklist, spc, stask, executed>>
  BY DEF Producer, NodeAllocated, NodeFails, StopReading, PendAdd, Trigger,
         TriggerFails, Allocator, TriggerRead, TriggerReadFails, AllocateTest,
         AllocateWork, AllocateWorkFails
<1>2. SemBalance'
  BY <1>1 DEF SemBalance, WorkersIn
<1>3. CASE NodeAllocated
  BY <1>1, <1>2, <1>3 DEF NodeAllocated
<1>4. CASE NodeFails
  BY <1>1, <1>2, <1>4 DEF NodeFails
<1>5. CASE StopReading
  BY <1>1, <1>2, <1>5 DEF StopReading
<1>6. CASE PendAdd
  BY <1>1, <1>2, <1>6 DEF PendAdd
<1>7. CASE Trigger \/ TriggerFails
  <2>1. CASE Trigger
    BY <1>1, <1>2, <2>1 DEF Trigger
  <2>2. CASE TriggerFails
    BY <1>1, <1>2, <2>2 DEF TriggerFails
  <2> QED
    BY <1>7, <2>1, <2>2
<1>8. CASE TriggerRead \/ TriggerReadFails
  <2>1. CASE TriggerRead
    BY <1>1, <1>2, <2>1 DEF TriggerRead
  <2>2. CASE TriggerReadFails
    BY <1>1, <1>2, <2>2 DEF TriggerReadFails
  <2> QED
    BY <1>8, <2>1, <2>2
<1>9. CASE AllocateTest
  BY <1>1, <1>2, <1>9 DEF AllocateTest
<1>10. CASE AllocateWork \/ AllocateWorkFails
  <2>1. CASE AllocateWork
    BY <1>1, <1>2, <2>1 DEF AllocateWork
  <2>2. CASE AllocateWorkFails
    BY <1>1, <1>2, <2>2 DEF AllocateWorkFails
  <2> QED
    BY <1>10, <2>1, <2>2
<1> QED
  BY <1>3, <1>4, <1>5, <1>6, <1>7, <1>8, <1>9, <1>10 DEF Producer, Allocator

\* A pool thread fills a slot of the schedule list before it announces it.
LEMMA IndWorker == ASSUME IndInv, NEW w \in Workers, Worker(w) PROVE IndInv'
<1> USE SizesAssumption
    DEF IndInv, TypeOK, HandInv, WorkerStates, producerVars, allocatorVars,
        workerVars, listVars, schedulerVars, Fault, StartJob, ListEmpty
<1> DEFINE inserting == Cardinality(WorkersIn({"insert"}))
           posting == Cardinality(WorkersIn({"post"}))
<1>0. inserting \in Nat /\ posting \in Nat
  BY CountNat
<1>1. CASE Parse(w)
  <2>1. PICK d \in Leftover :
          wtask' = [wtask EXCEPT ![w] = [taskcom |-> Head(pend),
                                         dev_latest |-> d]]
    BY <1>1 DEF Parse
  <2>2. Head(pend) \in Commands /\ Tail(pend) \in Seq(Commands)
    BY <1>1 DEF Parse
  <2>3. [taskcom |-> Head(pend), dev_latest |-> d] \in Task
    BY <2>2 DEF Task
  <2>4. inserting' = inserting /\ posting' = posting
    <3>1. wpc \in [Workers -> WorkerStates] /\ wpc[w] = "idle"
          /\ wpc' = [wpc EXCEPT ![w] = "wait"]
      BY <1>1 DEF Parse
    <3>2. /\ inserting' = inserting + One("wait" = "insert")
                              - One(wpc[w] = "insert")
          /\ posting' = posting + One("wait" = "post") - One(wpc[w] = "post")
      BY <3>1, CountMoves
    <3> QED
      BY <1>0, <3>1, <3>2 DEF One
  <2>5. SemBalance'
    BY <1>1, <2>4 DEF Parse, SemBalance
  <2>6. TypeOK' /\ HandInv'
    BY <1>1, <2>1, <2>2, <2>3 DEF Parse
  <2> QED
    BY <2>5, <2>6
<1>2. CASE ParseFindsNothing(w) \/ ParseFails(w)
  <2>1. SemBalance'
    BY <1>2 DEF ParseFindsNothing, ParseFails, SemBalance, WorkersIn
  <2> QED
    BY <1>2, <2>1 DEF ParseFindsNothing, ParseFails
<1>3. CASE WaitEmpty(w)
  <2>1. inserting' = inserting + 1 /\ posting' = posting
    <3>1. wpc \in [Workers -> WorkerStates] /\ wpc[w] = "wait"
          /\ wpc' = [wpc EXCEPT ![w] = "insert"]
      BY <1>3 DEF WaitEmpty
    <3>2. /\ inserting' = inserting + One("insert" = "insert")
                              - One(wpc[w] = "insert")
          /\ posting' = posting + One("insert" = "post") - One(wpc[w] = "post")
      BY <3>1, CountMoves
    <3> QED
      BY <1>0, <3>1, <3>2 DEF One
  <2>2. SemBalance'
    BY <1>0, <1>3, <2>1 DEF WaitEmpty, SemBalance, One
  <2> QED
    BY <1>3, <2>2 DEF WaitEmpty
<1>4. CASE Insert(w)
  <2>1. inserting' = inserting - 1 /\ posting' = posting + 1
    <3>1. wpc \in [Workers -> WorkerStates] /\ wpc[w] = "insert"
          /\ wpc' = [wpc EXCEPT ![w] = "post"]
      BY <1>4 DEF Insert
    <3>2. /\ inserting' = inserting + One("post" = "insert")
                              - One(wpc[w] = "insert")
          /\ posting' = posting + One("post" = "post") - One(wpc[w] = "post")
      BY <3>1, CountMoves
    <3> QED
      BY <1>0, <3>1, <3>2 DEF One
  <2>2. wtask[w] \in Task /\ Len(tasklist') = Len(tasklist) + 1
    BY <1>4 DEF Insert
  <2>3. SemBalance'
    <3>1. empty' = empty /\ full' = full /\ spc' = spc
          /\ empty \in Nat /\ full \in Nat
          /\ Len(tasklist) \in Nat
      BY <1>4 DEF Insert
    <3>2. One(spc = "post") \in Nat /\ One(spc = "pop") \in Nat
      BY DEF One
    <3>3. empty + inserting + Len(tasklist) + One(spc = "post") = TASK_MAXNUM
          /\ Len(tasklist) = full + posting + One(spc = "pop")
      BY DEF SemBalance
    <3> HIDE DEF IndInv, TypeOK, HandInv
    <3>4. empty + (inserting - 1) + (Len(tasklist) + 1) + One(spc = "post")
            = TASK_MAXNUM
          /\ Len(tasklist) + 1 = full + (posting + 1) + One(spc = "pop")
      BY <1>0, <3>1, <3>2, <3>3
    <3> QED
      BY <2>1, <2>2, <3>1, <3>4 DEF SemBalance
  <2> QED
    BY <1>4, <2>2, <2>3 DEF Insert
<1>5. CASE PostFull(w)
  <2>1. inserting' = inserting /\ posting' = posting - 1
    <3>1. wpc \in [Workers -> WorkerStates] /\ wpc[w] = "post"
          /\ wpc' = [wpc EXCEPT ![w] = "idle"]
      BY <1>5 DEF PostFull
    <3>2. /\ inserting' = inserting + One("idle" = "insert")
                              - One(wpc[w] = "insert")
          /\ posting' = posting + One("idle" = "post") - One(wpc[w] = "post")
      BY <3>1, CountMoves
    <3> QED
      BY <1>0, <3>1, <3>2 DEF One
  <2>2. SemBalance'
    <3>1. full' = full + 1 /\ UNCHANGED <<empty, tasklist, spc>>
          /\ full \in Nat /\ One(spc = "pop") \in Nat
      BY <1>5 DEF PostFull, One
    <3>2. full + posting + One(spc = "pop")
            = (full + 1) + (posting - 1) + One(spc = "pop")
      BY <1>0, <3>1
    <3> QED
      BY <2>1, <3>1, <3>2 DEF SemBalance
  <2>3. full' \in 0..TASK_MAXNUM
    <3>1. posting >= 1
      BY <1>5, CountPositive DEF PostFull
    <3> QED
      BY <1>0, <1>5, <3>1 DEF PostFull, SemBalance, One
  <2> QED
    BY <1>5, <2>2, <2>3 DEF PostFull
<1> QED
  BY <1>1, <1>2, <1>3, <1>4, <1>5 DEF Worker

\* The scheduler fetches a task that was announced and gives its slot back.
LEMMA IndScheduler == ASSUME IndInv, Scheduler PROVE IndInv'
<1> USE SizesAssumption
    DEF IndInv, TypeOK, HandInv, SchedulerStates, producerVars, allocatorVars,
        workerVars, listVars, schedulerVars, ListEmpty
<1> DEFINE inserting == Cardinality(WorkersIn({"insert"}))
           posting == Cardinality(WorkersIn({"post"}))
<1>1. inserting \in Nat /\ posting \in Nat
  BY CountNat
<1>2. inserting' = inserting /\ posting' = posting
  BY DEF Scheduler, WaitFull, Pop, PostEmpty, Execute, WorkersIn
<1>3. CASE WaitFull
  <2>1. full' = full - 1 /\ full' \in Nat /\ UNCHANGED <<empty, tasklist>>
        /\ spc = "wait" /\ spc' = "pop"
    BY <1>3 DEF WaitFull
  <2>2. One(spc = "post") = 0 /\ One(spc' = "post") = 0
        /\ One(spc = "pop") = 0 /\ One(spc' = "pop") = 1
    BY <2>1 DEF One
  <2>3. full + posting + 0 = (full - 1) + posting + 1
    BY <1>1
  <2>4. SemBalance'
    BY <1>2, <2>1, <2>2, <2>3 DEF SemBalance
  <2> QED
    BY <1>3, <2>1, <2>4 DEF WaitFull
<1>4. CASE Pop
  <2>1. tasklist # <<>>
    BY <1>1, <1>4 DEF Pop, SemBalance, One
  <2>2. /\ stask' = Head(tasklist) /\ tasklist' = Tail(tasklist)
        /\ spc = "pop" /\ spc' = "post"
    BY <1>4, <2>1 DEF Pop
  <2>3. /\ Head(tasklist) \in Task /\ Tail(tasklist) \in Seq(Task)
        /\ Len(tasklist') = Len(tasklist) - 1
    BY <2>1, <2>2
  <2>4. SemBalance'
    BY <1>1, <1>2, <1>4, <2>2, <2>3 DEF Pop, SemBalance, One
  <2> QED
    BY <1>4, <2>2, <2>3, <2>4 DEF Pop
<1>5. CASE PostEmpty
  BY <1>1, <1>2, <1>5 DEF PostEmpty, SemBalance, One
<1>6. CASE Execute
  <2>1. stask \in Task /\ stask.taskcom \in Commands
    BY <1>6 DEF Execute, Task
  <2> QED
    BY <1>1, <1>2, <1>6, <2>1 DEF Execute, SemBalance, One
<1> QED
  BY <1>3, <1>4, <1>5, <1>6 DEF Scheduler

\* The state of the task manager is always one that the invariant describes.
THEOREM ManagerInvariant == Spec => []IndInv
<1>1. IndInv /\ [Next]_vars => IndInv'
  <2> SUFFICES ASSUME IndInv, [Next]_vars PROVE IndInv'
    OBVIOUS
  <2>1. CASE UNCHANGED vars
    BY <2>1 DEF vars, IndInv, TypeOK, HandInv, SemBalance, WorkersIn
  <2> QED
    BY <2>1, IndProducer, IndWorker, IndScheduler DEF Next
<1> QED
  BY <1>1, IndInit, PTL DEF Spec

-----------------------------------------------------------------------------
\* Every variable keeps its type, the semaphores their bound.
THEOREM TypeCorrect == Spec => []TypeOK
BY ManagerInvariant, PTL DEF IndInv

\* The semaphores count the slots and the tasks of the schedule list.
THEOREM SemaphoresBalance == Spec => []SemBalance
BY ManagerInvariant, PTL DEF IndInv

\* The scheduler, once it has passed tasksem_full, finds a task.
THEOREM NoEmptyPop == Spec => []SchedulerFindsTask
<1>1. IndInv => SchedulerFindsTask
  BY CountNat DEF IndInv, TypeOK, SemBalance, SchedulerFindsTask, One
<1> QED
  BY <1>1, ManagerInvariant, PTL

\* The scheduler and the pool threads do not wait for one another: when a
\* thread waits for a slot of the schedule list, or a task is in the list,
\* somebody is at a step whose guard holds.
NoMutualWait ==
  Alive =>
    /\ WorkersIn({"wait"}) # {} =>
         empty > 0 \/ full > 0 \/ WorkersIn({"insert", "post"}) # {} \/ spc # "wait"
    /\ tasklist # <<>> => full > 0 \/ WorkersIn({"post"}) # {} \/ spc # "wait"

\* The two semaphores of sys_task.c (sem_wait at 190 and 237) cannot bring the
\* hand-over to a halt: this is what SemBalance is for.
THEOREM HandOverGoesOn == Spec => []NoMutualWait
<1>1. IndInv => NoMutualWait
  <2> SUFFICES ASSUME IndInv PROVE NoMutualWait
    OBVIOUS
  <2>1. /\ empty \in Nat /\ full \in Nat /\ tasklist \in Seq(Task)
        /\ Len(tasklist) \in Nat /\ TASK_MAXNUM \in Nat \ {0}
    BY SizesAssumption DEF IndInv, TypeOK
  <2>2. ASSUME full = 0, WorkersIn({"post"}) = {}, spc = "wait"
        PROVE  Len(tasklist) = 0
    <3>1. Cardinality(WorkersIn({"post"})) = 0
      BY <2>2, FS_EmptySet
    <3>2. One(spc = "pop") = 0
      BY <2>2 DEF One
    <3> QED
      BY <2>1, <2>2, <3>1, <3>2 DEF IndInv, SemBalance
  <2>3. ASSUME empty = 0, full = 0, WorkersIn({"insert", "post"}) = {}, spc = "wait"
        PROVE  FALSE
    <3>1. WorkersIn({"insert"}) = {} /\ WorkersIn({"post"}) = {}
      BY <2>3 DEF WorkersIn
    <3>2. Cardinality(WorkersIn({"insert"})) = 0 /\ Len(tasklist) = 0
      BY <2>2, <2>3, <3>1, FS_EmptySet
    <3>3. One(spc = "post") = 0
      BY <2>3 DEF One
    <3> QED
      BY <2>1, <2>3, <3>2, <3>3 DEF IndInv, SemBalance
  <2>4. ASSUME full = 0, WorkersIn({"post"}) = {}, spc = "wait"
        PROVE  tasklist = <<>>
    BY <2>1, <2>2, <2>4
  <2> QED
    BY <2>1, <2>3, <2>4 DEF NoMutualWait
<1> QED
  BY <1>1, ManagerInvariant, PTL

\* No notice is on the way without a command waiting for it, unless a read of
\* the pipe fails: the tests for an empty pending list do not find it so.
THEOREM NoticesCovered == Spec => []TriggersCovered
<1>1. Init => TriggersCovered
  BY DEF Init, TriggersCovered, One
<1>2. IndInv /\ TriggersCovered /\ [Next]_vars => TriggersCovered'
  <2> SUFFICES ASSUME IndInv, TriggersCovered, [Next]_vars
               PROVE  fifo' + One(apc' # "read") + jobs' + One(ppc' = "trigger")
                        <= Len(pend') + misread'
    BY DEF TriggersCovered
  <2> USE SizesAssumption
      DEF TriggersCovered, One, producerVars, allocatorVars, workerVars,
          listVars, schedulerVars
  <2>0. /\ pend \in Seq(Commands) /\ fifo \in Nat /\ jobs \in Nat
        /\ Len(pend) \in Nat /\ misread \in Nat
    BY DEF IndInv, TypeOK
  <2>1. CASE UNCHANGED vars
    BY <2>1 DEF vars
  <2>2. CASE Producer
    <3>1. CASE PendAdd
      <4>1. Len(pend') = Len(pend) + 1
        BY <2>0, <3>1 DEF PendAdd, IndInv, HandInv
      <4> QED
        BY <2>0, <3>1, <4>1 DEF PendAdd
    <3>2. CASE Trigger \/ TriggerFails
      BY <2>0, <3>2 DEF Trigger, TriggerFails, Fault
    <3>3. CASE NodeAllocated \/ NodeFails \/ StopReading
      BY <2>0, <3>3 DEF NodeAllocated, NodeFails, StopReading, Arrive, Fault
    <3> QED
      BY <2>2, <3>1, <3>2, <3>3 DEF Producer
  <2>3. CASE Allocator
    <3>1. CASE TriggerRead
      <4>1. fifo' \in Nat /\ fifo' <= fifo - 1
        BY <2>0, <3>1 DEF TriggerRead, Smaller
      <4>2. UNCHANGED <<pend, jobs, misread, ppc>> /\ apc = "read"
        BY <3>1 DEF TriggerRead
      <4> QED
        BY <2>0, <4>1, <4>2
    <3>2. CASE TriggerReadFails
      BY <2>0, <3>2 DEF TriggerReadFails, Fault
    <3>3. CASE AllocateTest
      BY <2>0, <3>3 DEF AllocateTest
    <3>4. CASE AllocateWork
      BY <2>0, <3>4 DEF AllocateWork
    <3>5. CASE AllocateWorkFails
      BY <2>0, <3>5 DEF AllocateWorkFails, Fault
    <3> QED
      BY <2>3, <3>1, <3>2, <3>3, <3>4, <3>5 DEF Allocator
  <2>4. ASSUME NEW w \in Workers, Worker(w)
        PROVE  fifo' + One(apc' # "read") + jobs' + One(ppc' = "trigger")
                 <= Len(pend') + misread'
    <3>1. CASE Parse(w)
      <4>1. Len(pend') = Len(pend) - 1 /\ jobs' = jobs - 1
        BY <2>0, <3>1 DEF Parse, StartJob, ListEmpty
      <4>2. UNCHANGED <<fifo, apc, ppc, misread>>
        BY <3>1 DEF Parse
      <4> QED
        BY <2>0, <4>1, <4>2
    <3>2. CASE ParseFindsNothing(w) \/ ParseFails(w)
      BY <2>0, <3>2 DEF ParseFindsNothing, ParseFails, StartJob, Fault
    <3>3. CASE WaitEmpty(w) \/ Insert(w) \/ PostFull(w)
      BY <3>3 DEF WaitEmpty, Insert, PostFull
    <3> QED
      BY <2>4, <3>1, <3>2, <3>3 DEF Worker
  <2>5. CASE Scheduler
    BY <2>5 DEF Scheduler, WaitFull, Pop, PostEmpty, Execute
  <2> QED
    BY <2>1, <2>2, <2>3, <2>4, <2>5 DEF Next
<1> QED
  BY <1>1, <1>2, ManagerInvariant, PTL DEF Spec

-----------------------------------------------------------------------------
(* Where the commands are: in the order of arrival as long as they are in  *)
(* the pending list, and in one place each.                                *)

-----------------------------------------------------------------------------
(* Counting: how many entries of a sequence, or values of a function, are  *)
(* in a set C, when the sequence grows at its end or loses its head and    *)
(* when one value of the function changes.                                 *)

EntriesIn(s, C) == {i \in DOMAIN s : s[i] \in C}

\* The entries can be counted.
LEMMA EntriesFinite ==
  ASSUME NEW S, NEW s \in Seq(S), NEW C
  PROVE  /\ IsFiniteSet(EntriesIn(s, C))
         /\ Cardinality(EntriesIn(s, C)) \in Nat
<1>1. DOMAIN s = 1..Len(s) /\ Len(s) \in Nat
  OBVIOUS
<1>2. IsFiniteSet(DOMAIN s)
  BY <1>1, FS_Interval
<1>3. EntriesIn(s, C) \in SUBSET DOMAIN s
  BY DEF EntriesIn
<1> QED
  BY <1>2, <1>3, FS_Subset, FS_CardinalityType

\* Append adds its entry.
LEMMA EntriesAppend ==
  ASSUME NEW S, NEW s \in Seq(S), NEW e \in S, NEW C
  PROVE  Cardinality(EntriesIn(Append(s, e), C))
           = Cardinality(EntriesIn(s, C)) + (IF e \in C THEN 1 ELSE 0)
<1> DEFINE t == Append(s, e)
           last == Len(s) + 1
<1>1. /\ Len(s) \in Nat /\ DOMAIN s = 1..Len(s) /\ DOMAIN t = 1..last
      /\ t[last] = e /\ last \notin DOMAIN s
  OBVIOUS
<1>2. \A i \in DOMAIN s : t[i] = s[i]
  <2> SUFFICES ASSUME NEW i \in DOMAIN s PROVE t[i] = s[i]
    OBVIOUS
  <2> QED
    BY <1>1
<1>3. DOMAIN t = DOMAIN s \cup {last}
  BY <1>1
<1> HIDE DEF t, last
<1>4. CASE e \in C
  <2>1. EntriesIn(t, C) = EntriesIn(s, C) \cup {last}
    BY <1>1, <1>2, <1>3, <1>4 DEF EntriesIn
  <2>2. last \notin EntriesIn(s, C)
    BY <1>1 DEF EntriesIn
  <2> QED
    BY <1>4, <2>1, <2>2, EntriesFinite, FS_AddElement DEF t
<1>5. CASE e \notin C
  <2>1. EntriesIn(t, C) = EntriesIn(s, C)
    BY <1>1, <1>2, <1>3, <1>5 DEF EntriesIn
  <2> QED
    BY <1>5, <2>1, EntriesFinite DEF t
<1> QED
  BY <1>4, <1>5

\* Tail takes the head away.
LEMMA EntriesTail ==
  ASSUME NEW S, NEW s \in Seq(S), s # <<>>, NEW C
  PROVE  Cardinality(EntriesIn(Tail(s), C))
           = Cardinality(EntriesIn(s, C)) - (IF Head(s) \in C THEN 1 ELSE 0)
<1> DEFINE t == Tail(s)
           A == EntriesIn(t, C)
           B == EntriesIn(s, C) \ {1}
           f == [i \in A |-> i + 1]
<1>1. /\ Len(s) \in Nat \ {0} /\ DOMAIN s = 1..Len(s)
      /\ t \in Seq(S) /\ DOMAIN t = 1..(Len(s) - 1) /\ Head(s) = s[1]
  OBVIOUS
<1>2. \A i \in DOMAIN t : t[i] = s[i + 1]
  <2> SUFFICES ASSUME NEW i \in DOMAIN t PROVE t[i] = s[i + 1]
    OBVIOUS
  <2> QED
    BY <1>1
<1> HIDE DEF t
<1>3. ExistsBijection(A, B)
  <2>1. A \subseteq Nat /\ \A i \in A : i + 1 \in B
    BY <1>1, <1>2 DEF EntriesIn
  <2>2. \A k \in B : k - 1 \in A
    BY <1>1, <1>2 DEF EntriesIn
  <2>3. f \in [A -> B]
    BY <2>1
  <2>4. \A i, j \in A : f[i] = f[j] => i = j
    BY <2>1
  <2>5. \A k \in B : \E i \in A : f[i] = k
    <3> SUFFICES ASSUME NEW k \in B PROVE f[k - 1] = k
      BY <2>2
    <3>1. k \in Nat
      BY <1>1 DEF EntriesIn
    <3> QED
      BY <2>2, <3>1
  <2>6. f \in Bijection(A, B)
    <3> HIDE DEF f, A, B
    <3> QED
      BY <2>3, <2>4, <2>5 DEF Bijection, Injection, Surjection, IsInjective
  <2> QED
    BY <2>6 DEF ExistsBijection
<1>4. IsFiniteSet(A) /\ IsFiniteSet(EntriesIn(s, C))
      /\ Cardinality(EntriesIn(s, C)) \in Nat
  BY <1>1, EntriesFinite
<1>5. Cardinality(B) = Cardinality(A)
  <2> HIDE DEF A, B
  <2> QED
    BY <1>3, <1>4, FS_Bijection
<1>6. 1 \in EntriesIn(s, C) <=> Head(s) \in C
  BY <1>1 DEF EntriesIn
<1>7. IF Head(s) \in C THEN Cardinality(A) = Cardinality(EntriesIn(s, C)) - 1
                        ELSE Cardinality(A) = Cardinality(EntriesIn(s, C))
  <2>1. CASE Head(s) \in C
    <3>1. Cardinality(B) = Cardinality(EntriesIn(s, C)) - 1
      BY <1>4, <1>6, <2>1, FS_RemoveElement
    <3> QED
      BY <1>5, <2>1, <3>1
  <2>2. CASE Head(s) \notin C
    <3>1. B = EntriesIn(s, C)
      BY <1>6, <2>2
    <3>2. Cardinality(A) = Cardinality(EntriesIn(s, C))
      BY <1>5, <3>1
    <3> QED
      BY <2>2, <3>2
  <2> QED
    BY <2>1, <2>2
<1> QED
  BY <1>4, <1>7 DEF t

\* A value of a function is replaced.
LEMMA ValueReplaced ==
  ASSUME NEW f, IsFiniteSet(DOMAIN f), NEW g, DOMAIN g = DOMAIN f,
         NEW w \in DOMAIN f, \A v \in DOMAIN f \ {w} : g[v] = f[v], NEW C
  PROVE  /\ Cardinality(EntriesIn(f, C)) \in Nat
         /\ Cardinality(EntriesIn(g, C))
              = Cardinality(EntriesIn(f, C)) + (IF g[w] \in C THEN 1 ELSE 0)
                  - (IF f[w] \in C THEN 1 ELSE 0)
<1> DEFINE before == EntriesIn(f, C)
           after == EntriesIn(g, C)
<1>1. IsFiniteSet(before) /\ Cardinality(before) \in Nat
  <2>1. before \in SUBSET DOMAIN f
    BY DEF EntriesIn
  <2> QED
    BY <2>1, FS_Subset, FS_CardinalityType
<1>2. DOMAIN g = DOMAIN f /\ \A v \in DOMAIN f \ {w} : g[v] = f[v]
  OBVIOUS
<1>3. CASE g[w] \in C /\ f[w] \in C
  <2>1. after = before
    BY <1>2, <1>3 DEF EntriesIn
  <2> QED
    BY <1>1, <1>3, <2>1
<1>4. CASE g[w] \in C /\ f[w] \notin C
  <2>1. after = before \cup {w} /\ w \notin before
    BY <1>2, <1>4 DEF EntriesIn
  <2>2. Cardinality(after) = Cardinality(before) + 1
    BY <1>1, <2>1, FS_AddElement
  <2> QED
    BY <1>1, <1>4, <2>2
<1>5. CASE g[w] \notin C /\ f[w] \in C
  <2>1. after = before \ {w} /\ w \in before
    BY <1>2, <1>5 DEF EntriesIn
  <2>2. Cardinality(after) = Cardinality(before) - 1
    <3> HIDE DEF before, after
    <3> QED
      BY <1>1, <2>1, FS_RemoveElement
  <2> QED
    BY <1>1, <1>5, <2>2
<1>6. CASE g[w] \notin C /\ f[w] \notin C
  <2>1. after = before
    BY <1>2, <1>6 DEF EntriesIn
  <2> QED
    BY <1>1, <1>6, <2>1
<1> QED
  BY <1>3, <1>4, <1>5, <1>6

-----------------------------------------------------------------------------
(* The order of the pending list                                           *)

\* The last command that is not in the hand of event_serial.
Stored == IF ppc = "add" THEN arrived - 1 ELSE arrived

\* The pending list is in the order of arrival, what is out of it arrived
\* before what is in it, and both before what event_serial is about to add.
OrderInv ==
  /\ TakenInOrder
  /\ \A i \in DOMAIN pend : pend[i] <= Stored
  /\ \A c \in InHand : c \in Nat /\ c <= Stored

\* A step that takes no command out of the pending list adds none to what is
\* in hand.
LEMMA HandKept ==
  ASSUME IndInv, [Next]_vars, \A w \in Workers : ~Parse(w)
  PROVE  InHand' \subseteq InHand \cup {0}
<1> USE DEF producerVars, allocatorVars, workerVars, listVars, schedulerVars
<1>0. /\ tasklist \in Seq(Task) /\ executed \in Seq(Commands)
      /\ wtask \in [Workers -> Task \cup {NoTask}]
  BY DEF IndInv, TypeOK
<1>1. CASE UNCHANGED <<wtask, stask, tasklist, executed>>
  BY <1>1 DEF InHand, Scheduled, Range
<1>2. ASSUME NEW w \in Workers, Insert(w) PROVE InHand' \subseteq InHand \cup {0}
  <2>1. /\ wtask' = [wtask EXCEPT ![w] = NoTask]
        /\ tasklist' = Append(tasklist, wtask[w])
        /\ UNCHANGED <<stask, executed>>
    BY <1>2 DEF Insert
  <2>2. wtask[w] \in Task
    BY <1>2 DEF Insert, IndInv, HandInv
  <2>3. ASSUME NEW i \in DOMAIN tasklist' PROVE tasklist'[i].taskcom \in InHand
    <3>1. CASE i \in DOMAIN tasklist
      BY <1>0, <2>1, <2>2, <3>1 DEF InHand, Scheduled
    <3>2. CASE i = Len(tasklist) + 1
      BY <1>0, <2>1, <2>2, <3>2 DEF InHand, Scheduled
    <3> QED
      BY <1>0, <2>1, <2>2, <2>3, <3>1, <3>2
  <2>4. ASSUME NEW v \in Workers
        PROVE  wtask'[v].taskcom \in InHand \cup {0}
    BY <1>0, <2>1 DEF InHand, Scheduled, NoTask
  <2> QED
    BY <2>1, <2>3, <2>4 DEF InHand, Scheduled, Range
<1>3. CASE Pop
  <2>1. CASE ListEmpty(tasklist)
    BY <1>3, <2>1 DEF Pop, InHand, Scheduled, Range
  <2>2. CASE ~ListEmpty(tasklist)
    <3>1. /\ stask' = tasklist[1] /\ tasklist' = Tail(tasklist)
          /\ UNCHANGED <<wtask, executed>> /\ 1 \in DOMAIN tasklist
      BY <1>0, <1>3, <2>2 DEF Pop, ListEmpty
    <3>2. ASSUME NEW i \in DOMAIN tasklist'
          PROVE  tasklist'[i].taskcom \in InHand
      <4>1. i + 1 \in DOMAIN tasklist /\ tasklist'[i] = tasklist[i + 1]
        BY <1>0, <3>1, <3>2
      <4> QED
        BY <4>1 DEF InHand, Scheduled
    <3> QED
      BY <3>1, <3>2 DEF InHand, Scheduled, Range
  <2> QED
    BY <2>1, <2>2
<1>4. CASE Execute
  <2>1. /\ stask' = NoTask /\ executed' = Append(executed, stask.taskcom)
        /\ UNCHANGED <<wtask, tasklist>> /\ stask \in Task
    BY <1>4 DEF Execute, IndInv, HandInv
  <2>2. ASSUME NEW i \in DOMAIN executed' PROVE executed'[i] \in InHand
    <3>1. CASE i \in DOMAIN executed
      BY <1>0, <2>1, <3>1 DEF InHand, Scheduled, Range, Task
    <3>2. CASE i = Len(executed) + 1
      BY <1>0, <2>1, <3>2 DEF InHand, Scheduled, Task
    <3> QED
      BY <1>0, <2>1, <2>2, <3>1, <3>2 DEF Task
  <2> QED
    BY <2>1, <2>2 DEF InHand, Scheduled, Range, NoTask
<1>5. CASE Producer \/ Allocator
  <2>1. UNCHANGED <<wtask, stask, tasklist, executed>>
    BY <1>5
       DEF Producer, NodeAllocated, NodeFails, StopReading, PendAdd, Trigger,
           TriggerFails, Allocator, TriggerRead, TriggerReadFails,
           AllocateTest, AllocateWork, AllocateWorkFails
  <2> QED
    BY <1>1, <2>1
<1>6. ASSUME NEW w \in Workers, Worker(w), ~Insert(w), ~Parse(w)
      PROVE  UNCHANGED <<wtask, stask, tasklist, executed>>
  BY <1>6 DEF Worker, ParseFindsNothing, ParseFails, WaitEmpty, PostFull
<1>7. CASE WaitFull \/ PostEmpty
  BY <1>1, <1>7 DEF WaitFull, PostEmpty
<1>8. CASE UNCHANGED vars
  BY <1>1, <1>8 DEF vars
<1> QED
  BY <1>1, <1>2, <1>3, <1>4, <1>5, <1>6, <1>7, <1>8 DEF Next, Scheduler

\* task_parse takes the oldest command of the pending list.
LEMMA HandTakes ==
  ASSUME IndInv, NEW w \in Workers, Parse(w)
  PROVE  /\ InHand' \subseteq InHand \cup {pend[1]}
         /\ 1 \in DOMAIN pend /\ pend' = Tail(pend)
         /\ UNCHANGED <<ppc, arrived>>
<1>1. pend \in Seq(Commands) /\ wtask \in [Workers -> Task \cup {NoTask}]
  BY DEF IndInv, TypeOK
<1>2. /\ 1 \in DOMAIN pend /\ pend' = Tail(pend) /\ Head(pend) = pend[1]
      /\ UNCHANGED <<ppc, arrived, stask, tasklist, executed>>
  BY <1>1
     DEF Parse, ListEmpty, producerVars, listVars, schedulerVars
<1>3. PICK d : wtask' = [wtask EXCEPT ![w] = [taskcom |-> Head(pend),
                                              dev_latest |-> d]]
  BY DEF Parse
<1>4. ASSUME NEW v \in Workers
      PROVE  wtask'[v].taskcom \in InHand \cup {pend[1]}
  BY <1>1, <1>2, <1>3 DEF InHand, Scheduled
<1> QED
  BY <1>2, <1>4 DEF InHand, Scheduled, Range

\* What a step does to the pending list and to what has arrived.
LEMMA OrderStep ==
  ASSUME IndInv, OrderInv, [Next]_vars
  PROVE  OrderInv'
<1> USE DEF Stored
<1>0. /\ pend \in Seq(Commands) /\ arrived \in Nat /\ Commands \subseteq Nat \ {0}
  BY SizesAssumption DEF IndInv, TypeOK, Commands
<1>a. /\ Len(pend) \in Nat /\ DOMAIN pend = 1..Len(pend)
      /\ \A i \in DOMAIN pend : pend[i] \in Nat \ {0}
  <2>1. Len(pend) \in Nat /\ DOMAIN pend = 1..Len(pend)
    BY <1>0
  <2>2. pend \in [1..Len(pend) -> Commands]
    BY <1>0
  <2> QED
    BY <1>0, <2>1, <2>2
<1>1. ASSUME NEW w \in Workers, Parse(w) PROVE OrderInv'
  <2>1. /\ InHand' \subseteq InHand \cup {pend[1]}
        /\ 1 \in DOMAIN pend /\ pend' = Tail(pend)
        /\ UNCHANGED <<ppc, arrived>>
    BY <1>1, HandTakes
  <2>a. Stored' = Stored
    BY <2>1
  <2>b. \A i \in DOMAIN pend' : i + 1 \in DOMAIN pend /\ pend'[i] = pend[i + 1]
    <3> SUFFICES ASSUME NEW i \in DOMAIN pend'
                 PROVE  i + 1 \in DOMAIN pend /\ pend'[i] = pend[i + 1]
      OBVIOUS
    <3> QED
      BY <1>0, <2>1
  <2>2. /\ \A i \in DOMAIN pend' : i + 1 \in DOMAIN pend /\ pend'[i] = pend[i + 1]
        /\ DOMAIN pend' \subseteq Nat \ {0} /\ DOMAIN pend \subseteq Nat
    BY <1>0, <2>1, <2>b
  <2>3. \A i, k \in DOMAIN pend' : i < k => pend'[i] < pend'[k]
    BY <2>2 DEF OrderInv, TakenInOrder
  <2>4. ASSUME NEW c \in InHand', NEW d \in Range(pend') PROVE c < d
    <3>1. PICK k \in DOMAIN pend' : d = pend[k + 1]
      BY <2>2 DEF Range
    <3>2. k + 1 \in DOMAIN pend /\ 1 < k + 1 /\ k \in Nat \ {0}
      BY <2>2
    <3>3. CASE c \in InHand
      BY <3>1, <3>2, <3>3 DEF OrderInv, TakenInOrder, Range
    <3>4. CASE c = pend[1]
      BY <2>1, <3>1, <3>2, <3>4 DEF OrderInv, TakenInOrder
    <3> QED
      BY <2>1, <3>3, <3>4
  <2>5. \A i \in DOMAIN pend' : pend'[i] <= Stored'
    <3> HIDE DEF Stored
    <3> QED
      BY <2>a, <2>2 DEF OrderInv
  <2>6. \A c \in InHand' : c \in Nat /\ c <= Stored'
    <3> HIDE DEF Stored
    <3>1. pend[1] \in Nat /\ pend[1] <= Stored
      BY <1>a, <2>1 DEF OrderInv
    <3> QED
      BY <2>a, <2>1, <3>1 DEF OrderInv
  <2> QED
    BY <2>3, <2>4, <2>5, <2>6 DEF OrderInv, TakenInOrder
<1>2. CASE PendAdd
  <2>1. /\ InHand' \subseteq InHand
        /\ pend' = Append(pend, arrived) /\ arrived' = arrived
        /\ Stored = arrived - 1 /\ Stored' = arrived
        /\ arrived \in Commands
    BY <1>2
       DEF PendAdd, InHand, Scheduled, Range, allocatorVars, workerVars, listVars,
           schedulerVars, IndInv, HandInv
  <2>2. /\ Len(pend) \in Nat /\ DOMAIN pend = 1..Len(pend)
        /\ DOMAIN pend' = 1..(Len(pend) + 1)
        /\ \A i \in DOMAIN pend : pend'[i] = pend[i] /\ pend[i] \in Nat
        /\ pend'[Len(pend) + 1] = arrived
    <3>1. ASSUME NEW i \in DOMAIN pend PROVE pend'[i] = pend[i]
      BY <1>0, <2>1, <3>1
    <3> QED
      BY <1>0, <1>a, <2>1, <3>1
  <2>a. \A i \in DOMAIN pend : pend[i] < arrived
    <3> HIDE DEF Stored
    <3> QED
      BY <1>0, <2>1, <2>2 DEF OrderInv
  <2>3. \A i, k \in DOMAIN pend' : i < k => pend'[i] < pend'[k]
    <3> SUFFICES ASSUME NEW i \in DOMAIN pend', NEW k \in DOMAIN pend', i < k
                 PROVE  pend'[i] < pend'[k]
      OBVIOUS
    <3>1. i \in DOMAIN pend
      BY <2>2
    <3>2. CASE k \in DOMAIN pend
      BY <2>2, <3>1, <3>2 DEF OrderInv, TakenInOrder
    <3>3. CASE k = Len(pend) + 1
      BY <2>2, <2>a, <3>1, <3>3
    <3> QED
      BY <2>2, <3>2, <3>3
  <2>4. ASSUME NEW c \in InHand', NEW d \in Range(pend') PROVE c < d
    <3>1. PICK k \in DOMAIN pend' : d = pend'[k]
      BY DEF Range
    <3>2. c \in InHand /\ c \in Nat /\ c <= arrived - 1
      BY <2>1 DEF OrderInv
    <3>3. CASE k \in DOMAIN pend
      BY <2>2, <3>1, <3>2, <3>3 DEF OrderInv, TakenInOrder, Range
    <3>4. CASE k = Len(pend) + 1
      BY <1>0, <2>2, <3>1, <3>2, <3>4
    <3> QED
      BY <2>2, <3>3, <3>4
  <2>5. \A i \in DOMAIN pend' : pend'[i] <= Stored'
    <3> HIDE DEF Stored
    <3> SUFFICES ASSUME NEW i \in DOMAIN pend' PROVE pend'[i] <= arrived
      BY <2>1
    <3>1. CASE i \in DOMAIN pend
      BY <1>0, <2>2, <2>a, <3>1
    <3>2. CASE i = Len(pend) + 1
      BY <1>0, <2>2, <3>2
    <3> QED
      BY <2>2, <3>1, <3>2
  <2>6. \A c \in InHand' : c \in Nat /\ c <= Stored'
    <3> HIDE DEF Stored
    <3> QED
      BY <1>0, <2>1 DEF OrderInv
  <2> QED
    BY <2>3, <2>4, <2>5, <2>6 DEF OrderInv, TakenInOrder
<1>3. ASSUME UNCHANGED pend, Stored' \in Nat, Stored <= Stored',
             \A w \in Workers : ~Parse(w)
      PROVE  OrderInv'
  <2>1. InHand' \subseteq InHand \cup {0}
    BY <1>3, HandKept
  <2>2. Stored \in Int /\ \A d \in Range(pend) : d \in Nat /\ d > 0
    BY <1>0, <1>a DEF Range
  <2>3. \A i \in DOMAIN pend' : pend'[i] <= Stored'
    <3> SUFFICES ASSUME NEW i \in DOMAIN pend' PROVE pend'[i] <= Stored'
      OBVIOUS
    <3>1. pend'[i] = pend[i] /\ pend[i] \in Nat /\ pend[i] <= Stored
      <4> HIDE DEF Stored
      <4> QED
        BY <1>a, <1>3 DEF OrderInv
    <3> QED
      BY <1>3, <2>2, <3>1
  <2>4. \A c \in InHand' : c \in Nat /\ c <= Stored'
    <3> SUFFICES ASSUME NEW c \in InHand' PROVE c \in Nat /\ c <= Stored'
      OBVIOUS
    <3>1. CASE c = 0
      BY <1>3, <3>1
    <3>2. CASE c \in InHand
      BY <1>3, <2>2, <3>2 DEF OrderInv
    <3> QED
      BY <2>1, <3>1, <3>2
  <2>5. \A c \in InHand', d \in Range(pend') : c < d
    BY <1>3, <2>1, <2>2 DEF OrderInv, TakenInOrder
  <2> QED
    BY <1>3, <2>3, <2>4, <2>5 DEF OrderInv, TakenInOrder
<1>4. CASE UNCHANGED <<pend, ppc, arrived>> /\ \A w \in Workers : ~Parse(w)
  <2>1. Stored' = Stored /\ Stored \in Nat
    BY <1>0, <1>4 DEF IndInv, HandInv
  <2> QED
    BY <1>3, <1>4, <2>1
<1>5. CASE Producer /\ ~PendAdd
  <2>1. \A w \in Workers : ~Parse(w)
    <3> SUFFICES ASSUME NEW w \in Workers, Parse(w) PROVE FALSE
      OBVIOUS
    <3>1. pend' = Tail(pend) /\ 1 \in DOMAIN pend
      BY HandTakes
    <3>2. pend' = pend
      BY <1>5
         DEF Producer, NodeAllocated, NodeFails, StopReading, Trigger,
             TriggerFails
    <3> QED
      BY <1>0, <3>1, <3>2
  <2>2. UNCHANGED pend /\ Stored' \in Nat /\ Stored <= Stored'
    BY <1>0, <1>5
       DEF Producer, NodeAllocated, NodeFails, StopReading, Trigger,
           TriggerFails, Arrive
  <2> QED
    BY <1>3, <2>1, <2>2
<1>6. CASE Allocator \/ Scheduler \/ \E w \in Workers : Worker(w) /\ ~Parse(w)
  <2>1. UNCHANGED <<pend, ppc, arrived>>
    BY <1>6
       DEF Allocator, TriggerRead, TriggerReadFails, AllocateTest,
           AllocateWork, AllocateWorkFails, Scheduler, WaitFull, Pop,
           PostEmpty, Execute, Worker, ParseFindsNothing, ParseFails,
           WaitEmpty, Insert, PostFull, producerVars
  <2> QED
    BY <1>1, <1>4, <2>1
<1>7. CASE UNCHANGED vars
  BY <1>1, <1>4, <1>7 DEF vars
<1> QED
  BY <1>1, <1>2, <1>5, <1>6, <1>7 DEF Next

\* The order of the pending list is kept by every step.
LEMMA OrderInvariant == Spec => []OrderInv
<1>1. Init => OrderInv
  <2> SUFFICES ASSUME Init PROVE OrderInv
    OBVIOUS
  <2>1. InHand \subseteq {0} /\ DOMAIN pend = {} /\ Stored = 0
    BY DEF Init, InHand, Scheduled, Range, Stored, NoTask
  <2> QED
    BY <2>1 DEF OrderInv, TakenInOrder, Range
<1>2. IndInv /\ OrderInv /\ [Next]_vars => OrderInv'
  BY OrderStep
<1> QED
  BY <1>1, <1>2, ManagerInvariant, PTL DEF Spec

-----------------------------------------------------------------------------
(* The places of a command                                                 *)

InSeq(p, c) == Cardinality({i \in DOMAIN p : p[i] = c})
InTasks(f, c) == Cardinality({i \in DOMAIN f : f[i].taskcom = c})
Hands == [Workers -> Task \cup {NoTask}]
TasksOf(c) == {t \in Task : t.taskcom = c}

\* Nobody keeps a task node that he has passed on.
EmptyHands ==
  /\ \A w \in Workers : wpc[w] \in {"idle", "post"} => wtask[w] = NoTask
  /\ spc \in {"wait", "pop", "aborted"} => stask = NoTask

OneInv == OnePlace /\ EmptyHands

\* How often a command is in a sequence that grows or loses its head.
LEMMA SeqCounts ==
  ASSUME NEW p \in Seq(Commands), NEW c
  PROVE  /\ InSeq(p, c) \in Nat
         /\ \A e \in Commands : InSeq(Append(p, e), c) = InSeq(p, c) + One(e = c)
         /\ p # <<>> => InSeq(Tail(p), c) = InSeq(p, c) - One(Head(p) = c)
<1>1. \A q : InSeq(q, c) = Cardinality(EntriesIn(q, {c}))
  BY DEF InSeq, EntriesIn
<1>2. \A e \in Commands :
        Cardinality(EntriesIn(Append(p, e), {c}))
          = Cardinality(EntriesIn(p, {c})) + (IF e \in {c} THEN 1 ELSE 0)
  BY EntriesAppend
<1>3. p # <<>> =>
        Cardinality(EntriesIn(Tail(p), {c}))
          = Cardinality(EntriesIn(p, {c})) - (IF Head(p) \in {c} THEN 1 ELSE 0)
  BY EntriesTail
<1>4. Cardinality(EntriesIn(p, {c})) \in Nat
  BY EntriesFinite
<1> QED
  BY <1>1, <1>2, <1>3, <1>4 DEF One

\* The tasks of a command in the schedule list, and in the hands of the pool
\* threads.
LEMMA TaskCounts ==
  ASSUME NEW l \in Seq(Task), NEW c \in Commands
  PROVE  /\ InTasks(l, c) \in Nat
         /\ \A t \in Task :
              InTasks(Append(l, t), c) = InTasks(l, c) + One(t.taskcom = c)
         /\ l # <<>> =>
              InTasks(Tail(l), c) = InTasks(l, c) - One(Head(l).taskcom = c)
<1>1. \A q \in Seq(Task) : InTasks(q, c) = Cardinality(EntriesIn(q, TasksOf(c)))
  <2> SUFFICES ASSUME NEW q \in Seq(Task)
               PROVE  InTasks(q, c) = Cardinality(EntriesIn(q, TasksOf(c)))
    OBVIOUS
  <2>1. \A i \in DOMAIN q : q[i] \in Task
    OBVIOUS
  <2> QED
    BY <2>1 DEF InTasks, EntriesIn, TasksOf
<1>2. ASSUME NEW t \in Task
      PROVE  InTasks(Append(l, t), c) = InTasks(l, c) + One(t.taskcom = c)
  <2>1. Cardinality(EntriesIn(Append(l, t), TasksOf(c)))
          = Cardinality(EntriesIn(l, TasksOf(c)))
              + (IF t \in TasksOf(c) THEN 1 ELSE 0)
    BY EntriesAppend
  <2>2. Append(l, t) \in Seq(Task) /\ (t \in TasksOf(c) <=> t.taskcom = c)
    BY DEF TasksOf
  <2> QED
    BY <1>1, <2>1, <2>2 DEF One
<1>3. ASSUME l # <<>>
      PROVE  InTasks(Tail(l), c) = InTasks(l, c) - One(Head(l).taskcom = c)
  <2>1. Cardinality(EntriesIn(Tail(l), TasksOf(c)))
          = Cardinality(EntriesIn(l, TasksOf(c)))
              - (IF Head(l) \in TasksOf(c) THEN 1 ELSE 0)
    BY <1>3, EntriesTail
  <2>2. /\ Tail(l) \in Seq(Task) /\ Head(l) \in Task
        /\ Head(l) \in TasksOf(c) <=> Head(l).taskcom = c
    BY <1>3 DEF TasksOf
  <2> QED
    BY <1>1, <2>1, <2>2 DEF One
<1> QED
  BY <1>1, <1>2, <1>3, EntriesFinite

\* The task nodes of a command that pool threads hold can be counted.
LEMMA HandCounts ==
  ASSUME NEW f \in [Workers -> Task \cup {NoTask}], NEW c \in Commands
  PROVE  /\ InTasks(f, c) = Cardinality(EntriesIn(f, TasksOf(c)))
         /\ InTasks(f, c) \in Nat
<1>1. \A v \in Workers : f[v].taskcom = c <=> f[v] \in TasksOf(c)
  <2>1. \A t \in Task \cup {NoTask} : t.taskcom = c <=> t \in TasksOf(c)
    BY SizesAssumption DEF TasksOf, NoTask, Commands, Task
  <2> QED
    BY <2>1
<1>2. EntriesIn(f, TasksOf(c)) \in SUBSET Workers
  BY DEF EntriesIn
<1>3. IsFiniteSet(Workers)
  BY SizesAssumption, FS_Interval DEF Workers
<1>4. InTasks(f, c) = Cardinality(EntriesIn(f, TasksOf(c)))
  BY <1>1 DEF InTasks, EntriesIn
<1> QED
  BY <1>2, <1>3, <1>4, FS_Subset, FS_CardinalityType

\* A pool thread that takes or passes on a task node.
LEMMA HandMoves ==
  ASSUME NEW f \in Hands, NEW g \in Hands, NEW w \in Workers,
         \A v \in Workers \ {w} : g[v] = f[v], NEW c \in Commands
  PROVE  InTasks(g, c)
           = InTasks(f, c) + One(g[w].taskcom = c) - One(f[w].taskcom = c)
<1> DEFINE S == Task \cup {NoTask}
<1> USE DEF Hands
<1>1. \A t \in S : t.taskcom = c <=> t \in TasksOf(c)
  BY SizesAssumption DEF TasksOf, NoTask, Commands, Task
<1>2. /\ DOMAIN f = Workers /\ DOMAIN g = Workers /\ IsFiniteSet(Workers)
      /\ \A v \in Workers \ {w} : g[v] = f[v]
  BY SizesAssumption, FS_Interval DEF Workers
<1>3. f[w] \in S /\ g[w] \in S
  OBVIOUS
<1>4. /\ InTasks(f, c) = Cardinality(EntriesIn(f, TasksOf(c)))
      /\ InTasks(g, c) = Cardinality(EntriesIn(g, TasksOf(c)))
  BY HandCounts
<1> HIDE DEF S
<1>5. Cardinality(EntriesIn(g, TasksOf(c)))
        = Cardinality(EntriesIn(f, TasksOf(c)))
            + (IF g[w] \in TasksOf(c) THEN 1 ELSE 0)
            - (IF f[w] \in TasksOf(c) THEN 1 ELSE 0)
  BY <1>2, ValueReplaced
<1> QED
  BY <1>1, <1>3, <1>4, <1>5 DEF One

\* A step that moves no command keeps every command in its place.
LEMMA PlacesSame ==
  ASSUME UNCHANGED <<arrived, dropped, pend, wtask, tasklist, stask, executed>>,
         ppc' = "add" <=> ppc = "add", OnePlace
  PROVE  OnePlace'
BY DEF OnePlace, Places

\* What event_serial does with a command.
LEMMA PlacesProducer ==
  ASSUME IndInv, OneInv, Producer
  PROVE  OnePlace'
<1> USE DEF allocatorVars, workerVars, listVars, schedulerVars
<1>0. /\ pend \in Seq(Commands) /\ arrived \in Nat
      /\ wtask \in [Workers -> Task \cup {NoTask}]
      /\ tasklist \in Seq(Task) /\ executed \in Seq(Commands)
  BY DEF IndInv, TypeOK
<1>1. SUFFICES ASSUME NEW c \in Commands
               PROVE  Places(c)' = One(c <= arrived)'
  BY DEF OnePlace
<1>2. /\ c \in Nat \ {0}
      /\ Places(c) = One(c <= arrived)
      /\ InSeq(pend, c) \in Nat /\ InSeq(executed, c) \in Nat
      /\ InTasks(wtask, c) \in Nat /\ InTasks(tasklist, c) \in Nat
  BY <1>0, SeqCounts, TaskCounts, HandCounts DEF OneInv, OnePlace, Commands
<1>3. Places(c) =
        One(ppc = "add" /\ c = arrived) + One(c \in dropped) + InSeq(pend, c)
          + InTasks(wtask, c) + InTasks(tasklist, c) + One(stask.taskcom = c)
          + InSeq(executed, c)
  BY <1>0 DEF Places, InSeq, InTasks
<1>4. Places(c)' =
        One(ppc' = "add" /\ c = arrived') + One(c \in dropped')
          + InSeq(pend', c) + InTasks(wtask', c) + InTasks(tasklist', c)
          + One(stask'.taskcom = c) + InSeq(executed', c)
  <2>1. wtask' = wtask
    BY DEF Producer, NodeAllocated, NodeFails, StopReading, PendAdd, Trigger, TriggerFails
  <2> QED
    BY <1>0, <2>1 DEF Places, InSeq, InTasks
<1>5. CASE NodeAllocated \/ NodeFails
  <2>1. /\ arrived' = arrived + 1 /\ ppc = "read"
        /\ UNCHANGED <<pend, wtask, tasklist, stask, executed>>
        /\ \/ ppc' = "add" /\ dropped' = dropped
           \/ ppc' = "read" /\ dropped' = dropped \cup {arrived + 1}
    BY <1>5 DEF NodeAllocated, NodeFails, Arrive
  <2>2. One(ppc = "add" /\ c = arrived) = 0
    BY <2>1 DEF One
  <2>3. One(ppc' = "add" /\ c = arrived') + One(c \in dropped')
          = One(c \in dropped) + One(c = arrived + 1)
    <3>1. c = arrived + 1 => c \notin dropped
      BY <1>0, <1>2, <1>3 DEF One
    <3> QED
      BY <2>1, <3>1 DEF One
  <2>4. One(c <= arrived)' = One(c <= arrived) + One(c = arrived + 1)
    BY <1>0, <1>2, <2>1 DEF One
  <2>5. /\ One(c \in dropped) \in Nat /\ One(stask.taskcom = c) \in Nat
        /\ One(c = arrived + 1) \in Nat
        /\ One(ppc' = "add" /\ c = arrived') \in Nat /\ One(c \in dropped') \in Nat
    BY DEF One
  <2> QED
    BY <1>2, <1>3, <1>4, <2>1, <2>2, <2>3, <2>4, <2>5
<1>6. CASE PendAdd
  <2>1. /\ ppc = "add" /\ ppc' = "trigger" /\ pend' = Append(pend, arrived)
        /\ UNCHANGED <<arrived, dropped, wtask, tasklist, stask, executed>>
        /\ arrived \in Commands
    BY <1>6 DEF PendAdd, IndInv, HandInv
  <2>2. InSeq(pend', c) = InSeq(pend, c) + One(arrived = c)
    BY <1>0, <2>1, SeqCounts
  <2> QED
    BY <1>2, <1>3, <1>4, <2>1, <2>2 DEF One
<1>7. CASE StopReading \/ Trigger \/ TriggerFails
  <2>1. /\ UNCHANGED <<arrived, dropped, pend, wtask, tasklist, stask, executed>>
        /\ ppc' # "add" /\ ppc # "add"
    BY <1>7 DEF StopReading, Trigger, TriggerFails
  <2> QED
    BY <1>2, <1>3, <1>4, <2>1 DEF One
<1> QED
  BY <1>5, <1>6, <1>7 DEF Producer

\* Places as a sum of the counts above, before and after a step.
PlacesOf(c) ==
  One(ppc = "add" /\ c = arrived) + One(c \in dropped) + InSeq(pend, c)
    + InTasks(wtask, c) + InTasks(tasklist, c) + One(stask.taskcom = c)
    + InSeq(executed, c)

\* The places of a command, one summand for each list or thread.
LEMMA PlacesSum ==
  ASSUME wtask \in [Workers -> Task \cup {NoTask}], NEW c
  PROVE  Places(c) = PlacesOf(c)
BY DEF Places, PlacesOf, InSeq, InTasks

\* The same after a step.
LEMMA PlacesSumNext ==
  ASSUME wtask' \in [Workers -> Task \cup {NoTask}], NEW CONSTANT c
  PROVE  Places(c)' = PlacesOf(c)'
BY DEF Places, PlacesOf, InSeq, InTasks

\* The parts of the sum are numbers.
LEMMA CountsNat ==
  ASSUME IndInv, NEW CONSTANT c \in Commands
  PROVE  /\ InSeq(pend, c) \in Nat /\ InSeq(executed, c) \in Nat
         /\ InTasks(wtask, c) \in Nat /\ InTasks(tasklist, c) \in Nat
         /\ One(ppc = "add" /\ c = arrived) \in Nat
         /\ One(c \in dropped) \in Nat /\ One(stask.taskcom = c) \in Nat
BY SeqCounts, TaskCounts, HandCounts DEF IndInv, TypeOK, One

\* What a pool thread does with a command.
LEMMA PlacesWorker ==
  ASSUME IndInv, IndInv', OneInv, NEW w \in Workers, Worker(w)
  PROVE  OneInv'
<1> USE DEF producerVars, allocatorVars, listVars, schedulerVars, workerVars
<1>0. /\ pend \in Seq(Commands) /\ tasklist \in Seq(Task)
      /\ wtask \in [Workers -> Task \cup {NoTask}]
      /\ wtask' \in [Workers -> Task \cup {NoTask}]
      /\ wpc \in [Workers -> WorkerStates]
  BY DEF IndInv, TypeOK
<1>a. wtask \in Hands /\ wtask' \in Hands
  BY <1>0 DEF Hands
<1>1. UNCHANGED <<arrived, ppc, dropped, stask, executed>>
      /\ (spc' = spc \/ spc \notin {"wait", "pop", "aborted"})
  BY DEF Worker, Parse, ParseFindsNothing, ParseFails, WaitEmpty, Insert, PostFull
<1>2. CASE Parse(w)
  <2>1. PICK d \in Leftover :
          wtask' = [wtask EXCEPT ![w] = [taskcom |-> Head(pend),
                                         dev_latest |-> d]]
    BY <1>2 DEF Parse
  <2> DEFINE t == [taskcom |-> Head(pend), dev_latest |-> d]
  <2>2. /\ pend # <<>> /\ pend' = Tail(pend) /\ tasklist' = tasklist
        /\ wpc' = [wpc EXCEPT ![w] = "wait"] /\ wtask[w] = NoTask
        /\ spc' = spc
    BY <1>2 DEF Parse, StartJob, ListEmpty, OneInv, EmptyHands
  <2>3. t \in Task /\ t.taskcom = Head(pend)
    BY <1>0, <2>2 DEF Task
  <2> HIDE DEF t
  <2>4. EmptyHands'
    BY <1>0, <1>1, <2>1, <2>2 DEF OneInv, EmptyHands
  <2>5. ASSUME NEW c \in Commands PROVE Places(c)' = One(c <= arrived)'
    <3>1. InSeq(pend', c) = InSeq(pend, c) - One(Head(pend) = c)
      BY <1>0, <2>2, SeqCounts
    <3>2. InTasks(wtask', c)
            = InTasks(wtask, c) + One(t.taskcom = c) - One(NoTask.taskcom = c)
      <4>1. wtask'[w] = t /\ \A v \in Workers \ {w} : wtask'[v] = wtask[v]
        BY <1>0, <2>1 DEF t
      <4> QED
        BY <1>a, <2>2, <4>1, HandMoves
    <3>3. One(NoTask.taskcom = c) = 0 /\ One(Head(pend) = c) \in Nat
      BY SizesAssumption DEF One, NoTask, Commands
    <3>4. PlacesOf(c)' = PlacesOf(c)
      BY <1>1, <2>2, <2>3, <3>1, <3>2, <3>3, CountsNat DEF PlacesOf
    <3> QED
      BY <1>0, <1>1, <3>4, PlacesSum, PlacesSumNext DEF OneInv, OnePlace
  <2> QED
    BY <2>4, <2>5 DEF OneInv, OnePlace
<1>3. CASE Insert(w)
  <2>1. /\ wtask' = [wtask EXCEPT ![w] = NoTask]
        /\ tasklist' = Append(tasklist, wtask[w])
        /\ wpc' = [wpc EXCEPT ![w] = "post"] /\ UNCHANGED <<pend, spc>>
        /\ wtask[w] \in Task
    BY <1>3 DEF Insert, IndInv, HandInv
  <2>2. EmptyHands'
    BY <1>0, <1>1, <2>1 DEF OneInv, EmptyHands
  <2>3. ASSUME NEW c \in Commands PROVE Places(c)' = One(c <= arrived)'
    <3>1. InTasks(tasklist', c) = InTasks(tasklist, c) + One(wtask[w].taskcom = c)
      BY <1>0, <2>1, TaskCounts
    <3>2. InTasks(wtask', c)
            = InTasks(wtask, c) + One(NoTask.taskcom = c) - One(wtask[w].taskcom = c)
      <4>1. wtask'[w] = NoTask /\ \A v \in Workers \ {w} : wtask'[v] = wtask[v]
        BY <1>0, <2>1
      <4> QED
        BY <1>a, <4>1, HandMoves
    <3>3. One(NoTask.taskcom = c) = 0 /\ One(wtask[w].taskcom = c) \in Nat
      BY SizesAssumption DEF One, NoTask, Commands
    <3>4. PlacesOf(c)' = PlacesOf(c)
      BY <1>1, <2>1, <3>1, <3>2, <3>3, CountsNat DEF PlacesOf
    <3> QED
      BY <1>0, <1>1, <3>4, PlacesSum, PlacesSumNext DEF OneInv, OnePlace
  <2> QED
    BY <2>2, <2>3 DEF OneInv, OnePlace
<1>4. CASE Worker(w) /\ ~Parse(w) /\ ~Insert(w)
  <2>1. /\ UNCHANGED <<pend, wtask, tasklist, spc>>
        /\ \/ wpc' = wpc
           \/ wpc[w] = "wait" /\ wpc' = [wpc EXCEPT ![w] = "insert"]
           \/ wpc[w] = "post" /\ wpc' = [wpc EXCEPT ![w] = "idle"]
    BY <1>4 DEF Worker, ParseFindsNothing, ParseFails, WaitEmpty, PostFull
  <2>2. EmptyHands'
    BY <1>0, <1>1, <2>1 DEF OneInv, EmptyHands
  <2> QED
    BY <1>1, <2>1, <2>2, PlacesSame DEF OneInv
<1> QED
  BY <1>2, <1>3, <1>4

\* What the scheduler does with a command.
LEMMA PlacesScheduler ==
  ASSUME IndInv, IndInv', OneInv, Scheduler
  PROVE  OneInv'
<1> USE DEF producerVars, allocatorVars, listVars, workerVars
<1>0. /\ tasklist \in Seq(Task) /\ executed \in Seq(Commands)
      /\ wtask \in [Workers -> Task \cup {NoTask}]
      /\ wtask' \in [Workers -> Task \cup {NoTask}]
  BY DEF IndInv, TypeOK
<1>1. UNCHANGED <<arrived, ppc, dropped, pend, wpc, wtask>>
  BY DEF Scheduler, WaitFull, Pop, PostEmpty, Execute
<1>2. CASE Pop /\ ~ListEmpty(tasklist)
  <2>1. /\ stask' = Head(tasklist) /\ tasklist' = Tail(tasklist)
        /\ spc' = "post" /\ stask = NoTask /\ tasklist # <<>>
        /\ executed' = executed
    BY <1>2 DEF Pop, ListEmpty, OneInv, EmptyHands
  <2>2. EmptyHands'
    BY <1>1, <2>1 DEF OneInv, EmptyHands
  <2>3. ASSUME NEW c \in Commands PROVE Places(c)' = One(c <= arrived)'
    <3>1. InTasks(tasklist', c)
            = InTasks(tasklist, c) - One(Head(tasklist).taskcom = c)
      BY <1>0, <2>1, TaskCounts
    <3>2. One(stask.taskcom = c) = 0 /\ One(Head(tasklist).taskcom = c) \in Nat
      BY <2>1, SizesAssumption DEF One, NoTask, Commands
    <3>3. PlacesOf(c)' = PlacesOf(c)
      BY <1>1, <2>1, <3>1, <3>2, CountsNat DEF PlacesOf
    <3> QED
      BY <1>0, <1>1, <3>3, PlacesSum, PlacesSumNext DEF OneInv, OnePlace
  <2> QED
    BY <2>2, <2>3 DEF OneInv, OnePlace
<1>3. CASE Execute
  <2>1. /\ executed' = Append(executed, stask.taskcom) /\ stask' = NoTask
        /\ spc = "execute" /\ tasklist' = tasklist
        /\ stask.taskcom \in Commands
    BY <1>3 DEF Execute, IndInv, HandInv, Task
  <2>2. EmptyHands'
    BY <1>1, <2>1 DEF OneInv, EmptyHands
  <2>3. ASSUME NEW c \in Commands PROVE Places(c)' = One(c <= arrived)'
    <3>1. InSeq(executed', c) = InSeq(executed, c) + One(stask.taskcom = c)
      BY <1>0, <2>1, SeqCounts
    <3>2. One(stask'.taskcom = c) = 0 /\ One(stask.taskcom = c) \in Nat
      BY <2>1, SizesAssumption DEF One, NoTask, Commands
    <3>3. PlacesOf(c)' = PlacesOf(c)
      BY <1>1, <2>1, <3>1, <3>2, CountsNat DEF PlacesOf
    <3> QED
      BY <1>0, <1>1, <3>3, PlacesSum, PlacesSumNext DEF OneInv, OnePlace
  <2> QED
    BY <2>2, <2>3 DEF OneInv, OnePlace
<1>4. CASE WaitFull \/ PostEmpty \/ (Pop /\ ListEmpty(tasklist))
  <2>1. UNCHANGED <<tasklist, stask, executed>>
        /\ (spc' \in {"wait", "pop"} => spc \in {"wait", "pop"})
        /\ spc' # "aborted"
    BY <1>4 DEF WaitFull, PostEmpty, Pop
  <2>2. EmptyHands'
    BY <1>1, <2>1 DEF OneInv, EmptyHands
  <2> QED
    BY <1>1, <2>1, <2>2, PlacesSame DEF OneInv
<1> QED
  BY <1>2, <1>3, <1>4 DEF Scheduler

\* Each command stays in one place, and each thread with empty hands or one.
LEMMA OneInvariant == Spec => []OneInv
<1>1. Init => OneInv
  <2> SUFFICES ASSUME Init PROVE OneInv
    OBVIOUS
  <2>1. EmptyHands
    BY DEF Init, EmptyHands
  <2>2. ASSUME NEW c \in Commands PROVE Places(c) = One(c <= arrived)
    <3>1. c \in Nat \ {0} /\ NoTask.taskcom # c
      BY SizesAssumption DEF Commands, NoTask
    <3>2. /\ pend = <<>> /\ tasklist = <<>> /\ executed = <<>>
          /\ wtask = [v \in Workers |-> NoTask]
      BY DEF Init
    <3>3. /\ {i \in DOMAIN pend : pend[i] = c} = {}
          /\ {v \in DOMAIN wtask : wtask[v].taskcom = c} = {}
          /\ {i \in DOMAIN tasklist : tasklist[i].taskcom = c} = {}
          /\ {i \in DOMAIN executed : executed[i] = c} = {}
      BY <3>1, <3>2
    <3>4. /\ InSeq(pend, c) = 0 /\ InSeq(executed, c) = 0
          /\ InTasks(wtask, c) = 0 /\ InTasks(tasklist, c) = 0
      BY <3>3, FS_EmptySet DEF InSeq, InTasks
    <3>5. /\ One(ppc = "add" /\ c = arrived) = 0 /\ One(c \in dropped) = 0
          /\ One(stask.taskcom = c) = 0 /\ One(c <= arrived) = 0
      BY <3>1 DEF Init, One
    <3>6. wtask \in [Workers -> Task \cup {NoTask}]
      BY <3>2
    <3> QED
      BY <3>4, <3>5, <3>6, PlacesSum DEF PlacesOf
  <2> QED
    BY <2>1, <2>2 DEF OneInv, OnePlace
<1>2. IndInv /\ IndInv' /\ OneInv /\ [Next]_vars => OneInv'
  <2> SUFFICES ASSUME IndInv, IndInv', OneInv, [Next]_vars PROVE OneInv'
    OBVIOUS
  <2>1. CASE Producer
    <3>1. EmptyHands'
      BY <2>1
         DEF Producer, NodeAllocated, NodeFails, StopReading, PendAdd, Trigger,
             TriggerFails, workerVars, schedulerVars, OneInv, EmptyHands
    <3> QED
      BY <2>1, <3>1, PlacesProducer DEF OneInv
  <2>2. CASE Allocator \/ UNCHANGED vars
    <3>1. UNCHANGED <<arrived, ppc, dropped, pend, wpc, wtask, tasklist, spc,
                      stask, executed>>
      BY <2>2
         DEF Allocator, TriggerRead, TriggerReadFails, AllocateTest,
             AllocateWork, AllocateWorkFails, producerVars, workerVars,
             listVars, schedulerVars, vars
    <3> QED
      BY <3>1, PlacesSame DEF OneInv, EmptyHands
  <2> QED
    BY <2>1, <2>2, PlacesWorker, PlacesScheduler DEF Next
<1> QED
  BY <1>1, <1>2, ManagerInvariant, PTL DEF Spec

\* No command is lost or executed twice, whatever fails.
THEOREM CommandsInOnePlace == Spec => []OnePlace
<1>1. OneInv => OnePlace
  BY DEF OneInv
<1> QED
  BY <1>1, OneInvariant, PTL

-----------------------------------------------------------------------------
(* The order of execution: how far it can differ from that of arrival      *)

\* A command that has arrived and is nowhere else is in a thread's hand.
LEMMA OvertakenInHand ==
  ASSUME IndInv, OrderInv, OneInv, NEW c \in Commands, NEW d \in InHand, c < d
  PROVE  \/ c \in Scheduled \cup dropped
         \/ \E w \in Workers : wtask[w].taskcom = c
<1> SUFFICES ASSUME c \notin Scheduled, c \notin dropped,
                    \A w \in Workers : wtask[w].taskcom # c
             PROVE  FALSE
  OBVIOUS
<1>0. /\ wtask \in [Workers -> Task \cup {NoTask}]
      /\ c \in Nat \ {0} /\ arrived \in Nat
  BY DEF IndInv, TypeOK, Commands
<1>1. d \in Nat /\ d <= Stored /\ d \in InHand
  BY DEF OrderInv
<1>2. c <= arrived
  BY <1>0, <1>1 DEF Stored
<1>3. ~(ppc = "add" /\ c = arrived)
  BY <1>0, <1>1 DEF Stored
<1>4. \A i \in DOMAIN pend : pend[i] # c
  <2> SUFFICES ASSUME NEW i \in DOMAIN pend, pend[i] = c PROVE FALSE
    OBVIOUS
  <2>1. c \in Range(pend)
    BY DEF Range
  <2>2. d < c
    BY <1>1, <2>1 DEF OrderInv, TakenInOrder
  <2> QED
    BY <1>0, <1>1, <2>2
<1>5. /\ {i \in DOMAIN pend : pend[i] = c} = {}
      /\ {w \in DOMAIN wtask : wtask[w].taskcom = c} = {}
      /\ {i \in DOMAIN tasklist : tasklist[i].taskcom = c} = {}
      /\ {i \in DOMAIN executed : executed[i] = c} = {}
  BY <1>0, <1>4 DEF Scheduled, Range
<1>6. /\ InSeq(pend, c) = 0 /\ InSeq(executed, c) = 0
      /\ InTasks(wtask, c) = 0 /\ InTasks(tasklist, c) = 0
  BY <1>5, FS_EmptySet DEF InSeq, InTasks
<1>7. /\ One(ppc = "add" /\ c = arrived) = 0 /\ One(c \in dropped) = 0
      /\ One(stask.taskcom = c) = 0 /\ One(c <= arrived) = 1
  BY <1>2, <1>3 DEF One, Scheduled
<1>8. PlacesOf(c) = 0
  BY <1>6, <1>7 DEF PlacesOf
<1> QED
  BY <1>0, <1>7, <1>8, PlacesSum DEF OneInv, OnePlace

\* Pool threads take commands in the order of arrival, and what has been
\* overtaken on the way to the schedule list is in the hands of one of them
\* (sys_task.c:222, 257).
THEOREM PendingInOrder == Spec => []PendingFifo
<1>1. IndInv /\ OrderInv /\ OneInv => PendingFifo
  BY OvertakenInHand DEF PendingFifo, OrderInv, InHand
<1> QED
  BY <1>1, ManagerInvariant, OrderInvariant, OneInvariant, PTL

-----------------------------------------------------------------------------
(* What merged notices cost                                                *)

\* The scheduler has a task.
Fetched == spc \in {"post", "execute"}

\* How many commands have been taken out of the pending list.
Taken ==
  Len(executed) + One(Fetched) + Len(tasklist)
    + Cardinality(WorkersIn({"wait", "insert"}))

\* The number of commands taken grows with task_parse and with nothing else.
LEMMA TakenStep ==
  ASSUME IndInv, [Next]_vars
  PROVE  /\ Taken \in Nat
         /\ \A w \in Workers : Parse(w) => Taken' = Taken + 1
         /\ (\A w \in Workers : ~Parse(w)) => Taken' = Taken
<1> DEFINE S == {"wait", "insert"}
           n == Cardinality(WorkersIn(S))
<1> USE DEF producerVars, allocatorVars, workerVars, listVars, schedulerVars
<1>0. /\ tasklist \in Seq(Task) /\ executed \in Seq(Commands)
      /\ Len(tasklist) \in Nat /\ Len(executed) \in Nat /\ n \in Nat
      /\ wpc \in [Workers -> WorkerStates]
      /\ One(Fetched) \in Nat
  BY CountNat DEF IndInv, TypeOK, One
<1> HIDE DEF n, S
<1>2. Taken = Len(executed) + One(Fetched) + Len(tasklist) + n
  BY DEF Taken, n, S
<1>3. Taken' = Len(executed') + One(Fetched)' + Len(tasklist') + n'
  BY DEF Taken, n, S
<1>4. ASSUME NEW w \in Workers, Parse(w) PROVE Taken' = Taken + 1
  <2>1. /\ wpc' = [wpc EXCEPT ![w] = "wait"] /\ wpc[w] = "idle"
        /\ UNCHANGED <<executed, spc, tasklist>>
    BY <1>4 DEF Parse, StartJob
  <2>2. n' = n + 1
    <3>1. n' = n + One("wait" \in S) - One(wpc[w] \in S)
      BY <1>0, <2>1, CountMove DEF n
    <3>2. wpc[w] = "idle"
      BY <2>1
    <3> QED
      BY <1>0, <3>1, <3>2 DEF One, S
  <2>3. One(Fetched)' = One(Fetched)
    BY <2>1 DEF Fetched, One
  <2> QED
    BY <1>0, <1>2, <1>3, <2>1, <2>2, <2>3
<1>5. ASSUME NEW w \in Workers, Worker(w), ~Parse(w) PROVE Taken' = Taken
  <2>1. UNCHANGED <<executed, spc>>
    BY <1>5 DEF Worker, ParseFindsNothing, ParseFails, WaitEmpty, Insert, PostFull
  <2>2. One(Fetched)' = One(Fetched)
    BY <2>1 DEF Fetched, One
  <2>3. CASE ParseFindsNothing(w) \/ ParseFails(w)
    <3>1. UNCHANGED <<wpc, tasklist>>
      BY <2>3 DEF ParseFindsNothing, ParseFails
    <3>2. n' = n
      BY <3>1 DEF n, WorkersIn
    <3> QED
      BY <1>0, <1>2, <1>3, <2>1, <2>2, <3>1, <3>2
  <2>4. CASE WaitEmpty(w)
    <3>1. /\ wpc' = [wpc EXCEPT ![w] = "insert"] /\ wpc[w] = "wait"
          /\ UNCHANGED tasklist
      BY <2>4 DEF WaitEmpty
    <3>2. n' = n
      <4>1. n' = n + One("insert" \in S) - One(wpc[w] \in S)
        BY <1>0, <3>1, CountMove DEF n
      <4>2. wpc[w] = "wait"
        BY <3>1
      <4> QED
        BY <1>0, <4>1, <4>2 DEF One, S
    <3> QED
      BY <1>0, <1>2, <1>3, <2>1, <2>2, <3>1, <3>2
  <2>5. CASE Insert(w)
    <3>1. /\ wpc' = [wpc EXCEPT ![w] = "post"] /\ wpc[w] = "insert"
          /\ tasklist' = Append(tasklist, wtask[w]) /\ wtask[w] \in Task
      BY <2>5 DEF Insert, IndInv, HandInv
    <3>2. n' = n - 1
      <4>1. n' = n + One("post" \in S) - One(wpc[w] \in S)
        BY <1>0, <3>1, CountMove DEF n
      <4>2. wpc[w] = "insert"
        BY <3>1
      <4> QED
        BY <1>0, <4>1, <4>2 DEF One, S
    <3>3. Len(tasklist') = Len(tasklist) + 1
      BY <1>0, <3>1
    <3> QED
      BY <1>0, <1>2, <1>3, <2>1, <2>2, <3>2, <3>3
  <2>6. CASE PostFull(w)
    <3>1. /\ wpc' = [wpc EXCEPT ![w] = "idle"] /\ wpc[w] = "post"
          /\ UNCHANGED tasklist
      BY <2>6 DEF PostFull
    <3>2. n' = n
      <4>1. n' = n + One("idle" \in S) - One(wpc[w] \in S)
        BY <1>0, <3>1, CountMove DEF n
      <4>2. wpc[w] = "post"
        BY <3>1
      <4> QED
        BY <1>0, <4>1, <4>2 DEF One, S
    <3> QED
      BY <1>0, <1>2, <1>3, <2>1, <2>2, <3>1, <3>2
  <2> QED
    BY <1>5, <2>3, <2>4, <2>5, <2>6 DEF Worker
<1>6. ASSUME Scheduler PROVE Taken' = Taken
  <2>1. n' = n
    BY <1>6 DEF Scheduler, WaitFull, Pop, PostEmpty, Execute, n, WorkersIn
  <2>2. CASE WaitFull \/ PostEmpty \/ (Pop /\ ListEmpty(tasklist))
    <3>1. UNCHANGED <<executed, tasklist>> /\ One(Fetched)' = One(Fetched)
      BY <2>2 DEF WaitFull, PostEmpty, Pop, Fetched, One
    <3> QED
      BY <1>0, <1>2, <1>3, <2>1, <3>1
  <2>3. CASE Pop /\ ~ListEmpty(tasklist)
    <3>1. /\ UNCHANGED executed /\ tasklist' = Tail(tasklist) /\ tasklist # <<>>
          /\ One(Fetched)' = 1 /\ One(Fetched) = 0
      BY <2>3 DEF Pop, ListEmpty, Fetched, One
    <3>2. Len(tasklist') = Len(tasklist) - 1
      BY <1>0, <3>1
    <3> QED
      BY <1>0, <1>2, <1>3, <2>1, <3>1, <3>2
  <2>4. CASE Execute
    <3>1. /\ executed' = Append(executed, stask.taskcom) /\ UNCHANGED tasklist
          /\ One(Fetched)' = 0 /\ One(Fetched) = 1
          /\ stask.taskcom \in Commands
      BY <2>4 DEF Execute, Fetched, One, IndInv, HandInv, Task
    <3>2. Len(executed') = Len(executed) + 1
      BY <1>0, <3>1
    <3> QED
      BY <1>0, <1>2, <1>3, <2>1, <3>1, <3>2
  <2> QED
    BY <1>6, <2>2, <2>3, <2>4 DEF Scheduler
<1>7. ASSUME Producer \/ Allocator \/ UNCHANGED vars PROVE Taken' = Taken
  <2>1. UNCHANGED <<executed, spc, tasklist, wpc>>
    BY <1>7
       DEF Producer, NodeAllocated, NodeFails, StopReading, PendAdd, Trigger,
           TriggerFails, Allocator, TriggerRead, TriggerReadFails, AllocateTest,
           AllocateWork, AllocateWorkFails, vars
  <2> QED
    BY <1>0, <1>2, <1>3, <2>1 DEF n, WorkersIn, Fetched
<1> QED
  BY <1>0, <1>2, <1>4, <1>5, <1>6, <1>7 DEF Next

\* The most notices that one read of the pipe can take.
Batch == Smaller(PipeCap, ReadMax)

\* Reads that have been done and not yet led to a call, and calls not begun.
Rounds == One(apc # "read") + jobs

\* Each command that waits has its notice in the pipe or about to be there, or
\* is one of a batch that a round stands for or a command was taken for.
BatchInv ==
  Len(pend) <= fifo + One(ppc = "trigger") + Batch * Rounds + (Batch - 1) * Taken

\* One round more.
LEMMA OneMore ==
  ASSUME NEW b \in Nat \ {0}, NEW n \in Nat
  PROVE  /\ b * n \in Nat /\ b * (n + 1) = b * n + b
         /\ (b - 1) * n \in Nat /\ (b - 1) * (n + 1) = (b - 1) * n + b - 1
<1>1. ASSUME NEW a \in Nat PROVE a * n \in Nat /\ a * (n + 1) = a * n + a
  OBVIOUS
<1>2. b - 1 \in Nat
  OBVIOUS
<1> QED
  BY <1>1, <1>2

\* A read of the pipe moves notices from the pipe to a round.
LEMMA MoreRoom ==
  ASSUME NEW l \in Nat, NEW f \in Nat, NEW g \in Nat, NEW t \in Nat,
         NEW r \in Nat, NEW q \in Nat, NEW b \in Nat,
         l <= f + t + r + q, f <= g + b
  PROVE  l <= g + t + (r + b) + q
OBVIOUS

\* A step keeps the count, if none of the calls that pass a notice on fails.
LEMMA BatchStep ==
  ASSUME Faults \subseteq {"node", "read"}, IndInv, BatchInv, [Next]_vars
  PROVE  BatchInv'
<1> USE DEF producerVars, allocatorVars, workerVars, listVars, schedulerVars
<1>0. /\ pend \in Seq(Commands) /\ fifo \in Nat /\ jobs \in Nat
      /\ Len(pend) \in Nat /\ Batch \in Nat \ {0}
      /\ Taken \in Nat /\ Taken' \in Nat
      /\ Rounds \in Nat /\ fifo <= PipeCap /\ PipeCap \in Nat /\ ReadMax \in Nat
  BY TakenStep, SizesAssumption DEF IndInv, TypeOK, Batch, Smaller, Rounds, One
<1>1. /\ Batch * Rounds \in Nat /\ (Batch - 1) * Taken \in Nat
      /\ Batch * (Rounds + 1) = Batch * Rounds + Batch
      /\ (Batch - 1) * (Taken + 1) = (Batch - 1) * Taken + Batch - 1
      /\ Rounds # 0 => Batch * (Rounds - 1) = Batch * Rounds - Batch
  <2>1. Rounds # 0 => Batch * ((Rounds - 1) + 1) = Batch * (Rounds - 1) + Batch
                      /\ Batch * (Rounds - 1) \in Nat
    BY <1>0, OneMore
  <2>2. (Rounds - 1) + 1 = Rounds
    BY <1>0
  <2> QED
    BY <1>0, <2>1, <2>2, OneMore
<1>2. BatchInv <=> Len(pend) <= fifo + One(ppc = "trigger") + Batch * Rounds
                                  + (Batch - 1) * Taken
  BY DEF BatchInv
<1>3. BatchInv' <=> Len(pend') <= fifo' + One(ppc' = "trigger")
                                    + Batch * Rounds' + (Batch - 1) * Taken'
  BY DEF BatchInv, Batch
<1>4. ASSUME NEW w \in Workers, Parse(w) PROVE BatchInv'
  <2>1. /\ Len(pend') = Len(pend) - 1 /\ jobs' = jobs - 1 /\ jobs > 0
        /\ UNCHANGED <<fifo, ppc, apc>>
    BY <1>0, <1>4 DEF Parse, StartJob, ListEmpty
  <2>2. Rounds' = Rounds - 1 /\ Rounds # 0
    BY <1>0, <2>1 DEF Rounds, One
  <2>3. Taken' = Taken + 1
    BY <1>4, TakenStep
  <2>4. One(ppc = "trigger") \in Nat
    BY DEF One
  <2> HIDE DEF BatchInv
  <2>5. Len(pend) - 1 <= fifo + One(ppc = "trigger") + (Batch * Rounds - Batch)
                           + ((Batch - 1) * Taken + Batch - 1)
    BY <1>0, <1>1, <1>2, <2>4
  <2> QED
    BY <1>1, <1>3, <2>1, <2>2, <2>3, <2>5
<1>5. ASSUME pend' = <<>>, fifo' \in Nat, jobs' \in Nat PROVE BatchInv'
  <2>1. One(apc' # "read") \in Nat /\ One(ppc' = "trigger") \in Nat
    BY DEF One
  <2>4. Rounds' \in Nat
    BY <1>5, <2>1 DEF Rounds
  <2>2. Batch * Rounds' \in Nat /\ (Batch - 1) * Taken' \in Nat
    BY <1>0, <2>4, OneMore
  <2>3. Len(pend') = 0
    BY <1>5
  <2> QED
    BY <1>3, <1>5, <2>1, <2>2, <2>3
<1>6. ASSUME Taken' = Taken, Rounds' = Rounds, UNCHANGED <<fifo, pend>>,
             One(ppc' = "trigger") = One(ppc = "trigger")
      PROVE  BatchInv'
  BY <1>2, <1>3, <1>6
<1>7. ASSUME NEW w \in Workers, Worker(w), ~Parse(w) PROVE BatchInv'
  <2>1. CASE ParseFindsNothing(w)
    <3>1. pend' = <<>> /\ fifo' = fifo /\ jobs' \in Nat
      BY <1>0, <2>1 DEF ParseFindsNothing, StartJob, ListEmpty
    <3> QED
      BY <1>0, <1>5, <3>1
  <2>2. ~ParseFails(w)
    BY DEF ParseFails, Fault
  <2>3. CASE WaitEmpty(w) \/ Insert(w) \/ PostFull(w)
    <3>1. UNCHANGED <<pend, fifo, ppc, apc, jobs>> /\ \A v \in Workers : ~Parse(v)
      BY <1>0, <2>3 DEF WaitEmpty, Insert, PostFull, Parse, StartJob
    <3> QED
      BY <1>6, <3>1, TakenStep DEF Rounds
  <2> QED
    BY <1>7, <2>1, <2>2, <2>3 DEF Worker
<1>8. CASE Producer
  <2>0. (\A w \in Workers : ~Parse(w)) /\ UNCHANGED <<apc, jobs>>
    BY <1>0, <1>8
       DEF Producer, NodeAllocated, NodeFails, StopReading, PendAdd, Trigger,
           TriggerFails, Parse, StartJob
  <2>1. Taken' = Taken /\ Rounds' = Rounds
    BY <2>0, TakenStep DEF Rounds
  <2>2. CASE NodeAllocated \/ NodeFails \/ StopReading
    <3>1. UNCHANGED <<pend, fifo>> /\ One(ppc' = "trigger") = One(ppc = "trigger")
      BY <2>2 DEF NodeAllocated, NodeFails, StopReading, Arrive, One
    <3> QED
      BY <1>6, <2>1, <3>1
  <2>3. CASE PendAdd
    <3>1. /\ Len(pend') = Len(pend) + 1 /\ fifo' = fifo
          /\ One(ppc' = "trigger") = 1 /\ One(ppc = "trigger") = 0
      BY <1>0, <2>3 DEF PendAdd, IndInv, HandInv, One
    <3> QED
      BY <1>0, <1>1, <1>2, <1>3, <2>1, <3>1
  <2>4. CASE Trigger
    <3>1. /\ pend' = pend /\ fifo' = fifo + 1
          /\ One(ppc' = "trigger") = 0 /\ One(ppc = "trigger") = 1
      BY <2>4 DEF Trigger, One
    <3> QED
      BY <1>0, <1>1, <1>2, <1>3, <2>1, <3>1
  <2>5. ~TriggerFails
    BY DEF TriggerFails, Fault
  <2> QED
    BY <1>8, <2>2, <2>3, <2>4, <2>5 DEF Producer
<1>9. CASE Allocator
  <2>0. (\A w \in Workers : ~Parse(w)) /\ UNCHANGED <<pend, ppc>>
    BY <1>9
       DEF Allocator, TriggerRead, TriggerReadFails, AllocateTest,
           AllocateWork, AllocateWorkFails, Parse, StartJob, ListEmpty
  <2>1. Taken' = Taken
    BY <2>0, TakenStep
  <2>2. CASE TriggerRead \/ TriggerReadFails
    <3>1. /\ fifo' \in Nat /\ fifo <= fifo' + Batch
          /\ Rounds' = Rounds + 1
      BY <1>0, <2>2
         DEF TriggerRead, TriggerReadFails, Rounds, One, Batch, Smaller
    <3>2. One(ppc = "trigger") \in Nat
      BY DEF One
    <3>3. Batch * Rounds' = Batch * Rounds + Batch
      BY <1>1, <3>1
    <3> HIDE DEF BatchInv
    <3>4. Len(pend) <= fifo' + One(ppc = "trigger")
                         + (Batch * Rounds + Batch) + (Batch - 1) * Taken
      <4>1. /\ Len(pend) <= fifo + One(ppc = "trigger") + Batch * Rounds
                               + (Batch - 1) * Taken
            /\ Batch \in Nat
        BY <1>0, <1>2
      <4> QED
        BY <1>0, <1>1, <3>1, <3>2, <4>1, MoreRoom
    <3> QED
      BY <1>3, <2>0, <2>1, <3>3, <3>4
  <2>3. CASE AllocateTest
    <3>1. CASE ListEmpty(pend)
      BY <1>0, <1>5, <2>0, <2>3, <3>1 DEF AllocateTest, ListEmpty
    <3>2. CASE ~ListEmpty(pend)
      <4>1. fifo' = fifo /\ Rounds' = Rounds
        BY <2>3, <3>2 DEF AllocateTest, Rounds, One
      <4> QED
        BY <1>6, <2>0, <2>1, <4>1
    <3> QED
      BY <3>1, <3>2
  <2>4. CASE AllocateWork
    <3>1. fifo' = fifo /\ Rounds' = Rounds
      BY <1>0, <2>4 DEF AllocateWork, Rounds, One
    <3> QED
      BY <1>6, <2>0, <2>1, <3>1
  <2>5. ~AllocateWorkFails
    BY DEF AllocateWorkFails, Fault
  <2> QED
    BY <1>9, <2>2, <2>3, <2>4, <2>5 DEF Allocator
<1>10. CASE Scheduler
  <2>1. /\ \A w \in Workers : ~Parse(w)
        /\ UNCHANGED <<pend, fifo, ppc, apc, jobs>>
    BY <1>10 DEF Scheduler, WaitFull, Pop, PostEmpty, Execute, Parse, StartJob
  <2> QED
    BY <1>6, <2>1, TakenStep DEF Rounds
<1>11. CASE UNCHANGED vars
  <2>1. (\A w \in Workers : ~Parse(w)) /\ UNCHANGED <<pend, fifo, ppc, apc, jobs>>
    BY <1>0, <1>11 DEF vars, Parse, StartJob
  <2> QED
    BY <1>6, <2>1, TakenStep DEF Rounds
<1> QED
  BY <1>4, <1>7, <1>8, <1>9, <1>10, <1>11 DEF Next

\* No command is left behind alone: when nobody is at work, of the commands
\* stored one in a batch has been taken.
OneInABatchTaken ==
  Quiet => Len(pend) <= (Batch - 1) * (Len(executed) + Len(tasklist))

\* What merged notices can cost at most, for any sizes: task_allocate makes one
\* call for the bytes of one read (sys_task.c:41, 305), so the call takes one
\* command for up to a batch of them, and the rest stay.  No more is lost than
\* that, as long as the calls that pass a notice on succeed.
THEOREM MergedNoticesBounded ==
  Faults \subseteq {"node", "read"} => (Spec => []OneInABatchTaken)
<1> SUFFICES ASSUME Faults \subseteq {"node", "read"}
             PROVE  Spec => []OneInABatchTaken
  OBVIOUS
<1>1. Init => BatchInv
  <2> SUFFICES ASSUME Init PROVE BatchInv
    OBVIOUS
  <2>1. IndInv
    BY IndInit
  <2>2. [Next]_vars => Taken \in Nat
    BY <2>1, TakenStep
  <2>3. /\ Len(pend) = 0 /\ fifo = 0 /\ One(ppc = "trigger") = 0 /\ Rounds = 0
        /\ Len(executed) = 0 /\ Len(tasklist) = 0 /\ One(Fetched) = 0
    BY DEF Init, One, Rounds, Fetched
  <2>4. Cardinality(WorkersIn({"wait", "insert"})) \in Nat
    BY CountNat
  <2>5. Taken \in Nat /\ Batch \in Nat \ {0}
    BY <2>3, <2>4, SizesAssumption DEF Taken, Batch, Smaller
  <2>6. Batch * Rounds \in Nat /\ (Batch - 1) * Taken \in Nat
    BY <2>3, <2>5, OneMore
  <2> QED
    BY <2>3, <2>6 DEF BatchInv
<1>2. IndInv => Taken \in Nat
  <2> SUFFICES ASSUME IndInv PROVE Taken \in Nat
    OBVIOUS
  <2>1. /\ Len(executed) \in Nat /\ Len(tasklist) \in Nat /\ One(Fetched) \in Nat
        /\ Cardinality(WorkersIn({"wait", "insert"})) \in Nat
    BY CountNat DEF IndInv, TypeOK, One
  <2> QED
    BY <2>1 DEF Taken
<1>4. IndInv /\ BatchInv /\ [Next]_vars => BatchInv'
  BY BatchStep
<1>5. IndInv /\ BatchInv => OneInABatchTaken
  <2> SUFFICES ASSUME IndInv, BatchInv, Quiet
               PROVE  Len(pend) <= (Batch - 1) * (Len(executed) + Len(tasklist))
    BY DEF OneInABatchTaken
  <2>1. WorkersIn({"wait", "insert"}) = {}
    BY DEF Quiet, WorkersIn
  <2>2. Cardinality(WorkersIn({"wait", "insert"})) = 0 /\ One(Fetched) = 0
    BY <2>1, FS_EmptySet DEF Quiet, One, Fetched
  <2>3. Taken = Len(executed) + Len(tasklist)
    BY <2>2 DEF Taken, IndInv, TypeOK
  <2>4. Rounds = 0 /\ fifo = 0 /\ One(ppc = "trigger") = 0
    BY DEF Quiet, Rounds, One
  <2>5. Batch \in Nat \ {0} /\ Taken \in Nat
    BY <1>2, SizesAssumption DEF Batch, Smaller
  <2>6. Batch * Rounds = 0 /\ (Batch - 1) * Taken \in Nat
    <3>1. Batch * 0 = 0
      BY <2>5
    <3> QED
      BY <2>4, <2>5, <3>1, OneMore
  <2>7. Len(pend) <= (Batch - 1) * Taken
    BY <2>4, <2>6 DEF BatchInv
  <2> QED
    BY <2>3, <2>7
<1> QED
  BY <1>1, <1>4, <1>5, ManagerInvariant, PTL DEF Spec

\* Merging is the only reason why commands are stranded: if a read could take
\* one notice only, and notices were not lost by failing calls, none would be.
THEOREM SingleNoticesStrandNothing ==
  Faults \subseteq {"node", "read"} /\ Batch = 1 => (Spec => []NoStrandedCommand)
<1> SUFFICES ASSUME Faults \subseteq {"node", "read"}, Batch = 1
             PROVE  Spec => []NoStrandedCommand
  OBVIOUS
<1>1. IndInv /\ OneInABatchTaken => NoStrandedCommand
  <2> SUFFICES ASSUME IndInv, OneInABatchTaken, Quiet PROVE pend = <<>>
    BY DEF NoStrandedCommand
  <2>1. /\ pend \in Seq(Commands) /\ Len(executed) + Len(tasklist) \in Nat
    BY DEF IndInv, TypeOK
  <2>2. (Batch - 1) * (Len(executed) + Len(tasklist)) = 0
    <3>1. \A n \in Nat : (1 - 1) * n = 0
      OBVIOUS
    <3> QED
      BY <2>1, <3>1
  <2>3. Len(pend) <= 0
    BY <2>2 DEF OneInABatchTaken
  <2> QED
    BY <2>1, <2>3
<1> QED
  BY <1>1, ManagerInvariant, MergedNoticesBounded, PTL

\* The scheduler aborts because of a field that nobody has written and for no
\* other reason: with calloc in the place of malloc in task_parse
\* (sys_task.c:216), or with dev_latest set, task_node_recycle frees what it
\* should (265).
THEOREM ClearedFieldFreesNothingElse ==
  Leftover \subseteq {"zero"} => (Spec => []RecycleFreesNothingElse)
<1> SUFFICES ASSUME Leftover \subseteq {"zero"}
             PROVE  Spec => []RecycleFreesNothingElse
  OBVIOUS
<1>1. Init => RecycleFreesNothingElse
  BY DEF Init, RecycleFreesNothingElse
<1>2. IndInv /\ RecycleFreesNothingElse /\ [Next]_vars => RecycleFreesNothingElse'
  <2> SUFFICES ASSUME IndInv, RecycleFreesNothingElse, [Next]_vars
               PROVE  RecycleFreesNothingElse'
    OBVIOUS
  <2>1. CASE Execute
    <3>1. stask \in Task
      BY <2>1 DEF Execute, IndInv, HandInv
    <3>2. stask.dev_latest = "zero"
      BY <3>1 DEF Task
    <3> QED
      BY <2>1, <3>2 DEF Execute, RecycleFreesNothingElse
  <2>2. CASE WaitFull \/ Pop \/ PostEmpty
    BY <2>2 DEF WaitFull, Pop, PostEmpty, RecycleFreesNothingElse
  <2>3. CASE Producer \/ Allocator \/ (\E w \in Workers : Worker(w)) \/ UNCHANGED vars
    <3>1. UNCHANGED spc
      BY <2>3
         DEF Producer, NodeAllocated, NodeFails, StopReading, PendAdd, Trigger,
             TriggerFails, Allocator, TriggerRead, TriggerReadFails,
             AllocateTest, AllocateWork, AllocateWorkFails, Worker, Parse,
             ParseFindsNothing, ParseFails, WaitEmpty, Insert, PostFull,
             schedulerVars, vars
    <3> QED
      BY <3>1 DEF RecycleFreesNothingElse
  <2> QED
    BY <2>1, <2>2, <2>3 DEF Next, Scheduler
<1> QED
  BY <1>1, <1>2, ManagerInvariant, PTL DEF Spec

-----------------------------------------------------------------------------
(* How early a command may be executed                                     *)

\* A function has no more values than arguments.
LEMMA RangeCount ==
  ASSUME NEW D, IsFiniteSet(D), NEW T, NEW f \in [D -> T]
  PROVE  /\ IsFiniteSet(Range(f))
         /\ Cardinality(Range(f)) \in Nat
         /\ Cardinality(Range(f)) <= Cardinality(D)
<1>1. f \in Surjection(D, Range(f))
  BY DEF Surjection, Range
<1>2. IsFiniteSet(Range(f)) /\ Cardinality(Range(f)) <= Cardinality(D)
  BY <1>1, FS_Surjection DEF ExistsSurjection
<1> QED
  BY <1>2, FS_CardinalityType

\* The numbers up to n.
LEMMA UpTo == ASSUME NEW n \in Nat PROVE IsFiniteSet(1..n) /\ Cardinality(1..n) = n
<1>1. IsFiniteSet(1..n) /\ Cardinality(1..n) = IF 1 > n THEN 0 ELSE n - 1 + 1
  BY FS_Interval
<1> QED
  BY <1>1

\* No more elements than in both parts together.
LEMMA UnionCount ==
  ASSUME NEW S, IsFiniteSet(S), NEW T, IsFiniteSet(T),
         NEW m \in Nat, NEW n \in Nat, Cardinality(S) <= m, Cardinality(T) <= n
  PROVE  IsFiniteSet(S \cup T) /\ Cardinality(S \cup T) <= m + n
<1>1. /\ IsFiniteSet(S \cup T)
      /\ Cardinality(S \cup T)
           = Cardinality(S) + Cardinality(T) - Cardinality(S \cap T)
  BY FS_Union
<1>2. Cardinality(S) \in Nat /\ Cardinality(T) \in Nat
  BY FS_CardinalityType
<1>3. Cardinality(S \cap T) \in Nat
  <2>1. S \cap T \in SUBSET S
    OBVIOUS
  <2> QED
    BY <2>1, FS_Subset, FS_CardinalityType
<1> QED
  BY <1>1, <1>2, <1>3

\* The length of what has been scheduled, and a bound for how many places a
\* command can be ahead of its turn: the other pool threads may each hold one
\* that arrived before it, and some may have been lost.
LineLength == Len(executed) + One(Fetched) + Len(tasklist)
Lead == Cardinality(dropped) + NumWorkers - 1

\* The commands up to one that a pool thread holds are in the line, in hands,
\* or lost: so it cannot be far ahead of its turn when it is inserted.
LEMMA FewAhead ==
  ASSUME IndInv, OrderInv, OneInv, NEW w \in Workers, wtask[w] \in Task
  PROVE  wtask[w].taskcom <= LineLength + 1 + Lead
<1> DEFINE d == wtask[w].taskcom
           hands == [v \in Workers |-> wtask[v].taskcom]
           list == [i \in DOMAIN tasklist |-> tasklist[i].taskcom]
           fetched == IF Fetched THEN {stask.taskcom} ELSE {}
<1>0. /\ tasklist \in Seq(Task) /\ executed \in Seq(Commands)
      /\ Len(tasklist) \in Nat /\ Len(executed) \in Nat
      /\ d \in Commands /\ d \in Nat \ {0} /\ NumWorkers \in Nat \ {0}
      /\ dropped \subseteq Commands /\ d \in InHand
  BY SizesAssumption DEF IndInv, TypeOK, Task, Commands, InHand
<1>1. /\ IsFiniteSet(Range(hands)) /\ Cardinality(Range(hands)) <= NumWorkers
  <2>1. IsFiniteSet(Workers) /\ Cardinality(Workers) = NumWorkers
    BY <1>0, UpTo DEF Workers
  <2>2. hands \in [Workers -> Range(hands)]
    BY DEF Range
  <2> HIDE DEF hands
  <2> QED
    BY <2>1, <2>2, RangeCount
<1>2. /\ IsFiniteSet(Range(list)) /\ Cardinality(Range(list)) <= Len(tasklist)
  <2>1. DOMAIN tasklist = 1..Len(tasklist)
    BY <1>0
  <2>2. IsFiniteSet(DOMAIN tasklist) /\ Cardinality(DOMAIN tasklist) = Len(tasklist)
    BY <1>0, <2>1, UpTo
  <2>3. list \in [DOMAIN tasklist -> Range(list)]
    BY DEF Range
  <2> HIDE DEF list
  <2> QED
    BY <2>2, <2>3, RangeCount
<1>3. /\ IsFiniteSet(Range(executed))
      /\ Cardinality(Range(executed)) <= Len(executed)
  <2>1. DOMAIN executed = 1..Len(executed) /\ executed \in [DOMAIN executed -> Commands]
    BY <1>0
  <2>2. IsFiniteSet(DOMAIN executed) /\ Cardinality(DOMAIN executed) = Len(executed)
    BY <1>0, <2>1, UpTo
  <2> QED
    BY <2>1, <2>2, RangeCount
<1>4. /\ IsFiniteSet(fetched) /\ Cardinality(fetched) <= One(Fetched)
      /\ One(Fetched) \in Nat
  <2>1. CASE Fetched
    <3>1. fetched = {stask.taskcom} /\ One(Fetched) = 1
      BY <2>1 DEF One
    <3>2. IsFiniteSet({stask.taskcom}) /\ Cardinality({stask.taskcom}) = 1
      BY FS_Singleton
    <3> HIDE DEF fetched
    <3> QED
      BY <3>1, <3>2
  <2>2. CASE ~Fetched
    BY <2>2, FS_EmptySet DEF One
  <2> QED
    BY <2>1, <2>2
<1>5. IsFiniteSet(dropped) /\ Cardinality(dropped) \in Nat
  <2>1. IsFiniteSet(Commands)
    BY SizesAssumption, FS_Interval DEF Commands
  <2> QED
    BY <1>0, <2>1, FS_Subset, FS_CardinalityType
<1> DEFINE line == (Range(executed) \cup fetched) \cup Range(list)
           all == (line \cup Range(hands)) \cup dropped
<1>6. 1..d \subseteq all
  <2> SUFFICES ASSUME NEW c \in 1..d PROVE c \in all
    OBVIOUS
  <2>1. c \in Commands /\ c \in Nat \ {0}
    BY <1>0, SizesAssumption DEF Commands
  <2>2. Range(hands) = {wtask[v].taskcom : v \in Workers}
    BY DEF Range
  <2>3. Range(list) = {tasklist[i].taskcom : i \in DOMAIN tasklist}
    BY DEF Range
  <2>4. stask.taskcom = c => c \in fetched
    BY <2>1 DEF OneInv, EmptyHands, Fetched, NoTask, IndInv, TypeOK, SchedulerStates
  <2>5. CASE c = d
    BY <2>2, <2>5
  <2>6. CASE c < d
    <3>1. c \in Scheduled \cup dropped \/ \E v \in Workers : wtask[v].taskcom = c
      BY <1>0, <2>1, <2>6, OvertakenInHand
    <3> HIDE DEF hands, list, fetched
    <3> QED
      BY <2>2, <2>3, <2>4, <3>1 DEF Scheduled
  <2> QED
    BY <1>0, <2>1, <2>5, <2>6
<1> HIDE DEF hands, list, fetched
<1>7. /\ IsFiniteSet(all)
      /\ Cardinality(all)
           <= (((Len(executed) + One(Fetched)) + Len(tasklist)) + NumWorkers)
                + Cardinality(dropped)
  <2>1. /\ IsFiniteSet(Range(executed) \cup fetched)
        /\ Cardinality(Range(executed) \cup fetched) <= Len(executed) + One(Fetched)
    BY <1>0, <1>3, <1>4, UnionCount
  <2>2. /\ IsFiniteSet(line)
        /\ Cardinality(line) <= (Len(executed) + One(Fetched)) + Len(tasklist)
    <3>1. Len(executed) + One(Fetched) \in Nat
      BY <1>0, <1>4
    <3> QED
      BY <1>0, <1>2, <2>1, <3>1, UnionCount
  <2> HIDE DEF line
  <2>3. /\ IsFiniteSet(line \cup Range(hands))
        /\ Cardinality(line \cup Range(hands))
             <= ((Len(executed) + One(Fetched)) + Len(tasklist)) + NumWorkers
    <3>1. (Len(executed) + One(Fetched)) + Len(tasklist) \in Nat
      BY <1>0, <1>4
    <3> QED
      BY <1>0, <1>1, <2>2, <3>1, UnionCount
  <2>4. ((Len(executed) + One(Fetched)) + Len(tasklist)) + NumWorkers \in Nat
    BY <1>0, <1>4
  <2>5. Cardinality(dropped) <= Cardinality(dropped)
    BY <1>5
  <2> QED
    BY <1>5, <2>3, <2>4, <2>5, UnionCount
<1>8. Cardinality(1..d) = d
  BY <1>0, UpTo
<1> HIDE DEF all
<1>9. d <= Cardinality(all) /\ Cardinality(all) \in Nat
  <2>1. (1..d) \in SUBSET all
    BY <1>6
  <2>2. Cardinality(1..d) <= Cardinality(all)
    BY <1>7, <2>1, FS_Subset
  <2> QED
    BY <1>7, <1>8, <2>2, FS_CardinalityType
<1> HIDE DEF d
<1>10. d <= (((Len(executed) + One(Fetched)) + Len(tasklist)) + NumWorkers)
              + Cardinality(dropped)
  BY <1>0, <1>4, <1>5, <1>7, <1>9
<1>11. d <= LineLength + 1 + Lead
  BY <1>0, <1>4, <1>5, <1>10 DEF LineLength, Lead
<1> QED
  BY <1>11 DEF d

\* No place in the line has a command that is further ahead than Lead.
LeadInv ==
  /\ \A i \in DOMAIN executed : executed[i] <= i + Lead
  /\ Fetched => stask.taskcom <= Len(executed) + 1 + Lead
  /\ \A i \in DOMAIN tasklist :
       tasklist[i].taskcom <= Len(executed) + One(Fetched) + i + Lead

\* What is lost adds to the lead: it never shrinks.
LEMMA LeadGrows ==
  ASSUME IndInv, [Next]_vars
  PROVE  Lead \in Nat /\ Lead' \in Nat /\ Lead <= Lead'
<1>1. IsFiniteSet(Commands)
  BY SizesAssumption, UpTo DEF Commands
<1>2. dropped \in SUBSET Commands
  BY DEF IndInv, TypeOK
<1>3. dropped' \in SUBSET Commands /\ dropped \in SUBSET dropped'
  <2>1. CASE NodeFails
    <3>1. arrived' \in Commands
      BY <2>1, SizesAssumption DEF NodeFails, Arrive, IndInv, TypeOK, Commands
    <3> QED
      BY <1>2, <2>1, <3>1 DEF NodeFails
  <2>2. CASE ~NodeFails
    <3>1. UNCHANGED dropped
      BY <2>2
         DEF Next, Producer, NodeAllocated, StopReading, PendAdd, Trigger,
             TriggerFails, Allocator, TriggerRead, TriggerReadFails,
             AllocateTest, AllocateWork, AllocateWorkFails, Worker, Parse,
             ParseFindsNothing, ParseFails, WaitEmpty, Insert, PostFull,
             Scheduler, WaitFull, Pop, PostEmpty, Execute, producerVars, vars
    <3> QED
      BY <1>2, <3>1
  <2> QED
    BY <2>1, <2>2
<1>4. /\ IsFiniteSet(dropped) /\ Cardinality(dropped) \in Nat
      /\ IsFiniteSet(dropped') /\ Cardinality(dropped') \in Nat
  BY <1>1, <1>2, <1>3, FS_Subset, FS_CardinalityType
<1>5. Cardinality(dropped) <= Cardinality(dropped')
  BY <1>3, <1>4, FS_Subset
<1>6. NumWorkers \in Nat \ {0}
  BY SizesAssumption
<1>7. Lead' = Cardinality(dropped') + NumWorkers - 1
  BY DEF Lead
<1> QED
  BY <1>4, <1>5, <1>6, <1>7 DEF Lead

\* A larger lead allows more.
LEMMA Weaken ==
  ASSUME NEW n \in Nat, NEW m \in Nat, NEW a \in Nat, NEW b \in Nat,
         a <= b, n <= m + a
  PROVE  n <= m + b
OBVIOUS

\* The entries of the line are commands, and commands are numbers.
LEMMA LineTypes ==
  ASSUME IndInv
  PROVE  /\ Len(executed) \in Nat /\ One(Fetched) \in Nat
         /\ \A i \in DOMAIN executed : i \in Nat /\ executed[i] \in Nat
         /\ \A i \in DOMAIN tasklist : i \in Nat /\ tasklist[i].taskcom \in Nat
         /\ Fetched => stask.taskcom \in Nat
<1>1. executed \in Seq(Commands) /\ tasklist \in Seq(Task)
  BY DEF IndInv, TypeOK
<1>2. Commands \subseteq Nat
  BY SizesAssumption DEF Commands
<1>3. ASSUME NEW i \in DOMAIN executed PROVE i \in Nat /\ executed[i] \in Nat
  <2>1. i \in Nat /\ executed[i] \in Commands
    BY <1>1
  <2> QED
    BY <1>2, <2>1
<1>4. ASSUME NEW i \in DOMAIN tasklist
      PROVE  i \in Nat /\ tasklist[i].taskcom \in Nat
  <2>1. i \in Nat /\ tasklist[i] \in Task
    BY <1>1
  <2> QED
    BY <1>2, <2>1 DEF Task
<1>5. Fetched => stask.taskcom \in Nat
  BY <1>2 DEF IndInv, HandInv, Fetched, Task
<1> QED
  BY <1>1, <1>3, <1>4, <1>5 DEF One

\* A step that leaves the line as it is.
LEMMA LeadKept ==
  ASSUME IndInv, LeadInv, [Next]_vars, UNCHANGED <<executed, tasklist, stask>>,
         Fetched' <=> Fetched
  PROVE  LeadInv'
<1>0. Lead \in Nat /\ Lead' \in Nat /\ Lead <= Lead'
  BY LeadGrows
<1>1. One(Fetched)' = One(Fetched)
  BY DEF One
<1>3. ASSUME NEW i \in DOMAIN executed PROVE executed[i] <= i + Lead'
  <2>1. executed[i] \in Nat /\ i \in Nat
    BY LineTypes
  <2>2. executed[i] <= i + Lead
    BY DEF LeadInv
  <2> QED
    BY <1>0, <2>1, <2>2, Weaken
<1>4. ASSUME Fetched PROVE stask.taskcom <= Len(executed) + 1 + Lead'
  <2>1. stask.taskcom \in Nat /\ Len(executed) + 1 \in Nat
    BY <1>4, LineTypes
  <2>2. stask.taskcom <= (Len(executed) + 1) + Lead
    BY <1>4 DEF LeadInv
  <2> QED
    BY <1>0, <2>1, <2>2, Weaken
<1>5. ASSUME NEW i \in DOMAIN tasklist
      PROVE  tasklist[i].taskcom <= Len(executed) + One(Fetched) + i + Lead'
  <2>1. tasklist[i].taskcom \in Nat /\ Len(executed) + One(Fetched) + i \in Nat
    BY LineTypes
  <2>2. tasklist[i].taskcom <= (Len(executed) + One(Fetched) + i) + Lead
    BY DEF LeadInv
  <2> QED
    BY <1>0, <2>1, <2>2, Weaken
<1> QED
  BY <1>1, <1>3, <1>4, <1>5 DEF LeadInv

\* A step that keeps what has been lost keeps the lead.
LEMMA LeadSame == ASSUME UNCHANGED dropped PROVE Lead' = Lead
BY DEF Lead

\* A command is appended to the line.
LEMMA LeadInsert ==
  ASSUME IndInv, OrderInv, OneInv, LeadInv, [Next]_vars,
         NEW w \in Workers, Insert(w)
  PROVE  LeadInv'
<1>1. /\ tasklist' = Append(tasklist, wtask[w]) /\ wtask[w] \in Task
      /\ UNCHANGED <<executed, stask, spc, dropped>>
  BY DEF Insert, IndInv, HandInv, schedulerVars, producerVars
<1>2. (Fetched' <=> Fetched) /\ One(Fetched)' = One(Fetched) /\ Lead' = Lead
  BY <1>1, LeadSame DEF Fetched, One
<1>3. /\ tasklist \in Seq(Task) /\ Len(tasklist) \in Nat
      /\ DOMAIN tasklist' = 1..(Len(tasklist) + 1)
      /\ tasklist'[Len(tasklist) + 1] = wtask[w]
      /\ \A i \in 1..Len(tasklist) : tasklist'[i] = tasklist[i]
      /\ DOMAIN tasklist = 1..Len(tasklist)
  <2>1. tasklist \in Seq(Task)
    BY DEF IndInv, TypeOK
  <2> QED
    BY <1>1, <2>1
<1>4. wtask[w].taskcom <= LineLength + 1 + Lead
  BY <1>1, FewAhead
<1>5. /\ Len(executed) \in Nat /\ One(Fetched) \in Nat
      /\ Lead \in Nat
  BY LineTypes, LeadGrows
<1>6. ASSUME NEW i \in DOMAIN tasklist'
      PROVE  tasklist'[i].taskcom <= Len(executed) + One(Fetched) + i + Lead
  <2>1. CASE i \in 1..Len(tasklist)
    BY <1>3, <2>1 DEF LeadInv
  <2>2. CASE i = Len(tasklist) + 1
    BY <1>3, <1>4, <1>5, <2>2 DEF LineLength
  <2> QED
    BY <1>3, <2>1, <2>2
<1> QED
  BY <1>1, <1>2, <1>6 DEF LeadInv

\* The scheduler takes the first of the list: it stays in its place.
LEMMA LeadPop ==
  ASSUME IndInv, LeadInv, Pop, tasklist # <<>>
  PROVE  LeadInv'
<1>1. /\ stask' = Head(tasklist) /\ tasklist' = Tail(tasklist)
      /\ spc = "pop" /\ spc' = "post" /\ UNCHANGED <<executed, dropped>>
  BY DEF Pop, ListEmpty, producerVars
<1>2. Fetched' /\ ~Fetched /\ Lead' = Lead
  BY <1>1, LeadSame DEF Fetched
<1>3. One(Fetched)' = 1 /\ One(Fetched) = 0
  BY <1>2 DEF One
<1>4. /\ 1 \in DOMAIN tasklist /\ stask' = tasklist[1]
      /\ \A i \in DOMAIN tasklist' :
           i \in Nat /\ i + 1 \in DOMAIN tasklist /\ tasklist'[i] = tasklist[i + 1]
  <2>1. tasklist \in Seq(Task)
    BY DEF IndInv, TypeOK
  <2>2. ASSUME NEW i \in DOMAIN tasklist'
        PROVE  i \in Nat /\ i + 1 \in DOMAIN tasklist /\ tasklist'[i] = tasklist[i + 1]
    BY <1>1, <2>1
  <2> QED
    BY <1>1, <2>1, <2>2
<1>5. Len(executed) \in Nat
  BY LineTypes
<1>6. stask'.taskcom <= Len(executed) + 1 + Lead
  <2>1. tasklist[1].taskcom <= Len(executed) + One(Fetched) + 1 + Lead
    BY <1>4 DEF LeadInv
  <2>2. Len(executed) + One(Fetched) + 1 = Len(executed) + 1
    BY <1>3, <1>5
  <2> QED
    BY <1>4, <2>1, <2>2
<1>7. ASSUME NEW i \in DOMAIN tasklist'
      PROVE  tasklist'[i].taskcom <= Len(executed) + 1 + i + Lead
  <2>1. tasklist[i + 1].taskcom <= Len(executed) + One(Fetched) + (i + 1) + Lead
    BY <1>4 DEF LeadInv
  <2>2. Len(executed) + One(Fetched) + (i + 1) = Len(executed) + 1 + i
    BY <1>3, <1>4, <1>5
  <2> QED
    BY <1>4, <2>1, <2>2
<1> QED
  BY <1>1, <1>2, <1>3, <1>6, <1>7 DEF LeadInv

\* The command goes from the scheduler's hand to the place it had.
LEMMA LeadExecute ==
  ASSUME IndInv, LeadInv, Execute
  PROVE  LeadInv'
<1>1. /\ executed' = Append(executed, stask.taskcom) /\ spc = "execute"
      /\ spc' \in {"wait", "aborted"} /\ UNCHANGED <<tasklist, dropped>>
      /\ stask.taskcom \in Commands
  BY DEF Execute, IndInv, HandInv, Task, listVars, producerVars
<1>2. Fetched /\ ~Fetched' /\ Lead' = Lead
  BY <1>1, LeadSame DEF Fetched
<1>3. One(Fetched)' = 0 /\ One(Fetched) = 1
  BY <1>2 DEF One
<1>4. /\ Len(executed) \in Nat /\ Len(executed') = Len(executed) + 1
      /\ DOMAIN executed = 1..Len(executed)
      /\ DOMAIN executed' = 1..(Len(executed) + 1)
      /\ executed'[Len(executed) + 1] = stask.taskcom
      /\ \A i \in 1..Len(executed) : executed'[i] = executed[i]
  <2>1. executed \in Seq(Commands)
    BY DEF IndInv, TypeOK
  <2> QED
    BY <1>1, <2>1
<1>5. ASSUME NEW i \in DOMAIN executed' PROVE executed'[i] <= i + Lead
  <2>1. CASE i \in 1..Len(executed)
    BY <1>4, <2>1 DEF LeadInv
  <2>2. CASE i = Len(executed) + 1
    BY <1>2, <1>4, <2>2 DEF LeadInv
  <2> QED
    BY <1>4, <2>1, <2>2
<1>6. ASSUME NEW i \in DOMAIN tasklist
      PROVE  tasklist[i].taskcom <= Len(executed') + 0 + i + Lead
  <2>1. tasklist[i].taskcom <= Len(executed) + One(Fetched) + i + Lead
    BY DEF LeadInv
  <2>2. Len(executed) + One(Fetched) + i = Len(executed') + 0 + i
    BY <1>3, <1>4, LineTypes
  <2> QED
    BY <2>1, <2>2
<1> QED
  BY <1>1, <1>2, <1>3, <1>5, <1>6 DEF LeadInv

\* Each step keeps the lead within its bound.
LEMMA LeadStep ==
  ASSUME IndInv, OrderInv, OneInv, LeadInv, [Next]_vars
  PROVE  LeadInv'
<1>1. CASE Producer \/ Allocator \/ UNCHANGED vars
  <2>1. UNCHANGED <<executed, tasklist, stask, spc>>
    BY <1>1
       DEF Producer, NodeAllocated, NodeFails, StopReading, PendAdd, Trigger,
           TriggerFails, Allocator, TriggerRead, TriggerReadFails,
           AllocateTest, AllocateWork, AllocateWorkFails, listVars,
           schedulerVars, vars
  <2> QED
    BY <2>1, LeadKept DEF Fetched
<1>2. ASSUME NEW w \in Workers, Worker(w) PROVE LeadInv'
  <2>1. CASE Insert(w)
    BY <2>1, LeadInsert
  <2>2. CASE ~Insert(w)
    <3>1. UNCHANGED <<executed, tasklist, stask, spc>>
      BY <1>2, <2>2
         DEF Worker, Parse, ParseFindsNothing, ParseFails, WaitEmpty, PostFull,
             listVars, schedulerVars
    <3> QED
      BY <3>1, LeadKept DEF Fetched
  <2> QED
    BY <2>1, <2>2
<1>3. CASE WaitFull \/ PostEmpty
  <2>1. UNCHANGED <<executed, tasklist, stask>> /\ (Fetched' <=> Fetched)
    BY <1>3 DEF WaitFull, PostEmpty, Fetched
  <2> QED
    BY <2>1, LeadKept
<1>4. CASE Pop
  <2>1. tasklist # <<>>
    BY <1>4, CountNat DEF Pop, IndInv, TypeOK, SemBalance, One
  <2> QED
    BY <1>4, <2>1, LeadPop
<1>5. CASE Execute
  BY <1>5, LeadExecute
<1> QED
  BY <1>1, <1>2, <1>3, <1>4, <1>5 DEF Next, Scheduler

\* No command is executed more than Lead places before its turn.
TurnKept ==
  \A i \in DOMAIN executed :
    executed[i] <= i + Cardinality(dropped) + (NumWorkers - 1)

\* task_parse and task_schedule_add are not one step (sys_task.c:253, 257), so
\* pool threads overtake one another; but what is overtaken is in a hand, so a
\* command is executed at most NumWorkers - 1 places before its turn among the
\* commands stored, however many arrive.
THEOREM CommandsKeepTheirTurn == Spec => []TurnKept
<1>1. Init => LeadInv
  BY DEF Init, LeadInv, Fetched
<1>2. IndInv /\ OrderInv /\ OneInv /\ LeadInv /\ [Next]_vars => LeadInv'
  BY LeadStep
<1>3. IndInv /\ LeadInv => TurnKept
  <2> SUFFICES ASSUME IndInv, LeadInv, NEW i \in DOMAIN executed
               PROVE  executed[i] <= i + Cardinality(dropped) + (NumWorkers - 1)
    BY DEF TurnKept
  <2>1. i \in Nat /\ executed[i] \in Nat /\ NumWorkers \in Nat
    BY LineTypes, SizesAssumption
  <2>2. Cardinality(dropped) \in Nat
    <3>1. IsFiniteSet(Commands) /\ dropped \in SUBSET Commands
      BY SizesAssumption, UpTo DEF Commands, IndInv, TypeOK
    <3> QED
      BY <3>1, FS_Subset, FS_CardinalityType
  <2>3. executed[i] <= i + (Cardinality(dropped) + NumWorkers - 1)
    BY DEF LeadInv, Lead
  <2> QED
    BY <2>1, <2>2, <2>3
<1> QED
  BY <1>1, <1>2, <1>3, ManagerInvariant, OrderInvariant, OneInvariant, PTL DEF Spec

-----------------------------------------------------------------------------
(* What a standstill looks like                                            *)

\* Nobody can make a step, unless a command arrives, the reader of the port
\* stops or a call fails: each thread waits for a byte in the pipe, for room
\* in it, for a semaphore or for a job of the pool.
NobodyMoves ==
  /\ ppc # "add"
  /\ ppc = "trigger" => fifo = PipeCap
  /\ apc = "read" /\ fifo = 0
  /\ \A w \in Workers : \/ wpc[w] = "idle" /\ jobs = 0
                        \/ wpc[w] = "wait" /\ empty = 0
  /\ spc = "wait" /\ full = 0

\* Then nobody waits in the middle of his work, the schedule list is empty, and
\* each command that has arrived has been executed, has had no node, or is in
\* the pending list still.
StandstillIsRest ==
  NobodyMoves =>
    /\ ppc # "trigger"
    /\ jobs = 0 /\ WorkersIn({"idle"}) = Workers
    /\ tasklist = <<>>
    /\ \A c \in 1..arrived : c \in dropped \cup Range(pend) \cup Range(executed)

\* The pipe, the pool and the two semaphores never bring the task manager to a
\* halt with work begun: what can be left undone, whatever fails, is what no
\* thread has looked at.
THEOREM NothingLeftHalfway == Spec => []StandstillIsRest
<1>1. IndInv /\ OneInv => StandstillIsRest
  <2> SUFFICES ASSUME IndInv, OneInv, NobodyMoves PROVE StandstillIsRest
    BY DEF StandstillIsRest
  <2>1. ppc # "trigger"
    BY SizesAssumption DEF NobodyMoves
  <2>2. /\ WorkersIn({"post"}) = {} /\ WorkersIn({"insert"}) = {}
    BY DEF NobodyMoves, WorkersIn
  <2>3. /\ Cardinality(WorkersIn({"post"})) = 0
        /\ Cardinality(WorkersIn({"insert"})) = 0
    BY <2>2, FS_EmptySet
  <2>4. Len(tasklist) = 0
    BY <2>3 DEF IndInv, SemBalance, One, NobodyMoves
  <2>5. tasklist = <<>>
    BY <2>4 DEF IndInv, TypeOK
  <2>6. empty = TASK_MAXNUM
    BY <2>3, <2>4, SizesAssumption
       DEF IndInv, TypeOK, SemBalance, One, NobodyMoves
  <2>7. \A w \in Workers : wpc[w] = "idle" /\ jobs = 0
    BY <2>6, SizesAssumption DEF NobodyMoves
  <2>8. jobs = 0 /\ WorkersIn({"idle"}) = Workers
    <3>1. 1 \in Workers
      BY SizesAssumption DEF Workers
    <3> QED
      BY <2>7, <3>1 DEF WorkersIn
  <2>9. ASSUME NEW c \in 1..arrived,
               c \notin dropped, c \notin Range(pend), c \notin Range(executed)
        PROVE  FALSE
    <3>0. /\ wtask \in [Workers -> Task \cup {NoTask}]
          /\ c \in Nat \ {0} /\ arrived \in Nat /\ c \in Commands /\ c <= arrived
      BY SizesAssumption DEF IndInv, TypeOK, Commands
    <3>1. /\ \A w \in Workers : wtask[w].taskcom # c
          /\ stask.taskcom # c
      BY <2>7, <3>0 DEF OneInv, EmptyHands, NobodyMoves, NoTask
    <3>2. /\ {i \in DOMAIN pend : pend[i] = c} = {}
          /\ {w \in DOMAIN wtask : wtask[w].taskcom = c} = {}
          /\ {i \in DOMAIN tasklist : tasklist[i].taskcom = c} = {}
          /\ {i \in DOMAIN executed : executed[i] = c} = {}
      BY <2>5, <2>9, <3>0, <3>1 DEF Range
    <3>3. /\ InSeq(pend, c) = 0 /\ InSeq(executed, c) = 0
          /\ InTasks(wtask, c) = 0 /\ InTasks(tasklist, c) = 0
      BY <3>2, FS_EmptySet DEF InSeq, InTasks
    <3>4. /\ One(ppc = "add" /\ c = arrived) = 0 /\ One(c \in dropped) = 0
          /\ One(stask.taskcom = c) = 0 /\ One(c <= arrived) = 1
      BY <2>9, <3>0, <3>1 DEF One, NobodyMoves
    <3>5. PlacesOf(c) = 0
      BY <3>3, <3>4 DEF PlacesOf
    <3> QED
      BY <3>0, <3>4, <3>5, PlacesSum DEF OneInv, OnePlace
  <2> QED
    BY <2>1, <2>5, <2>8, <2>9 DEF StandstillIsRest
<1> QED
  BY <1>1, ManagerInvariant, OneInvariant, PTL

-----------------------------------------------------------------------------
(* The line of scheduled commands: executed, being executed, in the list   *)

\* The command at a place of the line, first to be executed first.
Lined(i) ==
  IF i <= Len(executed) THEN executed[i]
  ELSE IF Fetched /\ i = Len(executed) + 1 THEN stask.taskcom
  ELSE tasklist[i - (Len(executed) + One(Fetched))].taskcom

\* The line grows at its end only, by one command at a time, and no command
\* in it ever changes its place.
LineGrows ==
  /\ LineLength' \in {LineLength, LineLength + 1}
  /\ \A i \in 1..LineLength : Lined(i)' = Lined(i)

LineKept == [][LineGrows]_vars

\* What the step adds to the line stands behind all that is there.
LEMMA LineInsert ==
  ASSUME IndInv, NEW w \in Workers, Insert(w) PROVE LineGrows
<1>1. /\ tasklist' = Append(tasklist, wtask[w]) /\ UNCHANGED <<executed, stask>>
      /\ (Fetched' <=> Fetched) /\ One(Fetched)' = One(Fetched)
      /\ tasklist \in Seq(Task)
  BY DEF Insert, Fetched, One, IndInv, TypeOK, schedulerVars
<1>2. Len(executed) \in Nat /\ One(Fetched) \in Nat /\ Len(tasklist) \in Nat
  BY LineTypes, <1>1
<1>3. /\ Len(tasklist') = Len(tasklist) + 1
      /\ \A k \in 1..Len(tasklist) : tasklist'[k] = tasklist[k]
  BY <1>1
<1>4. LineLength' = LineLength + 1
  BY <1>1, <1>2, <1>3 DEF LineLength
<1>5. ASSUME NEW i \in 1..LineLength PROVE Lined(i)' = Lined(i)
  <2>1. CASE i <= Len(executed) \/ (Fetched /\ i = Len(executed) + 1)
    BY <1>1, <2>1 DEF Lined
  <2>2. CASE ~(i <= Len(executed)) /\ ~(Fetched /\ i = Len(executed) + 1)
    <3>1. i - (Len(executed) + One(Fetched)) \in 1..Len(tasklist)
      BY <1>2, <2>2 DEF LineLength, One
    <3>2. tasklist'[i - (Len(executed) + One(Fetched))]
            = tasklist[i - (Len(executed) + One(Fetched))]
      BY <1>3, <3>1
    <3> QED
      BY <1>1, <2>2, <3>2 DEF Lined
  <2> QED
    BY <2>1, <2>2
<1> QED
  BY <1>4, <1>5 DEF LineGrows

\* The first of the list becomes the one that is fetched.
LEMMA LinePop ==
  ASSUME IndInv, Pop, tasklist # <<>> PROVE LineGrows
<1>1. /\ stask' = Head(tasklist) /\ tasklist' = Tail(tasklist)
      /\ UNCHANGED executed /\ Fetched' /\ ~Fetched
      /\ tasklist \in Seq(Task)
  BY DEF Pop, ListEmpty, Fetched, IndInv, TypeOK
<1>2. Len(executed) \in Nat /\ One(Fetched) = 0 /\ One(Fetched)' = 1
  BY LineTypes, <1>1 DEF One
<1>3. /\ Len(tasklist) \in Nat \ {0} /\ Len(tasklist') = Len(tasklist) - 1
      /\ stask' = tasklist[1]
      /\ \A k \in 1..(Len(tasklist) - 1) : tasklist'[k] = tasklist[k + 1]
  BY <1>1
<1>4. LineLength' = LineLength /\ LineLength = Len(executed) + Len(tasklist)
  <2>1. LineLength = Len(executed) + 0 + Len(tasklist)
    BY <1>2 DEF LineLength
  <2>2. LineLength' = Len(executed) + 1 + Len(tasklist')
    BY <1>1, <1>2 DEF LineLength
  <2> QED
    BY <1>2, <1>3, <2>1, <2>2
<1>5. ASSUME NEW i \in 1..LineLength PROVE Lined(i)' = Lined(i)
  <2>1. CASE i <= Len(executed)
    BY <1>1, <2>1 DEF Lined
  <2>2. CASE i = Len(executed) + 1
    BY <1>1, <1>2, <1>3, <2>2 DEF Lined
  <2>3. CASE i > Len(executed) + 1
    <3> DEFINE k == i - (Len(executed) + 1)
    <3>1. k \in 1..(Len(tasklist) - 1) /\ k + 1 = i - (Len(executed) + 0)
      BY <1>2, <1>3, <1>4, <2>3
    <3>2. tasklist'[k] = tasklist[k + 1]
      BY <1>3, <3>1
    <3>3. Lined(i)' = tasklist'[k].taskcom
      <4>1. ~(i <= Len(executed)) /\ i # Len(executed) + 1
        BY <1>2, <1>4, <2>3
      <4>2. Lined(i)' = tasklist'[i - (Len(executed') + One(Fetched)')].taskcom
        BY <1>1, <4>1 DEF Lined
      <4> QED
        BY <1>1, <1>2, <4>2
    <3>4. Lined(i) = tasklist[i - (Len(executed) + 0)].taskcom
      BY <1>1, <1>2, <1>4, <2>3 DEF Lined
    <3> HIDE DEF k
    <3> QED
      BY <3>1, <3>2, <3>3, <3>4
  <2> QED
    BY <1>2, <1>4, <2>1, <2>2, <2>3
<1> QED
  BY <1>4, <1>5 DEF LineGrows

\* What was fetched is the last that has been executed.
LEMMA LineExecute == ASSUME IndInv, Execute PROVE LineGrows
<1>1. /\ executed' = Append(executed, stask.taskcom) /\ UNCHANGED tasklist
      /\ Fetched /\ ~Fetched' /\ executed \in Seq(Commands)
      /\ stask.taskcom \in Commands /\ tasklist \in Seq(Task)
  BY DEF Execute, Fetched, IndInv, TypeOK, HandInv, Task, listVars
<1>2. /\ Len(executed) \in Nat /\ One(Fetched) = 1 /\ One(Fetched)' = 0
      /\ Len(tasklist) \in Nat
  BY LineTypes, <1>1 DEF One
<1>3. /\ Len(executed') = Len(executed) + 1
      /\ executed'[Len(executed) + 1] = stask.taskcom
      /\ \A k \in 1..Len(executed) : executed'[k] = executed[k]
  BY <1>1
<1>4. LineLength' = LineLength
  <2>1. LineLength = Len(executed) + 1 + Len(tasklist)
    BY <1>2 DEF LineLength
  <2>2. LineLength' = Len(executed') + 0 + Len(tasklist)
    BY <1>1, <1>2 DEF LineLength
  <2> QED
    BY <1>2, <1>3, <2>1, <2>2
<1>5. ASSUME NEW i \in 1..LineLength PROVE Lined(i)' = Lined(i)
  <2>0. i \in Nat \ {0}
    BY <1>2 DEF LineLength
  <2>1. CASE i <= Len(executed)
    BY <1>2, <1>3, <2>0, <2>1 DEF Lined
  <2>2. CASE i = Len(executed) + 1
    BY <1>1, <1>2, <1>3, <2>2 DEF Lined
  <2>3. CASE i > Len(executed) + 1
    <3>1. ~(i <= Len(executed)) /\ ~(i <= Len(executed')) /\ i # Len(executed) + 1
      BY <1>2, <1>3, <2>0, <2>3
    <3>2. Len(executed') + One(Fetched)' = Len(executed) + One(Fetched)
      BY <1>2, <1>3
    <3> QED
      BY <1>1, <3>1, <3>2 DEF Lined
  <2> QED
    BY <1>2, <2>0, <2>1, <2>2, <2>3
<1> QED
  BY <1>2, <1>4, <1>5 DEF LineGrows

\* Once it is in the schedule list, a command is executed at the place it got
\* then, whichever threads add to the list meanwhile (sys_task.c:240, 257):
\* the order of execution is that of task_schedule_add.
THEOREM ScheduledInPlace == Spec => LineKept
<1>1. IndInv /\ [Next]_vars => LineGrows
  <2> SUFFICES ASSUME IndInv, [Next]_vars PROVE LineGrows
    OBVIOUS
  <2>1. CASE Pop
    <3>1. tasklist # <<>>
      BY <2>1, CountNat DEF Pop, IndInv, TypeOK, SemBalance, One
    <3> QED
      BY <2>1, <3>1, LinePop
  <2>2. CASE Execute
    BY <2>2, LineExecute
  <2>3. ASSUME NEW w \in Workers, Insert(w) PROVE LineGrows
    BY <2>3, LineInsert
  <2>4. CASE ~Pop /\ ~Execute /\ \A w \in Workers : ~Insert(w)
    <3>1. UNCHANGED <<executed, tasklist, stask>> /\ (Fetched' <=> Fetched)
      BY <2>4
         DEF Next, Producer, NodeAllocated, NodeFails, StopReading, PendAdd,
             Trigger, TriggerFails, Allocator, TriggerRead, TriggerReadFails,
             AllocateTest, AllocateWork, AllocateWorkFails, Worker, Parse,
             ParseFindsNothing, ParseFails, WaitEmpty, PostFull, Scheduler,
             WaitFull, PostEmpty, Fetched, listVars, schedulerVars, vars
    <3>2. One(Fetched)' = One(Fetched)
      BY <3>1 DEF One
    <3> QED
      BY <3>1, <3>2 DEF LineGrows, LineLength, Lined
  <2> QED
    BY <2>1, <2>2, <2>3, <2>4
<1> QED
  BY <1>1, ManagerInvariant, PTL DEF Spec, LineKept

=============================================================================
