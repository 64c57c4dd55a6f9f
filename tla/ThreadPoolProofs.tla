-------------------------- MODULE ThreadPoolProofs --------------------------
(***************************************************************************)
(* Safety of the thread pool for any number of workers, callers and jobs,  *)
(* and that it implements WorkQueue.                                       *)
(***************************************************************************)
EXTENDS ThreadPool, FiniteSetTheorems, SequenceTheorems,
        TLAPS

\* A node is in hand exactly while a caller links it or a worker runs it.
NodeInv ==
  /\ \A a \in Adders : apc[a] # "idle" <=> ajob[a] \in Jobs
  /\ \A w \in Workers : wpc[w] = "run" <=> wjob[w] \in Jobs

\* The mutex belongs to the worker that is between lock and unlock.
LockInv == \A w \in Workers : lock = w <=> wpc[w] \in Holding

\* What a worker has read under the mutex still holds.
SeenInv ==
  \A w \in Workers : /\ wpc[w] = "sleep" => queue = <<>>
                     /\ wpc[w] = "take" => queue # <<>>

\* How far the main thread is, and what that says of the workers.
StageInv ==
  /\ shutdown <=> mpc \notin {"create", "up"}
  /\ mpc = "create" => \A w \in Workers : w >= index => wpc[w] = "unborn"
  /\ \A w \in Workers : wpc[w] = "exited" => shutdown
  /\ NoSleeperAfterBroadcast
  /\ mpc \in {"up", "lock"} => index = 1
  /\ mpc = "join" => \A w \in Workers : w < index => wpc[w] = "exited"
  /\ mpc \in {"drain", "release", "gone"} =>
       \A w \in Workers : wpc[w] = "exited"

IndInv == TypeOK /\ NodeInv /\ LockInv /\ SeenInv /\ StageInv

-----------------------------------------------------------------------------
\* tpool_create brings its argument into range: there is a worker, and no
\* more than MaxNum of them.
THEOREM PoolSizeInRange == PoolSize \in 1..MaxNum
BY LimitsAssumption DEF PoolSize

\* The loops over the workers have a first and a last index.
LEMMA WorkersPositive ==
  PoolSize \in Nat /\ 1 \in Workers /\ PoolSize \in Workers
BY PoolSizeInRange, LimitsAssumption DEF Workers

\* There are finitely many workers.
LEMMA WorkersFinite == IsFiniteSet(Workers)
<1>1. 1 \in Int /\ PoolSize \in Int
  BY WorkersPositive
<1> QED
  BY <1>1, FS_Interval DEF Workers

\* A round of a loop of the main thread moves on by one worker or ends.
LEMMA LoopType ==
  ASSUME TypeOK, NEW next \in MainStates, Loop(next)
  PROVE  mpc' \in MainStates /\ index' \in Workers
BY WorkersPositive DEF TypeOK, Loop, Workers

\* pthread_cond_signal sends at most one waiting worker to the mutex.
LEMMA SignalMoves ==
  ASSUME TypeOK, Signal
  PROVE  /\ wpc' \in [Workers -> WorkerStates]
         /\ \A w \in Workers : \/ wpc'[w] = wpc[w]
                               \/ wpc[w] = "wait" /\ wpc'[w] = "lock"
BY DEF TypeOK, Signal, WorkersIn, WorkerStates

-----------------------------------------------------------------------------
\* The inductive invariant holds of the initial states.
LEMMA IndInit == Init => IndInv
<1> SUFFICES ASSUME Init PROVE IndInv
  OBVIOUS
<1> USE DEF Init
<1>1. TypeOK
  <2>1. queue \in Seq(Jobs) /\ accepted \in Seq(Jobs) /\ started \in Seq(Jobs)
    OBVIOUS
  <2>2. wpc \in [Workers -> WorkerStates] /\ apc \in [Adders -> AdderStates]
    BY DEF WorkerStates, AdderStates
  <2> QED
    BY <2>1, <2>2, WorkersPositive DEF TypeOK, MainStates
<1>2. NodeInv
  BY JobsAssumption DEF NodeInv
<1>3. LockInv /\ SeenInv
  BY NoOneAssumption DEF LockInv, SeenInv, Holding
<1>4. StageInv
  BY DEF StageInv, NoSleeperAfterBroadcast
<1> QED
  BY <1>1, <1>2, <1>3, <1>4 DEF IndInv

\* A step of the main thread keeps it.
LEMMA IndMain == ASSUME IndInv, Main PROVE IndInv'
<1> USE WorkersPositive, NoOneAssumption, JobsAssumption
    DEF IndInv, TypeOK, NodeInv, LockInv, SeenInv, StageInv, Holding,
        WorkerStates, AdderStates, MainStates, NoSleeperAfterBroadcast,
        WorkersIn, mainVars, adderVars, workerVars
<1>1. CASE CreateWorker
  BY <1>1 DEF CreateWorker, Loop, Workers
<1>2. CASE SetShutdown
  BY <1>2 DEF SetShutdown
<1>3. CASE Broadcast
  <2>1. \A w \in Workers : wpc[w] \notin Holding
    BY <1>3 DEF Broadcast
  <2>2. \A w \in Workers : wpc'[w] = IF wpc[w] = "wait" THEN "lock" ELSE wpc[w]
    BY <1>3 DEF Broadcast
  <2>3. TypeOK' /\ NodeInv' /\ LockInv' /\ SeenInv'
    BY <1>3, <2>2 DEF Broadcast
  <2>4. StageInv'
    BY <1>3, <2>1, <2>2 DEF Broadcast, Workers
  <2> QED
    BY <2>3, <2>4
<1>4. CASE Join
  BY <1>4 DEF Join, Loop, Workers
<1>5. CASE Drain
  <2>1. queue' \in Seq(Jobs) /\ heap' \in SUBSET Jobs
    <3>1. CASE queue = <<>>
      BY <1>5, <3>1 DEF Drain
    <3>2. CASE queue # <<>>
      <4>1. queue' = Tail(queue) /\ heap' = heap \ {Head(queue)}
        BY <1>5, <3>2 DEF Drain, Unlink, Free
      <4>2. Tail(queue) \in Seq(Jobs)
        BY <3>2, HeadTailProperties
      <4> QED
        BY <4>1, <4>2
    <3> QED
      BY <3>1, <3>2
  <2>2. mpc' \in {"drain", "release"} /\ mpc = "drain"
    BY <1>5 DEF Drain
  <2>3. TypeOK' /\ NodeInv' /\ LockInv'
    BY <1>5, <2>1, <2>2 DEF Drain
  <2>4. SeenInv' /\ StageInv'
    BY <1>5, <2>2 DEF Drain
  <2> QED
    BY <2>3, <2>4
<1>6. CASE Release
  BY <1>6 DEF Release
<1> QED
  BY <1>1, <1>2, <1>3, <1>4, <1>5, <1>6 DEF Main

\* A step of a caller of tpool_add_work keeps it.
LEMMA IndAdder == ASSUME IndInv, NEW a \in Adders, Adder(a) PROVE IndInv'
<1> USE NoOneAssumption, JobsAssumption
    DEF IndInv, TypeOK, NodeInv, LockInv, SeenInv, StageInv, Holding,
        WorkerStates, AdderStates, MainStates, NoSleeperAfterBroadcast,
        WorkersIn, mainVars, adderVars, workerVars
<1>1. ASSUME NEW j \in Jobs, AddAlloc(a, j)
      PROVE  IndInv'
  BY <1>1 DEF AddAlloc, Submit
<1>2. ASSUME NEW j \in Jobs, AddNoMemory(a, j)
      PROVE  IndInv'
  BY <1>2 DEF AddNoMemory, Submit
<1>3. CASE AddLink(a)
  <2>1. /\ wpc' \in [Workers -> WorkerStates]
        /\ \A w \in Workers : \/ wpc'[w] = wpc[w]
                              \/ wpc[w] = "wait" /\ wpc'[w] = "lock"
    BY <1>3, SignalMoves DEF AddLink
  <2>2. \A w \in Workers : wpc[w] \notin Holding
    BY <1>3 DEF AddLink
  <2>3. TypeOK' /\ NodeInv'
    BY <1>3, <2>1 DEF AddLink, Link, Late
  <2>4. LockInv' /\ SeenInv' /\ StageInv'
    BY <1>3, <2>1, <2>2 DEF AddLink
  <2> QED
    BY <2>3, <2>4
<1>4. CASE AddFault(a)
  BY <1>4 DEF AddFault, Late, TakenDown
<1> QED
  BY <1>1, <1>2, <1>3, <1>4 DEF Adder

\* A step of a worker keeps it.
LEMMA IndWorker == ASSUME IndInv, NEW w \in Workers, Worker(w) PROVE IndInv'
<1> USE NoOneAssumption, JobsAssumption
    DEF IndInv, TypeOK, NodeInv, LockInv, SeenInv, StageInv, Holding,
        WorkerStates, AdderStates, MainStates, NoSleeperAfterBroadcast,
        WorkersIn, mainVars, adderVars, workerVars
<1>1. CASE Lock(w)
  BY <1>1 DEF Lock
<1>2. CASE TestSleep(w)
  BY <1>2 DEF TestSleep
<1>3. CASE CondWait(w)
  BY <1>3 DEF CondWait
<1>4. CASE SpuriousWake(w)
  BY <1>4 DEF SpuriousWake
<1>5. CASE TestExit(w)
  BY <1>5 DEF TestExit
<1>6. CASE TestTake(w)
  BY <1>6 DEF TestTake
<1>7. CASE Take(w)
  BY <1>7 DEF Take, Unlink
<1>8. CASE Return(w)
  BY <1>8 DEF Return, Free
<1> QED
  BY <1>1, <1>2, <1>3, <1>4, <1>5, <1>6, <1>7, <1>8 DEF Worker

\* The state of the pool is always one that the invariant describes.
THEOREM PoolInvariant == Spec => []IndInv
<1>1. IndInv /\ [Next]_vars => IndInv'
  <2> SUFFICES ASSUME IndInv, [Next]_vars PROVE IndInv'
    OBVIOUS
  <2>1. CASE UNCHANGED vars
    BY <2>1 DEF vars, IndInv, TypeOK, NodeInv, LockInv, SeenInv, StageInv,
                NoSleeperAfterBroadcast, WorkersIn
  <2> QED
    BY <2>1, IndMain, IndAdder, IndWorker DEF Next
<1> QED
  BY <1>1, IndInit, PTL DEF Spec

-----------------------------------------------------------------------------
\* Every variable keeps its type.
THEOREM TypeCorrect == Spec => []TypeOK
BY PoolInvariant, PTL DEF IndInv

\* After the broadcast no worker sleeps or is about to.
THEOREM BroadcastReachesAll == Spec => []NoSleeperAfterBroadcast
BY PoolInvariant, PTL DEF IndInv, StageInv

\* tpool_destroy frees the queue and the pool when every worker has ended.
THEOREM DestroyIsAlone == Spec => []AloneAfterJoin
<1>1. IndInv => AloneAfterJoin
  BY NoOneAssumption
     DEF IndInv, TypeOK, StageInv, LockInv, Holding, AloneAfterJoin, WorkersIn
<1> QED
  BY <1>1, PoolInvariant, PTL

-----------------------------------------------------------------------------
(* No lost wake-up.                                                        *)

\* One worker more is on its way to the queue.
LEMMA OneMoreLooking ==
  ASSUME NEW w \in Workers, wpc[w] \notin Looking,
         WorkersIn(Looking)' = WorkersIn(Looking) \cup {w}
  PROVE  Cardinality(WorkersIn(Looking))'
           = Cardinality(WorkersIn(Looking)) + 1
<1>1. w \notin WorkersIn(Looking)
  BY DEF WorkersIn
<1>2. IsFiniteSet(WorkersIn(Looking))
  BY WorkersFinite, FS_Subset DEF WorkersIn
<1> QED
  BY <1>1, <1>2, FS_AddElement

\* One worker less is on its way to the queue.
LEMMA OneLessLooking ==
  ASSUME NEW w \in Workers, wpc[w] \in Looking,
         WorkersIn(Looking)' = WorkersIn(Looking) \ {w}
  PROVE  Cardinality(WorkersIn(Looking))'
           = Cardinality(WorkersIn(Looking)) - 1
<1>1. w \in WorkersIn(Looking)
  BY DEF WorkersIn
<1>2. IsFiniteSet(WorkersIn(Looking))
  BY WorkersFinite, FS_Subset DEF WorkersIn
<1> QED
  BY <1>1, <1>2, FS_RemoveElement

\* The numbers compared are numbers.
LEMMA LookingNat == Cardinality(WorkersIn(Looking)) \in Nat
<1>1. IsFiniteSet(WorkersIn(Looking))
  BY WorkersFinite, FS_Subset DEF WorkersIn
<1> QED
  BY <1>1, FS_CardinalityType

\* A step of the main thread adds a looking worker or shuts down.
LEMMA StrandedMain ==
  ASSUME IndInv, NoStrandedJob, Main
  PROVE  NoStrandedJob'
<1> USE DEF mainVars, adderVars, workerVars
<1>1. CASE CreateWorker
  <2> DEFINE w == index
  <2>1. w \in Workers /\ wpc[w] = "unborn" /\ wpc' = [wpc EXCEPT ![w] = "lock"]
    BY <1>1 DEF CreateWorker, IndInv, TypeOK, StageInv, Workers
  <2>2. WorkersIn(Looking)' = WorkersIn(Looking) \cup {w}
    BY <2>1 DEF WorkersIn, Looking, IndInv, TypeOK
  <2>3. Cardinality(WorkersIn(Looking))' = Cardinality(WorkersIn(Looking)) + 1
    BY <2>1, <2>2, OneMoreLooking DEF Looking
  <2>4. WorkersIn({"wait"})' = WorkersIn({"wait"})
    BY <2>1 DEF WorkersIn, IndInv, TypeOK
  <2>5. queue' = queue /\ shutdown' = shutdown /\ Len(queue) \in Nat
    BY <1>1 DEF CreateWorker, IndInv, TypeOK
  <2> QED
    BY <2>3, <2>4, <2>5, LookingNat DEF NoStrandedJob
<1>2. CASE SetShutdown
  BY <1>2 DEF SetShutdown, NoStrandedJob
<1>3. CASE Broadcast \/ Join \/ Drain \/ Release
  <2>1. shutdown /\ shutdown' = shutdown
    BY <1>3 DEF Broadcast, Join, Drain, Release, IndInv, StageInv
  <2> QED
    BY <2>1 DEF NoStrandedJob
<1> QED
  BY <1>1, <1>2, <1>3 DEF Main

\* A caller that adds a node wakes a worker, if one sleeps.
LEMMA StrandedAdder ==
  ASSUME IndInv, NoStrandedJob, NEW a \in Adders, Adder(a)
  PROVE  NoStrandedJob'
<1> USE DEF mainVars, adderVars, workerVars
<1>1. CASE AddLink(a)
  <2>1. queue \in Seq(Jobs) /\ Len(queue') = Len(queue) + 1
        /\ shutdown' = shutdown
    BY <1>1 DEF AddLink, Link, IndInv, TypeOK, NodeInv
  <2>2. CASE WorkersIn({"wait"}) = {}
    BY <1>1, <2>2 DEF AddLink, Signal, NoStrandedJob, WorkersIn
  <2>3. CASE WorkersIn({"wait"}) # {}
    <3>1. PICK w \in WorkersIn({"wait"}) : wpc' = [wpc EXCEPT ![w] = "lock"]
      BY <1>1, <2>3 DEF AddLink, Signal
    <3>2. w \in Workers /\ wpc[w] = "wait"
      BY <3>1 DEF WorkersIn
    <3>3. WorkersIn(Looking)' = WorkersIn(Looking) \cup {w}
      BY <3>1, <3>2 DEF WorkersIn, Looking, IndInv, TypeOK
    <3>4. Cardinality(WorkersIn(Looking))'
            = Cardinality(WorkersIn(Looking)) + 1
      BY <3>2, <3>3, OneMoreLooking DEF Looking
    <3> QED
      BY <2>1, <2>3, <3>4, LookingNat DEF NoStrandedJob
  <2> QED
    BY <2>2, <2>3
<1>2. CASE ~AddLink(a)
  <2>1. UNCHANGED <<queue, shutdown, wpc>>
    BY <1>2 DEF Adder, AddAlloc, AddNoMemory, AddFault
  <2> QED
    BY <2>1 DEF NoStrandedJob, WorkersIn
<1> QED
  BY <1>1, <1>2

\* A worker goes to sleep only when it has seen an empty queue.
LEMMA StrandedWorker ==
  ASSUME IndInv, NoStrandedJob, NEW w \in Workers, Worker(w)
  PROVE  NoStrandedJob'
<1> USE DEF mainVars, adderVars, workerVars
<1>0. queue \in Seq(Jobs) /\ wpc \in [Workers -> WorkerStates]
  BY DEF IndInv, TypeOK
<1>1. CASE Lock(w) \/ TestTake(w)
  <2>1. UNCHANGED <<queue, shutdown>>
    BY <1>1 DEF Lock, TestTake
  <2>2. WorkersIn(Looking)' = WorkersIn(Looking)
        /\ WorkersIn({"wait"})' = WorkersIn({"wait"})
    BY <1>0, <1>1 DEF Lock, TestTake, WorkersIn, Looking
  <2> QED
    BY <2>1, <2>2 DEF NoStrandedJob
<1>2. CASE TestSleep(w) \/ CondWait(w)
  <2>1. queue' = <<>>
    BY <1>2 DEF TestSleep, CondWait, IndInv, SeenInv
  <2>2. Cardinality(WorkersIn(Looking)') \in Nat
    <3>1. IsFiniteSet(WorkersIn(Looking)')
      BY WorkersFinite, FS_Subset DEF WorkersIn
    <3> QED
      BY <3>1, FS_CardinalityType
  <2> QED
    BY <2>1, <2>2 DEF NoStrandedJob
<1>3. CASE SpuriousWake(w) \/ Return(w)
  <2>1. UNCHANGED <<queue, shutdown>>
    BY <1>3 DEF SpuriousWake, Return
  <2>2. wpc[w] \notin Looking /\ wpc' = [wpc EXCEPT ![w] = "lock"]
    BY <1>3 DEF SpuriousWake, Return, Looking
  <2>3. WorkersIn(Looking)' = WorkersIn(Looking) \cup {w}
    BY <1>0, <2>2 DEF WorkersIn, Looking
  <2>4. WorkersIn({"wait"})' \subseteq WorkersIn({"wait"})
    BY <1>0, <2>2 DEF WorkersIn
  <2>5. Cardinality(WorkersIn(Looking))' = Cardinality(WorkersIn(Looking)) + 1
    BY <2>2, <2>3, OneMoreLooking
  <2> QED
    BY <1>0, <2>1, <2>4, <2>5, LookingNat DEF NoStrandedJob
<1>4. CASE TestExit(w)
  BY <1>4 DEF TestExit, NoStrandedJob
<1>5. CASE Take(w)
  <2>1. queue # <<>> /\ wpc[w] = "take" /\ wpc' = [wpc EXCEPT ![w] = "run"]
    BY <1>5 DEF Take, IndInv, SeenInv
  <2>2. Len(queue') = Len(queue) - 1 /\ shutdown' = shutdown
    BY <1>0, <1>5, <2>1 DEF Take, Unlink
  <2>3. WorkersIn(Looking)' = WorkersIn(Looking) \ {w}
    BY <1>0, <2>1 DEF WorkersIn, Looking
  <2>4. WorkersIn({"wait"})' = WorkersIn({"wait"})
    BY <1>0, <2>1 DEF WorkersIn
  <2>5. Cardinality(WorkersIn(Looking))' = Cardinality(WorkersIn(Looking)) - 1
    BY <2>1, <2>3, OneLessLooking DEF Looking
  <2> QED
    BY <1>0, <2>2, <2>4, <2>5, LookingNat DEF NoStrandedJob
<1> QED
  BY <1>1, <1>2, <1>3, <1>4, <1>5 DEF Worker

\* One pthread_cond_signal for each node is enough: while a worker sleeps in an
\* open pool, the others on their way to the queue are as many as the nodes.
THEOREM NoLostWakeup == Spec => []NoStrandedJob
<1>1. Init => NoStrandedJob
  <2>1. Init => WorkersIn({"wait"}) = {}
    BY DEF Init, WorkersIn
  <2> QED
    BY <2>1 DEF NoStrandedJob
<1>2. IndInv /\ NoStrandedJob /\ [Next]_vars => NoStrandedJob'
  <2> SUFFICES ASSUME IndInv, NoStrandedJob, [Next]_vars PROVE NoStrandedJob'
    OBVIOUS
  <2>1. CASE UNCHANGED vars
    BY <2>1 DEF vars, NoStrandedJob, WorkersIn
  <2> QED
    BY <2>1, StrandedMain, StrandedAdder, StrandedWorker DEF Next
<1> QED
  BY <1>1, <1>2, PoolInvariant, PTL DEF Spec

-----------------------------------------------------------------------------
(* First in, first out.                                                    *)

\* Linking a node extends what is accepted and what is queued alike.
LEMMA FifoLink ==
  ASSUME IndInv, Fifo, NEW j \in Jobs,
         queue' = Append(queue, j), accepted' = Append(accepted, j),
         started' = started, mpc' = mpc
  PROVE  Fifo'
<1>1. /\ queue \in Seq(Jobs) /\ accepted \in Seq(Jobs) /\ started \in Seq(Jobs)
      /\ Len(queue) \in Nat /\ Len(accepted) \in Nat /\ Len(started) \in Nat
  BY DEF IndInv, TypeOK
<1>2. Len(queue') = Len(queue) + 1 /\ Len(accepted') = Len(accepted) + 1
  BY <1>1
<1>3. ASSUME NEW i \in DOMAIN started'
      PROVE  started'[i] = accepted'[i]
  <2>1. i \in 1..Len(started) /\ i \in 1..Len(accepted)
    BY <1>1, <1>3 DEF Fifo
  <2> QED
    BY <1>1, <2>1 DEF Fifo
<1>4. ASSUME NEW i \in DOMAIN queue'
      PROVE  queue'[i] = accepted'[Len(accepted') - Len(queue') + i]
  <2>1. i \in 1..(Len(queue) + 1)
    BY <1>1, <1>2, <1>4
  <2>2. CASE i = Len(queue) + 1
    BY <1>1, <1>2, <2>2
  <2>3. CASE i \in 1..Len(queue)
    <3>1. Len(accepted) - Len(queue) + i \in 1..Len(accepted)
      BY <1>1, <2>3 DEF Fifo
    <3>2. queue[i] = accepted[Len(accepted) - Len(queue) + i]
      BY <1>1, <2>3 DEF Fifo
    <3>3. queue'[i] = queue[i]
      BY <1>1, <2>3
    <3>4. Len(accepted') - Len(queue') + i = Len(accepted) - Len(queue) + i
      BY <1>1, <1>2
    <3> QED
      BY <1>1, <3>1, <3>2, <3>3, <3>4
  <2>4. i = Len(queue) + 1 \/ i \in 1..Len(queue)
    BY <1>1, <2>1
  <2> QED
    BY <2>2, <2>3, <2>4
<1>5. Len(started') + Len(queue') <= Len(accepted')
      /\ (mpc' \notin {"drain", "release", "gone"}
            => Len(started') + Len(queue') = Len(accepted'))
  BY <1>1, <1>2 DEF Fifo
<1> QED
  BY <1>3, <1>4, <1>5 DEF Fifo

\* Taking the first node off the queue leaves a later part of what is accepted.
LEMMA FifoUnlink ==
  ASSUME IndInv, Fifo, queue # <<>>, queue' = Tail(queue),
         accepted' = accepted, NEW i \in DOMAIN queue'
  PROVE  queue'[i] = accepted'[Len(accepted') - Len(queue') + i]
<1>1. queue \in Seq(Jobs) /\ accepted \in Seq(Jobs)
      /\ Len(queue) \in Nat /\ Len(accepted) \in Nat
  BY DEF IndInv, TypeOK
<1>2. /\ Len(queue') = Len(queue) - 1
      /\ i \in 1..(Len(queue) - 1)
      /\ queue'[i] = queue[i + 1]
  BY <1>1, HeadTailProperties
<1>3. i + 1 \in DOMAIN queue
  BY <1>1, <1>2
<1>4. queue[i + 1] = accepted[Len(accepted) - Len(queue) + (i + 1)]
  BY <1>3 DEF Fifo
<1>5. Len(accepted) - Len(queue) + (i + 1) = Len(accepted') - Len(queue') + i
  BY <1>1, <1>2
<1> QED
  BY <1>2, <1>4, <1>5

\* A worker takes the node that follows all those started before.
LEMMA FifoTake ==
  ASSUME IndInv, Fifo, NEW w \in Workers, Take(w)
  PROVE  Fifo'
<1> USE DEF mainVars, adderVars
<1>1. /\ queue \in Seq(Jobs) /\ accepted \in Seq(Jobs) /\ started \in Seq(Jobs)
      /\ Len(queue) \in Nat /\ Len(accepted) \in Nat /\ Len(started) \in Nat
  BY DEF IndInv, TypeOK
<1>2. /\ queue # <<>>
      /\ queue' = Tail(queue)
      /\ started' = Append(started, queue[1])
      /\ accepted' = accepted
      /\ mpc' = mpc
  BY <1>1 DEF Take, Unlink, IndInv, SeenInv
<1>3. Len(started) + Len(queue) = Len(accepted)
  <2>1. mpc \notin {"drain", "release", "gone"}
    BY DEF Take, IndInv, StageInv
  <2> QED
    BY <2>1 DEF Fifo
<1>4. Len(queue') = Len(queue) - 1 /\ Len(started') = Len(started) + 1
      /\ queue[1] \in Jobs /\ 1 \in DOMAIN queue
  BY <1>1, <1>2
<1>5. ASSUME NEW i \in DOMAIN started'
      PROVE  started'[i] = accepted'[i]
  <2>1. CASE i \in 1..Len(started)
    BY <1>1, <1>2, <2>1 DEF Fifo
  <2>2. CASE i = Len(started) + 1
    <3>1. queue[1] = accepted[Len(accepted) - Len(queue) + 1]
      BY <1>4 DEF Fifo
    <3>2. Len(accepted) - Len(queue) + 1 = i
      BY <1>1, <1>3, <2>2
    <3> QED
      BY <1>1, <1>2, <1>4, <2>2, <3>1, <3>2
  <2> QED
    BY <1>1, <1>2, <1>4, <2>1, <2>2
<1>6. \A i \in DOMAIN queue' :
         queue'[i] = accepted'[Len(accepted') - Len(queue') + i]
  BY <1>2, FifoUnlink
<1>7. Len(started') + Len(queue') = Len(accepted')
  BY <1>1, <1>2, <1>3, <1>4
<1> QED
  BY <1>1, <1>2, <1>4, <1>5, <1>6, <1>7 DEF Fifo

\* The main thread throws away queued nodes only after the workers have ended.
LEMMA FifoDrain ==
  ASSUME IndInv, Fifo, Drain
  PROVE  Fifo'
<1> USE DEF mainVars, adderVars, workerVars
<1>1. CASE queue = <<>>
  BY <1>1 DEF Drain, Fifo
<1>2. CASE queue # <<>>
  <2>1. /\ queue' = Tail(queue) /\ mpc' = "drain"
        /\ accepted' = accepted /\ started' = started
    BY <1>2 DEF Drain, Unlink
  <2>2. /\ queue \in Seq(Jobs) /\ Len(queue') = Len(queue) - 1
        /\ Len(accepted) \in Nat /\ Len(started) \in Nat /\ Len(queue) \in Nat
    BY <1>2, <2>1 DEF IndInv, TypeOK
  <2>3. \A i \in DOMAIN queue' :
           queue'[i] = accepted'[Len(accepted') - Len(queue') + i]
    BY <1>2, <2>1, FifoUnlink
  <2> QED
    BY <2>1, <2>2, <2>3 DEF Fifo
<1> QED
  BY <1>1, <1>2

\* Work is started in the order it was accepted, each node once, whatever the
\* number of workers and callers.
THEOREM FifoOrder == Spec => []Fifo
<1>1. Init => Fifo
  BY DEF Init, Fifo
<1>2. IndInv /\ Fifo /\ [Next]_vars => Fifo'
  <2> SUFFICES ASSUME IndInv, Fifo, [Next]_vars PROVE Fifo'
    OBVIOUS
  <2> USE DEF mainVars, adderVars, workerVars
  <2>1. ASSUME UNCHANGED <<queue, accepted, started>>,
               mpc \in {"drain", "release", "gone"}
                 <=> mpc' \in {"drain", "release", "gone"}
        PROVE  Fifo'
    BY <2>1 DEF Fifo
  <2>2. CASE UNCHANGED vars
    BY <2>1, <2>2 DEF vars
  <2>3. CASE Main
    <3>1. CASE CreateWorker
      BY <2>1, <3>1 DEF CreateWorker, Loop
    <3>2. CASE SetShutdown \/ Broadcast \/ Release
      BY <2>1, <3>2 DEF SetShutdown, Broadcast, Release
    <3>3. CASE Join
      BY <3>3 DEF Join, Loop, Fifo
    <3> QED
      BY <2>3, <3>1, <3>2, <3>3, FifoDrain DEF Main
  <2>4. ASSUME NEW a \in Adders, Adder(a) PROVE Fifo'
    <3>1. CASE AddLink(a)
      <4>1. ajob[a] \in Jobs
        BY <3>1 DEF AddLink, IndInv, NodeInv
      <4> QED
        BY <3>1, <4>1, FifoLink DEF AddLink, Link
    <3>2. CASE ~AddLink(a)
      BY <2>1, <2>4, <3>2 DEF Adder, AddAlloc, AddNoMemory, Submit, AddFault
    <3> QED
      BY <3>1, <3>2
  <2>5. ASSUME NEW w \in Workers, Worker(w) PROVE Fifo'
    <3>1. CASE ~Take(w)
      BY <2>1, <2>5, <3>1
         DEF Worker, Lock, TestSleep, CondWait, SpuriousWake, TestExit,
             TestTake, Return
    <3> QED
      BY <3>1, FifoTake
  <2> QED
    BY <2>2, <2>3, <2>4, <2>5 DEF Next
<1> QED
  BY <1>1, <1>2, PoolInvariant, PTL DEF Spec

-----------------------------------------------------------------------------
(* Owners of the nodes.                                                    *)

Distinct(q) == \A i, k \in DOMAIN q : q[i] = q[k] => i = k

\* A node that is allocated has one owner: the list, where it is once, a worker
\* or a caller.  A job that nobody has submitted has no node.
OwnerInv ==
  /\ \A j \in Jobs :
       j \in heap <=> \/ j \in Range(queue)
                      \/ \E w \in Workers : wjob[w] = j
                      \/ \E a \in Adders : ajob[a] = j
  /\ \A j \in fresh : j \notin heap
  /\ \A v, w \in Workers : wjob[v] = wjob[w] /\ wjob[w] # NoJob => v = w
  /\ \A a, b \in Adders : ajob[a] = ajob[b] /\ ajob[b] # NoJob => a = b
  /\ \A w \in Workers, a \in Adders : wjob[w] = ajob[a] => ajob[a] = NoJob
  /\ \A w \in Workers : wjob[w] \notin Range(queue)
  /\ \A a \in Adders : ajob[a] \notin Range(queue)
  /\ Distinct(queue)

\* A list of different nodes, with another one behind them.
LEMMA AppendDistinct ==
  ASSUME NEW q \in Seq(Jobs), Distinct(q), NEW j \in Jobs, j \notin Range(q)
  PROVE  /\ Range(Append(q, j)) = Range(q) \cup {j}
         /\ Distinct(Append(q, j))
<1>1. /\ Append(q, j) \in Seq(Jobs) /\ Len(Append(q, j)) = Len(q) + 1
      /\ Append(q, j)[Len(q) + 1] = j
      /\ \A i \in 1..Len(q) : Append(q, j)[i] = q[i]
      /\ DOMAIN q = 1..Len(q) /\ DOMAIN Append(q, j) = 1..(Len(q) + 1)
      /\ Len(q) \in Nat
  OBVIOUS
<1> DEFINE r == Append(q, j)
<1> HIDE DEF r
<1>2. Range(r) = Range(q) \cup {j}
  BY <1>1 DEF r, Range
<1>3. Distinct(r)
  BY <1>1 DEF r, Range, Distinct
<1> QED
  BY <1>2, <1>3 DEF r

\* A list of different nodes without the first.
LEMMA TailDistinct ==
  ASSUME NEW q \in Seq(Jobs), Distinct(q), q # <<>>
  PROVE  /\ Head(q) \in Jobs /\ Head(q) \in Range(q)
         /\ Range(Tail(q)) = Range(q) \ {Head(q)}
         /\ Distinct(Tail(q))
<1>1. /\ Head(q) = q[1] /\ Len(q) \in Nat /\ Len(q) > 0
      /\ DOMAIN q = 1..Len(q) /\ DOMAIN Tail(q) = 1..(Len(q) - 1)
      /\ \A i \in 1..(Len(q) - 1) : Tail(q)[i] = q[i + 1]
      /\ q[1] \in Jobs
  BY HeadTailProperties
<1> DEFINE r == Tail(q)
<1> HIDE DEF r
<1>2. Range(r) = Range(q) \ {q[1]}
  <2>1. ASSUME NEW x \in Range(r) PROVE x \in Range(q) \ {q[1]}
    <3>1. PICK i \in 1..(Len(q) - 1) : x = q[i + 1]
      BY <1>1 DEF r, Range
    <3> QED
      BY <1>1, <3>1 DEF Range, Distinct
  <2>2. ASSUME NEW x \in Range(q), x # q[1] PROVE x \in Range(r)
    <3>1. PICK i \in 1..Len(q) : x = q[i]
      BY <1>1 DEF Range
    <3>2. i - 1 \in 1..(Len(q) - 1) /\ r[i - 1] = x
      BY <1>1, <2>2, <3>1 DEF r
    <3> QED
      BY <1>1, <3>2 DEF r, Range
  <2> QED
    BY <2>1, <2>2
<1>3. Distinct(r)
  BY <1>1 DEF r, Distinct
<1>4. q[1] \in Range(q)
  BY <1>1 DEF Range
<1> QED
  BY <1>1, <1>2, <1>3, <1>4 DEF r

\* malloc in tpool_add_work gives the caller the node of a fresh job.
LEMMA OwnerAlloc ==
  ASSUME IndInv, OwnerInv, NEW a \in Adders, NEW j \in Jobs, AddAlloc(a, j)
  PROVE  OwnerInv'
<1>1. /\ j \in fresh /\ fresh' = fresh \ {j} /\ heap' = heap \cup {j}
      /\ ajob[a] = NoJob /\ ajob'[a] = j
      /\ \A b \in Adders : b # a => ajob'[b] = ajob[b]
      /\ UNCHANGED <<queue, wjob>>
  BY JobsAssumption DEF AddAlloc, Submit, workerVars, IndInv, TypeOK, NodeInv
<1>2. /\ j \notin heap /\ j \notin Range(queue)
      /\ \A w \in Workers : wjob[w] # j
      /\ \A b \in Adders : ajob[b] # j
  BY <1>1 DEF OwnerInv
<1> QED
  BY <1>1, <1>2, JobsAssumption DEF OwnerInv, IndInv, TypeOK

\* The caller passes its node to the list.
LEMMA OwnerLink ==
  ASSUME IndInv, OwnerInv, NEW a \in Adders, AddLink(a)
  PROVE  OwnerInv'
<1>1. /\ ajob[a] \in Jobs /\ ajob'[a] = NoJob /\ queue' = Append(queue, ajob[a])
      /\ \A b \in Adders : b # a => ajob'[b] = ajob[b]
      /\ UNCHANGED <<heap, fresh, wjob>>
  BY DEF AddLink, Link, workerVars, IndInv, TypeOK, NodeInv
<1>2. Range(queue') = Range(queue) \cup {ajob[a]} /\ Distinct(queue')
  BY <1>1, AppendDistinct DEF OwnerInv, IndInv, TypeOK
<1>3. NoJob \notin Range(queue')
  BY <1>1, <1>2, JobsAssumption DEF IndInv, TypeOK, Range
<1>4. /\ \A w \in Workers : wjob'[w] \notin Range(queue')
      /\ \A b \in Adders : ajob'[b] \notin Range(queue')
  BY <1>1, <1>2, <1>3, JobsAssumption DEF OwnerInv
<1>5. \A j \in Jobs :
        j \in heap' <=> \/ j \in Range(queue')
                        \/ \E w \in Workers : wjob'[w] = j
                        \/ \E b \in Adders : ajob'[b] = j
  <2>1. \A j \in Jobs :
          (\E b \in Adders : ajob[b] = j)
             <=> j = ajob[a] \/ \E b \in Adders : ajob'[b] = j
    BY <1>1, JobsAssumption
  <2>2. \A j \in Jobs :
          j \in heap <=> \/ j \in Range(queue)
                         \/ \E w \in Workers : wjob[w] = j
                         \/ \E b \in Adders : ajob[b] = j
    BY DEF OwnerInv
  <2>3. heap' = heap /\ wjob' = wjob
    BY <1>1
  <2> QED
    BY <1>2, <2>1, <2>2, <2>3
<1>6. /\ \A b, c \in Adders : ajob'[b] = ajob'[c] /\ ajob'[b] # NoJob => b = c
      /\ \A w \in Workers, b \in Adders : wjob'[w] = ajob'[b] => ajob'[b] = NoJob
  BY <1>1 DEF OwnerInv
<1>7. /\ \A j \in fresh' : j \notin heap'
      /\ \A v, w \in Workers : wjob'[v] = wjob'[w] /\ wjob'[w] # NoJob => v = w
  BY <1>1 DEF OwnerInv
<1> QED
  BY <1>2, <1>4, <1>5, <1>6, <1>7 DEF OwnerInv

\* The list passes its first node to the worker.
LEMMA OwnerTake ==
  ASSUME IndInv, OwnerInv, NEW w \in Workers, Take(w)
  PROVE  OwnerInv'
<1>1. /\ queue # <<>> /\ queue' = Tail(queue) /\ wjob'[w] = Head(queue)
      /\ wjob[w] = NoJob
      /\ \A v \in Workers : v # w => wjob'[v] = wjob[v]
      /\ UNCHANGED <<heap, fresh, ajob>>
  BY JobsAssumption
     DEF Take, Unlink, mainVars, adderVars, IndInv, TypeOK, NodeInv, SeenInv
<1>2. /\ Head(queue) \in Jobs /\ Head(queue) \in Range(queue)
      /\ Range(queue') = Range(queue) \ {Head(queue)} /\ Distinct(queue')
  BY <1>1, TailDistinct DEF OwnerInv, IndInv, TypeOK
<1>3. /\ \A v \in Workers : wjob'[v] \notin Range(queue')
      /\ \A a \in Adders : ajob'[a] \notin Range(queue')
  BY <1>1, <1>2 DEF OwnerInv
<1>4. \A j \in Jobs :
        j \in heap' <=> \/ j \in Range(queue')
                        \/ \E v \in Workers : wjob'[v] = j
                        \/ \E a \in Adders : ajob'[a] = j
  <2>1. \A j \in Jobs :
          (\E v \in Workers : wjob'[v] = j)
             <=> j = Head(queue) \/ \E v \in Workers : wjob[v] = j
    BY <1>1, JobsAssumption
  <2> QED
    BY <1>1, <1>2, <2>1 DEF OwnerInv
<1>5. /\ \A u, v \in Workers : wjob'[u] = wjob'[v] /\ wjob'[u] # NoJob => u = v
      /\ \A v \in Workers, a \in Adders : wjob'[v] = ajob'[a] => ajob'[a] = NoJob
  BY <1>1, <1>2 DEF OwnerInv
<1> QED
  BY <1>1, <1>2, <1>3, <1>4, <1>5 DEF OwnerInv

\* The worker frees its node.
LEMMA OwnerReturn ==
  ASSUME IndInv, OwnerInv, NEW w \in Workers, Return(w)
  PROVE  OwnerInv'
<1>1. /\ wjob[w] \in Jobs /\ wjob'[w] = NoJob /\ heap' = heap \ {wjob[w]}
      /\ \A v \in Workers : v # w => wjob'[v] = wjob[v]
      /\ UNCHANGED <<queue, fresh, ajob>>
  BY DEF Return, Free, mainVars, adderVars, IndInv, TypeOK, NodeInv
<1>2. NoJob \notin Range(queue)
  BY JobsAssumption DEF IndInv, TypeOK, Range
<1> QED
  BY <1>1, <1>2, JobsAssumption DEF OwnerInv, IndInv, TypeOK

\* tpool_destroy frees the nodes of the list, first to last.
LEMMA OwnerDrain ==
  ASSUME IndInv, OwnerInv, Drain
  PROVE  OwnerInv'
<1> USE DEF Drain, mainVars, adderVars, workerVars
<1>1. CASE queue = <<>>
  BY <1>1 DEF OwnerInv
<1>2. CASE queue # <<>>
  <2>1. /\ queue' = Tail(queue) /\ heap' = heap \ {Head(queue)}
        /\ UNCHANGED <<fresh, ajob, wjob>>
    BY <1>2 DEF Unlink, Free
  <2>2. /\ Head(queue) \in Jobs /\ Head(queue) \in Range(queue)
        /\ Range(queue') = Range(queue) \ {Head(queue)} /\ Distinct(queue')
    BY <1>2, <2>1, TailDistinct DEF OwnerInv, IndInv, TypeOK
  <2> HIDE DEF Drain
  <2> QED
    BY <2>1, <2>2 DEF OwnerInv
<1> QED
  BY <1>1, <1>2

\* At every moment each allocated node has one owner.
THEOREM NodesOwned == Spec => []OwnerInv
<1>1. Init => OwnerInv
  BY JobsAssumption DEF Init, OwnerInv, Range, Distinct
<1>2. IndInv /\ OwnerInv /\ [Next]_vars => OwnerInv'
  <2> SUFFICES ASSUME IndInv, OwnerInv, [Next]_vars PROVE OwnerInv'
    OBVIOUS
  <2> USE DEF mainVars, adderVars, workerVars
  <2>1. ASSUME UNCHANGED <<queue, heap, wjob, ajob>>, fresh' \subseteq fresh
        PROVE  OwnerInv'
    BY <2>1 DEF OwnerInv
  <2>2. CASE UNCHANGED vars
    BY <2>1, <2>2 DEF vars
  <2>3. CASE Main
    BY <2>1, <2>3, OwnerDrain
       DEF Main, CreateWorker, SetShutdown, Broadcast, Join, Release
  <2>4. ASSUME NEW a \in Adders, Adder(a) PROVE OwnerInv'
    BY <2>1, <2>4, OwnerAlloc, OwnerLink
       DEF Adder, AddNoMemory, Submit, AddFault
  <2>5. ASSUME NEW w \in Workers, Worker(w) PROVE OwnerInv'
    BY <2>1, <2>5, OwnerTake, OwnerReturn
       DEF Worker, Lock, TestSleep, CondWait, SpuriousWake, TestExit, TestTake
  <2> QED
    BY <2>2, <2>3, <2>4, <2>5 DEF Next
<1> QED
  BY <1>1, <1>2, PoolInvariant, PTL DEF Spec

\* Who is late: a caller that has met a pool being freed, and whoever has got
\* a node into the list behind the loop that empties it.
LateInv ==
  /\ \A a \in Adders : apc[a] = "fault" => ajob[a] \in late
  /\ mpc \in {"release", "gone"} => Range(queue) \subseteq late

\* The drain loop leaves nothing in the list but what comes after it.
THEOREM OnlyLateLeft == Spec => []LateInv
<1>1. Init => LateInv
  BY DEF Init, LateInv
<1>2. IndInv /\ OwnerInv /\ LateInv /\ [Next]_vars => LateInv'
  <2> SUFFICES ASSUME IndInv, OwnerInv, LateInv, [Next]_vars PROVE LateInv'
    OBVIOUS
  <2> USE DEF mainVars, adderVars, workerVars
  <2>1. ASSUME UNCHANGED <<apc, ajob, late, queue>>,
               mpc' \in {"release", "gone"} => mpc \in {"release", "gone"}
        PROVE  LateInv'
    BY <2>1 DEF LateInv
  <2>2. CASE UNCHANGED vars \/ CreateWorker \/ SetShutdown \/ Broadcast \/ Release
    BY <2>1, <2>2 DEF vars, CreateWorker, Loop, SetShutdown, Broadcast, Release
  <2>3. CASE Join
    BY <2>1, <2>3 DEF Join, Loop
  <2>4. CASE Drain
    <3>1. Range(queue') \subseteq late' \/ mpc' = "drain"
      BY <2>4 DEF Drain, Range
    <3> QED
      BY <2>4, <3>1 DEF Drain, LateInv
  <2>5. ASSUME NEW a \in Adders, NEW j \in Jobs, AddAlloc(a, j) \/ AddNoMemory(a, j)
        PROVE  LateInv'
    BY <2>5 DEF AddAlloc, AddNoMemory, Submit, LateInv, IndInv, TypeOK
  <2>6. ASSUME NEW a \in Adders, AddLink(a) PROVE LateInv'
    <3>1. /\ Range(queue') = Range(queue) \cup {ajob[a]}
          /\ late \subseteq late'
          /\ mpc' = mpc
          /\ mpc \in {"release", "gone"} => ajob[a] \in late'
      BY <2>6, AppendDistinct
         DEF AddLink, Link, Late, TakenDown, IndInv, TypeOK, NodeInv, OwnerInv
    <3>2. \A b \in Adders : apc'[b] = "fault" => apc[b] = "fault" /\ ajob'[b] = ajob[b]
      BY <2>6 DEF AddLink, IndInv, TypeOK
    <3> QED
      BY <3>1, <3>2 DEF LateInv
  <2>7. ASSUME NEW a \in Adders, AddFault(a) PROVE LateInv'
    BY <2>7 DEF AddFault, Late, TakenDown, LateInv, IndInv, TypeOK
  <2>8. ASSUME NEW w \in Workers, Worker(w) PROVE LateInv'
    <3>1. UNCHANGED <<apc, ajob, late, mpc>>
      BY <2>8 DEF Worker, Lock, TestSleep, CondWait, SpuriousWake, TestExit,
                  TestTake, Take, Return
    <3>2. queue' = queue \/ mpc \notin {"release", "gone"}
      BY <2>8 DEF Worker, Lock, TestSleep, CondWait, SpuriousWake, TestExit,
                  TestTake, Take, Return, IndInv, StageInv
    <3> QED
      BY <3>1, <3>2 DEF LateInv
  <2> QED
    BY <2>2, <2>3, <2>4, <2>5, <2>6, <2>7, <2>8 DEF Next, Main, Adder
<1> QED
  BY <1>1, <1>2, PoolInvariant, NodesOwned, PTL DEF Spec

\* No node is freed early, and only those of callers that came after the last
\* join are lost.
THEOREM HeapIsExact == Spec => []HeapExact
<1>1. IndInv /\ OwnerInv /\ LateInv => HeapExact
  <2> SUFFICES ASSUME IndInv, OwnerInv, LateInv PROVE HeapExact
    OBVIOUS
  <2>1. Range(queue) \subseteq Jobs /\ heap \subseteq Jobs
    BY DEF IndInv, TypeOK, Range
  <2>2. \A w \in Workers : wjob[w] \in Jobs <=> w \in Running
    BY DEF IndInv, NodeInv, Running, WorkersIn
  <2>3. \A a \in Adders : /\ ajob[a] \in Jobs <=> apc[a] # "idle"
                          /\ apc[a] \in {"idle", "link", "fault"}
    BY DEF IndInv, NodeInv, TypeOK, AdderStates
  <2>4. Running \subseteq Workers
    BY DEF Running, WorkersIn
  <2>5. Held \subseteq heap
    BY <2>1, <2>2, <2>3, <2>4 DEF Held, OwnerInv
  <2>6. ASSUME NEW j \in heap, j \notin Held PROVE j \in late
    <3>1. CASE j \in Range(queue)
      BY <2>6, <3>1 DEF Held, LateInv
    <3>2. ASSUME NEW w \in Workers, wjob[w] = j PROVE FALSE
      BY <2>1, <2>2, <2>6, <3>2 DEF Held
    <3>3. ASSUME NEW a \in Adders, ajob[a] = j PROVE j \in late
      BY <2>1, <2>3, <2>6, <3>3 DEF Held, LateInv
    <3> QED
      BY <2>1, <3>1, <3>2, <3>3 DEF OwnerInv
  <2> QED
    BY <2>5, <2>6 DEF HeapExact
<1> QED
  BY <1>1, PoolInvariant, NodesOwned, OnlyLateLeft, PTL

\* No node is shared by two workers, by a worker and the list, or twice in it.
THEOREM NodesHaveOneOwner == Spec => []OneOwner
<1>1. IndInv /\ OwnerInv => OneOwner
  BY JobsAssumption
     DEF IndInv, NodeInv, OwnerInv, OneOwner, Running, WorkersIn, Distinct
<1> QED
  BY <1>1, PoolInvariant, NodesOwned, PTL

-----------------------------------------------------------------------------
(* The thread pool implements the work queue its clients rely on: each     *)
(* step of ThreadPool maps to a step of WorkQueue or leaves what WorkQueue *)
(* sees as it was.                                                         *)

\* The work in hand, and the work that is done.
InHand == {wjob[w] : w \in Running}
Finished == Range(started) \ InHand
Open == mpc \notin {"join", "drain", "release", "gone"}

\* A job is accepted once, and what runs has been started.
JobInv ==
  /\ \A j \in fresh : j \notin Range(accepted)
  /\ \A a \in Adders : ajob[a] \notin Range(accepted)
  /\ Distinct(accepted)
  /\ InHand \subseteq Range(started)

RefInv == IndInv /\ OwnerInv /\ Fifo /\ JobInv

-----------------------------------------------------------------------------
\* A worker that is not running its routine can take work without there being
\* more active work than there are workers.
LEMMA WorkerLeft ==
  ASSUME NEW w \in Workers, w \notin Running
  PROVE  Cardinality(InHand) < PoolSize
<1>1. IsFiniteSet(Workers) /\ Cardinality(Workers) = PoolSize
  BY WorkersFinite, WorkersPositive, FS_Interval DEF Workers
<1>2. Running \subseteq Workers \ {w}
  BY DEF Running, WorkersIn
<1>3. /\ IsFiniteSet(Workers \ {w})
      /\ Cardinality(Workers \ {w}) = PoolSize - 1
  BY <1>1, FS_RemoveElement
<1>4. IsFiniteSet(Running) /\ Cardinality(Running) <= PoolSize - 1
  BY <1>2, <1>3, FS_Subset
<1>5. IsFiniteSet(InHand) /\ Cardinality(InHand) <= Cardinality(Running)
  <2> DEFINE f == [v \in Running |-> wjob[v]]
  <2>1. f \in Surjection(Running, InHand)
    BY DEF Surjection, InHand
  <2> QED
    BY <1>4, <2>1, FS_Surjection
<1>6. Cardinality(InHand) \in Nat /\ Cardinality(Running) \in Nat
  BY <1>4, <1>5, FS_CardinalityType
<1> QED
  BY <1>4, <1>5, <1>6, WorkersPositive

\* What is started is accepted, and what is in the list is not started.
LEMMA QueuedNotStarted ==
  ASSUME RefInv
  PROVE  /\ Range(started) \subseteq Range(accepted)
         /\ Range(queue) \cap Range(started) = {}
         /\ Range(queue) \subseteq Range(accepted)
<1>1. /\ queue \in Seq(Jobs) /\ accepted \in Seq(Jobs) /\ started \in Seq(Jobs)
      /\ Len(queue) \in Nat /\ Len(accepted) \in Nat /\ Len(started) \in Nat
      /\ DOMAIN queue = 1..Len(queue) /\ DOMAIN accepted = 1..Len(accepted)
      /\ DOMAIN started = 1..Len(started)
  BY DEF RefInv, IndInv, TypeOK
<1>2. Len(started) + Len(queue) <= Len(accepted)
  BY DEF RefInv, Fifo
<1>3. ASSUME NEW i \in 1..Len(started)
      PROVE  i \in 1..Len(accepted) /\ started[i] = accepted[i]
  <2>1. i \in 1..Len(accepted)
    BY <1>1, <1>2
  <2>2. i \in DOMAIN started
    BY <1>1
  <2> QED
    BY <2>1, <2>2 DEF RefInv, Fifo
<1>4. ASSUME NEW i \in 1..Len(queue)
      PROVE  /\ Len(accepted) - Len(queue) + i \in 1..Len(accepted)
             /\ Len(accepted) - Len(queue) + i > Len(started)
             /\ queue[i] = accepted[Len(accepted) - Len(queue) + i]
  <2>1. /\ Len(accepted) - Len(queue) + i \in 1..Len(accepted)
        /\ Len(accepted) - Len(queue) + i > Len(started)
    BY <1>1, <1>2
  <2>2. i \in DOMAIN queue
    BY <1>1
  <2> QED
    BY <2>1, <2>2 DEF RefInv, Fifo
<1>5. \A i, k \in 1..Len(accepted) : accepted[i] = accepted[k] => i = k
  BY <1>1 DEF RefInv, JobInv, Distinct
<1>6. Range(queue) \cap Range(started) = {}
  <2> SUFFICES ASSUME NEW i \in 1..Len(queue), NEW k \in 1..Len(started),
                      queue[i] = started[k]
               PROVE  FALSE
    BY <1>1 DEF Range
  <2>1. Len(accepted) - Len(queue) + i = k
    BY <1>3, <1>4, <1>5
  <2> QED
    BY <1>1, <1>4, <2>1
<1>7. Range(started) \subseteq Range(accepted)
  BY <1>1, <1>3 DEF Range
<1>8. Range(queue) \subseteq Range(accepted)
  BY <1>1, <1>4 DEF Range
<1> QED
  BY <1>6, <1>7, <1>8

-----------------------------------------------------------------------------
(* One lemma for each step of ThreadPool that WorkQueue sees.  Each gives   *)
(* what the step makes of the accepted, started and finished work.          *)

\* Only what a step does to wjob and to the running workers changes the work
\* in hand.
LEMMA InHandKept ==
  ASSUME wjob' = wjob, Running' = Running
  PROVE  InHand' = InHand
BY DEF InHand

\* AddLink accepts the node of the caller.
LEMMA LinkAccepts ==
  ASSUME RefInv, NEW a \in Adders, AddLink(a)
  PROVE  /\ ajob[a] \in Jobs /\ ajob[a] \notin Range(accepted) /\ mpc # "gone"
         /\ accepted' = Append(accepted, ajob[a])
         /\ UNCHANGED <<started, mpc, InHand>>
         /\ JobInv'
<1>1. /\ ajob[a] \in Jobs /\ ajob[a] \notin Range(accepted) /\ mpc # "gone"
      /\ accepted' = Append(accepted, ajob[a])
      /\ UNCHANGED <<started, mpc, wjob, fresh>>
      /\ ajob'[a] = NoJob
      /\ \A b \in Adders : b # a => ajob'[b] = ajob[b]
      /\ accepted \in Seq(Jobs)
  BY DEF AddLink, mainVars, workerVars, RefInv, JobInv, IndInv, NodeInv, TypeOK
<1>2. Running' = Running
  BY SignalMoves DEF AddLink, RefInv, IndInv, Running, WorkersIn
<1>3. UNCHANGED InHand
  BY <1>1, <1>2, InHandKept
<1>4. Range(accepted') = Range(accepted) \cup {ajob[a]} /\ Distinct(accepted')
  BY <1>1, AppendDistinct DEF RefInv, JobInv
<1>5. ajob[a] \notin fresh
  BY <1>1 DEF RefInv, OwnerInv
<1>6. NoJob \notin Range(accepted')
  BY <1>1, <1>4, JobsAssumption DEF Range
<1>7. \A b \in Adders : b # a => ajob[b] # ajob[a]
  BY <1>1, JobsAssumption DEF RefInv, OwnerInv
<1>8. \A b \in Adders : ajob'[b] \notin Range(accepted')
  BY <1>1, <1>4, <1>6, <1>7 DEF RefInv, JobInv
<1>9. \A j \in fresh' : j \notin Range(accepted')
  BY <1>1, <1>4, <1>5 DEF RefInv, JobInv
<1>10. InHand' \subseteq Range(started')
  BY <1>1, <1>3 DEF RefInv, JobInv
<1> QED
  BY <1>1, <1>3, <1>4, <1>8, <1>9, <1>10 DEF JobInv

\* Take starts the oldest accepted work that is not started.
LEMMA TakeStarts ==
  ASSUME RefInv, NEW w \in Workers, Take(w)
  PROVE  /\ Open /\ mpc' = mpc
         /\ Len(started) < Len(accepted)
         /\ Cardinality(InHand) < PoolSize
         /\ started' = Append(started, accepted[Len(started) + 1])
         /\ accepted' = accepted
         /\ Finished' = Finished
         /\ JobInv'
<1>1. /\ queue \in Seq(Jobs) /\ accepted \in Seq(Jobs) /\ started \in Seq(Jobs)
      /\ Len(queue) \in Nat /\ Len(accepted) \in Nat /\ Len(started) \in Nat
      /\ queue # <<>> /\ Len(queue) > 0 /\ DOMAIN queue = 1..Len(queue)
  BY DEF Take, RefInv, IndInv, SeenInv, TypeOK
<1>2. /\ wpc[w] = "take" /\ w \notin Running /\ Running' = Running \cup {w}
      /\ wjob'[w] = Head(queue)
      /\ \A v \in Workers : v # w => wjob'[v] = wjob[v]
      /\ started' = Append(started, Head(queue))
      /\ UNCHANGED <<mpc, accepted, ajob, fresh>>
  BY DEF Take, mainVars, adderVars, RefInv, IndInv, TypeOK, Running, WorkersIn
<1>3. Open
  BY <1>2 DEF RefInv, IndInv, StageInv, NoSleeperAfterBroadcast, WorkersIn, Open
<1>4. Cardinality(InHand) < PoolSize
  BY <1>2, WorkerLeft
<1>5. Len(started) + Len(queue) = Len(accepted)
  BY <1>3 DEF RefInv, Fifo, Open
<1>6. Head(queue) = accepted[Len(started) + 1]
  <2>1. 1 \in DOMAIN queue /\ Head(queue) = queue[1]
    BY <1>1
  <2>2. queue[1] = accepted[Len(accepted) - Len(queue) + 1]
    BY <2>1 DEF RefInv, Fifo
  <2>3. Len(accepted) - Len(queue) + 1 = Len(started) + 1
    BY <1>1, <1>5
  <2> QED
    BY <2>1, <2>2, <2>3
<1>7. InHand' = InHand \cup {Head(queue)}
  BY <1>2 DEF InHand, Running, WorkersIn
<1>8. Head(queue) \in Range(queue) /\ Head(queue) \in Jobs
  BY <1>1, TailDistinct DEF RefInv, OwnerInv
<1>9. Head(queue) \notin Range(started)
  BY <1>8, QueuedNotStarted
<1>10. Range(started') = Range(started) \cup {Head(queue)}
  <2> DEFINE r == Append(started, Head(queue))
  <2>1. /\ DOMAIN r = 1..(Len(started) + 1) /\ r[Len(started) + 1] = Head(queue)
        /\ \A i \in 1..Len(started) : r[i] = started[i]
        /\ DOMAIN started = 1..Len(started)
    BY <1>1, <1>8
  <2> HIDE DEF r
  <2>2. Range(r) = Range(started) \cup {Head(queue)}
    BY <1>1, <2>1 DEF Range
  <2> QED
    BY <1>2, <2>2 DEF r
<1>11. Finished' = Finished
  BY <1>7, <1>9, <1>10 DEF Finished
<1>12. JobInv'
  BY <1>2, <1>7, <1>10 DEF RefInv, JobInv
<1>13. Len(started) < Len(accepted)
  BY <1>1, <1>5
<1> QED
  BY <1>2, <1>3, <1>4, <1>6, <1>11, <1>12, <1>13

\* Return finishes the work of the worker.
LEMMA ReturnFinishes ==
  ASSUME RefInv, NEW w \in Workers, Return(w)
  PROVE  /\ wjob[w] \in Jobs /\ wjob[w] \in InHand
         /\ Finished' = Finished \cup {wjob[w]}
         /\ UNCHANGED <<started, accepted, mpc>>
         /\ JobInv'
<1>1. /\ wjob[w] \in Jobs /\ w \in Running /\ Running' = Running \ {w}
      /\ \A v \in Workers : v # w => wjob'[v] = wjob[v]
      /\ UNCHANGED <<started, accepted, mpc, ajob, fresh>>
  BY DEF Return, mainVars, adderVars, RefInv, IndInv, NodeInv, TypeOK,
         Running, WorkersIn
<1>2. \A v \in Workers : v # w => wjob[v] # wjob[w]
  BY <1>1, JobsAssumption DEF RefInv, OwnerInv
<1>3. InHand' = InHand \ {wjob[w]} /\ wjob[w] \in InHand
  BY <1>1, <1>2 DEF InHand, Running, WorkersIn
<1>4. wjob[w] \in Range(started)
  BY <1>3 DEF RefInv, JobInv
<1>5. Finished' = Finished \cup {wjob[w]}
  BY <1>1, <1>3, <1>4 DEF Finished
<1>6. JobInv'
  BY <1>1, <1>3 DEF RefInv, JobInv
<1> QED
  BY <1>1, <1>3, <1>5, <1>6

\* Nothing runs when the pool is released.
LEMMA NothingRunsAtEnd ==
  ASSUME RefInv, mpc = "release"
  PROVE  InHand = {}
BY DEF RefInv, IndInv, StageInv, InHand, Running, WorkersIn

-----------------------------------------------------------------------------
(* The mapping                                                             *)

\* A step that leaves accepted, started and the work in hand alone leaves
\* JobInv alone, too.
LEMMA JobKept ==
  ASSUME RefInv, UNCHANGED <<accepted, started, InHand>>, fresh' \subseteq fresh,
         \A a \in Adders : ajob'[a] = ajob[a] \/ ajob'[a] \in fresh
  PROVE  JobInv'
BY DEF RefInv, JobInv

\* The active work is what is in hand.
LEMMA ActiveInHand == ASSUME RefInv PROVE Queue!Active = InHand
<1>1. Queue!Range(started) = Range(started)
  BY DEF Queue!Range, Range
<1>2. InHand \subseteq Range(started)
  BY DEF RefInv, JobInv
<1> HIDE DEF Range
<1> QED
  BY <1>1, <1>2 DEF Queue!Active, InHand

\* A step of the main thread opens, closes or ends the work queue, or is not
\* seen.
LEMMA MainMaps ==
  ASSUME RefInv, Main
  PROVE  JobInv' /\ [Queue!Next]_(Queue!vars)
<1> USE DEF mainVars, adderVars, workerVars
<1>1. UNCHANGED <<accepted, started, wjob, ajob, fresh>>
  BY DEF Main, CreateWorker, SetShutdown, Broadcast, Join, Drain, Release
<1>2. Running' = Running
  <2>1. CASE CreateWorker
    <3>1. index \in Workers /\ wpc[index] = "unborn" /\ wpc' = [wpc EXCEPT ![index] = "lock"]
      BY <2>1 DEF CreateWorker, RefInv, IndInv, TypeOK, StageInv, Workers
    <3> QED
      BY <3>1 DEF RefInv, IndInv, TypeOK, Running, WorkersIn
  <2>2. CASE Broadcast
    BY <2>2 DEF Broadcast, Running, WorkersIn
  <2>3. CASE SetShutdown \/ Join \/ Drain \/ Release
    BY <2>3 DEF SetShutdown, Join, Drain, Release, Running, WorkersIn
  <2> QED
    BY <2>1, <2>2, <2>3 DEF Main
<1>3. InHand' = InHand /\ Finished' = Finished
  BY <1>1, <1>2, InHandKept DEF Finished
<1>4. JobInv'
  BY <1>1, <1>3, JobKept
<1>5. CASE Open' = Open /\ mpc # "gone" /\ mpc' # "gone"
  BY <1>1, <1>3, <1>4, <1>5 DEF Queue!vars, Open, Finished, InHand
<1>6. CASE Broadcast
  <2>1. mpc = "lock" /\ mpc' = "join"
    BY <1>6 DEF Broadcast
  <2>2. Queue!Close
    BY <1>1, <1>3, <2>1 DEF Queue!Close, Finished, InHand
  <2> QED
    BY <1>4, <2>2 DEF Queue!Next
<1>7. CASE Release
  <2>1. mpc = "release" /\ mpc' = "gone" /\ InHand = {}
    BY <1>7, NothingRunsAtEnd DEF Release
  <2>2. Queue!Active = {}
    BY <2>1, ActiveInHand
  <2>3. Queue!End
    BY <1>1, <1>3, <2>1, <2>2 DEF Queue!End, Finished, InHand
  <2> QED
    BY <1>4, <2>3 DEF Queue!Next
<1>8. CASE CreateWorker \/ SetShutdown \/ Join \/ Drain
  <2>1. Open' = Open /\ mpc # "gone" /\ mpc' # "gone"
    BY <1>8 DEF CreateWorker, SetShutdown, Join, Drain, Loop, Open
  <2> QED
    BY <1>4, <1>5, <2>1
<1> QED
  BY <1>6, <1>7, <1>8 DEF Main

\* A caller's step accepts its work, or is not seen.
LEMMA AdderMaps ==
  ASSUME RefInv, NEW a \in Adders, Adder(a)
  PROVE  JobInv' /\ [Queue!Next]_(Queue!vars)
<1>1. CASE AddLink(a)
  <2>1. /\ ajob[a] \in Jobs /\ ajob[a] \notin Range(accepted) /\ mpc # "gone"
        /\ accepted' = Append(accepted, ajob[a])
        /\ UNCHANGED <<started, mpc, InHand>>
        /\ JobInv'
    BY <1>1, LinkAccepts
  <2>2. ajob[a] \notin Queue!Range(accepted)
    BY <2>1 DEF Queue!Range, Range
  <2>3. Queue!Accept(ajob[a])
    BY <2>1, <2>2 DEF Queue!Accept, InHand
  <2> QED
    BY <2>1, <2>3 DEF Queue!Next
<1>2. CASE ~AddLink(a)
  <2>1. /\ UNCHANGED <<accepted, started, wjob, wpc, mpc>> /\ fresh' \subseteq fresh
        /\ \A b \in Adders : ajob'[b] = ajob[b] \/ ajob'[b] \in fresh
    BY <1>2
       DEF Adder, AddAlloc, AddNoMemory, Submit, AddFault, mainVars, workerVars,
           RefInv, IndInv, TypeOK
  <2>2. InHand' = InHand
    BY <2>1, InHandKept DEF Running, WorkersIn
  <2>3. JobInv'
    BY <2>1, <2>2, JobKept
  <2>4. UNCHANGED Queue!vars
    BY <2>1, <2>2 DEF Queue!vars, InHand
  <2> QED
    BY <2>3, <2>4
<1> QED
  BY <1>1, <1>2

\* A worker's step starts or finishes work, or is not seen.
LEMMA WorkerMaps ==
  ASSUME RefInv, NEW w \in Workers, Worker(w)
  PROVE  JobInv' /\ [Queue!Next]_(Queue!vars)
<1>1. CASE Take(w)
  <2>1. /\ Open /\ mpc' = mpc
        /\ Len(started) < Len(accepted)
        /\ Cardinality(InHand) < PoolSize
        /\ started' = Append(started, accepted[Len(started) + 1])
        /\ accepted' = accepted
        /\ Finished' = Finished
        /\ JobInv'
    BY <1>1, TakeStarts
  <2>2. Queue!Active = InHand
    BY ActiveInHand
  <2>3. Queue!Cardinality(Queue!Active) < PoolSize
    BY <2>1, <2>2 DEF Queue!Cardinality, Cardinality
  <2>4. Queue!Start
    BY <2>1, <2>3 DEF Queue!Start, Open, Finished, InHand
  <2> QED
    BY <2>1, <2>4 DEF Queue!Next
<1>2. CASE Return(w)
  <2>1. /\ wjob[w] \in Jobs /\ wjob[w] \in InHand
        /\ Finished' = Finished \cup {wjob[w]}
        /\ UNCHANGED <<started, accepted, mpc>>
        /\ JobInv'
    BY <1>2, ReturnFinishes
  <2>2. PICK j \in Jobs : j = wjob[w]
    BY <2>1
  <2>3. j \in Queue!Active
    BY <2>1, <2>2, ActiveInHand
  <2>4. Queue!Finish(j)
    BY <2>1, <2>2, <2>3 DEF Queue!Finish, Finished, InHand
  <2> QED
    BY <2>1, <2>4 DEF Queue!Next
<1>3. CASE ~Take(w) /\ ~Return(w)
  <2>1. /\ UNCHANGED <<accepted, started, wjob, mpc, ajob, fresh>>
        /\ Running' = Running
    BY <1>3
       DEF Worker, Lock, TestSleep, CondWait, SpuriousWake, TestExit, TestTake,
           mainVars, adderVars, workerVars, RefInv, IndInv, TypeOK, Running,
           WorkersIn
  <2>2. InHand' = InHand
    BY <2>1, InHandKept
  <2>3. JobInv'
    BY <2>1, <2>2, JobKept
  <2>4. UNCHANGED Queue!vars
    BY <2>1, <2>2 DEF Queue!vars, InHand
  <2> QED
    BY <2>3, <2>4
<1> QED
  BY <1>1, <1>2, <1>3

\* A job is accepted at most once, and what runs has been started.
LEMMA JobInvariant == Spec => []RefInv
<1>1. Init => JobInv
  BY JobsAssumption
     DEF Init, JobInv, Range, Distinct, InHand, Running, WorkersIn
<1>2. RefInv /\ [Next]_vars => JobInv'
  <2>1. RefInv /\ UNCHANGED vars => JobInv'
    BY DEF vars, RefInv, JobInv, InHand, Running, WorkersIn
  <2> QED
    BY <2>1, MainMaps, AdderMaps, WorkerMaps DEF Next
<1>3. (IndInv /\ OwnerInv /\ Fifo) /\ JobInv /\ [Next]_vars => JobInv'
  BY <1>2 DEF RefInv
<1>4. Spec => [](IndInv /\ OwnerInv /\ Fifo)
  BY PoolInvariant, NodesOwned, FifoOrder, PTL
<1>5. RefInv <=> (IndInv /\ OwnerInv /\ Fifo) /\ JobInv
  BY DEF RefInv
<1> QED
  BY <1>1, <1>3, <1>4, <1>5, PTL DEF Spec

\* What a client of the pool sees is a work queue: tpool_add_work accepts, the
\* oldest accepted work is started by at most as many threads as there are,
\* none is once the workers have been told to stop, and the pool is released
\* with none active.
THEOREM PoolImplementsWorkQueue == Spec => ImplementsWorkQueue
<1>1. Init => Queue!Init
  BY DEF Init, Queue!Init, Range, Running, WorkersIn
<1>2. RefInv /\ [Next]_vars => [Queue!Next]_(Queue!vars)
  <2>1. UNCHANGED vars => UNCHANGED Queue!vars
    BY DEF vars, Queue!vars, Running, WorkersIn
  <2> QED
    BY <2>1, MainMaps, AdderMaps, WorkerMaps DEF Next
<1> QED
  BY <1>1, <1>2, JobInvariant, PTL DEF Spec, ImplementsWorkQueue, Queue!Spec

-----------------------------------------------------------------------------
(* Nobody is left waiting for what nobody will do: the part of JobServed   *)
(* and DestroyReturns that is no matter of scheduling, for any sizes.      *)

\* Every worker has been created once tpool_create has returned.
BornInv ==
  /\ mpc = "create" => \A w \in Workers : w < index => wpc[w] # "unborn"
  /\ mpc # "create" => \A w \in Workers : wpc[w] # "unborn"

\* A worker is at a step whose guard holds: it is not asleep, not behind the
\* mutex of another and not in its routine.
Moves(w) == \/ wpc[w] \in Holding
            \/ wpc[w] = "lock" /\ lock = NoOne

\* How many steps a worker in state s can still take once shutdown is set.
StepsLeft(s) ==
  CASE s = "exited" -> 0
    [] s = "test" -> 1
    [] s = "lock" -> 2
    [] s = "run" -> 3
    [] s \in {"take", "wait"} -> 4
    [] s = "sleep" -> 5
    [] OTHER -> 6

\* The ways a worker can go, and those that are closed after shutdown.
LEMMA WorkerGoes ==
  ASSUME IndInv, [Next]_vars, NEW w \in Workers, wpc'[w] # wpc[w]
  PROVE  \/ wpc[w] = "unborn" /\ wpc'[w] = "lock" /\ ~shutdown
         \/ wpc[w] = "lock" /\ wpc'[w] = "test"
         \/ wpc[w] = "test" /\ wpc'[w] \in {"sleep", "take"} /\ ~shutdown
         \/ wpc[w] = "test" /\ wpc'[w] = "exited"
         \/ wpc[w] = "sleep" /\ wpc'[w] = "wait"
         \/ wpc[w] = "wait" /\ wpc'[w] = "lock"
         \/ wpc[w] = "take" /\ wpc'[w] = "run"
         \/ wpc[w] = "run" /\ wpc'[w] = "lock"
<1>0. wpc \in [Workers -> WorkerStates] /\ index \in Workers
  BY DEF IndInv, TypeOK
<1>1. CASE CreateWorker
  <2>1. w = index /\ wpc'[w] = "lock" /\ mpc = "create"
    BY <1>0, <1>1 DEF CreateWorker
  <2>2. wpc[w] = "unborn" /\ ~shutdown
    BY <2>1, <1>0 DEF IndInv, StageInv, Workers
  <2> QED
    BY <2>1, <2>2
<1>2. CASE Broadcast
  BY <1>2 DEF Broadcast
<1>3. CASE SetShutdown \/ Join \/ Drain \/ Release \/ UNCHANGED vars
  BY <1>3 DEF SetShutdown, Join, Drain, Release, vars
<1>4. ASSUME NEW a \in Adders, Adder(a)
      PROVE  wpc[w] = "wait" /\ wpc'[w] = "lock"
  <2>1. Signal
    BY <1>4 DEF Adder, AddAlloc, AddNoMemory, AddLink, AddFault
  <2> QED
    BY <2>1, SignalMoves DEF IndInv
<1>5. ASSUME NEW v \in Workers, Worker(v), v # w PROVE FALSE
  BY <1>0, <1>5
     DEF Worker, Lock, TestSleep, CondWait, SpuriousWake, TestExit, TestTake,
         Take, Return
<1>6. CASE Worker(w)
  BY <1>0, <1>6
     DEF Worker, Lock, TestSleep, CondWait, SpuriousWake, TestExit, TestTake,
         Take, Return
<1> QED
  BY <1>1, <1>2, <1>3, <1>4, <1>5, <1>6 DEF Next, Main

\* Once shutdown is set it stays so, and every step of a worker brings it
\* nearer to its end: no worker can keep tpool_destroy waiting by working on.
WindsDown ==
  [][shutdown =>
       /\ shutdown'
       /\ \A w \in Workers :
            wpc'[w] # wpc[w] => StepsLeft(wpc'[w]) < StepsLeft(wpc[w])]_vars

\* After line 96 of tpool_destroy each worker takes at most five steps more,
\* whatever is in the list and whoever adds to it.
THEOREM PoolWindsDown == Spec => WindsDown
<1>1. ASSUME IndInv, [Next]_vars, shutdown
      PROVE  /\ shutdown'
             /\ \A w \in Workers :
                  wpc'[w] # wpc[w] => StepsLeft(wpc'[w]) < StepsLeft(wpc[w])
  <2>1. shutdown'
    BY <1>1
       DEF Next, Main, CreateWorker, SetShutdown, Broadcast, Join, Drain,
           Release, Adder, AddAlloc, AddNoMemory, AddLink, AddFault, Worker,
           Lock, TestSleep, CondWait, SpuriousWake, TestExit, TestTake, Take,
           Return, mainVars, adderVars, workerVars, vars
  <2>2. ASSUME NEW w \in Workers, wpc'[w] # wpc[w]
        PROVE  StepsLeft(wpc'[w]) < StepsLeft(wpc[w])
    <3>1. /\ StepsLeft("exited") = 0 /\ StepsLeft("test") = 1
          /\ StepsLeft("lock") = 2 /\ StepsLeft("run") = 3
          /\ StepsLeft("take") = 4 /\ StepsLeft("wait") = 4
          /\ StepsLeft("sleep") = 5
      BY DEF StepsLeft
    <3> QED
      BY <1>1, <2>2, <3>1, WorkerGoes
  <2> QED
    BY <2>1, <2>2
<1> QED
  BY <1>1, PoolInvariant, PTL DEF Spec, WindsDown

\* tpool_create leaves no worker out.
LEMMA AllBorn == Spec => []BornInv
<1>1. Init => BornInv
  BY WorkersPositive DEF Init, BornInv, Workers
<1>2. IndInv /\ BornInv /\ [Next]_vars => BornInv'
  <2> SUFFICES ASSUME IndInv, BornInv, [Next]_vars PROVE BornInv'
    OBVIOUS
  <2>1. \A w \in Workers : wpc[w] # "unborn" => wpc'[w] # "unborn"
    BY WorkerGoes
  <2>2. CASE CreateWorker
    <3>1. /\ wpc \in [Workers -> WorkerStates] /\ index \in Workers
          /\ wpc'[index] = "lock" /\ mpc = "create"
      BY <2>2 DEF CreateWorker, IndInv, TypeOK
    <3>2. \/ index = PoolSize /\ mpc' = "up"
          \/ index # PoolSize /\ mpc' = "create" /\ index' = index + 1
      BY <2>2, <3>1 DEF CreateWorker, Loop
    <3> QED
      BY <2>1, <3>1, <3>2, WorkersPositive DEF BornInv, Workers
  <2>3. CASE ~CreateWorker
    <3>1. \/ UNCHANGED <<mpc, index>>
          \/ mpc # "create" /\ mpc' # "create"
      BY <2>3
         DEF Next, Main, SetShutdown, Broadcast, Join, Loop, Drain,
             Release, Adder, AddAlloc, AddNoMemory, AddLink, AddFault, Worker,
             Lock, TestSleep, CondWait, SpuriousWake, TestExit, TestTake, Take,
             Return, mainVars, vars
    <3> QED
      BY <2>1, <3>1 DEF BornInv
  <2> QED
    BY <2>2, <2>3
<1> QED
  BY <1>1, <1>2, PoolInvariant, PTL DEF Spec

\* Whoever has the mutex can go on.
LEMMA HolderMoves ==
  ASSUME IndInv, NEW w \in Workers, wpc[w] = "lock"
  PROVE  \E v \in Workers : Moves(v) /\ wpc[v] \in Holding \cup {"lock"}
<1>1. CASE lock = NoOne
  BY <1>1 DEF Moves
<1>2. CASE lock # NoOne
  <2>1. lock \in Workers /\ wpc[lock] \in Holding
    BY <1>2 DEF IndInv, TypeOK, LockInv
  <2> QED
    BY <2>1 DEF Moves
<1> QED
  BY <1>1, <1>2

\* While the pool is open and its list is not empty, every worker is running
\* its routine, or one on its way to the list can go on.
NoIdleWhileWork ==
  mpc = "up" /\ queue # <<>> =>
    Running = Workers \/ \E w \in WorkersIn(Looking) : Moves(w)

\* tpool_add_work never leaves work in the list with a thread free for it and
\* nobody on the way: what is left to JobServed is that the scheduler lets
\* those threads run and that routines return.
THEOREM WorkIsLookedAfter == Spec => []NoIdleWhileWork
<1>1. IndInv /\ BornInv /\ NoStrandedJob => NoIdleWhileWork
  <2> SUFFICES ASSUME IndInv, BornInv, NoStrandedJob, mpc = "up", queue # <<>>,
                      Running # Workers
               PROVE  \E w \in WorkersIn(Looking) : Moves(w)
    BY DEF NoIdleWhileWork
  <2>0. /\ wpc \in [Workers -> WorkerStates] /\ queue \in Seq(Jobs) /\ ~shutdown
    BY DEF IndInv, TypeOK, StageInv
  <2>1. \E w \in Workers : wpc[w] # "run"
    BY DEF Running, WorkersIn
  <2>2. \E w \in Workers : wpc[w] \in Looking
    <3>1. CASE WorkersIn({"wait"}) # {}
      <4>1. Len(queue) <= Cardinality(WorkersIn(Looking)) /\ Len(queue) > 0
        BY <2>0, <3>1 DEF NoStrandedJob
      <4>2. Len(queue) \in Nat
        BY <2>0
      <4>3. Cardinality(WorkersIn(Looking)) # 0
        BY <4>1, <4>2, LookingNat
      <4>4. WorkersIn(Looking) # {}
        BY <4>3, FS_EmptySet
      <4> QED
        BY <4>4 DEF WorkersIn
    <3>2. CASE WorkersIn({"wait"}) = {}
      <4>1. PICK w \in Workers : wpc[w] # "run"
        BY <2>1
      <4>2. wpc[w] \notin {"wait", "unborn", "exited", "sleep"}
        BY <2>0, <3>2 DEF WorkersIn, BornInv, IndInv, StageInv, SeenInv
      <4> QED
        BY <2>0, <4>1, <4>2 DEF WorkerStates, Looking
    <3> QED
      BY <3>1, <3>2
  <2>3. PICK w \in Workers : wpc[w] \in Looking
    BY <2>2
  <2>4. CASE wpc[w] \in {"test", "take"}
    BY <2>4 DEF Moves, Holding, WorkersIn, Looking
  <2>5. CASE wpc[w] = "lock"
    <3>1. PICK v \in Workers : Moves(v) /\ wpc[v] \in Holding \cup {"lock"}
      BY <2>5, HolderMoves
    <3>2. wpc[v] # "sleep"
      BY DEF IndInv, SeenInv
    <3> QED
      BY <3>1, <3>2 DEF Holding, Looking, WorkersIn
  <2> QED
    BY <2>3, <2>4, <2>5 DEF Looking
<1> QED
  BY <1>1, PoolInvariant, AllBorn, NoLostWakeup, PTL

\* While tpool_destroy waits for the mutex or for a thread to end, it can go
\* on, a worker can, or the thread that it waits for runs its routine.
DestroyGoesOn ==
  /\ mpc = "lock" => lock = NoOne \/ \E w \in Workers : Moves(w)
  /\ mpc = "join" => \/ wpc[index] \in {"exited", "run"}
                     \/ \E w \in Workers : Moves(w)

\* tpool_destroy never waits for a thread that sleeps or that waits for a
\* mutex nobody gives back.
THEOREM DestroyNeverStuck == Spec => []DestroyGoesOn
<1>1. IndInv /\ BornInv => DestroyGoesOn
  <2> SUFFICES ASSUME IndInv, BornInv PROVE DestroyGoesOn
    OBVIOUS
  <2>0. wpc \in [Workers -> WorkerStates] /\ index \in Workers
    BY DEF IndInv, TypeOK
  <2>1. ASSUME lock # NoOne PROVE \E w \in Workers : Moves(w)
    <3>1. lock \in Workers /\ wpc[lock] \in Holding
      BY <2>1 DEF IndInv, TypeOK, LockInv
    <3> QED
      BY <3>1 DEF Moves
  <2>2. ASSUME mpc = "join", wpc[index] \notin {"exited", "run"}
        PROVE  \E w \in Workers : Moves(w)
    <3>1. wpc[index] \in {"lock", "test"}
      BY <2>0, <2>2
         DEF WorkerStates, BornInv, IndInv, StageInv, NoSleeperAfterBroadcast,
             WorkersIn
    <3>2. CASE wpc[index] = "test"
      BY <2>0, <3>2 DEF Moves, Holding
    <3>3. CASE wpc[index] = "lock"
      BY <2>0, <3>3, HolderMoves
    <3> QED
      BY <3>1, <3>2, <3>3
  <2> QED
    BY <2>1, <2>2 DEF DestroyGoesOn
<1> QED
  BY <1>1, PoolInvariant, AllBorn, PTL

=============================================================================
