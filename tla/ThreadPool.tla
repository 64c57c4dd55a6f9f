----------------------------- MODULE ThreadPool -----------------------------
(***************************************************************************)
(* The thread pool of src/threadpool.c: worker threads that sleep on a     *)
(* condition variable, callers of tpool_add_work that append to a list     *)
(* under the same mutex, and the main thread that creates the workers,     *)
(* and destroys the pool.                                                  *)
(*                                                                         *)
(* One action is one stretch of code between two points where another      *)
(* thread can interfere.  tpool_destroy sets shutdown without the mutex    *)
(* (line 96), so a worker that holds the mutex can be overtaken between    *)
(* testing shutdown (16, 19) and going to sleep (17) or taking a node      *)
(* (23): those are separate actions.  Everything an adder does under the   *)
(* mutex is one action, since nothing it reads there changes without it.   *)
(*                                                                         *)
(* exit(1) on a failed allocation or pthread call in tpool_create ends     *)
(* the process and is a behaviour that stops; it has no action.            *)
(***************************************************************************)
EXTENDS Integers, Sequences, FiniteSets, Functions

CONSTANTS
  MaxThrNum,    \* the argument of tpool_create
  DefaultNum,   \* TPOOL_DEFAULT_NUM
  MaxNum,       \* TPOOL_MAX_NUM
  Adders,       \* threads that may call tpool_add_work
  Jobs,         \* work items; each is submitted at most once
  Forever,      \* the jobs whose routine need not return
  NoJob,        \* no work node
  NoOne         \* the mutex is free

ASSUME LimitsAssumption ==
  /\ MaxThrNum \in Int
  /\ MaxNum \in Nat
  /\ DefaultNum \in 1..MaxNum

ASSUME JobsAssumption == NoJob \notin Jobs /\ Forever \subseteq Jobs

\* tpool_create replaces an argument out of range.
PoolSize ==
  IF MaxThrNum <= 0 THEN DefaultNum
  ELSE IF MaxThrNum > MaxNum THEN MaxNum
  ELSE MaxThrNum

Workers == 1..PoolSize

ASSUME NoOneAssumption == NoOne \notin Workers

VARIABLES
  queue,     \* the list from tpool->queue_head, head first
  shutdown,  \* tpool->shutdown
  lock,      \* the worker that holds queue_lock, or NoOne
  wpc,       \* where each worker is in thread_routine
  wjob,      \* the node a worker has taken and not freed
  apc,       \* where each adder is in tpool_add_work
  ajob,      \* the node an adder has allocated and not linked
  mpc,       \* where the main thread is
  index,     \* i of the loops in tpool_create and tpool_destroy
  fresh,     \* jobs nobody has submitted
  heap,      \* the work nodes that are allocated
  accepted,  \* history: nodes linked into the list, in that order
  late,      \* history: nodes of callers that came after the last join
  started    \* history: jobs taken by a worker, in that order

mainVars == <<shutdown, mpc, index>>
adderVars == <<apc, ajob, fresh, accepted, late>>
workerVars == <<wjob, started>>

vars == <<queue, shutdown, lock, wpc, wjob, apc, ajob, mpc, index, fresh,
          heap, accepted, late, started>>

WorkerStates ==
  {"unborn",  \* pthread_create not called yet
   "lock",    \* in pthread_mutex_lock, or in cond_wait and signalled
   "test",    \* holds the mutex, about to read queue_head and shutdown
   "sleep",   \* holds the mutex, has read shutdown = 0 and an empty list
   "wait",    \* inside pthread_cond_wait, not signalled
   "take",    \* holds the mutex, has read shutdown = 0 and a work node
   "run",     \* in work->routine
   "exited"}

\* The states in which a worker has the mutex, and those in which it is on
\* its way to look at the queue.
Holding == {"test", "sleep", "take"}
Looking == {"lock", "test", "take"}

AdderStates ==
  {"idle",
   "link",    \* node allocated, about to take the mutex
   "fault"}   \* went on with a pool that is being released: undefined

MainStates ==
  {"create",  \* in the loop of tpool_create
   "up",      \* in the loop of do_system_server
   "lock",    \* shutdown is set, about to take the mutex
   "join",    \* in the loop that joins the workers
   "drain",   \* frees what is left of the queue
   "release", \* destroys the mutex and frees tpool
   "gone"}    \* tpool_destroy has returned; tpool dangles

WorkersIn(S) == {w \in Workers : wpc[w] \in S}
Running == WorkersIn({"run"})

\* tpool_add_work links a node behind the last one, a worker takes the first.
\* (Here and below, a definition whose comment begins with "Mutant" is no part
\* of the model: it is a plausible bug in the definition it precedes.)
\* Mutant: the new node becomes the head.
LinkFirst(q, j) == <<j>> \o q
Link(q, j) == Append(q, j)

\* Mutant: queue_head is not advanced.
UnlinkNothing(q) == q
Unlink(q) == Tail(q)

\* Mutant: the node is never freed.
FreeNothing(j) == heap' = heap
Free(j) == heap' = heap \ {j}

\* One round of "for (i = 0; i < max_thr_num; ++i)" for the main thread, which
\* goes on to state next after the last.
\* Mutant: the loop runs to i <= max_thr_num.
LoopLong(next) ==
  IF index > PoolSize THEN mpc' = next /\ index' = 1
                      ELSE UNCHANGED mpc /\ index' = index + 1
\* Mutant: the loop runs to i < max_thr_num - 1.
LoopShort(next) ==
  IF index + 1 >= PoolSize THEN mpc' = next /\ index' = 1
                           ELSE UNCHANGED mpc /\ index' = index + 1
Loop(next) ==
  IF index = PoolSize THEN mpc' = next /\ index' = 1
                      ELSE UNCHANGED mpc /\ index' = index + 1

Init ==
  /\ queue = <<>>
  /\ shutdown = FALSE
  /\ lock = NoOne
  /\ wpc = [w \in Workers |-> "unborn"]
  /\ wjob = [w \in Workers |-> NoJob]
  /\ apc = [a \in Adders |-> "idle"]
  /\ ajob = [a \in Adders |-> NoJob]
  /\ mpc = "create"
  /\ index = 1
  /\ fresh = Jobs
  /\ heap = {}
  /\ accepted = <<>>
  /\ late = {}
  /\ started = <<>>

-----------------------------------------------------------------------------
(* The main thread: tpool_create and tpool_destroy.                        *)

\* A worker runs as soon as pthread_create returns, while the loop goes on.
CreateWorker ==
  /\ mpc = "create"
  /\ wpc' = [wpc EXCEPT ![index] = "lock"]
  /\ Loop("up")
  /\ UNCHANGED <<queue, shutdown, lock, heap, adderVars, workerVars>>

\* The early return of a second call is not reached: there is one caller.
SetShutdown ==
  /\ mpc = "up"
  /\ ~shutdown
  /\ shutdown' = TRUE
  /\ mpc' = "lock"
  /\ UNCHANGED <<queue, lock, wpc, index, heap, adderVars, workerVars>>

\* Mutant: the broadcast does not take the mutex first.
BroadcastUnlocked ==
  /\ mpc = "lock"
  /\ wpc' = [w \in Workers |-> IF wpc[w] = "wait" THEN "lock" ELSE wpc[w]]
  /\ mpc' = "join"
  /\ UNCHANGED <<queue, shutdown, lock, index, heap, adderVars, workerVars>>

\* Mutant: pthread_cond_signal in the place of pthread_cond_broadcast.
BroadcastToOne ==
  /\ mpc = "lock"
  /\ lock = NoOne
  /\ IF WorkersIn({"wait"}) = {} THEN UNCHANGED wpc
     ELSE \E w \in WorkersIn({"wait"}) : wpc' = [wpc EXCEPT ![w] = "lock"]
  /\ mpc' = "join"
  /\ UNCHANGED <<queue, shutdown, lock, index, heap, adderVars, workerVars>>

Broadcast ==
  /\ mpc = "lock"
  /\ lock = NoOne
  /\ wpc' = [w \in Workers |-> IF wpc[w] = "wait" THEN "lock" ELSE wpc[w]]
  /\ mpc' = "join"
  /\ UNCHANGED <<queue, shutdown, lock, index, heap, adderVars, workerVars>>

Join ==
  /\ mpc = "join"
  /\ wpc[index] = "exited"
  /\ Loop("drain")
  /\ UNCHANGED <<queue, shutdown, lock, wpc, heap, adderVars, workerVars>>

Drain ==
  /\ mpc = "drain"
  /\ IF queue = <<>> THEN mpc' = "release" /\ UNCHANGED <<queue, heap>>
     ELSE /\ queue' = Unlink(queue)
          /\ Free(Head(queue))
          /\ UNCHANGED mpc
  /\ UNCHANGED <<shutdown, lock, wpc, index, adderVars, workerVars>>

Release ==
  /\ mpc = "release"
  /\ mpc' = "gone"
  /\ UNCHANGED <<queue, shutdown, lock, wpc, index, heap, adderVars,
                 workerVars>>

Main == CreateWorker \/ SetShutdown \/ Broadcast \/ Join \/ Drain \/ Release

-----------------------------------------------------------------------------
(* tpool_add_work.  The first caller is main, after tpool_create.          *)

Submit(a, j) ==
  /\ mpc # "create"
  /\ apc[a] = "idle"
  /\ j \in fresh
  /\ fresh' = fresh \ {j}

AddAlloc(a, j) ==
  /\ Submit(a, j)
  /\ heap' = heap \cup {j}
  /\ ajob' = [ajob EXCEPT ![a] = j]
  /\ apc' = [apc EXCEPT ![a] = "link"]
  /\ UNCHANGED <<queue, lock, wpc, accepted, late, mainVars, workerVars>>

\* malloc fails, tpool_add_work returns -1.
AddNoMemory(a, j) ==
  /\ Submit(a, j)
  /\ UNCHANGED <<queue, lock, wpc, heap, apc, ajob, accepted, late, mainVars,
                 workerVars>>

\* Mutant: signal only when the list was empty.
SignalIfEmpty ==
  LET waiting == WorkersIn({"wait"})
  IN  IF waiting = {} \/ queue # <<>> THEN UNCHANGED wpc
      ELSE \E w \in waiting : wpc' = [wpc EXCEPT ![w] = "lock"]

\* pthread_cond_signal: one of the waiting threads, if there is one, goes on
\* to take the mutex.
Signal ==
  LET waiting == WorkersIn({"wait"})
  IN  IF waiting = {} THEN UNCHANGED wpc
      ELSE \E w \in waiting : wpc' = [wpc EXCEPT ![w] = "lock"]

\* From line 107 on the list, the mutex and the pool are taken down without
\* the mutex: a caller that is late may still get its node in (AddLink), or
\* touch memory that is freed (AddFault).
TakenDown == mpc \in {"drain", "release", "gone"}
Late(j) == late' = IF TakenDown THEN late \cup {j} ELSE late

AddLink(a) ==
  /\ apc[a] = "link"
  /\ lock = NoOne
  /\ mpc # "gone"
  /\ queue' = Link(queue, ajob[a])
  /\ Signal
  /\ accepted' = Append(accepted, ajob[a])
  /\ Late(ajob[a])
  /\ ajob' = [ajob EXCEPT ![a] = NoJob]
  /\ apc' = [apc EXCEPT ![a] = "idle"]
  /\ UNCHANGED <<lock, heap, fresh, mainVars, workerVars>>

AddFault(a) ==
  /\ apc[a] = "link"
  /\ TakenDown
  /\ Late(ajob[a])
  /\ apc' = [apc EXCEPT ![a] = "fault"]
  /\ UNCHANGED <<queue, lock, wpc, heap, ajob, fresh, accepted, mainVars,
                 workerVars>>

Adder(a) ==
  \/ \E j \in Jobs : AddAlloc(a, j) \/ AddNoMemory(a, j)
  \/ AddLink(a)
  \/ AddFault(a)

-----------------------------------------------------------------------------
(* thread_routine                                                          *)

Lock(w) ==
  /\ wpc[w] = "lock"
  /\ lock = NoOne
  /\ lock' = w
  /\ wpc' = [wpc EXCEPT ![w] = "test"]
  /\ UNCHANGED <<queue, heap, mainVars, adderVars, workerVars>>

TestSleep(w) ==
  /\ wpc[w] = "test"
  /\ queue = <<>>
  /\ ~shutdown
  /\ wpc' = [wpc EXCEPT ![w] = "sleep"]
  /\ UNCHANGED <<queue, lock, heap, mainVars, adderVars, workerVars>>

\* pthread_cond_wait releases the mutex and starts to wait in one step.
CondWait(w) ==
  /\ wpc[w] = "sleep"
  /\ lock' = NoOne
  /\ wpc' = [wpc EXCEPT ![w] = "wait"]
  /\ UNCHANGED <<queue, heap, mainVars, adderVars, workerVars>>

SpuriousWake(w) ==
  /\ wpc[w] = "wait"
  /\ wpc' = [wpc EXCEPT ![w] = "lock"]
  /\ UNCHANGED <<queue, lock, heap, mainVars, adderVars, workerVars>>

TestExit(w) ==
  /\ wpc[w] = "test"
  /\ shutdown
  /\ lock' = NoOne
  /\ wpc' = [wpc EXCEPT ![w] = "exited"]
  /\ UNCHANGED <<queue, heap, mainVars, adderVars, workerVars>>

\* Mutant: a worker empties the list before it obeys shutdown.
TestTakeAnyway(w) ==
  /\ wpc[w] = "test"
  /\ queue # <<>>
  /\ wpc' = [wpc EXCEPT ![w] = "take"]
  /\ UNCHANGED <<queue, lock, heap, mainVars, adderVars, workerVars>>

TestTake(w) ==
  /\ wpc[w] = "test"
  /\ queue # <<>>
  /\ ~shutdown
  /\ wpc' = [wpc EXCEPT ![w] = "take"]
  /\ UNCHANGED <<queue, lock, heap, mainVars, adderVars, workerVars>>

Take(w) ==
  /\ wpc[w] = "take"
  /\ wjob' = [wjob EXCEPT ![w] = Head(queue)]
  /\ queue' = Unlink(queue)
  /\ started' = Append(started, Head(queue))
  /\ lock' = NoOne
  /\ wpc' = [wpc EXCEPT ![w] = "run"]
  /\ UNCHANGED <<heap, mainVars, adderVars>>

\* The routine returns and its node is freed.
Return(w) ==
  /\ wpc[w] = "run"
  /\ Free(wjob[w])
  /\ wjob' = [wjob EXCEPT ![w] = NoJob]
  /\ wpc' = [wpc EXCEPT ![w] = "lock"]
  /\ UNCHANGED <<queue, lock, started, mainVars, adderVars>>

Worker(w) ==
  \/ Lock(w)
  \/ TestSleep(w) \/ CondWait(w) \/ SpuriousWake(w)
  \/ TestExit(w)
  \/ TestTake(w) \/ Take(w)
  \/ Return(w)

-----------------------------------------------------------------------------
Next ==
  \/ Main
  \/ \E a \in Adders : Adder(a)
  \/ \E w \in Workers : Worker(w)

Spec == Init /\ [][Next]_vars

\* What the operating system grants: a thread that can go on does, a routine
\* that is not in Forever returns.  Nobody has to call tpool_add_work or
\* tpool_destroy, and no wake-up is spurious by right.
FairWorker(w) ==
  /\ WF_vars(Lock(w) \/ TestSleep(w) \/ CondWait(w) \/ TestExit(w)
               \/ TestTake(w) \/ Take(w))
  /\ WF_vars(wjob[w] \notin Forever /\ Return(w))

Fairness ==
  /\ WF_vars(CreateWorker \/ Broadcast \/ Join \/ Drain \/ Release)
  /\ \A a \in Adders : WF_vars(AddLink(a))
  /\ \A w \in Workers : FairWorker(w)

FairSpec == Spec /\ Fairness

-----------------------------------------------------------------------------
(* Properties                                                              *)

\* Every variable has a value of its type.
TypeOK ==
  /\ queue \in Seq(Jobs)
  /\ shutdown \in BOOLEAN
  /\ lock \in Workers \cup {NoOne}
  /\ wpc \in [Workers -> WorkerStates]
  /\ wjob \in [Workers -> Jobs \cup {NoJob}]
  /\ apc \in [Adders -> AdderStates]
  /\ ajob \in [Adders -> Jobs \cup {NoJob}]
  /\ mpc \in MainStates
  /\ index \in Workers
  /\ fresh \in SUBSET Jobs
  /\ heap \in SUBSET Jobs
  /\ accepted \in Seq(Jobs)
  /\ late \in SUBSET Jobs
  /\ started \in Seq(Jobs)

\* No lost wake-up: while the pool is open and some worker sleeps, there are
\* at least as many workers on their way to the queue as there is work in it,
\* so one pthread_cond_signal per node is enough.
NoStrandedJob ==
  ~shutdown /\ WorkersIn({"wait"}) # {}
    => Len(queue) <= Cardinality(WorkersIn(Looking))

\* Work is started in the order in which tpool_add_work linked it, each node
\* once; what is linked and not started is in the list until it is drained.
Fifo ==
  /\ Len(started) + Len(queue) <= Len(accepted)
  /\ \A i \in DOMAIN started : started[i] = accepted[i]
  /\ \A i \in DOMAIN queue :
       queue[i] = accepted[Len(accepted) - Len(queue) + i]
  /\ mpc \notin {"drain", "release", "gone"}
       => Len(started) + Len(queue) = Len(accepted)

\* The nodes that somebody is still going to free: those in the list of a pool
\* that is there, those whose routine runs and those not linked yet.
Held ==
  (IF mpc = "gone" THEN {} ELSE Range(queue))
    \cup {wjob[w] : w \in Running}
    \cup {ajob[a] : a \in {b \in Adders : apc[b] = "link"}}

\* No node is freed that somebody will use or free again, and when nobody will
\* free a node any more, it has been freed.  The exception are the nodes of
\* callers that come to the mutex after tpool_destroy has joined the last
\* worker, whom the code does not stop: they are lost when they get into the
\* list behind the drain loop, or when the caller meets a pool that is freed.
HeapExact == Held \subseteq heap /\ heap \ Held \subseteq late

\* A node is freed by one thread only: no two threads and the list share one.
OneOwner ==
  /\ \A v, w \in Running : wjob[v] = wjob[w] => v = w
  /\ \A w \in Running : wjob[w] \notin Range(queue)
  /\ \A i, k \in DOMAIN queue : queue[i] = queue[k] => i = k

\* shutdown is set without the mutex, but the broadcast is sent under it:
\* after it no worker sleeps, is about to sleep, or is about to take work.
NoSleeperAfterBroadcast ==
  mpc \in {"join", "drain", "release", "gone"}
    => WorkersIn({"sleep", "wait", "take"}) = {}

\* tpool_destroy walks the list and frees the pool without the mutex only
\* when no worker is left to touch either.
AloneAfterJoin ==
  mpc \in {"drain", "release", "gone"}
    => WorkersIn({"exited"}) = Workers /\ lock = NoOne

\* Work linked into an open pool is started, as long as the routines that do
\* not return leave one worker over, unless the pool is shut down.
JobServed ==
  Cardinality(Forever) < PoolSize
    => \A j \in Jobs :
         j \in Range(accepted) ~> j \in Range(started) \/ shutdown

\* tpool_destroy returns unless it waits for a routine that need not return.
DestroyReturns ==
  mpc = "lock" ~> mpc = "gone" \/ \E w \in Running : wjob[w] \in Forever

\* The pool is a first-in first-out work queue that starts nothing once the
\* workers have been told to stop, and ends with no work active.
Queue == INSTANCE WorkQueue WITH
  MaxActive <- PoolSize,
  finished <- Range(started) \ {wjob[w] : w \in Running},
  open <- mpc \notin {"join", "drain", "release", "gone"},
  ended <- mpc = "gone"

ImplementsWorkQueue == Queue!Spec

=============================================================================
