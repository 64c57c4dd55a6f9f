# A verification development for sys_server

sys_server is a small home-automation server in C: it reads commands from a
serial port (and, one day, from a network), queues them, and executes them. This
directory holds TLA+ models of the parts of it where threads meet, TLC
configurations that check the models on small instances, and proofs, checked by
TLAPS, of what matters most for instances of every size.

Paths below are relative to the repository's root: `sys.c`, `src/*.c`,
`inc/*.h`. Checking a model: `tlc -config X.cfg M` in this directory. Checking
proofs: `tlapm M.tla` for each of the eight modules named `*Proofs`.

## 1. The system

```
 main ── system_info_init, system_dev_init, system_net_init, system_serial_init
   │
   ├─ task_init ── creates threads task_allocate, task_schedule
   ├─ tpool_create(128)
   └─ event_trigger ── tpool_add_work(event_serial), tpool_add_work(event_ethernet)

 event_serial (pool thread) ──read──► pending node ──task_pending_add──► pending list
        │  └─ tpool_add_work(serial_write)                                   │
        └──task_trigger──► named pipe ──task_triggered──► task_allocate      │
                                                             │               │
                              tpool_add_work(task_allocte_resources)         │
                                                             ▼               ▼
                                        pool thread: task_parse takes a command
                                                             │ task_schedule_add
                                                             ▼
                      schedule list (semaphores empty, full) ──► task_schedule executes
```

| Component | State | Operations | Hard because | Correct when |
|---|---|---|---|---|
| Thread pool, `src/threadpool.c` | queue of work nodes, `shutdown`, mutex, condition variable, thread table | `tpool_create`, `tpool_add_work`, `thread_routine`, `tpool_destroy` | lost wake-ups, `shutdown` written without the mutex, memory freed at the end | work starts once, in order; no worker sleeps through work or shutdown; nothing is freed early or twice |
| Task manager, `src/sys_task.c` | pending list, pipe, schedule list, two semaphores | trigger, allocate, parse, schedule, recycle | four kinds of threads, merged notices, bounded list, every call may fail | no command is lost or executed twice; semaphores and list agree |
| Lists, `inc/dlist.h` | `next`/`prev` of every node | `list_add_tail`, `list_del`, `list_empty`, and the moves, splices, cuts and replacements nothing uses yet | `list_empty` is called without the lock; each operation is a few stores whose order matters | the links are the queue, and the unlocked test is right; any sequence of calls leaves the lists it should |
| Serial port, `src/sys_serial_event.c`, `src/sys_event.c` | `gIhandle`, `uCrunning`, the descriptor table | `start_serial`, `event_serial`, `serial_write`, `dev_read`, `dev_write`, `dev_stop` | two threads share both variables without a lock; descriptors are reused | a stale descriptor is used as little as possible; the port is closed in the end |
| Port settings, `set_serial` | the options of the port, which outlive the program | `set_serial` | every branch must undo what another has set | after success the port has what was asked for, and the rest is as it was found |
| Server start, `sys.c`, `src/sys_event_dispatch.c` | how far `main` is, which job occupies which pool thread | `main`, `do_system_server`, `event_trigger` | threads run before the pool exists; endless jobs share the pool with short ones | the pool is there when used; the pool is large enough |
| Network interfaces, `sys.c`, `src/sys_net_event.c` | the table of interfaces | `obtain_netdev_info`, `event_ethernet_listening`, `create_sock_listen` | the table has 4 entries, the loops are not bounded by it | the table holds each interface once, and the server listens on the right one |
| HTTP server, `src/sys_net_event.c` | the global `filedata`, one descriptor, the disk | `evhttp_request_handler`, `read_file` | the document changes between `stat`, `fopen` and `fread`; a failure is not reported; the serial threads share the descriptor table | a reply holds the document asked for or nothing; nothing stays open or allocated |
| CRC, `src/crc16_1021.c` | | `crc16_1021` | a table of 256 constants | it is the remainder of a division of polynomials |
| Device list, `src/sys_dev_manage.c` | ring of devices | `sys_dev_register`, `sys_dev_unregister` | nothing calls it yet, so nothing has tested it | registered devices are in the list |
| Bluetooth, protocol headers, demos, web pages | | | compiled out, or without behaviour, or not part of the server | not modelled, see section 7 |

`PROJECT.json` lists the components with their status, and under `hazards` what
in this code is hard to test, line by line, with the properties aimed at it.

## 2. Modules

| Module | Models | Extends or instantiates |
|---|---|---|
| `WorkQueue` | what clients of the pool rely on: accept, start in order, finish, close, end | |
| `ThreadPool` | `src/threadpool.c`, lock step by lock step | instantiates `WorkQueue` as its abstract specification |
| `ThreadPoolProofs` | safety of `ThreadPool`; it implements `WorkQueue`; nobody waits for nothing | `ThreadPool` |
| `TaskManager` | `src/sys_task.c` with `event_serial` as the producer | |
| `TaskManagerProofs` | semaphores, lists and notices; where a command is, in which order and how far out of turn; what a standstill leaves; the causes of two findings | `TaskManager` |
| `PendingQueue` | an atomic queue with an unlocked test for emptiness | |
| `PendingList` | `inc/dlist.h` under `pendlock`, store by store | instantiates `PendingQueue` |
| `PendingListProofs` | the list is a ring, and implements `PendingQueue` | `PendingList` |
| `Dlist` | every operation of `inc/dlist.h`, any calls | |
| `DlistProofs` | any calls leave the lists they should | `Dlist` |
| `SerialPort` | reader and writer of the port over a descriptor table | |
| `SerialPortProofs` | safety of `SerialPort` | `SerialPort` |
| `HttpServer` | the HTTP thread, the disk and the port | extends `SerialPort` |
| `HttpServerProofs` | safety of `HttpServer`; it implements `SerialPort` | `HttpServer`, `SerialPortProofs` |
| `SerialConfig` | `set_serial` on the options of a port | |
| `NetDevices` | the table of interfaces and the search in it | |
| `StartUpProofs` | the table of interfaces is exact, the port is set as asked, and the device list shows one device at most | `NetDevices`, `SerialConfig`, `DeviceList` |
| `Crc16` | `crc16_1021` and the division it stands for | |
| `SysServer` | start-up, event jobs and task manager on one pool | extends `TaskManager` |
| `SysServerProofs` | theorems about `SysServer` | `SysServer`, `TaskManagerProofs` |
| `DeviceList` | `src/sys_dev_manage.c` | |
| `MCFunctions` | the four sequential modules one after the other | `Dlist`, `Crc16`, `SerialConfig`, `NetDevices` |
| `MC*` | values of the constants for TLC | the module they are named after |

How they fit: `ThreadPool` is shown to implement `WorkQueue`, whose view of the
pool `TaskManager` (a count of equal jobs) and `SysServer` (a queue of named
jobs) use; `PendingList` is shown to implement `PendingQueue`, whose view of the
pending list `TaskManager` uses; `SysServer` is proved to implement
`TaskManager`, so what is proved of the task manager holds in the server; and
`HttpServer` is proved to implement `SerialPort`, so what is proved of the port
holds with the HTTP thread beside it. All four refinements are checked by TLC
and proved by TLAPS.

A definition whose comment begins with "Mutant" is not part of a model. It is a
plausible bug in the definition that follows it; replacing the one by the other
must make a property fail, which shows that the property depends on that code.
`PROJECT.json` pairs each checked property with one.

### ThreadPool

Each worker has a program counter (`wpc`): in the mutex queue, testing the
list and `shutdown`, between the test and `pthread_cond_wait`, waiting, between
the test and taking a node, running, exited. The steps in between exist because
`tpool_destroy` writes `shutdown` without the mutex (line 96), so it can come
between the worker's two reads. What a caller of `tpool_add_work` does under the
mutex is one step. `heap` is the set of allocated work nodes; `accepted`,
`started` and `late` are histories. Nothing stops a caller that comes to the mutex
after `tpool_destroy` has joined the last worker (`TakenDown`): it either still
gets its node into the list, where nobody will free it once the drain loop is
over, or touches freed memory (`AddFault`). Its node is in `late`, and `HeapExact`
names these nodes as the ones that may be lost. All others are freed once nobody
uses them any more, and none before.
A signalled waiter has to take the mutex again; spurious wake-ups are allowed.

### TaskManager

A command is its place in the order of arrival. `pend`, `tasklist` and the
semaphores are what they are in the code; the pipe is the number of bytes in it,
because task_allocate ignores their value. One read takes all bytes up to
`ReadMax`. The pool is a count of queued calls and `NumWorkers` threads. Each
step under `pendlock` or `taskschlock` is one action, and `sem_wait`, the list
operation and `sem_post` are three. Failing calls (malloc of either node, write,
read, `tpool_add_work`) are actions of their own, limited by `MaxFaults`;
`misread` counts the failed reads among them, since only these make a notice out
of nothing. `dev_latest` of a node holds `Leftover`, what malloc left there.
`sem_wait` is taken to succeed (its EINTR is ignored in the code), and only the
server itself writes to the pipe.

### PendingList

`list_add_tail` is four stores and `list_del` four; the lock orders them against
other holders of the lock only. The holder has a set `todo` of stores and does
them in any order, so the model covers every order a compiler or a processor may
choose. `linked` is the queue as the other threads may think of it; it changes at
the store to the `next` field that makes the operation visible. malloc may return
an address that was freed, with `Wild` links.

### SerialPort

`table` says which file each descriptor is open on; `open` returns the lowest
free number. A call that is blocked keeps its file when the number is closed.
`dev_read` and `dev_write` repeat a call that a signal interrupts (`Interrupted`),
on the number as it is then: closed, or another file's. The process installs no
signal handler, so the model allows more here than happens today.
`read_file` of the HTTP server, in its own thread, is the rest of the process
that opens and closes files: here it does so at any time (`OtherOpens`,
`OtherCloses`), in `HttpServer` for a purpose. `touched` and `late` are
histories.

### HttpServer

`hpc` is the next call of `read_file` or `evhttp_request_handler`: `stat`,
`fopen`, `malloc` and `fread` as one step (no other thread uses the block), `fclose`,
the reply, `free`. `filedata` is the global of that name, `body` the evbuffer. A
document is its name and size; `disk` changes at any time, and a failed `stat` or
`fopen` is the document's absence or an exhausted descriptor table. The serial
threads of `SerialPort` share the descriptors: one that goes on with a stale
number can read from the file (`moved`) or close it before `fread`, and then
`fread` gets fewer bytes than `stat` promised. `%s` prints up to the first zero
byte, so a picture (a document not in `Text`) may be cut anywhere.

### Dlist

Each operation of `inc/dlist.h` is a function from the links to the links: the
composition of its stores in the order of the code, reading what it reads when it
reads it. The actions call them in any legal sequence: an entry is added when it
is in no list, a head is used when it is initialised. `lists` is what the calls
should have made, by sequence operations that do not look at the links.

### SerialConfig, NetDevices, Crc16

`SerialConfig` calls `set_serial` again and again on a port that may have any of
the options in `FoundPorts` at first; `WithSettings` is the composition of its
branches in their order. `set_serial` writes to `c_cflag`, to OPOST of `c_oflag`,
to INPCK of `c_iflag`, and to VMIN and VTIME. It touches nothing of `c_lflag`, and
neither ICRNL nor IXON; `found` holds the options of the start, so that
`PortAsAsked` can say that these bits are still those. The model has no other bits
of `c_iflag`, `c_lflag` and `c_oflag`: no line of `set_serial` tells them from the
ones it has. `NetDevices` goes through `obtain_netdev_info` interface by
interface and then through `event_ethernet_listening`; the entries that the loops
can reach behind the end of the table are modelled as entries, so that an overrun
is a state and not an error of the model. `Crc16` has the table of the source, and
beside it the division bit by bit.

### SysServer

The steps of the task manager are those of `TaskManager`, joined with the queue
of the pool: a pool thread begins a call of `task_allocte_resources` only when
that is at the head of the queue and the thread is in no event. The two loops of
the serial port appear as roles that occupy threads. `event_ethernet` returns
after creating the HTTP thread, since `__HTTP_ENABLE__` is 1. A reader that is
not able to start is, for the task manager, one that stops at once
(`StopReading`). `WriterLeaves` is possible at any time, which allows more than
the loop does.

### DeviceList

Register and unregister are one action each, under `devmlock`. A device whose
links nobody initialised is registered through wild pointers (`fault`); the run
below is about a caller that initialises them.

## 3. Runs

| Run | Instance | Shows |
|---|---|---|
| `pool_safety` | 3 workers (4 asked for, limit 3), 2 callers (symmetric), 4 jobs | no lost wake-up, order, no node freed early or lost but those of late callers, one owner, shutdown reaches all, destroy is alone |
| `pool_live` | 2 workers (the default, for a request of 0), 2 callers, 3 jobs, one of which need not return | work is served, destroy returns, refinement of `WorkQueue` |
| `task` | 3 pool threads, schedule list of 2, pipe of 3, reads of 2, 3 commands, 2 failures of any kind | semaphores and list agree, no NULL task, no command lost or doubled, order of taking and who can be overtaken, notices covered but for the failed reads; a taken command is executed, and a queued call gets the oldest command executed |
| `pending_list` | 4 addresses, 1 adder, 2 takers | ring, unlocked test, single ownership, refinement of `PendingQueue` |
| `serial` | `MCHttpServer`: 2 descriptors, one page and one picture, sizes 0 and 1 | window of staleness, at most one late call, port closed, failed start winds down; replies hold what was asked for, nothing leaks, requests are answered, refinement of `SerialPort` |
| `server` | 3 pool threads, schedule list of 1, 2 commands, 1 failure | pool ready, events once, three threads suffice, task manager implemented |
| `functions` | 2 heads and 3 entries; all messages of up to 2 bytes; 3 speeds, 3 flow controls, 2 sizes, 5 parities, 3 stop bits, on a port nobody has used and on one with other options; 4 interfaces and a table of 2 | lists are the sequences the calls should make, the checksum is the remainder, the port is set as asked and otherwise as it was, the table of interfaces holds each one |
| `task_stranded` | 2 commands, nothing fails | **violated**: a command is left in the pending list |
| `task_recycle` | 1 command | **violated**: free of an uninitialised pointer |
| `serial_stale` | 2 descriptors | **violated**: the reader reads another file |
| `device_list` | 2 devices | **violated**: a registered device is not in the list |
| `net_down` | 2 interfaces and the loopback | **violated**: an interface that is down is in the table |

Why the bounds are enough. Three workers let one sleep, one run and one be on
its way at the same time, and four jobs keep the queue longer than one while
they do. In the task manager, reads of two bytes from a pipe that holds three
merge some notices and not others and fill the pipe; a schedule list shorter
than the number of pool threads blocks them on a full list. Four addresses allow
two nodes in the list, one in each taker's hands, and reuse. The port and
`read_file` have one descriptor open each at most, so with two numbers a third
would never be the lowest free one, and a document gets the port's number after
a close. A number is then always left for `fopen`, so in this run it fails only
because the document has gone since `stat`; that the descriptors may be used up
is in the model (`FreeFds = {}`) and in the theorems, whose `Fds` is any set. A
size of one is the least that a short `fread` can lose something of. Three
entries are the least whose list can be cut in its middle, and two heads let
every list go to another one. A message of two bytes takes every entry of the
CRC's table through both halves of the sum. `set_serial` is called in every
order of the settings that take different branches, on a port with the kernel's
options (line mode, echo, ICRNL, IXON) and on one that has each of these bits
the other way and odd parity, hardware flow control and two stop bits. A table
of two and three interfaces beside the loopback overrun it. Three pool threads
are the least for which `PoolSuffices` can hold, since two are kept by the
serial port. The real sizes (128 threads, 2048 slots, reads of 127 bytes) only
make the interesting cases rarer.

`CHECK_DEADLOCK FALSE` is used where the system may stop: all jobs or commands
are through, the pool is gone, `exit` was called, or all inputs of a sequential
part are used up. `pending_list` and `serial` are checked for deadlock.

### Fairness

The operating system runs every thread that can run, so each thread has weak
fairness on its own steps, and on nothing that waits for the world: commands need
not arrive, `read` and `fgets` need not return, nobody has to submit work or call
`tpool_destroy`, calls need not fail, and routines in `Forever` need not return.
Weak fairness is enough for the mutex in `pool_live` because each worker's steps
are joined in one formula and the properties need only some worker to go on.
`SysServer` assumes besides that starting the port and `event_ethernet` return.
The HTTP thread has weak fairness on the calls of a request it has begun, none of
which waits for anything; requests need not come, and documents need not change.

## 4. Findings

1. `task_stranded` (`src/sys_task.c:41`). A read of the pipe returns the bytes of
   several notices, and task_allocate makes one call of task_allocte_resources
   for them, which takes one command. The rest wait until further commands
   arrive, and the backlog never goes. `OldestExecuted` says what is left: each
   call does get the oldest command executed. Proved: merging is the whole cause
   (`SingleNoticesStrandNothing`), and one in a batch of commands is taken
   (`MergedNoticesBounded`).
2. `task_recycle` (`src/sys_task.c:265`). `dev_latest` is freed without ever
   having been set; task_parse allocates with malloc. Proved: with memory that is
   zero it frees what it should (`ClearedFieldFreesNothingElse`).
3. `serial_stale` (`src/sys_event.c:18`, `38`). `CLOSEFD` clears a parameter, not
   `gIhandle`. `StaleOnlyAfterFailure` and `AtMostOneLateCall` bound the damage.
   Proved: before a call on the port has failed, its threads touch no other file
   (`OthersOnlyAfterFailure`).
4. `device_list` (`src/sys_dev_manage.c:36`). The arguments of `list_add` are
   exchanged. The first device survives it; the next registration cuts it off.
   Proved: one device at most is ever found in the list, whatever is registered
   (`RegisterMovesHead`).
5. `net_down` (`sys.c:106`). The flags of an interface are asked for and never
   looked at, while the comment above says that an interface that is not up is
   ignored. In the short table it takes the place of one that is.

Seen while reading and not stated as runs: `status` of a task is never set to
`START` though `inc/sys_task.h:117` says so; `reference/task_schedule.txt` has
the scheduler take a pool thread to execute a task, and the code executes it in
the scheduler's thread; `pthread_create(...) < 0` never sees an error; the main
loop never ends, so `tpool_destroy` is never called; flow control 2 puts three
bits of `c_iflag` into `c_cflag` (`src/sys_serial_event.c:161`), where they mean
other things, one of them half of the speed (`PortAsAsked` names the case; the
server asks for 0); `set_serial` clears OPOST and nothing of `c_lflag`, ICRNL
and IXON (lines 221-224), so a port that was not in use before keeps line mode
and echo, where VMIN and VTIME have no effect, and software flow control,
although the server asks for flow control 0; `evhttp_request_handler` puts a
longer path into the block that `strdup` made for the URI
(`src/sys_net_event.c:152`, `155-156`), which writes behind the block for each
request; `inc/crc16.h` gives the polynomial as 0x8005 where the code has 0x1021;
with more than four interfaces `obtain_netdev_info` writes behind its table, and
without an `eth0` the server listens on the entry behind it (`NetTableExact`
says that these are the only cases); `obtain_netdev_info` does not close its
socket.

## 5. Proofs

All proofs are for arbitrary values of the constants under the modules' named
assumptions, which TLC also evaluates in the runs.

**ThreadPoolProofs.** `IndInv` is the conjunction of `TypeOK`; `NodeInv`, what a
worker or caller at each place of its code has in hand; `LockInv`, that exactly
the holder of the mutex is in the critical section; `SeenInv`, what a worker has
read and may still rely on (a worker between test and sleep saw an empty list,
which nobody can have filled since); and `StageInv`, how far the main thread is
with creating and joining. `NoStrandedJob` needs a count of workers: a step moves
one worker from one set of states to another, and the lemmas on `WorkersIn` say
how cardinalities follow. From `IndInv`: `TypeCorrect`, `BroadcastReachesAll`,
`DestroyIsAlone`; with it, as separate inductions, `NoLostWakeup` and
`FifoOrder`. The broadcast is the delicate point: `NoSleeperAfterBroadcast` is
not inductive without `SeenInv` and `LockInv`, because `shutdown` is written
without the mutex. `OneOwner` follows from `OwnerInv`: a node is allocated
exactly when it is in the list or in one hand, and hands and list share none. That
does not say that each node is freed, since the list and a hand may be ones that
nobody comes back to. `OnlyLateLeft` adds which nodes those are (`LateInv`): what
is in the list behind the drain loop, and what a caller has that met a freed pool,
came after the last join. From both follows `HeapExact`.

`PoolImplementsWorkQueue`, at the end of the module, is a step simulation. It
rests on `RefInv`, the invariants above with `JobInv`: a job is accepted once,
and what runs has been started. The abstract queue bounds the work in progress by
the size of the pool; `WorkerLeft` shows that a worker about to start has room,
by mapping workers onto the jobs in their hands.

The last section proves what liveness rests on, short of fairness. For
`JobServed`, `WorkIsLookedAfter`: while the list of an open pool is not empty,
either all workers run routines, or one that is on its way to the list can make
its next step. It is `NoLostWakeup` with `LockInv` (the mutex is free, or its
holder can go on) and `BornInv` (how many workers have been created). For
`DestroyReturns`, `DestroyNeverStuck` says that `tpool_destroy` waits only for a
mutex that is given back and for a worker that can go on or runs its routine, and
`PoolWindsDown` gives the measure: after line 96 each worker's `StepsLeft`
decreases with each of its steps. What TLC adds is that the scheduler lets them
run.

**TaskManagerProofs.** The inductive invariant joins `TypeOK`, `SemBalance` and
what each thread holds in its hand. A thread between `sem_wait` and `sem_post` is
counted in `SemBalance`, so every action is a move of one unit between terms;
`CountMoves` gives the two cardinalities. `NoEmptyPop` follows from the balance
at the scheduler's `pop`. `NoticesCovered` adds that each notice in the pipe, in
task_allocate, in the pool's queue or about to be written has its command, but
for as many as reads of the pipe have failed (`misread`), whatever else has.

`HandOverGoesOn` draws the consequence of `SemBalance`: the two semaphores of
`sys_task.c` cannot bring everybody to a halt, since a thread that waits for a
slot means that the list is full, and then `full` is up, or a thread is about to
raise it, or the scheduler is not waiting.

`PendingFifo` is not inductive alone: `OrderInv` adds that everything in the
list or in a hand has arrived already, so what `task_pending_add` appends is the
newest. Its second half, that an overtaken command is in a pool thread's hand,
follows from `OneInv`: the command has one place, and the order leaves no other
(`OvertakenInHand`). `OnePlace` counts a command's places: in two lists, in the
hand of each thread, and among the executed and the lost. The lemmas on
`EntriesIn` say how a count changes when a sequence grows or loses its head, and
each action moves one unit from one place to another.

How far out of turn a command can be executed is `CommandsKeepTheirTurn`.
Between `task_parse` and `task_schedule_add` nothing orders the pool threads,
but each has one command only. `LeadInv` is that bound for every place in the
line of scheduled commands (executed, in the scheduler's hand, in the list).
When a command enters the line, those before it that are not in it are dropped
or in a hand, and one hand is its own (`FewAhead`). `ScheduledInPlace` says that
afterwards the line grows at its end and nothing in it moves, so the bound is
one on the execution.

`NothingLeftHalfway` asks what a standstill looks like. If no thread can move,
whatever calls have failed before, then no pool thread waits in the middle of its
work, the schedule list is empty, and a command is executed, dropped or still
pending: the two semaphores and the pipe together cannot hold work that was begun.
It needs `SemBalance` and the place of each command.

Two findings have their causes proved. `MergedNoticesBounded` rests on
`BatchInv`: a pending command has its notice on the way, or is one of at most
`Batch` that a round of task_allocate stands for, or one of at most `Batch - 1`
left over by a command that was taken. With `Batch = 1`
it says that none is stranded. `ClearedFieldFreesNothingElse` keeps that every
node has the `dev_latest` that its allocation left.

**PendingListProofs.** While stores are outstanding the links are neither the old
ring nor the new one, and the order of the stores is open, so no invariant of the
links themselves is simple. `RingInv` is about the list *as it will be*:
`NextDone` and `PrevDone` are the fields with the stores of `todo` done, and they
are a ring through `LinkedDone` at every moment. Doing a store changes neither
(`DoneStore`); starting an operation is the algebra of `list_add_tail` and
`list_del` on a ring (`AddedRing`, `DeletedRing`); with the lock free both are
the list itself. `HeadInv` says that the field `list_empty` reads is right at
every moment, since one store of an operation at most goes to it (`StoreInv`).
From these come `RingIsQueue`, `UnlockedEmptyIsExact`, `OnePlace` and the
refinement of `PendingQueue`, for every order of the stores, any addresses and
any threads.

**SerialPortProofs.** `IndInv` joins who has begun (`StartInv`), that calls are
made on `gIhandle` and the port is open under no other number (`CloseInv`), that
numbers are what they were opened for until a call fails (`HealthInv`), and that
a late call is the last (`LateInv`). `LowestIsFree` is all that is used of the
order of descriptors. `OthersOnlyAfterFailure` adds to it that the file of a call
in progress is the port until one fails. `FailedStartWaitsForNothing` is the
safety half of `FailedStartWindsDown`: with `gIhandle` at -1 from the start no
thread is in a call or at the keyboard, and every step of one brings it nearer
to its end (`ToTheEnd`).

**HttpServerProofs.** `ServerImplementsPort` is a step simulation with the
identity as mapping; `PortBesideServer` carries the results about the port over.
`OwnInv` says which descriptors are `read_file`'s, `LeakInv` what it holds at
each call, and `ReplyInv` what `filedata` and the reply can be there as long as
the port has not failed and the disk has not changed. `RequestGoesOn` is the
safety half of `RequestAnswered`: at each place the next call has an outcome,
and each of the at most six calls brings the handler nearer to the reply,
whatever the serial threads close under it.

**SysServerProofs.** `ServerImplementsManager` is a step simulation with the
identity as mapping, by cases of `SysNext`. With it `ManagerInServer` carries
every safety invariant of the task manager into the server, and `DefectsInServer`
the causes of its two findings. `PoolReady` uses
`BootInv`: before the pool is there, nothing is pending and every pool thread is
idle. `EventsInOnePlace` uses `PlaceInv`: an event is in the queue once or on one
thread, and not before the dispatch has come to it; the writer is there only
after the reader has begun. `PoolSuffices` is liveness and stays with TLC; what
it rests on is proved. `PoolIsShared`: what `TaskManager` counts as submitted
jobs are the calls in the queue of the real pool, and a thread in an event has no
task in its hands. `PoolKeepsTwo`: the loops of the port keep two threads at
most. `PoolNeverHalts` joins these with `NoMutualWait`: of three threads or more,
one can take the next job or go on, or the scheduler can.

**DlistProofs.** The invariant is `Holds`: the ring of every initialised head
goes through the entries of its list, one link after the other and each in both
directions; no entry is twice in a list or in two; and an entry that was
reinitialised points to itself. The proof has four layers. First, what the stores
of an operation, one after the other, come to (`InsertDoes`, `UnlinkDoes`,
`ReplaceDoes`, `CutDoes`, `SpliceDoes`): the links that are made, and the fields
that are not stored to. This is where the order of the stores matters, and where
two of the cells may be the same one. Then what such links make of a ring
(`RingInsert` and its like), by the place of each cell. Then the same of all
lists and entries together (`HoldsInsert` and its like), because rings have no
cell in common. Then one step for each call of `DlistNext`. TLC had checked the
invariant on the instance of `functions`.

**StartUpProofs.** `TableIsExact`: with `num` reports still to go, the table
holds those behind it, each at the place that the number of reports behind it
says (`Filled`), and this number grows by one with each report that is not of
the loopback. The search keeps that no entry before `idx` is `eth0`.
`PortIsAsAsked`: `PortAsAsked` is inductive with the type of the options and
`SameInput`, that line mode, echo, signals, ICRNL and IXON are as they were
found. Each setting is shown to do its part, and to leave those alone, whatever
the port had before (`SpeedIsSet`, `FlowIsSet`, `ParityIsSet`, `StopIsSet`); the
branches have to be taken in their order, because a later one may touch the bits
of an earlier one. `RegisterMovesHead`: `DeviceInv` says that the `next` of a
device leads to itself, to the head or nowhere, never to another device, since
the cells that `list_add` links are the head and one device; `Listed` is the
least set that a walk from the head closes, so the head and the device after it
are enough to bound it.

Only model-checked: liveness itself (`JobServed`, `DestroyReturns`,
`AcquiredExecuted`, `OldestExecuted`, `PoolSuffices`, `FailedStartWindsDown`,
`RequestAnswered`), since fairness and ENABLED are beyond the prover, and of
these the safety halves named above are proved; and `CrcIsRemainder`, since the
checksum is a fold with `Bitwise`, which the prover cannot use, and what it
yields for every message would need induction over the message. Every safety
property of a passing run but this one is a theorem.

The assumptions are those on the constants: `HeadsAssumption` (a head is not
inside of an entry), `NetAssumption` (the loopback and `eth0` are two names,
neither of them that of an empty entry, and the table has `MaxNum` entries of the
`BufNum + 1` that can be reached), and the ones named in the other modules. Of a
port `FoundAssumption` says only that it has options; the settings have no
assumption. `RegisterMovesHead` assumes in its statement what a memory
gives: the head of the list is not inside of a device, and a wild pointer is no
device's address.

## 6. Plan

Done, in this order: `ThreadPool` (with `WorkQueue`), `TaskManager`, their first
theorems, `PendingList`, `SerialPort`, `SysServer`, `DeviceList`; then
`HttpServer`, `Dlist`, `Crc16`, `SerialConfig`, `NetDevices`, the proofs of
every refinement and every invariant of the concurrent parts; then those of the
sequential parts and of what the parts owe each other on the shared pool; and last
the order of execution, the causes of the findings, and the safety halves of
liveness.

Left: what the hazards without a property name. Descriptors that `open_serial` leaks and
threads that `pthread_create` failed to start need the failures to be told apart
in `SerialPort` and `TaskManager`. `DeviceList` can grow when something calls
register and unregister.

## 7. Not modelled, and why

- The contents of commands and of the network parameters: nothing in the code
  depends on them.
- `exit` on failed calls in `tpool_create`, except as an outcome of the start in
  `SysServer`: a process that is gone has no properties.
- libevent, which calls the handler for one request after the other, and the
  headers of a reply. The path of a request is taken to fit into the block it is
  written to, although it does not (section 4): what the write behind the block
  does to the heap is not in the model. `malloc` in `read_file` is taken to
  succeed. The branch without
  `__HTTP_ENABLE__` is compiled out and its callbacks are empty.
- The iteration macros of `inc/dlist.h`, which change nothing.
- The ioctls of `obtain_netdev_info` other than as calls that may fail, and what
  `system_info_init` prints.
- `src/sys_bt_event.c`: compiled out (`__BLUETOOTH__` is not defined).
- `demo/`, `www/`, `design-doc/`, the autotools files: not part of the program.
