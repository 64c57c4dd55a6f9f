----------------------------- MODULE SerialPort -----------------------------
(***************************************************************************)
(* The two threads that share the serial port: event_serial, which starts  *)
(* the port and reads from it, and serial_write, which it submits to the   *)
(* thread pool (src/sys_serial_event.c), on top of dev_read, dev_write and *)
(* dev_stop (src/sys_event.c).                                             *)
(*                                                                         *)
(* They share gIhandle and uCrunning without a lock.  dev_read and         *)
(* dev_write get the descriptor by value and close it when a call fails,   *)
(* so gIhandle keeps the number of a descriptor that is closed, and that   *)
(* the next open in the process, here read_file's in src/sys_net_event.c,  *)
(* may get.  A call that is blocked keeps the file it was made on, unless  *)
(* a signal interrupts it and it is made again.                            *)
(*                                                                         *)
(* What happens to the data that is read is in TaskManager.                *)
(***************************************************************************)
EXTENDS Integers, FiniteSets, FiniteSetsExt

CONSTANT Fds   \* descriptors that are free when event_serial starts

ASSUME FdsAssumption == IsFiniteSet(Fds) /\ Fds \subseteq Nat \ {0}

Threads == {"reader", "writer"}
Files == {"serial", "other"}

LoopStates ==
  {"loop",   \* about to test uCrunning
   "ready",  \* about to call dev_read or dev_write
   "call",   \* in read or write
   "error",  \* the call has failed, CLOSEFD is next
   "stop",   \* about to call evop_stop
   "exit"}
ReaderStates == LoopStates \cup
  {"start",
   "failed",  \* evop_start has returned -1
   "submit"}  \* about to submit serial_write
WriterStates == LoopStates \cup
  {"none",    \* not submitted
   "queued",  \* in the queue of the pool
   "input"}   \* in fgets

VARIABLES
  table,    \* which file each descriptor of the process is open on
  running,  \* uCrunning
  handle,   \* gIhandle
  pc,       \* where each thread is
  fd,       \* the descriptor a thread has passed to dev_read or dev_write
  file,     \* the file its read or write is made on
  otherFd,  \* the descriptor of read_file, 0 when it has none
  touched,  \* history: the files each thread has read or written
  late      \* history: calls each thread has made when uCrunning was 0

vars == <<table, running, handle, pc, fd, file, otherFd, touched, late>>

Init ==
  /\ table = [f \in Fds |-> "free"]
  /\ running = FALSE
  /\ handle = 0
  /\ pc = [t \in Threads |-> IF t = "reader" THEN "start" ELSE "none"]
  /\ fd = [t \in Threads |-> -1]
  /\ file = [t \in Threads |-> "none"]
  /\ otherFd = 0
  /\ touched = [t \in Threads |-> {}]
  /\ late = [t \in Threads |-> 0]

FreeFds == {f \in Fds : table[f] = "free"}
IsOpen(f) == f \in Fds /\ table[f] # "free"
Goto(t, state) == pc' = [pc EXCEPT ![t] = state]

-----------------------------------------------------------------------------
(* start_serial, and event_serial up to its loop                           *)

\* Nobody else looks at the port yet.  What evop_set returns is ignored.
StartOpens ==
  /\ pc["reader"] = "start"
  /\ FreeFds # {}
  /\ running' = TRUE
  /\ handle' = Min(FreeFds)
  /\ table' = [table EXCEPT ![Min(FreeFds)] = "serial"]
  /\ Goto("reader", "submit")
  /\ UNCHANGED <<fd, file, otherFd, touched, late>>

StartFailsToOpen ==
  /\ pc["reader"] = "start"
  /\ running' = TRUE
  /\ handle' = -1
  /\ Goto("reader", "failed")
  /\ UNCHANGED <<table, fd, file, otherFd, touched, late>>

\* fcntl fails, or standard input is no terminal: open_serial returns -1 and
\* leaves the descriptor open.
StartLeaks ==
  /\ pc["reader"] = "start"
  /\ FreeFds # {}
  /\ running' = TRUE
  /\ handle' = -1
  /\ table' = [table EXCEPT ![Min(FreeFds)] = "serial"]
  /\ Goto("reader", "failed")
  /\ UNCHANGED <<fd, file, otherFd, touched, late>>

\* Mutant: a failed start is only logged.
StartFailureIgnored ==
  /\ pc["reader"] = "failed"
  /\ Goto("reader", "submit")
  /\ UNCHANGED <<running, table, handle, fd, file, otherFd, touched, late>>

StopAfterFailure ==
  /\ pc["reader"] = "failed"
  /\ running' = FALSE
  /\ Goto("reader", "submit")
  /\ UNCHANGED <<table, handle, fd, file, otherFd, touched, late>>

\* Mutant: event_serial is submitted once more in the place of serial_write.
SubmitReader ==
  /\ pc["reader"] = "submit"
  /\ \E w \in {"start", "none"} :
       pc' = [pc EXCEPT !["reader"] = "loop", !["writer"] = w]
  /\ UNCHANGED <<table, running, handle, fd, file, otherFd, touched, late>>

\* The writer is submitted after a failed start as well, and what
\* tpool_add_work returns is ignored.
SubmitWriter ==
  /\ pc["reader"] = "submit"
  /\ \E w \in {"queued", "none"} :
       pc' = [pc EXCEPT !["reader"] = "loop", !["writer"] = w]
  /\ UNCHANGED <<table, running, handle, fd, file, otherFd, touched, late>>

\* A worker of the pool takes the job.
WriterBegins ==
  /\ pc["writer"] = "queued"
  /\ Goto("writer", "loop")
  /\ UNCHANGED <<table, running, handle, fd, file, otherFd, touched, late>>

-----------------------------------------------------------------------------
(* The two loops                                                           *)

\* Mutant: the loop goes on while the descriptor is open.
TestHandle(t) ==
  /\ pc[t] = "loop"
  /\ Goto(t, IF ~running /\ (handle < 0 \/ ~IsOpen(handle)) THEN "exit"
             ELSE IF t = "writer" THEN "input" ELSE "ready")
  /\ UNCHANGED <<table, running, handle, fd, file, otherFd, touched, late>>

TestRunning(t) ==
  /\ pc[t] = "loop"
  /\ Goto(t, IF ~running THEN "exit"
             ELSE IF t = "writer" THEN "input" ELSE "ready")
  /\ UNCHANGED <<table, running, handle, fd, file, otherFd, touched, late>>

\* fgets on standard input returns, if it does.
LineTyped ==
  /\ pc["writer"] = "input"
  /\ Goto("writer", "ready")
  /\ UNCHANGED <<table, running, handle, fd, file, otherFd, touched, late>>

\* dev_read or dev_write makes its system call on the number in gIhandle.
Call(t) ==
  /\ pc[t] = "ready"
  /\ fd' = [fd EXCEPT ![t] = handle]
  /\ IF IsOpen(handle)
     THEN file' = [file EXCEPT ![t] = table[handle]] /\ Goto(t, "call")
     ELSE UNCHANGED file /\ Goto(t, "error")
  /\ late' = IF running THEN late ELSE [late EXCEPT ![t] = @ + 1]
  /\ UNCHANGED <<table, running, handle, otherFd, touched>>

\* The call transfers data.  event_serial hands it to the task manager.
CallSucceeds(t) ==
  /\ pc[t] = "call"
  /\ touched' = [touched EXCEPT ![t] = @ \cup {file[t]}]
  /\ file' = [file EXCEPT ![t] = "none"]
  /\ Goto(t, "loop")
  /\ UNCHANGED <<table, running, handle, fd, otherFd, late>>

\* EINTR: dev_read and dev_write make the call again, on the same number, which
\* may be closed by then or open on another file.
Interrupted(t) ==
  /\ pc[t] = "call"
  /\ IF IsOpen(fd[t])
     THEN file' = [file EXCEPT ![t] = table[fd[t]]] /\ UNCHANGED pc
     ELSE file' = [file EXCEPT ![t] = "none"] /\ Goto(t, "error")
  /\ UNCHANGED <<table, running, handle, fd, otherFd, touched, late>>

\* It returns 0 or an error other than EINTR.
CallFails(t) ==
  /\ pc[t] = "call"
  /\ file' = [file EXCEPT ![t] = "none"]
  /\ Goto(t, "error")
  /\ UNCHANGED <<table, running, handle, fd, otherFd, touched, late>>

\* Mutant: the descriptor is left open.
CloseNothing(f) == table' = table

\* CLOSEFD: the number is closed, whoever has it now.  A number that is not
\* open gives EBADF, which is ignored.
CloseFd(f) ==
  IF IsOpen(f) THEN table' = [table EXCEPT ![f] = "free"] ELSE UNCHANGED table

CloseOnError(t) ==
  /\ pc[t] = "error"
  /\ CloseFd(fd[t])
  /\ Goto(t, "stop")
  /\ UNCHANGED <<running, handle, fd, file, otherFd, touched, late>>

\* Mutant: evop_stop is not called.
StopMissing(t) ==
  /\ pc[t] = "stop"
  /\ Goto(t, "loop")
  /\ UNCHANGED <<table, running, handle, fd, file, otherFd, touched, late>>

Stop(t) ==
  /\ pc[t] = "stop"
  /\ running' = FALSE
  /\ Goto(t, "loop")
  /\ UNCHANGED <<table, handle, fd, file, otherFd, touched, late>>

-----------------------------------------------------------------------------
(* read_file, in the thread of the HTTP server: fopen and fclose           *)

OtherOpens ==
  /\ otherFd = 0
  /\ FreeFds # {}
  /\ otherFd' = Min(FreeFds)
  /\ table' = [table EXCEPT ![Min(FreeFds)] = "other"]
  /\ UNCHANGED <<running, handle, pc, fd, file, touched, late>>

OtherCloses ==
  /\ otherFd # 0
  /\ CloseFd(otherFd)
  /\ otherFd' = 0
  /\ UNCHANGED <<running, handle, pc, fd, file, touched, late>>

-----------------------------------------------------------------------------
Start == StartOpens \/ StartFailsToOpen \/ StartLeaks \/ StopAfterFailure
         \/ SubmitWriter

\* The steps of a thread that do not wait for the device or the keyboard.
Prompt(t) == TestRunning(t) \/ Call(t) \/ CloseOnError(t) \/ Stop(t)

Other == OtherOpens \/ OtherCloses

Next ==
  \/ Start \/ WriterBegins \/ LineTyped
  \/ \E t \in Threads :
       Prompt(t) \/ CallSucceeds(t) \/ Interrupted(t) \/ CallFails(t)
  \/ Other

Spec == Init /\ [][Next]_vars

\* Both threads run, and the pool serves the job (ThreadPool's JobServed, the
\* pool being larger than the jobs that never return).  Nothing is assumed of
\* the device, the keyboard and the HTTP server.
Fairness ==
  /\ WF_vars(Start)
  /\ WF_vars(WriterBegins)
  /\ \A t \in Threads : WF_vars(Prompt(t))

FairSpec == Spec /\ Fairness

-----------------------------------------------------------------------------
(* Properties.                                                             *)

TypeOK ==
  /\ table \in [Fds -> Files \cup {"free"}]
  /\ running \in BOOLEAN
  /\ handle \in Fds \cup {-1, 0}
  /\ pc \in [Threads -> ReaderStates \cup WriterStates]
  /\ pc["reader"] \in ReaderStates
  /\ pc["writer"] \in WriterStates
  /\ fd \in [Threads -> Fds \cup {-1, 0}]
  /\ file \in [Threads -> Files \cup {"none"}]
  /\ otherFd \in Fds \cup {0}
  /\ touched \in [Threads -> SUBSET Files]
  /\ late \in [Threads -> Nat]

Started == pc["reader"] \notin {"start", "failed"}

\* gIhandle is the descriptor of the port as long as uCrunning is 1, but for
\* the instant between the close and the evop_stop of a thread whose call has
\* failed: the window in which the other thread can use a stale number has no
\* other way in.
StaleOnlyAfterFailure ==
  Started /\ running /\ (\A t \in Threads : pc[t] # "stop") =>
    handle \in Fds /\ table[handle] = "serial"

\* A thread calls dev_read or dev_write at most once after evop_stop: the call
\* it was about to make when the other thread's failed.
AtMostOneLateCall == \A t \in Threads : late[t] <= 1

\* When both threads are through, no descriptor of the port that was opened
\* successfully is left open, whichever call failed first.
PortClosedAtExit ==
  handle > 0 /\ pc["reader"] = "exit" /\ pc["writer"] \in {"none", "exit"} =>
    \A f \in Fds : table[f] # "serial"

\* After a failed start both threads leave, and wait for nothing on the way:
\* neither for the keyboard nor for a port that is not there.
FailedStartWindsDown ==
  (pc["reader"] = "failed")
    ~> (pc["reader"] = "exit" /\ pc["writer"] \in {"none", "exit"})

\* inc/sys_event.h:39: "if 'eth0' has read event, then the @evop_read will do
\* read data from 'eth0'".  What event_serial reads comes from the port.
ReadsOwnDevice == touched["reader"] \subseteq {"serial"}

=============================================================================
