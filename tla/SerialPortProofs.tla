-------------------------- MODULE SerialPortProofs --------------------------
(***************************************************************************)
(* Safety of the serial port for any set of descriptors.                   *)
(***************************************************************************)
EXTENDS SerialPort, WellFoundedInduction, TLAPS

StopPending == \E t \in Threads : pc[t] = "stop"

\* Until event_serial has submitted the writer it is alone with the port.
StartInv ==
  /\ pc["reader"] = "start" =>
       handle = 0 /\ ~running /\ \A f \in Fds : table[f] # "serial"
  /\ pc["reader"] = "failed" => handle = -1
  /\ pc["reader"] \in {"start", "failed", "submit"} => pc["writer"] = "none"

\* gIhandle does not change any more, so a call is made on it and its failure
\* closes it.  The port is open under no other number, and is not opened again.
CloseInv ==
  /\ \A t \in Threads : pc[t] = "exit" => ~running
  /\ \A t \in Threads : pc[t] \in {"call", "error"} => fd[t] = handle
  /\ \A t \in Threads : pc[t] = "call" => file[t] \in Files
  /\ handle > 0 =>
       \A f \in Fds : table[f] = "serial" => f = handle /\ running /\ ~StopPending

\* Until a call fails, each number is open on the file it was opened for.
HealthInv ==
  /\ StaleOnlyAfterFailure
  /\ (~Started \/ (running /\ ~StopPending)) /\ otherFd # 0 =>
       table[otherFd] = "other"

\* A thread that has made its late call does not come back to make another.
LateInv ==
  \A t \in Threads :
    late[t] # 0 =>
      /\ late[t] = 1 /\ ~running
      /\ pc[t] \in {"call", "error", "stop", "loop", "exit"}

IndInv == TypeOK /\ StartInv /\ CloseInv /\ HealthInv /\ LateInv

-----------------------------------------------------------------------------
\* open returns a number that was free.
LEMMA LowestIsFree == ASSUME FreeFds # {} PROVE Min(FreeFds) \in FreeFds
<1>1. FreeFds \subseteq Nat
  BY FdsAssumption DEF FreeFds
<1>2. \E x \in FreeFds : \A y \in FreeFds : ~(<<y, x>> \in OpToRel(<, Nat))
  BY <1>1, NatLessThanWellFounded, WFMin
<1>3. \E x \in FreeFds : \A y \in FreeFds : x <= y
  <2>1. PICK x \in FreeFds : \A y \in FreeFds : ~(<<y, x>> \in OpToRel(<, Nat))
    BY <1>2
  <2>2. ASSUME NEW y \in FreeFds PROVE x <= y
    <3>1. y \in Nat /\ x \in Nat /\ <<y, x>> \in Nat \X Nat
      BY <1>1
    <3>2. <<y, x>> \notin OpToRel(<, Nat)
      BY <2>1
    <3>3. ~(y < x)
      BY <3>1, <3>2 DEF OpToRel
    <3> QED
      BY <3>1, <3>3
  <2> QED
    BY <2>2
<1> QED
  BY <1>3 DEF Min

\* The server starts with no descriptor of its own.
LEMMA IndInit == Init => IndInv
<1> SUFFICES ASSUME Init PROVE IndInv
  OBVIOUS
<1> USE DEF Init, Threads
<1>1. TypeOK
  BY DEF TypeOK, Files, ReaderStates, WriterStates, LoopStates
<1>2. StartInv /\ CloseInv
  BY DEF StartInv, CloseInv, StopPending
<1>3. HealthInv /\ LateInv
  BY DEF HealthInv, LateInv, StopPending, StaleOnlyAfterFailure, Started
<1> QED
  BY <1>1, <1>2, <1>3 DEF IndInv

\* event_serial up to its loop.
LEMMA IndStart == ASSUME IndInv, Start PROVE IndInv'
<1> USE FdsAssumption
    DEF IndInv, TypeOK, StartInv, CloseInv, HealthInv, LateInv, StopPending,
        StaleOnlyAfterFailure, Started, Threads, Files, ReaderStates,
        WriterStates, LoopStates, Goto
<1>1. CASE StartOpens
  <2>1. PICK f \in FreeFds : handle' = f /\ table' = [table EXCEPT ![f] = "serial"]
    BY <1>1, LowestIsFree DEF StartOpens
  <2> QED
    BY <1>1, <2>1 DEF StartOpens, FreeFds
<1>2. CASE StartFailsToOpen
  BY <1>2 DEF StartFailsToOpen
<1>3. CASE StartLeaks
  <2>1. PICK f \in FreeFds : table' = [table EXCEPT ![f] = "serial"]
    BY <1>3, LowestIsFree DEF StartLeaks
  <2> QED
    BY <1>3, <2>1 DEF StartLeaks, FreeFds
<1>4. CASE StopAfterFailure
  <2> USE <1>4 DEF StopAfterFailure
  <2>1. TypeOK'
    OBVIOUS
  <2>2. StartInv' /\ LateInv'
    OBVIOUS
  <2>3. CloseInv'
    OBVIOUS
  <2>4. HealthInv'
    OBVIOUS
  <2> QED
    BY <2>1, <2>2, <2>3, <2>4
<1>5. CASE SubmitWriter
  BY <1>5 DEF SubmitWriter
<1> QED
  BY <1>1, <1>2, <1>3, <1>4, <1>5 DEF Start

\* A thread in its loop.
LEMMA IndThread ==
  ASSUME IndInv, NEW t \in Threads,
         \/ Prompt(t) \/ CallSucceeds(t) \/ Interrupted(t) \/ CallFails(t)
         \/ WriterBegins \/ LineTyped
  PROVE  IndInv'
<1> USE FdsAssumption
    DEF IndInv, TypeOK, StartInv, CloseInv, HealthInv, LateInv, StopPending,
        StaleOnlyAfterFailure, Started, Threads, Files, ReaderStates,
        WriterStates, LoopStates, Goto
<1>1. CASE TestRunning(t)
  BY <1>1 DEF TestRunning
<1>2. CASE Call(t)
  BY <1>2 DEF Call, IsOpen
<1>3. CASE CloseOnError(t)
  BY <1>3 DEF CloseOnError, CloseFd, IsOpen
<1>4. CASE Stop(t)
  BY <1>4 DEF Stop
<1>5. CASE CallSucceeds(t)
  <2> USE <1>5 DEF CallSucceeds
  <2>1. TypeOK'
    OBVIOUS
  <2>2. StartInv' /\ LateInv'
    OBVIOUS
  <2>3. CloseInv'
    OBVIOUS
  <2>4. HealthInv'
    OBVIOUS
  <2> QED
    BY <2>1, <2>2, <2>3, <2>4
<1>6. CASE CallFails(t)
  BY <1>6 DEF CallFails
<1>7. CASE WriterBegins
  BY <1>7 DEF WriterBegins
<1>8. CASE LineTyped
  BY <1>8 DEF LineTyped
<1>9. CASE Interrupted(t)
  <2> USE <1>9 DEF Interrupted, IsOpen
  <2>1. TypeOK'
    OBVIOUS
  <2>2. StartInv' /\ LateInv'
    OBVIOUS
  <2>3. CloseInv'
    OBVIOUS
  <2>4. HealthInv'
    OBVIOUS
  <2> QED
    BY <2>1, <2>2, <2>3, <2>4
<1> QED
  BY <1>1, <1>2, <1>3, <1>4, <1>5, <1>6, <1>7, <1>8, <1>9 DEF Prompt

\* read_file.
LEMMA IndOther == ASSUME IndInv, Other PROVE IndInv'
<1> USE FdsAssumption
    DEF IndInv, TypeOK, StartInv, CloseInv, HealthInv, LateInv, StopPending,
        StaleOnlyAfterFailure, Started, Threads, Files
<1>1. CASE OtherOpens
  <2>1. PICK f \in FreeFds : otherFd' = f /\ table' = [table EXCEPT ![f] = "other"]
    BY <1>1, LowestIsFree DEF OtherOpens
  <2> QED
    BY <1>1, <2>1 DEF OtherOpens, FreeFds
<1>2. CASE OtherCloses
  BY <1>2 DEF OtherCloses, CloseFd, IsOpen
<1> QED
  BY <1>1, <1>2 DEF Other

\* Every call of the port keeps the invariant, whether it fails or not.
LEMMA IndStep == ASSUME IndInv, [Next]_vars PROVE IndInv'
<1>1. CASE UNCHANGED vars
  BY <1>1
     DEF vars, IndInv, TypeOK, StartInv, CloseInv, HealthInv, LateInv,
         StopPending, StaleOnlyAfterFailure, Started
<1>2. CASE WriterBegins \/ LineTyped
  BY <1>2, IndThread DEF Threads
<1> QED
  BY <1>1, <1>2, IndStart, IndThread, IndOther DEF Next

\* The invariant the other theorems rest on.
THEOREM PortInvariant == Spec => []IndInv
<1>1. IndInv /\ [Next]_vars => IndInv'
  BY IndStep
<1> QED
  BY <1>1, IndInit, PTL DEF Spec

\* Every variable keeps its type: in particular no thread leaves the states of
\* its loop.
THEOREM TypeCorrect == Spec => []TypeOK
<1>1. IndInv => TypeOK
  BY DEF IndInv
<1> QED
  BY <1>1, PortInvariant, PTL

\* gIhandle is the port's as long as uCrunning is 1 and no call has failed.
THEOREM HandleIsPort == Spec => []StaleOnlyAfterFailure
<1>1. IndInv => StaleOnlyAfterFailure
  BY DEF IndInv, HealthInv
<1> QED
  BY <1>1, PortInvariant, PTL

\* No thread makes a second call after evop_stop.
THEOREM OneLateCall == Spec => []AtMostOneLateCall
<1>1. IndInv => AtMostOneLateCall
  BY DEF IndInv, TypeOK, LateInv, AtMostOneLateCall
<1> QED
  BY <1>1, PortInvariant, PTL

\* When both threads are through, the port is closed.
THEOREM PortIsClosed == Spec => []PortClosedAtExit
<1>1. IndInv => PortClosedAtExit
  BY DEF IndInv, CloseInv, PortClosedAtExit, Threads
<1> QED
  BY <1>1, PortInvariant, PTL

-----------------------------------------------------------------------------
(* What has to go wrong before the port reads from a file that is not its  *)
(* own (src/sys_event.c:130: the descriptor is closed, gIhandle stays).    *)

\* No call on the open port has failed yet.
NeverFailed == handle \in Fds => running /\ ~StopPending

\* As long as no call has failed, each thread has read and written the port,
\* and nothing else, whatever files the HTTP server opens and closes.
OwnDeviceOnly ==
  NeverFailed =>
    \A t \in Threads : file[t] # "other" /\ touched[t] \subseteq {"serial"}

\* A port that has failed once stays marked as failed.
LEMMA FailedForGood ==
  ASSUME IndInv, [Next]_vars, NeverFailed'
  PROVE  NeverFailed
<1> USE DEF NeverFailed, StopPending, Threads, IndInv, TypeOK, StartInv, vars
<1>1. ASSUME NEW t \in Threads,
             \/ Prompt(t) \/ CallSucceeds(t) \/ Interrupted(t) \/ CallFails(t)
             \/ WriterBegins \/ LineTyped
      PROVE  NeverFailed
  BY <1>1
     DEF Prompt, TestRunning, Call, CloseOnError, Stop, CallSucceeds,
         Interrupted, CallFails, WriterBegins, LineTyped, Goto
<1>2. CASE Start
  BY <1>2, FdsAssumption
     DEF Start, StartOpens, StartFailsToOpen, StartLeaks, StopAfterFailure,
         SubmitWriter, Goto
<1>3. CASE Other \/ UNCHANGED vars
  BY <1>3 DEF Other, OtherOpens, OtherCloses
<1> QED
  BY <1>1, <1>2, <1>3 DEF Next

\* A stale number is the only way to another's file.
THEOREM OthersOnlyAfterFailure == Spec => []OwnDeviceOnly
<1>1. Init => OwnDeviceOnly
  BY DEF Init, OwnDeviceOnly
<1>2. IndInv /\ OwnDeviceOnly /\ [Next]_vars => OwnDeviceOnly'
  <2> SUFFICES ASSUME IndInv, OwnDeviceOnly, [Next]_vars, NeverFailed'
               PROVE  \A t \in Threads :
                        file'[t] # "other" /\ touched'[t] \subseteq {"serial"}
    BY DEF OwnDeviceOnly
  <2>0. /\ NeverFailed
        /\ file \in [Threads -> Files \cup {"none"}]
        /\ touched \in [Threads -> SUBSET Files]
        /\ \A t \in Threads : file[t] # "other" /\ touched[t] \subseteq {"serial"}
    BY FailedForGood DEF OwnDeviceOnly, IndInv, TypeOK
  <2>1. ASSUME NEW t \in Threads, Call(t) \/ Interrupted(t)
        PROVE  \A u \in Threads :
                 file'[u] # "other" /\ touched'[u] \subseteq {"serial"}
    <3>1. IsOpen(handle) => table[handle] = "serial"
      <4> SUFFICES ASSUME IsOpen(handle) PROVE table[handle] = "serial"
        OBVIOUS
      <4>1. Started /\ running /\ \A u \in Threads : pc[u] # "stop"
        BY <2>0, <2>1
           DEF IsOpen, NeverFailed, StopPending, Call, Interrupted, Started,
               Threads, IndInv, StartInv
      <4> QED
        BY <4>1 DEF IndInv, HealthInv, StaleOnlyAfterFailure
    <3>2. CASE Call(t)
      BY <2>0, <3>1, <3>2 DEF Call
    <3>3. CASE Interrupted(t)
      <4>1. fd[t] = handle
        BY <3>3 DEF Interrupted, IndInv, CloseInv
      <4> QED
        BY <2>0, <3>1, <3>3, <4>1 DEF Interrupted
    <3> QED
      BY <2>1, <3>2, <3>3
  <2>2. ASSUME NEW t \in Threads, CallSucceeds(t)
        PROVE  \A u \in Threads :
                 file'[u] # "other" /\ touched'[u] \subseteq {"serial"}
    <3>1. file[t] = "serial"
      BY <2>0, <2>2 DEF CallSucceeds, IndInv, CloseInv, Files
    <3> QED
      BY <2>0, <2>2, <3>1 DEF CallSucceeds
  <2>3. ASSUME NEW t \in Threads, CallFails(t)
        PROVE  \A u \in Threads :
                 file'[u] # "other" /\ touched'[u] \subseteq {"serial"}
    BY <2>0, <2>3 DEF CallFails
  <2>4. CASE \A t \in Threads : /\ ~Call(t) /\ ~Interrupted(t)
                                /\ ~CallSucceeds(t) /\ ~CallFails(t)
    <3>1. UNCHANGED <<file, touched>>
      BY <2>4
         DEF Next, Start, StartOpens, StartFailsToOpen, StartLeaks,
             StopAfterFailure, SubmitWriter, WriterBegins, LineTyped, Prompt,
             TestRunning, CloseOnError, Stop, Other, OtherOpens, OtherCloses,
             vars
    <3> QED
      BY <2>0, <3>1
  <2> QED
    BY <2>1, <2>2, <2>3, <2>4
<1> QED
  BY <1>1, <1>2, PortInvariant, PTL DEF Spec

-----------------------------------------------------------------------------
(* A start that fails: the part of FailedStartWindsDown that is no matter  *)
(* of scheduling.                                                          *)

\* After a failed start no thread gets to the keyboard or to the device.  None
\* of the states left waits for anything.
FailedStartInv ==
  handle = -1 =>
    /\ pc["reader"] \in {"failed", "submit", "loop", "exit"}
    /\ pc["writer"] \in {"none", "queued", "loop", "exit"}
    /\ pc["reader"] # "failed" => ~running

\* How far a thread is from its end, after a failed start.
ToTheEnd(s) ==
  CASE s = "exit" -> 0
    [] s = "loop" -> 1
    [] s \in {"submit", "queued"} -> 2
    [] OTHER -> 3

\* After a failed start every step of a thread brings it nearer to its end.
LeavesAfterFailure ==
  [][handle = -1 =>
       /\ handle' = -1
       /\ \A t \in Threads :
            pc'[t] # pc[t] => ToTheEnd(pc'[t]) < ToTheEnd(pc[t])]_vars

\* What a step can do after a failed start.
LEMMA FailedStartStep ==
  ASSUME IndInv, FailedStartInv, [Next]_vars, handle = -1
  PROVE  /\ handle' = -1
         /\ FailedStartInv'
         /\ \A t \in Threads :
              pc'[t] # pc[t] => ToTheEnd(pc'[t]) < ToTheEnd(pc[t])
<1>0. /\ pc["reader"] \in {"failed", "submit", "loop", "exit"}
      /\ pc["writer"] \in {"none", "queued", "loop", "exit"}
      /\ pc["reader"] # "failed" => ~running
      /\ pc \in [Threads -> ReaderStates \cup WriterStates]
      /\ pc["reader"] \in {"failed", "submit"} => pc["writer"] = "none"
  BY DEF FailedStartInv, IndInv, TypeOK, StartInv
<1>1. /\ ToTheEnd("exit") = 0 /\ ToTheEnd("loop") = 1
      /\ ToTheEnd("submit") = 2 /\ ToTheEnd("queued") = 2
      /\ ToTheEnd("failed") = 3 /\ ToTheEnd("none") = 3
  BY DEF ToTheEnd
<1>2. CASE Start
  <2>1. StopAfterFailure \/ SubmitWriter
    BY <1>0, <1>2 DEF Start, StartOpens, StartFailsToOpen, StartLeaks
  <2> QED
    BY <1>0, <1>1, <2>1
       DEF StopAfterFailure, SubmitWriter, FailedStartInv, Goto, Threads
<1>3. CASE WriterBegins \/ LineTyped
  BY <1>0, <1>1, <1>3
     DEF WriterBegins, LineTyped, FailedStartInv, Goto, Threads
<1>4. ASSUME NEW t \in Threads,
             Prompt(t) \/ CallSucceeds(t) \/ Interrupted(t) \/ CallFails(t)
      PROVE  /\ handle' = -1
             /\ FailedStartInv'
             /\ \A u \in Threads :
                  pc'[u] # pc[u] => ToTheEnd(pc'[u]) < ToTheEnd(pc[u])
  <2>1. TestRunning(t) /\ ~running
    BY <1>0, <1>4
       DEF Prompt, TestRunning, Call, CloseOnError, Stop, CallSucceeds,
           Interrupted, CallFails, Threads, IndInv, StartInv
  <2> QED
    BY <1>0, <1>1, <2>1 DEF TestRunning, FailedStartInv, Goto, Threads
<1>5. CASE Other \/ UNCHANGED vars
  BY <1>0, <1>5 DEF Other, OtherOpens, OtherCloses, FailedStartInv, vars
<1> QED
  BY <1>2, <1>3, <1>4, <1>5 DEF Next

\* When open_serial has failed, event_serial and serial_write leave, without a
\* call on the port and without waiting for the keyboard.
THEOREM FailedStartWaitsForNothing ==
  Spec => []FailedStartInv /\ LeavesAfterFailure
<1>1. Init => FailedStartInv
  BY DEF Init, FailedStartInv
<1>2. IndInv /\ FailedStartInv /\ [Next]_vars => FailedStartInv'
  <2> SUFFICES ASSUME IndInv, FailedStartInv, [Next]_vars PROVE FailedStartInv'
    OBVIOUS
  <2>1. CASE handle = -1
    BY <2>1, FailedStartStep
  <2>2. CASE handle # -1 /\ handle' = -1
    <3>1. StartFailsToOpen \/ StartLeaks
      <4>1. Start
        BY <2>2
           DEF Next, WriterBegins, LineTyped, Prompt, TestRunning, Call,
               CloseOnError, Stop, CallSucceeds, Interrupted, CallFails, Other,
               OtherOpens, OtherCloses, vars
      <4>2. ~StartOpens
        <5>1. CASE FreeFds # {}
          BY <2>2, <5>1, LowestIsFree, FdsAssumption DEF StartOpens, FreeFds
        <5> QED
          BY <5>1 DEF StartOpens
      <4> QED
        BY <2>2, <4>1, <4>2 DEF Start, StopAfterFailure, SubmitWriter
    <3> QED
      BY <3>1
         DEF StartFailsToOpen, StartLeaks, FailedStartInv, IndInv, TypeOK,
             StartInv, Goto, Threads
  <2>3. CASE handle' # -1
    BY <2>3 DEF FailedStartInv
  <2> QED
    BY <2>1, <2>2, <2>3
<1>3. IndInv /\ FailedStartInv /\ [Next]_vars =>
        (handle = -1 =>
           /\ handle' = -1
           /\ \A t \in Threads :
                pc'[t] # pc[t] => ToTheEnd(pc'[t]) < ToTheEnd(pc[t]))
  BY FailedStartStep
<1>4. Spec => []FailedStartInv
  BY <1>1, <1>2, PortInvariant, PTL DEF Spec
<1> QED
  BY <1>3, <1>4, PortInvariant, PTL DEF Spec, LeavesAfterFailure

=============================================================================
