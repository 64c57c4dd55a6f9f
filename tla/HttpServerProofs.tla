-------------------------- MODULE HttpServerProofs --------------------------
(***************************************************************************)
(* The HTTP server beside the serial port, for any documents and any set   *)
(* of descriptors: it is one of the users of descriptors that SerialPort   *)
(* allows, it leaves nothing behind, and its replies are what was asked    *)
(* for.                                                                    *)
(***************************************************************************)
EXTENDS HttpServer, SerialPortProofs

-----------------------------------------------------------------------------
(* The server as SerialPort's other user of descriptors                    *)

\* A step of the serial threads beside the handler is one of SerialPort.
LEMMA PortStepIsNext == PortStep => Next
<1>1. ASSUME NEW t \in Threads,
             Prompt(t) \/ Interrupted(t) \/ CallFails(t) \/ CallSucceeds(t)
      PROVE  Next
  BY <1>1 DEF Next
<1> QED
  BY <1>1 DEF PortStep, Next

\* A step of the composition is one of SerialPort, or leaves its state alone.
LEMMA HttpStepIsNext == [HttpNext]_httpVars => [Next]_vars
<1>1. Request \/ Stat \/ FopenFails \/ Fread \/ Reply \/ Free \/ Change
        => UNCHANGED vars
  BY DEF Request, Stat, FopenFails, Fread, Reply, Free, Change
<1>2. Fopen \/ Fclose => Next
  BY DEF Fopen, Fclose, Other, Next
<1>3. ReaderReadsOther => Next
  BY DEF ReaderReadsOther, Threads, Next
<1>4. UNCHANGED httpVars => UNCHANGED vars
  BY DEF httpVars
<1> QED
  BY <1>1, <1>2, <1>3, <1>4, PortStepIsNext DEF HttpNext, Handler

\* The server's use of descriptors is one of those that SerialPort allows, so
\* what is proved of the port holds beside the server.
THEOREM ServerImplementsPort == HttpSpec => ImplementsPort
<1>1. HttpInit => Init
  BY DEF HttpInit
<1> QED
  BY <1>1, HttpStepIsNext, PTL DEF HttpSpec, ImplementsPort, Spec

\* What the serial port promises it promises with the HTTP handler beside it,
\* in the same table of descriptors: as long as no call on the port has failed
\* its threads touch none of the server's files, and after a failed start they
\* leave.
THEOREM PortBesideServer ==
  HttpSpec => /\ [](/\ StaleOnlyAfterFailure /\ AtMostOneLateCall
                    /\ PortClosedAtExit /\ OwnDeviceOnly /\ FailedStartInv)
              /\ LeavesAfterFailure
BY ServerImplementsPort, HandleIsPort, OneLateCall, PortIsClosed,
   OthersOnlyAfterFailure, FailedStartWaitsForNothing, PTL
   DEF ImplementsPort

-----------------------------------------------------------------------------
(* What the steps of the port do to the file of the server                 *)

\* The only descriptor that is open on a document is read_file's; as long as no
\* call on the port has failed it is open, and nobody has another's file.
OwnInv ==
  /\ \A f \in Fds : table[f] = "other" => f = otherFd
  /\ PortHealthy =>
       /\ otherFd # 0 => table[otherFd] = "other"
       /\ \A t \in Threads : file[t] # "other"

\* A port that has failed once stays marked as failed.
LEMMA PortUnhealthyForGood ==
  ASSUME IndInv, [Next]_vars, PortHealthy'
  PROVE  PortHealthy
BY FailedForGood DEF PortHealthy, NeverFailed, StopPending

\* A step of the port leaves the handler's descriptor to the handler while the
\* port has not failed.
LEMMA OwnStep == ASSUME IndInv, OwnInv, [Next]_vars PROVE OwnInv'
<1> USE FdsAssumption DEF OwnInv, IndInv, TypeOK, Files
<1>1. PortHealthy' => PortHealthy
  BY PortUnhealthyForGood
<1>2. CASE Start
  <2>1. CASE StartOpens \/ StartLeaks
    <3>1. PICK f \in FreeFds : table' = [table EXCEPT ![f] = "serial"]
      BY <2>1, LowestIsFree DEF StartOpens, StartLeaks
    <3>2. UNCHANGED <<otherFd, file>>
      BY <2>1 DEF StartOpens, StartLeaks
    <3> QED
      BY <1>1, <3>1, <3>2 DEF FreeFds
  <2>2. CASE StartFailsToOpen \/ StopAfterFailure \/ SubmitWriter
    BY <1>1, <2>2 DEF StartFailsToOpen, StopAfterFailure, SubmitWriter
  <2> QED
    BY <1>2, <2>1, <2>2 DEF Start
<1>3. ASSUME NEW t \in Threads, CloseOnError(t) PROVE OwnInv'
  <2>1. /\ \A f \in Fds : table'[f] = "other" => table[f] = "other"
        /\ UNCHANGED <<otherFd, file>>
    BY <1>3 DEF CloseOnError, CloseFd, IsOpen
  <2>2. PortHealthy' => table' = table
    BY <1>3
       DEF CloseOnError, CloseFd, IsOpen, CloseInv, PortHealthy, Goto
  <2> QED
    BY <1>1, <2>1, <2>2
<1>4. ASSUME NEW t \in Threads, Call(t) \/ Interrupted(t) PROVE OwnInv'
  <2>1. PortHealthy' => file'[t] # "other"
    <3>1. CASE IsOpen(handle)
      <4>1. PortHealthy => table[handle] = "serial"
        BY <1>4, <3>1
           DEF Call, Interrupted, IsOpen, PortHealthy, HealthInv,
               StaleOnlyAfterFailure, Started, StartInv, Threads
      <4>2. Interrupted(t) => fd[t] = handle
        BY DEF Interrupted, CloseInv
      <4> QED
        BY <1>1, <1>4, <3>1, <4>1, <4>2 DEF Call, Interrupted
    <3>2. CASE ~IsOpen(handle)
      <4>1. Interrupted(t) => fd[t] = handle
        BY DEF Interrupted, CloseInv
      <4> QED
        BY <1>1, <1>4, <3>2, <4>1 DEF Call, Interrupted
    <3> QED
      BY <3>1, <3>2
  <2>2. /\ UNCHANGED <<table, otherFd>>
        /\ \A u \in Threads \ {t} : file'[u] = file[u]
    BY <1>4 DEF Call, Interrupted
  <2> QED
    BY <1>1, <2>1, <2>2
<1>5. ASSUME NEW t \in Threads,
             TestRunning(t) \/ Stop(t) \/ CallSucceeds(t) \/ CallFails(t)
               \/ WriterBegins \/ LineTyped
      PROVE  OwnInv'
  <2>1. /\ UNCHANGED <<table, otherFd>>
        /\ \A u \in Threads : file'[u] = "other" => file[u] = "other"
    BY <1>5
       DEF TestRunning, Stop, CallSucceeds, CallFails, WriterBegins, LineTyped
  <2> QED
    BY <1>1, <2>1
<1>6. CASE OtherOpens
  <2>1. PICK f \in FreeFds : otherFd' = f /\ table' = [table EXCEPT ![f] = "other"]
    BY <1>6, LowestIsFree DEF OtherOpens
  <2>2. UNCHANGED file /\ otherFd = 0
    BY <1>6 DEF OtherOpens
  <2> QED
    BY <1>1, <2>1, <2>2 DEF FreeFds
<1>7. CASE OtherCloses
  BY <1>1, <1>7 DEF OtherCloses, CloseFd, IsOpen
<1>8. CASE UNCHANGED vars
  BY <1>1, <1>8 DEF vars
<1>9. CASE WriterBegins \/ LineTyped
  BY <1>5, <1>9 DEF Threads
<1> QED
  BY <1>2, <1>3, <1>4, <1>5, <1>6, <1>7, <1>8, <1>9 DEF Next, Prompt, Other

-----------------------------------------------------------------------------
(* The documents                                                           *)

\* read_file has its file exactly between fopen and fclose, and filedata is
\* allocated between fread and free.
LeakInv ==
  /\ HttpTypeOK
  /\ otherFd # 0 <=> hpc \in {"read", "close"}
  /\ hpc \in {"wait", "stat", "open", "read"} => filedata = Null

ServerInv == IndInv /\ OwnInv /\ LeakInv

\* What filedata points to at first is a value it may have.
LEMMA NullIsData == Null \in Data
BY DocsAssumption DEF Null, Data

\* The handler starts with no descriptor and no buffer.
LEMMA ServerInit == HttpInit => ServerInv
<1> SUFFICES ASSUME HttpInit PROVE ServerInv
  OBVIOUS
<1>1. IndInv
  BY IndInit DEF HttpInit
<1>2. OwnInv
  BY DEF HttpInit, Init, OwnInv, Threads
<1>3. LeakInv
  <2>1. TypeOK /\ size \in 0..MaxSize /\ (hpc = "wait" <=> doc = None)
    BY <1>1, DocsAssumption DEF HttpInit, IndInv
  <2>2. /\ hpc \in HttpStates /\ filedata \in Data /\ body \in Data
        /\ doc \in Docs \cup {None}
        /\ disk \in [Docs -> (0..MaxSize) \cup {Absent}]
    BY NullIsData DEF HttpInit, HttpStates
  <2>3. moved \in BOOLEAN /\ changed \in BOOLEAN
    BY DEF HttpInit
  <2>4. (otherFd # 0 <=> hpc \in {"read", "close"}) /\ filedata = Null
    BY DEF HttpInit, Init
  <2> QED
    BY <2>1, <2>2, <2>3, <2>4 DEF LeakInv, HttpTypeOK
<1> QED
  BY <1>1, <1>2, <1>3 DEF ServerInv

\* Every path through the handler keeps the descriptor until fclose, and the
\* buffer until free.
LEMMA LeakStep ==
  ASSUME ServerInv, TypeOK', [HttpNext]_httpVars
  PROVE  LeakInv'
<1> USE NullIsData, DocsAssumption, FdsAssumption
    DEF ServerInv, LeakInv, HttpTypeOK, HttpStates, Absent, Data, vars
<1>1. CASE Request
  BY <1>1 DEF Request
<1>2. CASE Stat
  BY <1>2 DEF Stat
<1>3. CASE Fopen
  <2>1. otherFd' # 0 /\ otherFd' \in Fds
    BY <1>3, LowestIsFree DEF Fopen, OtherOpens, FreeFds
  <2> QED
    BY <1>3, <2>1 DEF Fopen
<1>4. CASE FopenFails
  BY <1>4 DEF FopenFails
<1>5. CASE Fread
  <2>1. Got \subseteq 0..MaxSize
    BY DEF Got
  <2>2. filedata' \in Data
    BY <1>5, <2>1 DEF Fread
  <2>3. /\ hpc = "read" /\ hpc' = "close" /\ moved' = FALSE
        /\ UNCHANGED <<vars, disk, doc, size, body, changed>>
    BY <1>5 DEF Fread
  <2> HIDE DEF Data
  <2>4. /\ otherFd # 0 /\ hpc' \in HttpStates /\ hpc' = "close"
        /\ otherFd' = otherFd /\ moved' \in BOOLEAN
        /\ (hpc' = "wait" <=> doc' = None)
    BY <2>3
  <2>5. /\ disk' \in [Docs -> (0..MaxSize) \cup {Absent}]
        /\ doc' \in Docs \cup {None} /\ size' \in 0..MaxSize /\ body' \in Data
        /\ changed' \in BOOLEAN
    BY <2>3
  <2> QED
    BY <2>2, <2>4, <2>5
<1>6. CASE Fclose
  BY <1>6 DEF Fclose, OtherCloses
<1>7. CASE Reply
  <2>1. Printed(filedata) \subseteq Data
    BY DEF Printed
  <2> QED
    BY <1>7, <2>1 DEF Reply
<1>8. CASE Free
  <2> HIDE DEF Data
  <2>1. /\ hpc = "free" /\ hpc' = "wait" /\ doc' = None /\ size' = 0
        /\ filedata' = Null /\ body' = Null /\ changed' = FALSE
        /\ UNCHANGED <<otherFd, disk, moved>>
    BY <1>8 DEF Free
  <2>2. /\ hpc' \in HttpStates /\ size' \in 0..MaxSize
        /\ disk' \in [Docs -> (0..MaxSize) \cup {Absent}]
    BY <2>1
  <2>3. changed' \in BOOLEAN /\ moved' \in BOOLEAN
    BY <2>1, Zenon
  <2>4. /\ filedata' = Null /\ filedata' \in Data /\ body' \in Data
        /\ doc' \in Docs \cup {None} /\ (hpc' = "wait" <=> doc' = None)
    BY <2>1
  <2>5. otherFd' # 0 <=> hpc' \in {"read", "close"}
    BY <2>1
  <2>6. HttpTypeOK'
    BY <2>2, <2>3, <2>4
  <2> HIDE DEF HttpTypeOK
  <2> QED
    BY <2>4, <2>5, <2>6
<1>9. CASE PortStep
  <2>1. UNCHANGED httpOnly
    BY <1>9 DEF PortStep
  <2>2. UNCHANGED otherFd
    BY <1>9
       DEF PortStep, Start, StartOpens, StartFailsToOpen, StartLeaks,
           StopAfterFailure, SubmitWriter, WriterBegins, LineTyped, Prompt,
           TestRunning, Call, CloseOnError, Stop, Interrupted, CallFails,
           CallSucceeds
  <2> QED
    BY <2>1, <2>2 DEF httpOnly
<1>10. CASE ReaderReadsOther
  BY <1>10 DEF ReaderReadsOther, CallSucceeds
<1>11. CASE Change
  BY <1>11 DEF Change
<1>12. CASE UNCHANGED httpVars
  BY <1>12 DEF httpVars, httpOnly
<1> QED
  BY <1>1, <1>2, <1>3, <1>4, <1>5, <1>6, <1>7, <1>8, <1>9, <1>10, <1>11, <1>12
     DEF HttpNext, Handler

\* The invariant of the composition: the port's own, whose descriptors are
\* whose, and what the handler holds at each of its steps.
THEOREM ServerInvariant == HttpSpec => []ServerInv
<1>1. ServerInv /\ [HttpNext]_httpVars => ServerInv'
  <2> SUFFICES ASSUME ServerInv, [HttpNext]_httpVars PROVE ServerInv'
    OBVIOUS
  <2>1. [Next]_vars
    BY HttpStepIsNext
  <2>2. IndInv'
    BY <2>1, IndStep DEF ServerInv
  <2>3. OwnInv'
    BY <2>1, OwnStep DEF ServerInv
  <2>4. LeakInv'
    BY <2>2, LeakStep DEF IndInv
  <2> QED
    BY <2>2, <2>3, <2>4 DEF ServerInv
<1> QED
  BY <1>1, ServerInit, PTL DEF HttpSpec

\* Every variable of the server and the port keeps its type.
THEOREM ServerTypeCorrect == HttpSpec => []HttpTypeOK
<1>1. ServerInv => HttpTypeOK
  BY DEF ServerInv, LeakInv
<1> QED
  BY <1>1, ServerInvariant, PTL

\* Between two requests no file is open and no buffer allocated.
THEOREM ServerLeaksNothing == HttpSpec => []NothingLeaks
<1>1. ServerInv => NothingLeaks
  <2> SUFFICES ASSUME ServerInv, hpc = "wait"
               PROVE  /\ filedata = Null /\ otherFd = 0
                      /\ \A f \in Fds : table[f] # "other"
    BY DEF NothingLeaks
  <2>1. filedata = Null /\ otherFd = 0
    BY DEF ServerInv, LeakInv
  <2> QED
    BY <2>1, FdsAssumption DEF ServerInv, OwnInv
<1> QED
  BY <1>1, ServerInvariant, PTL

-----------------------------------------------------------------------------
(* The replies                                                             *)

\* A request for a text that has not changed, with the port in order.
Good == doc \in Text /\ ~changed /\ PortHealthy

Whole == IF disk[doc] = Absent THEN Null ELSE [doc |-> doc, len |-> disk[doc]]

\* What each call of read_file has found out holds until the next one, unless
\* the document has changed; a failed fopen is due to a lack of descriptors,
\* and none is released before the reply while the port is in order.
ReplyInv ==
  /\ filedata.doc \in {doc, None}
  /\ moved => hpc = "read" /\ ~PortHealthy
  /\ hpc \in {"open", "read"} /\ ~changed => disk[doc] = size /\ size # Absent
  /\ hpc = "close" /\ Good => filedata = Whole
  /\ hpc = "reply" /\ Good /\ FreeFds # {} => filedata = Whole
  /\ hpc = "free" => body.doc \in {doc, None}
  /\ hpc = "free" /\ Good /\ FreeFds # {} => body = Whole

\* No descriptor is released as long as the port is in order, but by read_file.
LEMMA NoneReleased ==
  ASSUME IndInv, [Next]_vars, ~OtherCloses, PortHealthy'
  PROVE  FreeFds' \subseteq FreeFds
<1> USE DEF FreeFds, IndInv, TypeOK
<1>1. CASE StartOpens \/ StartLeaks
  <2>1. PICK f \in FreeFds : table' = [table EXCEPT ![f] = "serial"]
    BY <1>1, LowestIsFree DEF StartOpens, StartLeaks
  <2> QED
    BY <2>1
<1>2. CASE OtherOpens
  <2>1. PICK f \in FreeFds : table' = [table EXCEPT ![f] = "other"]
    BY <1>2, LowestIsFree DEF OtherOpens
  <2> QED
    BY <2>1
<1>3. ASSUME NEW t \in Threads, CloseOnError(t)
      PROVE  FreeFds' \subseteq FreeFds
  <2>1. table' = table
    BY <1>3 DEF CloseOnError, CloseFd, IsOpen, CloseInv, PortHealthy, Goto
  <2> QED
    BY <2>1
<1>4. ASSUME NEW t \in Threads,
             \/ TestRunning(t) \/ Call(t) \/ Stop(t)
             \/ CallSucceeds(t) \/ Interrupted(t) \/ CallFails(t)
      PROVE  UNCHANGED table
  BY <1>4 DEF TestRunning, Call, Stop, CallSucceeds, Interrupted, CallFails
<1>5. CASE \/ StartFailsToOpen \/ StopAfterFailure \/ SubmitWriter
           \/ WriterBegins \/ LineTyped \/ UNCHANGED vars
  BY <1>5
     DEF StartFailsToOpen, StopAfterFailure, SubmitWriter, WriterBegins,
         LineTyped, vars
<1> QED
  BY <1>1, <1>2, <1>3, <1>4, <1>5 DEF Next, Start, Prompt, Other

\* A step that neither belongs to the handler nor touches its file keeps what
\* the handler knows.
LEMMA OthersKeepReply ==
  ASSUME ServerInv, ServerInv', ReplyInv, [Next]_vars, ~OtherCloses,
         UNCHANGED <<hpc, doc, size, filedata, body>>,
         ~changed' => ~changed,
         hpc # "wait" /\ ~changed' => disk'[doc] = disk[doc],
         moved' => hpc = "read" /\ ~PortHealthy'
  PROVE  ReplyInv'
<1>1. Good' => Good
  BY PortUnhealthyForGood DEF Good, ServerInv
<1>2. Good' => FreeFds' \subseteq FreeFds
  BY NoneReleased DEF Good, ServerInv
<1>3. hpc # "wait" /\ ~changed' => Whole' = Whole
  BY DEF Whole
<1>4. Good' /\ FreeFds' # {} => Good /\ FreeFds # {}
  BY <1>1, <1>2
<1>5. Good' => ~changed'
  BY DEF Good
<1> HIDE DEF Good, Whole
<1> QED
  BY <1>1, <1>3, <1>4, <1>5 DEF ReplyInv

\* Every step keeps filedata the document asked for, whole while the port has
\* not failed.
LEMMA ReplyStep ==
  ASSUME ServerInv, ServerInv', ReplyInv, [HttpNext]_httpVars
  PROVE  ReplyInv'
<1> USE DocsAssumption DEF ReplyInv
<1>1. CASE Request
  <2>1. hpc = "wait" /\ hpc' = "stat" /\ filedata' = filedata /\ moved' = moved
    BY <1>1 DEF Request
  <2>2. filedata = Null
    BY <2>1 DEF ServerInv, LeakInv
  <2> QED
    BY <2>1, <2>2 DEF Null
<1>2. CASE Stat
  <2>1. /\ hpc = "stat" /\ UNCHANGED <<disk, doc, filedata, moved>>
        /\ \/ disk[doc] = Absent /\ hpc' = "reply"
           \/ disk[doc] # Absent /\ hpc' = "open" /\ size' = disk[doc]
    BY <1>2 DEF Stat
  <2>2. filedata = Null
    BY <2>1 DEF ServerInv, LeakInv
  <2> QED
    BY <2>1, <2>2 DEF Whole
<1>3. CASE Fopen
  <2> QED
    BY <1>3 DEF Fopen
<1>4. CASE FopenFails
  <2>1. /\ hpc = "open" /\ hpc' = "reply"
        /\ UNCHANGED <<vars, disk, doc, filedata, moved, changed, size>>
        /\ disk[doc] = Absent \/ FreeFds = {}
    BY <1>4 DEF FopenFails
  <2>2. FreeFds' = FreeFds
    BY <2>1 DEF FreeFds, vars
  <2> QED
    BY <2>1, <2>2 DEF Good
<1>5. CASE Fread
  <2>1. /\ hpc = "read" /\ hpc' = "close" /\ moved' = FALSE
        /\ UNCHANGED <<vars, disk, doc, size, changed>>
    BY <1>5 DEF Fread
  <2>2. PICK n \in Got : filedata' = [doc |-> doc, len |-> n]
    BY <1>5 DEF Fread
  <2>3. Good' => PortHealthy /\ ~changed
    BY <2>1 DEF Good, PortHealthy, vars
  <2>4. Good' => n = disk[doc] /\ disk[doc] # Absent
    BY <2>1, <2>3 DEF Got, ServerInv, OwnInv, LeakInv
  <2> QED
    BY <2>1, <2>2, <2>4 DEF Whole
<1>6. CASE Fclose
  <2>1. /\ hpc = "close" /\ hpc' = "reply"
        /\ UNCHANGED <<running, handle, pc, disk, doc, filedata, moved, changed>>
    BY <1>6 DEF Fclose, OtherCloses
  <2>2. Good' = Good /\ Whole' = Whole
    BY <2>1 DEF Good, PortHealthy, Whole
  <2> QED
    BY <2>1, <2>2
<1>7. CASE Reply
  <2>1. /\ hpc = "reply" /\ hpc' = "free" /\ body' \in Printed(filedata)
        /\ UNCHANGED <<vars, disk, doc, filedata, moved, changed>>
    BY <1>7 DEF Reply
  <2>2. body'.doc = filedata.doc
    <3>1. filedata \in Data
      BY DEF ServerInv, LeakInv, HttpTypeOK
    <3> QED
      BY <2>1, <3>1 DEF Printed, Data
  <2>3. Good => body' = filedata
    BY <2>1 DEF Printed, Good
  <2>4. Good' = Good /\ Whole' = Whole /\ FreeFds' = FreeFds
    BY <2>1 DEF Good, PortHealthy, Whole, FreeFds, vars
  <2> QED
    BY <2>1, <2>2, <2>3, <2>4
<1>8. CASE Free
  BY <1>8 DEF Free, Null
<1>9. CASE PortStep
  <2>1. UNCHANGED httpOnly /\ Next
    BY <1>9, PortStepIsNext DEF PortStep
  <2>2. ~OtherCloses
    BY <1>9
       DEF PortStep, Start, StartOpens, StartFailsToOpen, StartLeaks,
           StopAfterFailure, SubmitWriter, WriterBegins, LineTyped, Prompt,
           TestRunning, Call, CloseOnError, Stop, Interrupted, CallFails,
           CallSucceeds,
           OtherCloses
  <2>3. moved' => hpc = "read" /\ ~PortHealthy'
    BY <2>1, PortUnhealthyForGood DEF httpOnly, ServerInv
  <2> QED
    BY <2>1, <2>2, <2>3, OthersKeepReply DEF httpOnly
<1>10. CASE ReaderReadsOther
  <2>1. /\ UNCHANGED <<hpc, disk, doc, size, filedata, body, changed, otherFd>>
        /\ moved' \in {moved, hpc = "read"} /\ file["reader"] = "other"
    BY <1>10 DEF ReaderReadsOther, CallSucceeds
  <2>2. Next
    BY <1>10 DEF ReaderReadsOther, Threads, Next
  <2>3. ~PortHealthy
    BY <2>1 DEF ServerInv, OwnInv, Threads
  <2>4. ~PortHealthy'
    BY <2>2, <2>3, PortUnhealthyForGood DEF ServerInv
  <2>5. ~OtherCloses
    BY <2>1 DEF OtherCloses
  <2>6. moved' => hpc = "read"
    BY <2>1
  <2> QED
    BY <2>1, <2>2, <2>4, <2>5, <2>6, OthersKeepReply
<1>11. CASE Change
  <2>1. PICK d \in Docs, n \in (0..MaxSize) \cup {Absent} :
          /\ disk' = [disk EXCEPT ![d] = n]
          /\ changed' = (changed \/ d = doc)
    BY <1>11 DEF Change
  <2>2. UNCHANGED <<vars, hpc, doc, size, filedata, body, moved>>
    BY <1>11 DEF Change
  <2>3. /\ ~changed' => ~changed
        /\ hpc # "wait" /\ ~changed' => disk'[doc] = disk[doc]
    BY <2>1 DEF ServerInv, LeakInv, HttpTypeOK
  <2>4. UNCHANGED <<handle, running, pc, otherFd>>
    BY <2>2 DEF vars
  <2>5. ~OtherCloses /\ PortHealthy' = PortHealthy
    BY <2>4 DEF OtherCloses, PortHealthy
  <2> QED
    BY <2>2, <2>3, <2>5, OthersKeepReply
<1>12. CASE UNCHANGED httpVars
  <2>1. UNCHANGED <<vars, httpOnly, table, handle, running, pc, otherFd>>
    BY <1>12 DEF httpVars, vars
  <2>2. ~OtherCloses /\ PortHealthy' = PortHealthy
    BY <2>1 DEF OtherCloses, PortHealthy
  <2> QED
    BY <2>1, <2>2, OthersKeepReply DEF httpOnly
<1> QED
  BY <1>1, <1>2, <1>3, <1>4, <1>5, <1>6, <1>7, <1>8, <1>9, <1>10, <1>11, <1>12
     DEF HttpNext, Handler

\* A reply holds what was asked for or nothing; a text that has not changed is
\* sent whole as long as the port is in order and there are descriptors.
THEOREM RepliesAreRequested == HttpSpec => []ReplyIsRequested
<1>1. HttpInit => ReplyInv
  BY DEF HttpInit, ReplyInv, Null
<1>2. ServerInv /\ ServerInv' /\ ReplyInv /\ [HttpNext]_httpVars => ReplyInv'
  BY ReplyStep
<1>3. ReplyInv => ReplyIsRequested
  BY DEF ReplyInv, ReplyIsRequested, Good, Whole
<1> QED
  BY <1>1, <1>2, <1>3, ServerInvariant, PTL DEF HttpSpec

-----------------------------------------------------------------------------
(* A request is answered: the part of RequestAnswered that is no matter of *)
(* scheduling.                                                             *)

\* How many calls of the handler are left, from its state on.
CallsLeft(s) ==
  CASE s = "stat" -> 6
    [] s = "open" -> 5
    [] s = "read" -> 4
    [] s = "close" -> 3
    [] s = "reply" -> 2
    [] s = "free" -> 1
    [] OTHER -> 0

\* At each state of the handler the guard of one of its calls holds: whatever
\* is done to the disk and to the descriptors, none of them is waited for.
HandlerReady ==
  /\ hpc # "wait" => doc \in Docs
  /\ hpc = "open" => disk[doc] = Absent \/ FreeFds = {} \/ otherFd = 0
  /\ hpc = "read" => Got # {}
  /\ hpc = "close" => otherFd # 0
  /\ hpc = "reply" => Printed(filedata) # {}

\* Every step the handler makes brings it nearer to the end of the request, and
\* nobody else makes one for it.
HandlerAdvances ==
  [][hpc' # hpc => IF hpc = "wait" THEN hpc' = "stat"
                   ELSE CallsLeft(hpc') < CallsLeft(hpc)]_httpVars

\* evhttp_request_handler answers within six calls, whatever the serial threads
\* close under it and whatever becomes of the document.
THEOREM RequestGoesOn == HttpSpec => []HandlerReady /\ HandlerAdvances
<1>1. ServerInv => HandlerReady
  <2> SUFFICES ASSUME ServerInv PROVE HandlerReady
    OBVIOUS
  <2>0. /\ hpc \in HttpStates /\ doc \in Docs \cup {None} /\ size \in 0..MaxSize
        /\ (hpc = "wait" <=> doc = None) /\ filedata \in Data
        /\ (otherFd # 0 <=> hpc \in {"read", "close"})
    BY DEF ServerInv, LeakInv, HttpTypeOK
  <2>1. Got # {}
    <3>1. size \in 0..size
      BY <2>0, DocsAssumption
    <3> QED
      BY <3>1 DEF Got
  <2>2. Printed(filedata) # {}
    <3>1. filedata.len \in 0..filedata.len
      BY <2>0, DocsAssumption DEF Data
    <3>2. [filedata EXCEPT !.len = filedata.len]
            \in {[filedata EXCEPT !.len = n] : n \in 0..filedata.len}
      BY <3>1
    <3>3. CASE filedata.doc \in Docs \ Text
      BY <3>2, <3>3 DEF Printed
    <3>4. CASE filedata.doc \notin Docs \ Text
      BY <3>4 DEF Printed
    <3> QED
      BY <3>3, <3>4
  <2>3. /\ hpc # "wait" => doc \in Docs
        /\ hpc = "open" => otherFd = 0
        /\ hpc = "close" => otherFd # 0
    BY <2>0
  <2> QED
    BY <2>1, <2>2, <2>3 DEF HandlerReady
<1>2. [HttpNext]_httpVars =>
        (hpc' # hpc => IF hpc = "wait" THEN hpc' = "stat"
                       ELSE CallsLeft(hpc') < CallsLeft(hpc))
  <2>1. /\ CallsLeft("stat") = 6 /\ CallsLeft("open") = 5
        /\ CallsLeft("read") = 4 /\ CallsLeft("close") = 3
        /\ CallsLeft("reply") = 2 /\ CallsLeft("free") = 1
        /\ CallsLeft("wait") = 0
    BY DEF CallsLeft
  <2>2. Handler => IF hpc = "wait" THEN hpc' = "stat"
                   ELSE CallsLeft(hpc') < CallsLeft(hpc)
    BY <2>1
       DEF Handler, Stat, Fopen, FopenFails, Fread, Fclose, Reply, Free
  <2>3. PortStep \/ ReaderReadsOther \/ Change \/ UNCHANGED httpVars => hpc' = hpc
    BY DEF PortStep, ReaderReadsOther, Change, httpVars, httpOnly
  <2>4. Request => hpc = "wait" /\ hpc' = "stat"
    BY DEF Request
  <2> QED
    BY <2>2, <2>3, <2>4 DEF HttpNext
<1> QED
  BY <1>1, <1>2, ServerInvariant, PTL DEF HttpSpec, HandlerAdvances

=============================================================================
