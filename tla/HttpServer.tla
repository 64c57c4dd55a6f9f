----------------------------- MODULE HttpServer -----------------------------
(***************************************************************************)
(* The thread of the HTTP server (event_ethernet_http, read_file and       *)
(* evhttp_request_handler in src/sys_net_event.c) beside the two threads   *)
(* of the serial port.  libevent calls the handler for one request at a    *)
(* time.                                                                   *)
(*                                                                         *)
(* The module extends SerialPort: fopen and fclose are its OtherOpens and  *)
(* OtherCloses, and a serial thread that goes on with a stale number can   *)
(* close read_file's descriptor or read from the file it is about to read. *)
(*                                                                         *)
(* A document is its name and its size, and what a reply holds is the      *)
(* document it comes from and how many of its bytes.  Other programs       *)
(* replace and remove documents.                                           *)
(***************************************************************************)
EXTENDS SerialPort

CONSTANTS
  Docs,     \* the paths that are asked for
  Text,     \* those whose contents have no byte 0
  MaxSize,  \* bound of the sizes
  None      \* no document

ASSUME DocsAssumption ==
  Text \subseteq Docs /\ None \notin Docs /\ MaxSize \in Nat

Absent == -1
Data == [doc : Docs \cup {None}, len : 0..MaxSize]
Null == [doc |-> None, len |-> 0]

HttpStates ==
  {"wait",   \* in event_dispatch
   "stat", "open", "read", "close",   \* the next call of read_file
   "reply",  \* read_file has returned
   "free"}   \* the reply has been sent

VARIABLES
  hpc,       \* where the HTTP thread is
  disk,      \* the size of each document, Absent if there is none
  doc,       \* decode_uri
  size,      \* buf.st_size
  filedata,  \* the global filedata
  body,      \* buf, the evbuffer of the reply
  moved,     \* the offset of the open file is not where fread left it
  changed    \* history: the document was changed since it was asked for

httpOnly == <<hpc, disk, doc, size, filedata, body, moved, changed>>
httpVars == <<vars, httpOnly>>

HttpInit ==
  /\ Init
  /\ hpc = "wait"
  /\ disk \in [Docs -> (0..MaxSize) \cup {Absent}]
  /\ doc = None
  /\ size = 0
  /\ filedata = Null
  /\ body = Null
  /\ moved = FALSE
  /\ changed = FALSE

-----------------------------------------------------------------------------
(* evhttp_request_handler                                                  *)

\* libevent calls the handler, which makes the path from the URI.
Request ==
  /\ hpc = "wait"
  /\ doc' \in Docs
  /\ hpc' = "stat"
  /\ UNCHANGED <<vars, disk, size, filedata, body, moved, changed>>

Stat ==
  /\ hpc = "stat"
  /\ IF disk[doc] = Absent
     THEN hpc' = "reply" /\ UNCHANGED size
     ELSE hpc' = "open" /\ size' = disk[doc]
  /\ UNCHANGED <<vars, disk, doc, filedata, body, moved, changed>>

Fopen ==
  /\ hpc = "open"
  /\ disk[doc] # Absent
  /\ OtherOpens
  /\ hpc' = "read"
  /\ UNCHANGED <<disk, doc, size, filedata, body, moved, changed>>

\* Mutant: it is tried again.
FopenRetries ==
  /\ hpc = "open"
  /\ disk[doc] = Absent \/ FreeFds = {}
  /\ UNCHANGED httpVars

\* The document is gone, or the process has no descriptor left (when
\* the port has the only one, or connections have taken them).
FopenFails ==
  /\ hpc = "open"
  /\ disk[doc] = Absent \/ FreeFds = {}
  /\ hpc' = "reply"
  /\ UNCHANGED <<vars, disk, doc, size, filedata, body, moved, changed>>

\* How much fread gets of the size bytes: nothing when the number has been
\* closed, the rest when somebody else has read from the file.
Got ==
  IF table[otherFd] # "other" THEN {0}
  ELSE IF moved \/ changed THEN 0..size
  ELSE {size}

\* Mutant: a short read returns at once.
FreadReturns ==
  /\ hpc = "read"
  /\ \E n \in Got :
       /\ filedata' = [doc |-> doc, len |-> n]
       /\ hpc' = IF n < size THEN "reply" ELSE "close"
  /\ moved' = FALSE
  /\ UNCHANGED <<vars, disk, doc, size, body, changed>>

\* Mutant: the file is closed here, and again by fclose.
FreadCloses ==
  /\ hpc = "read"
  /\ \E n \in Got : filedata' = [doc |-> doc, len |-> n]
  /\ hpc' = "close"
  /\ CloseFd(otherFd)
  /\ moved' = FALSE
  /\ UNCHANGED <<running, handle, pc, fd, file, otherFd, touched, late>>
  /\ UNCHANGED <<disk, doc, size, body, changed>>

\* malloc, memset and fread.
Fread ==
  /\ hpc = "read"
  /\ \E n \in Got : filedata' = [doc |-> doc, len |-> n]
  /\ hpc' = "close"
  /\ moved' = FALSE
  /\ UNCHANGED <<vars, disk, doc, size, body, changed>>

Fclose ==
  /\ hpc = "close"
  /\ OtherCloses
  /\ hpc' = "reply"
  /\ UNCHANGED <<disk, doc, size, filedata, body, moved, changed>>

\* evbuffer_add_printf of "%s": all of it, or what precedes the first byte 0.
\* A null pointer is printed as "(null)".
Printed(data) ==
  IF data.doc \in Docs \ Text
  THEN {[data EXCEPT !.len = n] : n \in 0..data.len}
  ELSE {data}

\* The handler prints filedata and sends the reply, with 200 in every case.
Reply ==
  /\ hpc = "reply"
  /\ body' \in Printed(filedata)
  /\ hpc' = "free"
  /\ UNCHANGED <<vars, disk, doc, size, filedata, moved, changed>>

\* Mutant: filedata is freed and keeps its address.
FreeOnly ==
  /\ hpc = "free"
  /\ hpc' = "wait"
  /\ doc' = None
  /\ size' = 0
  /\ body' = Null
  /\ changed' = FALSE
  /\ UNCHANGED <<vars, disk, filedata, moved>>

\* The request is done with, and its local variables.
Free ==
  /\ hpc = "free"
  /\ hpc' = "wait"
  /\ doc' = None
  /\ size' = 0
  /\ filedata' = Null
  /\ body' = Null
  /\ changed' = FALSE
  /\ UNCHANGED <<vars, disk, moved>>

Handler == Stat \/ Fopen \/ FopenFails \/ Fread \/ Fclose \/ Reply \/ Free

-----------------------------------------------------------------------------
(* The rest of the process, and the disk                                   *)

\* What the threads of the port do without read_file's file.
PortStep ==
  /\ \/ Start \/ WriterBegins \/ LineTyped
     \/ \E t \in Threads :
          \/ Prompt(t) \/ Interrupted(t) \/ CallFails(t)
          \/ file[t] = "serial" /\ CallSucceeds(t)
  /\ UNCHANGED httpOnly

\* dev_read on read_file's file: it is open for reading, so a write fails.  The
\* call may have been made on one that read_file has closed since.
ReaderReadsOther ==
  /\ file["reader"] = "other"
  /\ CallSucceeds("reader")
  /\ moved' \in {moved, hpc = "read"}
  /\ UNCHANGED <<hpc, disk, doc, size, filedata, body, changed>>

\* A document is written, replaced or removed.
Change ==
  /\ \E d \in Docs, n \in (0..MaxSize) \cup {Absent} :
       /\ disk' = [disk EXCEPT ![d] = n]
       /\ changed' = (changed \/ d = doc)
  /\ UNCHANGED <<vars, hpc, doc, size, filedata, body, moved>>

HttpNext == Request \/ Handler \/ PortStep \/ ReaderReadsOther \/ Change

HttpSpec == HttpInit /\ [][HttpNext]_httpVars

\* No call of the handler waits for anything.  Nothing is assumed of the
\* requests and the changes.
HttpFairSpec == HttpSpec /\ Fairness /\ WF_httpVars(Handler)

-----------------------------------------------------------------------------
(* Properties.                                                             *)

HttpTypeOK ==
  /\ TypeOK
  /\ hpc \in HttpStates
  /\ disk \in [Docs -> (0..MaxSize) \cup {Absent}]
  /\ doc \in Docs \cup {None}
  /\ hpc = "wait" <=> doc = None
  /\ size \in 0..MaxSize
  /\ filedata \in Data
  /\ body \in Data
  /\ moved \in BOOLEAN
  /\ changed \in BOOLEAN

\* No thread of the port can hold a stale number: it has not failed yet.
PortHealthy ==
  handle \in Fds => running /\ \A t \in Threads : pc[t] # "stop"

\* filedata is a global that read_file sets only when it succeeds: a reply
\* never holds a document of an earlier request.  A text that does not change
\* meanwhile is sent whole, if it is there, as long as the port has not failed
\* and there are descriptors.
ReplyIsRequested ==
  hpc = "free" =>
    /\ body.doc \in {doc, None}
    /\ doc \in Text /\ ~changed /\ PortHealthy /\ FreeFds # {} =>
         body = IF disk[doc] = Absent THEN Null
                ELSE [doc |-> doc, len |-> disk[doc]]

\* Between two requests the server has no file open and no buffer allocated,
\* whichever call of read_file failed and whatever the serial threads closed.
NothingLeaks ==
  hpc = "wait" =>
    /\ filedata = Null
    /\ otherFd = 0
    /\ \A f \in Fds : table[f] # "other"

\* A request is answered, whatever becomes of the document and the descriptor.
RequestAnswered == (hpc = "stat") ~> (hpc = "free")

\* SerialPort lets read_file open and close a file at any time, and says
\* nothing of what it is for: the server's use of it is one of those.
ImplementsPort == Spec

=============================================================================
