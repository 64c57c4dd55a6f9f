---------------------------- MODULE SerialConfig ----------------------------
(***************************************************************************)
(* set_serial (src/sys_serial_event.c), which start_serial calls after it  *)
(* has opened the port: it reads the options the port has, changes those   *)
(* that the settings ask for, and writes them back.  The port keeps its    *)
(* options between the runs of a program and for the other programs that   *)
(* use it, so what a call leaves behind is what the next one finds, and    *)
(* what no call changes stays as whoever had the port before has left it.  *)
(*                                                                         *)
(* c_cflag, c_iflag and c_lflag are sets of bits, but for the two numbers  *)
(* in c_cflag, the size of a byte and the low bits of the speed.  As in    *)
(* the headers of Linux, three bits of c_iflag have the values of other    *)
(* bits of c_cflag: IXON is HUPCL there, IXANY is CLOCAL, and IXOFF is     *)
(* CBAUDEX, the bit of the speed that selects the second half of the       *)
(* table.  Of c_iflag and c_lflag the model has the bits a port opened for *)
(* the first time has (ICRNL, IXON, ISIG, ICANON, ECHO) and INPCK; of      *)
(* c_oflag it has OPOST.                                                   *)
(***************************************************************************)
EXTENDS Integers

CONSTANTS Speeds, FlowControls, Sizes, Parities, Stops  \* of serial_manage
CONSTANT FoundPorts  \* the options a port may have before the first call

CFlags ==
  {"CBAUDEX", "CRTSCTS", "HUPCL", "CLOCAL", "CREAD", "PARENB", "PARODD", "CSTOPB"}
IFlags == {"INPCK", "ICRNL", "IXON"}
LFlags == {"ISIG", "ICANON", "ECHO"}

\* struct termios; speed and size are the two numbers of c_cflag.
PortOptions ==
  [speed : Nat, size : Nat, cflag : SUBSET CFlags, iflag : SUBSET IFlags,
   lflag : SUBSET LFlags, post : BOOLEAN, vtime : Nat, vmin : Nat]

ASSUME FoundAssumption == FoundPorts \subseteq PortOptions

Settings ==
  [speed : Speeds, flow : FlowControls, bits : Sizes, parity : Parities,
   stop : Stops]

VARIABLES
  port,    \* the options the port has
  asked,   \* the settings of the last call
  result,  \* what it has returned
  found    \* the options the port had before the first call

serialConfigVars == <<port, asked, result, found>>

\* pt1000_serial_info_init: the settings of this program.
Pt1000 == [speed |-> 9600, flow |-> 0, bits |-> 8, parity |-> "N", stop |-> 1]

-----------------------------------------------------------------------------
(* The options, and what each setting does to them                         *)

\* name_arr, and the value of B9600 and the like, without CBAUDEX.
Known == {300, 1200, 2400, 4800, 9600, 19200, 38400, 115200}
LowBits ==
  [s \in Known |->
     CASE s = 300 -> 7 [] s = 1200 -> 9 [] s = 2400 -> 11 [] s = 4800 -> 12
       [] s = 9600 -> 13 [] s = 19200 -> 14 [] s = 38400 -> 15
       [] s = 115200 -> 2]
Extended == {115200}

\* cfsetispeed and cfsetospeed, for a speed that is in name_arr.
SetSpeed(o, s) ==
  IF s \notin Known THEN o
  ELSE [o EXCEPT
          !.speed = LowBits[s],
          !.cflag = IF s \in Extended THEN @ \cup {"CBAUDEX"}
                    ELSE @ \ {"CBAUDEX"}]

\* IXON | IXOFF | IXANY is put into c_cflag.
SetFlow(o, flow) ==
  [o EXCEPT !.cflag =
     CASE flow = 0 -> @ \ {"CRTSCTS"}
       [] flow = 1 -> @ \cup {"CRTSCTS"}
       [] flow = 2 -> @ \cup {"HUPCL", "CBAUDEX", "CLOCAL"}
       [] OTHER -> @]

\* Mutant: PARODD is not cleared for even parity.
SetParityOnly(o, parity) ==
  CASE parity = "N" -> [o EXCEPT !.cflag = @ \ {"PARENB"},
                                 !.iflag = @ \ {"INPCK"}]
    [] parity = "O" -> [o EXCEPT !.cflag = @ \cup {"PARODD", "PARENB"},
                                 !.iflag = @ \cup {"INPCK"}]
    [] parity = "E" -> [o EXCEPT !.cflag = @ \cup {"PARENB"},
                                 !.iflag = @ \cup {"INPCK"}]
    [] parity = "S" -> [o EXCEPT !.cflag = @ \ {"PARENB", "CSTOPB"}]
SetParity(o, parity) ==
  CASE parity = "N" -> [o EXCEPT !.cflag = @ \ {"PARENB"},
                                 !.iflag = @ \ {"INPCK"}]
    [] parity = "O" -> [o EXCEPT !.cflag = @ \cup {"PARODD", "PARENB"},
                                 !.iflag = @ \cup {"INPCK"}]
    [] parity = "E" -> [o EXCEPT !.cflag = (@ \cup {"PARENB"}) \ {"PARODD"},
                                 !.iflag = @ \cup {"INPCK"}]
    [] parity = "S" -> [o EXCEPT !.cflag = @ \ {"PARENB", "CSTOPB"}]

SetStop(o, stop) ==
  [o EXCEPT !.cflag = IF stop = 1 THEN @ \ {"CSTOPB"} ELSE @ \cup {"CSTOPB"}]

\* Output is not processed.  VTIME and VMIN count for a port that is not in line
\* mode; c_lflag, which has the line mode, is not touched.
PlainOutput(o) == [o EXCEPT !.post = FALSE, !.vtime = 1, !.vmin = 1]

Supported(s) ==
  s.bits \in 5..8 /\ s.parity \in {"N", "O", "E", "S"} /\ s.stop \in {1, 2}

WithSettings(o, s) ==
  LET on == [SetSpeed(o, s.speed) EXCEPT !.cflag = @ \cup {"CLOCAL", "CREAD"}]
      sized == [SetFlow(on, s.flow) EXCEPT !.size = s.bits]
  IN PlainOutput(SetStop(SetParity(sized, s.parity), s.stop))

-----------------------------------------------------------------------------
SerialConfigInit ==
  /\ port \in FoundPorts
  /\ found = port
  /\ asked = Pt1000
  /\ result = -1

SetSerial(s) ==
  /\ Supported(s)
  /\ port' = WithSettings(port, s)
  /\ asked' = s
  /\ result' = 0
  /\ UNCHANGED found

\* tcgetattr or tcsetattr fails, or a setting is not supported.
SetSerialFails(s) ==
  /\ asked' = s
  /\ result' = -1
  /\ UNCHANGED <<port, found>>

SerialConfigNext == \E s \in Settings : SetSerial(s) \/ SetSerialFails(s)

-----------------------------------------------------------------------------
(* What the port does with its options                                     *)

Rate ==
  IF "CBAUDEX" \notin port.cflag
  THEN CHOOSE s \in Known \ Extended : LowBits[s] = port.speed
  ELSE IF port.speed = LowBits[115200] THEN 115200
  ELSE 0   \* one of 500000 and more

Parity ==
  IF "PARENB" \notin port.cflag THEN "none"
  ELSE IF "PARODD" \in port.cflag THEN "odd" ELSE "even"

\* Two ports make the same of the bytes they get, but for the check of parity.
SameInput(o, p) ==
  o.lflag = p.lflag /\ o.iflag \ {"INPCK"} = p.iflag \ {"INPCK"}

\* When set_serial returns 0, the port has the speed, the size, the parity, the
\* stop bits and the hardware flow control that were asked for, and sends the
\* bytes as they are, whatever the port was like before and whatever calls came
\* in between.  The exceptions: a speed that is not in name_arr leaves the one
\* of before, flow control 2 changes the speed in the place of the flow control,
\* and no setting reaches what the port makes of the bytes it gets.  Line mode,
\* echo, signals, the change of CR to NL and the software flow control are as
\* the first call found them: a port that had the software flow control still
\* has it though 0 was asked for, and one that had not does not get it with 2.
PortAsAsked ==
  result = 0 =>
    /\ asked.speed \in Known => (Rate = asked.speed <=> asked.flow # 2
                                   \/ asked.speed \in Extended)
    /\ port.size = asked.bits
    /\ Parity = CASE asked.parity = "O" -> "odd"
                  [] asked.parity = "E" -> "even"
                  [] OTHER -> "none"
    /\ Parity # "none" => "INPCK" \in port.iflag
    /\ "CSTOPB" \in port.cflag <=> asked.stop = 2
    /\ asked.flow \in {0, 1} => ("CRTSCTS" \in port.cflag <=> asked.flow = 1)
    /\ {"CREAD", "CLOCAL"} \subseteq port.cflag
    /\ ~port.post
    /\ SameInput(port, found)

=============================================================================
