---------------------------- MODULE MCFunctions -----------------------------
(* The sequential parts of the program for TLC, one at a time: each goes   *)
(* through its inputs while the others are as they were at the start.      *)
EXTENDS Dlist, Crc16, SerialConfig, NetDevices

AllBytes == 0..255

\* A port nobody has used, as the kernel makes it, and one that a program which
\* reads single bytes has left with the options of a modem.
NewPort ==
  [speed |-> LowBits[9600], size |-> 8, cflag |-> {"CREAD", "HUPCL", "CLOCAL"},
   iflag |-> {"ICRNL", "IXON"}, lflag |-> LFlags, post |-> TRUE,
   vtime |-> 0, vmin |-> 1]
UsedPort ==
  [speed |-> LowBits[2400], size |-> 7,
   cflag |-> {"CREAD", "CRTSCTS", "PARENB", "PARODD", "CSTOPB"},
   iflag |-> {"INPCK"}, lflag |-> {}, post |-> FALSE, vtime |-> 0, vmin |-> 8]
TwoPorts == {NewPort, UsedPort}

InitAll == DlistInit /\ CrcInit /\ SerialConfigInit /\ NetInit

NextAll ==
  \/ /\ CrcInit /\ SerialConfigInit /\ NetInit
     /\ DlistNext
     /\ UNCHANGED <<message, serialConfigVars, netVars>>
  \/ /\ DlistInit /\ SerialConfigInit /\ NetInit
     /\ Extend
     /\ UNCHANGED <<dlistVars, serialConfigVars, netVars>>
  \/ /\ DlistInit /\ CrcInit /\ NetInit
     /\ SerialConfigNext
     /\ UNCHANGED <<dlistVars, message, netVars>>
  \/ /\ DlistInit /\ CrcInit /\ SerialConfigInit
     /\ NetNext
     /\ UNCHANGED <<dlistVars, message, serialConfigVars>>

SpecAll == InitAll /\ [][NextAll]_<<dlistVars, message, serialConfigVars, netVars>>
=============================================================================
