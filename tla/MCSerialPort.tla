---------------------------- MODULE MCSerialPort ----------------------------
(* SerialPort for TLC.                                                     *)
EXTENDS SerialPort
=============================================================================
