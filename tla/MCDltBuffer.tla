------------------------------ MODULE MCDltBuffer ------------------------------
(* Instances of DltBuffer for TLC.  Messages are numbered; message i has i - 1 *)
(* payload bytes.                                                              *)
EXTENDS DltBuffer

CONSTANT NumMessages

MCMessage == 1 .. NumMessages
MCMsgSize == [m \in 1 .. NumMessages |-> m - 1]
MCNoMsg == 0
================================================================================
