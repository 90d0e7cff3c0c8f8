------------------------------ MODULE MCWinCom ------------------------------
(* A half-duplex master, a slave that sends what it read, and a full-duplex
   writer without reads; two sessions one after the other, or at once. *)
EXTENDS WinCom

String(rd, half, slave) ==
  [mode |-> "string", rd |-> rd, wr |-> TRUE, half |-> half, slave |-> slave, chars |-> TRUE]
MasterSlaveWriter == {String(TRUE, TRUE, FALSE), String(TRUE, TRUE, TRUE), String(FALSE, FALSE, FALSE)}
=============================================================================
