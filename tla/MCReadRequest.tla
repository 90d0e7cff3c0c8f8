--------------------------- MODULE MCReadRequest ---------------------------
(* Four bytes, the second of which is a null that is stripped: a queue of  *)
(* two, a UART of two and requests for two are each overtaken once.        *)
EXTENDS ReadRequest
MCByte == 1 .. 4
=============================================================================
