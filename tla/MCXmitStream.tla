--------------------------- MODULE MCXmitStream ---------------------------
(* XmitStream with the constants of its runs.                              *)
EXTENDS XmitStream, TLC

===========================================================================
