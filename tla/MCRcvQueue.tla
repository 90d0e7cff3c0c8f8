---------------------------- MODULE MCRcvQueue ----------------------------
(* RcvQueue with the constants of its runs.                                *)
EXTENDS RcvQueue, TLC

CONSTANTS b1, b2

===========================================================================
