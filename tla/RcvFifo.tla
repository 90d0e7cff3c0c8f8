------------------------------ MODULE RcvFifo ------------------------------
(***************************************************************************)
(* What the receive queue of a COMi device promises its two users, the     *)
(* interrupt routine that fills it and the Read procedure that drains it:  *)
(* a bounded first-in first-out queue that refuses a byte only when it     *)
(* holds Length of them.  A refused byte is reported as an overrun and,    *)
(* when error replacement is enabled, marked by ErrorChar in the place of  *)
(* the youngest byte.                                                      *)
(***************************************************************************)
EXTENDS Naturals, Sequences

CONSTANTS
  Byte,       \* the bytes a peer may send
  ErrorChar,  \* the replacement character of the DCB (byErrorChar)
  Length,     \* dwReadBufferLength
  ErrorRepl   \* F2_ENABLE_ERROR_REPL of the DCB

VARIABLES
  q,          \* the bytes waiting to be read, oldest first
  al,         \* the byte last handed to a reader
  overrun     \* COMERR_RCV_QUEUE_OVERRUN is set

fifoVars == <<q, al, overrun>>

Cell == Byte \union {ErrorChar}

FifoInit ==
  /\ q = <<>>
  /\ al \in Cell
  /\ overrun = FALSE

Put(b) ==
  /\ Len(q) < Length
  /\ q' = Append(q, b)
  /\ UNCHANGED <<al, overrun>>

Refuse ==
  /\ Len(q) = Length
  /\ q' = IF ErrorRepl THEN [q EXCEPT ![Length] = ErrorChar] ELSE q
  /\ overrun' = TRUE
  /\ UNCHANGED al

Get ==
  /\ q # <<>>
  /\ al' = Head(q)
  /\ q' = Tail(q)
  /\ UNCHANGED overrun

Look ==
  /\ q # <<>>
  /\ al' = Head(q)
  /\ UNCHANGED <<q, overrun>>

Flush ==
  /\ q' = <<>>
  /\ UNCHANGED <<al, overrun>>

ReportError ==
  /\ overrun' = FALSE
  /\ UNCHANGED <<q, al>>

FifoNext ==
  \/ \E b \in Byte : Put(b)
  \/ Refuse
  \/ Get
  \/ Look
  \/ Flush
  \/ ReportError

FifoSpec == FifoInit /\ [][FifoNext]_fifoVars
=============================================================================
