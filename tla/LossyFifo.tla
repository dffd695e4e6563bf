----------------------------- MODULE LossyFifo -----------------------------
(***************************************************************************)
(* What the receive FIFO of a serial device promises its reader: a queue   *)
(* of at most Cap bytes that never refuses a byte.  When it is full the    *)
(* oldest byte makes room for the newest, and a flag remembers, until the  *)
(* next read, that something was discarded.                                *)
(***************************************************************************)
EXTENDS Naturals, Sequences

CONSTANTS Byte,     \* the values a received byte can have
          Cap       \* how many unread bytes the FIFO can hold

VARIABLES q,        \* the unread bytes, the oldest first
          dropped   \* a byte was discarded since the last read

fifoVars == <<q, dropped>>

Full == Len(q) = Cap

Init == q = <<>> /\ dropped = FALSE

\* The receiver stores b, at the cost of the oldest byte when there is no room.
Receive(b) ==
  /\ q' = Append(IF Full THEN Tail(q) ELSE q, b)
  /\ dropped' = (dropped \/ Full)

\* The reader takes the oldest byte.
Read ==
  /\ q /= <<>>
  /\ q' = Tail(q)
  /\ dropped' = FALSE

Next == Read \/ \E b \in Byte : Receive(b)

Spec == Init /\ [][Next]_fifoVars
=============================================================================
