----------------------------- MODULE MCSerialRx -----------------------------
(***************************************************************************)
(* SerialRx on a FIFO of 3 slots and a command buffer of 3.                *)
(***************************************************************************)
EXTENDS SerialRx

MCByte == {"0", "c", "LF"}
=============================================================================
