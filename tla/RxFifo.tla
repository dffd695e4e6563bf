------------------------------- MODULE RxFifo -------------------------------
(***************************************************************************)
(* The interrupt-driven receive FIFO of RT-Thread's serial framework       *)
(* (struct rt_serial_rx_fifo in components/drivers/serial/serial.c): a     *)
(* circular buffer with a put and a get index.  rt_hw_serial_isr stores a  *)
(* byte (PutChar), _serial_int_rx removes one (GetChar); each body runs    *)
(* with interrupts disabled, so each is one step.                          *)
(***************************************************************************)
EXTENDS Naturals, Sequences

CONSTANTS Byte,    \* the values of a received byte
          NUL,     \* the byte 0, with which the buffer is filled at open
          bufsz    \* serial->config.bufsz (RT_SERIAL_RB_BUFSZ in the build)

ASSUME RxFifoAssumption == NUL \in Byte /\ bufsz \in Nat /\ bufsz > 1

VARIABLES buffer, put_index, get_index, is_full

rxVars == <<buffer, put_index, get_index, is_full>>

Index == 0 .. bufsz - 1

RxInit ==
  /\ buffer = [i \in Index |-> NUL]
  /\ put_index = 0
  /\ get_index = 0
  /\ is_full = FALSE

\* An index moves on by one and wraps at the end of the buffer.
Advance(i) == IF i + 1 >= bufsz THEN 0 ELSE i + 1

\* The reader's test for "there's no data".
NoData == get_index = put_index /\ ~is_full

\* rx_length as the interrupt handler computes it for the callback.
RxLength == IF put_index >= get_index THEN put_index - get_index
            ELSE bufsz - (get_index - put_index)

\* Mutant of PutChar: the oldest byte is not given up.
PutCharOntoOldest(ch) ==
  /\ buffer' = [buffer EXCEPT ![put_index] = ch]
  /\ put_index' = Advance(put_index)
  /\ is_full' = (is_full \/ Advance(put_index) = get_index)
  /\ UNCHANGED get_index

PutChar(ch) ==
  /\ buffer' = [buffer EXCEPT ![put_index] = ch]
  /\ put_index' = Advance(put_index)
  /\ IF Advance(put_index) = get_index
       THEN get_index' = Advance(get_index) /\ is_full' = TRUE
       ELSE UNCHANGED <<get_index, is_full>>

\* The byte GetChar delivers.
NextChar == buffer[get_index]

\* Mutant of GetChar: the flag is left as it is.
GetCharKeepsFlag ==
  /\ ~NoData
  /\ get_index' = Advance(get_index)
  /\ UNCHANGED <<buffer, put_index, is_full>>

GetChar ==
  /\ ~NoData
  /\ get_index' = Advance(get_index)
  /\ is_full' = FALSE
  /\ UNCHANGED <<buffer, put_index>>

RxNext == GetChar \/ \E ch \in Byte : PutChar(ch)

RxSpec == RxInit /\ [][RxNext]_rxVars
-----------------------------------------------------------------------------
(***************************************************************************)
(* The queue the indexes stand for, and the promise it must keep.          *)
(***************************************************************************)
Slot(i) == IF get_index + i < bufsz THEN get_index + i
           ELSE get_index + i - bufsz

Unread == [i \in 1 .. RxLength |-> buffer[Slot(i - 1)]]

Fifo == INSTANCE LossyFifo
          WITH q <- Unread, dropped <- is_full, Cap <- bufsz - 1

RxTypeOK ==
  /\ buffer \in [Index -> Byte]
  /\ put_index \in Index
  /\ get_index \in Index
  /\ is_full \in BOOLEAN

\* The flag is set only while the ring holds bufsz - 1 bytes, so that equal
\* indexes always mean an empty ring although the reader's test would call
\* them a full one when is_full is set (serial.c, _serial_int_rx).
FullMeansFull == is_full => Advance(put_index) = get_index

\* The circular buffer behaves as the lossy FIFO it stands for: bytes come
\* out in the order they came in, none twice, and only the oldest are lost
\* (serial.c, rt_hw_serial_isr and _serial_int_rx).
FifoSpec == Fifo!Spec
=============================================================================
