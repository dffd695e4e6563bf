--------------------------- MODULE SerialRx_proofs ---------------------------
(***************************************************************************)
(* The receive path, for every FIFO, command buffer and number of bytes:   *)
(* the FIFO's type invariant, the meaning of is_full and that it           *)
(* implements LossyFifo; that no wake-up of the thread serial3 is lost,    *)
(* that the command buffer stays terminated, and that a complete command   *)
(* in it has been announced or is about to be.                             *)
(***************************************************************************)
EXTENDS SerialRx, SequenceTheorems, TLAPS

(***************************************************************************)
(* The FIFO by itself, whoever reads and fills it: its invariant, and that *)
(* it implements LossyFifo.                                                *)
(***************************************************************************)
RxInv == RxTypeOK /\ FullMeansFull

USE RxFifoAssumption DEF RxFifoAssumption

\* Advance stays within the buffer.
LEMMA AdvanceType == \A i \in Index : Advance(i) \in Index
  BY DEF Advance, Index

LEMMA RxInitInv == RxInit => RxInv
  <1> SUFFICES ASSUME RxInit PROVE RxInv
    OBVIOUS
  <1>1. 0 \in Index
    BY DEF Index
  <1>2. RxTypeOK
    BY <1>1 DEF RxInit, RxTypeOK
  <1>3. FullMeansFull
    BY DEF RxInit, FullMeansFull
  <1> QED BY <1>2, <1>3 DEF RxInv

\* Storing a byte keeps the invariant.
LEMMA PutCharInv ==
  ASSUME RxInv, NEW b \in Byte, PutChar(b)
  PROVE  RxInv'
  <1>1. RxTypeOK'
    BY AdvanceType DEF RxInv, RxTypeOK, PutChar
  <1>2. FullMeansFull'
    <2>1. CASE Advance(put_index) = get_index
      BY <2>1, AdvanceType DEF RxInv, RxTypeOK, PutChar, FullMeansFull
    <2>2. CASE Advance(put_index) /= get_index
      <3>1. ~is_full
        BY <2>2 DEF RxInv, FullMeansFull
      <3> QED BY <2>2, <3>1 DEF PutChar, FullMeansFull
    <2> QED BY <2>1, <2>2
  <1> QED BY <1>1, <1>2 DEF RxInv

\* Removing a byte keeps it too.
LEMMA GetCharInv ==
  ASSUME RxInv, GetChar
  PROVE  RxInv'
  BY AdvanceType DEF RxInv, RxTypeOK, FullMeansFull, GetChar

LEMMA RxNextInv == RxInv /\ [RxNext]_rxVars => RxInv'
  <1> SUFFICES ASSUME RxInv, [RxNext]_rxVars PROVE RxInv'
    OBVIOUS
  <1>1. CASE GetChar
    BY <1>1, GetCharInv
  <1>2. ASSUME NEW b \in Byte, PutChar(b) PROVE RxInv'
    BY <1>2, PutCharInv
  <1>3. CASE UNCHANGED rxVars
    BY <1>3 DEF rxVars, RxInv, RxTypeOK, FullMeansFull, Advance
  <1> QED BY <1>1, <1>2, <1>3 DEF RxNext

\* In every reachable state the indexes lie in the buffer and is_full is set
\* only when the ring has no room (serial.c, rt_hw_serial_isr).
THEOREM RxFifoInvariant == RxSpec => [](RxTypeOK /\ FullMeansFull)
  <1>1. RxSpec => []RxInv
    BY RxInitInv, RxNextInv, PTL DEF RxSpec
  <1>2. RxInv => RxTypeOK /\ FullMeansFull
    BY DEF RxInv
  <1> QED BY <1>1, <1>2, PTL
-----------------------------------------------------------------------------
(***************************************************************************)
(* The refinement.                                                         *)
(***************************************************************************)

\* What the indexes say of the number of unread bytes.
LEMMA LengthType ==
  ASSUME RxInv
  PROVE  /\ RxLength \in 0 .. bufsz - 1
         /\ RxLength = 0 <=> get_index = put_index
         /\ RxLength = bufsz - 1 <=> Advance(put_index) = get_index
         /\ \A i \in 0 .. bufsz - 1 : Slot(i) \in Index
         /\ Slot(RxLength) = put_index
         /\ Slot(0) = get_index
  BY DEF RxInv, RxTypeOK, Index, RxLength, Advance, Slot

\* Different offsets are different slots.
LEMMA SlotInjective ==
  ASSUME RxInv, NEW i \in 0 .. bufsz - 1, NEW j \in 0 .. bufsz - 1,
         Slot(i) = Slot(j)
  PROVE  i = j
  BY DEF RxInv, RxTypeOK, Index, Slot

LEMMA UnreadType == RxInv => Unread \in Seq(Byte) /\ Len(Unread) = RxLength
  <1> SUFFICES ASSUME RxInv
               PROVE  Unread \in Seq(Byte) /\ Len(Unread) = RxLength
    OBVIOUS
  <1>1. RxLength \in Nat /\ \A i \in 1 .. RxLength : buffer[Slot(i - 1)] \in Byte
    BY LengthType DEF RxInv, RxTypeOK
  <1> QED BY <1>1, IsASeq DEF Unread

\* The arithmetic of RxLength and Slot, for any two indexes.
LEMMA RingArithmetic ==
  ASSUME NEW p \in 0 .. bufsz - 1, NEW g \in 0 .. bufsz - 1,
         NEW n, n = IF p >= g THEN p - g ELSE bufsz - (g - p)
  PROVE  /\ n \in Nat
         /\ \A i \in 1 .. n :
              (IF g + (i - 1) < bufsz THEN g + (i - 1) ELSE g + (i - 1) - bufsz)
                \in 0 .. bufsz - 1
  OBVIOUS

LEMMA UnreadTypeNext ==
  ASSUME RxInv'
  PROVE  Unread' \in Seq(Byte) /\ Len(Unread') = RxLength'
  <1>0. put_index' \in 0 .. bufsz - 1 /\ get_index' \in 0 .. bufsz - 1
    BY DEF RxInv, RxTypeOK, Index
  <1>1. /\ RxLength' \in Nat
        /\ \A i \in 1 .. RxLength' : Slot(i - 1)' \in Index
    BY <1>0, RingArithmetic, Zenon DEF RxLength, Slot, Index
  <1>2. \A i \in 1 .. RxLength' : buffer'[Slot(i - 1)'] \in Byte
    BY <1>1 DEF RxInv, RxTypeOK
  <1> QED BY <1>1, <1>2, IsASeq DEF Unread

\* A read takes the head of the queue.
LEMMA GetCharReads ==
  ASSUME RxInv, GetChar
  PROVE  Fifo!Read
  <1>a. get_index /= put_index
    <2>1. CASE is_full
      BY <2>1 DEF RxInv, RxTypeOK, FullMeansFull, Advance, Index
    <2>2. CASE ~is_full
      BY <2>2 DEF GetChar, NoData
    <2> QED BY <2>1, <2>2
  <1>0. RxInv' /\ RxLength > 0 /\ RxLength \in Nat
    BY <1>a, GetCharInv, LengthType
  <1>1. RxLength' = RxLength - 1
    BY DEF GetChar, RxInv, RxTypeOK, Index, RxLength, Advance, NoData, FullMeansFull
  <1>2. \A i \in 0 .. RxLength - 2 : Slot(i)' = Slot(i + 1)
    BY LengthType DEF GetChar, RxInv, RxTypeOK, Index, Advance, Slot
  <1>3. Unread' = Tail(Unread)
    <2>1. Unread' \in Seq(Byte) /\ Len(Unread') = RxLength - 1
      <3>1. Unread' \in Seq(Byte) /\ Len(Unread') = RxLength'
        BY <1>0, UnreadTypeNext
      <3> QED BY <3>1, <1>1
    <2>2. Tail(Unread) \in Seq(Byte) /\ Len(Tail(Unread)) = RxLength - 1
      BY <1>0, UnreadType
    <2>3. ASSUME NEW i \in 1 .. RxLength - 1
          PROVE  Unread'[i] = Tail(Unread)[i]
      <3>1. Unread'[i] = buffer[Slot(i)]
        BY <1>1, <1>2, LengthType DEF Unread, GetChar
      <3>2. Tail(Unread)[i] = Unread[i + 1]
        BY <1>0, UnreadType, LengthType
      <3>3. Unread[i + 1] = buffer[Slot(i)]
        BY LengthType DEF Unread
      <3> QED BY <3>1, <3>2, <3>3
    <2> QED BY <2>1, <2>2, <2>3, SeqEqual
  <1>4. Unread /= <<>>
    BY <1>0, UnreadType
  <1> QED BY <1>3, <1>4 DEF Fifo!Read, GetChar

\* A stored byte joins the queue, whose head leaves it when there is no room.
LEMMA PutCharReceives ==
  ASSUME RxInv, NEW b \in Byte, PutChar(b)
  PROVE  Fifo!Receive(b)
  <1>0. RxInv' /\ RxLength \in 0 .. bufsz - 1
    BY PutCharInv, LengthType
  <1> DEFINE full == Len(Unread) = bufsz - 1
             skip == IF full THEN 1 ELSE 0
             old  == IF full THEN Tail(Unread) ELSE Unread
             new  == Append(old, b)
  <1>1. full <=> Advance(put_index) = get_index
    BY UnreadType, LengthType
  <1>2. RxLength' = RxLength - skip + 1
    BY <1>1 DEF PutChar, RxInv, RxTypeOK, Index, RxLength, Advance
  <1>3. \A i \in 0 .. RxLength : Slot(i)' = Slot(i + skip)
    <2>1. CASE full
      BY <2>1, <1>1, UnreadType DEF PutChar, RxInv, RxTypeOK, Index, Advance, Slot
    <2>2. CASE ~full
      BY <2>2, <1>1 DEF PutChar, Slot
    <2> QED BY <2>1, <2>2
  <1>4. /\ old \in Seq(Byte)
        /\ Len(old) = RxLength - skip
        /\ \A i \in 1 .. RxLength - skip : old[i] = buffer[Slot(i - 1 + skip)]
    <2>1. CASE full
      BY <2>1, UnreadType, LengthType DEF Unread
    <2>2. CASE ~full
      BY <2>2, UnreadType, LengthType DEF Unread
    <2> QED BY <2>1, <2>2
  <1>5. /\ new \in Seq(Byte)
        /\ Len(new) = RxLength - skip + 1
        /\ \A i \in 1 .. RxLength - skip : new[i] = old[i]
        /\ new[RxLength - skip + 1] = b
    BY <1>0, <1>4, AppendProperties
  <1>6. Unread' \in Seq(Byte) /\ Len(Unread') = RxLength - skip + 1
    BY <1>0, <1>2, UnreadTypeNext
  <1>7. ASSUME NEW i \in 1 .. RxLength - skip + 1
        PROVE  Unread'[i] = new[i]
    <2>1. Unread'[i] = buffer'[Slot(i - 1 + skip)]
      BY <1>0, <1>2, <1>3 DEF Unread
    <2>2. CASE i = RxLength - skip + 1
      BY <2>1, <2>2, <1>0, <1>5, LengthType DEF PutChar, RxInv, RxTypeOK
    <2>3. CASE i /= RxLength - skip + 1
      <3>1. Slot(i - 1 + skip) /= Slot(RxLength)
        BY <2>3, <1>0, SlotInjective, UnreadType
      <3> QED BY <2>1, <2>3, <3>1, <1>0, <1>4, <1>5, LengthType
              DEF PutChar, RxInv, RxTypeOK
    <2> QED BY <2>2, <2>3
  <1>8. Unread' = new
    BY <1>5, <1>6, <1>7, SeqEqual
  <1>9. is_full' = (is_full \/ full)
    BY <1>1 DEF PutChar, RxInv, RxTypeOK, FullMeansFull
  <1> QED BY <1>8, <1>9 DEF Fifo!Receive, Fifo!Full

\* The circular buffer implements the lossy FIFO (serial.c,
\* rt_hw_serial_isr and _serial_int_rx): for every size of the buffer, bytes
\* leave in the order they came and only the oldest are ever lost.
THEOREM RxFifoImplementsLossyFifo == RxSpec => FifoSpec
  <1>1. RxInit => Fifo!Init
    <2> SUFFICES ASSUME RxInit PROVE Fifo!Init
      OBVIOUS
    <2>1. Unread = <<>>
      BY RxInitInv, UnreadType, LengthType DEF RxInit
    <2> QED BY <2>1 DEF Fifo!Init, RxInit
  <1>2. RxInv /\ [RxNext]_rxVars => [Fifo!Next]_Fifo!fifoVars
    <2> SUFFICES ASSUME RxInv, [RxNext]_rxVars
                 PROVE  [Fifo!Next]_Fifo!fifoVars
      OBVIOUS
    <2>1. CASE GetChar
      BY <2>1, GetCharReads DEF Fifo!Next
    <2>2. ASSUME NEW b \in Byte, PutChar(b) PROVE Fifo!Next
      BY <2>2, PutCharReceives DEF Fifo!Next
    <2>3. CASE UNCHANGED rxVars
      BY <2>3 DEF rxVars, Fifo!fifoVars, Unread, RxLength, Slot
    <2> QED BY <2>1, <2>2, <2>3 DEF RxNext
  <1>3. RxSpec => []RxInv
    BY RxInitInv, RxNextInv, PTL DEF RxSpec
  <1> QED BY <1>1, <1>2, <1>3, PTL DEF RxSpec, FifoSpec, Fifo!Spec
-----------------------------------------------------------------------------
USE SerialRxAssumption DEF SerialRxAssumption

(***************************************************************************)
(* NoLostWakeup is not inductive: the thread is about to block in "take",  *)
(* and a byte may arrive after it found the FIFO empty.  What saves it is  *)
(* the post the interrupt leaves in usart3_rx_sem, and that the thread     *)
(* only runs once the callback that posts is registered.                   *)
(***************************************************************************)
Wakeup ==
  /\ s3 /= "created" => rx_indicate
  /\ ~isr /\ s3 = "take" => RxLength = 0 \/ usart3_rx_sem > 0
  /\ ~isr /\ s3 = "blocked" => RxLength = 0

SInv == TypeOK /\ FullMeansFull /\ Wakeup /\ Terminated

-----------------------------------------------------------------------------
LEMMA InitSInv == Init => SInv
  <1> SUFFICES ASSUME Init PROVE SInv
    OBVIOUS
  <1>1. RxInv
    BY RxInitInv DEF Init
  <1>2. 0 \in Cells /\ 0 \in 0 .. RECBUF_MAX - 2 /\ RECBUF_MAX - 1 \in Cells
    BY DEF Cells
  <1>c. NUL \in Byte
    BY RxFifoAssumption
  <1>d. s_sUsartBuf3 \in [Cells -> Byte]
    BY <1>c, Zenon DEF Init
  <1>e. clr \in [Clearers -> {"idle", "reset"}]
    BY Zenon DEF Init
  <1>a. /\ s_sUsartBuf3 \in [Cells -> Byte] /\ RECPos3 \in Cells
        /\ clr \in [Clearers -> {"idle", "reset"}]
    BY <1>2, <1>d, <1>e DEF Init
  <1>b. sent \in 0 .. MaxBytes
    BY DEF Init
  <1>3. TypeOK
    BY <1>1, <1>2, <1>a, <1>b DEF Init, TypeOK, RxInv
  <1>4. Wakeup
    BY DEF Init, Wakeup
  <1>5. Terminated
    BY <1>2 DEF Init, Terminated
  <1> QED BY <1>1, <1>3, <1>4, <1>5 DEF SInv, RxInv

\* A step that leaves the FIFO alone keeps what is said of it.
LEMMA FifoUnchanged ==
  ASSUME RxInv, UNCHANGED rxVars
  PROVE  RxInv' /\ RxLength' = RxLength
  BY DEF rxVars, RxInv, RxTypeOK, FullMeansFull, Advance, RxLength

LEMMA RegisterCallbackSInv == SInv /\ RegisterCallback => SInv'
  <1> SUFFICES ASSUME SInv, RegisterCallback PROVE SInv'
    OBVIOUS
  <1>1. RxInv' /\ RxLength' = RxLength
    BY FifoUnchanged DEF SInv, TypeOK, RxInv, RegisterCallback
  <1>2. TypeOK'
    BY <1>1 DEF SInv, TypeOK, RxInv, RegisterCallback, bufVars, hmiVars
  <1>3. Wakeup' /\ Terminated'
    BY DEF SInv, Wakeup, Terminated, RegisterCallback, bufVars
  <1> QED BY <1>1, <1>2, <1>3 DEF SInv, RxInv

LEMMA IsrByteSInv == SInv /\ IsrByte => SInv'
  <1> SUFFICES ASSUME SInv, IsrByte PROVE SInv'
    OBVIOUS
  <1>1. RxInv'
    BY PutCharInv DEF SInv, TypeOK, RxInv, IsrByte
  <1>2. TypeOK'
    BY <1>1 DEF SInv, TypeOK, RxInv, IsrByte, s3Vars, bufVars, hmiVars
  <1>3. Wakeup' /\ Terminated'
    BY DEF SInv, Wakeup, Terminated, IsrByte, s3Vars, bufVars
  <1> QED BY <1>1, <1>2, <1>3 DEF SInv, RxInv

\* Whoever is waiting is released, and who is about to wait finds a token.
LEMMA IsrIndicateSInv == SInv /\ IsrIndicate => SInv'
  <1> SUFFICES ASSUME SInv, IsrIndicate PROVE SInv'
    OBVIOUS
  <1>1. RxInv' /\ RxLength' = RxLength
    BY FifoUnchanged DEF SInv, TypeOK, RxInv, IsrIndicate
  <1>a. /\ usart3_rx_sem' \in Nat
        /\ s3' \in {"created", "read", "take", "blocked", "check", "store",
                     "test", "term", "release"}
    BY DEF SInv, TypeOK, IsrIndicate, PostRx
  <1>2. TypeOK'
    BY <1>1, <1>a DEF SInv, TypeOK, RxInv, IsrIndicate, bufVars, hmiVars
  <1>3. Wakeup'
    <2>1. CASE s3 = "created" \/ RxLength = 0
      BY <2>1, <1>1 DEF SInv, TypeOK, Wakeup, IsrIndicate, PostRx
    <2>2. CASE s3 /= "created" /\ RxLength /= 0
      <3>1. PostRx /\ rx_indicate' = rx_indicate /\ rx_indicate
        BY <2>2 DEF SInv, Wakeup, IsrIndicate
      <3>2. CASE s3 = "blocked"
        BY <3>1, <3>2 DEF PostRx, Wakeup
      <3>3. CASE s3 /= "blocked"
        BY <3>1, <3>3 DEF PostRx, Wakeup, SInv, TypeOK
      <3> QED BY <3>2, <3>3
    <2> QED BY <2>1, <2>2
  <1>4. Terminated'
    BY DEF SInv, Terminated, IsrIndicate, bufVars
  <1> QED BY <1>1, <1>2, <1>3, <1>4 DEF SInv, RxInv

LEMMA Serial3SInv == SInv /\ Serial3 => SInv'
  <1> SUFFICES ASSUME SInv, Serial3 PROVE SInv'
    OBVIOUS
  <1> USE DEF SInv, RxInv, isrVars, bufVars, hmiVars
  <1>1. CASE S3Read
    <2>1. RxInv'
      BY <1>1, FifoUnchanged, GetCharInv DEF S3Read, TypeOK
    <2>2. NextChar \in Byte
      BY DEF TypeOK, RxTypeOK, NextChar
    <2>3. TypeOK'
      BY <1>1, <2>1, <2>2 DEF S3Read, TypeOK
    <2>4. CASE NoData
      <3>1. RxLength = 0 /\ RxLength' = RxLength
        BY <1>1, <2>4, LengthType, FifoUnchanged DEF S3Read, NoData, TypeOK
      <3> QED BY <1>1, <2>1, <2>3, <2>4, <3>1 DEF S3Read, Wakeup, Terminated
    <2>5. CASE ~NoData
      BY <1>1, <2>1, <2>3, <2>5 DEF S3Read, Wakeup, Terminated
    <2> QED BY <2>4, <2>5
  <1>2. CASE S3Take
    <2>1. RxInv' /\ RxLength' = RxLength
      BY <1>2, FifoUnchanged DEF S3Take, TypeOK
    <2>2. TypeOK'
      BY <1>2, <2>1 DEF S3Take, TypeOK
    <2> QED BY <1>2, <2>1, <2>2 DEF S3Take, Wakeup, Terminated, TypeOK
  <1>3. CASE S3Check
    <2>1. RxInv' /\ RxLength' = RxLength
      BY <1>3, FifoUnchanged DEF S3Check, TypeOK
    <2>2. RECPos3 < RECBUF_MAX - 1 => RECPos3 \in 0 .. RECBUF_MAX - 2
      BY DEF TypeOK, Cells
    <2>3. TypeOK'
      BY <1>3, <2>1, <2>2 DEF S3Check, TypeOK
    <2> QED BY <1>3, <2>1, <2>3 DEF S3Check, Wakeup, Terminated
  <1>4. CASE S3Store
    <2>1. RxInv' /\ RxLength' = RxLength
      BY <1>4, FifoUnchanged DEF S3Store, TypeOK
    <2>2. pos \in Cells /\ pos + 1 \in Cells /\ pos /= RECBUF_MAX - 1
      BY DEF TypeOK, Cells
    <2>3. TypeOK'
      BY <1>4, <2>1, <2>2 DEF S3Store, TypeOK
    <2>4. Terminated'
      BY <1>4, <2>2 DEF S3Store, Terminated, TypeOK, Cells
    <2> QED BY <1>4, <2>1, <2>3, <2>4 DEF S3Store, Wakeup
  <1>5. CASE S3Test
    <2>1. RxInv' /\ RxLength' = RxLength
      BY <1>5, FifoUnchanged DEF S3Test, TypeOK
    <2>2. TypeOK'
      BY <1>5, <2>1 DEF S3Test, TypeOK
    <2> QED BY <1>5, <2>1, <2>2 DEF S3Test, Wakeup, Terminated
  <1>6. CASE S3Terminate
    <2>1. RxInv' /\ RxLength' = RxLength
      BY <1>6, FifoUnchanged DEF S3Terminate, TypeOK
    <2>2. TypeOK'
      <3>1. s_sUsartBuf3' \in [Cells -> Byte]
        <4>1. NUL \in Byte
          BY RxFifoAssumption
        <4>2. s_sUsartBuf3 \in [Cells -> Byte]
          BY DEF TypeOK
        <4>3. s_sUsartBuf3' = [s_sUsartBuf3 EXCEPT ![RECPos3] = NUL]
          BY <1>6 DEF S3Terminate
        <4> QED BY <4>1, <4>2, <4>3, Zenon
      <3> QED BY <1>6, <2>1, <3>1 DEF S3Terminate, TypeOK
    <2>3. Terminated'
      BY <1>6 DEF S3Terminate, Terminated, TypeOK, Cells
    <2> QED BY <1>6, <2>1, <2>2, <2>3 DEF S3Terminate, Wakeup
  <1>7. CASE S3Release
    <2>1. RxInv' /\ RxLength' = RxLength
      BY <1>7, FifoUnchanged DEF S3Release, TypeOK
    <2>2. TypeOK'
      BY <1>7, <2>1 DEF S3Release, TypeOK
    <2> QED BY <1>7, <2>1, <2>2 DEF S3Release, Wakeup, Terminated
  <1> QED BY <1>1, <1>2, <1>3, <1>4, <1>5, <1>6, <1>7 DEF Serial3

\* The other threads touch only the command buffer and HMIRePre_sem.
LEMMA HmiSInv ==
  SInv /\ (HMIRePrecess \/ HrNtp \/ \E c \in Clearers : ClearBegin(c) \/ ClearEnd(c))
    => SInv'
  <1> SUFFICES ASSUME SInv,
                      HMIRePrecess \/ HrNtp
                        \/ \E c \in Clearers : ClearBegin(c) \/ ClearEnd(c)
               PROVE  SInv'
    OBVIOUS
  <1> USE DEF HMIRePrecess, HrTake, HrParse, HrRest, HrNtp, HrWipe, HrReset, ClearBegin,
              ClearEnd
  <1>1. UNCHANGED <<rxVars, isrVars, s3Vars>>
    OBVIOUS
  <1>2. RxInv' /\ RxLength' = RxLength
    BY <1>1, FifoUnchanged DEF SInv, TypeOK, RxInv
  <1>3. UNCHANGED bufVars \/ WipeBuffer \/ ResetPos
    OBVIOUS
  <1>4. /\ s_sUsartBuf3' \in [Cells -> Byte] /\ RECPos3' \in Cells
        /\ Terminated'
    BY <1>3 DEF SInv, TypeOK, Terminated, WipeBuffer, ResetPos, bufVars, Cells
  <1>5. /\ HMIRePre_sem' \in Nat
        /\ hr' \in {"take", "blocked", "parse", "pageWipe", "pageReset", "rest",
                    "ntp", "wipe", "reset"}
        /\ clr' \in [Clearers -> {"idle", "reset"}]
    BY DEF SInv, TypeOK
  <1>6. TypeOK'
    BY <1>1, <1>2, <1>4, <1>5 DEF SInv, TypeOK, RxInv, isrVars, s3Vars
  <1>7. Wakeup'
    BY <1>1, <1>2 DEF SInv, Wakeup, isrVars, s3Vars
  <1> QED BY <1>2, <1>4, <1>6, <1>7 DEF SInv, RxInv

LEMMA StutterSInv == SInv /\ UNCHANGED vars => SInv'
  <1> SUFFICES ASSUME SInv, UNCHANGED vars PROVE SInv'
    OBVIOUS
  <1> USE DEF vars, isrVars, s3Vars, bufVars, hmiVars
  <1>1. RxInv' /\ RxLength' = RxLength
    BY FifoUnchanged DEF SInv, TypeOK, RxInv
  <1>2. TypeOK'
    BY <1>1 DEF SInv, TypeOK, RxInv
  <1>3. Wakeup' /\ Terminated'
    BY <1>1 DEF SInv, Wakeup, Terminated
  <1> QED BY <1>1, <1>2, <1>3 DEF SInv, RxInv

LEMMA SerialRxInvariant == Spec => []SInv
  <1>1. SInv /\ [Next]_vars => SInv'
    BY RegisterCallbackSInv, IsrByteSInv, IsrIndicateSInv, Serial3SInv, HmiSInv,
       StutterSInv DEF Next
  <1> QED BY InitSInv, <1>1, PTL DEF Spec
-----------------------------------------------------------------------------
\* Every variable keeps its type: in particular no position at which serial3
\* stores lies outside the command buffer (Task.c:132-138).
THEOREM SerialRxTypeOK == Spec => []TypeOK
  <1>1. SInv => TypeOK
    BY DEF SInv
  <1> QED BY <1>1, SerialRxInvariant, PTL

\* The thread serial3 never sleeps on bytes it could read (Task.c:127-131
\* with usart3_input, Usart.c:40-46), for every size of the FIFO and however
\* many bytes one interrupt delivers.
THEOREM SerialRxNoLostWakeup == Spec => []NoLostWakeup
  <1>1. SInv => NoLostWakeup
    BY DEF SInv, Wakeup, NoLostWakeup
  <1> QED BY <1>1, SerialRxInvariant, PTL

\* The last cell of the command buffer is 0 in every interleaving of the four
\* threads that write it.
THEOREM SerialRxTerminated == Spec => []Terminated
  <1>1. SInv => Terminated
    BY DEF SInv
  <1> QED BY <1>1, SerialRxInvariant, PTL
-----------------------------------------------------------------------------
(***************************************************************************)
(* Announced is not inductive either: the token for an end mark may be     *)
(* taken and the buffer cleared while serial3 is about to store at the     *)
(* position it loaded before, so that RECPos3 moves on at once over cells  *)
(* it did not count.  What holds at every step is that each end mark below *)
(* RECPos3, and below the position about to be stored at, has been told of *)
(* by a token, or by a HMIRePrecess that has still to clear the buffer.    *)
(***************************************************************************)
EndMark(n) == \E i \in Cells : i < n /\ s_sUsartBuf3[i] = LF
Told == HMIRePre_sem > 0 \/ hr \notin {"take", "blocked", "reset"}
Owed ==
  /\ s3 \notin {"test", "term", "release"} => (EndMark(RECPos3) => Told)
  /\ s3 = "store" => (EndMark(pos) => Told)
  /\ s3 = "test" /\ RECPos3 /= 0 => (EndMark(RECPos3 - 1) => Told)

LEMMA InitOwed == Init => Owed
  BY DEF Init, Owed, EndMark, Cells

\* What serial3 does.
LEMMA Serial3Owed == SInv /\ Owed /\ Serial3 => Owed'
  <1> SUFFICES ASSUME SInv, Owed, Serial3 PROVE Owed'
    OBVIOUS
  <1>t. /\ HMIRePre_sem \in Nat /\ RECPos3 \in Cells /\ pos \in 0 .. RECBUF_MAX - 2
        /\ s_sUsartBuf3 \in [Cells -> Byte]
    BY DEF SInv, TypeOK
  <1>1. CASE S3Read \/ S3Take \/ S3Check
    BY <1>1, <1>t DEF S3Read, S3Take, S3Check, Owed, EndMark, Told, bufVars, hmiVars,
       isrVars
  <1>2. CASE S3Store
    <2>1. s3' = "test" /\ RECPos3' = pos + 1 /\ Told' = Told
      BY <1>2 DEF S3Store, Told, hmiVars
    <2>2. EndMark(pos)' => EndMark(pos)
      BY <1>2, <1>t DEF S3Store, EndMark, Cells
    <2> QED BY <1>2, <1>t, <2>1, <2>2 DEF S3Store, Owed, EndMark, Cells
  <1>3. CASE S3Test
    <2>1. UNCHANGED <<bufVars, hmiVars>>
      BY <1>3 DEF S3Test
    <2>2. CASE RECPos3 = 0
      BY <1>3, <1>t, <2>1, <2>2 DEF S3Test, Owed, EndMark, Cells, bufVars
    <2>3. CASE RECPos3 /= 0
      BY <1>3, <1>t, <2>1, <2>3 DEF S3Test, Owed, EndMark, Told, Cells, bufVars, hmiVars
    <2> QED BY <2>2, <2>3
  <1>4. CASE S3Terminate
    BY <1>4 DEF S3Terminate, Owed
  <1>5. CASE S3Release
    BY <1>5, <1>t DEF S3Release, Owed, Told
  <1> QED BY <1>1, <1>2, <1>3, <1>4, <1>5 DEF Serial3

\* What those who clear the buffer do: after the first statement there is no
\* end mark, after the second there is none below RECPos3.
LEMMA HmiOwed ==
  SInv /\ Owed
    /\ (HMIRePrecess \/ HrNtp \/ \E c \in Clearers : ClearBegin(c) \/ ClearEnd(c))
    => Owed'
  <1> SUFFICES ASSUME SInv, Owed,
                      HMIRePrecess \/ HrNtp
                        \/ \E c \in Clearers : ClearBegin(c) \/ ClearEnd(c)
               PROVE  Owed'
    OBVIOUS
  <1>t. /\ HMIRePre_sem \in Nat /\ RECPos3 \in Cells
        /\ s_sUsartBuf3 \in [Cells -> Byte]
    BY DEF SInv, TypeOK
  <1>0. UNCHANGED s3Vars
    BY DEF HMIRePrecess, HrTake, HrParse, HrRest, HrNtp, HrWipe, HrReset, ClearBegin, ClearEnd
  <1>1. CASE HrTake \/ HrParse \/ HrRest \/ HrNtp
    BY <1>0, <1>1, <1>t DEF HrTake, HrParse, HrRest, HrNtp, Owed, EndMark, Told, bufVars, s3Vars
  <1>2. CASE WipeBuffer
    BY <1>0, <1>2 DEF WipeBuffer, Owed, EndMark
  <1>3. ASSUME ResetPos, Told => Told' PROVE Owed'
    BY <1>0, <1>3 DEF ResetPos, Owed, EndMark, s3Vars, Cells
  <1>4. CASE HrReset
    BY <1>3, <1>4 DEF HrReset, Told
  <1>5. CASE \E c \in Clearers : ClearEnd(c)
    BY <1>3, <1>5 DEF ClearEnd, Told
  <1> QED BY <1>1, <1>2, <1>4, <1>5 DEF HMIRePrecess, HrWipe, ClearBegin

\* The other steps leave the command buffer and its announcements alone.
LEMMA OtherOwed ==
  SInv /\ Owed /\ (RegisterCallback \/ IsrByte \/ IsrIndicate \/ UNCHANGED vars) => Owed'
  <1> SUFFICES ASSUME SInv, Owed,
                      RegisterCallback \/ IsrByte \/ IsrIndicate \/ UNCHANGED vars
               PROVE  Owed'
    OBVIOUS
  <1>1. UNCHANGED <<bufVars, hmiVars, pos>>
    BY DEF RegisterCallback, IsrByte, IsrIndicate, vars, s3Vars
  <1>2. s3' = s3 \/ (s3' = "read" /\ s3 \in {"created", "blocked"})
    BY DEF SInv, Wakeup, RegisterCallback, IsrByte, IsrIndicate, PostRx, vars, s3Vars
  <1> QED BY <1>1, <1>2 DEF Owed, EndMark, Told, bufVars, hmiVars

\* A complete command in the buffer never waits for the next one (Task.c:135-139,
\* HMI.c, HMI_RePrecess): it has been announced, is being handled, or serial3
\* is about to announce it, for every size of the buffer and although four
\* threads clear it while serial3 is between two of its statements.
THEOREM SerialRxAnnounced == Spec => []Announced
  <1>1. SInv /\ Owed /\ [Next]_vars => Owed'
    BY Serial3Owed, HmiOwed, OtherOwed DEF Next
  <1>2. Owed => Announced
    BY DEF Owed, EndMark, Told, Announced, CommandInBuffer
  <1> QED BY InitOwed, <1>1, <1>2, SerialRxInvariant, PTL DEF Spec
-----------------------------------------------------------------------------
(***************************************************************************)
(* The threads and the interrupt in one: what they do to the FIFO are its  *)
(* operations and nothing else.                                            *)
(***************************************************************************)
LEMMA StepOfTheFifo == [Next]_vars => [RxNext]_rxVars
  <1> SUFFICES ASSUME [Next]_vars PROVE [RxNext]_rxVars
    OBVIOUS
  <1>1. CASE IsrByte
    BY <1>1 DEF IsrByte, RxNext
  <1>2. CASE S3Read
    BY <1>2 DEF S3Read, RxNext
  <1>3. CASE Serial3 /\ ~S3Read
    BY <1>3 DEF Serial3, S3Take, S3Check, S3Store, S3Test, S3Terminate, S3Release
  <1>4. CASE RegisterCallback \/ IsrIndicate
    BY <1>4 DEF RegisterCallback, IsrIndicate
  <1>5. CASE HMIRePrecess \/ HrNtp
    BY <1>5 DEF HMIRePrecess, HrTake, HrParse, HrRest, HrNtp, HrWipe, HrReset
  <1>6. CASE \E c \in Clearers : ClearBegin(c) \/ ClearEnd(c)
    BY <1>6 DEF ClearBegin, ClearEnd
  <1>7. CASE UNCHANGED vars
    BY <1>7 DEF vars
  <1> QED BY <1>1, <1>2, <1>3, <1>4, <1>5, <1>6, <1>7 DEF Next

\* In every interleaving of the interrupt and the threads the circular buffer
\* is the FIFO that loses the oldest byte only, although the interrupt that
\* fills it reports once for all its bytes and the reader sleeps and wakes on
\* tokens (serial.c, rt_hw_serial_isr and _serial_int_rx).
THEOREM SerialRxImplementsLossyFifo == Spec => FifoSpec
  <1>1. Init => RxInit
    BY DEF Init
  <1>2. Spec => RxSpec
    BY <1>1, StepOfTheFifo, PTL DEF Spec, RxSpec
  <1> QED BY <1>2, RxFifoImplementsLossyFifo, PTL

\* In every interleaving the flag is_full is set only while the ring holds
\* bufsz - 1 bytes (serial.c, rt_hw_serial_isr).
THEOREM SerialRxFullMeansFull == Spec => []FullMeansFull
  <1>1. SInv => FullMeansFull
    BY DEF SInv, RxInv
  <1> QED BY <1>1, SerialRxInvariant, PTL
=============================================================================
