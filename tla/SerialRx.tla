------------------------------ MODULE SerialRx ------------------------------
(***************************************************************************)
(* The path of a byte from the touch screen on USART3 to the command       *)
(* handler: the receive interrupt fills the FIFO of module RxFifo and      *)
(* posts usart3_rx_sem (serial.c, Usart.c); the thread serial3 moves the   *)
(* bytes into s_sUsartBuf3 and posts HMIRePre_sem at each 0x0A (Task.c);   *)
(* the thread HMIRePrecess handles what the buffer holds and clears it     *)
(* (HMI.c).  The buffer and RECPos3 are also cleared by UpdateHMI, which   *)
(* ends every screen update that way, and by two shell commands.           *)
(*                                                                         *)
(* One CPU, preemptive threads of equal priority: any thread that is not   *)
(* blocked may take the next step, none while an interrupt is served.  The *)
(* accesses a thread makes to RECPos3 and s_sUsartBuf3 are separate steps. *)
(* A memset is one step: a byte stored while it runs is either kept or     *)
(* wiped, as when it is stored after or before.                            *)
(***************************************************************************)
EXTENDS RxFifo

CONSTANTS LF,          \* the end mark 0x0A
          RECBUF_MAX,  \* size of s_sUsartBuf3
          MaxBytes     \* bound: how many bytes the screen sends

ASSUME SerialRxAssumption ==
  /\ LF \in Byte /\ LF /= NUL
  /\ RECBUF_MAX \in Nat /\ RECBUF_MAX > 1
  /\ MaxBytes \in Nat

\* The threads that clear the command buffer when they please.
Clearers == {"UpdateHMI", "tshell"}

VARIABLES
  rx_indicate,    \* the receive callback is registered
  isr,            \* the receive interrupt is being served
  usart3_rx_sem,  \* value of the semaphore the callback posts
  s3,             \* where the thread serial3 is
  ch,             \* the byte it has read
  pos,            \* the value of RECPos3 it has loaded
  s_sUsartBuf3,   \* the command buffer
  RECPos3,        \* where the next byte goes
  HMIRePre_sem,   \* value of the semaphore that announces a command
  hr,             \* where the thread HMIRePrecess is
  clr,            \* where each of Clearers is
  sent            \* how many bytes the screen has sent

isrVars == <<rx_indicate, isr, usart3_rx_sem, sent>>
s3Vars  == <<s3, ch, pos>>
bufVars == <<s_sUsartBuf3, RECPos3>>
hmiVars == <<HMIRePre_sem, hr, clr>>
vars == <<rxVars, isrVars, s3Vars, bufVars, hmiVars>>

Cells == 0 .. RECBUF_MAX - 1

Init ==
  /\ RxInit
  /\ rx_indicate = FALSE
  /\ isr = FALSE
  /\ usart3_rx_sem = 0
  /\ s3 = "created" /\ ch = NUL /\ pos = 0
  /\ s_sUsartBuf3 = [i \in Cells |-> NUL] /\ RECPos3 = 0
  /\ HMIRePre_sem = 0
  /\ hr = "take"
  /\ clr = [c \in Clearers |-> "idle"]
  /\ sent = 0
-----------------------------------------------------------------------------
(***************************************************************************)
(* Start-up and the receive interrupt.                                     *)
(***************************************************************************)

\* serial3_init opens the device before it registers the callback, and
\* TaskInit starts the thread after both.
RegisterCallback ==
  /\ ~isr /\ ~rx_indicate
  /\ rx_indicate' = TRUE
  /\ s3' = "read"
  /\ UNCHANGED <<rxVars, isr, usart3_rx_sem, sent, ch, pos, bufVars, hmiVars>>

\* The handler takes the bytes the USART has, one after the other.
IsrByte ==
  /\ sent < MaxBytes
  /\ \E b \in Byte : PutChar(b)
  /\ sent' = sent + 1
  /\ isr' = TRUE
  /\ UNCHANGED <<rx_indicate, usart3_rx_sem, s3Vars, bufVars, hmiVars>>

\* rt_sem_release: a blocked thread goes on with its token, else the value
\* counts one more.
PostRx ==
  IF s3 = "blocked" THEN s3' = "read" /\ UNCHANGED usart3_rx_sem
  ELSE usart3_rx_sem' = usart3_rx_sem + 1 /\ UNCHANGED s3

\* Mutant of IsrIndicate: only the first byte of an empty FIFO is posted.
IsrIndicateFirst ==
  /\ isr
  /\ isr' = FALSE
  /\ IF rx_indicate /\ RxLength = 1 THEN PostRx
     ELSE UNCHANGED <<usart3_rx_sem, s3>>
  /\ UNCHANGED <<rxVars, rx_indicate, sent, ch, pos, bufVars, hmiVars>>

\* When there are no more it calls usart3_input, once for all of them.
IsrIndicate ==
  /\ isr
  /\ isr' = FALSE
  /\ IF rx_indicate /\ RxLength /= 0 THEN PostRx
     ELSE UNCHANGED <<usart3_rx_sem, s3>>
  /\ UNCHANGED <<rxVars, rx_indicate, sent, ch, pos, bufVars, hmiVars>>
-----------------------------------------------------------------------------
(***************************************************************************)
(* The thread serial3 (serial3_thread_entry).                              *)
(***************************************************************************)

S3Read ==
  /\ ~isr /\ s3 = "read"
  /\ IF NoData THEN s3' = "take" /\ UNCHANGED <<rxVars, ch>>
     ELSE GetChar /\ ch' = NextChar /\ s3' = "check"
  /\ UNCHANGED <<isrVars, pos, bufVars, hmiVars>>

\* Mutant of S3Take: it waits for the next post whatever the value is.
S3TakeBlind ==
  /\ ~isr /\ s3 = "take"
  /\ s3' = "blocked"
  /\ UNCHANGED <<rxVars, isrVars, ch, pos, bufVars, hmiVars>>

S3Take ==
  /\ ~isr /\ s3 = "take"
  /\ IF usart3_rx_sem > 0
       THEN usart3_rx_sem' = usart3_rx_sem - 1 /\ s3' = "read"
       ELSE s3' = "blocked" /\ UNCHANGED usart3_rx_sem
  /\ UNCHANGED <<rxVars, rx_indicate, isr, sent, ch, pos, bufVars, hmiVars>>

\* Mutant of S3Check: no room is kept for the 0 that ends the buffer.
S3CheckFull ==
  /\ ~isr /\ s3 = "check"
  /\ IF RECPos3 < RECBUF_MAX
       THEN s3' = "store" /\ pos' = RECPos3
       ELSE s3' = "read" /\ UNCHANGED pos
  /\ UNCHANGED <<rxVars, isrVars, ch, bufVars, hmiVars>>

\* A byte that finds the buffer full is dropped.
S3Check ==
  /\ ~isr /\ s3 = "check"
  /\ IF RECPos3 < RECBUF_MAX - 1
       THEN s3' = "store" /\ pos' = RECPos3
       ELSE s3' = "read" /\ UNCHANGED pos
  /\ UNCHANGED <<rxVars, isrVars, ch, bufVars, hmiVars>>

S3Store ==
  /\ ~isr /\ s3 = "store"
  /\ s_sUsartBuf3' = [s_sUsartBuf3 EXCEPT ![pos] = ch]
  /\ RECPos3' = pos + 1
  /\ s3' = "test"
  /\ UNCHANGED <<rxVars, isrVars, ch, pos, hmiVars>>

\* Mutant of S3Test: the position after the byte is tested.
S3TestNext ==
  /\ ~isr /\ s3 = "test"
  /\ s3' = IF s_sUsartBuf3[RECPos3] = LF THEN "term" ELSE "read"
  /\ UNCHANGED <<rxVars, isrVars, ch, pos, bufVars, hmiVars>>

\* s_sUsartBuf3[RECPos3-1]==0x0A reads RECPos3 again; when the buffer has
\* just been cleared the index is -1 and the byte read can be any.
S3Test ==
  /\ ~isr /\ s3 = "test"
  /\ IF RECPos3 = 0 THEN s3' \in {"term", "read"}
     ELSE s3' = IF s_sUsartBuf3[RECPos3 - 1] = LF THEN "term" ELSE "read"
  /\ UNCHANGED <<rxVars, isrVars, ch, pos, bufVars, hmiVars>>

S3Terminate ==
  /\ ~isr /\ s3 = "term"
  /\ s_sUsartBuf3' = [s_sUsartBuf3 EXCEPT ![RECPos3] = NUL]
  /\ s3' = "release"
  /\ UNCHANGED <<rxVars, isrVars, ch, pos, RECPos3, hmiVars>>

S3Release ==
  /\ ~isr /\ s3 = "release"
  /\ s3' = "read"
  /\ IF hr = "blocked" THEN hr' = "parse" /\ UNCHANGED HMIRePre_sem
     ELSE HMIRePre_sem' = HMIRePre_sem + 1 /\ UNCHANGED hr
  /\ UNCHANGED <<rxVars, isrVars, ch, pos, bufVars, clr>>

Serial3 == \/ S3Read \/ S3Take \/ S3Check \/ S3Store
           \/ S3Test \/ S3Terminate \/ S3Release
-----------------------------------------------------------------------------
(***************************************************************************)
(* The thread HMIRePrecess, and the threads that only clear the buffer.    *)
(***************************************************************************)

WipeBuffer == s_sUsartBuf3' = [i \in Cells |-> NUL] /\ UNCHANGED RECPos3
ResetPos   == RECPos3' = 0 /\ UNCHANGED s_sUsartBuf3

HrTake ==
  /\ ~isr /\ hr = "take"
  /\ IF HMIRePre_sem > 0
       THEN HMIRePre_sem' = HMIRePre_sem - 1 /\ hr' = "parse"
       ELSE hr' = "blocked" /\ UNCHANGED HMIRePre_sem
  /\ UNCHANGED <<rxVars, isrVars, s3Vars, bufVars, clr>>

\* HMI_RePrecess looks for each command in turn; a page: command updates
\* the screen, and Task_SendHMI_WeaData clears the buffer at its end.
HrParse ==
  /\ ~isr /\ hr = "parse"
  /\ hr' \in {"pageWipe", "rest"}
  /\ UNCHANGED <<rxVars, isrVars, s3Vars, bufVars, HMIRePre_sem, clr>>

\* The other commands.  Two of them, update: and place:, end in AccessNTP;
\* the rest lead to the two statements that end the handler.
HrRest ==
  /\ ~isr /\ hr = "rest"
  /\ hr' \in {"wipe", "ntp"}
  /\ UNCHANGED <<rxVars, isrVars, s3Vars, bufVars, HMIRePre_sem, clr>>

\* AccessNTP calls itself until GetNtp succeeds: it may never return.
HrNtp ==
  /\ ~isr /\ hr = "ntp"
  /\ hr' = "wipe"
  /\ UNCHANGED <<rxVars, isrVars, s3Vars, bufVars, HMIRePre_sem, clr>>

HrWipe ==
  /\ ~isr
  /\ \/ hr = "pageWipe" /\ hr' = "pageReset"
     \/ hr = "wipe" /\ hr' = "reset"
  /\ WipeBuffer
  /\ UNCHANGED <<rxVars, isrVars, s3Vars, HMIRePre_sem, clr>>

HrReset ==
  /\ ~isr
  /\ \/ hr = "pageReset" /\ hr' = "rest"
     \/ hr = "reset" /\ hr' = "take"
  /\ ResetPos
  /\ UNCHANGED <<rxVars, isrVars, s3Vars, HMIRePre_sem, clr>>

HMIRePrecess == HrTake \/ HrParse \/ HrRest \/ HrWipe \/ HrReset

\* The end of Task_SendHMI_WeaData in UpdateHMI or the command Update_HMI,
\* and the command usart3_sample.
ClearBegin(c) ==
  /\ ~isr /\ clr[c] = "idle"
  /\ clr' = [clr EXCEPT ![c] = "reset"]
  /\ WipeBuffer
  /\ UNCHANGED <<rxVars, isrVars, s3Vars, HMIRePre_sem, hr>>

ClearEnd(c) ==
  /\ ~isr /\ clr[c] = "reset"
  /\ clr' = [clr EXCEPT ![c] = "idle"]
  /\ ResetPos
  /\ UNCHANGED <<rxVars, isrVars, s3Vars, HMIRePre_sem, hr>>

Next == \/ RegisterCallback \/ IsrByte \/ IsrIndicate
        \/ Serial3 \/ HMIRePrecess \/ HrNtp
        \/ \E c \in Clearers : ClearBegin(c) \/ ClearEnd(c)

\* The round-robin scheduler runs every thread that stays ready, and an
\* interrupt handler that has begun ends.  Nothing makes the screen send, a
\* clearer begin or AccessNTP return.
Fairness ==
  /\ WF_vars(RegisterCallback) /\ WF_vars(IsrIndicate)
  /\ WF_vars(Serial3) /\ WF_vars(HMIRePrecess)
  /\ \A c \in Clearers : WF_vars(ClearEnd(c))

Spec == Init /\ [][Next]_vars /\ Fairness
-----------------------------------------------------------------------------
TypeOK ==
  /\ RxTypeOK
  /\ rx_indicate \in BOOLEAN /\ isr \in BOOLEAN
  /\ usart3_rx_sem \in Nat /\ HMIRePre_sem \in Nat
  /\ s3 \in {"created", "read", "take", "blocked", "check", "store",
             "test", "term", "release"}
  /\ ch \in Byte
  /\ pos \in 0 .. RECBUF_MAX - 2
  /\ s_sUsartBuf3 \in [Cells -> Byte] /\ RECPos3 \in Cells
  /\ hr \in {"take", "blocked", "parse", "pageWipe", "pageReset", "rest",
             "ntp", "wipe", "reset"}
  /\ clr \in [Clearers -> {"idle", "reset"}]
  /\ sent \in 0 .. MaxBytes

\* No byte waits for the next one to arrive: the thread serial3 is never
\* blocked on usart3_rx_sem while the FIFO holds a byte, although one post
\* may stand for several bytes and bytes received before the callback is
\* registered post nothing (Task.c, serial3_thread_entry).
NoLostWakeup == ~isr /\ s3 = "blocked" => RxLength = 0

\* The command buffer always ends in a 0, whatever order the four threads
\* store and clear in, so that the string functions of HMI_RePrecess stop
\* inside it.
Terminated == s_sUsartBuf3[RECBUF_MAX - 1] = NUL

\* An end mark within the received part of the buffer.
CommandInBuffer == \E i \in Cells : i < RECPos3 /\ s_sUsartBuf3[i] = LF

\* A command that is complete in the buffer has been announced or is about
\* to be: it never waits for the end mark of another one (Task.c:135-139).
Announced ==
  CommandInBuffer => \/ HMIRePre_sem > 0
                     \/ hr \notin {"take", "blocked"}
                     \/ s3 \in {"test", "term", "release"}

\* Whatever the screen has sent is taken out of the FIFO in the end.
Drained == []<>(RxLength = 0)

\* Every call of AccessNTP returns.  The code does not ensure it: after one
\* lost answer the recursion need not end (NtpExample.c:118-121).
NtpReturns == hr = "ntp" ~> hr /= "ntp"

\* A complete command does not stay in the buffer for ever, as long as the
\* handler does not stay in AccessNTP for ever (HMI.c:488 and 540).
CommandLeaves == NtpReturns => (CommandInBuffer ~> ~CommandInBuffer)
=============================================================================
