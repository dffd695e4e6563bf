----------------------------- MODULE KernelNap -----------------------------
(***************************************************************************)
(* KernelIpc with the RTC interrupt of the weather station, whose handler  *)
(* calls DisplayRTCTime, which calls rt_thread_mdelay (HMI/HMI.c:409).  In *)
(* an interrupt rt_thread_self() is whichever thread was interrupted: that *)
(* thread is suspended with its timer set, while it goes on with its own   *)
(* code if no other thread is ready.                                       *)
(***************************************************************************)
EXTENDS KernelIpc

CONSTANTS serial3, GetWeather, tidle, usart3_rx_sem,
          NapTicks    \* 50 ms

VARIABLE second       \* the interrupt of this second has come: the next one
                      \* comes long after the sleep it has begun is over

NapInitPriority == [t \in Threads |-> IF t = tidle THEN 31 ELSE 11]
NapMaxHold == [m \in Mutexes |-> 1]
NapInitTick == [t \in Threads |-> IF t = tidle THEN 2 ELSE 1]

\* rt_thread_mdelay in the handler, from rt_thread_suspend to the test of
\* thread->error, which comes before the switch to another thread
RTC_IRQHandler ==
  LET cur == k.current
      j == rt_schedule(rt_timer_start(rt_thread_suspend(k, cur), cur, NapTicks))
  IN /\ k' = IF j.error[cur] = "ETIMEOUT" THEN [j EXCEPT !.error[cur] = "EOK"] ELSE j
     /\ ~second /\ second' = TRUE
     /\ UNCHANGED <<value, mutex, pc, call, held>>

\* serial3 takes its semaphore without a time limit; GetWeather sleeps.
NapNext ==
  \/ /\ \/ Calls(serial3, {<<"take", usart3_rx_sem, FOREVER>>})
        \/ Calls(GetWeather, {<<"sleep", Null, 1>>})
        \/ \E t \in Clients : GoesOn(t)
        \/ Interrupt
     /\ UNCHANGED second
  \/ RTC_IRQHandler

NapSpec == Init /\ second = FALSE /\ [][NapNext]_<<vars, second>>
=============================================================================
