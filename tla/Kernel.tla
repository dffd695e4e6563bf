------------------------------- MODULE Kernel -------------------------------
(***************************************************************************)
(* The scheduler, the threads and their timers of the RT-Thread kernel     *)
(* (Rt-thread/src/scheduler.c, thread.c, timer.c, clock.c), for one        *)
(* processor, as functions of its state k.  Each runs with interrupts      *)
(* disabled and is therefore one step, or a part of one, of KernelIpc.     *)
(*                                                                         *)
(* A thread's list node tlist is in one list at a time: a ready list, the  *)
(* list of an object it waits for, or none.  A smaller number is a higher  *)
(* priority.                                                               *)
(***************************************************************************)
EXTENDS Integers, Sequences, FiniteSets, SequencesExt

CONSTANTS Threads,       \* the threads, Idle among them
          Idle,          \* the thread that never blocks
          Null,          \* no thread (RT_NULL)
          InitPriority,  \* thread -> init_priority
          InitTick,      \* thread -> init_tick, its time slice
          Objects,       \* semaphores and mutexes, what a thread can wait for
          PrioObjects,   \* those created with RT_IPC_FLAG_PRIO
          TickRange      \* RT_TICK_MAX + 1: rt_tick wraps there

Priorities == {InitPriority[t] : t \in Threads}
HalfRange == (TickRange - 1) \div 2     \* RT_TICK_MAX / 2

ASSUME KernelAssumption ==
  /\ IsFiniteSet(Threads) /\ Idle \in Threads /\ Null \notin Threads
  /\ InitPriority \in [Threads -> Nat]
  /\ \A t \in Threads \ {Idle} : InitPriority[t] < InitPriority[Idle]
  /\ InitTick \in [Threads -> Nat \ {0}]
  /\ PrioObjects \subseteq Objects
  /\ TickRange \in Nat /\ TickRange > 4

\* a - b in the arithmetic of rt_tick_t
TicksBetween(a, b) == (a - b) % TickRange
-----------------------------------------------------------------------------
(***************************************************************************)
(* Ready lists and the scheduler.                                          *)
(***************************************************************************)
\* rt_list_remove(&thread->tlist), whichever list it is in
Unlink(k, t) ==
  [k EXCEPT !.ready = [p \in Priorities |-> RemoveFirst(@[p], t)],
            !.waiting = [o \in Objects |-> RemoveFirst(@[o], t)]]

rt_schedule_insert_thread(k, t) ==
  IF t = k.current
  THEN [k EXCEPT !.stat[t] = "RUNNING"]
  ELSE [k EXCEPT !.stat[t] = "READY",
                 !.ready[k.priority[t]] = Append(@, t),
                 !.group = @ \union {k.priority[t]}]

rt_schedule_remove_thread(k, t) ==
  LET u == Unlink(k, t) IN
  IF u.ready[u.priority[t]] = <<>>
  THEN [u EXCEPT !.group = @ \ {u.priority[t]}]
  ELSE u

\* Mutant of KeepsCpu: a thread whose slice has ended keeps the processor.
KeepsCpuOfEqual(k, p) == k.priority[k.current] <= p

\* The running thread keeps the processor against a ready thread of priority p.
KeepsCpu(k, p) ==
  \/ k.priority[k.current] < p
  \/ k.priority[k.current] = p /\ k.current \notin k.yield

rt_schedule(k) ==
  LET p == Min(k.group)
      cur == k.current
      running == k.stat[cur] = "RUNNING"
      keeps == running /\ KeepsCpu(k, p)
      to == IF keeps THEN cur ELSE Head(k.ready[p])
      gone == [k EXCEPT !.current = to]
      given == IF running /\ ~keeps
               THEN rt_schedule_insert_thread([gone EXCEPT !.yield = @ \ {cur}], cur)
               ELSE gone
  IN IF k.group = {}
     THEN k
     ELSE [rt_schedule_remove_thread(given, to) EXCEPT !.stat[to] = "RUNNING"]

rt_system_scheduler_start(k) ==
  LET to == Head(k.ready[Min(k.group)])
  IN [rt_schedule_remove_thread([k EXCEPT !.current = to], to)
        EXCEPT !.stat[to] = "RUNNING"]
-----------------------------------------------------------------------------
(***************************************************************************)
(* The timer of a thread: k.timers is rt_timer_list, in the order in which *)
(* the timers expire.  A timer is active (RT_TIMER_FLAG_ACTIVATED) as long *)
(* as it is in the list.                                                   *)
(***************************************************************************)
rt_timer_stop(k, t) ==
  [k EXCEPT !.timers = RemoveFirstMatch(@, LAMBDA e : e.thread = t)]

rt_timer_start(k, t, ticks) ==
  LET stopped == rt_timer_stop(k, t).timers
      timer == [thread |-> t, timeout |-> (k.tick + ticks) % TickRange]
      Later(e) == TicksBetween(e.timeout, timer.timeout) \in 1 .. HalfRange - 1
      i == SelectInSeq(stopped, Later)
  IN [k EXCEPT !.timers = IF i = 0 THEN Append(stopped, timer)
                                   ELSE InsertAt(stopped, i, timer)]
-----------------------------------------------------------------------------
(***************************************************************************)
(* Threads.                                                                *)
(***************************************************************************)
rt_thread_suspend(k, t) ==
  IF k.stat[t] = "SUSPEND"
  THEN k
  ELSE rt_timer_stop([rt_schedule_remove_thread(k, t)
                        EXCEPT !.stat[t] = "SUSPEND"], t)

\* Mutant of rt_thread_resume: the timer is not stopped.
ResumeKeepsTimer(k, t) ==
  IF k.stat[t] # "SUSPEND" THEN k ELSE rt_schedule_insert_thread(Unlink(k, t), t)

rt_thread_resume(k, t) ==
  IF k.stat[t] # "SUSPEND"
  THEN k
  ELSE rt_schedule_insert_thread(rt_timer_stop(Unlink(k, t), t), t)

\* Mutant of rt_thread_timeout: it does not schedule.
TimeoutWithoutSchedule(k, t) ==
  rt_schedule_insert_thread(Unlink([k EXCEPT !.error[t] = "ETIMEOUT"], t), t)

rt_thread_timeout(k, t) ==
  rt_schedule(rt_schedule_insert_thread(
    Unlink([k EXCEPT !.error[t] = "ETIMEOUT"], t), t))

\* Mutant of ChangePriority: a ready thread stays in its list.
ChangePriorityInPlace(k, t, p) == [k EXCEPT !.priority[t] = p]

\* rt_thread_control with RT_THREAD_CTRL_CHANGE_PRIORITY
ChangePriority(k, t, p) ==
  IF k.stat[t] = "READY"
  THEN rt_schedule_insert_thread(
         [rt_schedule_remove_thread(k, t) EXCEPT !.priority[t] = p], t)
  ELSE [k EXCEPT !.priority[t] = p]

rt_thread_startup(k, t) ==
  rt_thread_resume([k EXCEPT !.priority[t] = InitPriority[t],
                             !.stat[t] = "SUSPEND"], t)
-----------------------------------------------------------------------------
(***************************************************************************)
(* The tick interrupt.                                                     *)
(***************************************************************************)
\* A timer is due for half the range of the tick, from its time on.
Due(k, timer) == TicksBetween(k.tick, timer.timeout) < HalfRange

\* The loop takes the first timer of the list as long as it is due; due[n] is
\* the kernel after n timers, or after all that are due.
rt_timer_check(k) ==
  LET due[n \in 0 .. Len(k.timers)] ==
        IF n = 0 THEN k
        ELSE LET j == due[n - 1] IN
             IF j.timers # <<>> /\ Due(j, Head(j.timers))
             THEN rt_thread_timeout([j EXCEPT !.timers = Tail(@)],
                                    Head(j.timers).thread)
             ELSE j
  IN due[Len(k.timers)]

\* Mutant of rt_tick_increase: timers are not checked when a slice has ended.
TickChecksWithinSlice(k) ==
  LET cur == k.current
      next == [k EXCEPT !.tick = (@ + 1) % TickRange,
                        !.remaining[cur] = @ - 1]
      ended == [next EXCEPT !.remaining[cur] = InitTick[cur],
                            !.yield = @ \union {cur}]
  IN IF next.remaining[cur] = 0 THEN rt_schedule(ended) ELSE rt_timer_check(next)

\* Mutant of rt_tick_increase: a slice that has ended is not begun again.
TickForgetsSlice(k) ==
  LET cur == k.current
      next == [k EXCEPT !.tick = (@ + 1) % TickRange,
                        !.remaining[cur] = @ - 1,
                        !.yield = @ \union {cur}]
  IN rt_timer_check(IF next.remaining[cur] = 0 THEN rt_schedule(next) ELSE next)

rt_tick_increase(k) ==
  LET cur == k.current
      next == [k EXCEPT !.tick = (@ + 1) % TickRange,
                        !.remaining[cur] = @ - 1]
      ended == [next EXCEPT !.remaining[cur] = InitTick[cur],
                            !.yield = @ \union {cur}]
  IN rt_timer_check(IF next.remaining[cur] = 0 THEN rt_schedule(ended) ELSE next)
-----------------------------------------------------------------------------
Unstarted ==
  [tick |-> 0, current |-> Null, group |-> {}, yield |-> {}, timers |-> <<>>,
   stat |-> [t \in Threads |-> "INIT"],
   priority |-> InitPriority,
   error |-> [t \in Threads |-> "EOK"],
   remaining |-> InitTick,
   ready |-> [p \in Priorities |-> <<>>],
   waiting |-> [o \in Objects |-> <<>>]]

\* The kernel after rt_system_scheduler_start, when the threads have been
\* started in this order.
Started(order) ==
  LET after[n \in 0 .. Len(order)] ==
        IF n = 0 THEN Unstarted ELSE rt_thread_startup(after[n - 1], order[n])
  IN rt_system_scheduler_start(after[Len(order)])
=============================================================================
