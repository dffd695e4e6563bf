----------------------------- MODULE KernelIpc -----------------------------
(***************************************************************************)
(* Semaphores and mutexes of the RT-Thread kernel (Rt-thread/src/ipc.c),   *)
(* and the threads and interrupts that use them.                           *)
(*                                                                         *)
(* What runs with interrupts disabled is one step.  Where a call enables   *)
(* them before it calls rt_schedule, an interrupt may come between: the    *)
(* thread is at "schedule" there, and at "check" when rt_schedule has      *)
(* returned and the call is about to look at thread->error.  An interrupt  *)
(* is not interrupted by another.                                          *)
(***************************************************************************)
EXTENDS Kernel

CONSTANTS Sems, Mutexes,
          WaitTimes,   \* the times threads wait or sleep, in ticks
          MaxValue,    \* bound: tokens of a semaphore
          MaxHold      \* mutex -> bound: how often its owner takes it

ASSUME KernelIpcAssumption ==
  /\ Objects = Sems \union Mutexes /\ Sems \intersect Mutexes = {}
  /\ WaitTimes \subseteq 1 .. HalfRange - 1
  /\ MaxValue \in Nat /\ MaxHold \in [Mutexes -> Nat \ {0}]

VARIABLES
  k,        \* scheduler, threads and timers
  value,    \* semaphore -> value
  mutex,    \* mutex -> its value, owner, hold and original_priority
  pc,       \* thread -> where it is: "run", "schedule" or "check"
  call,     \* thread -> the call it is in, and on which object
  held      \* thread -> mutex -> how often it has got the mutex and not yet
            \* released it, as far as it knows

vars == <<k, value, mutex, pc, call, held>>

FOREVER == -1        \* RT_WAITING_FOREVER
NoCall == [op |-> "none", on |-> Null]
FreeMutex == [value |-> 1, owner |-> Null, hold |-> 0, original |-> 255]
Clients == Threads \ {Idle}

Init ==
  /\ \E order \in SetToSeqs(Threads) : k = Started(order)
  /\ value = [s \in Sems |-> 0]
  /\ mutex = [m \in Mutexes |-> FreeMutex]
  /\ pc = [t \in Threads |-> "run"]
  /\ call = [t \in Threads |-> NoCall]
  /\ held = [t \in Threads |-> [m \in Mutexes |-> 0]]

Runs(t) == k.current = t /\ pc[t] = "run"
-----------------------------------------------------------------------------
(***************************************************************************)
(* Waiting for an object.                                                  *)
(***************************************************************************)
rt_ipc_list_suspend(j, o, t) ==
  LET s == rt_thread_suspend(j, t)
      Lower(u) == s.priority[t] < s.priority[u]
      i == IF o \in PrioObjects THEN SelectInSeq(s.waiting[o], Lower) ELSE 0
  IN [s EXCEPT !.waiting[o] = IF i = 0 THEN Append(@, t) ELSE InsertAt(@, i, t)]

rt_ipc_list_resume(j, o) == rt_thread_resume(j, Head(j.waiting[o]))

\* Thread t waits for o, and its timer runs if the time is bounded.
WaitFor(j, o, t, time) ==
  LET s == rt_ipc_list_suspend(j, o, t)
  IN IF time > 0 THEN rt_timer_start(s, t, time) ELSE s

\* The rest of a call of t, after interrupts were enabled, is rt_schedule().
Enters(t, op, o) ==
  /\ call' = [call EXCEPT ![t] = [op |-> op, on |-> o]]
  /\ pc' = [pc EXCEPT ![t] = "schedule"]
-----------------------------------------------------------------------------
(***************************************************************************)
(* rt_sem_take and rt_sem_release.                                         *)
(***************************************************************************)
\* Mutant of SemTake: the error of an earlier call is kept.
SemTakeKeepsError(t, s, time) ==
  /\ Runs(t)
  /\ \/ /\ value[s] > 0
        /\ value' = [value EXCEPT ![s] = @ - 1]
        /\ UNCHANGED <<k, pc, call>>
     \/ /\ value[s] = 0
        /\ k' = WaitFor(k, s, t, time)
        /\ Enters(t, "take", s)
        /\ UNCHANGED value
  /\ UNCHANGED <<mutex, held>>

\* Mutant of SemTake: the thread looks at its error before it has scheduled.
SemTakeLooksAtOnce(t, s, time) ==
  /\ Runs(t)
  /\ \/ /\ value[s] > 0
        /\ value' = [value EXCEPT ![s] = @ - 1]
        /\ UNCHANGED <<k, pc, call>>
     \/ /\ value[s] = 0
        /\ k' = WaitFor([k EXCEPT !.error[t] = "EOK"], s, t, time)
        /\ call' = [call EXCEPT ![t] = [op |-> "take", on |-> s]]
        /\ pc' = [pc EXCEPT ![t] = "check"]
        /\ UNCHANGED value
  /\ UNCHANGED <<mutex, held>>

\* With a time of 0 (rt_sem_trytake) a take that finds no token changes nothing.
SemTake(t, s, time) ==
  /\ Runs(t)
  /\ \/ /\ value[s] > 0
        /\ value' = [value EXCEPT ![s] = @ - 1]
        /\ UNCHANGED <<k, pc, call>>
     \/ /\ value[s] = 0
        /\ k' = WaitFor([k EXCEPT !.error[t] = "EOK"], s, t, time)
        /\ Enters(t, "take", s)
        /\ UNCHANGED value
  /\ UNCHANGED <<mutex, held>>

\* Mutant of Posted: the value is increased also when a thread waits.
PostedTwice(s) ==
  /\ value' = [value EXCEPT ![s] = @ + 1]
  /\ UNCHANGED <<mutex, held>>

\* What rt_sem_release does to the value, when it does not resume a thread
Posted(s) ==
  /\ value' = IF k.waiting[s] = <<>> THEN [value EXCEPT ![s] = @ + 1] ELSE value
  /\ UNCHANGED <<mutex, held>>

SemRelease(t, s) ==
  /\ Runs(t) /\ value[s] < MaxValue
  /\ Posted(s)
  /\ IF k.waiting[s] = <<>>
     THEN UNCHANGED <<k, pc, call>>
     ELSE k' = rt_ipc_list_resume(k, s) /\ Enters(t, "release", s)

\* An interrupt posts, as the callback of the serial device does.
IsrRelease(s) ==
  /\ value[s] < MaxValue
  /\ Posted(s)
  /\ k' = IF k.waiting[s] = <<>> THEN k ELSE rt_schedule(rt_ipc_list_resume(k, s))
  /\ UNCHANGED <<pc, call>>
-----------------------------------------------------------------------------
(***************************************************************************)
(* rt_mutex_take and rt_mutex_release.                                     *)
(***************************************************************************)
Holds(t, m, n) == held' = [held EXCEPT ![t][m] = @ + n]

TakesAgain(t, m) ==
  /\ mutex[m].owner = t /\ mutex[m].hold < MaxHold[m]
  /\ mutex' = [mutex EXCEPT ![m].hold = @ + 1]
  /\ k' = [k EXCEPT !.error[t] = "EOK"]
  /\ Holds(t, m, 1)
  /\ UNCHANGED <<pc, call>>

TakesFree(t, m) ==
  /\ mutex[m].owner # t /\ mutex[m].value > 0
  /\ mutex' = [mutex EXCEPT ![m] =
                 [value |-> @.value - 1, owner |-> t, hold |-> @.hold + 1,
                  original |-> k.priority[t]]]
  /\ k' = [k EXCEPT !.error[t] = "EOK"]
  /\ Holds(t, m, 1)
  /\ UNCHANGED <<pc, call>>

\* Mutant of Boosted: the comparison of the priorities is turned round.
BoostedWrongWay(j, m, t) ==
  LET owner == mutex[m].owner
  IN IF j.priority[t] > j.priority[owner]
     THEN ChangePriority(j, owner, j.priority[t]) ELSE j

\* The owner is given the priority of the thread that waits for it.
Boosted(j, m, t) ==
  LET owner == mutex[m].owner
  IN IF j.priority[t] < j.priority[owner]
     THEN ChangePriority(j, owner, j.priority[t]) ELSE j

WaitsForMutex(t, m, time) ==
  /\ mutex[m].owner # t /\ mutex[m].value = 0 /\ time # 0
  /\ k' = WaitFor(Boosted([k EXCEPT !.error[t] = "EOK"], m, t), m, t, time)
  /\ Enters(t, "lock", m)
  /\ UNCHANGED <<mutex, held>>

DoesNotWait(t, m) ==
  /\ mutex[m].owner # t /\ mutex[m].value = 0
  /\ k' = [k EXCEPT !.error[t] = "ETIMEOUT"]
  /\ UNCHANGED <<mutex, held, pc, call>>

MutexTake(t, m, time) ==
  /\ Runs(t)
  /\ \/ TakesAgain(t, m)
     \/ TakesFree(t, m)
     \/ WaitsForMutex(t, m, time)
     \/ time = 0 /\ DoesNotWait(t, m)
  /\ UNCHANGED value

NotOwner(t, m) ==
  /\ mutex[m].owner # t
  /\ k' = [k EXCEPT !.error[t] = "ERROR"]
  /\ UNCHANGED <<mutex, held, pc, call>>

\* The owner's priority after its last release
Restored(t, m) ==
  IF mutex[m].original # k.priority[t]
  THEN ChangePriority(k, t, mutex[m].original) ELSE k

ReleasesOnce(t, m) ==
  /\ mutex[m].hold > 1
  /\ mutex' = [mutex EXCEPT ![m].hold = @ - 1]
  /\ UNCHANGED <<k, pc, call>>

\* Mutant of HandsOver: the mutex is also made available.
HandsOverAndFrees(t, m) ==
  LET j == Restored(t, m)
      next == Head(j.waiting[m])
  IN /\ mutex[m].hold = 1 /\ k.waiting[m] # <<>>
     /\ mutex' = [mutex EXCEPT ![m].owner = next, ![m].original = j.priority[next],
                               ![m].value = 1]
     /\ k' = rt_ipc_list_resume(j, m)
     /\ Enters(t, "unlock", m)

HandsOver(t, m) ==
  LET j == Restored(t, m)
      next == Head(j.waiting[m])
  IN /\ mutex[m].hold = 1 /\ k.waiting[m] # <<>>
     /\ mutex' = [mutex EXCEPT ![m].owner = next, ![m].original = j.priority[next]]
     /\ k' = rt_ipc_list_resume(j, m)
     /\ Enters(t, "unlock", m)

SetsFree(t, m) ==
  /\ mutex[m].hold = 1 /\ k.waiting[m] = <<>>
  /\ mutex' = [mutex EXCEPT ![m] = FreeMutex]
  /\ k' = Restored(t, m)
  /\ UNCHANGED <<pc, call>>

MutexRelease(t, m) ==
  /\ Runs(t)
  /\ \/ NotOwner(t, m)
     \/ /\ mutex[m].owner = t
        /\ ReleasesOnce(t, m) \/ HandsOver(t, m) \/ SetsFree(t, m)
        /\ Holds(t, m, -1)
  /\ UNCHANGED value
-----------------------------------------------------------------------------
(***************************************************************************)
(* Sleeping and yielding, the rest of a call that has scheduled, and the   *)
(* tick.                                                                   *)
(***************************************************************************)
rt_thread_sleep(t, ticks) ==
  /\ Runs(t)
  /\ k' = rt_timer_start(rt_thread_suspend(k, t), t, ticks)
  /\ Enters(t, "sleep", Null)
  /\ UNCHANGED <<value, mutex, held>>

rt_thread_yield(t) ==
  /\ Runs(t)
  /\ k' = rt_schedule(k)
  /\ UNCHANGED <<value, mutex, pc, call, held>>

Waits(t) == call[t].op \in {"take", "lock", "sleep"}

Schedule(t) ==
  /\ k.current = t /\ pc[t] = "schedule"
  /\ k' = rt_schedule(k)
  /\ IF Waits(t)
     THEN pc' = [pc EXCEPT ![t] = "check"] /\ UNCHANGED call
     ELSE /\ pc' = [pc EXCEPT ![t] = "run"]
          /\ call' = [call EXCEPT ![t] = NoCall]
  /\ UNCHANGED <<value, mutex, held>>

\* The call looks at thread->error and returns.
Return(t) ==
  /\ k.current = t /\ pc[t] = "check"
  /\ k' = IF call[t].op = "sleep" /\ k.error[t] = "ETIMEOUT"
          THEN [k EXCEPT !.error[t] = "EOK"] ELSE k
  /\ IF call[t].op = "lock" /\ k.error[t] = "EOK"
     THEN Holds(t, call[t].on, 1) ELSE UNCHANGED held
  /\ pc' = [pc EXCEPT ![t] = "run"]
  /\ call' = [call EXCEPT ![t] = NoCall]
  /\ UNCHANGED <<value, mutex>>

Tick ==
  /\ k' = rt_tick_increase(k)
  /\ UNCHANGED <<value, mutex, pc, call, held>>

\* Thread t makes one of these calls: an operation, an object and a time.
Calls(t, calls) ==
  \E c \in calls :
    \/ c[1] = "take" /\ SemTake(t, c[2], c[3])
    \/ c[1] = "release" /\ SemRelease(t, c[2])
    \/ c[1] = "lock" /\ MutexTake(t, c[2], c[3])
    \/ c[1] = "unlock" /\ mutex[c[2]].owner = t /\ MutexRelease(t, c[2])
    \/ c[1] = "unlock another's" /\ mutex[c[2]].owner # t /\ MutexRelease(t, c[2])
    \/ c[1] = "sleep" /\ rt_thread_sleep(t, c[3])
    \/ c[1] = "yield" /\ rt_thread_yield(t)

SemCalls == ({"take"} \X Sems \X (WaitTimes \union {FOREVER}))
            \union ({"release"} \X Sems \X {0})
MutexCalls == ({"lock"} \X Mutexes \X (WaitTimes \union {0, FOREVER}))
              \union ({"unlock", "unlock another's"} \X Mutexes \X {0})
OtherCalls == ({"sleep"} \X {Null} \X WaitTimes) \union ({"yield"} \X {Null} \X {0})
AllCalls == SemCalls \union MutexCalls \union OtherCalls

Interrupt == Tick \/ \E s \in Sems : IsrRelease(s)
GoesOn(t) == Schedule(t) \/ Return(t)

Next == (\E t \in Clients : Calls(t, AllCalls) \/ GoesOn(t)) \/ Interrupt

\* The hardware timer never stops: WF_vars(Tick), as Tick is always enabled and
\* alone changes the tick.
TimePasses == []<><<k'.tick # k.tick>>_vars

Spec == Init /\ [][Next]_vars /\ TimePasses
-----------------------------------------------------------------------------
(***************************************************************************)
(* Properties.                                                             *)
(***************************************************************************)
TypeOK ==
  /\ DOMAIN k = {"tick", "current", "group", "yield", "timers", "stat",
                 "priority", "error", "remaining", "ready", "waiting"}
  /\ k.tick \in 0 .. TickRange - 1 /\ k.current \in Threads
  /\ k.group \subseteq Priorities /\ k.yield \subseteq Threads
  /\ k.stat \in [Threads -> {"READY", "RUNNING", "SUSPEND"}]
  /\ k.priority \in [Threads -> Priorities]
  /\ k.error \in [Threads -> {"EOK", "ETIMEOUT", "ERROR"}]
  /\ \A t \in Threads : k.remaining[t] \in 1 .. InitTick[t]
  /\ \A p \in Priorities : k.ready[p] \in Seq(Threads)
  /\ \A o \in Objects : k.waiting[o] \in Seq(Threads)
  /\ k.timers \in Seq([thread : Threads, timeout : 0 .. TickRange - 1])
  /\ value \in [Sems -> 0 .. MaxValue]
  /\ \A m \in Mutexes :
       /\ mutex[m] \in [value : {0, 1}, owner : Threads \union {Null},
                        hold : 0 .. MaxHold[m], original : Priorities \union {255}]
       /\ \A t \in Threads : held[t][m] \in 0 .. MaxHold[m]
  /\ pc \in [Threads -> {"run", "schedule", "check"}]

ReadyIn(t) == {p \in Priorities : Contains(k.ready[p], t)}
WaitsIn(t) == {o \in Objects : Contains(k.waiting[o], t)}

\* The list a thread is in tells its state, no list has it twice, and the
\* ready group has exactly the priorities with a ready thread: what
\* rt_schedule takes for granted (scheduler.c:418-530), although threads
\* change lists in the calls of others, in time-outs and when a mutex changes
\* their priority.
QueuesAgree ==
  /\ \A t \in Threads :
       /\ ReadyIn(t) = IF k.stat[t] = "READY" THEN {k.priority[t]} ELSE {}
       /\ WaitsIn(t) # {} => k.stat[t] = "SUSPEND"
       /\ WaitsIn(t) \subseteq {call[t].on}
       /\ k.stat[t] = "RUNNING" => k.current = t
  /\ \A p \in Priorities : IsInjective(k.ready[p])
  /\ \A o \in Objects : IsInjective(k.waiting[o])
  /\ k.group = {p \in Priorities : k.ready[p] # <<>>}

HasTimer(t) == \E i \in DOMAIN k.timers : k.timers[i].thread = t

\* Whoever is suspended can be woken: it is in the list of an object, or its
\* timer runs.  Whoever is not has no timer left that could wake it from a
\* later call.
Wakeable ==
  \A t \in Threads :
    IF k.stat[t] = "SUSPEND"
    THEN WaitsIn(t) # {} \/ HasTimer(t)
    ELSE ~HasTimer(t)

\* A mutex is free or its owner alone has got it, as often as hold says; an
\* owner that was handed the mutex counts it when its call returns.
Coming(t, m) ==
  IF call[t] = [op |-> "lock", on |-> m] /\ WaitsIn(t) = {} /\ k.error[t] = "EOK"
  THEN 1 ELSE 0
MutualExclusion ==
  \A m \in Mutexes, t \in Threads :
    held[t][m] + Coming(t, m) = IF mutex[m].owner = t THEN mutex[m].hold ELSE 0

\* Nobody waits for what is free: not for a semaphore with a token, and not
\* for a mutex without an owner.
NobodyWaitsInVain ==
  /\ \A s \in Sems : value[s] > 0 => k.waiting[s] = <<>>
  /\ \A m \in Mutexes : /\ mutex[m].owner = Null => k.waiting[m] = <<>>
                        /\ mutex[m].owner = Null <=> mutex[m].hold = 0
                        /\ mutex[m].owner = Null <=> mutex[m].value = 1

Owns(t) == {m \in Mutexes : mutex[m].owner = t}

\* What CountingSem calls the threads that were given a token of s, and those
\* whose time ran out, before their calls have returned
Taking(s) == {t \in Threads : call[t] = [op |-> "take", on |-> s]}
Granted(s) == {t \in Taking(s) : WaitsIn(t) = {} /\ k.error[t] = "EOK"}
Expired(s) == {t \in Taking(s) : k.error[t] # "EOK"}

\* A semaphore whose threads wait in their order (RT_IPC_FLAG_FIFO) is what
\* CountingSem promises: a take that says RT_EOK has got a token of its own, no
\* post is lost to a time-out of the same moment, and waiters are served in
\* their order (ipc.c:324-471).  This is Promise(s)!AbsSpec of each.
Promise(s) == INSTANCE CountingSem WITH
  value <- value[s], queue <- k.waiting[s],
  granted <- Granted(s), expired <- Expired(s)
FifoSems == Sems \ PrioObjects
SemaphoreCounts ==
  /\ \A s \in FifoSems : Promise(s)!AbsInit
  /\ [][\A s \in FifoSems : Promise(s)!AbsStep]_vars

\* A take without a time limit does not return before it has been given a
\* token: ipc.c:316, "if the semaphore is unavailable, the thread shall wait".
WaitsForAToken ==
  [][\A t \in Threads : Return(t) /\ call[t].op = "take" => WaitsIn(t) = {}]_vars

\* A time-out comes: a thread whose timer runs does not stay suspended.
TimerFires(t) == HasTimer(t) /\ k.stat[t] = "SUSPEND" ~> k.stat[t] # "SUSPEND"

\* Threads of one priority share the processor (clock.c:83-96): a ready thread
\* runs, unless threads of higher priority keep it from running.
HigherActive(t) ==
  \E u \in Threads \ {t} : k.stat[u] # "SUSPEND" /\ k.priority[u] < k.priority[t]
GetsASlice(t) == k.stat[t] = "READY" ~> k.stat[t] # "READY" \/ HigherActive(t)
=============================================================================
