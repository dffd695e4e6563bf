----------------------------- MODULE MCKernel -----------------------------
(***************************************************************************)
(* KernelHistory with three threads of two priorities and an idle one.     *)
(* What the threads do is one of Programs, chosen once.                    *)
(***************************************************************************)
EXTENDS KernelHistory

CONSTANTS high, low1, low2, idle, s1, m1, m2, m3

VARIABLE program

MCInitPriority == [t \in Threads |-> CASE t = high -> 1 [] t = idle -> 3 [] OTHER -> 2]
MCInitTick == [t \in Threads |-> IF t = low2 THEN 2 ELSE 1]
MCMaxHold == [m \in Mutexes |-> IF m = m3 THEN 2 ELSE 1]
MCObjects == Sems \union Mutexes

Takes(times) == {"take"} \X {s1} \X times
Posts == {<<"release", s1, 0>>}
Locks(m, times) == ({"lock"} \X {m} \X times) \union {<<"unlock", m, 0>>}
TriesLock(m) == {<<"lock", m, 0>>, <<"unlock", m, 0>>, <<"unlock another's", m, 0>>}
Sleeps(time) == {<<"sleep", Null, time>>}
Yields == {<<"yield", Null, 0>>}
Program(a, b, c) ==
  [t \in Clients |-> CASE t = high -> a [] t = low1 -> b [] t = low2 -> c]

Programs ==
  { Program(Takes({FOREVER}) \union Locks(m1, {1}),
            Locks(m1, {2, FOREVER}),
            Locks(m1, {FOREVER})),
    Program(Takes({1}),
            Takes({2, FOREVER}),
            Posts \union Sleeps(1) \union Yields),
    Program(Locks(m1, {FOREVER}) \union Sleeps(1),
            Locks(m2, {FOREVER}),
            Locks(m1, {FOREVER}) \union Locks(m2, {FOREVER})),
    Program(Locks(m2, {1}) \union Sleeps(1),
            Locks(m2, {FOREVER}),
            Locks(m2, {FOREVER})),
    Program(TriesLock(m3) \union Sleeps(2), Locks(m3, {FOREVER}), {}) }

MCInit == HistoryInit /\ program \in Programs
MCNext ==
  /\ \/ \E t \in Clients : Calls(t, program[t]) \/ GoesOn(t)
     \/ Interrupt
  /\ Remembers
  /\ UNCHANGED program
MCSpec == MCInit /\ [][MCNext]_<<historyVars, program>> /\ TimePasses

\* Both for a thread that does all the calls they are about
TimersFire == TimerFires(high)
SlicesAreShared == GetsASlice(low2)
=============================================================================
