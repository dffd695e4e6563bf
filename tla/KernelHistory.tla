--------------------------- MODULE KernelHistory ---------------------------
(***************************************************************************)
(* KernelIpc with history variables, for the promises of its priority      *)
(* scheduling that hold with an exception: the code gives a thread a       *)
(* priority at one call and takes it back at another, and what it says of  *)
(* the priorities meanwhile depends on what else the threads have done.    *)
(***************************************************************************)
EXTENDS KernelIpc

VARIABLES nested,   \* a thread has held a mutex while it took or waited for another
          lowered,  \* a release of a mutex has lowered the priority of the thread
                    \* that runs, without scheduling
          behind    \* mutex whose threads wait in their order -> those that were
                    \* waiting when it got its present owner, and still do

historyVars == <<vars, nested, lowered, behind>>

Nested ==
  \E t \in Threads : \E m, n \in Owns(t) \union (WaitsIn(t) \intersect Mutexes) : m # n

\* The processor is with a thread of the highest priority.
RunsHighest ==
  LET cur == k.current IN
  pc[cur] = "run" => \A p \in k.group : k.priority[cur] <= p

Lowers == pc'[k.current] = "run" /\ k'.priority[k.current] > k.priority[k.current]

LeftBehind ==
  [m \in Mutexes \ PrioObjects |->
     IF mutex'[m].owner = mutex[m].owner
     THEN behind[m] \intersect ToSet(k'.waiting[m]) ELSE ToSet(k'.waiting[m])]

Remembers ==
  /\ nested' = (nested \/ Nested')
  /\ lowered' = (k'.current = k.current /\ (Lowers \/ (lowered /\ ~RunsHighest')))
  /\ behind' = LeftBehind

HistoryInit ==
  /\ Init
  /\ nested = FALSE /\ lowered = FALSE
  /\ behind = [m \in Mutexes \ PrioObjects |-> {}]
HistoryNext == Next /\ Remembers
HistorySpec == HistoryInit /\ [][HistoryNext]_historyVars /\ TimePasses
-----------------------------------------------------------------------------
\* The processor is with the ready thread of the highest priority whenever a
\* thread runs its own code, except after a release of a mutex that lowered
\* its priority and found nobody waiting, which does not schedule
\* (ipc.c:833-870, 877).
RunsHighestUnlessLowered == RunsHighest \/ lowered

\* The owner has inherited nothing from u: those that a mutex of
\* RT_IPC_FLAG_FIFO, as the one of dfs.c:66, leaves behind when it is handed to
\* the first of them do not raise the priority of that one (ipc.c:833-855).
NotInherited(m, u) == m \notin PrioObjects /\ u \in behind[m]

\* Priority inheritance (ipc.c:721-728, 833-855), as long as threads hold or
\* want one mutex at a time: an owner never has a lower priority than a thread
\* that waits for its mutex, except for those left behind, and is back at its
\* own when it has released it.
Inheritance ==
  ~nested =>
    \A t \in Threads :
      /\ \A m \in Owns(t) : \A u \in ToSet(k.waiting[m]) :
           k.priority[t] <= k.priority[u] \/ NotInherited(m, u)
      /\ Owns(t) = {} => k.priority[t] = InitPriority[t]
=============================================================================
