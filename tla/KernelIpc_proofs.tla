-------------------------- MODULE KernelIpc_proofs --------------------------
(***************************************************************************)
(* Semaphores, mutexes and the threads that use them, for every set of     *)
(* threads, objects and waiting times: IpcInv is inductive, and implies    *)
(* the invariants that KernelIpc states.                                   *)
(*                                                                         *)
(* KernelIpc's properties speak of the lists or of the mutexes alone and   *)
(* are not inductive: that a thread handed a mutex counts it on return     *)
(* needs that a thread in a list is in the call that put it there, with    *)
(* its error still EOK, and has not been woken by its timer (ThreadOK).    *)
(***************************************************************************)
EXTENDS KernelHistory, Kernel_proofs

(***************************************************************************)
(* The calls as functions of the state of the kernel.                      *)
(***************************************************************************)
\* The list of o is the same if the same threads wait.
LEMMA QueueSame ==
  ASSUME NEW i \in KState, KInv(i), NEW j \in KState, KInv(j), NEW o \in Objects,
         InOrder(i.waiting[o], j.waiting[o]), WaitsAt(i, o) = WaitsAt(j, o)
  PROVE  j.waiting[o] = i.waiting[o]
  <1>1. /\ i.waiting[o] \in Seq(Threads) /\ Distinct(i.waiting[o])
        /\ j.waiting[o] \in Seq(Threads) /\ Distinct(j.waiting[o])
    BY DEF KState, KInv, ListsOK
  <1>2. InOrder(i.waiting[o], i.waiting[o])
    BY DEF InOrder
  <1> QED BY <1>1, <1>2, OrderTells DEF WaitsAt

\* The threads of s come in the order of their priorities, pr.
InPriority(s, pr) == \A a, b \in 1 .. Len(s) : a < b => pr[s[a]] <= pr[s[b]]

\* What keeps the order of the threads keeps that of their priorities.
LEMMA OrderSorted ==
  ASSUME NEW pr, NEW q, NEW r, InPriority(q, pr), InOrder(q, r)
  PROVE  InPriority(r, pr)
  <1> SUFFICES ASSUME NEW a \in 1 .. Len(r), NEW b \in 1 .. Len(r), a < b
               PROVE  pr[r[a]] <= pr[r[b]]
    BY DEF InPriority
  <1>1. PICK x, y \in 1 .. Len(q) : x < y /\ q[x] = r[a] /\ q[y] = r[b]
    BY DEF InOrder
  <1>2. pr[q[x]] <= pr[q[y]]
    BY <1>1 DEF InPriority
  <1> QED BY <1>1, <1>2

\* The first thread has the highest priority.
LEMMA HeadSorted ==
  ASSUME NEW pr \in [Threads -> Nat], NEW q \in Seq(Threads), InPriority(q, pr),
         NEW u \in Elems(q)
  PROVE  pr[Head(q)] <= pr[u]
  <1>1. PICK i \in 1 .. Len(q) : q[i] = u
    BY DEF Elems
  <1>2. Head(q) = q[1] /\ 1 \in 1 .. Len(q) /\ q[1] \in Threads /\ i \in Nat
    BY <1>1
  <1> QED BY <1>1, <1>2 DEF InPriority

\* A thread that is put before those of lower priority, or behind all of them.
LEMMA InsertSorted ==
  ASSUME NEW pr \in [Threads -> Nat], NEW q \in Seq(Threads), InPriority(q, pr),
         NEW t \in Threads, NEW i \in 1 .. Len(q), pr[t] < pr[q[i]],
         \A x \in 1 .. i - 1 : ~(pr[t] < pr[q[x]])
  PROVE  InPriority(InsertAt(q, i, t), pr)
  <1> DEFINE r == InsertAt(q, i, t)
             n == Len(q)
  <1>1. /\ Len(r) = n + 1 /\ n \in Nat /\ i \in 1 .. n
        /\ \A j \in 1 .. n + 1 : r[j] = IF j < i THEN q[j] ELSE IF j = i THEN t ELSE q[j - 1]
    <2>1. /\ Len(InsertAt(q, i, t)) = Len(q) + 1
          /\ \A j \in 1 .. Len(q) + 1 :
               InsertAt(q, i, t)[j] = IF j < i THEN q[j] ELSE IF j = i THEN t ELSE q[j - 1]
      BY InsertAtWhat
    <2>2. n \in Nat
      OBVIOUS
    <2> QED BY <2>1, <2>2
  <1>2. \A j \in 1 .. n : q[j] \in Threads /\ pr[q[j]] \in Nat
    OBVIOUS
  <1>3. pr[t] \in Nat /\ \A a, b \in 1 .. n : a < b => pr[q[a]] <= pr[q[b]]
    BY DEF InPriority
  <1> SUFFICES ASSUME NEW a \in 1 .. n + 1, NEW b \in 1 .. n + 1, a < b
               PROVE  pr[r[a]] <= pr[r[b]]
    <2>1. Len(r) = n + 1
      BY <1>1
    <2> HIDE DEF r, n
    <2>2. InPriority(r, pr)
      BY <2>1 DEF InPriority
    <2> QED BY <2>2 DEF r
  <1> HIDE DEF r, n
  <1>4. \A x \in 1 .. n : x < i => pr[q[x]] <= pr[t]
    BY <1>1, <1>2, <1>3
  <1>5. \A x \in 1 .. n : i <= x => pr[t] <= pr[q[x]]
    <2> SUFFICES ASSUME NEW x \in 1 .. n, i <= x PROVE pr[t] <= pr[q[x]]
      OBVIOUS
    <2>1. pr[q[i]] <= pr[q[x]]
      BY <1>1, <1>2, <1>3
    <2> QED BY <1>1, <1>2, <1>3, <2>1
  <1>6. CASE b < i
    <2>1. a \in 1 .. n /\ b \in 1 .. n /\ r[a] = q[a] /\ r[b] = q[b]
      BY <1>1, <1>6
    <2> QED BY <1>3, <2>1
  <1>7. CASE b = i
    <2>1. a \in 1 .. n /\ a < i /\ r[a] = q[a] /\ r[b] = t
      BY <1>1, <1>7
    <2> QED BY <1>4, <2>1
  <1>8. CASE a < i /\ i < b
    <2>0. a \in 1 .. n /\ b - 1 \in 1 .. n /\ i <= b - 1 /\ ~(b < i) /\ b # i
      BY <1>1, <1>8
    <2>1. r[a] = q[a] /\ r[b] = q[b - 1]
      BY <1>1, <1>8, <2>0
    <2>2. pr[q[a]] <= pr[t] /\ pr[t] <= pr[q[b - 1]]
      BY <1>4, <1>5, <1>8, <2>0
    <2> QED BY <1>2, <1>3, <2>0, <2>1, <2>2
  <1>9. CASE a = i
    <2>1. b - 1 \in 1 .. n /\ i <= b - 1 /\ r[a] = t /\ r[b] = q[b - 1]
      BY <1>1, <1>9
    <2> QED BY <1>5, <2>1
  <1>10. CASE i < a
    <2>1. /\ a - 1 \in 1 .. n /\ b - 1 \in 1 .. n /\ a - 1 < b - 1
          /\ r[a] = q[a - 1] /\ r[b] = q[b - 1]
      BY <1>1, <1>10
    <2> QED BY <1>3, <2>1
  <1> QED BY <1>1, <1>6, <1>7, <1>8, <1>9, <1>10

LEMMA AppendSorted ==
  ASSUME NEW pr \in [Threads -> Nat], NEW q \in Seq(Threads), InPriority(q, pr),
         NEW t \in Threads, \A x \in 1 .. Len(q) : ~(pr[t] < pr[q[x]])
  PROVE  InPriority(Append(q, t), pr)
  <1>1. /\ Len(Append(q, t)) = Len(q) + 1
        /\ \A x \in 1 .. Len(q) : Append(q, t)[x] = q[x]
        /\ Append(q, t)[Len(q) + 1] = t /\ Len(q) \in Nat
    OBVIOUS
  <1>2. \A x \in 1 .. Len(q) : pr[q[x]] \in Nat /\ pr[q[x]] <= pr[t]
    OBVIOUS
  <1> SUFFICES ASSUME NEW a \in 1 .. Len(q) + 1, NEW b \in 1 .. Len(q) + 1, a < b
               PROVE  pr[Append(q, t)[a]] <= pr[Append(q, t)[b]]
    BY <1>1 DEF InPriority
  <1>3. CASE b = Len(q) + 1
    BY <1>1, <1>2, <1>3
  <1>4. CASE b /= Len(q) + 1
    <2>1. a \in 1 .. Len(q) /\ b \in 1 .. Len(q)
      BY <1>1, <1>4
    <2>2. pr[q[a]] <= pr[q[b]]
      BY <2>1 DEF InPriority
    <2> QED BY <1>1, <2>1, <2>2
  <1> QED BY <1>3, <1>4

\* Thread t has joined the list of o: as the last one if they wait in order,
\* otherwise where its priority belongs.
Joins(i, j, o, t) ==
  /\ \A q \in Objects \ {o} : InOrder(i.waiting[q], j.waiting[q])
  /\ o \notin PrioObjects => j.waiting[o] = Append(i.waiting[o], t)
  /\ o \in PrioObjects /\ InPriority(i.waiting[o], i.priority)
       => InPriority(j.waiting[o], i.priority)

\* Thread t waits for o and for nothing else.
LEMMA ListSuspendWhat ==
  ASSUME NEW j \in KState, KInv(j), NEW t \in Threads, j.stat[t] \in {"READY", "RUNNING"},
         NEW o \in Objects
  PROVE  LET u == rt_ipc_list_suspend(j, o, t) IN
         /\ u \in KState /\ KInv(u) /\ Kept(j, u) /\ u.current = j.current
         /\ u.stat[t] = "SUSPEND"
         /\ \A q \in Objects : t \in WaitsAt(u, q) <=> q = o
         /\ \A s \in Threads \ {t} : Same(j, u, s)
         /\ Joins(j, u, o, t)
  <1> DEFINE l == rt_thread_suspend(j, t)
             Lower(v) == l.priority[t] < l.priority[v]
             i == IF o \in PrioObjects THEN SelectInSeq(l.waiting[o], Lower) ELSE 0
             n == IF i = 0 THEN Append(l.waiting[o], t) ELSE InsertAt(l.waiting[o], i, t)
             u == [l EXCEPT !.waiting[o] = n]
  <1>1. /\ l \in KState /\ KInv(l) /\ Kept(j, l) /\ l.current = j.current
        /\ l.stat[t] = "SUSPEND" /\ t \notin Timed(l)
        /\ \A q \in Objects : t \notin WaitsAt(l, q)
        /\ \A s \in Threads \ {t} : Same(j, l, s)
        /\ Thins(j, l)
    BY SuspendWhat
  <1>2. rt_ipc_list_suspend(j, o, t) = u
    BY <1>1 DEF rt_ipc_list_suspend, KState
  <1> HIDE DEF l
  <1> DEFINE w == l.waiting[o]
  <1>3. w \in Seq(Threads) /\ Distinct(w) /\ t \notin Elems(w)
    BY <1>1 DEF KState, KInv, ListsOK, WaitsAt
  <1>4. /\ i \in 0 .. Len(w)
        /\ o \in PrioObjects => IF i = 0 THEN \A x \in 1 .. Len(w) : ~Lower(w[x])
                                ELSE Lower(w[i]) /\ \A x \in 1 .. i - 1 : ~Lower(w[x])
    <2> DEFINE I == {x \in 1 .. Len(w) : Lower(w[x])}
    <2>1. CASE i = 0
      <3>1. i \in 0 .. Len(w)
        BY <1>3, <2>1
      <3>2. ASSUME o \in PrioObjects PROVE \A x \in 1 .. Len(w) : ~Lower(w[x])
        <4>1. SelectInSeq(w, Lower) = IF I # {} THEN Min(I) ELSE 0
          BY DEF SelectInSeq
        <4>2. SelectInSeq(w, Lower) = 0
          BY <2>1, <3>2
        <4>3. I \in SUBSET Nat
          OBVIOUS
        <4>5. I /= {} => Min(I) \in I
          BY <4>3, MinIsLeast
        <4>6. \A x \in I : x /= 0
          OBVIOUS
        <4>4. I = {}
          <5> HIDE DEF I
          <5> QED BY <4>1, <4>2, <4>5, <4>6
        <4> QED BY <4>4
      <3> HIDE DEF i, w, Lower
      <3> QED BY <2>1, <3>1, <3>2
    <2>2. CASE i /= 0
      <3>1. i = SelectInSeq(w, Lower)
        BY <2>2
      <3>2. SelectInSeq(w, Lower) = IF I # {} THEN Min(I) ELSE 0
        BY DEF SelectInSeq
      <3>3. I \in SUBSET Nat /\ I /= {}
        BY <2>2, <3>1, <3>2
      <3>4. i \in I /\ \A x \in I : i <= x
        <4>1. Min(I) \in I /\ \A x \in I : Min(I) <= x
          BY <3>3, MinIsLeast
        <4> QED BY <3>1, <3>2, <3>3, <4>1
      <3>5. i \in 1 .. Len(w) /\ Lower(w[i])
        BY <3>4
      <3>6. \A x \in 1 .. i - 1 : ~Lower(w[x])
        <4> SUFFICES ASSUME NEW x \in 1 .. i - 1, Lower(w[x]) PROVE FALSE
          OBVIOUS
        <4>1. x \in 1 .. Len(w) /\ x < i /\ x \in Nat /\ i \in Nat
          BY <1>3, <3>5
        <4>2. x \in I
          BY <4>1
        <4> HIDE DEF I, i
        <4>3. i <= x
          BY <3>4, <4>2
        <4> QED BY <4>1, <4>3
      <3> HIDE DEF i, w, Lower
      <3> QED BY <2>2, <3>5, <3>6
    <2> QED BY <2>1, <2>2
  <1>15. o \notin PrioObjects => n = Append(w, t)
    OBVIOUS
  <1> HIDE DEF i, w
  <1>5. n \in Seq(Threads) /\ Distinct(n) /\ Elems(n) = Elems(w) \union {t}
    <2>1. CASE i = 0
      <3>1. n = Append(w, t)
        BY <2>1 DEF w
      <3> HIDE DEF n
      <3> QED BY <1>3, <3>1, AppendWhat
    <2>2. CASE i /= 0
      <3>1. n = InsertAt(w, i, t)
        BY <2>2 DEF w
      <3>2. i \in 1 .. Len(w)
        BY <1>3, <1>4, <2>2
      <3> HIDE DEF n
      <3> QED BY <1>3, <3>1, <3>2, InsertWhat
    <2> QED BY <2>1, <2>2
  <1>18. InPriority(w, j.priority) /\ o \in PrioObjects => InPriority(n, j.priority)
    <2> SUFFICES ASSUME InPriority(w, j.priority), o \in PrioObjects
                 PROVE  InPriority(n, j.priority)
      OBVIOUS
    <2>1. j.priority \in [Threads -> Nat] /\ l.priority = j.priority
      BY <1>1, PriorityType DEF KState, Kept
    <2>2. CASE i = 0
      <3>1. n = Append(w, t) /\ \A x \in 1 .. Len(w) : ~(j.priority[t] < j.priority[w[x]])
        BY <1>4, <2>1, <2>2 DEF w
      <3> HIDE DEF n
      <3> QED BY <1>3, <2>1, <3>1, AppendSorted
    <2>3. CASE i /= 0
      <3>1. /\ n = InsertAt(w, i, t) /\ i \in 1 .. Len(w)
            /\ j.priority[t] < j.priority[w[i]]
            /\ \A x \in 1 .. i - 1 : ~(j.priority[t] < j.priority[w[x]])
        BY <1>3, <1>4, <2>1, <2>3 DEF w
      <3> HIDE DEF n
      <3> QED BY <1>3, <2>1, <3>1, InsertSorted
    <2> QED BY <2>2, <2>3
  <1> HIDE DEF n
  <1>6. /\ u \in KState /\ Kept(l, u) /\ u.current = l.current /\ u.stat = l.stat
        /\ u.timers = l.timers /\ u.ready = l.ready /\ u.group = l.group
        /\ u.waiting = [l.waiting EXCEPT ![o] = n]
    BY <1>1, <1>5 DEF KState, Kept
  <1> HIDE DEF u
  <1>7. l.waiting \in [Objects -> Seq(Threads)]
    BY <1>1 DEF KState
  <1>8. \A q \in Objects :
          WaitsAt(u, q) = IF q = o THEN WaitsAt(l, q) \union {t} ELSE WaitsAt(l, q)
    BY <1>5, <1>6, <1>7 DEF WaitsAt, w
  <1>9. ListsOK(u) /\ GroupOK(u)
    BY <1>1, <1>5, <1>6, <1>7 DEF KInv, ListsOK, GroupOK, ReadyAt
  <1>10. Timed(u) = Timed(l) /\ \A p \in Priorities : ReadyAt(u, p) = ReadyAt(l, p)
    BY <1>6 DEF Timed, ReadyAt
  <1>11. ReadyOK(u) /\ CurrentOK(u)
    BY <1>1, <1>6, <1>10 DEF KInv, StatesOK, ReadyOK, CurrentOK, Kept
  <1>12. WaitingOK(u)
    BY <1>1, <1>6, <1>8, <1>10 DEF KInv, StatesOK, WaitingOK
  <1>13. \A s \in Threads \ {t} : Same(j, u, s)
    BY <1>1, <1>6, <1>8, <1>10 DEF Same, Kept
  <1>14. \A q \in Objects : t \in WaitsAt(u, q) <=> q = o
    BY <1>1, <1>8
  <1>17. j.waiting[o] = w
    <2>1. j.waiting[o] \in Seq(Threads) /\ l.waiting[o] \in Seq(Threads)
      BY <1>1 DEF KState
    <2>2. WaitsAt(j, o) \subseteq Threads /\ WaitsAt(l, o) \subseteq Threads
      BY <2>1 DEF WaitsAt, Elems
    <2>3. t \notin WaitsAt(j, o) /\ t \notin WaitsAt(l, o)
      BY <1>1 DEF KInv, StatesOK, WaitingOK
    <2>4. WaitsAt(j, o) = WaitsAt(l, o)
      BY <1>1, <2>2, <2>3 DEF Same
    <2>5. l.waiting[o] = j.waiting[o]
      BY <1>1, <2>4, QueueSame DEF Thins
    <2> QED BY <2>5 DEF w
  <1>16. Joins(j, u, o, t)
    <2>1. \A q \in Objects \ {o} : u.waiting[q] = l.waiting[q]
      BY <1>6, <1>7
    <2>2. ASSUME o \notin PrioObjects PROVE u.waiting[o] = Append(j.waiting[o], t)
      BY <1>6, <1>7, <1>15, <1>17, <2>2
    <2>3. u.waiting[o] = n
      BY <1>6, <1>7
    <2>4. InPriority(w, j.priority) /\ o \in PrioObjects => InPriority(n, j.priority)
      BY <1>18
    <2> QED BY <1>1, <1>17, <2>1, <2>2, <2>3, <2>4 DEF Joins, Thins
  <1> QED BY <1>1, <1>2, <1>6, <1>9, <1>11, <1>12, <1>13, <1>14, <1>16 DEF KInv, StatesOK, Kept

\* The same with a timer, if the time is bounded.
LEMMA WaitForWhat ==
  ASSUME NEW j \in KState, KInv(j), NEW t \in Threads, j.stat[t] \in {"READY", "RUNNING"},
         NEW o \in Objects, NEW time \in Int
  PROVE  LET u == WaitFor(j, o, t, time) IN
         /\ u \in KState /\ KInv(u) /\ Kept(j, u) /\ u.current = j.current
         /\ u.stat[t] = "SUSPEND"
         /\ \A q \in Objects : t \in WaitsAt(u, q) <=> q = o
         /\ \A s \in Threads \ {t} : Same(j, u, s)
         /\ Joins(j, u, o, t)
  <1> DEFINE l == rt_ipc_list_suspend(j, o, t)
             u == WaitFor(j, o, t, time)
  <1>1. /\ l \in KState /\ KInv(l) /\ Kept(j, l) /\ l.current = j.current
        /\ l.stat[t] = "SUSPEND"
        /\ \A q \in Objects : t \in WaitsAt(l, q) <=> q = o
        /\ \A s \in Threads \ {t} : Same(j, l, s)
        /\ Joins(j, l, o, t)
    BY ListSuspendWhat
  <1>2. u = IF time > 0 THEN rt_timer_start(l, t, time) ELSE l
    BY DEF WaitFor
  <1> HIDE DEF l, u
  <1>3. CASE time > 0
    <2>1. /\ u \in KState /\ KInv(u) /\ Kept(l, u) /\ u.current = l.current
          /\ u.stat = l.stat /\ u.waiting = l.waiting
          /\ \A s \in Threads \ {t} : Same(l, u, s)
      <3>1. time \in Nat
        BY <1>3
      <3> QED BY <1>1, <1>2, <1>3, <3>1, StartTimerWhat
    <2>2. \A s \in Threads \ {t} : Same(j, u, s)
      BY <1>1, <2>1 DEF Same
    <2>3. Joins(j, u, o, t)
      BY <1>1, <2>1 DEF Joins
    <2> QED BY <1>1, <2>1, <2>2, <2>3 DEF Kept, WaitsAt, u
  <1>4. CASE ~(time > 0)
    BY <1>1, <1>2, <1>4 DEF u
  <1> QED BY <1>3, <1>4

\* rt_thread_sleep: t waits for its timer only.
LEMMA SleepWhat ==
  ASSUME NEW j \in KState, KInv(j), NEW t \in Threads, j.stat[t] \in {"READY", "RUNNING"},
         NEW ticks \in Nat
  PROVE  LET u == rt_timer_start(rt_thread_suspend(j, t), t, ticks) IN
         /\ u \in KState /\ KInv(u) /\ Kept(j, u) /\ u.current = j.current
         /\ u.stat[t] = "SUSPEND" /\ t \in Timed(u)
         /\ \A q \in Objects : t \notin WaitsAt(u, q)
         /\ \A s \in Threads \ {t} : Same(j, u, s)
         /\ Thins(j, u)
  <1> DEFINE l == rt_thread_suspend(j, t)
             u == rt_timer_start(l, t, ticks)
  <1>1. /\ l \in KState /\ KInv(l) /\ Kept(j, l) /\ l.current = j.current
        /\ l.stat[t] = "SUSPEND"
        /\ \A q \in Objects : t \notin WaitsAt(l, q)
        /\ \A s \in Threads \ {t} : Same(j, l, s)
        /\ Thins(j, l)
    BY SuspendWhat
  <1> HIDE DEF l
  <1>2. /\ u \in KState /\ KInv(u) /\ Kept(l, u) /\ u.current = l.current
        /\ u.stat = l.stat /\ t \in Timed(u) /\ u.waiting = l.waiting
        /\ \A s \in Threads \ {t} : Same(l, u, s)
    BY <1>1, StartTimerWhat
  <1> HIDE DEF u
  <1>3. \A s \in Threads \ {t} : Same(j, u, s)
    BY <1>1, <1>2 DEF Same
  <1>4. Thins(j, u)
    BY <1>1, <1>2 DEF Thins
  <1> QED BY <1>1, <1>2, <1>3, <1>4 DEF Kept, WaitsAt, u, l

\* The first thread that waits for o is woken.
LEMMA ListResumeWhat ==
  ASSUME NEW j \in KState, KInv(j), NEW o \in Objects, WaitsAt(j, o) /= {}
  PROVE  LET u == rt_ipc_list_resume(j, o)
             h == Head(j.waiting[o])
         IN /\ u \in KState /\ KInv(u) /\ Kept(j, u) /\ u.current = j.current
            /\ h \in Threads /\ h \in WaitsAt(j, o)
            /\ Woken(j, u, h) /\ \A s \in Threads \ {h} : Same(j, u, s)
            /\ Thins(j, u) /\ u.waiting[o] = Tail(j.waiting[o])
  <1> DEFINE u == rt_ipc_list_resume(j, o)
             h == Head(j.waiting[o])
  <1>1. j.waiting[o] \in Seq(Threads)
    BY DEF KState
  <1>2. h \in Threads /\ h \in WaitsAt(j, o)
    BY <1>1, HeadWhat, NoElems DEF WaitsAt
  <1>3. u = rt_thread_resume(j, h)
    BY DEF rt_ipc_list_resume
  <1> HIDE DEF u, h
  <1>4. j.stat[h] = "SUSPEND"
    BY <1>2 DEF KInv, StatesOK, WaitingOK
  <1>5. /\ u \in KState /\ KInv(u) /\ Kept(j, u) /\ u.current = j.current
        /\ Woken(j, u, h) /\ \A s \in Threads \ {h} : Same(j, u, s)
        /\ Thins(j, u)
    BY <1>2, <1>3, <1>4, ResumeWhat
  <1>6. u.waiting[o] = Tail(j.waiting[o])
    <2> DEFINE w == j.waiting[o]
               v == u.waiting[o]
    <2>1. w \in Seq(Threads) /\ Distinct(w) /\ v \in Seq(Threads) /\ Distinct(v) /\ InOrder(w, v)
      BY <1>5 DEF KState, KInv, ListsOK, Thins
    <2>2. w /= <<>>
      BY <2>1, NoElems DEF WaitsAt
    <2>3. /\ Tail(w) \in Seq(Threads) /\ Distinct(Tail(w)) /\ InOrder(w, Tail(w))
          /\ Elems(Tail(w)) = Elems(w) \ {h}
      BY <2>1, <2>2, TailOrder DEF h
    <2>4. Elems(v) = Elems(w) \ {h}
      <3>1. Elems(v) \subseteq Threads /\ Elems(w) \subseteq Threads
        BY <2>1 DEF Elems
      <3>2. Elems(v) = WaitsAt(u, o) /\ Elems(w) = WaitsAt(j, o)
        BY DEF WaitsAt
      <3> QED BY <1>2, <1>5, <3>1, <3>2 DEF Same, Woken
    <2> HIDE DEF w, v
    <2>5. v = Tail(w)
      BY <2>1, <2>3, <2>4, OrderTells
    <2> QED BY <2>5 DEF v, w
  <1> QED BY <1>2, <1>5, <1>6 DEF u, h

Errors == {"EOK", "ETIMEOUT", "ERROR"}

\* A change of thread->error is no change to anybody else.
LEMMA ErrorWhat ==
  ASSUME NEW j \in KState, KInv(j), NEW t \in Threads, NEW e \in Errors
  PROVE  LET u == [j EXCEPT !.error[t] = e] IN
         /\ u \in KState /\ KInv(u) /\ u.current = j.current /\ u.stat = j.stat
         /\ u.priority = j.priority /\ u.remaining = j.remaining /\ u.group = j.group
         /\ u.error = [j.error EXCEPT ![t] = e] /\ u.waiting = j.waiting
         /\ \A s \in Threads \ {t} : Same(j, u, s)
  <1> DEFINE u == [j EXCEPT !.error[t] = e]
  <1>1. /\ u \in KState /\ u.current = j.current /\ u.stat = j.stat
        /\ u.priority = j.priority /\ u.remaining = j.remaining /\ u.group = j.group
        /\ u.error = [j.error EXCEPT ![t] = e] /\ u.waiting = j.waiting
        /\ u.ready = j.ready /\ u.timers = j.timers
    BY DEF KState, Errors
  <1> HIDE DEF u
  <1>2. KInv(u)
    BY <1>1 DEF KInv, ListsOK, GroupOK, StatesOK, ReadyOK, WaitingOK, CurrentOK,
                ReadyAt, WaitsAt, Timed
  <1>3. \A s \in Threads \ {t} : Same(j, u, s)
    BY <1>1 DEF Same, WaitsAt, Timed, KState
  <1> QED BY <1>1, <1>2, <1>3 DEF u
-----------------------------------------------------------------------------
(***************************************************************************)
(* The inductive invariant.                                                *)
(***************************************************************************)
KernelInv == k \in KState /\ KInv(k) /\ k.current \in Threads /\ SliceOK(k)

Ops == {"none", "take", "release", "lock", "unlock", "sleep"}
Waiters == {"take", "lock", "sleep"}

MutexRecord == [value : {0, 1}, owner : Threads \union {Null},
                hold : Nat, original : Priorities \union {255}]

TypeInv ==
  /\ value \in [Sems -> 0 .. MaxValue]
  /\ mutex \in [Mutexes -> MutexRecord]
  /\ held \in [Threads -> [Mutexes -> Nat]]
  /\ pc \in [Threads -> {"run", "schedule", "check"}]
  /\ call \in [Threads -> [op : Ops, on : Objects \union {Null}]]

CallOf(o) == [op |-> IF o \in Sems THEN "take" ELSE "lock", on |-> o]

\* A thread in call c, at p: what it waits for is what it has called for.
ThreadOK(j, t, c, p) ==
  /\ p = "run" <=> c = NoCall
  /\ p = "check" => c.op \in Waiters
  /\ c.op = "take" => c.on \in Sems
  /\ c.op = "lock" => c.on \in Mutexes
  /\ j.stat[t] /= "INIT"
  /\ \A o \in Objects : t \in WaitsAt(j, o) => c = CallOf(o) /\ j.error[t] = "EOK"
  /\ j.stat[t] = "SUSPEND" =>
       /\ c.op \in Waiters
       /\ c.op = "sleep" => t \in Timed(j)
       /\ c.op /= "sleep" => t \in WaitsAt(j, c.on)

ThreadsOK == \A t \in Threads : ThreadOK(k, t, call[t], pc[t])
\* A current thread that is suspended is about to schedule.
CurOK == k.stat[k.current] = "SUSPEND" => pc[k.current] = "schedule"
IdleOK == call[Idle] = NoCall

SemsOK == \A s \in Sems : value[s] > 0 => WaitsAt(k, s) = {}

\* The mutex m, in state r: free, and nobody waits for it, or owned.
MutexOK(j, m, r) ==
  /\ r.hold <= MaxHold[m]
  /\ r.owner = Null => WaitsAt(j, m) = {} /\ r.hold = 0 /\ r.value = 1
  /\ r.owner /= Null => r.hold > 0 /\ r.value = 0 /\ r.original \in Priorities

MutexesOK == \A m \in Mutexes : MutexOK(k, m, mutex[m])

\* Thread t, in call c, has been handed m and does not know it yet.
Gets(j, t, c, m) ==
  /\ c = [op |-> "lock", on |-> m] /\ j.error[t] = "EOK"
  /\ \A o \in Objects : t \notin WaitsAt(j, o)

\* With c the calls and h the holds of the threads, the holds of m, in state r,
\* are its owner's.
GotOK(j, h, c, m, r) == \A t \in Threads :
  h[t][m] + (IF Gets(j, t, c[t], m) THEN 1 ELSE 0) = IF r.owner = t THEN r.hold ELSE 0

HeldOK == \A m \in Mutexes : GotOK(k, held, call, m, mutex[m])

IpcInv == /\ KernelInv /\ TypeInv /\ ThreadsOK /\ CurOK /\ IdleOK
          /\ SemsOK /\ MutexesOK /\ HeldOK

-----------------------------------------------------------------------------
\* What the assumptions say of the objects and of Idle.
LEMMA ObjectFacts ==
  /\ Sems \subseteq Objects /\ Mutexes \subseteq Objects
  /\ \A s \in Sems : s \notin Mutexes
  /\ \A o \in Objects : o \in Sems \/ o \in Mutexes
  /\ Null \notin Threads /\ Idle \in Threads
  BY KernelAssumption, KernelIpcAssumption

\* The thread that runs its own code has the state RUNNING and waits for nothing.
LEMMA RunningOne ==
  ASSUME IpcInv, NEW t \in Threads, k.current = t, pc[t] /= "schedule"
  PROVE  k.stat[t] = "RUNNING" /\ \A o \in Objects : t \notin WaitsAt(k, o)
  <1>1. k.stat[t] \in {"INIT", "READY", "RUNNING", "SUSPEND"}
    BY DEF IpcInv, KernelInv, KState
  <1>2. k.stat[t] /= "SUSPEND"
    BY DEF IpcInv, CurOK
  <1>3. k.stat[t] /= "READY"
    BY DEF IpcInv, KernelInv, KInv, StatesOK, CurrentOK
  <1>4. k.stat[t] /= "INIT"
    BY DEF IpcInv, ThreadsOK, ThreadOK
  <1>5. k.stat[t] = "RUNNING"
    BY <1>1, <1>2, <1>3, <1>4
  <1> QED BY <1>5 DEF IpcInv, KernelInv, KInv, StatesOK, WaitingOK

\* A thread to which nothing is done, or that is woken, is still in a state its
\* call allows.
LEMMA ThreadFrame ==
  ASSUME NEW j, NEW u, NEW t, NEW c, NEW p, ThreadOK(j, t, c, p),
         Same(j, u, t) \/ Woken(j, u, t), c.op /= "take" \/ c.on \in Objects,
         c.op /= "lock" \/ c.on \in Objects
  PROVE  ThreadOK(u, t, c, p)
  <1>1. CASE Same(j, u, t)
    BY <1>1 DEF ThreadOK, Same, Waiters
  <1>2. CASE Woken(j, u, t)
    BY <1>2 DEF ThreadOK, Woken
  <1> QED BY <1>1, <1>2

\* Who is handed a mutex: nothing but the mutex's release makes it so.
LEMMA GetsFrame ==
  ASSUME NEW j, NEW u, NEW t, NEW c, NEW p, NEW m \in Mutexes, ThreadOK(j, t, c, p),
         Same(j, u, t) \/ Late(j, u, t)
  PROVE  Gets(u, t, c, m) <=> Gets(j, t, c, m)
  <1>1. CASE Same(j, u, t)
    BY <1>1 DEF Same, Gets
  <1>2. CASE Late(j, u, t)
    <2>1. ~Gets(u, t, c, m)
      BY <1>2 DEF Late, Gets
    <2>2. ~Gets(j, t, c, m)
      <3> SUFFICES ASSUME c = [op |-> "lock", on |-> m] PROVE \E o \in Objects : t \in WaitsAt(j, o)
        BY DEF Gets
      <3>1. c.op /= "sleep" /\ c.on = m /\ m \in Objects
        BY ObjectFacts
      <3>2. j.stat[t] = "SUSPEND"
        BY <1>2 DEF Late, Woken
      <3> QED BY <3>1, <3>2 DEF ThreadOK
    <2> QED BY <2>1, <2>2
  <1> QED BY <1>1, <1>2

\* A step in which time passes or the scheduler runs, and the calls are where
\* they were.
LEMMA PassedStep ==
  ASSUME IpcInv, NEW u \in KState, Passed(k, u)
  PROVE  /\ \A t \in Threads : ThreadOK(u, t, call[t], pc[t])
         /\ u.stat[u.current] = "SUSPEND" /\ u.current \in Threads => pc[u.current] = "schedule"
         /\ \A o \in Objects : WaitsAt(k, o) = {} => WaitsAt(u, o) = {}
         /\ \A t \in Threads, m \in Mutexes :
              Gets(u, t, call[t], m) <=> Gets(k, t, call[t], m)
  <1>1. \A t \in Threads : /\ ThreadOK(k, t, call[t], pc[t])
                           /\ Same(k, u, t) \/ Late(k, u, t)
    BY DEF IpcInv, ThreadsOK, Passed
  <1>2. ASSUME NEW t \in Threads PROVE ThreadOK(u, t, call[t], pc[t])
    <2>1. Same(k, u, t) \/ Woken(k, u, t)
      BY <1>1 DEF Late
    <2>2. /\ call[t].op /= "take" \/ call[t].on \in Objects
          /\ call[t].op /= "lock" \/ call[t].on \in Objects
      BY <1>1, ObjectFacts DEF ThreadOK
    <2> QED BY <1>1, <2>1, <2>2, ThreadFrame
  <1>3. ASSUME u.stat[u.current] = "SUSPEND", u.current \in Threads
        PROVE  pc[u.current] = "schedule"
    <2>1. u.current = k.current
      BY <1>3 DEF Passed
    <2>2. k.stat[k.current] = "SUSPEND"
      BY <1>1, <1>3, <2>1 DEF Same, Late, Woken
    <2> QED BY <2>1, <2>2 DEF IpcInv, CurOK
  <1>4. ASSUME NEW o \in Objects, WaitsAt(k, o) = {} PROVE WaitsAt(u, o) = {}
    <2>1. WaitsAt(u, o) \subseteq Threads
      BY DEF KState, WaitsAt, Elems
    <2> QED BY <1>1, <1>4, <2>1 DEF Same, Late, Woken
  <1>5. \A t \in Threads, m \in Mutexes : Gets(u, t, call[t], m) <=> Gets(k, t, call[t], m)
    BY <1>1, GetsFrame
  <1> QED BY <1>2, <1>3, <1>4, <1>5

\* A step in which only time passes, or the scheduler runs, keeps the invariant.
LEMMA PassedInv ==
  ASSUME IpcInv, k' \in KState, KInv(k'), k'.current \in Threads, SliceOK(k'),
         Passed(k, k'), UNCHANGED <<value, mutex, pc, call, held>>
  PROVE  IpcInv'
  <1>1. /\ \A t \in Threads : ThreadOK(k', t, call[t], pc[t])
        /\ k'.stat[k'.current] = "SUSPEND" => pc[k'.current] = "schedule"
        /\ \A o \in Objects : WaitsAt(k, o) = {} => WaitsAt(k', o) = {}
        /\ \A t \in Threads, m \in Mutexes :
             Gets(k', t, call[t], m) <=> Gets(k, t, call[t], m)
    BY PassedStep
  <1>2. KernelInv'
    BY DEF KernelInv
  <1>3. TypeInv' /\ IdleOK'
    BY DEF IpcInv, TypeInv, IdleOK
  <1>4. ThreadsOK' /\ CurOK'
    BY <1>1 DEF ThreadsOK, CurOK
  <1>5. SemsOK' /\ MutexesOK'
    BY <1>1, ObjectFacts DEF IpcInv, SemsOK, MutexesOK, MutexOK
  <1>6. HeldOK'
    BY <1>1 DEF IpcInv, HeldOK, GotOK
  <1> QED BY <1>2, <1>3, <1>4, <1>5, <1>6 DEF IpcInv

\* The tick interrupt keeps the invariant.
LEMMA TickInv ==
  ASSUME IpcInv, Tick
  PROVE  IpcInv'
  <1>1. k' = rt_tick_increase(k)
    BY DEF Tick
  <1>2. k' \in KState /\ KInv(k') /\ k'.current \in Threads /\ SliceOK(k') /\ Passed(k, k')
    BY <1>1, TickWhat DEF IpcInv, KernelInv
  <1> QED BY <1>2, PassedInv DEF Tick

\* rt_schedule with the slices.
LEMMA ScheduledWhat ==
  ASSUME IpcInv
  PROVE  LET u == rt_schedule(k) IN
         /\ u \in KState /\ KInv(u) /\ u.current \in Threads /\ SliceOK(u) /\ Passed(k, u)
         /\ \A s \in Threads : Same(k, u, s)
         /\ IF k.group = {} THEN u = k ELSE u.stat[u.current] = "RUNNING"
         /\ Highest(u)
  <1> DEFINE u == rt_schedule(k)
  <1>1. /\ u \in KState /\ KInv(u) /\ Kept(k, u) /\ u.current \in Threads
        /\ \A s \in Threads : Same(k, u, s)
        /\ IF k.group = {} THEN u = k ELSE u.stat[u.current] = "RUNNING"
        /\ Highest(u) /\ Thins(k, u)
    BY ScheduleWhat DEF IpcInv, KernelInv
  <1> HIDE DEF u
  <1>2. SliceOK(u)
    BY <1>1 DEF IpcInv, KernelInv, SliceOK, Kept
  <1>3. Passed(k, u)
    BY <1>1 DEF Passed, Kept
  <1> QED BY <1>1, <1>2, <1>3 DEF u

\* rt_thread_yield keeps the invariant.
LEMMA YieldInv ==
  ASSUME IpcInv, NEW t, rt_thread_yield(t)
  PROVE  IpcInv'
  BY ScheduledWhat, PassedInv DEF rt_thread_yield

\* The scheduling of a call keeps the invariant.
LEMMA ScheduleInv ==
  ASSUME IpcInv, NEW t \in Clients, Schedule(t)
  PROVE  IpcInv'
  <1>1. /\ k.current = t /\ pc[t] = "schedule" /\ k' = rt_schedule(k)
        /\ t \in Threads /\ t /= Idle
        /\ value' = value /\ mutex' = mutex /\ held' = held
    BY DEF Schedule, Clients
  <1>2. /\ k' \in KState /\ KInv(k') /\ k'.current \in Threads /\ SliceOK(k') /\ Passed(k, k')
        /\ \A s \in Threads : Same(k, k', s)
        /\ IF k.group = {} THEN k' = k ELSE k'.stat[k'.current] = "RUNNING"
    BY <1>1, ScheduledWhat
  <1>3. /\ \A s \in Threads : ThreadOK(k', s, call[s], pc[s])
        /\ \A o \in Objects : WaitsAt(k, o) = {} => WaitsAt(k', o) = {}
        /\ \A s \in Threads, m \in Mutexes :
             Gets(k', s, call[s], m) <=> Gets(k, s, call[s], m)
    BY <1>2, PassedStep
  \* Some thread is always ready: Idle is, when another runs.
  <1>4. k.group /= {}
    <2>1. k.stat[Idle] = "READY"
      <3>1. k.stat[Idle] \in {"INIT", "READY", "RUNNING", "SUSPEND"}
        BY ObjectFacts DEF IpcInv, KernelInv, KState
      <3>2. k.stat[Idle] /= "INIT" /\ k.stat[Idle] /= "SUSPEND"
        BY ObjectFacts DEF IpcInv, ThreadsOK, ThreadOK, IdleOK, NoCall, Waiters
      <3>3. k.stat[Idle] /= "RUNNING"
        BY <1>1, ObjectFacts DEF IpcInv, KernelInv, KInv, StatesOK, CurrentOK
      <3> QED BY <3>1, <3>2, <3>3
    <2>2. k.priority[Idle] \in Priorities
      BY ObjectFacts DEF IpcInv, KernelInv, KState
    <2>3. Idle \in ReadyAt(k, k.priority[Idle])
      BY <2>1, <2>2, ObjectFacts DEF IpcInv, KernelInv, KInv, StatesOK, ReadyOK
    <2> QED BY <2>2, <2>3 DEF IpcInv, KernelInv, KInv, GroupOK
  <1>5. k'.stat[k'.current] = "RUNNING"
    BY <1>2, <1>4
  <1>6. CurOK' /\ KernelInv'
    BY <1>2, <1>5 DEF CurOK, KernelInv
  <1>7. CASE Waits(t)
    <2>1. pc' = [pc EXCEPT ![t] = "check"] /\ call' = call
      BY <1>7 DEF Schedule
    <2>2. TypeInv' /\ IdleOK'
      BY <1>1, <2>1 DEF IpcInv, TypeInv, IdleOK
    <2>3. ThreadsOK'
      <3> SUFFICES ASSUME NEW s \in Threads PROVE ThreadOK(k', s, call[s], pc'[s])
        BY <2>1 DEF ThreadsOK
      <3>1. CASE s /= t
        <4>1. pc'[s] = pc[s]
          BY <2>1, <3>1 DEF IpcInv, TypeInv
        <4> QED BY <1>3, <4>1
      <3>2. CASE s = t
        <4>1. pc'[s] = "check"
          BY <1>1, <2>1, <3>2 DEF IpcInv, TypeInv
        <4>2. call[s].op \in Waiters
          BY <1>7, <3>2 DEF Waits, Waiters
        <4>3. call[s] /= NoCall
          BY <4>2 DEF NoCall, Waiters
        <4> QED BY <1>1, <1>3, <3>2, <4>1, <4>2, <4>3 DEF ThreadOK
      <3> QED BY <3>1, <3>2
    <2>4. SemsOK' /\ MutexesOK' /\ HeldOK'
      BY <1>1, <1>3, <2>1, ObjectFacts DEF IpcInv, SemsOK, MutexesOK, MutexOK, HeldOK, GotOK
    <2> QED BY <1>6, <2>2, <2>3, <2>4 DEF IpcInv
  <1>8. CASE ~Waits(t)
    <2>1. pc' = [pc EXCEPT ![t] = "run"] /\ call' = [call EXCEPT ![t] = NoCall]
      BY <1>8 DEF Schedule
    <2>2. TypeInv' /\ IdleOK'
      BY <1>1, <2>1, ObjectFacts DEF IpcInv, TypeInv, IdleOK, NoCall, Ops
    <2>3. \A s \in Threads \ {t} : pc'[s] = pc[s] /\ call'[s] = call[s]
      BY <2>1 DEF IpcInv, TypeInv
    <2>4. pc'[t] = "run" /\ call'[t] = NoCall
      BY <1>1, <2>1 DEF IpcInv, TypeInv
    <2>5. call[t].op \notin Waiters
      BY <1>8 DEF Waits, Waiters
    <2>6. ThreadsOK'
      <3> SUFFICES ASSUME NEW s \in Threads PROVE ThreadOK(k', s, call'[s], pc'[s])
        BY DEF ThreadsOK
      <3>1. CASE s /= t
        BY <1>3, <2>3, <3>1
      <3>2. CASE s = t
        BY <1>3, <2>4, <2>5, <3>2 DEF ThreadOK, NoCall, CallOf, Waiters
      <3> QED BY <3>1, <3>2
    <2>7. \A m \in Mutexes : ~Gets(k, t, call[t], m) /\ ~Gets(k', t, call'[t], m)
      BY <2>4, <2>5 DEF Gets, NoCall, Waiters
    <2>8. SemsOK' /\ MutexesOK'
      BY <1>1, <1>3, ObjectFacts DEF IpcInv, SemsOK, MutexesOK, MutexOK
    <2>9. HeldOK'
      BY <1>1, <1>3, <2>3, <2>7 DEF IpcInv, HeldOK, GotOK
    <2> QED BY <1>6, <2>2, <2>6, <2>8, <2>9 DEF IpcInv
  <1> QED BY <1>7, <1>8

\* A step of the thread that runs its own code, and goes on running it, in
\* which the kernel changes nothing but its error.
LEMMA OwnStep ==
  ASSUME IpcInv, NEW t \in Threads, Runs(t), NEW e \in Errors,
         k' = [k EXCEPT !.error[t] = e], UNCHANGED <<pc, call>>
  PROVE  /\ KernelInv' /\ ThreadsOK' /\ CurOK' /\ IdleOK'
         /\ k'.waiting = k.waiting
         /\ \A s \in Threads, m \in Mutexes : Gets(k', s, call[s], m) <=> Gets(k, s, call[s], m)
  <1>1. /\ k' \in KState /\ KInv(k') /\ k'.current = k.current /\ k'.stat = k.stat
        /\ k'.priority = k.priority /\ k'.remaining = k.remaining /\ k'.waiting = k.waiting
        /\ \A s \in Threads \ {t} : Same(k, k', s)
    BY ErrorWhat DEF IpcInv, KernelInv
  <1>2. k.stat[t] = "RUNNING" /\ \A o \in Objects : t \notin WaitsAt(k, o)
    BY RunningOne DEF Runs
  <1>3. call[t] = NoCall
    BY DEF Runs, IpcInv, ThreadsOK, ThreadOK
  <1>4. KernelInv'
    BY <1>1 DEF IpcInv, KernelInv, SliceOK
  <1>5. CurOK' /\ IdleOK'
    BY <1>1 DEF IpcInv, CurOK, IdleOK
  <1>6. ThreadsOK'
    <2> SUFFICES ASSUME NEW s \in Threads PROVE ThreadOK(k', s, call[s], pc[s])
      BY DEF ThreadsOK
    <2>1. ThreadOK(k, s, call[s], pc[s])
      BY DEF IpcInv, ThreadsOK
    <2>2. CASE s /= t
      <3>1. /\ call[s].op /= "take" \/ call[s].on \in Objects
            /\ call[s].op /= "lock" \/ call[s].on \in Objects
        BY <2>1, ObjectFacts DEF ThreadOK
      <3> QED BY <1>1, <2>1, <2>2, <3>1, ThreadFrame
    <2>3. CASE s = t
      BY <1>1, <1>2, <2>1, <2>3 DEF ThreadOK, WaitsAt
    <2> QED BY <2>2, <2>3
  <1>7. ASSUME NEW s \in Threads, NEW m \in Mutexes
        PROVE  Gets(k', s, call[s], m) <=> Gets(k, s, call[s], m)
    <2>1. CASE s /= t
      BY <1>1, <2>1 DEF Gets, Same
    <2>2. CASE s = t
      BY <1>3, <2>2 DEF Gets, NoCall
    <2> QED BY <2>1, <2>2
  <1> QED BY <1>1, <1>4, <1>5, <1>6, <1>7
-----------------------------------------------------------------------------
\* The threads that wait for o are threads.
LEMMA WaitsType ==
  ASSUME NEW j \in KState, NEW o \in Objects
  PROVE  WaitsAt(j, o) \subseteq Threads /\ (j.waiting[o] = <<>> <=> WaitsAt(j, o) = {})
  <1>1. j.waiting[o] \in Seq(Threads)
    BY DEF KState
  <1>2. Elems(j.waiting[o]) \subseteq Threads
    BY <1>1 DEF Elems
  <1> QED BY <1>1, <1>2, NoElems DEF WaitsAt

\* A take or a lock is of an object.
LEMMA CallObjects ==
  ASSUME IpcInv, NEW t \in Threads
  PROVE  /\ ThreadOK(k, t, call[t], pc[t])
         /\ call[t].op /= "take" \/ call[t].on \in Objects
         /\ call[t].op /= "lock" \/ call[t].on \in Objects
  BY ObjectFacts DEF IpcInv, ThreadsOK, ThreadOK

\* A thread that is woken from o has been handed o, if o is a mutex.
LEMMA WokenGets ==
  ASSUME IpcInv, NEW u, NEW h \in Threads, NEW o \in Objects, h \in WaitsAt(k, o),
         Woken(k, u, h), u.error = k.error, NEW m \in Mutexes
  PROVE  /\ ~Gets(k, h, call[h], m)
         /\ Gets(u, h, call[h], m) <=> m = o
  <1>1. call[h] = CallOf(o) /\ k.error[h] = "EOK"
    BY DEF IpcInv, ThreadsOK, ThreadOK
  <1>2. ~Gets(k, h, call[h], m)
    BY DEF Gets
  <1>3. CASE o \in Sems
    <2>1. call[h].op = "take" /\ m /= o
      BY <1>1, <1>3, ObjectFacts DEF CallOf
    <2> QED BY <1>2, <2>1 DEF Gets
  <1>4. CASE o \notin Sems
    <2>1. call[h] = [op |-> "lock", on |-> o]
      BY <1>1, <1>4 DEF CallOf
    <2>2. call[h] = [op |-> "lock", on |-> m] <=> m = o
      <3>1. call[h].on = o
        BY <2>1
      <3> QED BY <2>1, <3>1
    <2> QED BY <1>1, <1>2, <2>2 DEF Gets, Woken
  <1> QED BY <1>3, <1>4

\* A running thread enters a call and is about to schedule.
LEMMA EntersStep ==
  ASSUME IpcInv, NEW t \in Clients, Runs(t),
         NEW op \in Ops \ {"none"}, NEW o \in Objects \union {Null}, Enters(t, op, o),
         k' \in KState, KInv(k'), k'.current = k.current, k'.remaining = k.remaining,
         \A s \in Threads \ {t} : Same(k, k', s) \/ Woken(k, k', s),
         ThreadOK(k', t, [op |-> op, on |-> o], "schedule")
  PROVE  /\ KernelInv' /\ ThreadsOK' /\ CurOK' /\ IdleOK'
         /\ pc' \in [Threads -> {"run", "schedule", "check"}]
         /\ call' \in [Threads -> [op : Ops, on : Objects \union {Null}]]
         /\ call'[t] = [op |-> op, on |-> o] /\ \A s \in Threads \ {t} : call'[s] = call[s]
         /\ \A q \in Objects :
              WaitsAt(k, q) = {} /\ t \notin WaitsAt(k', q) => WaitsAt(k', q) = {}
         /\ \A s \in Threads \ {t}, m \in Mutexes :
              Same(k, k', s) => (Gets(k', s, call'[s], m) <=> Gets(k, s, call[s], m))
  <1>1. k.current = t /\ pc[t] = "run" /\ t \in Threads /\ t /= Idle
    BY DEF Runs, Clients
  <1>2. /\ pc' = [pc EXCEPT ![t] = "schedule"]
        /\ call' = [call EXCEPT ![t] = [op |-> op, on |-> o]]
    BY DEF Enters
  <1>3. pc \in [Threads -> {"run", "schedule", "check"}]
        /\ call \in [Threads -> [op : Ops, on : Objects \union {Null}]]
    BY DEF IpcInv, TypeInv
  <1>4. /\ pc' \in [Threads -> {"run", "schedule", "check"}]
        /\ call' \in [Threads -> [op : Ops, on : Objects \union {Null}]]
        /\ pc'[t] = "schedule" /\ call'[t] = [op |-> op, on |-> o]
        /\ \A s \in Threads \ {t} : call'[s] = call[s] /\ pc'[s] = pc[s]
    BY <1>1, <1>2, <1>3
  <1>5. KernelInv'
    BY <1>1 DEF IpcInv, KernelInv, SliceOK
  <1>6. ThreadsOK'
    <2> SUFFICES ASSUME NEW s \in Threads PROVE ThreadOK(k', s, call'[s], pc'[s])
      BY DEF ThreadsOK
    <2>1. CASE s = t
      BY <1>4, <2>1
    <2>2. CASE s /= t
      <3>1. ThreadOK(k', s, call[s], pc[s])
        BY <2>2, CallObjects, ThreadFrame
      <3> QED BY <1>4, <2>2, <3>1
    <2> QED BY <2>1, <2>2
  <1>7. CurOK' /\ IdleOK'
    BY <1>1, <1>4, ObjectFacts DEF CurOK, IdleOK, IpcInv
  <1>8. ASSUME NEW q \in Objects, WaitsAt(k, q) = {}, t \notin WaitsAt(k', q)
        PROVE  WaitsAt(k', q) = {}
    <2>1. WaitsAt(k', q) \subseteq Threads
      BY WaitsType
    <2> QED BY <1>8, <2>1 DEF Same, Woken
  <1>9. ASSUME NEW s \in Threads \ {t}, NEW m \in Mutexes, Same(k, k', s)
        PROVE  Gets(k', s, call'[s], m) <=> Gets(k, s, call[s], m)
    BY <1>4, <1>9 DEF Gets, Same
  <1> QED BY <1>4, <1>5, <1>6, <1>7, <1>8, <1>9

\* A running thread is in no call and has been handed nothing.
LEMMA RunsGets ==
  ASSUME IpcInv, NEW t \in Threads, Runs(t)
  PROVE  /\ call[t] = NoCall /\ k.stat[t] = "RUNNING"
         /\ \A o \in Objects : t \notin WaitsAt(k, o)
         /\ \A m \in Mutexes : ~Gets(k, t, call[t], m)
  <1>1. call[t] = NoCall
    BY DEF Runs, IpcInv, ThreadsOK, ThreadOK
  <1>2. k.stat[t] = "RUNNING" /\ \A o \in Objects : t \notin WaitsAt(k, o)
    BY RunningOne DEF Runs
  <1> QED BY <1>1, <1>2 DEF Gets, NoCall
-----------------------------------------------------------------------------
\* The return of a call that has waited.
LEMMA ReturnInv ==
  ASSUME IpcInv, NEW t \in Clients, Return(t)
  PROVE  IpcInv'
  <1>1. /\ k.current = t /\ pc[t] = "check" /\ t \in Threads /\ t /= Idle
        /\ pc' = [pc EXCEPT ![t] = "run"] /\ call' = [call EXCEPT ![t] = NoCall]
        /\ value' = value /\ mutex' = mutex
    BY DEF Return, Clients
  <1>2. k.stat[t] = "RUNNING" /\ \A o \in Objects : t \notin WaitsAt(k, o)
    BY <1>1, RunningOne
  <1>3. /\ k' \in KState /\ KInv(k') /\ k'.current = k.current /\ k'.stat = k.stat
        /\ k'.remaining = k.remaining /\ k'.waiting = k.waiting
        /\ \A s \in Threads \ {t} : Same(k, k', s)
    <2>1. CASE call[t].op = "sleep" /\ k.error[t] = "ETIMEOUT"
      <3>1. k' = [k EXCEPT !.error[t] = "EOK"]
        BY <2>1 DEF Return
      <3> QED BY <1>1, <3>1, ErrorWhat DEF IpcInv, KernelInv, Errors
    <2>2. CASE ~(call[t].op = "sleep" /\ k.error[t] = "ETIMEOUT")
      <3>1. k' = k
        BY <2>2 DEF Return
      <3> QED BY <3>1 DEF IpcInv, KernelInv, Same
    <2> QED BY <2>1, <2>2
  <1>4. /\ pc' \in [Threads -> {"run", "schedule", "check"}]
        /\ call' \in [Threads -> [op : Ops, on : Objects \union {Null}]]
        /\ pc'[t] = "run" /\ call'[t] = NoCall
        /\ \A s \in Threads \ {t} : call'[s] = call[s] /\ pc'[s] = pc[s]
    BY <1>1, ObjectFacts DEF IpcInv, TypeInv, NoCall, Ops
  <1>5. KernelInv'
    BY <1>3 DEF IpcInv, KernelInv, SliceOK
  <1>6. ThreadsOK'
    <2> SUFFICES ASSUME NEW s \in Threads PROVE ThreadOK(k', s, call'[s], pc'[s])
      BY DEF ThreadsOK
    <2>1. CASE s = t
      BY <1>1, <1>2, <1>3, <1>4, <2>1 DEF ThreadOK, NoCall, WaitsAt
    <2>2. CASE s /= t
      <3>1. ThreadOK(k', s, call[s], pc[s])
        BY <1>3, <2>2, CallObjects, ThreadFrame
      <3> QED BY <1>4, <2>2, <3>1
    <2> QED BY <2>1, <2>2
  <1>7. CurOK' /\ IdleOK'
    BY <1>1, <1>2, <1>3, <1>4, ObjectFacts DEF CurOK, IdleOK, IpcInv
  <1>8. SemsOK' /\ MutexesOK'
    BY <1>1, <1>3 DEF IpcInv, SemsOK, MutexesOK, MutexOK, WaitsAt
  <1>9. \A s \in Threads \ {t}, m \in Mutexes :
          Gets(k', s, call'[s], m) <=> Gets(k, s, call[s], m)
    BY <1>3, <1>4 DEF Gets, Same
  <1>10. \A m \in Mutexes : ~Gets(k', t, call'[t], m)
    BY <1>4 DEF Gets, NoCall
  <1>11. held \in [Threads -> [Mutexes -> Nat]]
    BY DEF IpcInv, TypeInv
  <1>12. HeldOK' /\ held' \in [Threads -> [Mutexes -> Nat]]
    <2>1. CASE call[t].op = "lock" /\ k.error[t] = "EOK"
      <3> DEFINE n == call[t].on
      <3>1. n \in Mutexes
        BY <1>1, <2>1, CallObjects DEF ThreadOK
      <3>2. held' = [held EXCEPT ![t][n] = @ + 1]
        BY <2>1 DEF Return, Holds
      <3>3. call[t] = [op |-> "lock", on |-> n]
        BY <1>1, <2>1 DEF IpcInv, TypeInv
      <3> HIDE DEF n
      <3>4. \A m \in Mutexes : Gets(k, t, call[t], m) <=> m = n
        BY <1>2, <2>1, <3>1, <3>3 DEF Gets
      <3>5. /\ held' \in [Threads -> [Mutexes -> Nat]]
            /\ \A s \in Threads, m \in Mutexes :
                 held'[s][m] = held[s][m] + IF s = t /\ m = n THEN 1 ELSE 0
        BY <1>1, <1>11, <3>1, <3>2
      <3>6. ASSUME NEW m \in Mutexes, NEW s \in Threads
            PROVE  held'[s][m] + (IF Gets(k', s, call'[s], m) THEN 1 ELSE 0)
                     = IF mutex[m].owner = s THEN mutex[m].hold ELSE 0
        <4>1. held[s][m] + (IF Gets(k, s, call[s], m) THEN 1 ELSE 0)
                = IF mutex[m].owner = s THEN mutex[m].hold ELSE 0
          BY DEF IpcInv, HeldOK, GotOK
        <4>2. held[s][m] \in Nat
          BY <1>11
        <4>3. CASE s /= t
          BY <1>9, <3>5, <4>1, <4>2, <4>3
        <4>4. CASE s = t
          BY <1>10, <3>4, <3>5, <4>1, <4>2, <4>4
        <4> QED BY <4>3, <4>4
      <3> QED BY <1>1, <3>5, <3>6 DEF HeldOK, GotOK
    <2>2. CASE ~(call[t].op = "lock" /\ k.error[t] = "EOK")
      <3>1. held' = held
        BY <2>2 DEF Return
      <3>2. \A m \in Mutexes : ~Gets(k, t, call[t], m)
        BY <2>2 DEF Gets
      <3> QED BY <1>1, <1>9, <1>10, <1>11, <3>1, <3>2 DEF IpcInv, HeldOK, GotOK
    <2> QED BY <2>1, <2>2
  <1>13. TypeInv'
    BY <1>1, <1>4, <1>12 DEF IpcInv, TypeInv
  <1> QED BY <1>5, <1>6, <1>7, <1>8, <1>12, <1>13 DEF IpcInv

\* What a call does that leaves the kernel, and where the threads are, alone.
LEMMA CallsOnly ==
  ASSUME IpcInv, UNCHANGED <<k, pc, call>>
  PROVE  KernelInv' /\ ThreadsOK' /\ CurOK' /\ IdleOK'
  BY DEF IpcInv, KernelInv, ThreadsOK, CurOK, IdleOK

\* rt_sem_take keeps the invariant.
LEMMA SemTakeInv ==
  ASSUME IpcInv, NEW t \in Clients, NEW s \in Sems, NEW time \in Int, SemTake(t, s, time)
  PROVE  IpcInv'
  <1>1. Runs(t) /\ mutex' = mutex /\ held' = held /\ t \in Threads /\ k.current = t
    BY DEF SemTake, Clients, Runs
  <1>2. value \in [Sems -> 0 .. MaxValue] /\ MaxValue \in Nat
    BY KernelIpcAssumption DEF IpcInv, TypeInv
  <1>3. CASE value[s] > 0 /\ value' = [value EXCEPT ![s] = @ - 1] /\ UNCHANGED <<k, pc, call>>
    <2>1. /\ value' \in [Sems -> 0 .. MaxValue]
          /\ \A q \in Sems : value'[q] > 0 => value[q] > 0
      BY <1>2, <1>3
    <2>2. TypeInv' /\ SemsOK' /\ MutexesOK' /\ HeldOK'
      BY <1>1, <1>3, <2>1 DEF IpcInv, TypeInv, SemsOK, MutexesOK, MutexOK, HeldOK, GotOK
    <2> QED BY <1>3, <2>2, CallsOnly DEF IpcInv
  <1>4. CASE /\ value[s] = 0 /\ Enters(t, "take", s) /\ value' = value
             /\ k' = WaitFor([k EXCEPT !.error[t] = "EOK"], s, t, time)
    <2> DEFINE j == [k EXCEPT !.error[t] = "EOK"]
    <2>1. /\ k.stat[t] = "RUNNING" /\ call[t] = NoCall
          /\ \A m \in Mutexes : ~Gets(k, t, call[t], m)
      BY <1>1, RunsGets
    <2>2. /\ j \in KState /\ KInv(j) /\ j.current = k.current /\ j.stat = k.stat
          /\ j.remaining = k.remaining /\ j.error = [k.error EXCEPT ![t] = "EOK"]
          /\ \A r \in Threads \ {t} : Same(k, j, r)
      BY <1>1, ErrorWhat DEF IpcInv, KernelInv, Errors
    <2>3. k' = WaitFor(j, s, t, time)
      BY <1>4
    <2> HIDE DEF j
    <2>4. /\ k' \in KState /\ KInv(k') /\ Kept(j, k') /\ k'.current = j.current
          /\ k'.stat[t] = "SUSPEND"
          /\ \A q \in Objects : t \in WaitsAt(k', q) <=> q = s
          /\ \A r \in Threads \ {t} : Same(j, k', r)
      BY <1>1, <2>1, <2>2, <2>3, ObjectFacts, WaitForWhat
    <2>5. \A r \in Threads \ {t} : Same(k, k', r)
      BY <2>2, <2>4 DEF Same
    <2>6. k'.error[t] = "EOK"
      BY <1>1, <2>2, <2>4 DEF Kept, IpcInv, KernelInv, KState
    <2>7. ThreadOK(k', t, [op |-> "take", on |-> s], "schedule")
      BY <2>4, <2>6, ObjectFacts DEF ThreadOK, NoCall, Waiters, CallOf
    <2>8. /\ KernelInv' /\ ThreadsOK' /\ CurOK' /\ IdleOK'
          /\ pc' \in [Threads -> {"run", "schedule", "check"}]
          /\ call' \in [Threads -> [op : Ops, on : Objects \union {Null}]]
          /\ call'[t] = [op |-> "take", on |-> s]
          /\ \A q \in Objects :
               WaitsAt(k, q) = {} /\ t \notin WaitsAt(k', q) => WaitsAt(k', q) = {}
          /\ \A r \in Threads \ {t}, m \in Mutexes :
               Same(k, k', r) => (Gets(k', r, call'[r], m) <=> Gets(k, r, call[r], m))
      <3>1. "take" \in Ops \ {"none"} /\ s \in Objects \union {Null}
        BY ObjectFacts DEF Ops
      <3>2. k'.current = k.current /\ k'.remaining = k.remaining
        BY <2>2, <2>4 DEF Kept
      <3> QED BY <1>1, <1>4, <2>4, <2>5, <2>7, <3>1, <3>2, EntersStep
    <2>9. TypeInv'
      BY <1>1, <1>4, <2>8 DEF IpcInv, TypeInv
    <2>10. SemsOK' /\ MutexesOK'
      <3>1. \A q \in Objects : q /= s /\ WaitsAt(k, q) = {} => WaitsAt(k', q) = {}
        BY <2>4, <2>8
      <3> QED BY <1>1, <1>4, <3>1, ObjectFacts DEF IpcInv, SemsOK, MutexesOK, MutexOK
    <2>11. \A m \in Mutexes : ~Gets(k', t, call'[t], m)
      BY <2>4, ObjectFacts DEF Gets
    <2>12. HeldOK'
      BY <1>1, <2>1, <2>5, <2>8, <2>11 DEF IpcInv, HeldOK, GotOK
    <2> QED BY <2>8, <2>9, <2>10, <2>12 DEF IpcInv
  <1> QED BY <1>3, <1>4 DEF SemTake

\* rt_thread_sleep keeps the invariant.
LEMMA SleepInv ==
  ASSUME IpcInv, NEW t \in Clients, NEW ticks \in Nat, rt_thread_sleep(t, ticks)
  PROVE  IpcInv'
  <1>1. /\ Runs(t) /\ value' = value /\ mutex' = mutex /\ held' = held /\ t \in Threads
        /\ Enters(t, "sleep", Null)
        /\ k' = rt_timer_start(rt_thread_suspend(k, t), t, ticks)
    BY DEF rt_thread_sleep, Clients
  <1>2. k.stat[t] = "RUNNING" /\ \A m \in Mutexes : ~Gets(k, t, call[t], m)
    BY <1>1, RunsGets
  <1>3. /\ k' \in KState /\ KInv(k') /\ Kept(k, k') /\ k'.current = k.current
        /\ k'.stat[t] = "SUSPEND" /\ t \in Timed(k')
        /\ \A q \in Objects : t \notin WaitsAt(k', q)
        /\ \A s \in Threads \ {t} : Same(k, k', s)
    BY <1>1, <1>2, SleepWhat DEF IpcInv, KernelInv
  <1>4. ThreadOK(k', t, [op |-> "sleep", on |-> Null], "schedule")
    BY <1>3 DEF ThreadOK, NoCall, Waiters
  <1>5. /\ KernelInv' /\ ThreadsOK' /\ CurOK' /\ IdleOK'
        /\ pc' \in [Threads -> {"run", "schedule", "check"}]
        /\ call' \in [Threads -> [op : Ops, on : Objects \union {Null}]]
        /\ call'[t] = [op |-> "sleep", on |-> Null]
        /\ \A q \in Objects :
             WaitsAt(k, q) = {} /\ t \notin WaitsAt(k', q) => WaitsAt(k', q) = {}
        /\ \A s \in Threads \ {t}, m \in Mutexes :
             Same(k, k', s) => (Gets(k', s, call'[s], m) <=> Gets(k, s, call[s], m))
    <2>1. "sleep" \in Ops \ {"none"} /\ Null \in Objects \union {Null}
      BY DEF Ops
    <2> QED BY <1>1, <1>3, <1>4, <2>1, EntersStep DEF Kept
  <1>6. TypeInv'
    BY <1>1, <1>5 DEF IpcInv, TypeInv
  <1>7. SemsOK' /\ MutexesOK'
    BY <1>1, <1>3, <1>5, ObjectFacts DEF IpcInv, SemsOK, MutexesOK, MutexOK
  <1>8. \A m \in Mutexes : ~Gets(k', t, call'[t], m)
    <2>1. call'[t].op = "sleep"
      BY <1>5
    <2> QED BY <2>1 DEF Gets
  <1>9. HeldOK'
    BY <1>1, <1>2, <1>3, <1>5, <1>8 DEF IpcInv, HeldOK, GotOK
  <1> QED BY <1>5, <1>6, <1>7, <1>9 DEF IpcInv

\* rt_sem_release by a thread keeps the invariant.
LEMMA SemReleaseInv ==
  ASSUME IpcInv, NEW t \in Clients, NEW s \in Sems, SemRelease(t, s)
  PROVE  IpcInv'
  <1>1. Runs(t) /\ mutex' = mutex /\ held' = held /\ t \in Threads /\ value[s] < MaxValue
    BY DEF SemRelease, Posted, Clients
  <1>2. value \in [Sems -> 0 .. MaxValue] /\ MaxValue \in Nat
    BY KernelIpcAssumption DEF IpcInv, TypeInv
  <1>3. s \in Objects /\ k \in KState /\ KInv(k)
    BY ObjectFacts DEF IpcInv, KernelInv
  <1>4. CASE k.waiting[s] = <<>>
    <2>1. value' = [value EXCEPT ![s] = @ + 1] /\ UNCHANGED <<k, pc, call>>
      BY <1>4 DEF SemRelease, Posted
    <2>2. /\ value' \in [Sems -> 0 .. MaxValue]
          /\ \A q \in Sems : q /= s => value'[q] = value[q]
      BY <1>1, <1>2, <2>1
    <2>3. WaitsAt(k, s) = {}
      BY <1>3, <1>4, WaitsType
    <2>4. TypeInv' /\ SemsOK' /\ MutexesOK' /\ HeldOK'
      BY <1>1, <2>1, <2>2, <2>3 DEF IpcInv, TypeInv, SemsOK, MutexesOK, MutexOK, HeldOK, GotOK
    <2> QED BY <2>1, <2>4, CallsOnly DEF IpcInv
  <1>5. CASE k.waiting[s] /= <<>>
    <2> DEFINE h == Head(k.waiting[s])
    <2>1. /\ value' = value /\ Enters(t, "release", s)
          /\ k' = rt_ipc_list_resume(k, s)
      BY <1>5 DEF SemRelease, Posted
    <2>2. WaitsAt(k, s) /= {}
      BY <1>3, <1>5, WaitsType
    <2>3. /\ k' \in KState /\ KInv(k') /\ Kept(k, k') /\ k'.current = k.current
          /\ h \in Threads /\ h \in WaitsAt(k, s)
          /\ Woken(k, k', h) /\ \A r \in Threads \ {h} : Same(k, k', r)
      BY <1>3, <2>1, <2>2, ListResumeWhat
    <2> HIDE DEF h
    <2>4. /\ k.stat[t] = "RUNNING" /\ call[t] = NoCall
          /\ \A o \in Objects : t \notin WaitsAt(k, o)
          /\ \A m \in Mutexes : ~Gets(k, t, call[t], m)
      BY <1>1, RunsGets
    <2>5. t /= h
      BY <1>3, <2>3, <2>4
    <2>6. ThreadOK(k', t, [op |-> "release", on |-> s], "schedule")
      <3>1. Same(k, k', t)
        BY <1>1, <2>3, <2>5
      <3> QED BY <2>4, <3>1 DEF ThreadOK, Same, NoCall
    <2>7. /\ KernelInv' /\ ThreadsOK' /\ CurOK' /\ IdleOK'
          /\ pc' \in [Threads -> {"run", "schedule", "check"}]
          /\ call' \in [Threads -> [op : Ops, on : Objects \union {Null}]]
          /\ call'[t] = [op |-> "release", on |-> s]
          /\ \A r \in Threads \ {t} : call'[r] = call[r]
          /\ \A q \in Objects :
               WaitsAt(k, q) = {} /\ t \notin WaitsAt(k', q) => WaitsAt(k', q) = {}
          /\ \A r \in Threads \ {t}, m \in Mutexes :
               Same(k, k', r) => (Gets(k', r, call'[r], m) <=> Gets(k, r, call[r], m))
      <3>1. "release" \in Ops \ {"none"} /\ s \in Objects \union {Null}
        BY <1>3 DEF Ops
      <3>2. \A r \in Threads \ {t} : Same(k, k', r) \/ Woken(k, k', r)
        BY <2>3
      <3> QED BY <1>1, <2>1, <2>3, <2>6, <3>1, <3>2, EntersStep DEF Kept
    <2>8. TypeInv'
      BY <1>1, <2>1, <2>7 DEF IpcInv, TypeInv
    <2>9. \A q \in Objects : t \notin WaitsAt(k', q)
      BY <1>1, <2>3, <2>4, <2>5 DEF Same
    <2>10. SemsOK' /\ MutexesOK'
      BY <1>1, <2>1, <2>7, <2>9, ObjectFacts DEF IpcInv, SemsOK, MutexesOK, MutexOK
    <2>11. \A m \in Mutexes : ~Gets(k', t, call'[t], m)
      <3>1. call'[t].op = "release"
        BY <2>7
      <3> QED BY <3>1 DEF Gets
    <2>12. \A m \in Mutexes : ~Gets(k, h, call[h], m) /\ ~Gets(k', h, call'[h], m)
      BY <1>3, <2>3, <2>5, <2>7, WokenGets, ObjectFacts DEF Kept
    <2>13. HeldOK'
      BY <1>1, <2>3, <2>4, <2>7, <2>11, <2>12 DEF IpcInv, HeldOK, GotOK
    <2> QED BY <2>7, <2>8, <2>10, <2>13 DEF IpcInv
  <1> QED BY <1>4, <1>5

\* rt_sem_release by an interrupt keeps the invariant.
LEMMA IsrReleaseInv ==
  ASSUME IpcInv, NEW s \in Sems, IsrRelease(s)
  PROVE  IpcInv'
  <1>1. mutex' = mutex /\ held' = held /\ pc' = pc /\ call' = call /\ value[s] < MaxValue
    BY DEF IsrRelease, Posted
  <1>2. value \in [Sems -> 0 .. MaxValue] /\ MaxValue \in Nat
    BY KernelIpcAssumption DEF IpcInv, TypeInv
  <1>3. s \in Objects /\ k \in KState /\ KInv(k) /\ k.current \in Threads /\ SliceOK(k)
    BY ObjectFacts DEF IpcInv, KernelInv
  <1>4. CASE k.waiting[s] = <<>>
    <2>1. value' = [value EXCEPT ![s] = @ + 1] /\ k' = k
      BY <1>4 DEF IsrRelease, Posted
    <2>2. /\ value' \in [Sems -> 0 .. MaxValue]
          /\ \A q \in Sems : q /= s => value'[q] = value[q]
      BY <1>1, <1>2, <2>1
    <2>3. WaitsAt(k, s) = {}
      BY <1>3, <1>4, WaitsType
    <2>4. TypeInv' /\ SemsOK' /\ MutexesOK' /\ HeldOK'
      BY <1>1, <2>1, <2>2, <2>3 DEF IpcInv, TypeInv, SemsOK, MutexesOK, MutexOK, HeldOK, GotOK
    <2> QED BY <1>1, <2>1, <2>4, CallsOnly DEF IpcInv
  <1>5. CASE k.waiting[s] /= <<>>
    <2> DEFINE h == Head(k.waiting[s])
               j == rt_ipc_list_resume(k, s)
    <2>1. value' = value /\ k' = rt_schedule(j)
      BY <1>5 DEF IsrRelease, Posted
    <2>2. WaitsAt(k, s) /= {}
      BY <1>3, <1>5, WaitsType
    <2>3. /\ j \in KState /\ KInv(j) /\ Kept(k, j) /\ j.current = k.current
          /\ h \in Threads /\ h \in WaitsAt(k, s)
          /\ Woken(k, j, h) /\ \A r \in Threads \ {h} : Same(k, j, r)
      BY <1>3, <2>2, ListResumeWhat
    <2> HIDE DEF h, j
    <2>4. /\ k' \in KState /\ KInv(k') /\ Kept(j, k') /\ k'.current \in Threads
          /\ \A r \in Threads : Same(j, k', r)
          /\ IF j.group = {} THEN k' = j ELSE k'.stat[k'.current] = "RUNNING"
      BY <1>3, <2>1, <2>3, ScheduleWhat
    <2>5. Woken(k, k', h) /\ Kept(k, k')
      BY <2>3, <2>4 DEF Woken, Same, Kept
    <2>6. \A r \in Threads \ {h} : Same(k, k', r)
      BY <2>3, <2>4 DEF Same
    <2>7. KernelInv'
      BY <1>3, <2>4, <2>5 DEF KernelInv, SliceOK, Kept
    <2>8. ThreadsOK'
      <3> SUFFICES ASSUME NEW r \in Threads PROVE ThreadOK(k', r, call[r], pc[r])
        BY <1>1 DEF ThreadsOK
      <3> QED BY <2>5, <2>6, CallObjects, ThreadFrame
    <2>9. CurOK'
      <3> SUFFICES ASSUME k'.stat[k'.current] = "SUSPEND" PROVE pc[k'.current] = "schedule"
        BY <1>1 DEF CurOK
      <3>1. k'.current = k.current
        BY <2>3, <2>4
      <3>2. k.stat[k.current] = "SUSPEND"
        BY <1>3, <2>3, <2>5, <2>6, <3>1 DEF Same, Woken
      <3> QED BY <3>1, <3>2 DEF IpcInv, CurOK
    <2>10. TypeInv' /\ IdleOK'
      BY <1>1, <2>1 DEF IpcInv, TypeInv, IdleOK
    <2>11. SemsOK' /\ MutexesOK'
      <3>1. ASSUME NEW q \in Objects, WaitsAt(k, q) = {} PROVE WaitsAt(k', q) = {}
        <4>1. WaitsAt(k', q) \subseteq Threads
          BY <2>4, WaitsType
        <4> QED BY <2>5, <2>6, <3>1, <4>1 DEF Same, Woken
      <3> QED BY <1>1, <2>1, <3>1, ObjectFacts DEF IpcInv, SemsOK, MutexesOK, MutexOK
    <2>12. \A m \in Mutexes : ~Gets(k, h, call[h], m) /\ ~Gets(k', h, call[h], m)
      BY <1>3, <2>3, <2>5, WokenGets, ObjectFacts DEF Kept
    <2>13. \A r \in Threads \ {h}, m \in Mutexes :
             Gets(k', r, call[r], m) <=> Gets(k, r, call[r], m)
      BY <2>6 DEF Gets, Same
    <2>14. HeldOK'
      BY <1>1, <2>12, <2>13 DEF IpcInv, HeldOK, GotOK
    <2> QED BY <2>7, <2>8, <2>9, <2>10, <2>11, <2>14 DEF IpcInv
  <1> QED BY <1>4, <1>5
-----------------------------------------------------------------------------
\* The fields of a mutex.
LEMMA MutexType ==
  ASSUME TypeInv, NEW m \in Mutexes
  PROVE  /\ mutex[m].value \in {0, 1} /\ mutex[m].owner \in Threads \union {Null}
         /\ mutex[m].hold \in Nat /\ mutex[m].original \in Priorities \union {255}
         /\ MaxHold[m] \in Nat /\ MaxHold[m] >= 1
         /\ \A s \in Threads : held[s][m] \in Nat
  BY KernelIpcAssumption DEF TypeInv, MutexRecord

\* A mutex that is given to another thread.
LEMMA GivenRecord ==
  ASSUME NEW x \in MutexRecord, NEW h \in Threads, NEW p \in Priorities
  PROVE  LET r == [value |-> x.value, owner |-> h, hold |-> x.hold, original |-> p] IN
         r \in MutexRecord /\ [x EXCEPT !.owner = h, !.original = p] = r
  <1> DEFINE r == [value |-> x.value, owner |-> h, hold |-> x.hold, original |-> p]
  <1>1. /\ x.value \in {0, 1} /\ x.hold \in Nat
        /\ x = [value |-> x.value, owner |-> x.owner, hold |-> x.hold, original |-> x.original]
    BY DEF MutexRecord
  <1>2. r \in MutexRecord
    BY <1>1 DEF MutexRecord
  <1>3. [x EXCEPT !.owner = h, !.original = p] = r
    <2> DEFINE a == x.value
               b == x.owner
               c == x.hold
               d == x.original
    <2>1. x = [value |-> a, owner |-> b, hold |-> c, original |-> d]
      BY <1>1
    <2> HIDE DEF a, b, c, d
    <2> DEFINE y == [value |-> a, owner |-> h, hold |-> c, original |-> d]
    <2>2. [x EXCEPT !.owner = h] = y
      BY ONLY <2>1
    <2>3. [y EXCEPT !.original = p] = [value |-> a, owner |-> h, hold |-> c, original |-> p]
      OBVIOUS
    <2> HIDE DEF y
    <2> QED BY <2>2, <2>3 DEF a, c
  <1> QED BY <1>2, <1>3

\* Thread t has m n times more.
LEMMA HoldsWhat ==
  ASSUME TypeInv, NEW t \in Threads, NEW m \in Mutexes,
         NEW n \in Int, held[t][m] + n >= 0, Holds(t, m, n)
  PROVE  /\ held' \in [Threads -> [Mutexes -> Nat]]
         /\ \A s \in Threads :
              held'[s][m] = IF s = t THEN held[s][m] + n ELSE held[s][m]
         /\ \A s \in Threads, q \in Mutexes \ {m} : held'[s][q] = held[s][q]
  <1>1. held' = [held EXCEPT ![t][m] = @ + n] /\ held \in [Threads -> [Mutexes -> Nat]]
    BY DEF Holds, TypeInv
  <1>2. held[t][m] + n \in Nat
    <2>1. held[t][m] \in Nat
      BY <1>1
    <2> QED BY <2>1
  <1> QED BY <1>1, <1>2

\* A step that changes the mutex m, to r, and no other.
LEMMA MutexStep ==
  ASSUME IpcInv, NEW m \in Mutexes, NEW r \in MutexRecord,
         mutex' = [mutex EXCEPT ![m] = r], MutexOK(k', m, r),
         \A q \in Mutexes \ {m} : WaitsAt(k, q) = {} => WaitsAt(k', q) = {},
         \A s \in Threads, q \in Mutexes \ {m} :
           held'[s][q] = held[s][q] /\ (Gets(k', s, call'[s], q) <=> Gets(k, s, call[s], q)),
         GotOK(k', held', call', m, r)
  PROVE  mutex' \in [Mutexes -> MutexRecord] /\ MutexesOK' /\ HeldOK'
  <1>1. mutex \in [Mutexes -> MutexRecord]
    BY DEF IpcInv, TypeInv
  <1>2. /\ mutex' \in [Mutexes -> MutexRecord]
        /\ mutex'[m] = r /\ \A q \in Mutexes \ {m} : mutex'[q] = mutex[q]
    BY <1>1
  <1>3. MutexesOK'
    <2> SUFFICES ASSUME NEW q \in Mutexes PROVE MutexOK(k', q, mutex'[q])
      BY DEF MutexesOK
    <2>1. CASE q = m
      BY <1>2, <2>1
    <2>2. CASE q /= m
      BY <1>2, <2>2 DEF IpcInv, MutexesOK, MutexOK
    <2> QED BY <2>1, <2>2
  <1>4. HeldOK'
    <2> SUFFICES ASSUME NEW q \in Mutexes PROVE GotOK(k', held', call', q, mutex'[q])
      BY DEF HeldOK
    <2>1. CASE q = m
      BY <1>2, <2>1
    <2>2. CASE q /= m
      BY <1>2, <2>2 DEF IpcInv, HeldOK, GotOK
    <2> QED BY <2>1, <2>2
  <1> QED BY <1>2, <1>3, <1>4

\* A take by the owner keeps the invariant.
LEMMA TakesAgainInv ==
  ASSUME IpcInv, NEW t \in Threads, Runs(t), NEW m \in Mutexes, TakesAgain(t, m),
         value' = value
  PROVE  IpcInv'
  <1> DEFINE r == [mutex[m] EXCEPT !.hold = @ + 1]
  <1>1. /\ mutex[m].owner = t /\ mutex[m].hold < MaxHold[m]
        /\ k' = [k EXCEPT !.error[t] = "EOK"] /\ Holds(t, m, 1) /\ pc' = pc /\ call' = call
        /\ mutex' = [mutex EXCEPT ![m].hold = @ + 1]
    BY DEF TakesAgain
  <1>2. TypeInv /\ t /= Null
    BY ObjectFacts DEF IpcInv
  <1>3. /\ KernelInv' /\ ThreadsOK' /\ CurOK' /\ IdleOK' /\ k'.waiting = k.waiting
        /\ \A s \in Threads, q \in Mutexes : Gets(k', s, call'[s], q) <=> Gets(k, s, call[s], q)
    BY <1>1, OwnStep DEF Errors
  <1>4. /\ r \in MutexRecord /\ r.hold = mutex[m].hold + 1 /\ r.owner = t
        /\ r.value = mutex[m].value /\ r.original = mutex[m].original
    <2>1. mutex[m] \in MutexRecord /\ mutex[m].hold + 1 \in Nat
      BY <1>2, MutexType DEF TypeInv
    <2> QED BY <1>1, <2>1 DEF MutexRecord
  <1>5. mutex' = [mutex EXCEPT ![m] = r]
    BY <1>1, <1>2 DEF TypeInv
  <1> HIDE DEF r
  <1>6. MutexOK(k', m, r)
    BY <1>1, <1>2, <1>4, MutexType DEF IpcInv, MutexesOK, MutexOK
  <1>7. /\ held' \in [Threads -> [Mutexes -> Nat]]
        /\ \A s \in Threads :
             held'[s][m] = IF s = t THEN held[s][m] + 1 ELSE held[s][m]
        /\ \A s \in Threads, q \in Mutexes \ {m} : held'[s][q] = held[s][q]
    <2>1. held[t][m] + 1 >= 0
      BY <1>2, MutexType
    <2> QED BY <1>1, <1>2, <2>1, HoldsWhat
  <1>8. GotOK(k', held', call', m, r)
    <2> SUFFICES ASSUME NEW s \in Threads
                 PROVE  held'[s][m] + (IF Gets(k', s, call'[s], m) THEN 1 ELSE 0)
                          = IF r.owner = s THEN r.hold ELSE 0
      BY DEF GotOK
    <2>1. held[s][m] + (IF Gets(k, s, call[s], m) THEN 1 ELSE 0)
            = IF mutex[m].owner = s THEN mutex[m].hold ELSE 0
      BY DEF IpcInv, HeldOK, GotOK
    <2>2. mutex[m].hold \in Nat /\ held[s][m] \in Nat
      BY <1>2, MutexType
    <2>3. CASE s = t
      <3>1. held'[s][m] = held[s][m] + 1 /\ r.owner = s /\ mutex[m].owner = s
        BY <1>1, <1>4, <1>7, <2>3
      <3> QED BY <1>3, <1>4, <2>1, <2>2, <3>1
    <2>4. CASE s /= t
      <3>1. held'[s][m] = held[s][m] /\ r.owner /= s /\ mutex[m].owner /= s
        BY <1>1, <1>4, <1>7, <2>4
      <3> QED BY <1>3, <2>1, <2>2, <3>1
    <2> QED BY <2>3, <2>4
  <1>9. \A q \in Mutexes : WaitsAt(k', q) = WaitsAt(k, q)
    BY <1>3 DEF WaitsAt
  <1>10. mutex' \in [Mutexes -> MutexRecord] /\ MutexesOK' /\ HeldOK'
    <2>1. \A q \in Mutexes \ {m} : WaitsAt(k, q) = {} => WaitsAt(k', q) = {}
      BY <1>9
    <2>2. \A s \in Threads, q \in Mutexes \ {m} :
            held'[s][q] = held[s][q] /\ (Gets(k', s, call'[s], q) <=> Gets(k, s, call[s], q))
      BY <1>3, <1>7
    <2>3. r \in MutexRecord
      BY <1>4
    <2> QED BY <1>5, <1>6, <1>8, <2>1, <2>2, <2>3, MutexStep
  <1>11. TypeInv' /\ SemsOK'
    BY <1>1, <1>3, <1>7, <1>10 DEF IpcInv, TypeInv, SemsOK, WaitsAt
  <1> QED BY <1>3, <1>10, <1>11 DEF IpcInv

\* A take of a free mutex keeps the invariant.
LEMMA TakesFreeInv ==
  ASSUME IpcInv, NEW t \in Threads, Runs(t), NEW m \in Mutexes, TakesFree(t, m),
         value' = value
  PROVE  IpcInv'
  <1> DEFINE r == [value |-> mutex[m].value - 1, owner |-> t, hold |-> mutex[m].hold + 1,
                   original |-> k.priority[t]]
  <1>1. /\ mutex[m].owner /= t /\ mutex[m].value > 0
        /\ k' = [k EXCEPT !.error[t] = "EOK"] /\ Holds(t, m, 1) /\ pc' = pc /\ call' = call
    BY DEF TakesFree
  <1>2. TypeInv /\ t /= Null
    BY ObjectFacts DEF IpcInv
  <1>3. /\ KernelInv' /\ ThreadsOK' /\ CurOK' /\ IdleOK' /\ k'.waiting = k.waiting
        /\ \A s \in Threads, q \in Mutexes : Gets(k', s, call'[s], q) <=> Gets(k, s, call[s], q)
    BY <1>1, OwnStep DEF Errors
  <1>4. mutex[m].owner = Null /\ mutex[m].hold = 0 /\ mutex[m].value = 1
    BY <1>1, <1>2, MutexType DEF IpcInv, MutexesOK, MutexOK
  <1>5. k.priority[t] \in Priorities
    BY DEF IpcInv, KernelInv, KState
  <1>6. mutex' = [mutex EXCEPT ![m] = r]
    BY <1>2 DEF TakesFree, TypeInv
  <1>7. /\ r \in MutexRecord
        /\ r.hold = 1 /\ r.owner = t /\ r.value = 0 /\ r.original \in Priorities
    BY <1>4, <1>5 DEF MutexRecord
  <1> HIDE DEF r
  <1>8. MutexOK(k', m, r)
    BY <1>2, <1>7, MutexType DEF MutexOK
  <1>9. /\ held' \in [Threads -> [Mutexes -> Nat]]
        /\ \A s \in Threads :
             held'[s][m] = IF s = t THEN held[s][m] + 1 ELSE held[s][m]
        /\ \A s \in Threads, q \in Mutexes \ {m} : held'[s][q] = held[s][q]
    <2>1. held[t][m] + 1 >= 0
      BY <1>2, MutexType
    <2> QED BY <1>1, <1>2, <2>1, HoldsWhat
  <1>10. GotOK(k', held', call', m, r)
    <2> SUFFICES ASSUME NEW s \in Threads
                 PROVE  held'[s][m] + (IF Gets(k', s, call'[s], m) THEN 1 ELSE 0)
                          = IF r.owner = s THEN r.hold ELSE 0
      BY DEF GotOK
    <2>1. held[s][m] + (IF Gets(k, s, call[s], m) THEN 1 ELSE 0) = 0
      BY <1>4, ObjectFacts DEF IpcInv, HeldOK, GotOK
    <2>2. held[s][m] \in Nat
      BY <1>2, MutexType
    <2> QED BY <1>3, <1>7, <1>9, <2>1, <2>2
  <1>11. \A q \in Mutexes : WaitsAt(k', q) = WaitsAt(k, q)
    BY <1>3 DEF WaitsAt
  <1>12. mutex' \in [Mutexes -> MutexRecord] /\ MutexesOK' /\ HeldOK'
    <2>1. \A q \in Mutexes \ {m} : WaitsAt(k, q) = {} => WaitsAt(k', q) = {}
      BY <1>11
    <2>2. \A s \in Threads, q \in Mutexes \ {m} :
            held'[s][q] = held[s][q] /\ (Gets(k', s, call'[s], q) <=> Gets(k, s, call[s], q))
      BY <1>3, <1>9
    <2>3. r \in MutexRecord
      BY <1>7
    <2> QED BY <1>6, <1>8, <1>10, <2>1, <2>2, <2>3, MutexStep
  <1>13. TypeInv' /\ SemsOK'
    BY <1>1, <1>3, <1>9, <1>12 DEF IpcInv, TypeInv, SemsOK, WaitsAt
  <1> QED BY <1>3, <1>12, <1>13 DEF IpcInv

\* What a change of priority leaves alone.
LEMMA PriorityChanged ==
  ASSUME NEW j \in KState, KInv(j), NEW t \in Threads, NEW p \in Priorities
  PROVE  LET c == ChangePriority(j, t, p) IN
         /\ c \in KState /\ KInv(c) /\ c.current = j.current /\ c.stat = j.stat
         /\ c.remaining = j.remaining /\ c.error = j.error
         /\ c.priority = [j.priority EXCEPT ![t] = p]
         /\ \A s \in Threads : Same(j, c, s)
         /\ Thins(j, c) /\ (j.stat[t] /= "READY" => c.group = j.group)
  <1> DEFINE c == ChangePriority(j, t, p)
  <1>1. /\ c \in KState /\ KInv(c) /\ c.current = j.current /\ c.stat = j.stat
        /\ c.tick = j.tick /\ c.error = j.error /\ c.remaining = j.remaining
        /\ c.priority = [j.priority EXCEPT ![t] = p]
        /\ \A s \in Threads : Same(j, c, s)
        /\ Thins(j, c) /\ (j.stat[t] /= "READY" => c.group = j.group)
    BY ChangePriorityWhat
  <1> HIDE DEF c
  <1> QED BY <1>1 DEF c

\* A take that does not wait, and a release by another than the owner.
LEMMA ErrorInv ==
  ASSUME IpcInv, NEW t \in Threads, Runs(t), NEW e \in Errors,
         k' = [k EXCEPT !.error[t] = e], UNCHANGED <<value, mutex, pc, call, held>>
  PROVE  IpcInv'
  <1>1. /\ KernelInv' /\ ThreadsOK' /\ CurOK' /\ IdleOK' /\ k'.waiting = k.waiting
        /\ \A s \in Threads, q \in Mutexes : Gets(k', s, call'[s], q) <=> Gets(k, s, call[s], q)
    BY OwnStep
  <1>2. TypeInv' /\ SemsOK' /\ MutexesOK'
    BY <1>1 DEF IpcInv, TypeInv, SemsOK, MutexesOK, MutexOK, WaitsAt
  <1>3. HeldOK'
    BY <1>1 DEF IpcInv, HeldOK, GotOK
  <1> QED BY <1>1, <1>2, <1>3 DEF IpcInv

\* The owner may have got the priority of the thread that waits: nobody is woken,
\* and nobody joins a list.
LEMMA BoostedWhat ==
  ASSUME NEW j \in KState, KInv(j), NEW m \in Mutexes, mutex[m].owner \in Threads,
         NEW t \in Threads
  PROVE  LET u == Boosted(j, m, t)
             owner == mutex[m].owner
         IN /\ u \in KState /\ KInv(u) /\ u.current = j.current /\ u.stat = j.stat
            /\ u.remaining = j.remaining /\ u.error = j.error
            /\ \A s \in Threads \ {owner} : u.priority[s] = j.priority[s]
            /\ u.priority[owner] <= j.priority[owner] /\ u.priority[owner] <= j.priority[t]
            /\ \A s \in Threads : Same(j, u, s)
            /\ Thins(j, u)
  <1> DEFINE u == Boosted(j, m, t)
             owner == mutex[m].owner
             p == j.priority[t]
             c == ChangePriority(j, owner, p)
  <1>1. p \in Priorities /\ owner \in Threads
    BY DEF KState
  <1>4. j.priority \in [Threads -> Priorities] /\ \A s \in Threads : j.priority[s] \in Nat
    BY PriorityType DEF KState
  <1>2. CASE j.priority[t] < j.priority[owner]
    <2>1. u = c
      BY <1>2 DEF Boosted
    <2>2. j.priority[t] <= j.priority[owner] /\ p <= p /\ p = j.priority[t]
      BY <1>1, <1>2, <1>4
    <2> HIDE DEF u, owner, p
    <2>3. /\ c \in KState /\ KInv(c) /\ c.current = j.current /\ c.stat = j.stat
          /\ c.remaining = j.remaining /\ c.error = j.error
          /\ c.priority = [j.priority EXCEPT ![owner] = p]
          /\ \A s \in Threads : Same(j, c, s)
          /\ Thins(j, c)
      BY ONLY j \in KState, KInv(j), <1>1, PriorityChanged
    <2> HIDE DEF c
    <2>4. c.priority[owner] = p /\ \A s \in Threads \ {owner} : c.priority[s] = j.priority[s]
      BY <1>1, <1>4, <2>3
    <2> QED BY <2>1, <2>2, <2>3, <2>4 DEF u, owner
  <1>3. CASE ~(j.priority[t] < j.priority[owner])
    <2>1. u = j
      BY <1>3 DEF Boosted
    <2>2. j.priority[owner] <= j.priority[owner] /\ j.priority[owner] <= j.priority[t]
      BY <1>1, <1>3, <1>4
    <2> HIDE DEF u, owner
    <2> QED BY <2>1, <2>2, ThinsSame DEF Same, u, owner
  <1> QED BY <1>2, <1>3

\* A take that waits, after the owner's priority was raised, keeps the
\* invariant.
LEMMA WaitsForMutexInv ==
  ASSUME IpcInv, NEW t \in Clients, Runs(t), NEW m \in Mutexes, NEW time \in Int,
         WaitsForMutex(t, m, time), value' = value
  PROVE  IpcInv'
  <1> DEFINE i == [k EXCEPT !.error[t] = "EOK"]
             j == Boosted(i, m, t)
             owner == mutex[m].owner
  <1>1. /\ owner /= t /\ mutex[m].value = 0 /\ mutex' = mutex /\ held' = held
        /\ Enters(t, "lock", m) /\ t \in Threads /\ m \in Objects
        /\ k' = WaitFor(j, m, t, time)
    BY ObjectFacts DEF WaitsForMutex, Clients
  <1>2. /\ k.stat[t] = "RUNNING" /\ call[t] = NoCall
        /\ \A q \in Mutexes : ~Gets(k, t, call[t], q)
    BY <1>1, RunsGets
  <1>3. /\ i \in KState /\ KInv(i) /\ i.current = k.current /\ i.stat = k.stat
        /\ i.remaining = k.remaining /\ i.error = [k.error EXCEPT ![t] = "EOK"]
        /\ \A s \in Threads \ {t} : Same(k, i, s)
    BY <1>1, ErrorWhat DEF IpcInv, KernelInv, Errors
  <1> HIDE DEF i
  <1>4. owner \in Threads
    BY <1>1, MutexType DEF IpcInv, MutexesOK, MutexOK
  <1>5. /\ j \in KState /\ KInv(j) /\ j.current = i.current /\ j.stat = i.stat
        /\ j.remaining = i.remaining /\ j.error = i.error
        /\ \A s \in Threads : Same(i, j, s)
    BY <1>1, <1>3, <1>4, BoostedWhat
  <1> HIDE DEF j, owner
  <1>6. /\ k' \in KState /\ KInv(k') /\ Kept(j, k') /\ k'.current = j.current
        /\ k'.stat[t] = "SUSPEND"
        /\ \A q \in Objects : t \in WaitsAt(k', q) <=> q = m
        /\ \A s \in Threads \ {t} : Same(j, k', s)
    <2>1. j.stat[t] = "RUNNING"
      BY <1>2, <1>3, <1>5
    <2> QED BY <1>1, <1>5, <2>1, WaitForWhat
  <1>7. \A s \in Threads \ {t} : Same(k, k', s)
    BY <1>3, <1>5, <1>6 DEF Same
  <1>8. k'.error[t] = "EOK"
    BY <1>1, <1>3, <1>5, <1>6 DEF Kept, IpcInv, KernelInv, KState
  <1>9. ThreadOK(k', t, [op |-> "lock", on |-> m], "schedule")
    <2> DEFINE c == [op |-> "lock", on |-> m]
    <2>1. c.op = "lock" /\ c.on = m /\ c /= NoCall
      BY DEF NoCall
    <2>2. CallOf(m) = c
      <3>1. m \notin Sems
        BY ObjectFacts
      <3> QED BY <3>1 DEF CallOf
    <2> HIDE DEF c
    <2>3. ThreadOK(k', t, c, "schedule")
      BY <1>1, <1>6, <1>8, <2>1, <2>2 DEF ThreadOK, Waiters
    <2> QED BY <2>3 DEF c
  <1>10. /\ KernelInv' /\ ThreadsOK' /\ CurOK' /\ IdleOK'
         /\ pc' \in [Threads -> {"run", "schedule", "check"}]
         /\ call' \in [Threads -> [op : Ops, on : Objects \union {Null}]]
         /\ \A q \in Objects :
              WaitsAt(k, q) = {} /\ t \notin WaitsAt(k', q) => WaitsAt(k', q) = {}
         /\ \A s \in Threads \ {t}, q \in Mutexes :
              Same(k, k', s) => (Gets(k', s, call'[s], q) <=> Gets(k, s, call[s], q))
    <2>1. "lock" \in Ops \ {"none"} /\ m \in Objects \union {Null}
      BY <1>1 DEF Ops
    <2>2. k'.current = k.current /\ k'.remaining = k.remaining
      BY <1>3, <1>5, <1>6 DEF Kept
    <2> QED BY <1>1, <1>6, <1>7, <1>9, <2>1, <2>2, EntersStep
  <1>11. TypeInv'
    BY <1>1, <1>10 DEF IpcInv, TypeInv
  <1>12. \A q \in Objects : q /= m /\ WaitsAt(k, q) = {} => WaitsAt(k', q) = {}
    BY <1>6, <1>10
  <1>13. SemsOK'
    BY <1>12, ObjectFacts DEF IpcInv, SemsOK
  <1>14. MutexesOK'
    <2>1. owner /= Null
      BY <1>4, ObjectFacts
    <2> QED BY <1>1, <1>12, <2>1, ObjectFacts DEF IpcInv, MutexesOK, MutexOK, owner
  <1>15. \A q \in Mutexes : ~Gets(k', t, call'[t], q)
    BY <1>1, <1>6 DEF Gets
  <1>16. HeldOK'
    BY <1>1, <1>2, <1>7, <1>10, <1>15 DEF IpcInv, HeldOK, GotOK
  <1> QED BY <1>10, <1>11, <1>13, <1>14, <1>16 DEF IpcInv

\* rt_mutex_take keeps the invariant.
LEMMA MutexTakeInv ==
  ASSUME IpcInv, NEW t \in Clients, NEW m \in Mutexes, NEW time \in Int, MutexTake(t, m, time)
  PROVE  IpcInv'
  <1>1. Runs(t) /\ value' = value /\ t \in Threads
    BY DEF MutexTake, Clients
  <1>2. CASE TakesAgain(t, m)
    BY <1>1, <1>2, TakesAgainInv
  <1>3. CASE TakesFree(t, m)
    BY <1>1, <1>3, TakesFreeInv
  <1>4. CASE WaitsForMutex(t, m, time)
    BY <1>1, <1>4, WaitsForMutexInv
  <1>5. CASE DoesNotWait(t, m)
    <2>1. k' = [k EXCEPT !.error[t] = "ETIMEOUT"] /\ UNCHANGED <<value, mutex, pc, call, held>>
      BY <1>1, <1>5 DEF DoesNotWait
    <2> QED BY <1>1, <2>1, ErrorInv DEF Errors
  <1> QED BY <1>2, <1>3, <1>4, <1>5 DEF MutexTake

\* The release gives the owner its priority back and changes nothing else.
LEMMA RestoredWhat ==
  ASSUME IpcInv, NEW t \in Threads, NEW m \in Mutexes, mutex[m].owner = t
  PROVE  LET u == Restored(t, m) IN
         /\ u \in KState /\ KInv(u) /\ u.current = k.current /\ u.stat = k.stat
         /\ u.remaining = k.remaining /\ u.error = k.error
         /\ u.priority = [k.priority EXCEPT ![t] = mutex[m].original]
         /\ \A s \in Threads : Same(k, u, s)
         /\ Thins(k, u) /\ (k.stat[t] /= "READY" => u.group = k.group)
  <1> DEFINE u == Restored(t, m)
             p == mutex[m].original
  <1>1. k \in KState /\ KInv(k) /\ p \in Priorities
    BY ObjectFacts DEF IpcInv, KernelInv, MutexesOK, MutexOK
  <1>2. CASE p # k.priority[t]
    <2>1. u = ChangePriority(k, t, p)
      BY <1>2 DEF Restored
    <2> HIDE DEF u, p
    <2>2. /\ u \in KState /\ KInv(u) /\ u.current = k.current /\ u.stat = k.stat
          /\ u.remaining = k.remaining /\ u.error = k.error
          /\ u.priority = [k.priority EXCEPT ![t] = p]
          /\ \A s \in Threads : Same(k, u, s)
          /\ Thins(k, u) /\ (k.stat[t] /= "READY" => u.group = k.group)
      <3> DEFINE c == ChangePriority(k, t, p)
      <3>1. /\ c \in KState /\ KInv(c) /\ c.current = k.current /\ c.stat = k.stat
            /\ c.remaining = k.remaining /\ c.error = k.error
            /\ c.priority = [k.priority EXCEPT ![t] = p]
            /\ \A s \in Threads : Same(k, c, s)
            /\ Thins(k, c) /\ (k.stat[t] /= "READY" => c.group = k.group)
        BY ONLY t \in Threads, <1>1, PriorityChanged
      <3> HIDE DEF c
      <3>2. u = c
        BY <2>1 DEF c
      <3> QED BY <3>1, <3>2
    <2> QED BY <2>2 DEF u, p
  <1>3. CASE p = k.priority[t]
    <2>1. u = k
      BY <1>3 DEF Restored
    <2>4. k.priority = [k.priority EXCEPT ![t] = p]
      BY <1>1, <1>3 DEF KState
    <2> HIDE DEF u, p
    <2>2. \A s \in Threads : Same(k, u, s)
      BY <2>1 DEF Same
    <2>3. Thins(k, u)
      BY <2>1, ThinsSame
    <2> QED BY <1>1, <2>1, <2>2, <2>3, <2>4 DEF u, p
  <1> QED BY <1>2, <1>3

\* What the owner of a mutex, running its own code, has of it.
LEMMA OwnerHolds ==
  ASSUME IpcInv, NEW t \in Threads, Runs(t), NEW m \in Mutexes, mutex[m].owner = t
  PROVE  /\ held[t][m] = mutex[m].hold /\ mutex[m].hold > 0 /\ mutex[m].hold \in Nat
         /\ \A s \in Threads \ {t} : held[s][m] = 0 /\ ~Gets(k, s, call[s], m)
  <1>1. mutex[m].hold \in Nat /\ (\A s \in Threads : held[s][m] \in Nat) /\ mutex[m].hold > 0
    BY MutexType, ObjectFacts DEF IpcInv, MutexesOK, MutexOK
  <1>2. ~Gets(k, t, call[t], m)
    BY RunsGets
  <1>3. held[t][m] = mutex[m].hold
    BY <1>1, <1>2 DEF IpcInv, HeldOK, GotOK
  <1>4. ASSUME NEW s \in Threads \ {t} PROVE held[s][m] = 0 /\ ~Gets(k, s, call[s], m)
    <2>1. held[s][m] + (IF Gets(k, s, call[s], m) THEN 1 ELSE 0) = 0
      BY DEF IpcInv, HeldOK, GotOK
    <2> QED BY <1>1, <2>1
  <1> QED BY <1>1, <1>3, <1>4

\* A release that is not the last keeps the invariant.
LEMMA ReleasesOnceInv ==
  ASSUME IpcInv, NEW t \in Threads, Runs(t), NEW m \in Mutexes, mutex[m].owner = t,
         ReleasesOnce(t, m), Holds(t, m, -1), value' = value
  PROVE  IpcInv'
  <1> DEFINE r == [mutex[m] EXCEPT !.hold = @ - 1]
  <1>1. /\ mutex[m].hold > 1 /\ k' = k /\ pc' = pc /\ call' = call
        /\ mutex' = [mutex EXCEPT ![m].hold = @ - 1]
    BY DEF ReleasesOnce
  <1>2. TypeInv /\ t /= Null
    BY ObjectFacts DEF IpcInv
  <1>3. /\ held[t][m] = mutex[m].hold /\ mutex[m].hold \in Nat
        /\ \A s \in Threads \ {t} : held[s][m] = 0 /\ ~Gets(k, s, call[s], m)
        /\ ~Gets(k, t, call[t], m)
    BY OwnerHolds, RunsGets
  <1>4. /\ r \in MutexRecord /\ r.hold = mutex[m].hold - 1 /\ r.owner = t
        /\ r.value = mutex[m].value /\ r.original = mutex[m].original
    <2>1. mutex[m] \in MutexRecord /\ mutex[m].hold - 1 \in Nat
      BY <1>1, <1>2, <1>3 DEF TypeInv
    <2> QED BY <2>1 DEF MutexRecord
  <1>5. mutex' = [mutex EXCEPT ![m] = r]
    BY <1>1, <1>2 DEF TypeInv
  <1> HIDE DEF r
  <1>6. MutexOK(k', m, r)
    BY <1>1, <1>2, <1>4, MutexType DEF IpcInv, MutexesOK, MutexOK
  <1>7. /\ held' \in [Threads -> [Mutexes -> Nat]]
        /\ \A s \in Threads :
             held'[s][m] = IF s = t THEN held[s][m] + (-1) ELSE held[s][m]
        /\ \A s \in Threads, q \in Mutexes \ {m} : held'[s][q] = held[s][q]
    <2>1. held[t][m] + (-1) >= 0 /\ -1 \in Int
      BY <1>1, <1>3
    <2> QED BY <1>2, <2>1, HoldsWhat
  <1>8. GotOK(k', held', call', m, r)
    <2> SUFFICES ASSUME NEW s \in Threads
                 PROVE  held'[s][m] + (IF Gets(k', s, call'[s], m) THEN 1 ELSE 0)
                          = IF r.owner = s THEN r.hold ELSE 0
      BY DEF GotOK
    <2>1. ~Gets(k', s, call'[s], m)
      BY <1>1, <1>3
    <2> QED BY <1>3, <1>4, <1>7, <2>1
  <1>9. mutex' \in [Mutexes -> MutexRecord] /\ MutexesOK' /\ HeldOK'
    <2>1. \A q \in Mutexes \ {m} : WaitsAt(k, q) = {} => WaitsAt(k', q) = {}
      BY <1>1
    <2>2. \A s \in Threads, q \in Mutexes \ {m} :
            held'[s][q] = held[s][q] /\ (Gets(k', s, call'[s], q) <=> Gets(k, s, call[s], q))
      BY <1>1, <1>7
    <2>3. r \in MutexRecord
      BY <1>4
    <2> QED BY <1>5, <1>6, <1>8, <2>1, <2>2, <2>3, MutexStep
  <1>10. TypeInv' /\ SemsOK'
    BY <1>1, <1>7, <1>9 DEF IpcInv, TypeInv, SemsOK
  <1> QED BY <1>1, <1>9, <1>10, CallsOnly DEF IpcInv

\* A last release that finds nobody waiting keeps the invariant.
LEMMA SetsFreeInv ==
  ASSUME IpcInv, NEW t \in Threads, Runs(t), NEW m \in Mutexes, mutex[m].owner = t,
         SetsFree(t, m), Holds(t, m, -1), value' = value
  PROVE  IpcInv'
  <1>1. /\ mutex[m].hold = 1 /\ k.waiting[m] = <<>> /\ k' = Restored(t, m)
        /\ pc' = pc /\ call' = call /\ mutex' = [mutex EXCEPT ![m] = FreeMutex]
    BY DEF SetsFree
  <1>2. TypeInv /\ t /= Null /\ m \in Objects /\ k \in KState
    BY ObjectFacts DEF IpcInv, KernelInv
  <1>3. /\ held[t][m] = 1
        /\ \A s \in Threads \ {t} : held[s][m] = 0 /\ ~Gets(k, s, call[s], m)
        /\ ~Gets(k, t, call[t], m)
    BY <1>1, OwnerHolds, RunsGets
  <1>4. /\ k' \in KState /\ KInv(k') /\ k'.current = k.current /\ k'.stat = k.stat
        /\ k'.remaining = k.remaining /\ \A s \in Threads : Same(k, k', s)
    BY <1>1, RestoredWhat
  <1>5. KernelInv' /\ CurOK' /\ IdleOK'
    BY <1>1, <1>4 DEF IpcInv, KernelInv, SliceOK, CurOK, IdleOK
  <1>6. ThreadsOK'
    <2> SUFFICES ASSUME NEW s \in Threads PROVE ThreadOK(k', s, call[s], pc[s])
      BY <1>1 DEF ThreadsOK
    <2> QED BY <1>4, CallObjects, ThreadFrame
  <1>7. \A o \in Objects : WaitsAt(k, o) = {} => WaitsAt(k', o) = {}
    BY <1>2, <1>4, WaitsType DEF Same
  <1>8. \A s \in Threads, q \in Mutexes : Gets(k', s, call'[s], q) <=> Gets(k, s, call[s], q)
    BY <1>1, <1>4 DEF Gets, Same
  <1>9. /\ FreeMutex \in MutexRecord /\ FreeMutex.owner = Null /\ FreeMutex.hold = 0
        /\ FreeMutex.value = 1
    BY DEF FreeMutex, MutexRecord
  <1>10. MutexOK(k', m, FreeMutex)
    <2>1. WaitsAt(k', m) = {}
      BY <1>1, <1>2, <1>7, WaitsType
    <2> QED BY <1>2, <1>9, <2>1, MutexType DEF MutexOK
  <1>11. /\ held' \in [Threads -> [Mutexes -> Nat]]
         /\ \A s \in Threads :
              held'[s][m] = IF s = t THEN held[s][m] + (-1) ELSE held[s][m]
         /\ \A s \in Threads, q \in Mutexes \ {m} : held'[s][q] = held[s][q]
    <2>1. held[t][m] + (-1) >= 0 /\ -1 \in Int
      BY <1>3
    <2> QED BY <1>2, <2>1, HoldsWhat
  <1>12. GotOK(k', held', call', m, FreeMutex)
    <2> SUFFICES ASSUME NEW s \in Threads
                 PROVE  held'[s][m] + (IF Gets(k', s, call'[s], m) THEN 1 ELSE 0)
                          = IF FreeMutex.owner = s THEN FreeMutex.hold ELSE 0
      BY DEF GotOK
    <2>1. ~Gets(k', s, call'[s], m)
      BY <1>3, <1>8
    <2> QED BY <1>3, <1>9, <1>11, <2>1
  <1>13. mutex' \in [Mutexes -> MutexRecord] /\ MutexesOK' /\ HeldOK'
    <2>1. \A q \in Mutexes \ {m} : WaitsAt(k, q) = {} => WaitsAt(k', q) = {}
      BY <1>7, ObjectFacts
    <2>2. \A s \in Threads, q \in Mutexes \ {m} :
            held'[s][q] = held[s][q] /\ (Gets(k', s, call'[s], q) <=> Gets(k, s, call[s], q))
      BY <1>8, <1>11
    <2>3. FreeMutex \in MutexRecord
      BY <1>9
    <2> QED BY <1>1, <1>10, <1>12, <2>1, <2>2, <2>3, MutexStep
  <1>14. TypeInv' /\ SemsOK'
    BY <1>1, <1>7, <1>11, <1>13, ObjectFacts DEF IpcInv, TypeInv, SemsOK
  <1> QED BY <1>5, <1>6, <1>13, <1>14 DEF IpcInv

\* A last release that hands the mutex to the first waiting thread keeps the
\* invariant.
LEMMA HandsOverInv ==
  ASSUME IpcInv, NEW t \in Clients, Runs(t), NEW m \in Mutexes, mutex[m].owner = t,
         HandsOver(t, m), Holds(t, m, -1), value' = value
  PROVE  IpcInv'
  <1> DEFINE j == Restored(t, m)
             h == Head(j.waiting[m])
             r == [value |-> mutex[m].value, owner |-> h, hold |-> mutex[m].hold,
                   original |-> j.priority[h]]
  <1>1. /\ mutex[m].hold = 1 /\ k.waiting[m] # <<>> /\ k' = rt_ipc_list_resume(j, m)
        /\ Enters(t, "unlock", m)
        /\ mutex' = [mutex EXCEPT ![m].owner = h, ![m].original = j.priority[h]]
    BY DEF HandsOver
  <1>2. /\ TypeInv /\ t /= Null /\ m \in Objects /\ m \notin Sems /\ k \in KState
        /\ t \in Threads
    BY ObjectFacts DEF IpcInv, KernelInv, Clients
  <1>3. /\ held[t][m] = 1
        /\ \A s \in Threads \ {t} : held[s][m] = 0 /\ ~Gets(k, s, call[s], m)
        /\ k.stat[t] = "RUNNING" /\ call[t] = NoCall
        /\ \A q \in Mutexes : ~Gets(k, t, call[t], q)
        /\ \A o \in Objects : t \notin WaitsAt(k, o)
    BY <1>1, <1>2, OwnerHolds, RunsGets
  <1>4. /\ j \in KState /\ KInv(j) /\ j.current = k.current /\ j.stat = k.stat
        /\ j.remaining = k.remaining /\ j.error = k.error
        /\ \A s \in Threads : Same(k, j, s)
    BY <1>2, RestoredWhat
  <1> HIDE DEF j
  <1>5. WaitsAt(j, m) /= {}
    <2>1. WaitsAt(k, m) /= {} /\ WaitsAt(k, m) \subseteq Threads
      BY <1>1, <1>2, WaitsType
    <2> QED BY <1>2, <1>4, <2>1 DEF Same
  <1>6. /\ k' \in KState /\ KInv(k') /\ Kept(j, k') /\ k'.current = j.current
        /\ h \in Threads /\ h \in WaitsAt(j, m)
        /\ Woken(j, k', h) /\ \A s \in Threads \ {h} : Same(j, k', s)
    BY <1>1, <1>2, <1>4, <1>5, ListResumeWhat
  <1>7. mutex' = [mutex EXCEPT ![m] = r]
    <2> DEFINE x == mutex[m]
               p == j.priority[h]
               e == [x EXCEPT !.owner = h, !.original = p]
    <2>1. mutex' = [mutex EXCEPT ![m] = e]
      BY <1>1, <1>2 DEF TypeInv
    <2>2. x \in MutexRecord /\ p \in Priorities
      BY <1>2, <1>4, <1>6 DEF TypeInv, KState
    <2> HIDE DEF x, p, h
    <2>3. e = [value |-> x.value, owner |-> h, hold |-> x.hold, original |-> p]
      BY <1>6, <2>2, GivenRecord DEF h
    <2> QED BY <2>1, <2>3 DEF x, p
  <1> HIDE DEF h
  <1>8. h \in WaitsAt(k, m) /\ Woken(k, k', h) /\ k'.error = k.error
    BY <1>2, <1>4, <1>6 DEF Same, Woken, Kept
  <1>9. \A s \in Threads \ {h} : Same(k, k', s)
    BY <1>4, <1>6 DEF Same
  <1>10. t /= h
    BY <1>2, <1>3, <1>8
  <1>11. /\ r \in MutexRecord /\ r.hold = 1 /\ r.owner = h /\ r.value = 0
         /\ r.original \in Priorities
    <2>1. mutex[m] \in MutexRecord /\ mutex[m].value = 0
      BY <1>2 DEF IpcInv, TypeInv, MutexesOK, MutexOK
    <2>2. j.priority[h] \in Priorities
      BY <1>4, <1>6 DEF KState
    <2>3. r \in MutexRecord
      BY <1>6, <2>1, <2>2, GivenRecord
    <2>4. /\ r.owner = h /\ r.original = j.priority[h]
          /\ r.hold = mutex[m].hold /\ r.value = mutex[m].value
      OBVIOUS
    <2> HIDE DEF r
    <2> QED BY <1>1, <2>1, <2>2, <2>3, <2>4
  <1> HIDE DEF r
  <1>12. ThreadOK(k', t, [op |-> "unlock", on |-> m], "schedule")
    <2> DEFINE c == [op |-> "unlock", on |-> m]
    <2>1. c.op = "unlock" /\ c /= NoCall
      BY DEF NoCall
    <2>2. Same(k, k', t)
      BY <1>2, <1>9, <1>10
    <2> HIDE DEF c
    <2>3. ThreadOK(k', t, c, "schedule")
      BY <1>3, <2>1, <2>2 DEF ThreadOK, Same
    <2> QED BY <2>3 DEF c
  <1>13. /\ KernelInv' /\ ThreadsOK' /\ CurOK' /\ IdleOK'
         /\ pc' \in [Threads -> {"run", "schedule", "check"}]
         /\ call' \in [Threads -> [op : Ops, on : Objects \union {Null}]]
         /\ call'[t] = [op |-> "unlock", on |-> m]
         /\ \A s \in Threads \ {t} : call'[s] = call[s]
         /\ \A q \in Objects :
              WaitsAt(k, q) = {} /\ t \notin WaitsAt(k', q) => WaitsAt(k', q) = {}
         /\ \A s \in Threads \ {t}, q \in Mutexes :
              Same(k, k', s) => (Gets(k', s, call'[s], q) <=> Gets(k, s, call[s], q))
    <2>1. "unlock" \in Ops \ {"none"} /\ m \in Objects \union {Null}
      BY <1>2 DEF Ops
    <2>2. k'.current = k.current /\ k'.remaining = k.remaining
      BY <1>4, <1>6 DEF Kept
    <2>3. \A s \in Threads \ {t} : Same(k, k', s) \/ Woken(k, k', s)
      BY <1>8, <1>9
    <2> QED BY <1>1, <1>6, <1>12, <2>1, <2>2, <2>3, EntersStep
  <1>14. \A o \in Objects : WaitsAt(k, o) = {} => WaitsAt(k', o) = {}
    <2>1. Same(k, k', t)
      BY <1>2, <1>9, <1>10
    <2> QED BY <1>3, <1>13, <2>1 DEF Same
  <1>15. MutexOK(k', m, r)
    BY <1>2, <1>6, <1>11, MutexType, ObjectFacts DEF MutexOK
  <1>16. /\ held' \in [Threads -> [Mutexes -> Nat]]
         /\ \A s \in Threads :
              held'[s][m] = IF s = t THEN held[s][m] + (-1) ELSE held[s][m]
         /\ \A s \in Threads, q \in Mutexes \ {m} : held'[s][q] = held[s][q]
    <2>1. held[t][m] + (-1) >= 0 /\ -1 \in Int
      BY <1>3
    <2> QED BY <1>2, <2>1, HoldsWhat
  <1>17. \A q \in Mutexes : /\ ~Gets(k, h, call[h], q)
                            /\ Gets(k', h, call'[h], q) <=> q = m
    BY <1>2, <1>6, <1>8, <1>10, <1>13, WokenGets
  <1>18. \A q \in Mutexes : ~Gets(k', t, call'[t], q)
    <2>1. call'[t].op = "unlock"
      BY <1>13
    <2> QED BY <2>1 DEF Gets
  <1>19. \A s \in Threads, q \in Mutexes \ {m} :
           Gets(k', s, call'[s], q) <=> Gets(k, s, call[s], q)
    BY <1>3, <1>9, <1>13, <1>17, <1>18
  <1>20. GotOK(k', held', call', m, r)
    <2> SUFFICES ASSUME NEW s \in Threads
                 PROVE  held'[s][m] + (IF Gets(k', s, call'[s], m) THEN 1 ELSE 0)
                          = IF r.owner = s THEN r.hold ELSE 0
      BY DEF GotOK
    <2>1. CASE s = t
      BY <1>3, <1>10, <1>11, <1>16, <1>18, <2>1
    <2>2. CASE s = h
      BY <1>3, <1>10, <1>11, <1>16, <1>17, <2>2
    <2>3. CASE s /= t /\ s /= h
      <3>1. ~Gets(k', s, call'[s], m)
        BY <1>3, <1>9, <1>13, <2>3
      <3> QED BY <1>3, <1>11, <1>16, <2>3, <3>1
    <2> QED BY <2>1, <2>2, <2>3
  <1>21. mutex' \in [Mutexes -> MutexRecord] /\ MutexesOK' /\ HeldOK'
    <2>1. \A q \in Mutexes \ {m} : WaitsAt(k, q) = {} => WaitsAt(k', q) = {}
      BY <1>14, ObjectFacts
    <2>2. \A s \in Threads, q \in Mutexes \ {m} :
            held'[s][q] = held[s][q] /\ (Gets(k', s, call'[s], q) <=> Gets(k, s, call[s], q))
      BY <1>16, <1>19
    <2>3. r \in MutexRecord
      BY <1>11
    <2> QED BY <1>7, <1>15, <1>20, <2>1, <2>2, <2>3, MutexStep
  <1>22. TypeInv' /\ SemsOK'
    BY <1>13, <1>14, <1>16, <1>21, ObjectFacts DEF IpcInv, TypeInv, SemsOK
  <1> QED BY <1>13, <1>21, <1>22 DEF IpcInv

\* rt_mutex_release keeps the invariant.
LEMMA MutexReleaseInv ==
  ASSUME IpcInv, NEW t \in Clients, NEW m \in Mutexes, MutexRelease(t, m)
  PROVE  IpcInv'
  <1>1. Runs(t) /\ value' = value /\ t \in Threads
    BY DEF MutexRelease, Clients
  <1>2. CASE NotOwner(t, m)
    <2>1. k' = [k EXCEPT !.error[t] = "ERROR"] /\ UNCHANGED <<value, mutex, pc, call, held>>
      BY <1>1, <1>2 DEF NotOwner
    <2> QED BY <1>1, <2>1, ErrorInv DEF Errors
  <1>3. CASE mutex[m].owner = t /\ ReleasesOnce(t, m) /\ Holds(t, m, -1)
    BY <1>1, <1>3, ReleasesOnceInv
  <1>4. CASE mutex[m].owner = t /\ HandsOver(t, m) /\ Holds(t, m, -1)
    BY <1>1, <1>4, HandsOverInv
  <1>5. CASE mutex[m].owner = t /\ SetsFree(t, m) /\ Holds(t, m, -1)
    BY <1>1, <1>5, SetsFreeInv
  <1> QED BY <1>2, <1>3, <1>4, <1>5 DEF MutexRelease
-----------------------------------------------------------------------------
\* The objects and times of the calls.
LEMMA CallTypes ==
  ASSUME NEW c \in AllCalls
  PROVE  /\ c[1] = "take" => c[2] \in Sems /\ c[3] \in Int
         /\ c[1] = "release" => c[2] \in Sems
         /\ c[1] = "lock" => c[2] \in Mutexes /\ c[3] \in Int
         /\ c[1] \in {"unlock", "unlock another's"} => c[2] \in Mutexes
         /\ c[1] = "sleep" => c[3] \in Nat
  <1>1. WaitTimes \subseteq Nat /\ WaitTimes \union {0, FOREVER} \subseteq Int
    BY KernelIpcAssumption DEF FOREVER
  <1>2. CASE c \in {"take"} \X Sems \X (WaitTimes \union {FOREVER})
    BY <1>1, <1>2
  <1>3. CASE c \in {"release"} \X Sems \X {0}
    BY <1>3
  <1>4. CASE c \in {"lock"} \X Mutexes \X (WaitTimes \union {0, FOREVER})
    BY <1>1, <1>4
  <1>5. CASE c \in {"unlock", "unlock another's"} \X Mutexes \X {0}
    BY <1>5
  <1>6. CASE c \in {"sleep"} \X {Null} \X WaitTimes
    BY <1>1, <1>6
  <1>7. CASE c \in {"yield"} \X {Null} \X {0}
    BY <1>7
  <1> QED BY <1>2, <1>3, <1>4, <1>5, <1>6, <1>7 DEF AllCalls, SemCalls, MutexCalls, OtherCalls

\* Every call keeps the invariant.
LEMMA CallsInv ==
  ASSUME IpcInv, NEW t \in Clients, Calls(t, AllCalls)
  PROVE  IpcInv'
  <1>1. PICK c \in AllCalls :
          \/ c[1] = "take" /\ SemTake(t, c[2], c[3])
          \/ c[1] = "release" /\ SemRelease(t, c[2])
          \/ c[1] = "lock" /\ MutexTake(t, c[2], c[3])
          \/ c[1] = "unlock" /\ mutex[c[2]].owner = t /\ MutexRelease(t, c[2])
          \/ c[1] = "unlock another's" /\ mutex[c[2]].owner # t /\ MutexRelease(t, c[2])
          \/ c[1] = "sleep" /\ rt_thread_sleep(t, c[3])
          \/ c[1] = "yield" /\ rt_thread_yield(t)
    BY DEF Calls
  <1>2. CASE c[1] = "take" /\ SemTake(t, c[2], c[3])
    BY <1>2, CallTypes, SemTakeInv
  <1>3. CASE c[1] = "release" /\ SemRelease(t, c[2])
    BY <1>3, CallTypes, SemReleaseInv
  <1>4. CASE c[1] = "lock" /\ MutexTake(t, c[2], c[3])
    BY <1>4, CallTypes, MutexTakeInv
  <1>5. CASE c[1] \in {"unlock", "unlock another's"} /\ MutexRelease(t, c[2])
    BY <1>5, CallTypes, MutexReleaseInv
  <1>6. CASE c[1] = "sleep" /\ rt_thread_sleep(t, c[3])
    BY <1>6, CallTypes, SleepInv
  <1>7. CASE rt_thread_yield(t)
    BY <1>7, YieldInv
  <1> QED BY <1>1, <1>2, <1>3, <1>4, <1>5, <1>6, <1>7

\* Every step keeps the invariant.
LEMMA NextInv ==
  ASSUME IpcInv, [Next]_vars
  PROVE  IpcInv'
  <1>1. ASSUME NEW t \in Clients, Calls(t, AllCalls) PROVE IpcInv'
    BY <1>1, CallsInv
  <1>2. ASSUME NEW t \in Clients, GoesOn(t) PROVE IpcInv'
    BY <1>2, ScheduleInv, ReturnInv DEF GoesOn
  <1>3. CASE Tick
    BY <1>3, TickInv
  <1>4. ASSUME NEW s \in Sems, IsrRelease(s) PROVE IpcInv'
    BY <1>4, IsrReleaseInv
  <1>5. CASE UNCHANGED vars
    <2>1. TypeInv' /\ SemsOK' /\ MutexesOK' /\ HeldOK'
      BY <1>5 DEF vars, IpcInv, TypeInv, SemsOK, MutexesOK, HeldOK
    <2> QED BY <1>5, <2>1, CallsOnly DEF vars, IpcInv
  <1> QED BY <1>1, <1>2, <1>3, <1>4, <1>5 DEF Next, Interrupt

\* The invariant holds when the scheduler starts.
LEMMA InitInv ==
  ASSUME Init
  PROVE  IpcInv
  <1>1. PICK order \in SetToSeqs(Threads) : k = Started(order)
    BY DEF Init
  <1>2. /\ k \in KState /\ KInv(k) /\ k.current \in Threads /\ SliceOK(k)
        /\ \A t \in Threads : /\ k.stat[t] \notin {"INIT", "SUSPEND"}
                              /\ k.error[t] = "EOK" /\ t \notin Timed(k)
                              /\ \A o \in Objects : t \notin WaitsAt(k, o)
    BY <1>1, StartedWhat
  <1>3. /\ value = [s \in Sems |-> 0] /\ mutex = [m \in Mutexes |-> FreeMutex]
        /\ pc = [t \in Threads |-> "run"] /\ call = [t \in Threads |-> NoCall]
        /\ held = [t \in Threads |-> [m \in Mutexes |-> 0]]
    BY DEF Init
  <1>4. FreeMutex \in MutexRecord /\ MaxValue \in Nat
    BY KernelIpcAssumption DEF FreeMutex, MutexRecord
  <1>5. TypeInv /\ IdleOK
    BY <1>3, <1>4, ObjectFacts DEF TypeInv, IdleOK, NoCall, Ops
  <1>6. ThreadsOK
    BY <1>2, <1>3 DEF ThreadsOK, ThreadOK, NoCall, Waiters
  <1>7. CurOK /\ KernelInv
    BY <1>2 DEF CurOK, KernelInv
  <1>8. \A o \in Objects : WaitsAt(k, o) = {}
    BY <1>2, WaitsType
  <1>9. SemsOK
    BY <1>8, ObjectFacts DEF SemsOK
  <1>10. MutexesOK
    <2>1. FreeMutex.owner = Null /\ FreeMutex.hold = 0 /\ FreeMutex.value = 1
      BY DEF FreeMutex
    <2> QED BY <1>3, <1>5, <1>8, <2>1, MutexType, ObjectFacts DEF MutexesOK, MutexOK
  <1>11. HeldOK
    <2> SUFFICES ASSUME NEW m \in Mutexes, NEW t \in Threads
                 PROVE  held[t][m] + (IF Gets(k, t, call[t], m) THEN 1 ELSE 0)
                          = IF mutex[m].owner = t THEN mutex[m].hold ELSE 0
      BY DEF HeldOK, GotOK
    <2>1. held[t][m] = 0 /\ mutex[m].owner /= t
      BY <1>3, ObjectFacts DEF FreeMutex
    <2>2. ~Gets(k, t, call[t], m)
      BY <1>3 DEF Gets, NoCall
    <2> QED BY <2>1, <2>2
  <1> QED BY <1>5, <1>6, <1>7, <1>9, <1>10, <1>11 DEF IpcInv

\* The invariant holds always.
LEMMA AlwaysIpcInv == Spec => []IpcInv
  <1>1. Init => IpcInv
    BY InitInv
  <1>2. IpcInv /\ [Next]_vars => IpcInv'
    BY NextInv
  <1> QED BY <1>1, <1>2, PTL DEF Spec
-----------------------------------------------------------------------------
\* Contains is membership in the elements of a list.
LEMMA ContainsWhat ==
  ASSUME NEW s, NEW e
  PROVE  Contains(s, e) <=> e \in Elems(s)
  BY DEF Contains, Elems

\* A list that has nothing twice is injective.
LEMMA InjectiveWhat ==
  ASSUME NEW S, NEW s \in Seq(S), Distinct(s)
  PROVE  IsInjective(s)
  <1>1. DOMAIN s = 1 .. Len(s)
    OBVIOUS
  <1> QED BY <1>1 DEF IsInjective, Distinct

\* The threads with a timer.
LEMMA HasTimerWhat ==
  ASSUME k \in KState, NEW t \in Threads
  PROVE  HasTimer(t) <=> t \in Timed(k)
  <1>1. k.timers \in Seq(Timer)
    BY DEF KState
  <1>2. DOMAIN k.timers = 1 .. Len(k.timers)
    BY <1>1
  <1>3. /\ Len(Owners(k.timers)) = Len(k.timers)
        /\ \A i \in 1 .. Len(k.timers) : Owners(k.timers)[i] = k.timers[i].thread
    BY <1>1, OwnersType
  <1> QED BY <1>2, <1>3 DEF HasTimer, Timed, Elems

\* What the property's sets of lists are in the words of the invariant.
LEMMA InWhat ==
  ASSUME NEW t
  PROVE  /\ ReadyIn(t) = {p \in Priorities : t \in ReadyAt(k, p)}
         /\ WaitsIn(t) = {o \in Objects : t \in WaitsAt(k, o)}
  BY ContainsWhat DEF ReadyIn, WaitsIn, ReadyAt, WaitsAt

\* The invariant implies TypeOK.
LEMMA InvType == IpcInv => TypeOK
  <1> SUFFICES ASSUME IpcInv PROVE TypeOK
    OBVIOUS
  <1>1. k \in KState /\ k.current \in Threads /\ SliceOK(k) /\ TypeInv
    BY DEF IpcInv, KernelInv
  <1>2. DOMAIN k = {"tick", "current", "group", "yield", "timers", "stat",
                    "priority", "error", "remaining", "ready", "waiting"}
    BY <1>1 DEF KState
  <1>3. /\ k.tick \in 0 .. TickRange - 1 /\ k.group \subseteq Priorities
        /\ k.yield \subseteq Threads /\ k.priority \in [Threads -> Priorities]
        /\ k.error \in [Threads -> {"EOK", "ETIMEOUT", "ERROR"}]
        /\ \A p \in Priorities : k.ready[p] \in Seq(Threads)
        /\ \A o \in Objects : k.waiting[o] \in Seq(Threads)
        /\ k.timers \in Seq([thread : Threads, timeout : 0 .. TickRange - 1])
    BY <1>1 DEF KState, Timer
  <1>4. k.stat \in [Threads -> {"READY", "RUNNING", "SUSPEND"}]
    <2>1. k.stat \in [Threads -> {"INIT", "READY", "RUNNING", "SUSPEND"}]
      BY <1>1 DEF KState
    <2>2. \A t \in Threads : k.stat[t] /= "INIT"
      BY DEF IpcInv, ThreadsOK, ThreadOK
    <2> QED BY <2>1, <2>2
  <1>5. ASSUME NEW m \in Mutexes
        PROVE  /\ mutex[m] \in [value : {0, 1}, owner : Threads \union {Null},
                                hold : 0 .. MaxHold[m], original : Priorities \union {255}]
               /\ \A t \in Threads : held[t][m] \in 0 .. MaxHold[m]
    <2>1. mutex[m] \in MutexRecord /\ mutex[m].hold <= MaxHold[m] /\ mutex[m].hold \in Nat
          /\ MaxHold[m] \in Nat
      BY <1>1, MutexType DEF IpcInv, TypeInv, MutexesOK, MutexOK
    <2>2. mutex[m].hold \in 0 .. MaxHold[m]
      BY <2>1
    <2>3. mutex[m] \in [value : {0, 1}, owner : Threads \union {Null},
                        hold : 0 .. MaxHold[m], original : Priorities \union {255}]
      BY <2>1, <2>2 DEF MutexRecord
    <2>4. ASSUME NEW t \in Threads PROVE held[t][m] \in 0 .. MaxHold[m]
      <3>1. held[t][m] + (IF Gets(k, t, call[t], m) THEN 1 ELSE 0)
              = IF mutex[m].owner = t THEN mutex[m].hold ELSE 0
        BY DEF IpcInv, HeldOK, GotOK
      <3>2. held[t][m] \in Nat
        BY <1>1, MutexType
      <3> QED BY <2>1, <3>1, <3>2
    <2> QED BY <2>3, <2>4
  <1> QED BY <1>1, <1>2, <1>3, <1>4, <1>5 DEF TypeOK, SliceOK, TypeInv

\* The invariant implies QueuesAgree.
LEMMA InvQueues == IpcInv => QueuesAgree
  <1> SUFFICES ASSUME IpcInv PROVE QueuesAgree
    OBVIOUS
  <1>1. k \in KState /\ KInv(k)
    BY DEF IpcInv, KernelInv
  <1>2. /\ \A p \in Priorities : k.ready[p] \in Seq(Threads) /\ Distinct(k.ready[p])
        /\ \A o \in Objects : k.waiting[o] \in Seq(Threads) /\ Distinct(k.waiting[o])
        /\ k.priority \in [Threads -> Priorities]
    BY <1>1 DEF KState, KInv, ListsOK
  <1>3. ASSUME NEW t \in Threads
        PROVE  /\ ReadyIn(t) = IF k.stat[t] = "READY" THEN {k.priority[t]} ELSE {}
               /\ WaitsIn(t) # {} => k.stat[t] = "SUSPEND"
               /\ WaitsIn(t) \subseteq {call[t].on}
               /\ k.stat[t] = "RUNNING" => k.current = t
    <2>1. \A p \in Priorities : t \in ReadyAt(k, p) <=> k.stat[t] = "READY" /\ k.priority[t] = p
      BY <1>1 DEF KInv, StatesOK, ReadyOK
    <2>2. k.priority[t] \in Priorities
      BY <1>2
    <2>3. ReadyIn(t) = IF k.stat[t] = "READY" THEN {k.priority[t]} ELSE {}
      BY <2>1, <2>2, InWhat
    <2>4. \A o \in WaitsIn(t) : k.stat[t] = "SUSPEND" /\ call[t] = CallOf(o)
      BY <1>1, InWhat DEF IpcInv, ThreadsOK, ThreadOK, KInv, StatesOK, WaitingOK
    <2>5. WaitsIn(t) \subseteq {call[t].on}
      <3>1. \A o \in Objects : CallOf(o).on = o
        BY DEF CallOf
      <3>2. WaitsIn(t) \subseteq Objects
        BY DEF WaitsIn
      <3> QED BY <2>4, <3>1, <3>2
    <2>6. k.stat[t] = "RUNNING" => k.current = t
      BY <1>1 DEF KInv, StatesOK, CurrentOK
    <2> QED BY <2>3, <2>4, <2>5, <2>6
  <1>4. /\ \A p \in Priorities : IsInjective(k.ready[p])
        /\ \A o \in Objects : IsInjective(k.waiting[o])
    BY <1>2, InjectiveWhat
  <1>5. k.group = {p \in Priorities : k.ready[p] # <<>>}
    <2>1. k.group = {p \in Priorities : ReadyAt(k, p) /= {}}
      BY <1>1 DEF KInv, GroupOK
    <2>2. \A p \in Priorities : ReadyAt(k, p) /= {} <=> k.ready[p] /= <<>>
      BY <1>2, NoElems DEF ReadyAt
    <2> QED BY <2>1, <2>2
  <1> QED BY <1>3, <1>4, <1>5 DEF QueuesAgree

\* The invariant implies Wakeable.
LEMMA InvWakeable == IpcInv => Wakeable
  <1> SUFFICES ASSUME IpcInv, NEW t \in Threads
               PROVE  IF k.stat[t] = "SUSPEND"
                      THEN WaitsIn(t) # {} \/ HasTimer(t)
                      ELSE ~HasTimer(t)
    BY DEF Wakeable
  <1>1. k \in KState /\ KInv(k)
    BY DEF IpcInv, KernelInv
  <1>2. HasTimer(t) <=> t \in Timed(k)
    BY <1>1, HasTimerWhat
  <1>3. CASE k.stat[t] = "SUSPEND"
    <2>1. ThreadOK(k, t, call[t], pc[t])
          /\ (call[t].op /= "take" \/ call[t].on \in Objects)
          /\ (call[t].op /= "lock" \/ call[t].on \in Objects)
      BY CallObjects
    <2>2. call[t].op = "sleep" \/ (call[t].on \in Objects /\ t \in WaitsAt(k, call[t].on))
      BY <1>3, <2>1 DEF ThreadOK, Waiters
    <2>3. CASE call[t].op = "sleep"
      BY <1>2, <1>3, <2>1, <2>3 DEF ThreadOK
    <2>4. CASE call[t].on \in Objects /\ t \in WaitsAt(k, call[t].on)
      BY <2>4, <1>3, InWhat
    <2> QED BY <2>2, <2>3, <2>4
  <1>4. CASE k.stat[t] /= "SUSPEND"
    BY <1>1, <1>2, <1>4 DEF KInv, StatesOK, WaitingOK
  <1> QED BY <1>3, <1>4

\* The invariant implies MutualExclusion.
LEMMA InvExclusion == IpcInv => MutualExclusion
  <1> SUFFICES ASSUME IpcInv, NEW m \in Mutexes, NEW t \in Threads
               PROVE  held[t][m] + Coming(t, m) = IF mutex[m].owner = t THEN mutex[m].hold ELSE 0
    BY DEF MutualExclusion
  <1>1. WaitsIn(t) = {} <=> \A o \in Objects : t \notin WaitsAt(k, o)
    BY InWhat
  <1>2. Coming(t, m) = IF Gets(k, t, call[t], m) THEN 1 ELSE 0
    BY <1>1 DEF Coming, Gets
  <1> QED BY <1>2 DEF IpcInv, HeldOK, GotOK

\* The invariant implies NobodyWaitsInVain.
LEMMA InvVain == IpcInv => NobodyWaitsInVain
  <1> SUFFICES ASSUME IpcInv PROVE NobodyWaitsInVain
    OBVIOUS
  <1>1. k \in KState /\ TypeInv
    BY DEF IpcInv, KernelInv
  <1>2. \A o \in Objects : k.waiting[o] = <<>> <=> WaitsAt(k, o) = {}
    BY <1>1, WaitsType
  <1>3. \A s \in Sems : value[s] > 0 => k.waiting[s] = <<>>
    BY <1>2, ObjectFacts DEF IpcInv, SemsOK
  <1>4. ASSUME NEW m \in Mutexes
        PROVE  /\ mutex[m].owner = Null => k.waiting[m] = <<>>
               /\ mutex[m].owner = Null <=> mutex[m].hold = 0
               /\ mutex[m].owner = Null <=> mutex[m].value = 1
    BY <1>1, <1>2, MutexType, ObjectFacts DEF IpcInv, MutexesOK, MutexOK
  <1> QED BY <1>3, <1>4 DEF NobodyWaitsInVain
-----------------------------------------------------------------------------
(***************************************************************************)
(* A semaphore is what CountingSem promises.                               *)
(***************************************************************************)
TakeOf(s) == [op |-> "take", on |-> s]

\* Granted and Expired, with c the calls of the threads.
GrantedIn(j, c, s) ==
  {t \in Threads : /\ c[t] = TakeOf(s) /\ j.error[t] = "EOK"
                   /\ \A o \in Objects : t \notin WaitsAt(j, o)}
ExpiredIn(j, c, s) == {t \in Threads : c[t] = TakeOf(s) /\ j.error[t] # "EOK"}

SemStep == \A s \in FifoSems : Promise(s)!AbsStep

\* What CountingSem's variables are in the words of the invariant.
LEMMA SemWords ==
  ASSUME NEW s
  PROVE  /\ Granted(s) = GrantedIn(k, call, s) /\ Expired(s) = ExpiredIn(k, call, s)
         /\ Granted(s)' = GrantedIn(k', call', s) /\ Expired(s)' = ExpiredIn(k', call', s)
  <1>1. Granted(s) = GrantedIn(k, call, s) /\ Expired(s) = ExpiredIn(k, call, s)
    BY InWhat DEF Granted, GrantedIn, Expired, ExpiredIn, Taking, TakeOf
  <1>2. \A t : WaitsIn(t)' = {o \in Objects : t \in WaitsAt(k', o)}
    BY ContainsWhat DEF WaitsIn, WaitsAt
  <1>3. Granted(s)' = GrantedIn(k', call', s)
    BY <1>2 DEF Granted, GrantedIn, Taking, TakeOf
  <1>4. Expired(s)' = ExpiredIn(k', call', s)
    BY DEF Expired, ExpiredIn, Taking, TakeOf
  <1> QED BY <1>1, <1>3, <1>4

\* The steps that CountingSem allows, in those words.
LEMMA SemSteps ==
  ASSUME NEW s, k.waiting[s] \in Seq(Threads), k'.waiting[s] \in Seq(Threads),
         LET q == k.waiting[s]
             g == GrantedIn(k, call, s)
             e == ExpiredIn(k, call, s)
             SameValue == value'[s] = value[s]
             SameQueue == k'.waiting[s] = q
             SameGranted == GrantedIn(k', call', s) = g
             SameExpired == ExpiredIn(k', call', s) = e
         IN \/ SameValue /\ SameQueue /\ SameGranted /\ SameExpired
            \/ /\ value[s] > 0 /\ value'[s] = value[s] - 1
               /\ SameQueue /\ SameGranted /\ SameExpired
            \/ \E t \in Threads \ (Elems(q) \union g \union e) :
                 /\ value[s] = 0 /\ k'.waiting[s] = Append(q, t)
                 /\ SameValue /\ SameGranted /\ SameExpired
            \/ /\ q = <<>> /\ value'[s] = value[s] + 1
               /\ SameQueue /\ SameGranted /\ SameExpired
            \/ /\ q /= <<>> /\ GrantedIn(k', call', s) = g \union {Head(q)}
               /\ k'.waiting[s] = Tail(q) /\ SameValue /\ SameExpired
            \/ \E late \in SUBSET Elems(q) :
                 /\ late /= {} /\ Elems(k'.waiting[s]) = Elems(q) \ late
                 /\ InOrder(q, k'.waiting[s])
                 /\ ExpiredIn(k', call', s) = e \union late
                 /\ SameValue /\ SameGranted
            \/ \E t \in g : /\ GrantedIn(k', call', s) = g \ {t}
                            /\ SameValue /\ SameQueue /\ SameExpired
            \/ \E t \in e : /\ ExpiredIn(k', call', s) = e \ {t}
                            /\ SameValue /\ SameQueue /\ SameGranted
  PROVE  Promise(s)!AbsStep
  <1> DEFINE q == k.waiting[s]
             g == GrantedIn(k, call, s)
             e == ExpiredIn(k, call, s)
             r == k'.waiting[s]
             h == GrantedIn(k', call', s)
             f == ExpiredIn(k', call', s)
  <1>1. /\ Granted(s) = g /\ Expired(s) = e /\ Granted(s)' = h /\ Expired(s)' = f
    BY SemWords
  <1>3. CASE value'[s] = value[s] /\ r = q /\ h = g /\ f = e
    BY <1>1, <1>3 DEF Promise!AbsStep, Promise!absVars
  <1>4. CASE value[s] > 0 /\ value'[s] = value[s] - 1 /\ r = q /\ h = g /\ f = e
    BY <1>1, <1>4 DEF Promise!AbsStep, Promise!AbsNext, Promise!Take
  <1>5. CASE \E t \in Threads \ (Elems(q) \union g \union e) :
               /\ value[s] = 0 /\ r = Append(q, t)
               /\ value'[s] = value[s] /\ h = g /\ f = e
    <2>1. PICK t \in Threads \ (Elems(q) \union g \union e) :
               /\ value[s] = 0 /\ r = Append(q, t)
               /\ value'[s] = value[s] /\ h = g /\ f = e
      BY <1>5
    <2>2. Promise(s)!Wait(t)
      <3>1. {q[i] : i \in 1 .. Len(q)} = Elems(q)
        BY DEF Elems
      <3>2. t \notin {q[i] : i \in 1 .. Len(q)} \union g \union e
        BY <2>1, <3>1
      <3> HIDE DEF q, g, e, r, h, f
      <3>3. t \notin {q[i] : i \in 1 .. Len(q)} \union Granted(s) \union Expired(s)
        BY <1>1, <3>2
      <3> QED BY <1>1, <2>1, <3>3 DEF Promise!Wait, Promise!Waiting, q, r
    <2> QED BY <2>2 DEF Promise!AbsStep, Promise!AbsNext
  <1>6. CASE q = <<>> /\ value'[s] = value[s] + 1 /\ r = q /\ h = g /\ f = e
    BY <1>1, <1>6 DEF Promise!AbsStep, Promise!AbsNext, Promise!Release
  <1>7. CASE q /= <<>> /\ h = g \union {Head(q)} /\ r = Tail(q) /\ value'[s] = value[s] /\ f = e
    BY <1>1, <1>7 DEF Promise!AbsStep, Promise!AbsNext, Promise!Release
  <1>8. CASE \E late \in SUBSET Elems(q) :
               /\ late /= {} /\ Elems(r) = Elems(q) \ late /\ InOrder(q, r)
               /\ f = e \union late /\ value'[s] = value[s] /\ h = g
    <2>1. PICK late \in SUBSET Elems(q) :
               /\ late /= {} /\ Elems(r) = Elems(q) \ late /\ InOrder(q, r)
               /\ f = e \union late /\ value'[s] = value[s] /\ h = g
      BY <1>8
    <2>2. {q[i] : i \in 1 .. Len(q)} = Elems(q) /\ {r[i] : i \in 1 .. Len(r)} = Elems(r)
      BY DEF Elems
    <2> HIDE DEF q, g, e, r, h, f
    <2>3. {r[i] : i \in 1 .. Len(r)} = {q[i] : i \in 1 .. Len(q)} \ late
      BY <2>1, <2>2
    <2>4. Promise(s)!Expire(late)
      <3>1. Promise(s)!Waiting' = Promise(s)!Waiting \ late
        BY <2>3 DEF Promise!Waiting, q, r
      <3>2. Promise(s)!InOrder(k.waiting[s], k'.waiting[s])
        BY <2>1 DEF Promise!InOrder, InOrder, q, r
      <3>3. /\ Expired(s)' = Expired(s) \union late /\ Granted(s)' = Granted(s)
            /\ late /= {} /\ value'[s] = value[s]
        BY <1>1, <2>1
      <3> QED BY <3>1, <3>2, <3>3 DEF Promise!Expire
    <2>5. late \in SUBSET Promise(s)!Waiting
      BY <2>1, <2>2 DEF Promise!Waiting, q
    <2> QED BY <2>4, <2>5 DEF Promise!AbsStep, Promise!AbsNext
  <1>9. CASE \E t \in g : h = g \ {t} /\ value'[s] = value[s] /\ r = q /\ f = e
    BY <1>1, <1>9 DEF Promise!AbsStep, Promise!AbsNext, Promise!ReturnWithToken
  <1>10. CASE \E t \in e : f = e \ {t} /\ value'[s] = value[s] /\ r = q /\ h = g
    BY <1>1, <1>10 DEF Promise!AbsStep, Promise!AbsNext, Promise!ReturnWithout
  <1> QED BY <1>3, <1>4, <1>5, <1>6, <1>7, <1>8, <1>9, <1>10

\* A thread that waits for a semaphore is in a take of it, and one that is
\* suspended in a take waits for its semaphore.
LEMMA Takers ==
  ASSUME IpcInv, NEW s \in Sems, NEW t \in Threads
  PROVE  /\ t \in WaitsAt(k, s) => call[t] = TakeOf(s) /\ k.error[t] = "EOK"
         /\ call[t] = TakeOf(s) /\ k.stat[t] = "SUSPEND" => t \in WaitsAt(k, s)
         /\ s \in Objects /\ k.waiting[s] \in Seq(Threads) /\ WaitsAt(k, s) \subseteq Threads
  <1>1. ThreadOK(k, t, call[t], pc[t]) /\ s \in Objects
    BY ObjectFacts DEF IpcInv, ThreadsOK
  <1>2. CallOf(s) = TakeOf(s)
    BY DEF CallOf, TakeOf
  <1>3. TakeOf(s).op = "take" /\ TakeOf(s).on = s
    BY DEF TakeOf
  <1>4. k.waiting[s] \in Seq(Threads) /\ WaitsAt(k, s) \subseteq Threads
    BY <1>1, WaitsType DEF IpcInv, KernelInv, KState
  <1> QED BY <1>1, <1>2, <1>3, <1>4 DEF ThreadOK

LEMMA TakersAfter ==
  ASSUME IpcInv', NEW s \in Sems, NEW t \in Threads
  PROVE  /\ t \in WaitsAt(k', s) => call'[t] = TakeOf(s) /\ k'.error[t] = "EOK"
         /\ k'.waiting[s] \in Seq(Threads) /\ WaitsAt(k', s) \subseteq Threads
  <1>1. ThreadOK(k', t, call'[t], pc'[t]) /\ s \in Objects
    BY ObjectFacts DEF IpcInv, ThreadsOK
  <1>2. CallOf(s) = TakeOf(s)
    BY DEF CallOf, TakeOf
  <1>3. k'.waiting[s] \in Seq(Threads) /\ WaitsAt(k', s) \subseteq Threads
    BY <1>1, WaitsType DEF IpcInv, KernelInv, KState
  <1> QED BY <1>1, <1>2, <1>3 DEF ThreadOK

\* The threads that are in a take of s stay in it, and no other enters one.
TakersKept(s) == \A t \in Threads : call'[t] = TakeOf(s) <=> call[t] = TakeOf(s)

\* A step that does nothing to those in a take of s is none of s.
LEMMA Quiet ==
  ASSUME IpcInv, IpcInv', NEW s \in Sems, TakersKept(s),
         InOrder(k.waiting[s], k'.waiting[s]),
         \A t \in Threads : call[t] = TakeOf(s) => Same(k, k', t)
  PROVE  /\ k'.waiting[s] = k.waiting[s]
         /\ GrantedIn(k', call', s) = GrantedIn(k, call, s)
         /\ ExpiredIn(k', call', s) = ExpiredIn(k, call, s)
         /\ value'[s] = value[s] => Promise(s)!AbsStep
  <1>1. /\ s \in Objects /\ WaitsAt(k, s) \subseteq Threads /\ WaitsAt(k', s) \subseteq Threads
        /\ k.waiting[s] \in Seq(Threads) /\ k'.waiting[s] \in Seq(Threads)
    BY Takers, TakersAfter, ObjectFacts
  <1>2. WaitsAt(k, s) = WaitsAt(k', s)
    <2> SUFFICES ASSUME NEW t \in Threads PROVE t \in WaitsAt(k, s) <=> t \in WaitsAt(k', s)
      BY <1>1
    <2>1. t \in WaitsAt(k, s) \/ t \in WaitsAt(k', s) => call[t] = TakeOf(s)
      BY Takers, TakersAfter DEF TakersKept
    <2> QED BY <1>1, <2>1 DEF Same
  <1>3. k'.waiting[s] = k.waiting[s]
    BY <1>1, <1>2, QueueSame DEF IpcInv, KernelInv
  <1>4. /\ GrantedIn(k', call', s) = GrantedIn(k, call, s)
        /\ ExpiredIn(k', call', s) = ExpiredIn(k, call, s)
    BY DEF GrantedIn, ExpiredIn, TakersKept, Same
  <1> QED BY <1>1, <1>3, <1>4, SemSteps

\* A step that is none of any semaphore.
LEMMA QuietAll ==
  ASSUME IpcInv, IpcInv', value' = value,
         \A s \in Sems : TakersKept(s) /\ InOrder(k.waiting[s], k'.waiting[s]),
         \A t \in Threads : call[t].op = "take" => Same(k, k', t)
  PROVE  SemStep
  <1> SUFFICES ASSUME NEW s \in FifoSems PROVE Promise(s)!AbsStep
    BY DEF SemStep
  <1>1. s \in Sems
    BY DEF FifoSems
  <1>2. \A t \in Threads : call[t] = TakeOf(s) => Same(k, k', t)
    BY DEF TakeOf
  <1> QED BY <1>1, <1>2, Quiet

\* The time of some threads runs out.
LEMMA TickSem ==
  ASSUME IpcInv, IpcInv', Tick
  PROVE  SemStep
  <1> SUFFICES ASSUME NEW s \in FifoSems PROVE Promise(s)!AbsStep
    BY DEF SemStep
  <1>1. s \in Sems /\ s \in Objects
    BY ObjectFacts DEF FifoSems
  <1>2. /\ Passed(k, k') /\ value' = value /\ call' = call
    BY TickWhat DEF Tick, IpcInv, KernelInv
  <1>3. /\ WaitsAt(k, s) \subseteq Threads /\ WaitsAt(k', s) \subseteq Threads
        /\ k.waiting[s] \in Seq(Threads) /\ k'.waiting[s] \in Seq(Threads)
    BY <1>1, Takers, TakersAfter, ObjectFacts
  <1> DEFINE late == WaitsAt(k, s) \ WaitsAt(k', s)
  <1>4. TakersKept(s) /\ InOrder(k.waiting[s], k'.waiting[s])
    BY <1>1, <1>2 DEF TakersKept, Passed, Thins
  <1>5. ASSUME NEW t \in Threads, call[t] = TakeOf(s)
        PROVE  IF t \in late THEN Late(k, k', t) ELSE Same(k, k', t)
    <2>1. CASE t \in late
      BY <1>1, <1>2, <2>1 DEF Passed, Same
    <2>2. CASE Late(k, k', t)
      BY <1>1, <1>5, <2>2, Takers DEF Late, Woken
    <2> QED BY <1>2, <2>1, <2>2 DEF Passed
  <1>6. CASE late = {}
    <2>1. \A t \in Threads : call[t] = TakeOf(s) => Same(k, k', t)
      BY <1>5, <1>6
    <2> QED BY <1>1, <1>2, <1>4, <2>1, Quiet
  <1>7. CASE late /= {}
    <2>1. WaitsAt(k', s) = WaitsAt(k, s) \ late
      BY <1>1, <1>2, <1>3 DEF Passed, Same, Late, Woken
    <2>2. \A t \in late : t \in Threads /\ call[t] = TakeOf(s)
      BY <1>1, <1>3, Takers
    <2> HIDE DEF late
    <2>3. ExpiredIn(k', call', s) = ExpiredIn(k, call, s) \union late
      BY <1>2, <1>5, <2>2 DEF ExpiredIn, Late, Same
    <2>4. GrantedIn(k', call', s) = GrantedIn(k, call, s)
      <3>1. \A t \in Threads : t \in late => t \in WaitsAt(k, s)
        BY DEF late
      <3> QED BY <1>1, <1>2, <1>5, <3>1 DEF GrantedIn, Late, Same
    <2>5. late \in SUBSET Elems(k.waiting[s])
      BY DEF late, WaitsAt
    <2> QED BY <1>2, <1>3, <1>4, <1>7, <2>1, <2>3, <2>4, <2>5, SemSteps DEF WaitsAt
  <1> QED BY <1>6, <1>7

\* The scheduling of a call, a sleep and a yield are no steps of a semaphore.
LEMMA ScheduleSem ==
  ASSUME IpcInv, IpcInv', NEW t \in Clients, Schedule(t)
  PROVE  SemStep
  <1>1. t \in Threads /\ value' = value /\ k' = rt_schedule(k)
    BY DEF Schedule, Clients
  <1>2. Thins(k, k') /\ \A r \in Threads : Same(k, k', r)
    BY <1>1, ScheduledWhat DEF Passed
  <1>3. ASSUME NEW s \in Sems PROVE TakersKept(s)
    <2>1. CASE Waits(t)
      BY <2>1 DEF Schedule, TakersKept
    <2>2. CASE ~Waits(t)
      <3>1. call' = [call EXCEPT ![t] = NoCall] /\ call[t].op /= "take"
        BY <2>2 DEF Schedule, Waits
      <3> QED BY <1>1, <3>1 DEF TakersKept, TakeOf, NoCall, IpcInv, TypeInv
    <2> QED BY <2>1, <2>2
  <1> QED BY <1>1, <1>2, <1>3, QuietAll, ObjectFacts DEF Thins

LEMMA YieldSem ==
  ASSUME IpcInv, IpcInv', NEW t \in Clients, rt_thread_yield(t)
  PROVE  SemStep
  <1>1. value' = value /\ call' = call /\ k' = rt_schedule(k)
    BY DEF rt_thread_yield
  <1>2. Thins(k, k') /\ \A r \in Threads : Same(k, k', r)
    BY <1>1, ScheduledWhat DEF Passed
  <1> QED BY <1>1, <1>2, QuietAll, ObjectFacts DEF Thins, TakersKept

\* A thread that enters another call than a take.
LEMMA EntersOther ==
  ASSUME IpcInv, NEW t \in Threads, Runs(t), NEW op \in Ops \ {"take"}, NEW o, Enters(t, op, o),
         NEW s \in Sems
  PROVE  TakersKept(s)
  <1>1. call[t] = NoCall
    BY RunsGets
  <1>2. call' = [call EXCEPT ![t] = [op |-> op, on |-> o]]
    BY DEF Enters
  <1>3. [op |-> op, on |-> o] /= TakeOf(s) /\ NoCall /= TakeOf(s)
    BY DEF TakeOf, NoCall
  <1> QED BY <1>1, <1>2, <1>3 DEF TakersKept, IpcInv, TypeInv

LEMMA SleepSem ==
  ASSUME IpcInv, IpcInv', NEW t \in Clients, NEW ticks \in Nat, rt_thread_sleep(t, ticks)
  PROVE  SemStep
  <1>1. /\ Runs(t) /\ value' = value /\ t \in Threads /\ Enters(t, "sleep", Null)
        /\ k' = rt_timer_start(rt_thread_suspend(k, t), t, ticks)
    BY DEF rt_thread_sleep, Clients
  <1>2. k.stat[t] = "RUNNING" /\ call[t] = NoCall
    BY <1>1, RunsGets
  <1>3. Thins(k, k') /\ \A r \in Threads \ {t} : Same(k, k', r)
    BY <1>1, <1>2, SleepWhat DEF IpcInv, KernelInv
  <1>4. \A s \in Sems : TakersKept(s)
    BY <1>1, EntersOther DEF Ops
  <1>5. \A r \in Threads : call[r].op = "take" => Same(k, k', r)
    BY <1>2, <1>3 DEF NoCall
  <1> QED BY <1>1, <1>3, <1>4, <1>5, QuietAll, ObjectFacts DEF Thins

\* The return of a take gives its token, or its time-out, to the caller.
LEMMA ReturnSem ==
  ASSUME IpcInv, IpcInv', NEW t \in Clients, Return(t)
  PROVE  SemStep
  <1> SUFFICES ASSUME NEW s \in FifoSems PROVE Promise(s)!AbsStep
    BY DEF SemStep
  <1>1. /\ k.current = t /\ pc[t] = "check" /\ t \in Threads /\ value' = value
        /\ call' = [call EXCEPT ![t] = NoCall]
    BY DEF Return, Clients
  <1>2. s \in Sems /\ \A o \in Objects : t \notin WaitsAt(k, o)
    BY <1>1, RunningOne DEF FifoSems
  <1>3. call'[t] = NoCall /\ \A r \in Threads \ {t} : call'[r] = call[r]
    BY <1>1 DEF IpcInv, TypeInv
  <1>4. NoCall /= TakeOf(s) /\ TakeOf(s).op /= "sleep"
    BY DEF NoCall, TakeOf
  <1>5. CASE call[t] = TakeOf(s)
    <2>1. k' = k
      BY <1>4, <1>5 DEF Return
    <2>2. k.waiting[s] \in Seq(Threads) /\ k'.waiting[s] = k.waiting[s]
      BY <1>2, <2>1, Takers, <1>1
    <2>3. CASE k.error[t] = "EOK"
      <3>1. t \in GrantedIn(k, call, s)
        BY <1>1, <1>2, <1>5, <2>3 DEF GrantedIn
      <3>2. GrantedIn(k', call', s) = GrantedIn(k, call, s) \ {t}
        BY <1>3, <1>4, <2>1 DEF GrantedIn
      <3>3. ExpiredIn(k', call', s) = ExpiredIn(k, call, s)
        BY <1>3, <1>4, <1>5, <2>1, <2>3 DEF ExpiredIn
      <3> QED BY <1>1, <2>2, <3>1, <3>2, <3>3, SemSteps
    <2>4. CASE k.error[t] # "EOK"
      <3>1. t \in ExpiredIn(k, call, s)
        BY <1>1, <1>5, <2>4 DEF ExpiredIn
      <3>2. ExpiredIn(k', call', s) = ExpiredIn(k, call, s) \ {t}
        BY <1>3, <1>4, <2>1 DEF ExpiredIn
      <3>3. GrantedIn(k', call', s) = GrantedIn(k, call, s)
        BY <1>3, <1>4, <1>5, <2>1, <2>4 DEF GrantedIn
      <3> QED BY <1>1, <2>2, <3>1, <3>2, <3>3, SemSteps
    <2> QED BY <2>3, <2>4
  <1>6. CASE call[t] /= TakeOf(s)
    <2>1. k'.waiting = k.waiting /\ \A r \in Threads \ {t} : Same(k, k', r)
      <3>1. CASE call[t].op = "sleep" /\ k.error[t] = "ETIMEOUT"
        <4>1. k' = [k EXCEPT !.error[t] = "EOK"]
          BY <3>1 DEF Return
        <4> QED BY <1>1, <4>1, ErrorWhat DEF IpcInv, KernelInv, Errors
      <3>2. CASE ~(call[t].op = "sleep" /\ k.error[t] = "ETIMEOUT")
        <4>1. k' = k
          BY <3>2 DEF Return
        <4> QED BY <4>1 DEF Same
      <3> QED BY <3>1, <3>2
    <2>2. InOrder(k.waiting[s], k'.waiting[s])
      BY <1>2, <2>1, ThinsSame, ObjectFacts DEF Thins
    <2>3. TakersKept(s) /\ \A r \in Threads : call[r] = TakeOf(s) => Same(k, k', r)
      BY <1>3, <1>4, <1>6, <2>1 DEF TakersKept
    <2> QED BY <1>1, <1>2, <2>2, <2>3, Quiet
  <1> QED BY <1>5, <1>6

\* A take finds a token, or waits as the last one.
LEMMA SemTakeSem ==
  ASSUME IpcInv, IpcInv', NEW t \in Clients, NEW s \in Sems, NEW time \in Int,
         SemTake(t, s, time)
  PROVE  SemStep
  <1> SUFFICES ASSUME NEW q \in FifoSems PROVE Promise(q)!AbsStep
    BY DEF SemStep
  <1>1. /\ Runs(t) /\ t \in Threads /\ k.current = t /\ q \in Sems /\ q \in Objects
        /\ q \notin PrioObjects
    BY ObjectFacts DEF SemTake, Clients, Runs, FifoSems
  <1>2. value \in [Sems -> 0 .. MaxValue]
    BY DEF IpcInv, TypeInv
  <1>3. CASE value[s] > 0 /\ value' = [value EXCEPT ![s] = @ - 1] /\ UNCHANGED <<k, pc, call>>
    <2>1. k.waiting[q] \in Seq(Threads)
      BY <1>1, Takers
    <2>2. IF q = s THEN value[q] > 0 /\ value'[q] = value[q] - 1 ELSE value'[q] = value[q]
      BY <1>1, <1>2, <1>3
    <2> QED BY <1>3, <2>1, <2>2, SemSteps
  <1>4. CASE /\ value[s] = 0 /\ Enters(t, "take", s) /\ value' = value
             /\ k' = WaitFor([k EXCEPT !.error[t] = "EOK"], s, t, time)
    <2> DEFINE j == [k EXCEPT !.error[t] = "EOK"]
    <2>1. /\ k.stat[t] = "RUNNING" /\ call[t] = NoCall
          /\ \A o \in Objects : t \notin WaitsAt(k, o)
      BY <1>1, RunsGets
    <2>2. /\ j \in KState /\ KInv(j) /\ j.stat = k.stat /\ j.waiting = k.waiting
          /\ j.error = [k.error EXCEPT ![t] = "EOK"]
          /\ \A r \in Threads \ {t} : Same(k, j, r)
      BY <1>1, ErrorWhat DEF IpcInv, KernelInv, Errors
    <2>3. k' = WaitFor(j, s, t, time)
      BY <1>4
    <2> HIDE DEF j
    <2>4. /\ Kept(j, k') /\ t \in WaitsAt(k', s)
          /\ \A r \in Threads \ {t} : Same(j, k', r)
          /\ Joins(j, k', s, t)
      BY <1>1, <2>1, <2>2, <2>3, ObjectFacts, WaitForWhat
    <2>5. \A r \in Threads \ {t} : Same(k, k', r)
      BY <2>2, <2>4 DEF Same
    <2>6. call'[t] = TakeOf(s) /\ \A r \in Threads \ {t} : call'[r] = call[r]
      BY <1>1, <1>4 DEF Enters, TakeOf, IpcInv, TypeInv
    <2>7. NoCall /= TakeOf(q) /\ (TakeOf(s) = TakeOf(q) <=> s = q)
      BY DEF NoCall, TakeOf
    <2>8. CASE q = s
      <3>1. k'.waiting[q] = Append(k.waiting[q], t)
        BY <1>1, <2>2, <2>4, <2>8 DEF Joins
      <3>2. GrantedIn(k', call', q) = GrantedIn(k, call, q)
        <4>1. t \notin GrantedIn(k, call, q) /\ t \notin GrantedIn(k', call', q)
          BY <1>1, <2>1, <2>4, <2>7, <2>8 DEF GrantedIn
        <4> QED BY <2>5, <2>6, <4>1 DEF GrantedIn, Same
      <3>3. ExpiredIn(k', call', q) = ExpiredIn(k, call, q)
        <4>1. k'.error[t] = "EOK"
          BY <1>1, <2>2, <2>4 DEF Kept, IpcInv, KernelInv, KState
        <4> QED BY <2>1, <2>5, <2>6, <2>7, <4>1 DEF ExpiredIn, Same
      <3>4. t \notin Elems(k.waiting[q]) \union GrantedIn(k, call, q) \union ExpiredIn(k, call, q)
        BY <1>1, <2>1, <2>7 DEF WaitsAt, GrantedIn, ExpiredIn
      <3>5. k.waiting[q] \in Seq(Threads) /\ k'.waiting[q] \in Seq(Threads)
        BY <1>1, Takers, TakersAfter
      <3>6. value[q] = 0 /\ value'[q] = value[q] /\ t \in Threads
        BY <1>1, <1>4, <2>8
      <3> QED BY <3>1, <3>2, <3>3, <3>4, <3>5, <3>6, SemSteps
    <2>9. CASE q /= s
      <3>1. InOrder(k.waiting[q], k'.waiting[q])
        BY <1>1, <2>2, <2>4, <2>9 DEF Joins
      <3>2. TakersKept(q) /\ \A r \in Threads : call[r] = TakeOf(q) => Same(k, k', r)
        BY <2>1, <2>5, <2>6, <2>7, <2>9 DEF TakersKept
      <3> QED BY <1>1, <1>4, <3>1, <3>2, Quiet
    <2> QED BY <2>8, <2>9
  <1> QED BY <1>3, <1>4 DEF SemTake

\* A post is kept, if nobody waits.
LEMMA KeptPost ==
  ASSUME IpcInv, NEW s \in Sems, k.waiting[s] = <<>>, Posted(s), UNCHANGED <<k, call>>
  PROVE  SemStep
  <1> SUFFICES ASSUME NEW q \in FifoSems PROVE Promise(q)!AbsStep
    BY DEF SemStep
  <1>1. q \in Sems /\ Idle \in Threads
    BY ObjectFacts DEF FifoSems
  <1>2. value' = [value EXCEPT ![s] = @ + 1] /\ value \in [Sems -> 0 .. MaxValue]
    BY DEF Posted, IpcInv, TypeInv
  <1>3. IF q = s THEN value'[q] = value[q] + 1 ELSE value'[q] = value[q]
    BY <1>1, <1>2
  <1>4. k.waiting[q] \in Seq(Threads)
    BY <1>1, Takers
  <1> QED BY <1>3, <1>4, SemSteps

\* A post goes to the first thread that waits.
LEMMA GivenPost ==
  ASSUME IpcInv, IpcInv', NEW s \in Sems, NEW h \in Threads, k.waiting[s] /= <<>>,
         h = Head(k.waiting[s]), h \in WaitsAt(k, s), Woken(k, k', h), k'.error = k.error,
         \A r \in Threads \ {h} : Same(k, k', r), Thins(k, k'),
         k'.waiting[s] = Tail(k.waiting[s]), value' = value, \A q \in Sems : TakersKept(q)
  PROVE  SemStep
  <1> SUFFICES ASSUME NEW q \in FifoSems PROVE Promise(q)!AbsStep
    BY DEF SemStep
  <1>1. q \in Sems /\ q \in Objects
    BY ObjectFacts DEF FifoSems
  <1>2. call[h] = TakeOf(s) /\ k.error[h] = "EOK"
    BY Takers
  <1>3. TakeOf(s) = TakeOf(q) <=> s = q
    BY DEF TakeOf
  <1>4. CASE q = s
    <2>1. h \notin GrantedIn(k, call, q)
      BY <1>1, <1>4 DEF GrantedIn
    <2>2. h \in GrantedIn(k', call', q)
      BY <1>1, <1>2, <1>4 DEF GrantedIn, TakersKept, Woken
    <2>3. \A r \in Threads \ {h} : r \in GrantedIn(k', call', q) <=> r \in GrantedIn(k, call, q)
      BY <1>1 DEF GrantedIn, TakersKept, Same
    <2>4. GrantedIn(k', call', q) = GrantedIn(k, call, q) \union {h}
      <3>1. GrantedIn(k', call', q) \subseteq Threads /\ GrantedIn(k, call, q) \subseteq Threads
        BY DEF GrantedIn
      <3> QED BY <2>2, <2>3, <3>1
    <2>5. ExpiredIn(k', call', q) = ExpiredIn(k, call, q)
      BY <1>1 DEF ExpiredIn, TakersKept
    <2>6. k.waiting[q] \in Seq(Threads) /\ k'.waiting[q] \in Seq(Threads)
      BY <1>1, Takers, TakersAfter
    <2> QED BY <1>4, <2>4, <2>5, <2>6, SemSteps
  <1>5. CASE q /= s
    <2>1. \A r \in Threads : call[r] = TakeOf(q) => Same(k, k', r)
      BY <1>2, <1>3, <1>5
    <2> QED BY <1>1, <2>1, Quiet DEF Thins
  <1> QED BY <1>4, <1>5

LEMMA SemReleaseSem ==
  ASSUME IpcInv, IpcInv', NEW t \in Clients, NEW s \in Sems, SemRelease(t, s)
  PROVE  SemStep
  <1>1. Runs(t) /\ t \in Threads /\ Posted(s) /\ s \in Objects /\ k \in KState /\ KInv(k)
    BY ObjectFacts DEF SemRelease, Clients, IpcInv, KernelInv
  <1>2. CASE k.waiting[s] = <<>>
    BY <1>1, <1>2, KeptPost DEF SemRelease
  <1>3. CASE k.waiting[s] /= <<>>
    <2>1. value' = value /\ Enters(t, "release", s) /\ k' = rt_ipc_list_resume(k, s)
      BY <1>3 DEF SemRelease, Posted
    <2>2. WaitsAt(k, s) /= {}
      BY <1>1, <1>3, WaitsType
    <2> DEFINE h == Head(k.waiting[s])
    <2>3. /\ Kept(k, k') /\ h \in Threads /\ h \in WaitsAt(k, s)
          /\ Woken(k, k', h) /\ \A r \in Threads \ {h} : Same(k, k', r)
          /\ Thins(k, k') /\ k'.waiting[s] = Tail(k.waiting[s])
      BY <1>1, <2>1, <2>2, ListResumeWhat
    <2>4. \A q \in Sems : TakersKept(q)
      BY <1>1, <2>1, EntersOther DEF Ops
    <2> HIDE DEF h
    <2> QED BY <1>3, <2>1, <2>3, <2>4, GivenPost DEF Kept, h
  <1> QED BY <1>2, <1>3

LEMMA IsrReleaseSem ==
  ASSUME IpcInv, IpcInv', NEW s \in Sems, IsrRelease(s)
  PROVE  SemStep
  <1>1. /\ Posted(s) /\ call' = call /\ s \in Objects /\ k \in KState /\ KInv(k)
        /\ k.current \in Threads
    BY ObjectFacts DEF IsrRelease, IpcInv, KernelInv
  <1>2. CASE k.waiting[s] = <<>>
    BY <1>1, <1>2, KeptPost DEF IsrRelease
  <1>3. CASE k.waiting[s] /= <<>>
    <2> DEFINE h == Head(k.waiting[s])
               j == rt_ipc_list_resume(k, s)
    <2>1. value' = value /\ k' = rt_schedule(j)
      BY <1>3 DEF IsrRelease, Posted
    <2>2. WaitsAt(k, s) /= {}
      BY <1>1, <1>3, WaitsType
    <2>3. /\ j \in KState /\ KInv(j) /\ Kept(k, j) /\ j.current = k.current
          /\ h \in Threads /\ h \in WaitsAt(k, s)
          /\ Woken(k, j, h) /\ \A r \in Threads \ {h} : Same(k, j, r)
          /\ Thins(k, j) /\ j.waiting[s] = Tail(k.waiting[s])
      BY <1>1, <2>2, ListResumeWhat
    <2> HIDE DEF h, j
    <2>4. /\ k' \in KState /\ KInv(k') /\ Kept(j, k')
          /\ \A r \in Threads : Same(j, k', r) /\ Thins(j, k')
      BY <1>1, <2>1, <2>3, ScheduleWhat
    <2>5. k'.waiting[s] = j.waiting[s]
      <3>1. WaitsAt(j, s) \subseteq Threads /\ WaitsAt(k', s) \subseteq Threads
        BY <1>1, <2>3, <2>4, WaitsType
      <3>2. WaitsAt(j, s) = WaitsAt(k', s)
        BY <1>1, <2>4, <3>1 DEF Same
      <3>3. Thins(j, k')
        BY <2>3, <2>4
      <3> QED BY <1>1, <2>3, <2>4, <3>2, <3>3, QueueSame DEF Thins
    <2>6. Woken(k, k', h) /\ k'.error = k.error
      BY <2>3, <2>4 DEF Woken, Same, Kept
    <2>7. \A r \in Threads \ {h} : Same(k, k', r)
      BY <2>3, <2>4 DEF Same
    <2>8. Thins(k, k')
      BY <2>3, <2>4, ThinsAgain
    <2>9. \A q \in Sems : TakersKept(q)
      BY <1>1 DEF TakersKept
    <2> QED BY <1>3, <2>1, <2>3, <2>5, <2>6, <2>7, <2>8, <2>9, GivenPost DEF h
  <1> QED BY <1>2, <1>3

\* A call of a mutex that changes at most the error of its thread.
LEMMA ErrorSem ==
  ASSUME IpcInv, IpcInv', NEW t \in Threads, Runs(t), NEW e \in Errors,
         k' = [k EXCEPT !.error[t] = e] \/ k' = k, value' = value, call' = call
  PROVE  SemStep
  <1>1. call[t] = NoCall /\ k \in KState /\ KInv(k)
    BY RunsGets DEF IpcInv, KernelInv
  <1>2. k'.waiting = k.waiting /\ \A r \in Threads \ {t} : Same(k, k', r)
    <2>1. CASE k' = k
      BY <2>1 DEF Same
    <2>2. CASE k' = [k EXCEPT !.error[t] = e]
      BY <1>1, <2>2, ErrorWhat
    <2> QED BY <2>1, <2>2
  <1>3. \A r \in Threads : call[r].op = "take" => Same(k, k', r)
    BY <1>1, <1>2 DEF NoCall
  <1>4. Thins(k, k')
    BY <1>2, ThinsSame
  <1> QED BY <1>3, <1>4, QuietAll, ObjectFacts DEF Thins, TakersKept

LEMMA WaitsForMutexSem ==
  ASSUME IpcInv, IpcInv', NEW t \in Clients, Runs(t), NEW m \in Mutexes, NEW time \in Int,
         WaitsForMutex(t, m, time), value' = value
  PROVE  SemStep
  <1> DEFINE i == [k EXCEPT !.error[t] = "EOK"]
             j == Boosted(i, m, t)
  <1>1. /\ mutex[m].value = 0 /\ Enters(t, "lock", m) /\ t \in Threads /\ m \in Objects
        /\ k' = WaitFor(j, m, t, time)
    BY ObjectFacts DEF WaitsForMutex, Clients
  <1>2. k.stat[t] = "RUNNING" /\ call[t] = NoCall
    BY <1>1, RunsGets
  <1>3. /\ i \in KState /\ KInv(i) /\ i.stat = k.stat /\ i.waiting = k.waiting
        /\ \A s \in Threads \ {t} : Same(k, i, s)
    BY <1>1, ErrorWhat DEF IpcInv, KernelInv, Errors
  <1> HIDE DEF i
  <1>4. mutex[m].owner \in Threads
    BY <1>1, MutexType DEF IpcInv, MutexesOK, MutexOK
  <1>5. /\ j \in KState /\ KInv(j) /\ j.stat = i.stat
        /\ (\A s \in Threads : Same(i, j, s)) /\ Thins(i, j)
    BY <1>1, <1>3, <1>4, BoostedWhat
  <1> HIDE DEF j
  <1>6. Joins(j, k', m, t) /\ \A s \in Threads \ {t} : Same(j, k', s)
    <2>1. j.stat[t] = "RUNNING"
      BY <1>2, <1>3, <1>5
    <2> QED BY <1>1, <1>5, <2>1, WaitForWhat
  <1>7. \A s \in Threads \ {t} : Same(k, k', s)
    BY <1>3, <1>5, <1>6 DEF Same
  <1>8. ASSUME NEW s \in Sems PROVE TakersKept(s) /\ InOrder(k.waiting[s], k'.waiting[s])
    <2>1. s \in Objects \ {m}
      BY ObjectFacts
    <2>2. InOrder(i.waiting[s], j.waiting[s]) /\ InOrder(j.waiting[s], k'.waiting[s])
      BY <1>5, <1>6, <2>1 DEF Joins, Thins
    <2>3. InOrder(k.waiting[s], k'.waiting[s])
      BY <1>3, <2>2, InOrderAgain
    <2>4. "lock" \in Ops \ {"take"}
      BY DEF Ops
    <2> QED BY <1>1, <2>3, <2>4, EntersOther
  <1>9. \A s \in Threads : call[s].op = "take" => Same(k, k', s)
    BY <1>2, <1>7 DEF NoCall
  <1> QED BY <1>8, <1>9, QuietAll

LEMMA SetsFreeSem ==
  ASSUME IpcInv, IpcInv', NEW t \in Threads, NEW m \in Mutexes, mutex[m].owner = t,
         SetsFree(t, m), value' = value
  PROVE  SemStep
  <1>1. k' = Restored(t, m) /\ call' = call
    BY DEF SetsFree
  <1>2. (\A s \in Threads : Same(k, k', s)) /\ Thins(k, k')
    BY <1>1, RestoredWhat
  <1> QED BY <1>1, <1>2, QuietAll, ObjectFacts DEF Thins, TakersKept

LEMMA HandsOverSem ==
  ASSUME IpcInv, IpcInv', NEW t \in Clients, Runs(t), NEW m \in Mutexes, mutex[m].owner = t,
         HandsOver(t, m), value' = value
  PROVE  SemStep
  <1> DEFINE j == Restored(t, m)
             h == Head(j.waiting[m])
  <1>1. /\ k.waiting[m] # <<>> /\ k' = rt_ipc_list_resume(j, m)
        /\ Enters(t, "unlock", m) /\ t \in Threads /\ m \in Objects /\ k \in KState
    BY ObjectFacts DEF HandsOver, Clients, IpcInv, KernelInv
  <1>2. /\ j \in KState /\ KInv(j) /\ (\A s \in Threads : Same(k, j, s)) /\ Thins(k, j)
    BY <1>1, RestoredWhat
  <1> HIDE DEF j
  <1>3. WaitsAt(j, m) /= {}
    <2>1. WaitsAt(k, m) /= {} /\ WaitsAt(k, m) \subseteq Threads
      BY <1>1, WaitsType
    <2> QED BY <1>1, <1>2, <2>1 DEF Same
  <1>4. /\ h \in Threads /\ h \in WaitsAt(j, m) /\ Thins(j, k')
        /\ \A s \in Threads \ {h} : Same(j, k', s)
    BY <1>1, <1>2, <1>3, ListResumeWhat
  <1> HIDE DEF h
  <1>5. call[h] = CallOf(m)
    <2>1. h \in WaitsAt(k, m)
      BY <1>1, <1>2, <1>4 DEF Same
    <2> QED BY <1>1, <1>4, <2>1 DEF IpcInv, ThreadsOK, ThreadOK
  <1>6. call[h].op /= "take"
    BY <1>5, ObjectFacts DEF CallOf
  <1>7. Thins(k, k') /\ \A s \in Threads \ {h} : Same(k, k', s)
    BY <1>2, <1>4, ThinsAgain DEF Same
  <1>8. \A s \in Sems : TakersKept(s)
    BY <1>1, EntersOther DEF Ops
  <1> QED BY <1>6, <1>7, <1>8, QuietAll, ObjectFacts DEF Thins

LEMMA MutexSem ==
  ASSUME IpcInv, IpcInv', NEW t \in Clients, NEW m \in Mutexes, NEW time \in Int,
         MutexTake(t, m, time) \/ MutexRelease(t, m)
  PROVE  SemStep
  <1>1. Runs(t) /\ value' = value /\ t \in Threads
    BY DEF MutexTake, MutexRelease, Clients
  <1>2. CASE WaitsForMutex(t, m, time)
    BY <1>1, <1>2, WaitsForMutexSem
  <1>3. CASE mutex[m].owner = t /\ HandsOver(t, m)
    BY <1>1, <1>3, HandsOverSem
  <1>4. CASE mutex[m].owner = t /\ SetsFree(t, m)
    BY <1>1, <1>4, SetsFreeSem
  <1>5. CASE TakesAgain(t, m) \/ TakesFree(t, m) \/ DoesNotWait(t, m) \/ NotOwner(t, m)
             \/ ReleasesOnce(t, m)
    <2>1. \E e \in Errors : k' = [k EXCEPT !.error[t] = e] \/ k' = k
      BY <1>5 DEF TakesAgain, TakesFree, DoesNotWait, NotOwner, ReleasesOnce, Errors
    <2>2. call' = call
      BY <1>5 DEF TakesAgain, TakesFree, DoesNotWait, NotOwner, ReleasesOnce
    <2> QED BY <1>1, <2>1, <2>2, ErrorSem
  <1> QED BY <1>2, <1>3, <1>4, <1>5 DEF MutexTake, MutexRelease

\* Every step is one that CountingSem allows.
LEMMA NextSem ==
  ASSUME IpcInv, IpcInv', [Next]_vars
  PROVE  SemStep
  <1>1. ASSUME NEW t \in Clients, Calls(t, AllCalls) PROVE SemStep
    <2>1. PICK c \in AllCalls :
            \/ c[1] = "take" /\ SemTake(t, c[2], c[3])
            \/ c[1] = "release" /\ SemRelease(t, c[2])
            \/ c[1] = "lock" /\ MutexTake(t, c[2], c[3])
            \/ c[1] = "unlock" /\ mutex[c[2]].owner = t /\ MutexRelease(t, c[2])
            \/ c[1] = "unlock another's" /\ mutex[c[2]].owner # t /\ MutexRelease(t, c[2])
            \/ c[1] = "sleep" /\ rt_thread_sleep(t, c[3])
            \/ c[1] = "yield" /\ rt_thread_yield(t)
      BY <1>1 DEF Calls
    <2>2. CASE c[1] = "take" /\ SemTake(t, c[2], c[3])
      BY <2>2, CallTypes, SemTakeSem
    <2>3. CASE c[1] = "release" /\ SemRelease(t, c[2])
      BY <2>3, CallTypes, SemReleaseSem
    <2>4. CASE c[1] = "lock" /\ MutexTake(t, c[2], c[3])
      BY <2>4, CallTypes, MutexSem
    <2>5. CASE c[1] \in {"unlock", "unlock another's"} /\ MutexRelease(t, c[2])
      <3>1. 0 \in Int
        OBVIOUS
      <3> QED BY <2>5, <3>1, CallTypes, MutexSem
    <2>6. CASE c[1] = "sleep" /\ rt_thread_sleep(t, c[3])
      BY <2>6, CallTypes, SleepSem
    <2>7. CASE rt_thread_yield(t)
      BY <2>7, YieldSem
    <2> QED BY <2>1, <2>2, <2>3, <2>4, <2>5, <2>6, <2>7
  <1>2. ASSUME NEW t \in Clients, GoesOn(t) PROVE SemStep
    BY <1>2, ScheduleSem, ReturnSem DEF GoesOn
  <1>3. CASE Tick
    BY <1>3, TickSem
  <1>4. ASSUME NEW s \in Sems, IsrRelease(s) PROVE SemStep
    BY <1>4, IsrReleaseSem
  <1>5. CASE UNCHANGED vars
    <2>1. Thins(k, k') /\ \A t \in Threads : Same(k, k', t)
      BY <1>5, ThinsSame DEF vars, Same
    <2> QED BY <1>5, <2>1, QuietAll, ObjectFacts DEF vars, Thins, TakersKept
  <1> QED BY <1>1, <1>2, <1>3, <1>4, <1>5 DEF Next, Interrupt

\* A semaphore begins as CountingSem does.
LEMMA InitSem ==
  ASSUME Init, NEW s \in Sems
  PROVE  Promise(s)!AbsInit
  <1>1. PICK order \in SetToSeqs(Threads) : k = Started(order)
    BY DEF Init
  <1>2. \A t \in Threads : \A o \in Objects : t \notin WaitsAt(k, o)
    BY <1>1, StartedWhat
  <1>3. s \in Objects /\ k \in KState /\ value[s] = 0 /\ \A t \in Threads : call[t] = NoCall
    BY <1>1, StartedWhat, ObjectFacts DEF Init
  <1>4. k.waiting[s] = <<>>
    BY <1>2, <1>3, WaitsType
  <1>5. Granted(s) = {} /\ Expired(s) = {}
    BY <1>3 DEF Granted, Expired, Taking, NoCall
  <1> QED BY <1>3, <1>4, <1>5 DEF Promise!AbsInit

-----------------------------------------------------------------------------
(***************************************************************************)
(* Who runs: the thread of the highest priority, unless a release of a     *)
(* mutex has lowered its priority.  RunsHighestUnlessLowered only speaks   *)
(* of a thread at its own code; RunInv says the same of one that has just  *)
(* been scheduled and is about to look at its error.                       *)
(***************************************************************************)
RunInv ==
  /\ lowered \in BOOLEAN
  /\ lowered => pc[k.current] = "run"
  /\ ~lowered /\ pc[k.current] # "schedule" => Highest(k)

LEMMA HighestRuns ==
  ASSUME RunInv
  PROVE  RunsHighestUnlessLowered
  BY DEF RunInv, Highest, RunsHighest, RunsHighestUnlessLowered

\* The thread that runs goes on, and still has the highest priority if it had
\* it, or has lowered its own.
GoesOnHighest ==
  /\ k'.current = k.current
  /\ pc[k.current] = "run" => pc'[k.current] = "run"
  /\ pc[k.current] = "schedule" => pc'[k.current] = "schedule"
  /\ Highest(k) => Highest(k') \/ Lowers

LEMMA RunStep ==
  ASSUME RunInv, Remembers,
         Highest(k') \/ pc'[k'.current] = "schedule" \/ GoesOnHighest
  PROVE  RunInv'
  <1> DEFINE raised == k'.current = k.current /\ (Lowers \/ (lowered /\ ~RunsHighest'))
  <1>1. lowered' = raised
    BY DEF Remembers
  <1>2. RunsHighest' <=> (pc'[k'.current] = "run" => Highest(k'))
    BY DEF RunsHighest, Highest
  <1>3. lowered' \in BOOLEAN /\ (lowered' <=> raised)
    BY <1>1
  <1>4. raised => pc'[k'.current] = "run"
    BY <1>2 DEF Lowers
  <1>5. ASSUME ~raised, pc'[k'.current] # "schedule" PROVE Highest(k')
    <2> SUFFICES ASSUME GoesOnHighest, ~Highest(k') PROVE FALSE
      BY <1>5
    <2>1. ~Lowers /\ ~(lowered /\ ~RunsHighest')
      BY <1>5 DEF GoesOnHighest
    <2>2. ~Highest(k) /\ k'.current = k.current /\ pc[k.current] # "schedule"
      BY <1>5, <2>1 DEF GoesOnHighest
    <2>3. lowered /\ pc[k.current] = "run"
      BY <2>2 DEF RunInv
    <2>4. pc'[k'.current] = "run"
      BY <2>2, <2>3 DEF GoesOnHighest
    <2> QED BY <1>2, <2>1, <2>3, <2>4
  <1> HIDE DEF raised
  <1> QED BY <1>3, <1>4, <1>5 DEF RunInv

\* The processor, the ready threads and the priority of the thread that runs
\* are the same.
LEMMA SameRuns ==
  ASSUME RunInv, Remembers, k'.current = k.current, k'.group = k.group,
         k'.priority[k.current] = k.priority[k.current],
         pc' = pc \/ (pc[k.current] = "check" /\ pc'[k.current] = "run")
  PROVE  RunInv'
  <1>1. GoesOnHighest
    BY DEF GoesOnHighest, Highest
  <1> QED BY <1>1, RunStep

\* A call of the thread that runs is about to schedule.
LEMMA EntersRuns ==
  ASSUME IpcInv, RunInv, Remembers, NEW t \in Threads, Runs(t), NEW op, NEW o,
         Enters(t, op, o), k'.current = k.current
  PROVE  RunInv'
  <1>1. pc'[k'.current] = "schedule"
    BY DEF Enters, Runs, IpcInv, TypeInv
  <1> QED BY <1>1, RunStep

LEMMA TickRuns ==
  ASSUME IpcInv, RunInv, Remembers, Tick
  PROVE  RunInv'
  <1>1. Passed(k, k') /\ pc' = pc
    BY TickWhat DEF Tick, IpcInv, KernelInv
  <1>2. Highest(k') \/ GoesOnHighest
    BY <1>1 DEF Passed, GoesOnHighest
  <1> QED BY <1>2, RunStep

\* An interrupt handler that has resumed a thread schedules.
LEMMA IsrReleaseRuns ==
  ASSUME IpcInv, RunInv, Remembers, NEW s \in Sems, IsrRelease(s)
  PROVE  RunInv'
  <1>1. CASE k.waiting[s] = <<>>
    <2>1. k' = k /\ pc' = pc
      BY <1>1 DEF IsrRelease
    <2> QED BY <2>1, SameRuns
  <1>2. CASE k.waiting[s] /= <<>>
    <2> DEFINE j == rt_ipc_list_resume(k, s)
    <2>1. k' = rt_schedule(j)
      BY <1>2 DEF IsrRelease
    <2>2. s \in Objects /\ k \in KState /\ KInv(k) /\ k.current \in Threads
      BY ObjectFacts DEF IpcInv, KernelInv
    <2>3. WaitsAt(k, s) /= {}
      BY <1>2, <2>2, WaitsType
    <2>4. j \in KState /\ KInv(j) /\ j.current = k.current
      BY <2>2, <2>3, ListResumeWhat
    <2> HIDE DEF j
    <2>5. Highest(k')
      BY <2>1, <2>2, <2>4, ScheduleWhat
    <2> QED BY <2>5, RunStep
  <1> QED BY <1>1, <1>2

LEMMA ScheduleRuns ==
  ASSUME IpcInv, RunInv, Remembers, NEW t, Schedule(t) \/ rt_thread_yield(t)
  PROVE  RunInv'
  <1>1. k' = rt_schedule(k)
    BY DEF Schedule, rt_thread_yield
  <1>2. Highest(k')
    BY <1>1, ScheduledWhat
  <1> QED BY <1>2, RunStep

\* thread->error is set, or nothing is done to the kernel.
LEMMA ErrorRuns ==
  ASSUME IpcInv, RunInv, Remembers, NEW t \in Threads, NEW e \in Errors,
         k' = [k EXCEPT !.error[t] = e] \/ k' = k,
         pc' = pc \/ (pc[k.current] = "check" /\ pc'[k.current] = "run")
  PROVE  RunInv'
  <1>1. k'.current = k.current /\ k'.group = k.group /\ k'.priority = k.priority
    <2>1. CASE k' = [k EXCEPT !.error[t] = e]
      <3> DEFINE u == [k EXCEPT !.error[t] = e]
      <3>1. u.current = k.current /\ u.group = k.group /\ u.priority = k.priority
        BY ErrorWhat DEF IpcInv, KernelInv
      <3> HIDE DEF u
      <3> QED BY <2>1, <3>1 DEF u
    <2>2. CASE k' = k
      BY <2>2
    <2> QED BY <2>1, <2>2
  <1> QED BY <1>1, SameRuns

LEMMA ReturnRuns ==
  ASSUME IpcInv, RunInv, Remembers, NEW t \in Clients, Return(t)
  PROVE  RunInv'
  <1>1. t \in Threads /\ "EOK" \in Errors
    BY DEF Clients, Errors
  <1>2. k' = [k EXCEPT !.error[t] = "EOK"] \/ k' = k
    BY DEF Return
  <1>3. pc[k.current] = "check" /\ pc'[k.current] = "run"
    BY <1>1 DEF Return, IpcInv, TypeInv
  <1> QED BY <1>1, <1>2, <1>3, ErrorRuns

LEMMA SemTakeRuns ==
  ASSUME IpcInv, RunInv, Remembers, NEW t \in Clients, NEW s \in Sems, NEW time \in Int,
         SemTake(t, s, time)
  PROVE  RunInv'
  <1> DEFINE i == [k EXCEPT !.error[t] = "EOK"]
  <1>1. t \in Threads /\ s \in Objects /\ Runs(t)
    BY ObjectFacts DEF SemTake, Clients
  <1>2. CASE k' = k /\ pc' = pc
    BY <1>2, SameRuns
  <1>3. CASE k' = WaitFor(i, s, t, time) /\ Enters(t, "take", s)
    <2>1. i \in KState /\ KInv(i) /\ i.current = k.current /\ i.stat = k.stat
      BY <1>1, ErrorWhat DEF IpcInv, KernelInv, Errors
    <2>2. i.stat[t] = "RUNNING"
      BY <1>1, <2>1, RunsGets
    <2> HIDE DEF i
    <2>3. k'.current = k.current
      BY <1>1, <1>3, <2>1, <2>2, WaitForWhat
    <2> QED BY <1>1, <1>3, <2>3, EntersRuns
  <1> QED BY <1>2, <1>3 DEF SemTake

LEMMA SemReleaseRuns ==
  ASSUME IpcInv, RunInv, Remembers, NEW t \in Clients, NEW s \in Sems, SemRelease(t, s)
  PROVE  RunInv'
  <1>1. t \in Threads /\ s \in Objects /\ Runs(t) /\ k \in KState /\ KInv(k)
    BY ObjectFacts DEF SemRelease, Clients, IpcInv, KernelInv
  <1>2. CASE k.waiting[s] = <<>>
    <2>1. k' = k /\ pc' = pc
      BY <1>2 DEF SemRelease
    <2> QED BY <2>1, SameRuns
  <1>3. CASE k.waiting[s] /= <<>>
    <2>1. k' = rt_ipc_list_resume(k, s) /\ Enters(t, "release", s)
      BY <1>3 DEF SemRelease
    <2>2. WaitsAt(k, s) /= {}
      BY <1>1, <1>3, WaitsType
    <2>3. k'.current = k.current
      BY <1>1, <2>1, <2>2, ListResumeWhat
    <2> QED BY <1>1, <2>1, <2>3, EntersRuns
  <1> QED BY <1>2, <1>3

LEMMA SleepRuns ==
  ASSUME IpcInv, RunInv, Remembers, NEW t \in Clients, NEW ticks \in Nat,
         rt_thread_sleep(t, ticks)
  PROVE  RunInv'
  <1>1. /\ t \in Threads /\ Runs(t) /\ Enters(t, "sleep", Null)
        /\ k' = rt_timer_start(rt_thread_suspend(k, t), t, ticks)
    BY DEF rt_thread_sleep, Clients
  <1>2. k.stat[t] = "RUNNING" /\ k \in KState /\ KInv(k)
    BY <1>1, RunsGets DEF IpcInv, KernelInv
  <1>3. k'.current = k.current
    BY <1>1, <1>2, SleepWhat
  <1> QED BY <1>1, <1>3, EntersRuns

LEMMA WaitsForMutexRuns ==
  ASSUME IpcInv, RunInv, Remembers, NEW t \in Clients, Runs(t), NEW m \in Mutexes,
         NEW time \in Int, WaitsForMutex(t, m, time)
  PROVE  RunInv'
  <1> DEFINE i == [k EXCEPT !.error[t] = "EOK"]
             j == Boosted(i, m, t)
  <1>1. /\ mutex[m].value = 0 /\ Enters(t, "lock", m) /\ t \in Threads /\ m \in Objects
        /\ k' = WaitFor(j, m, t, time)
    BY ObjectFacts DEF WaitsForMutex, Clients
  <1>2. k.stat[t] = "RUNNING"
    BY <1>1, RunsGets
  <1>3. i \in KState /\ KInv(i) /\ i.current = k.current /\ i.stat = k.stat
    BY <1>1, ErrorWhat DEF IpcInv, KernelInv, Errors
  <1> HIDE DEF i
  <1>4. mutex[m].owner \in Threads
    BY <1>1, MutexType DEF IpcInv, MutexesOK, MutexOK
  <1>5. j \in KState /\ KInv(j) /\ j.current = i.current /\ j.stat = i.stat
    BY <1>1, <1>3, <1>4, BoostedWhat
  <1> HIDE DEF j
  <1>6. k'.current = j.current
    <2>1. j.stat[t] = "RUNNING"
      BY <1>2, <1>3, <1>5
    <2> QED BY <1>1, <1>5, <2>1, WaitForWhat
  <1> QED BY <1>1, <1>3, <1>5, <1>6, EntersRuns

\* The last release of a mutex lowers the priority of its owner or raises it.
LEMMA SetsFreeRuns ==
  ASSUME IpcInv, RunInv, Remembers, NEW t \in Clients, Runs(t), NEW m \in Mutexes,
         mutex[m].owner = t, SetsFree(t, m)
  PROVE  RunInv'
  <1> DEFINE p == mutex[m].original
  <1>1. k' = Restored(t, m) /\ pc' = pc /\ k.current = t /\ pc[t] = "run" /\ t \in Threads
    BY DEF SetsFree, Runs, Clients
  <1>2. k.stat[t] = "RUNNING" /\ k \in KState /\ k' \in KState
    BY <1>1, RunsGets, RestoredWhat DEF IpcInv, KernelInv
  <1>3. /\ k'.current = t /\ k'.group = k.group
        /\ k'.priority = [k.priority EXCEPT ![t] = p]
    BY <1>1, <1>2, RestoredWhat
  <1>4. p \in Nat /\ k.priority[t] \in Nat /\ k.group \subseteq Nat /\ k'.priority[t] = p
    <2>1. p \in Priorities
      BY <1>1, ObjectFacts DEF IpcInv, MutexesOK, MutexOK
    <2> QED BY <1>1, <1>2, <1>3, <2>1, PriorityType DEF KState
  <1> HIDE DEF p
  <1>5. Lowers \/ p <= k.priority[t]
    BY <1>1, <1>4 DEF Lowers
  <1>6. Highest(k) => Highest(k') \/ Lowers
    BY <1>1, <1>3, <1>4, <1>5 DEF Highest
  <1>7. GoesOnHighest
    BY <1>1, <1>3, <1>6 DEF GoesOnHighest
  <1> QED BY <1>7, RunStep

LEMMA HandsOverRuns ==
  ASSUME IpcInv, RunInv, Remembers, NEW t \in Clients, Runs(t), NEW m \in Mutexes,
         mutex[m].owner = t, HandsOver(t, m)
  PROVE  RunInv'
  <1> DEFINE j == Restored(t, m)
  <1>1. /\ k.waiting[m] # <<>> /\ k' = rt_ipc_list_resume(j, m) /\ Enters(t, "unlock", m)
        /\ t \in Threads /\ m \in Objects /\ k \in KState
    BY ObjectFacts DEF HandsOver, Clients, IpcInv, KernelInv
  <1>2. /\ j \in KState /\ KInv(j) /\ j.current = k.current
        /\ \A s \in Threads : Same(k, j, s)
    BY <1>1, RestoredWhat
  <1> HIDE DEF j
  <1>3. WaitsAt(j, m) /= {}
    <2>1. WaitsAt(k, m) /= {} /\ WaitsAt(k, m) \subseteq Threads
      BY <1>1, WaitsType
    <2> QED BY <1>1, <1>2, <2>1 DEF Same
  <1>4. k'.current = j.current
    BY <1>1, <1>2, <1>3, ListResumeWhat
  <1> QED BY <1>1, <1>2, <1>4, EntersRuns

LEMMA MutexRuns ==
  ASSUME IpcInv, RunInv, Remembers, NEW t \in Clients, NEW m \in Mutexes, NEW time \in Int,
         MutexTake(t, m, time) \/ MutexRelease(t, m)
  PROVE  RunInv'
  <1>1. Runs(t) /\ t \in Threads
    BY DEF MutexTake, MutexRelease, Clients
  <1>2. CASE WaitsForMutex(t, m, time)
    BY <1>1, <1>2, WaitsForMutexRuns
  <1>3. CASE mutex[m].owner = t /\ HandsOver(t, m)
    BY <1>1, <1>3, HandsOverRuns
  <1>4. CASE mutex[m].owner = t /\ SetsFree(t, m)
    BY <1>1, <1>4, SetsFreeRuns
  <1>5. CASE TakesAgain(t, m) \/ TakesFree(t, m) \/ DoesNotWait(t, m) \/ NotOwner(t, m)
             \/ ReleasesOnce(t, m)
    <2>1. \E e \in Errors : k' = [k EXCEPT !.error[t] = e] \/ k' = k
      BY <1>5 DEF TakesAgain, TakesFree, DoesNotWait, NotOwner, ReleasesOnce, Errors
    <2>2. pc' = pc
      BY <1>5 DEF TakesAgain, TakesFree, DoesNotWait, NotOwner, ReleasesOnce
    <2> QED BY <1>1, <2>1, <2>2, ErrorRuns
  <1> QED BY <1>2, <1>3, <1>4, <1>5 DEF MutexTake, MutexRelease

\* The history variables do not change what the kernel does.
LEMMA HistoryIpcInv == HistorySpec => []IpcInv
  <1>1. HistoryInit => Init
    BY DEF HistoryInit
  <1>2. [HistoryNext]_historyVars => [Next]_vars
    BY DEF HistoryNext, historyVars
  <1>3. HistorySpec => Spec
    BY <1>1, <1>2, PTL DEF HistorySpec, Spec
  <1> QED BY <1>3, AlwaysIpcInv, PTL

LEMMA NextRuns ==
  ASSUME IpcInv, RunInv, [HistoryNext]_historyVars
  PROVE  RunInv'
  <1> USE DEF HistoryNext
  <1>1. ASSUME Remembers, NEW t \in Clients, Calls(t, AllCalls) PROVE RunInv'
    <2>1. PICK c \in AllCalls :
            \/ c[1] = "take" /\ SemTake(t, c[2], c[3])
            \/ c[1] = "release" /\ SemRelease(t, c[2])
            \/ c[1] = "lock" /\ MutexTake(t, c[2], c[3])
            \/ c[1] = "unlock" /\ mutex[c[2]].owner = t /\ MutexRelease(t, c[2])
            \/ c[1] = "unlock another's" /\ mutex[c[2]].owner # t /\ MutexRelease(t, c[2])
            \/ c[1] = "sleep" /\ rt_thread_sleep(t, c[3])
            \/ c[1] = "yield" /\ rt_thread_yield(t)
      BY <1>1 DEF Calls
    <2>2. CASE c[1] = "take" /\ SemTake(t, c[2], c[3])
      BY <1>1, <2>2, CallTypes, SemTakeRuns
    <2>3. CASE c[1] = "release" /\ SemRelease(t, c[2])
      BY <1>1, <2>3, CallTypes, SemReleaseRuns
    <2>4. CASE c[1] = "lock" /\ MutexTake(t, c[2], c[3])
      BY <1>1, <2>4, CallTypes, MutexRuns
    <2>5. CASE c[1] \in {"unlock", "unlock another's"} /\ MutexRelease(t, c[2])
      <3>1. 0 \in Int
        OBVIOUS
      <3> QED BY <1>1, <2>5, <3>1, CallTypes, MutexRuns
    <2>6. CASE c[1] = "sleep" /\ rt_thread_sleep(t, c[3])
      BY <1>1, <2>6, CallTypes, SleepRuns
    <2>7. CASE rt_thread_yield(t)
      BY <1>1, <2>7, ScheduleRuns
    <2> QED BY <2>1, <2>2, <2>3, <2>4, <2>5, <2>6, <2>7
  <1>2. ASSUME Remembers, NEW t \in Clients, GoesOn(t) PROVE RunInv'
    BY <1>2, ScheduleRuns, ReturnRuns DEF GoesOn
  <1>3. CASE Remembers /\ Tick
    BY <1>3, TickRuns
  <1>4. ASSUME Remembers, NEW s \in Sems, IsrRelease(s) PROVE RunInv'
    BY <1>4, IsrReleaseRuns
  <1>5. CASE UNCHANGED historyVars
    BY <1>5 DEF historyVars, vars, RunInv, Highest
  <1> QED BY <1>1, <1>2, <1>3, <1>4, <1>5 DEF Next, Interrupt

LEMMA InitRuns ==
  ASSUME HistoryInit
  PROVE  RunInv
  <1>1. PICK order \in SetToSeqs(Threads) : k = Started(order)
    BY DEF HistoryInit, Init
  <1>2. Highest(k)
    BY <1>1, StartedWhat
  <1> QED BY <1>2 DEF HistoryInit, RunInv
-----------------------------------------------------------------------------
(***************************************************************************)
(* Priority inheritance.  That an owner has no lower priority than those   *)
(* who wait takes more to go on: where they wait by priority they do so in *)
(* the order of their priorities, as the next owner is their first; a      *)
(* thread that owns nothing has its own priority, as that is what it is    *)
(* given back; and the owner itself does not wait, as its priority changes *)
(* and the lists are not sorted again.                                     *)
(***************************************************************************)
\* Whoever owns m owns nothing else and waits for nothing else.
One(x, j) ==
  \A m, n \in Mutexes, t \in Threads :
    x[m].owner = t /\ (x[n].owner = t \/ t \in WaitsAt(j, n)) => m = n

LEMMA NotNested ==
  /\ ~Nested => One(mutex, k)
  /\ ~Nested' => One(mutex', k')
  <1>1. ASSUME ~Nested PROVE One(mutex, k)
    <2> SUFFICES ASSUME NEW m \in Mutexes, NEW n \in Mutexes, NEW t \in Threads,
                        mutex[m].owner = t, mutex[n].owner = t \/ t \in WaitsAt(k, n)
                 PROVE  m = n
      BY DEF One
    <2>1. Contains(k.waiting[n], t) <=> t \in WaitsAt(k, n)
      BY ContainsWhat DEF WaitsAt
    <2>2. {m, n} \subseteq Owns(t) \union (WaitsIn(t) \intersect Mutexes)
      BY <2>1, ObjectFacts DEF Owns, WaitsIn
    <2> QED BY <1>1, <2>2 DEF Nested
  <1>2. ASSUME ~Nested' PROVE One(mutex', k')
    <2> SUFFICES ASSUME NEW m \in Mutexes, NEW n \in Mutexes, NEW t \in Threads,
                        mutex'[m].owner = t, mutex'[n].owner = t \/ t \in WaitsAt(k', n)
                 PROVE  m = n
      BY DEF One
    <2>1. Contains(k'.waiting[n], t) <=> t \in WaitsAt(k', n)
      BY ContainsWhat DEF WaitsAt
    <2>2. {m, n} \subseteq (Owns(t) \union (WaitsIn(t) \intersect Mutexes))'
      BY <2>1, ObjectFacts DEF Owns, WaitsIn
    <2> QED BY <1>2, <2>2 DEF Nested
  <1> QED BY <1>1, <1>2

Owner(m) == mutex[m].owner

\* An owner will be given back the priority it was made with.
OriginalsOK == \A m \in Mutexes : Owner(m) /= Null => mutex[m].original = InitPriority[Owner(m)]

FreeOK ==
  \A t \in Threads : (\A m \in Mutexes : Owner(m) /= t) => k.priority[t] = InitPriority[t]

LineOK(m) ==
  /\ m \in PrioObjects => InPriority(k.waiting[m], k.priority)
  /\ \A u \in WaitsAt(k, m) :
       Owner(m) /= u /\ (NotInherited(m, u) \/ k.priority[Owner(m)] <= k.priority[u])

Inherited == OriginalsOK /\ FreeOK /\ \A m \in Mutexes : LineOK(m)

LeavesBehind == behind' = LeftBehind

\* Who is left behind stays so while it waits and the owner is the same; a new
\* owner leaves all behind that wait.
LEMMA StillBehind ==
  ASSUME IpcInv', LeavesBehind, NEW m \in Mutexes, NEW u \in WaitsAt(k', m)
  PROVE  /\ Owner(m)' = Owner(m) /\ NotInherited(m, u) => NotInherited(m, u)'
         /\ Owner(m)' /= Owner(m) /\ m \notin PrioObjects => NotInherited(m, u)'
  <1>1. u \in ToSet(k'.waiting[m])
    <2>1. m \in Objects /\ k'.waiting[m] \in Seq(Threads)
      BY ObjectFacts DEF IpcInv, KernelInv, KState
    <2> QED BY <2>1 DEF ToSet, WaitsAt, Elems
  <1> QED BY <1>1 DEF LeavesBehind, LeftBehind, NotInherited, Owner

InheritInv == nested \in BOOLEAN /\ (~nested => ~Nested /\ Inherited)

LEMMA InheritedWhat ==
  ASSUME IpcInv, InheritInv
  PROVE  Inheritance
  <1> SUFFICES ASSUME ~nested, NEW t \in Threads
               PROVE  /\ \A m \in Owns(t) : \A u \in ToSet(k.waiting[m]) :
                           k.priority[t] <= k.priority[u] \/ NotInherited(m, u)
                      /\ Owns(t) = {} => k.priority[t] = InitPriority[t]
    BY DEF Inheritance
  <1>1. Inherited
    BY DEF InheritInv
  <1>2. ASSUME NEW m \in Owns(t), NEW u \in ToSet(k.waiting[m])
        PROVE  k.priority[t] <= k.priority[u] \/ NotInherited(m, u)
    <2>1. m \in Mutexes /\ Owner(m) = t
      BY DEF Owns, Owner
    <2>2. u \in WaitsAt(k, m)
      <3>1. m \in Objects /\ k.waiting[m] \in Seq(Threads)
        BY <2>1, ObjectFacts DEF IpcInv, KernelInv, KState
      <3> QED BY <3>1 DEF ToSet, WaitsAt, Elems
    <2> QED BY <1>1, <2>1, <2>2 DEF Inherited, LineOK
  <1>3. ASSUME Owns(t) = {} PROVE k.priority[t] = InitPriority[t]
    BY <1>1, <1>3 DEF Inherited, FreeOK, Owns, Owner
  <1> QED BY <1>2, <1>3

\* What the calls rely on in the state before them.
LEMMA KernelTypes ==
  ASSUME IpcInv
  PROVE  /\ k \in KState /\ KInv(k)
         /\ k.priority \in [Threads -> Nat]
         /\ \A t \in Threads : k.priority[t] \in Nat
         /\ \A m \in Mutexes :
              /\ m \in Objects /\ k.waiting[m] \in Seq(Threads) /\ WaitsAt(k, m) \subseteq Threads
              /\ Owner(m) \in Threads \union {Null}
              /\ WaitsAt(k, m) /= {} \/ mutex[m].value = 0 => Owner(m) \in Threads
  <1>1. k \in KState /\ KInv(k) /\ TypeInv
    BY DEF IpcInv, KernelInv
  <1>2. k.priority \in [Threads -> Nat]
    BY <1>1, PriorityType DEF KState
  <1>3. ASSUME NEW m \in Mutexes
        PROVE  /\ m \in Objects /\ k.waiting[m] \in Seq(Threads) /\ WaitsAt(k, m) \subseteq Threads
               /\ Owner(m) \in Threads \union {Null}
               /\ WaitsAt(k, m) /= {} \/ mutex[m].value = 0 => Owner(m) \in Threads
    <2>1. m \in Objects /\ WaitsAt(k, m) \subseteq Threads /\ k.waiting[m] \in Seq(Threads)
      BY <1>1, ObjectFacts, WaitsType DEF KState
    <2>2. Owner(m) \in Threads \union {Null}
      BY <1>1, MutexType DEF Owner
    <2>3. Owner(m) = Null => WaitsAt(k, m) = {} /\ mutex[m].value = 1
      BY DEF IpcInv, MutexesOK, MutexOK, Owner
    <2> QED BY <2>1, <2>2, <2>3
  <1> QED BY <1>1, <1>2, <1>3

LEMMA SortedSame ==
  ASSUME NEW s \in Seq(Threads), NEW pr, NEW qr, InPriority(s, pr),
         \A u \in Elems(s) : qr[u] = pr[u]
  PROVE  InPriority(s, qr)
  <1> SUFFICES ASSUME NEW a \in 1 .. Len(s), NEW b \in 1 .. Len(s), a < b
               PROVE  qr[s[a]] <= qr[s[b]]
    BY DEF InPriority
  <1>1. s[a] \in Elems(s) /\ s[b] \in Elems(s)
    BY DEF Elems
  <1> QED BY <1>1 DEF InPriority

\* No priority changes, nobody joins a list and no mutex its owner.
LEMMA SameInherited ==
  ASSUME Inherited, IpcInv, IpcInv', LeavesBehind, k'.priority = k.priority,
         \A m \in Mutexes : InOrder(k.waiting[m], k'.waiting[m]),
         \A m \in Mutexes, t \in Threads : t \in WaitsAt(k', m) => t \in WaitsAt(k, m),
         \A m \in Mutexes : Owner(m)' = Owner(m) /\ mutex'[m].original = mutex[m].original
  PROVE  Inherited'
  <1>1. OriginalsOK' /\ FreeOK'
    BY DEF Inherited, OriginalsOK, FreeOK
  <1>2. ASSUME NEW m \in Mutexes PROVE LineOK(m)'
    <2>1. m \in PrioObjects => InPriority(k'.waiting[m], k'.priority)
      BY OrderSorted DEF Inherited, LineOK
    <2>2. WaitsAt(k', m) \subseteq Threads
      BY ObjectFacts, WaitsType DEF IpcInv, KernelInv
    <2>3. ASSUME NEW u \in WaitsAt(k', m)
          PROVE  /\ Owner(m)' /= u
                 /\ NotInherited(m, u)' \/ k'.priority[Owner(m)'] <= k'.priority[u]
      BY <2>2, StillBehind DEF Inherited, LineOK
    <2> QED BY <2>1, <2>3 DEF LineOK
  <1> QED BY <1>1, <1>2 DEF Inherited

\* The same for what only takes threads from the lists.
LEMMA ThinnerInherited ==
  ASSUME Inherited, IpcInv, IpcInv', LeavesBehind, k'.priority = k.priority, Thins(k, k'),
         \A t \in Threads : Same(k, k', t) \/ \A o \in Objects : t \notin WaitsAt(k', o),
         mutex' = mutex
  PROVE  Inherited'
  <1>1. \A m \in Mutexes : InOrder(k.waiting[m], k'.waiting[m])
    BY ObjectFacts DEF Thins
  <1>2. \A m \in Mutexes, t \in Threads : t \in WaitsAt(k', m) => t \in WaitsAt(k, m)
    BY ObjectFacts DEF Same
  <1>3. \A m \in Mutexes : Owner(m)' = Owner(m) /\ mutex'[m].original = mutex[m].original
    BY DEF Owner
  <1> QED BY <1>1, <1>2, <1>3, SameInherited

\* thread->error is set, or nothing is done to the kernel.
LEMMA ErrorInherited ==
  ASSUME Inherited, IpcInv, IpcInv', LeavesBehind, NEW t \in Threads, NEW e \in Errors,
         k' = [k EXCEPT !.error[t] = e] \/ k' = k,
         \A m \in Mutexes : Owner(m)' = Owner(m) /\ mutex'[m].original = mutex[m].original
  PROVE  Inherited'
  <1>1. k'.waiting = k.waiting /\ k'.priority = k.priority
    <2>1. CASE k' = [k EXCEPT !.error[t] = e]
      <3> DEFINE u == [k EXCEPT !.error[t] = e]
      <3>1. u.waiting = k.waiting /\ u.priority = k.priority
        BY ErrorWhat DEF IpcInv, KernelInv
      <3> HIDE DEF u
      <3> QED BY <2>1, <3>1 DEF u
    <2>2. CASE k' = k
      BY <2>2
    <2> QED BY <2>1, <2>2
  <1>2. Thins(k, k')
    BY <1>1, ThinsSame
  <1> QED BY <1>1, <1>2, SameInherited, ObjectFacts DEF Thins, WaitsAt

LEMMA TickInherited ==
  ASSUME Inherited, IpcInv, IpcInv', LeavesBehind, Tick
  PROVE  Inherited'
  <1>1. Passed(k, k') /\ mutex' = mutex
    BY TickWhat DEF Tick, IpcInv, KernelInv
  <1>2. k'.priority = k.priority /\ Thins(k, k')
    BY <1>1 DEF Passed
  <1>3. \A t \in Threads : Same(k, k', t) \/ \A o \in Objects : t \notin WaitsAt(k', o)
    BY <1>1 DEF Passed, Late, Woken
  <1> QED BY <1>1, <1>2, <1>3, ThinnerInherited

LEMMA ScheduleInherited ==
  ASSUME Inherited, IpcInv, IpcInv', LeavesBehind, NEW t, Schedule(t) \/ rt_thread_yield(t)
  PROVE  Inherited'
  <1>1. k' = rt_schedule(k) /\ mutex' = mutex
    BY DEF Schedule, rt_thread_yield
  <1>2. Passed(k, k') /\ \A s \in Threads : Same(k, k', s)
    BY <1>1, ScheduledWhat
  <1>3. k'.priority = k.priority /\ Thins(k, k')
    BY <1>2 DEF Passed
  <1> QED BY <1>1, <1>2, <1>3, ThinnerInherited

LEMMA ReturnInherited ==
  ASSUME Inherited, IpcInv, IpcInv', LeavesBehind, NEW t \in Clients, Return(t)
  PROVE  Inherited'
  <1>1. t \in Threads /\ "EOK" \in Errors
    BY DEF Clients, Errors
  <1>2. k' = [k EXCEPT !.error[t] = "EOK"] \/ k' = k
    BY DEF Return
  <1>3. \A m \in Mutexes : Owner(m)' = Owner(m) /\ mutex'[m].original = mutex[m].original
    BY DEF Return, Owner
  <1> QED BY <1>1, <1>2, <1>3, ErrorInherited

LEMMA SleepInherited ==
  ASSUME Inherited, IpcInv, IpcInv', LeavesBehind, NEW t \in Clients, NEW ticks \in Nat,
         rt_thread_sleep(t, ticks)
  PROVE  Inherited'
  <1>1. /\ t \in Threads /\ Runs(t) /\ mutex' = mutex
        /\ k' = rt_timer_start(rt_thread_suspend(k, t), t, ticks)
    BY DEF rt_thread_sleep, Clients
  <1>2. k.stat[t] = "RUNNING" /\ k \in KState /\ KInv(k)
    BY <1>1, RunsGets DEF IpcInv, KernelInv
  <1>3. /\ Kept(k, k') /\ Thins(k, k')
        /\ \A q \in Objects : t \notin WaitsAt(k', q)
        /\ \A s \in Threads \ {t} : Same(k, k', s)
    BY <1>1, <1>2, SleepWhat
  <1>4. k'.priority = k.priority
    BY <1>3 DEF Kept
  <1> QED BY <1>1, <1>3, <1>4, ThinnerInherited

LEMMA SemTakeInherited ==
  ASSUME Inherited, IpcInv, IpcInv', LeavesBehind, NEW t \in Clients, NEW s \in Sems, NEW time \in Int,
         SemTake(t, s, time)
  PROVE  Inherited'
  <1> DEFINE i == [k EXCEPT !.error[t] = "EOK"]
  <1>1. t \in Threads /\ s \in Objects /\ Runs(t) /\ mutex' = mutex
    BY ObjectFacts DEF SemTake, Clients
  <1>2. \A m \in Mutexes : Owner(m)' = Owner(m) /\ mutex'[m].original = mutex[m].original
    BY <1>1 DEF Owner
  <1>3. CASE k' = k
    <2>1. "EOK" \in Errors
      BY DEF Errors
    <2> QED BY <1>1, <1>2, <1>3, <2>1, ErrorInherited
  <1>4. CASE k' = WaitFor(i, s, t, time)
    <2>1. /\ i \in KState /\ KInv(i) /\ i.stat = k.stat /\ i.priority = k.priority
          /\ i.waiting = k.waiting
          /\ \A r \in Threads \ {t} : Same(k, i, r)
      BY <1>1, ErrorWhat DEF IpcInv, KernelInv, Errors
    <2>2. i.stat[t] = "RUNNING"
      BY <1>1, <2>1, RunsGets
    <2> HIDE DEF i
    <2>3. /\ Kept(i, k') /\ Joins(i, k', s, t)
          /\ \A q \in Objects : t \in WaitsAt(k', q) <=> q = s
          /\ \A r \in Threads \ {t} : Same(i, k', r)
      BY <1>1, <1>4, <2>1, <2>2, WaitForWhat
    <2>4. \A m \in Mutexes : m \in Objects \ {s}
      BY ObjectFacts
    <2>5. \A m \in Mutexes : InOrder(k.waiting[m], k'.waiting[m])
      BY <2>1, <2>3, <2>4 DEF Joins
    <2>6. \A m \in Mutexes, r \in Threads : r \in WaitsAt(k', m) => r \in WaitsAt(k, m)
      BY <2>1, <2>3, <2>4 DEF Same
    <2>7. k'.priority = k.priority
      BY <2>1, <2>3 DEF Kept
    <2> QED BY <1>2, <2>5, <2>6, <2>7, SameInherited
  <1> QED BY <1>3, <1>4 DEF SemTake

\* A post of a thread or of an interrupt
LEMMA PostInherited ==
  ASSUME Inherited, IpcInv, IpcInv', LeavesBehind, NEW s \in Sems,
         IsrRelease(s) \/ \E t \in Clients : SemRelease(t, s)
  PROVE  Inherited'
  <1> DEFINE j == rt_ipc_list_resume(k, s)
             h == Head(k.waiting[s])
  <1>1. /\ s \in Objects /\ k \in KState /\ KInv(k) /\ k.current \in Threads
        /\ mutex' = mutex
    BY ObjectFacts DEF IpcInv, KernelInv, IsrRelease, SemRelease, Posted
  <1>2. CASE k.waiting[s] = <<>>
    <2>1. k' = k
      BY <1>2 DEF IsrRelease, SemRelease
    <2>2. \A m \in Mutexes : Owner(m)' = Owner(m) /\ mutex'[m].original = mutex[m].original
      BY <1>1 DEF Owner
    <2>3. "EOK" \in Errors
      BY DEF Errors
    <2> QED BY <1>1, <2>1, <2>2, <2>3, ErrorInherited
  <1>3. CASE k.waiting[s] /= <<>>
    <2>1. k' = j \/ k' = rt_schedule(j)
      BY <1>3 DEF IsrRelease, SemRelease
    <2>2. WaitsAt(k, s) /= {}
      BY <1>1, <1>3, WaitsType
    <2>3. /\ j \in KState /\ KInv(j) /\ Kept(k, j) /\ j.current = k.current
          /\ h \in Threads /\ Woken(k, j, h) /\ Thins(k, j)
          /\ \A r \in Threads \ {h} : Same(k, j, r)
      BY <1>1, <2>2, ListResumeWhat
    <2> HIDE DEF j, h
    <2>4. /\ Kept(j, k') /\ Thins(j, k')
          /\ \A r \in Threads : Same(j, k', r)
      <3>1. CASE k' = j
        BY <3>1, ThinsSame DEF Kept, Same
      <3>2. CASE k' = rt_schedule(j)
        BY <1>1, <2>3, <3>2, ScheduleWhat
      <3> QED BY <2>1, <3>1, <3>2
    <2>5. Thins(k, k') /\ k'.priority = k.priority
      BY <2>3, <2>4, ThinsAgain DEF Kept
    <2>6. \A r \in Threads : Same(k, k', r) \/ \A o \in Objects : r \notin WaitsAt(k', o)
      BY <2>3, <2>4 DEF Same, Woken
    <2> QED BY <1>1, <2>5, <2>6, ThinnerInherited
  <1> QED BY <1>2, <1>3

LEMMA TakesFreeInherited ==
  ASSUME Inherited, IpcInv, IpcInv', LeavesBehind, One(mutex', k'), NEW t \in Clients, Runs(t),
         NEW m \in Mutexes, TakesFree(t, m)
  PROVE  Inherited'
  <1>1. /\ t \in Threads /\ mutex[m].owner /= t /\ mutex[m].value > 0
        /\ k' = [k EXCEPT !.error[t] = "EOK"] /\ "EOK" \in Errors
    BY DEF TakesFree, Clients, Errors
  <1>2. /\ mutex'[m].owner = t /\ mutex'[m].original = k.priority[t]
        /\ \A n \in Mutexes \ {m} : mutex'[n] = mutex[n]
    BY DEF TakesFree, IpcInv, TypeInv
  <1>3. k'.waiting = k.waiting /\ k'.priority = k.priority
    <2> DEFINE u == [k EXCEPT !.error[t] = "EOK"]
    <2>1. u.waiting = k.waiting /\ u.priority = k.priority
      BY <1>1, ErrorWhat DEF IpcInv, KernelInv
    <2> HIDE DEF u
    <2> QED BY <1>1, <2>1 DEF u
  <1>4. Owner(m) = Null /\ WaitsAt(k, m) = {}
    BY <1>1, ObjectFacts DEF IpcInv, MutexesOK, MutexOK, Owner
  \* It owns nothing yet: its priority is its own.
  <1>5. \A n \in Mutexes : mutex[n].owner /= t
    BY <1>1, <1>2 DEF One
  <1>6. k.priority[t] = InitPriority[t]
    BY <1>1, <1>5 DEF Inherited, FreeOK, Owner
  <1>7. OriginalsOK'
    BY <1>2, <1>6 DEF Inherited, OriginalsOK, Owner
  <1>8. FreeOK'
    BY <1>2, <1>3, <1>4, ObjectFacts DEF Inherited, FreeOK, Owner
  <1>9. ASSUME NEW n \in Mutexes PROVE LineOK(n)'
    <2>1. /\ WaitsAt(k', n) = WaitsAt(k, n)
          /\ n \in PrioObjects => InPriority(k'.waiting[n], k'.priority)
      BY <1>3 DEF WaitsAt, Inherited, LineOK
    <2>2. n /= m => Owner(n)' = Owner(n)
      BY <1>2 DEF Owner
    <2>3. ASSUME NEW u \in WaitsAt(k', n)
          PROVE  /\ Owner(n)' /= u
                 /\ NotInherited(n, u)' \/ k'.priority[Owner(n)'] <= k'.priority[u]
      BY <1>3, <1>4, <2>1, <2>2, StillBehind DEF Inherited, LineOK
    <2> QED BY <2>1, <2>3 DEF LineOK
  <1> QED BY <1>7, <1>8, <1>9 DEF Inherited

\* The thread that waits takes its place among the others, and the owner's
\* priority is at least its own.
LEMMA WaitsForMutexInherited ==
  ASSUME Inherited, IpcInv, IpcInv', LeavesBehind, One(mutex, k),
         NEW t \in Clients, Runs(t), NEW m \in Mutexes, NEW time \in Int,
         WaitsForMutex(t, m, time)
  PROVE  Inherited'
  <1> DEFINE i == [k EXCEPT !.error[t] = "EOK"]
             j == Boosted(i, m, t)
             o == mutex[m].owner
  <1>1. /\ o /= t /\ mutex[m].value = 0 /\ mutex' = mutex /\ t \in Threads
        /\ k' = WaitFor(j, m, t, time) /\ m \in Objects
    BY ObjectFacts DEF WaitsForMutex, Clients
  <1>2. k.stat[t] = "RUNNING" /\ \A q \in Objects : t \notin WaitsAt(k, q)
    BY <1>1, RunsGets
  <1>3. /\ i \in KState /\ KInv(i) /\ i.stat = k.stat /\ i.waiting = k.waiting
        /\ i.priority = k.priority
        /\ \A s \in Threads \ {t} : Same(k, i, s)
    BY <1>1, ErrorWhat DEF IpcInv, KernelInv, Errors
  <1> HIDE DEF i
  <1>4. o \in Threads
    BY <1>1, KernelTypes DEF Owner
  <1>5. /\ j \in KState /\ KInv(j) /\ j.stat = i.stat
        /\ \A s \in Threads \ {o} : j.priority[s] = i.priority[s]
        /\ j.priority[o] <= i.priority[o] /\ j.priority[o] <= i.priority[t]
        /\ (\A s \in Threads : Same(i, j, s)) /\ Thins(i, j)
    BY <1>1, <1>3, <1>4, BoostedWhat
  <1> HIDE DEF j
  <1>6. /\ k' \in KState /\ Kept(j, k') /\ Joins(j, k', m, t)
        /\ \A q \in Objects : t \in WaitsAt(k', q) <=> q = m
        /\ \A s \in Threads \ {t} : Same(j, k', s)
    <2>1. j.stat[t] = "RUNNING"
      BY <1>2, <1>3, <1>5
    <2> QED BY <1>1, <1>5, <2>1, WaitForWhat
  <1>7. k'.priority = j.priority
    BY <1>6 DEF Kept
  <1>8. \A s \in Threads \ {t}, q \in Mutexes : s \in WaitsAt(k', q) <=> s \in WaitsAt(k, q)
    BY <1>3, <1>5, <1>6, ObjectFacts DEF Same
  \* The owner does not wait.
  <1>9. \A q \in Mutexes : o \notin WaitsAt(k, q)
    BY <1>4 DEF One, Inherited, LineOK, Owner
  <1>10. ASSUME NEW q \in Mutexes, q \in PrioObjects
         PROVE  InPriority(k'.waiting[q], k'.priority)
    <2>1. /\ k.waiting[q] \in Seq(Threads) /\ InPriority(k.waiting[q], k.priority)
          /\ WaitsAt(k, q) \subseteq Threads
      BY <1>10, KernelTypes DEF Inherited, LineOK
    <2>2. \A u \in Elems(k.waiting[q]) : j.priority[u] = k.priority[u]
      BY <1>3, <1>5, <1>9, <2>1 DEF WaitsAt
    <2>3. InPriority(k.waiting[q], j.priority)
      BY <2>1, <2>2, SortedSame
    <2>4. InOrder(k.waiting[q], j.waiting[q])
      BY <1>3, <1>5, ObjectFacts DEF Thins
    <2>5. InPriority(j.waiting[q], j.priority)
      BY <2>3, <2>4, OrderSorted
    <2>6. CASE q = m
      BY <1>6, <1>7, <1>10, <2>5, <2>6 DEF Joins
    <2>7. CASE q /= m
      <3>1. InOrder(j.waiting[q], k'.waiting[q])
        BY <1>6, <2>7, ObjectFacts DEF Joins
      <3> QED BY <1>7, <2>5, <3>1, OrderSorted
    <2> QED BY <2>6, <2>7
  <1>11. ASSUME NEW q \in Mutexes, NEW u \in WaitsAt(k', q)
         PROVE  /\ Owner(q)' = Owner(q) /\ Owner(q) /= u
                /\ NotInherited(q, u)' \/ k'.priority[Owner(q)] <= k'.priority[u]
    <2>0. Owner(q)' = Owner(q)
      BY <1>1 DEF Owner
    <2>1. u \in Threads /\ q \in Objects
      BY <1>6, WaitsType, ObjectFacts
    <2>2. CASE u = t
      <3>1. q = m
        BY <1>6, <2>1, <2>2
      <3> QED BY <1>1, <1>3, <1>5, <1>7, <2>0, <2>2, <3>1 DEF Owner
    <2>3. CASE u /= t
      <3>1. u \in WaitsAt(k, q) /\ u /= o
        BY <1>8, <1>9, <2>1, <2>3
      <3>2. /\ Owner(q) /= u /\ Owner(q) \in Threads
            /\ NotInherited(q, u) \/ k.priority[Owner(q)] <= k.priority[u]
        BY <3>1, KernelTypes DEF Inherited, LineOK
      <3>6. CASE NotInherited(q, u)
        BY <2>0, <3>2, <3>6, StillBehind
      <3>3. k'.priority[u] = k.priority[u]
        BY <1>3, <1>5, <1>7, <2>1, <3>1
      <3>4. CASE Owner(q) = o /\ ~NotInherited(q, u)
        <4>1. k'.priority[o] <= k.priority[o] /\ k'.priority[o] \in Nat
          BY <1>3, <1>4, <1>5, <1>6, <1>7, PriorityType DEF KState
        <4>2. k.priority[o] \in Nat /\ k.priority[u] \in Nat
          BY <1>4, <2>1, KernelTypes
        <4> QED BY <2>0, <3>2, <3>3, <3>4, <4>1, <4>2
      <3>5. CASE Owner(q) /= o /\ ~NotInherited(q, u)
        BY <1>3, <1>5, <1>7, <2>0, <3>2, <3>3, <3>5
      <3> QED BY <3>4, <3>5, <3>6
    <2> QED BY <2>2, <2>3
  <1>12. OriginalsOK' /\ \A q \in Mutexes : Owner(q)' = Owner(q)
    BY <1>1 DEF Inherited, OriginalsOK, Owner
  <1>13. FreeOK'
    BY <1>1, <1>3, <1>5, <1>7 DEF Inherited, FreeOK, Owner
  <1>14. \A q \in Mutexes : LineOK(q)'
    BY <1>10, <1>11 DEF LineOK
  <1> QED BY <1>12, <1>13, <1>14 DEF Inherited

LEMMA SetsFreeInherited ==
  ASSUME Inherited, IpcInv, IpcInv', LeavesBehind, One(mutex, k), NEW t \in Clients, Runs(t),
         NEW m \in Mutexes, mutex[m].owner = t, SetsFree(t, m)
  PROVE  Inherited'
  <1>1. /\ k' = Restored(t, m) /\ t \in Threads /\ m \in Objects
        /\ k.waiting[m] = <<>> /\ mutex' = [mutex EXCEPT ![m] = FreeMutex]
    BY ObjectFacts DEF SetsFree, Clients
  <1>2. /\ k' \in KState /\ Thins(k, k') /\ \A s \in Threads : Same(k, k', s)
        /\ k'.priority = [k.priority EXCEPT ![t] = mutex[m].original]
    BY <1>1, RestoredWhat
  <1>3. /\ mutex'[m].owner = Null
        /\ \A n \in Mutexes \ {m} : mutex'[n] = mutex[n]
    BY <1>1 DEF IpcInv, TypeInv, FreeMutex
  <1>4. /\ k'.priority[t] = InitPriority[t]
        /\ \A s \in Threads \ {t} : k'.priority[s] = k.priority[s]
    <2>1. mutex[m].original = InitPriority[t]
      BY <1>1, ObjectFacts DEF Inherited, OriginalsOK, Owner
    <2> QED BY <1>1, <1>2, <2>1, KernelTypes
  <1>5. \A q \in Objects : t \notin WaitsAt(k, q)
    BY <1>1, RunsGets
  <1>6. \A s \in Threads, q \in Mutexes : s \in WaitsAt(k', q) <=> s \in WaitsAt(k, q)
    BY <1>2, ObjectFacts DEF Same
  <1>7. WaitsAt(k, m) = {}
    BY <1>1, KernelTypes, WaitsType
  <1>8. \A n \in Mutexes \ {m} : mutex[n].owner /= t
    BY <1>1 DEF One
  <1>9. OriginalsOK'
    BY <1>3 DEF Inherited, OriginalsOK, Owner
  <1>10. FreeOK'
    BY <1>1, <1>3, <1>4 DEF Inherited, FreeOK, Owner
  <1>11. ASSUME NEW q \in Mutexes PROVE LineOK(q)'
    <2>1. /\ k.waiting[q] \in Seq(Threads)
          /\ q \in PrioObjects => InPriority(k.waiting[q], k.priority)
          /\ WaitsAt(k, q) \subseteq Threads
      BY KernelTypes DEF Inherited, LineOK
    <2>2. \A u \in Elems(k.waiting[q]) : k'.priority[u] = k.priority[u]
      BY <1>4, <1>5, <2>1, ObjectFacts DEF WaitsAt
    <2>3. ASSUME q \in PrioObjects PROVE InPriority(k'.waiting[q], k'.priority)
      <3>1. InPriority(k.waiting[q], k'.priority)
        BY <2>1, <2>2, <2>3, SortedSame
      <3> QED BY <1>2, <3>1, OrderSorted, ObjectFacts DEF Thins
    <2>4. ASSUME NEW u \in WaitsAt(k', q)
          PROVE  /\ Owner(q)' /= u
                 /\ NotInherited(q, u)' \/ k'.priority[Owner(q)'] <= k'.priority[u]
      <3>1. u \in Threads
        BY <1>2, WaitsType, ObjectFacts
      <3>2. u \in WaitsAt(k, q) /\ q /= m
        BY <1>6, <1>7, <3>1
      <3>3. Owner(q)' = Owner(q) /\ Owner(q) \in Threads \ {t}
        BY <1>3, <1>8, <3>2, KernelTypes DEF Owner
      <3>4. /\ Owner(q) /= u
            /\ NotInherited(q, u) \/ k.priority[Owner(q)] <= k.priority[u]
        BY <3>2 DEF Inherited, LineOK
      <3>5. NotInherited(q, u) => NotInherited(q, u)'
        BY <3>3, StillBehind
      <3> QED BY <1>4, <1>5, <3>1, <3>2, <3>3, <3>4, <3>5, ObjectFacts
    <2> QED BY <2>3, <2>4 DEF LineOK
  <1> QED BY <1>9, <1>10, <1>11 DEF Inherited

\* The next owner is the first of those who wait: the others have no higher
\* priority where they wait by priority and are left behind where they do not,
\* and it has its own, as it owned nothing.
LEMMA HandsOverInherited ==
  ASSUME Inherited, IpcInv, IpcInv', LeavesBehind, One(mutex, k), NEW t \in Clients, Runs(t),
         NEW m \in Mutexes, mutex[m].owner = t, HandsOver(t, m)
  PROVE  Inherited'
  <1> DEFINE j == Restored(t, m)
             h == Head(j.waiting[m])
  <1>1. /\ k.waiting[m] # <<>> /\ k' = rt_ipc_list_resume(j, m)
        /\ mutex' = [mutex EXCEPT ![m].owner = h, ![m].original = j.priority[h]]
        /\ t \in Threads /\ m \in Objects /\ k \in KState
    BY ObjectFacts DEF HandsOver, Clients, IpcInv, KernelInv
  <1>2. /\ j \in KState /\ KInv(j) /\ (\A s \in Threads : Same(k, j, s)) /\ Thins(k, j)
        /\ j.priority = [k.priority EXCEPT ![t] = mutex[m].original]
    BY <1>1, RestoredWhat
  <1> HIDE DEF j
  <1>3. WaitsAt(j, m) /= {}
    <2>1. WaitsAt(k, m) /= {} /\ WaitsAt(k, m) \subseteq Threads
      BY <1>1, WaitsType
    <2> QED BY <1>1, <1>2, <2>1 DEF Same
  <1>4. /\ k' \in KState /\ h \in Threads /\ h \in WaitsAt(j, m) /\ Thins(j, k')
        /\ Kept(j, k') /\ \A o \in Objects : h \notin WaitsAt(k', o)
        /\ \A s \in Threads \ {h} : Same(j, k', s)
    BY <1>1, <1>2, <1>3, ListResumeWhat DEF Woken
  <1>5. /\ mutex'[m].owner = h /\ mutex'[m].original = j.priority[h]
        /\ \A n \in Mutexes \ {m} : mutex'[n] = mutex[n]
    BY <1>1 DEF IpcInv, TypeInv, MutexRecord
  <1>6. /\ k'.priority = j.priority /\ k'.priority[t] = InitPriority[t]
        /\ \A s \in Threads \ {t} : k'.priority[s] = k.priority[s]
    <2>1. mutex[m].original = InitPriority[t]
      BY <1>1, ObjectFacts DEF Inherited, OriginalsOK, Owner
    <2> QED BY <1>1, <1>2, <1>4, <2>1, KernelTypes DEF Kept
  <1>7. \A q \in Objects : t \notin WaitsAt(k, q)
    BY <1>1, RunsGets
  <1>8. \A q \in Mutexes : WaitsAt(k', q) \subseteq WaitsAt(k, q)
    <2> SUFFICES ASSUME NEW q \in Mutexes, NEW u \in WaitsAt(k', q) PROVE u \in WaitsAt(k, q)
      OBVIOUS
    <2>1. q \in Objects /\ u \in Threads \ {h}
      BY <1>4, WaitsType, ObjectFacts
    <2> QED BY <1>2, <1>4, <2>1 DEF Same
  <1>9. h \in WaitsAt(k, m) /\ h /= t
    BY <1>1, <1>2, <1>4, <1>7 DEF Same
  <1>10. \A n \in Mutexes : mutex[n].owner /= h
    <2>1. mutex[m].owner /= h
      BY <1>9
    <2> QED BY <1>4, <1>9, <2>1 DEF One
  <1>11. \A n \in Mutexes \ {m} : mutex[n].owner /= t
    BY <1>1 DEF One
  <1>12. k.priority[h] = InitPriority[h] /\ k'.priority[h] = k.priority[h]
    BY <1>4, <1>6, <1>9, <1>10 DEF Inherited, FreeOK, Owner
  <1> HIDE DEF h
  <1>13. OriginalsOK'
    BY <1>5, <1>6, <1>12 DEF Inherited, OriginalsOK, Owner
  <1>14. FreeOK'
    <2> SUFFICES ASSUME NEW s \in Threads, \A n \in Mutexes : mutex'[n].owner /= s
                 PROVE  k'.priority[s] = InitPriority[s]
      BY DEF FreeOK, Owner
    <2>1. CASE s = t
      BY <1>6, <2>1
    <2>2. CASE s /= t
      <3>1. \A n \in Mutexes : mutex[n].owner /= s
        BY <1>5, <2>2
      <3> QED BY <1>6, <2>2, <3>1 DEF Inherited, FreeOK, Owner
    <2> QED BY <2>1, <2>2
  <1>15. ASSUME NEW q \in Mutexes, q \in PrioObjects
         PROVE  InPriority(j.waiting[q], j.priority) /\ InPriority(k'.waiting[q], k'.priority)
    <2>1. /\ k.waiting[q] \in Seq(Threads) /\ InPriority(k.waiting[q], k.priority)
          /\ WaitsAt(k, q) \subseteq Threads
      BY <1>15, KernelTypes DEF Inherited, LineOK
    <2>2. \A u \in Elems(k.waiting[q]) : j.priority[u] = k.priority[u]
      BY <1>6, <1>7, <2>1, ObjectFacts DEF WaitsAt
    <2>3. InPriority(j.waiting[q], j.priority)
      <3>1. InPriority(k.waiting[q], j.priority)
        BY <2>1, <2>2, SortedSame
      <3> QED BY <1>2, <3>1, OrderSorted, ObjectFacts DEF Thins
    <2>4. InOrder(j.waiting[q], k'.waiting[q])
      BY <1>4, ObjectFacts DEF Thins
    <2> QED BY <1>6, <2>3, <2>4, OrderSorted
  <1>16. ASSUME NEW q \in Mutexes, NEW u \in WaitsAt(k', q)
         PROVE  /\ Owner(q)' /= u
                /\ NotInherited(q, u)' \/ k'.priority[Owner(q)'] <= k'.priority[u]
    <2>1. u \in Threads /\ q \in Objects /\ u /= h
      BY <1>4, WaitsType, ObjectFacts
    <2>2. u \in WaitsAt(k, q) /\ u /= t
      BY <1>7, <1>8, <2>1
    <2>3. CASE q = m /\ q \in PrioObjects
      <3>1. u \in Elems(j.waiting[m])
        BY <1>2, <2>1, <2>2, <2>3 DEF Same, WaitsAt
      <3>2. j.waiting[m] \in Seq(Threads) /\ j.priority \in [Threads -> Nat]
        BY <1>1, <1>2, PriorityType DEF KState
      <3>3. j.priority[Head(j.waiting[m])] <= j.priority[u]
        BY <1>15, <2>3, <3>1, <3>2, HeadSorted
      <3> QED BY <1>5, <1>6, <2>1, <2>3, <3>3 DEF h, Owner
    <2>5. CASE q = m /\ q \notin PrioObjects
      <3>1. Owner(q)' = h /\ Owner(q) = t
        BY <1>1, <1>5, <2>5 DEF Owner
      <3>2. NotInherited(q, u)'
        BY <1>9, <2>5, <3>1, StillBehind
      <3> QED BY <2>1, <3>1, <3>2
    <2>4. CASE q /= m
      <3>1. Owner(q)' = Owner(q) /\ Owner(q) \in Threads \ {t}
        BY <1>5, <1>11, <2>2, <2>4, KernelTypes DEF Owner
      <3>2. /\ Owner(q) /= u
            /\ NotInherited(q, u) \/ k.priority[Owner(q)] <= k.priority[u]
        BY <2>2 DEF Inherited, LineOK
      <3>3. NotInherited(q, u) => NotInherited(q, u)'
        BY <3>1, StillBehind
      <3> QED BY <1>6, <2>1, <2>2, <3>1, <3>2, <3>3
    <2> QED BY <2>3, <2>4, <2>5
  <1>17. \A q \in Mutexes : LineOK(q)'
    BY <1>15, <1>16 DEF LineOK
  <1> QED BY <1>13, <1>14, <1>17 DEF Inherited

LEMMA MutexInherited ==
  ASSUME Inherited, IpcInv, IpcInv', LeavesBehind, One(mutex, k), One(mutex', k'),
         NEW t \in Clients, NEW m \in Mutexes, NEW time \in Int,
         MutexTake(t, m, time) \/ MutexRelease(t, m)
  PROVE  Inherited'
  <1>1. Runs(t) /\ t \in Threads
    BY DEF MutexTake, MutexRelease, Clients
  <1>2. CASE WaitsForMutex(t, m, time)
    BY <1>1, <1>2, WaitsForMutexInherited
  <1>3. CASE mutex[m].owner = t /\ HandsOver(t, m)
    BY <1>1, <1>3, HandsOverInherited
  <1>4. CASE mutex[m].owner = t /\ SetsFree(t, m)
    BY <1>1, <1>4, SetsFreeInherited
  <1>5. CASE TakesFree(t, m)
    BY <1>1, <1>5, TakesFreeInherited
  <1>6. CASE TakesAgain(t, m) \/ DoesNotWait(t, m) \/ NotOwner(t, m) \/ ReleasesOnce(t, m)
    <2>1. \E e \in Errors : k' = [k EXCEPT !.error[t] = e] \/ k' = k
      BY <1>6 DEF TakesAgain, DoesNotWait, NotOwner, ReleasesOnce, Errors
    <2>2. /\ \A n \in Mutexes \ {m} : mutex'[n] = mutex[n]
          /\ mutex'[m].owner = mutex[m].owner /\ mutex'[m].original = mutex[m].original
      BY <1>6 DEF TakesAgain, DoesNotWait, NotOwner, ReleasesOnce, IpcInv, TypeInv, MutexRecord
    <2>3. \A n \in Mutexes : Owner(n)' = Owner(n) /\ mutex'[n].original = mutex[n].original
      BY <2>2 DEF Owner
    <2> QED BY <1>1, <2>1, <2>3, ErrorInherited
  <1> QED BY <1>2, <1>3, <1>4, <1>5, <1>6 DEF MutexTake, MutexRelease

LEMMA NextInherited ==
  ASSUME Inherited, IpcInv, IpcInv', LeavesBehind, One(mutex, k), One(mutex', k'),
         Next
  PROVE  Inherited'
  <1>1. ASSUME NEW t \in Clients, Calls(t, AllCalls) PROVE Inherited'
    <2>1. PICK c \in AllCalls :
            \/ c[1] = "take" /\ SemTake(t, c[2], c[3])
            \/ c[1] = "release" /\ SemRelease(t, c[2])
            \/ c[1] = "lock" /\ MutexTake(t, c[2], c[3])
            \/ c[1] = "unlock" /\ mutex[c[2]].owner = t /\ MutexRelease(t, c[2])
            \/ c[1] = "unlock another's" /\ mutex[c[2]].owner # t /\ MutexRelease(t, c[2])
            \/ c[1] = "sleep" /\ rt_thread_sleep(t, c[3])
            \/ c[1] = "yield" /\ rt_thread_yield(t)
      BY <1>1 DEF Calls
    <2>2. CASE c[1] = "take" /\ SemTake(t, c[2], c[3])
      BY <2>2, CallTypes, SemTakeInherited
    <2>3. CASE c[1] = "release" /\ SemRelease(t, c[2])
      BY <2>3, CallTypes, PostInherited
    <2>4. CASE c[1] = "lock" /\ MutexTake(t, c[2], c[3])
      BY <2>4, CallTypes, MutexInherited
    <2>5. CASE c[1] \in {"unlock", "unlock another's"} /\ MutexRelease(t, c[2])
      <3>1. 0 \in Int
        OBVIOUS
      <3> QED BY <2>5, <3>1, CallTypes, MutexInherited
    <2>6. CASE c[1] = "sleep" /\ rt_thread_sleep(t, c[3])
      BY <2>6, CallTypes, SleepInherited
    <2>7. CASE rt_thread_yield(t)
      BY <2>7, ScheduleInherited
    <2> QED BY <2>1, <2>2, <2>3, <2>4, <2>5, <2>6, <2>7
  <1>2. ASSUME NEW t \in Clients, GoesOn(t) PROVE Inherited'
    BY <1>2, ScheduleInherited, ReturnInherited DEF GoesOn
  <1>3. CASE Tick
    BY <1>3, TickInherited
  <1>4. ASSUME NEW s \in Sems, IsrRelease(s) PROVE Inherited'
    BY <1>4, PostInherited
  <1> QED BY <1>1, <1>2, <1>3, <1>4 DEF Next, Interrupt

LEMMA NextInherit ==
  ASSUME InheritInv, IpcInv, IpcInv',
         [HistoryNext]_historyVars
  PROVE  InheritInv'
  <1>1. CASE HistoryNext
    <2>1. Next /\ nested' = (nested \/ Nested') /\ LeavesBehind
      BY <1>1 DEF HistoryNext, Remembers, LeavesBehind
    <2>2. nested' \in BOOLEAN
      BY <2>1
    <2>3. ASSUME ~nested' PROVE ~Nested' /\ Inherited'
      <3>1. ~nested /\ ~Nested'
        BY <2>1, <2>3
      <3>2. ~Nested /\ Inherited
        BY <3>1 DEF InheritInv
      <3>3. One(mutex, k) /\ One(mutex', k')
        BY <3>1, <3>2, NotNested
      <3> QED BY <2>1, <3>1, <3>2, <3>3, NextInherited
    <2> QED BY <2>2, <2>3 DEF InheritInv
  <1>2. CASE UNCHANGED historyVars
    <2>1. k' = k /\ mutex' = mutex /\ nested' = nested /\ behind' = behind
      BY <1>2 DEF historyVars, vars
    <2>2. Nested' = Nested
      BY <2>1 DEF Nested, Owns, WaitsIn
    <2>3. Inherited' = Inherited
      BY <2>1 DEF Inherited, OriginalsOK, FreeOK, LineOK, NotInherited, Owner
    <2> QED BY <2>1, <2>2, <2>3 DEF InheritInv
  <1> QED BY <1>1, <1>2

LEMMA InitInherit ==
  ASSUME HistoryInit
  PROVE  InheritInv
  <1>1. PICK order \in SetToSeqs(Threads) : k = Started(order)
    BY DEF HistoryInit, Init
  <1>2. /\ k.priority = InitPriority /\ k \in KState
        /\ \A t \in Threads : \A o \in Objects : t \notin WaitsAt(k, o)
    BY <1>1, StartedWhat
  <1>3. \A m \in Mutexes : mutex[m].owner = Null
    BY DEF HistoryInit, Init, FreeMutex
  <1>4. \A m \in Mutexes : m \in Objects /\ k.waiting[m] = <<>> /\ WaitsAt(k, m) = {}
    BY <1>2, ObjectFacts, WaitsType
  <1>5. ~Nested
    <2>1. \A t \in Threads : Owns(t) = {} /\ WaitsIn(t) \intersect Mutexes = {}
      BY <1>3, <1>4, ContainsWhat, ObjectFacts DEF Owns, WaitsIn, WaitsAt
    <2> QED BY <2>1 DEF Nested
  <1>6. OriginalsOK /\ FreeOK
    BY <1>2, <1>3 DEF OriginalsOK, FreeOK, Owner
  <1>7. \A m \in Mutexes : LineOK(m)
    BY <1>4 DEF LineOK, InPriority
  <1> QED BY <1>5, <1>6, <1>7 DEF HistoryInit, InheritInv, Inherited

-----------------------------------------------------------------------------
(***************************************************************************)
(* The theorems.                                                           *)
(***************************************************************************)
\* Whatever the threads, their priorities and slices, the range of the tick
\* and the objects: the kernel's lists, values and counts have their types,
\* and the bounds are kept.
THEOREM KernelTyped == Spec => []TypeOK
  BY AlwaysIpcInv, InvType, PTL

\* What rt_schedule takes for granted (scheduler.c:418-530): a thread's state
\* and priority tell the one list it is in, and the ready group has exactly the
\* priorities with a ready thread, also after a time-out, a resumption or a
\* change of priority by another thread or an interrupt.
THEOREM KernelQueuesAgree == Spec => []QueuesAgree
  BY AlwaysIpcInv, InvQueues, PTL

\* rt_thread_suspend (thread.c) never leaves a thread that nobody can wake, and
\* rt_thread_resume no timer that wakes it from a later call.
THEOREM KernelWakeable == Spec => []Wakeable
  BY AlwaysIpcInv, InvWakeable, PTL

\* Only the owner of a mutex has got it, as often as its hold says, through
\* nested takes, hand-overs, time-outs and changes of priority (ipc.c:640-890).
THEOREM KernelMutualExclusion == Spec => []MutualExclusion
  BY AlwaysIpcInv, InvExclusion, PTL

\* No wake-up is lost: no thread waits for a semaphore with a token or for a
\* mutex without an owner (ipc.c).
THEOREM KernelNobodyWaitsInVain == Spec => []NobodyWaitsInVain
  BY AlwaysIpcInv, InvVain, PTL

\* A take that returns has left the list of the semaphore: it was given a
\* token or its time ran out.  (The run KernelNap shows what an interrupt
\* handler that sleeps does to this.)
THEOREM KernelWaitsForAToken == Spec => WaitsForAToken
  <1>1. ASSUME IpcInv
        PROVE  \A t \in Threads : Return(t) /\ call[t].op = "take" => WaitsIn(t) = {}
    <2> SUFFICES ASSUME NEW t \in Threads, Return(t) PROVE WaitsIn(t) = {}
      OBVIOUS
    <2>1. k.current = t /\ pc[t] /= "schedule"
      BY DEF Return
    <2>2. \A o \in Objects : t \notin WaitsAt(k, o)
      BY <1>1, <2>1, RunningOne
    <2> QED BY <2>2, InWhat
  <1> QED BY <1>1, AlwaysIpcInv, PTL DEF WaitsForAToken, Spec

\* A semaphore whose threads wait in their order is a CountingSem: every step
\* of a thread, an interrupt or the tick is one of its steps, or none (ipc.c:
\* 324-471).  A take that says RT_EOK has got a token of its own, and no post
\* is lost to a time-out, whatever else the threads do.
THEOREM KernelSemaphoreCounts == Spec => SemaphoreCounts
  <1>1. Init => \A s \in FifoSems : Promise(s)!AbsInit
    BY InitSem DEF FifoSems
  <1>2. IpcInv /\ IpcInv' /\ [Next]_vars => \A s \in FifoSems : Promise(s)!AbsStep
    BY NextSem DEF SemStep
  <1> QED BY <1>1, <1>2, AlwaysIpcInv, PTL DEF Spec, SemaphoreCounts

\* The same as a refinement, for one semaphore: Spec implements CountingSem.
THEOREM KernelImplementsCountingSem ==
  ASSUME NEW s \in FifoSems
  PROVE  Spec => Promise(s)!AbsSpec
  <1>1. Init => Promise(s)!AbsInit
    BY InitSem DEF FifoSems
  <1>2. IpcInv /\ IpcInv' /\ [Next]_vars => [Promise(s)!AbsNext]_(Promise(s)!absVars)
    BY NextSem DEF SemStep, Promise!AbsStep
  <1> QED BY <1>1, <1>2, AlwaysIpcInv, PTL DEF Spec, Promise!AbsSpec

\* The processor is with the thread of the highest priority (scheduler.c:418)
\* unless a release of a mutex has lowered the priority of the one that runs:
\* every other step that makes a thread ready, or changes a priority, schedules
\* before a thread goes on, and a tick or an interrupt after a release that
\* did not schedule makes up for it or leaves the exception as it is.
THEOREM KernelRunsHighest == HistorySpec => []RunsHighestUnlessLowered
  <1>1. HistoryInit => RunInv
    BY InitRuns
  <1>2. IpcInv /\ RunInv /\ [HistoryNext]_historyVars => RunInv'
    BY NextRuns
  <1>3. RunInv => RunsHighestUnlessLowered
    BY HighestRuns
  <1> QED BY <1>1, <1>2, <1>3, HistoryIpcInv, PTL DEF HistorySpec

\* Priority inheritance (ipc.c:721-728, 833-855), for every mutex, whichever
\* way its threads wait: as long as threads hold or want one mutex at a time, an
\* owner never has a lower priority than a thread that waits for its mutex, but
\* for those that a mutex of RT_IPC_FLAG_FIFO left behind when it was handed
\* over, and a thread without a mutex has its own.
THEOREM KernelInheritance == HistorySpec => []Inheritance
  <1>1. HistoryInit => InheritInv
    BY InitInherit
  <1>2. IpcInv /\ IpcInv' /\ InheritInv /\ [HistoryNext]_historyVars => InheritInv'
    BY NextInherit
  <1>3. IpcInv /\ InheritInv => Inheritance
    BY InheritedWhat
  <1> QED BY <1>1, <1>2, <1>3, HistoryIpcInv, PTL DEF HistorySpec
=============================================================================
