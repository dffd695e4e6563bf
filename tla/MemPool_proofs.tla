--------------------------- MODULE MemPool_proofs ---------------------------
(***************************************************************************)
(* The allocator with one client, for every number of blocks, every block  *)
(* size and every set of request sizes: its table is exact between calls,  *)
(* it implements the abstract pool Heap, and it fails only when no run of  *)
(* free blocks is long enough.  With two clients all this is false (the    *)
(* run mem_pool_disjoint), so that each theorem assumes that there is one. *)
(***************************************************************************)
EXTENDS MemPool, TLAPS

USE MemPoolAssumption DEF MemPoolAssumption

(***************************************************************************)
(* The inductive invariant, for the client c.                              *)
(***************************************************************************)

\* Two runs of blocks, given by their first block and their length, share none.
Apart(s, n, a) == s + n <= a.start \/ a.start + Xmemb(a.size) <= s

\* What is held is a set of runs of the pool, apart from each other.
LiveOK ==
  /\ \A a \in live : a.size > 0 /\ a.start + Xmemb(a.size) <= NBlocks
  /\ \A a, b \in live : a /= b => Apart(a.start, Xmemb(a.size), b)

\* Is b in what c has marked so far, or has still to clear?
Marked(c, b) == pc[c] = "mark" /\ b \in offset[c] .. offset[c] + i[c] - 1
ToClear(c, b) == pc[c] = "clear" /\ b \in old[c].start + i[c] .. old[c].start + nmemb[c] - 1

\* The table has the length of the run at each block that is held, marked or
\* has still to be cleared, and 0 elsewhere.
TableOK(c) ==
  \A b \in Pool :
    /\ \A a \in live : b \in Blocks(a) => memmap[b] = Xmemb(a.size)
    /\ (\A a \in live : b \notin Blocks(a)) =>
         memmap[b] = IF Marked(c, b) \/ ToClear(c, b) THEN nmemb[c] ELSE 0

\* The search has passed no run that would do, and kmemb counts the free
\* entries from the one it has just visited up to the first that is not free.
NoRunFrom(c, o) ==
  \A s \in Pool : s >= o /\ s + Xmemb(req[c]) <= NBlocks =>
    \E b \in s .. s + Xmemb(req[c]) - 1 : memmap[b] /= 0

ScanOK(c) ==
  pc[c] = "scan" =>
    /\ req[c] > 0 /\ kmemb[c] < Xmemb(req[c])
    /\ offset[c] + 1 + kmemb[c] <= NBlocks
    /\ \A b \in offset[c] + 1 .. offset[c] + kmemb[c] : memmap[b] = 0
    /\ \/ offset[c] + 1 + kmemb[c] = NBlocks
       \/ memmap[offset[c] + 1 + kmemb[c]] /= 0
    /\ NoRunFrom(c, offset[c] + 1)

\* The run being marked, or cleared, is apart from all that is held.
LoopOK(c) ==
  /\ pc[c] = "mark" =>
       /\ req[c] > 0 /\ nmemb[c] = Xmemb(req[c]) /\ i[c] < nmemb[c]
       /\ offset[c] \in Pool /\ offset[c] + nmemb[c] <= NBlocks
       /\ \A a \in live : Apart(offset[c], nmemb[c], a)
  /\ pc[c] = "clear" =>
       /\ old[c] \in Allocation
       /\ nmemb[c] = Xmemb(old[c].size) /\ i[c] < nmemb[c]
       /\ old[c].start + nmemb[c] <= NBlocks
       /\ \A a \in live : Apart(old[c].start, nmemb[c], a)

\* A client that is to give a block back holds it; nothing is held before the
\* table is initialised, and only the first call initialises it.
CallOK(c) ==
  /\ pc[c] \in {"enter", "init", "begin", "scan", "mark"} =>
       old[c] = NoBlock \/ old[c] \in live
  /\ pc[c] = "free" => old[c] \in live
  /\ pc[c] = "init" => ~memrdy
  /\ pc[c] \in {"begin", "scan", "mark", "clear"} => memrdy
  /\ ~memrdy => live = {}

PoolInv(c) ==
  TypeOK /\ LiveOK /\ TableOK(c) /\ ScanOK(c) /\ LoopOK(c) /\ CallOK(c)

-----------------------------------------------------------------------------
(***************************************************************************)
(* Arithmetic.                                                             *)
(***************************************************************************)
LEMMA Division ==
  ASSUME NEW s \in Nat, NEW n \in Nat \ {0}
  PROVE  s = n * (s \div n) + (s % n) /\ s % n \in 0 .. n - 1 /\ s \div n \in Nat
  OBVIOUS

LEMMA DivisionUnique ==
  ASSUME NEW s \in Nat, NEW n \in Nat \ {0}, NEW q \in Nat, NEW r \in 0 .. n - 1,
         s = n * q + r
  PROVE  s \div n = q
  OBVIOUS

\* A request for some bytes takes some blocks.
LEMMA XmembType ==
  ASSUME NEW size \in Nat
  PROVE  Xmemb(size) \in Nat /\ (size > 0 => Xmemb(size) > 0)
  <1>1. PICK q \in Nat, r \in 0 .. BlkSize - 1 :
          size = BlkSize * q + r /\ size \div BlkSize = q /\ size % BlkSize = r
    BY Division
  <1>2. q = 0 /\ r = 0 => size = 0
    BY <1>1
  <1> QED BY <1>1, <1>2 DEF Xmemb

\* xmemb rounds up: it computes the least number of blocks that suffices.
LEMMA XmembIsNeed ==
  ASSUME NEW size \in Nat
  PROVE  Xmemb(size) = Promise!Need(size)
  <1>1. PICK q \in Nat, r \in 0 .. BlkSize - 1 :
          size = BlkSize * q + r /\ size \div BlkSize = q /\ size % BlkSize = r
    BY Division
  <1>2. CASE r = 0
    <2>1. /\ size + BlkSize - 1 = BlkSize * q + (BlkSize - 1)
          /\ BlkSize - 1 \in 0 .. BlkSize - 1 /\ size + BlkSize - 1 \in Nat
      BY <1>1, <1>2
    <2> QED BY <2>1, <1>1, <1>2, DivisionUnique DEF Xmemb, Promise!Need
  <1>3. CASE r /= 0
    <2>1. BlkSize * (q + 1) = BlkSize * q + BlkSize
      OBVIOUS
    <2>2. /\ size + BlkSize - 1 = BlkSize * (q + 1) + (r - 1)
          /\ r - 1 \in 0 .. BlkSize - 1 /\ size + BlkSize - 1 \in Nat
      BY <1>1, <1>3, <2>1
    <2>3. (size + BlkSize - 1) \div BlkSize = q + 1
      BY <2>2, DivisionUnique
    <2> QED BY <2>3, <1>1, <1>3 DEF Xmemb, Promise!Need
  <1> QED BY <1>2, <1>3

-----------------------------------------------------------------------------
(***************************************************************************)
(* Init, and the steps that touch neither the table nor what is held.      *)
(***************************************************************************)
LEMMA InitPoolInv ==
  ASSUME NEW c, Clients = {c}, Init
  PROVE  PoolInv(c)
  <1>1. TypeOK
    <2>1. /\ 0 \in 0 .. NBlocks /\ 0 \in -1 .. NBlocks - 1 /\ 0 \in Nat
      OBVIOUS
    <2> QED BY <2>1, Zenon DEF Init, TypeOK
  <1>2. LiveOK /\ TableOK(c) /\ ScanOK(c) /\ LoopOK(c) /\ CallOK(c)
    BY DEF Init, LiveOK, TableOK, Marked, ToClear, ScanOK, LoopOK, CallOK
  <1> QED BY <1>1, <1>2 DEF PoolInv

\* The calls, and the beginning of mymalloc.
LEMMA CallPoolInv ==
  ASSUME NEW c, Clients = {c}, PoolInv(c),
         Malloc(c) \/ Realloc(c) \/ Free(c) \/ Enter(c)
  PROVE  PoolInv(c)'
  <1> USE DEF Malloc, Realloc, Free, Enter, Goto, loop
  <1>1. TypeOK'
    BY DEF PoolInv, TypeOK
  <1>2. LiveOK'
    BY DEF PoolInv, LiveOK, Apart
  <1>3. TableOK(c)'
    BY DEF PoolInv, TypeOK, TableOK, Marked, ToClear, Blocks
  <1>4. ScanOK(c)' /\ LoopOK(c)'
    BY DEF PoolInv, TypeOK, ScanOK, LoopOK
  <1>5. CallOK(c)'
    BY DEF PoolInv, TypeOK, CallOK
  <1> QED BY <1>1, <1>2, <1>3, <1>4, <1>5 DEF PoolInv

\* Nothing is held yet when the table is initialised.
LEMMA my_mem_initPoolInv ==
  ASSUME NEW c, Clients = {c}, PoolInv(c), my_mem_init(c)
  PROVE  PoolInv(c)'
  <1> USE DEF my_mem_init, Goto, loop
  <1>0. live = {} /\ live' = {}
    BY DEF PoolInv, CallOK
  <1>1. TypeOK'
    BY DEF PoolInv, TypeOK
  <1>2. LiveOK' /\ CallOK(c)'
    BY <1>0 DEF PoolInv, TypeOK, LiveOK, CallOK
  <1>3. TableOK(c)' /\ ScanOK(c)' /\ LoopOK(c)'
    BY <1>0 DEF PoolInv, TypeOK, TableOK, Marked, ToClear, ScanOK, LoopOK
  <1> QED BY <1>1, <1>2, <1>3 DEF PoolInv

LEMMA BeginPoolInv ==
  ASSUME NEW c, Clients = {c}, PoolInv(c), Begin(c)
  PROVE  PoolInv(c)'
  <1> USE DEF Begin, Goto
  <1>1. TypeOK'
    BY DEF PoolInv, TypeOK
  <1>2. LiveOK' /\ CallOK(c)'
    BY DEF PoolInv, TypeOK, LiveOK, CallOK, Apart
  <1>3. TableOK(c)' /\ LoopOK(c)'
    BY DEF PoolInv, TypeOK, TableOK, Marked, ToClear, LoopOK, Blocks
  <1>4. ScanOK(c)'
    <2> SUFFICES ASSUME pc'[c] = "scan" PROVE ScanOK(c)'
      BY DEF ScanOK
    <2>1. req[c] \in Nat /\ req[c] > 0 /\ req' = req
      <3>1. /\ req[c] \in Sizes \union {0}
            /\ pc \in [Clients -> {"idle", "enter", "init", "begin", "scan",
                                   "mark", "free", "clear"}]
        BY DEF PoolInv, TypeOK
      <3>2. req[c] /= 0
        BY <3>1
      <3>3. req[c] \in Nat
        BY <3>1
      <3> QED BY <3>2, <3>3
    <2>2. Xmemb(req[c]) \in Nat /\ Xmemb(req[c]) > 0
      BY <2>1, XmembType
    <2>3. offset'[c] = NBlocks - 1 /\ kmemb'[c] = 0
      BY DEF PoolInv, TypeOK
    <2>4. NoRunFrom(c, NBlocks)'
      BY <2>1, <2>2 DEF NoRunFrom, Pool
    <2> QED BY <2>1, <2>2, <2>3, <2>4 DEF ScanOK
  <1> QED BY <1>1, <1>2, <1>3, <1>4 DEF PoolInv

LEMMA FailPoolInv ==
  ASSUME NEW c, Clients = {c}, PoolInv(c), Fail(c)
  PROVE  PoolInv(c)'
  <1> USE DEF Fail, Goto, loop
  <1>1. TypeOK'
    BY DEF PoolInv, TypeOK
  <1>2. LiveOK' /\ CallOK(c)'
    BY DEF PoolInv, TypeOK, LiveOK, CallOK, Apart
  <1>3. TableOK(c)' /\ LoopOK(c)' /\ ScanOK(c)'
    BY DEF PoolInv, TypeOK, TableOK, Marked, ToClear, LoopOK, ScanOK, Blocks
  <1> QED BY <1>1, <1>2, <1>3 DEF PoolInv

-----------------------------------------------------------------------------
(***************************************************************************)
(* The steps that read or write the table.                                 *)
(***************************************************************************)

\* What the proofs below need to know of an allocation.
LEMMA LiveFacts ==
  ASSUME NEW c, Clients = {c}, PoolInv(c), NEW a \in live
  PROVE  /\ a \in Allocation /\ a.start \in Pool /\ a.size \in Nat
         /\ Xmemb(a.size) \in Nat \ {0} /\ a.start + Xmemb(a.size) <= NBlocks
  <1>1. a \in Allocation /\ a.start \in Pool /\ a.size \in Nat
    BY DEF PoolInv, TypeOK, Allocation
  <1>2. a.size > 0 /\ a.start + Xmemb(a.size) <= NBlocks
    BY DEF PoolInv, LiveOK
  <1> QED BY <1>1, <1>2, XmembType

\* The blocks of an allocation are not free in the table.
LEMMA LiveTaken ==
  ASSUME NEW c, Clients = {c}, PoolInv(c), NEW a \in live, NEW b \in Blocks(a)
  PROVE  b \in Pool /\ memmap[b] = Xmemb(a.size) /\ memmap[b] /= 0
  <1>1. b \in Pool
    BY LiveFacts DEF Blocks, Pool
  <1> QED BY <1>1, LiveFacts DEF PoolInv, TableOK

\* A run of entries that are all free is apart from all that is held.
LEMMA FreeRunApart ==
  ASSUME NEW c, Clients = {c}, PoolInv(c), NEW s \in Pool, NEW n \in Nat \ {0},
         \A b \in s .. s + n - 1 : memmap[b] = 0,
         NEW a \in live
  PROVE  Apart(s, n, a)
  <1> DEFINE b == IF s >= a.start THEN s ELSE a.start
  <1>1. /\ a.start \in Pool /\ a.start \in Int /\ s \in Int
        /\ Xmemb(a.size) \in Nat \ {0}
    BY LiveFacts DEF Pool
  <1>2. ~Apart(s, n, a) => b \in s .. s + n - 1 /\ b \in Blocks(a)
    BY <1>1 DEF Apart, Blocks
  <1>3. b \in s .. s + n - 1 => b \notin Blocks(a)
    BY LiveTaken
  <1> QED BY <1>2, <1>3

LEMMA ScanPoolInv ==
  ASSUME NEW c, Clients = {c}, PoolInv(c), Scan(c)
  PROVE  PoolInv(c)'
  <1> DEFINE o == offset[c]
             k == kmemb[c]
             n == Xmemb(req[c])
  <1> USE DEF Scan, Goto
  <1>1. /\ pc[c] = "scan" /\ o \in Pool /\ k \in 0 .. NBlocks /\ req[c] \in Nat
        /\ req[c] > 0 /\ memmap[o] \in 0 .. NBlocks
    <2>1. /\ pc[c] = "scan" /\ o >= 0 /\ o \in -1 .. NBlocks - 1
          /\ k \in 0 .. NBlocks /\ req[c] \in Sizes \union {0}
      BY DEF PoolInv, TypeOK
    <2>2. o \in Pool /\ req[c] \in Nat
      <3>1. o \in Pool
        BY <2>1 DEF Pool
      <3>2. \A x \in Sizes \union {0} : x \in Nat
        OBVIOUS
      <3> QED BY <3>1, <3>2, <2>1
    <2>3. req[c] > 0
      BY <2>1 DEF PoolInv, ScanOK
    <2>4. memmap[o] \in 0 .. NBlocks
      BY <2>2 DEF PoolInv, TypeOK
    <2> QED BY <2>1, <2>2, <2>3, <2>4
  <1>2. n \in Nat \ {0} /\ k < n /\ o + 1 + k <= NBlocks
    BY <1>1, XmembType DEF PoolInv, ScanOK
  <1>3. /\ \A b \in o + 1 .. o + k : memmap[b] = 0
        /\ o + 1 + k = NBlocks \/ memmap[o + 1 + k] /= 0
        /\ NoRunFrom(c, o + 1)
    BY <1>1 DEF PoolInv, ScanOK
  <1>4. Row(c) = IF memmap[o] = 0 THEN k + 1 ELSE 0
    BY DEF Row
  <1>5. /\ kmemb' = [kmemb EXCEPT ![c] = Row(c)] /\ i' = [i EXCEPT ![c] = 0]
        /\ nmemb' = [nmemb EXCEPT ![c] = n]
        /\ UNCHANGED <<memmap, memrdy, live, req, old>>
    OBVIOUS
  <1>6. Row(c) \in 0 .. NBlocks
    BY <1>1, <1>2, <1>4 DEF Pool
  <1>7. LiveOK'
    BY <1>5 DEF PoolInv, LiveOK, Apart
  <1>8. CASE Row(c) = n
    <2>1. pc' = [pc EXCEPT ![c] = "mark"] /\ offset' = offset
      BY <1>8
    <2>2. TypeOK'
      BY <2>1, <1>2, <1>5, <1>6 DEF PoolInv, TypeOK
    <2>3. o + n <= NBlocks /\ \A b \in o .. o + n - 1 : memmap[b] = 0
      BY <1>8, <1>1, <1>2, <1>3, <1>4 DEF Pool
    <2>4. \A a \in live : Apart(o, n, a)
      BY <2>3, <1>1, <1>2, FreeRunApart
    <2>5. pc'[c] = "mark" /\ nmemb'[c] = n /\ i'[c] = 0 /\ offset'[c] = o
      BY <2>1, <1>5 DEF PoolInv, TypeOK
    <2>6. LoopOK(c)' /\ ScanOK(c)'
      BY <2>3, <2>4, <2>5, <1>1, <1>2, <1>5 DEF LoopOK, ScanOK, Apart
    <2>7. TableOK(c)'
      BY <2>5, <1>1, <1>5 DEF PoolInv, TableOK, Marked, ToClear, Blocks, Pool
    <2>8. CallOK(c)'
      BY <2>5, <1>1, <1>5 DEF PoolInv, CallOK
    <2> QED BY <2>2, <2>6, <2>7, <2>8, <1>7 DEF PoolInv
  <1>9. CASE Row(c) /= n
    <2>1. pc' = pc /\ offset' = [offset EXCEPT ![c] = o - 1]
      BY <1>9
    <2>2. TypeOK'
      <3>1. o - 1 \in -1 .. NBlocks - 1
        BY <1>1 DEF Pool
      <3> QED BY <3>1, <2>1, <1>2, <1>5, <1>6 DEF PoolInv, TypeOK
    <2>3. pc'[c] = "scan" /\ offset'[c] = o - 1 /\ kmemb'[c] = Row(c)
      BY <2>1, <1>1, <1>5 DEF PoolInv, TypeOK
    <2>4. LoopOK(c)' /\ CallOK(c)' /\ TableOK(c)'
      BY <2>3, <1>1, <1>5
         DEF PoolInv, LoopOK, CallOK, TableOK, Marked, ToClear, Blocks
    <2>5. /\ Row(c) < n /\ o + Row(c) <= NBlocks
          /\ \A b \in o .. o + Row(c) - 1 : memmap[b] = 0
          /\ o + Row(c) = NBlocks \/ memmap[o + Row(c)] /= 0
      BY <1>9, <1>1, <1>2, <1>3, <1>4 DEF Pool
    <2>6. NoRunFrom(c, o)
      <3> SUFFICES ASSUME NEW s \in Pool, s >= o, s + n <= NBlocks
                   PROVE  \E b \in s .. s + n - 1 : memmap[b] /= 0
        BY DEF NoRunFrom
      <3>1. CASE s = o
        <4>1. o + Row(c) \in s .. s + n - 1 /\ o + Row(c) /= NBlocks
          BY <3>1, <2>5, <1>1, <1>2, <1>6 DEF Pool
        <4> QED BY <4>1, <2>5
      <3>2. CASE s >= o + 1
        BY <3>2, <1>3 DEF NoRunFrom
      <3> QED BY <3>1, <3>2, <1>1 DEF Pool
    <2>7. ScanOK(c)'
      <3>1. /\ offset'[c] + 1 = o /\ offset'[c] + 1 + kmemb'[c] = o + Row(c)
            /\ offset'[c] + kmemb'[c] = o + Row(c) - 1
        BY <2>3, <1>1, <1>6 DEF Pool
      <3>2. NoRunFrom(c, offset[c] + 1)'
        BY <3>1, <2>6, <1>5 DEF NoRunFrom
      <3> QED BY <3>1, <3>2, <2>3, <2>5, <1>1, <1>5 DEF ScanOK
    <2> QED BY <2>2, <2>4, <2>7, <1>7 DEF PoolInv
  <1> QED BY <1>8, <1>9

LEMMA MarkPoolInv ==
  ASSUME NEW c, Clients = {c}, PoolInv(c), Mark(c)
  PROVE  PoolInv(c)'
  <1> DEFINE o == offset[c]
             n == nmemb[c]
             k == i[c]
             g == Granted(c)
  <1> USE DEF Goto
  <1>1. /\ o \in Pool /\ n \in Nat \ {0} /\ k \in Nat /\ k < n /\ o + n <= NBlocks
        /\ n = Xmemb(req[c]) /\ req[c] \in Sizes /\ req[c] > 0
        /\ \A a \in live : Apart(o, n, a)
    <2>1. pc[c] = "mark" /\ k \in 0 .. NBlocks /\ req[c] \in Sizes \union {0}
      BY DEF Mark, PoolInv, TypeOK
    <2>2. /\ req[c] > 0 /\ n = Xmemb(req[c]) /\ k < n /\ o \in Pool
          /\ o + n <= NBlocks /\ \A a \in live : Apart(o, n, a)
      BY <2>1 DEF PoolInv, LoopOK
    <2>3. req[c] \in Sizes /\ req[c] \in Nat
      <3>1. \A x \in Sizes \union {0} : x \in Nat /\ (x > 0 => x \in Sizes)
        OBVIOUS
      <3> QED BY <3>1, <2>1, <2>2
    <2> QED BY <2>1, <2>2, <2>3, XmembType
  <1>2. o + k \in Pool /\ n \in 0 .. NBlocks /\ k + 1 \in 0 .. NBlocks
    BY <1>1 DEF Pool
  <1>3. /\ memmap' = [memmap EXCEPT ![o + k] = n] /\ i'[c] = k + 1
        /\ UNCHANGED <<memrdy, req, old, offset, kmemb, nmemb>>
        /\ pc[c] = "mark" /\ memrdy
    BY DEF Mark, PoolInv, TypeOK, CallOK
  <1>4. \A b \in Pool : memmap'[b] = IF b = o + k THEN n ELSE memmap[b]
    BY <1>2, <1>3 DEF PoolInv, TypeOK
  <1>5. \A b \in Pool : b \in o .. o + n - 1 => \A a \in live : b \notin Blocks(a)
    BY <1>1, LiveFacts DEF Apart, Blocks, Pool
  <1>6. o + k \in o .. o + n - 1
    BY <1>1 DEF Pool
  <1>7. CASE k + 1 < n
    <2>1. live' = live /\ pc' = pc
      BY <1>7 DEF Mark
    <2>2. TypeOK'
      BY <2>1, <1>2, <1>3 DEF Mark, PoolInv, TypeOK
    <2>3. LiveOK' /\ ScanOK(c)' /\ LoopOK(c)' /\ CallOK(c)'
      BY <2>1, <1>1, <1>3, <1>7
         DEF PoolInv, LiveOK, ScanOK, LoopOK, CallOK, Apart
    <2>4. TableOK(c)'
      <3>1. \A b \in Pool, a \in live : b \in Blocks(a) => memmap'[b] = Xmemb(a.size)
        BY <1>4, <1>5, <1>6 DEF PoolInv, TableOK
      <3>2. \A b \in Pool : Marked(c, b)' <=> Marked(c, b) \/ b = o + k
        BY <2>1, <1>1, <1>3 DEF Marked, Pool
      <3>3. \A b \in Pool : ~ToClear(c, b) /\ ~ToClear(c, b)'
        BY <2>1, <1>3 DEF ToClear
      <3>4. \A b \in Pool : (\A a \in live : b \notin Blocks(a)) =>
              memmap'[b] = IF Marked(c, b)' THEN n ELSE 0
        BY <3>2, <3>3, <1>4 DEF PoolInv, TableOK
      <3> QED BY <3>1, <3>3, <3>4, <2>1, <1>3 DEF TableOK, Blocks
    <2> QED BY <2>2, <2>3, <2>4 DEF PoolInv
  <1>8. CASE ~(k + 1 < n)
    <2>1. /\ live' = live \union {g} /\ pc'[c] \in {"idle", "free"}
          /\ pc'[c] = "free" => old[c] /= NoBlock
      BY <1>8 DEF Mark, PoolInv, TypeOK
    <2>2. g \in Allocation /\ g.start = o /\ g.size = req[c] /\ Xmemb(g.size) = n
      BY <1>1 DEF Granted, Allocation
    <2>3. TypeOK'
      BY <2>1, <2>2, <1>2, <1>3, <1>8 DEF Mark, PoolInv, TypeOK
    <2>4. LiveOK'
      <3>1. \A a \in live' : a.size > 0 /\ a.start + Xmemb(a.size) <= NBlocks
        BY <2>1, <2>2, <1>1 DEF PoolInv, LiveOK
      <3>2. \A a \in live : Apart(o, n, a) /\ Apart(a.start, Xmemb(a.size), g)
        BY <2>2, <1>1, LiveFacts DEF Apart, Pool
      <3> QED BY <3>1, <3>2, <2>1, <2>2 DEF PoolInv, LiveOK, Apart
    <2>5. ScanOK(c)' /\ LoopOK(c)'
      BY <2>1 DEF ScanOK, LoopOK
    <2>6. CallOK(c)'
      BY <2>1, <1>3 DEF PoolInv, CallOK
    <2>7. TableOK(c)'
      <3>1. \A b \in Pool, a \in live : b \in Blocks(a) => memmap'[b] = Xmemb(a.size)
        BY <1>4, <1>5, <1>6 DEF PoolInv, TableOK
      <3>2. \A b \in Pool : b \in Blocks(g) <=> Marked(c, b) \/ b = o + k
        BY <2>2, <1>1, <1>3, <1>8 DEF Marked, Blocks, Pool
      <3>3. \A b \in Pool : ~ToClear(c, b) /\ ~ToClear(c, b)' /\ ~Marked(c, b)'
        BY <2>1, <1>3 DEF ToClear, Marked
      <3>4. \A b \in Pool : b \in Blocks(g) => b \in o .. o + n - 1
        BY <2>2 DEF Blocks
      <3>5. \A b \in Pool : b \in Blocks(g) => memmap'[b] = n
        BY <3>2, <3>3, <3>4, <1>4, <1>5 DEF PoolInv, TableOK
      <3>6. \A b \in Pool : (\A a \in live' : b \notin Blocks(a)) => memmap'[b] = 0
        BY <3>2, <3>3, <2>1, <1>4 DEF PoolInv, TableOK
      <3> QED BY <3>1, <3>3, <3>5, <3>6, <2>1, <2>2 DEF TableOK, Blocks
    <2> QED BY <2>3, <2>4, <2>5, <2>6, <2>7 DEF PoolInv
  <1> QED BY <1>7, <1>8

\* The table has the length of what is given back at its first block.
LEMMA FreeReadPoolInv ==
  ASSUME NEW c, Clients = {c}, PoolInv(c), FreeRead(c)
  PROVE  PoolInv(c)'
  <1> DEFINE a0 == old[c]
             n == Xmemb(a0.size)
  <1> USE DEF FreeRead, Goto
  <1>1. pc[c] = "free" /\ a0 \in live /\ memrdy
    BY DEF PoolInv, CallOK
  <1>2. /\ a0 \in Allocation /\ a0.start \in Pool /\ n \in Nat \ {0}
        /\ a0.start + n <= NBlocks
    BY <1>1, LiveFacts
  <1>3. memmap[a0.start] = n /\ memmap[a0.start] /= 0
    <2>1. a0.start \in Blocks(a0)
      BY <1>2 DEF Blocks, Pool
    <2> QED BY <2>1, <1>1, LiveTaken
  <1>4. /\ pc'[c] = "clear" /\ nmemb'[c] = n /\ i'[c] = 0 /\ live' = live \ {a0}
        /\ UNCHANGED <<memmap, memrdy, old>>
    BY <1>3 DEF PoolInv, TypeOK
  <1>5. TypeOK'
    <2>1. n \in Nat /\ 0 \in 0 .. NBlocks
      BY <1>2
    <2> QED BY <2>1, <1>3, <1>4 DEF PoolInv, TypeOK
  <1>6. LiveOK' /\ ScanOK(c)' /\ CallOK(c)'
    BY <1>1, <1>4 DEF PoolInv, LiveOK, ScanOK, CallOK, Apart
  <1>7. LoopOK(c)'
    BY <1>1, <1>2, <1>4 DEF PoolInv, LiveOK, LoopOK, Apart
  <1>8. TableOK(c)'
    <2>1. \A b \in Pool : ToClear(c, b)' <=> b \in Blocks(a0)
      BY <1>2, <1>4 DEF ToClear, Blocks, Pool
    <2>2. \A b \in Pool : ~Marked(c, b) /\ ~ToClear(c, b) /\ ~Marked(c, b)'
      BY <1>1, <1>4 DEF Marked, ToClear
    <2>3. \A b \in Pool : b \in Blocks(a0) => memmap[b] = n
      BY <1>1 DEF PoolInv, TableOK
    <2>4. \A b \in Pool : (\A a \in live' : b \notin Blocks(a)) =>
            memmap[b] = IF b \in Blocks(a0) THEN n ELSE 0
      BY <2>2, <2>3, <1>4 DEF PoolInv, TableOK
    <2> QED BY <2>1, <2>2, <2>4, <1>4 DEF PoolInv, TableOK, Blocks
  <1> QED BY <1>5, <1>6, <1>7, <1>8 DEF PoolInv

LEMMA ClearPoolInv ==
  ASSUME NEW c, Clients = {c}, PoolInv(c), Clear(c)
  PROVE  PoolInv(c)'
  <1> DEFINE s == old[c].start
             n == nmemb[c]
             k == i[c]
  <1> USE DEF Goto
  <1>1. /\ pc[c] = "clear" /\ s \in Pool /\ n \in Nat /\ k \in Nat /\ k < n
        /\ s + n <= NBlocks /\ memrdy
        /\ \A a \in live : Apart(s, n, a)
    BY DEF Clear, PoolInv, TypeOK, LoopOK, CallOK, Allocation
  <1>2. s + k \in Pool /\ k + 1 \in 0 .. NBlocks
    BY <1>1 DEF Pool
  <1>3. /\ memmap' = [memmap EXCEPT ![s + k] = 0] /\ i'[c] = k + 1
        /\ UNCHANGED <<memrdy, live, req, old, offset, kmemb, nmemb>>
        /\ pc'[c] = IF k + 1 < n THEN "clear" ELSE "idle"
    BY <1>1 DEF Clear, PoolInv, TypeOK
  <1>4. TypeOK'
    BY <1>2, <1>3 DEF Clear, PoolInv, TypeOK
  <1>5. LiveOK' /\ ScanOK(c)' /\ CallOK(c)'
    BY <1>1, <1>3 DEF PoolInv, LiveOK, ScanOK, CallOK, Apart
  <1>6. LoopOK(c)'
    BY <1>1, <1>3 DEF PoolInv, LoopOK, Apart
  <1>7. TableOK(c)'
    <2>1. \A b \in Pool : memmap'[b] = IF b = s + k THEN 0 ELSE memmap[b]
      BY <1>2, <1>3 DEF PoolInv, TypeOK
    <2>2. \A a \in live : s + k \notin Blocks(a)
      BY <1>1, LiveFacts DEF Apart, Blocks, Pool
    <2>3. \A b \in Pool : ~Marked(c, b) /\ ~Marked(c, b)'
      BY <1>1, <1>3 DEF Marked
    <2>4. \A b \in Pool : ToClear(c, b)' <=> ToClear(c, b) /\ b /= s + k
      BY <1>1, <1>3 DEF ToClear, Pool
    <2> QED BY <2>1, <2>2, <2>3, <2>4, <1>3 DEF PoolInv, TableOK, Blocks
  <1> QED BY <1>4, <1>5, <1>6, <1>7 DEF PoolInv

LEMMA NextPoolInv ==
  ASSUME NEW c, Clients = {c}, PoolInv(c), [Next]_vars
  PROVE  PoolInv(c)'
  <1>1. CASE UNCHANGED vars
    BY <1>1 DEF vars, loop, PoolInv, TypeOK, LiveOK, TableOK, ScanOK, LoopOK, CallOK,
                Apart, Marked, ToClear, NoRunFrom, Blocks
  <1>2. CASE Malloc(c) \/ Realloc(c) \/ Free(c) \/ Enter(c)
    BY <1>2, CallPoolInv
  <1>3. CASE my_mem_init(c)
    BY <1>3, my_mem_initPoolInv
  <1>4. CASE Begin(c) \/ Fail(c)
    BY <1>4, BeginPoolInv, FailPoolInv
  <1>5. CASE Scan(c)
    BY <1>5, ScanPoolInv
  <1>6. CASE Mark(c)
    BY <1>6, MarkPoolInv
  <1>7. CASE FreeRead(c) \/ Clear(c)
    BY <1>7, FreeReadPoolInv, ClearPoolInv
  <1> QED BY <1>1, <1>2, <1>3, <1>4, <1>5, <1>6, <1>7 DEF Next

-----------------------------------------------------------------------------
(***************************************************************************)
(* The theorems.                                                           *)
(***************************************************************************)

\* The allocator's state is what PoolInv says, in every reachable state.
LEMMA PoolInvariant ==
  ASSUME NEW c, Clients = {c}
  PROVE  Spec => []PoolInv(c)
  <1>1. Init => PoolInv(c)
    BY InitPoolInv
  <1>2. PoolInv(c) /\ [Next]_vars => PoolInv(c)'
    BY NextPoolInv
  <1> QED BY <1>1, <1>2, PTL DEF Spec

\* Every variable of the allocator keeps to its range; in particular the
\* search and the loops of mymalloc and myfree never index outside the table.
THEOREM MemPoolTyped ==
  ASSUME NEW c, Clients = {c}
  PROVE  Spec => []TypeOK
  <1>1. PoolInv(c) => TypeOK
    BY DEF PoolInv
  <1> QED BY <1>1, PoolInvariant, PTL

\* Between calls the table of mymalloc says exactly which blocks are held and
\* how long each run is: nothing freed is lost, nothing held is free.
THEOREM MemPoolTableIsExact ==
  ASSUME NEW c, Clients = {c}
  PROVE  Spec => []TableIsExact
  <1>1. PoolInv(c) => TableIsExact
    <2> SUFFICES ASSUME PoolInv(c), pc[c] = "idle", NEW b \in Pool
                 PROVE  memmap[b] = IF \E a \in live : b \in Blocks(a)
                          THEN Xmemb((CHOOSE a \in live : b \in Blocks(a)).size)
                          ELSE 0
      BY DEF TableIsExact
    <2>1. CASE \E a \in live : b \in Blocks(a)
      <3>1. /\ (CHOOSE a \in live : b \in Blocks(a)) \in live
            /\ b \in Blocks(CHOOSE a \in live : b \in Blocks(a))
        BY <2>1
      <3> QED BY <3>1, <2>1 DEF PoolInv, TableOK
    <2>2. CASE ~ \E a \in live : b \in Blocks(a)
      BY <2>2 DEF PoolInv, TableOK, Marked, ToClear
    <2> QED BY <2>1, <2>2
  <1> QED BY <1>1, PoolInvariant, PTL

\* mymalloc returns NULL only when no run of free blocks is long enough for
\* the request: the search from the end of the table misses none.
THEOREM MemPoolFailsOnlyWhenFull ==
  ASSUME NEW c, Clients = {c}
  PROVE  Spec => FailsOnlyWhenFull
  <1>1. PoolInv(c) /\ [Next]_vars => (Fail(c) => ~Fits(c))
    <2> SUFFICES ASSUME PoolInv(c), Fail(c), Fits(c) PROVE FALSE
      OBVIOUS
    <2>1. offset[c] = -1 /\ req[c] \in Nat /\ pc[c] = "scan"
      <3>1. \A x \in Sizes \union {0} : x \in Nat
        OBVIOUS
      <3>2. /\ pc[c] = "scan" /\ offset[c] < 0 /\ offset[c] \in -1 .. NBlocks - 1
            /\ req[c] \in Sizes \union {0}
        BY DEF Fail, PoolInv, TypeOK
      <3>3. offset[c] = -1
        BY <3>2
      <3> QED BY <3>1, <3>2, <3>3
    <2>2. Xmemb(req[c]) \in Nat \ {0}
      <3>1. req[c] > 0
        BY <2>1 DEF PoolInv, ScanOK
      <3> QED BY <3>1, <2>1, XmembType
    <2>3. PICK s \in Pool :
            LET run == s .. s + Xmemb(req[c]) - 1
            IN  run \subseteq Pool /\ \A a \in live : Blocks(a) \cap run = {}
      BY DEF Fits
    <2>4. s + Xmemb(req[c]) <= NBlocks
      <3>1. s + Xmemb(req[c]) - 1 \in s .. s + Xmemb(req[c]) - 1
        BY <2>2 DEF Pool
      <3>2. s + Xmemb(req[c]) - 1 \in Pool
        BY <3>1, <2>3
      <3> QED BY <3>2, <2>2 DEF Pool
    <2>5. PICK b \in s .. s + Xmemb(req[c]) - 1 : memmap[b] /= 0
      BY <2>1, <2>2, <2>4 DEF PoolInv, ScanOK, NoRunFrom, Pool
    <2>6. b \in Pool /\ \A a \in live : b \notin Blocks(a)
      BY <2>3
    <2> QED BY <2>1, <2>5, <2>6 DEF PoolInv, TableOK, Marked, ToClear
  <1>2. PoolInv(c) /\ [Next]_vars => [FailsRightly]_vars
    BY <1>1 DEF FailsRightly
  <1>3. Spec => []PoolInv(c)
    BY PoolInvariant, PTL
  <1>4. []PoolInv(c) /\ [][Next]_vars => [][FailsRightly]_vars
    BY <1>2, PTL
  <1> QED BY <1>3, <1>4, PTL DEF Spec, FailsOnlyWhenFull

\* Every grant of mymalloc is one that the abstract pool Heap allows, and so
\* is every return by myfree: runs of free blocks, long enough, shared by none.
THEOREM MemPoolImplementsHeap ==
  ASSUME NEW c, Clients = {c}
  PROVE  Spec => HeapSpec
  <1>1. Init => Promise!Init
    BY DEF Init, Promise!Init
  <1>2. PoolInv(c) /\ [Next]_vars => [Promise!Next]_live
    <2> SUFFICES ASSUME PoolInv(c), [Next]_vars, live' /= live
                 PROVE  Promise!Next
      OBVIOUS
    <2>1. Mark(c) \/ FreeRead(c)
      BY DEF Next, vars, Malloc, Realloc, Free, Enter, my_mem_init, Begin, Scan, Fail,
             Clear
    <2>2. CASE FreeRead(c)
      <3>1. old[c] \in live /\ live' = live \ {old[c]}
        BY <2>2 DEF FreeRead, PoolInv, CallOK
      <3> QED BY <3>1 DEF Promise!Next, Promise!Free
    <2>3. CASE Mark(c)
      <3> DEFINE o == offset[c]
                 size == req[c]
      <3>1. /\ live' = live \union {[owner |-> c, start |-> o, size |-> size]}
            /\ pc[c] = "mark"
        BY <2>3 DEF Mark, Granted
      <3>2. /\ size \in Sizes \ {0} /\ size \in Nat /\ o \in Pool
            /\ Xmemb(size) \in Nat \ {0} /\ o + Xmemb(size) <= NBlocks
            /\ \A a \in live : Apart(o, Xmemb(size), a)
        <4>1. \A x \in Sizes \union {0} : x \in Nat /\ (x > 0 => x \in Sizes \ {0})
          OBVIOUS
        <4>2. /\ size > 0 /\ o \in Pool /\ o + Xmemb(size) <= NBlocks
              /\ \A a \in live : Apart(o, Xmemb(size), a)
          BY <3>1 DEF PoolInv, LoopOK
        <4>3. size \in Sizes \union {0}
          BY DEF PoolInv, TypeOK
        <4> QED BY <4>1, <4>2, <4>3, XmembType
      <3>3. Promise!Run(o, size) = o .. o + Xmemb(size) - 1
        BY <3>2, XmembIsNeed DEF Promise!Run
      <3>4. Promise!Run(o, size) \subseteq Promise!Pool /\ o \in Promise!Pool
        BY <3>2, <3>3 DEF Promise!Pool, Pool
      <3>5. ASSUME NEW a \in live
            PROVE  Promise!Blocks(a) \cap Promise!Run(o, size) = {}
        <4>1. Promise!Blocks(a) = a.start .. a.start + Xmemb(a.size) - 1
          BY LiveFacts, XmembIsNeed DEF Promise!Blocks, Promise!Run
        <4>2. /\ Apart(o, Xmemb(size), a) /\ o \in Int /\ Xmemb(size) \in Int
              /\ a.start \in Int /\ Xmemb(a.size) \in Int
          BY <3>2, LiveFacts DEF Pool
        <4>3. (a.start .. a.start + Xmemb(a.size) - 1) \cap (o .. o + Xmemb(size) - 1) = {}
          BY <4>2 DEF Apart
        <4> QED BY <4>1, <4>3, <3>3
      <3>6. Promise!Malloc(c, size)
        BY <3>1, <3>4, <3>5 DEF Promise!Malloc
      <3> QED BY <3>2, <3>6 DEF Promise!Next
    <2> QED BY <2>1, <2>2, <2>3
  <1> QED BY <1>1, <1>2, PoolInvariant, PTL DEF Spec, HeapSpec, Promise!Spec
=============================================================================
