------------------------------ MODULE MemPool ------------------------------
(***************************************************************************)
(* The block allocator of Source/malloc/malloc.c, bank SRAMIN: a table     *)
(* memmap with one entry per 32-byte block, 0 for a free block and the     *)
(* length of its run for an allocated one.  mymalloc searches the table    *)
(* from its end, then marks the run it found; myfree reads the length at   *)
(* the first block and clears that many entries.  No lock protects the     *)
(* table: each visit of an entry is a step of its own.                     *)
(***************************************************************************)
EXTENDS Integers, FiniteSets

CONSTANTS Clients,  \* the threads that call the allocator
          NBlocks,  \* memtblsize[SRAMIN]
          BlkSize,  \* memblksize[SRAMIN]
          Sizes     \* bound: the sizes asked for, in bytes

ASSUME MemPoolAssumption ==
  /\ NBlocks \in Nat \ {0}
  /\ BlkSize \in Nat \ {0}
  /\ Sizes \subseteq Nat

VARIABLES
  memmap, memrdy,   \* the table, and whether it has been initialised
  live,             \* what the clients hold: [owner, start, size]
  pc,               \* where each client is in the allocator
  req,              \* the size it asks for
  old,              \* the block it gives back (free, realloc)
  offset, kmemb,    \* the search: entry to visit, free entries in a row
  i, nmemb          \* the marking or clearing loop: count and limit

vars == <<memmap, memrdy, live, pc, req, old, offset, kmemb, i, nmemb>>
loop == <<offset, kmemb, i, nmemb>>

Pool == 0 .. NBlocks - 1
NoBlock == [owner |-> "none", start |-> 0, size |-> 0]

Init ==
  /\ memmap = [b \in Pool |-> 0]
  /\ memrdy = FALSE
  /\ live = {}
  /\ pc = [c \in Clients |-> "idle"]
  /\ req = [c \in Clients |-> 0]
  /\ old = [c \in Clients |-> NoBlock]
  /\ offset = [c \in Clients |-> 0] /\ kmemb = [c \in Clients |-> 0]
  /\ i = [c \in Clients |-> 0] /\ nmemb = [c \in Clients |-> 0]

\* Mutant of Xmemb: one more block than needed when the size is a multiple.
XmembGenerous(size) == size \div BlkSize + 1

\* xmemb: the size in blocks, rounded up as the code does it.
Xmemb(size) == size \div BlkSize + (IF size % BlkSize /= 0 THEN 1 ELSE 0)

Goto(c, where) == pc' = [pc EXCEPT ![c] = where]
-----------------------------------------------------------------------------
(***************************************************************************)
(* The calls.  A client frees or reallocates only what it holds.           *)
(***************************************************************************)
Malloc(c) ==
  /\ pc[c] = "idle"
  /\ \E size \in Sizes : req' = [req EXCEPT ![c] = size]
  /\ old' = [old EXCEPT ![c] = NoBlock]
  /\ Goto(c, "enter")
  /\ UNCHANGED <<memmap, memrdy, live, loop>>

Realloc(c) ==
  /\ pc[c] = "idle"
  /\ \E a \in live, size \in Sizes :
       /\ a.owner = c
       /\ req' = [req EXCEPT ![c] = size]
       /\ old' = [old EXCEPT ![c] = a]
  /\ Goto(c, "enter")
  /\ UNCHANGED <<memmap, memrdy, live, loop>>

Free(c) ==
  /\ pc[c] = "idle"
  /\ \E a \in live : a.owner = c /\ old' = [old EXCEPT ![c] = a]
  /\ Goto(c, "free")
  /\ UNCHANGED <<memmap, memrdy, live, req, loop>>
-----------------------------------------------------------------------------
(***************************************************************************)
(* my_mem_malloc.                                                          *)
(***************************************************************************)

\* The first call finds the table uninitialised.
Enter(c) ==
  /\ pc[c] = "enter"
  /\ Goto(c, IF memrdy THEN "begin" ELSE "init")
  /\ UNCHANGED <<memmap, memrdy, live, req, old, loop>>

my_mem_init(c) ==
  /\ pc[c] = "init"
  /\ memmap' = [b \in Pool |-> 0]
  /\ memrdy' = TRUE
  /\ Goto(c, "begin")
  /\ UNCHANGED <<live, req, old, loop>>

\* Mutant of Begin: the search starts past the end of the table.
BeginPastEnd(c) ==
  /\ pc[c] = "begin"
  /\ Goto(c, IF req[c] = 0 THEN "idle" ELSE "scan")
  /\ offset' = [offset EXCEPT ![c] = NBlocks]
  /\ kmemb' = [kmemb EXCEPT ![c] = 0]
  /\ UNCHANGED <<memmap, memrdy, live, req, old, i, nmemb>>

\* A request for no bytes fails; any other starts the search at the end.
Begin(c) ==
  /\ pc[c] = "begin"
  /\ Goto(c, IF req[c] = 0 THEN "idle" ELSE "scan")
  /\ offset' = [offset EXCEPT ![c] = NBlocks - 1]
  /\ kmemb' = [kmemb EXCEPT ![c] = 0]
  /\ UNCHANGED <<memmap, memrdy, live, req, old, i, nmemb>>

\* Mutant of Row: a taken entry does not end the row.
RowOverTaken(c) == IF memmap[offset[c]] = 0 THEN kmemb[c] + 1 ELSE kmemb[c]

\* Mutant of Row: the row starts again at every entry.
RowRestarts(c) == IF memmap[offset[c]] = 0 THEN 1 ELSE 0

\* Free entries in a row, this one included.
Row(c) == IF memmap[offset[c]] = 0 THEN kmemb[c] + 1 ELSE 0

Scan(c) ==
  /\ pc[c] = "scan" /\ offset[c] >= 0
  /\ kmemb' = [kmemb EXCEPT ![c] = Row(c)]
  /\ IF Row(c) = Xmemb(req[c])
       THEN Goto(c, "mark") /\ UNCHANGED offset
       ELSE offset' = [offset EXCEPT ![c] = @ - 1] /\ UNCHANGED pc
  /\ i' = [i EXCEPT ![c] = 0]
  /\ nmemb' = [nmemb EXCEPT ![c] = Xmemb(req[c])]
  /\ UNCHANGED <<memmap, memrdy, live, req, old>>

\* No run is long enough: the call returns NULL, and a realloc leaves the
\* old block as it is.
Fail(c) ==
  /\ pc[c] = "scan" /\ offset[c] < 0
  /\ Goto(c, "idle")
  /\ UNCHANGED <<memmap, memrdy, live, req, old, loop>>

Granted(c) == [owner |-> c, start |-> offset[c], size |-> req[c]]

\* When the last entry is marked the client has the block; a realloc goes on
\* to free the old one, once its bytes are copied.
Mark(c) ==
  /\ pc[c] = "mark"
  /\ memmap' = [memmap EXCEPT ![offset[c] + i[c]] = nmemb[c]]
  /\ i' = [i EXCEPT ![c] = @ + 1]
  /\ IF i[c] + 1 < nmemb[c] THEN UNCHANGED <<live, pc>>
     ELSE /\ live' = live \union {Granted(c)}
          /\ Goto(c, IF old[c] = NoBlock THEN "idle" ELSE "free")
  /\ UNCHANGED <<memrdy, req, old, offset, kmemb, nmemb>>
-----------------------------------------------------------------------------
(***************************************************************************)
(* my_mem_free: the length is read at the first entry, then that many are  *)
(* cleared.  The caller holds no block before the table is initialised.    *)
(***************************************************************************)
FreeRead(c) ==
  /\ pc[c] = "free"
  /\ nmemb' = [nmemb EXCEPT ![c] = memmap[old[c].start]]
  /\ i' = [i EXCEPT ![c] = 0]
  /\ Goto(c, IF memmap[old[c].start] = 0 THEN "idle" ELSE "clear")
  /\ live' = live \ {old[c]}
  /\ UNCHANGED <<memmap, memrdy, req, old, offset, kmemb>>

\* Mutant of Clear: the last entry of the run is left marked.
ClearShort(c) ==
  /\ pc[c] = "clear"
  /\ memmap' = IF i[c] + 1 < nmemb[c]
                 THEN [memmap EXCEPT ![old[c].start + i[c]] = 0] ELSE memmap
  /\ i' = [i EXCEPT ![c] = @ + 1]
  /\ IF i[c] + 1 < nmemb[c] THEN UNCHANGED pc ELSE Goto(c, "idle")
  /\ UNCHANGED <<memrdy, live, req, old, offset, kmemb, nmemb>>

Clear(c) ==
  /\ pc[c] = "clear"
  /\ memmap' = [memmap EXCEPT ![old[c].start + i[c]] = 0]
  /\ i' = [i EXCEPT ![c] = @ + 1]
  /\ IF i[c] + 1 < nmemb[c] THEN UNCHANGED pc ELSE Goto(c, "idle")
  /\ UNCHANGED <<memrdy, live, req, old, offset, kmemb, nmemb>>

Next == \E c \in Clients :
          \/ Malloc(c) \/ Realloc(c) \/ Free(c)
          \/ Enter(c) \/ my_mem_init(c) \/ Begin(c)
          \/ Scan(c) \/ Fail(c) \/ Mark(c) \/ FreeRead(c) \/ Clear(c)

Spec == Init /\ [][Next]_vars
-----------------------------------------------------------------------------
(***************************************************************************)
(* What the allocator promises.                                            *)
(***************************************************************************)
Promise == INSTANCE Heap

Blocks(a) == a.start .. a.start + Xmemb(a.size) - 1

Allocation == [owner : Clients, start : Pool, size : Sizes]

TypeOK ==
  /\ memmap \in [Pool -> 0 .. NBlocks] /\ memrdy \in BOOLEAN
  /\ live \subseteq Allocation
  /\ pc \in [Clients -> {"idle", "enter", "init", "begin", "scan", "mark",
                         "free", "clear"}]
  /\ req \in [Clients -> Sizes \union {0}]
  /\ old \in [Clients -> Allocation \union {NoBlock}]
  /\ offset \in [Clients -> -1 .. NBlocks - 1]
  /\ kmemb \in [Clients -> 0 .. NBlocks]
  /\ i \in [Clients -> 0 .. NBlocks]
  /\ nmemb \in [Clients -> Nat]

\* Every allocation is a run of blocks of the pool that no other shares and
\* that is long enough, whatever is freed and in which order (malloc.c,
\* mymalloc and myfree).
HeapSpec == Promise!Spec

\* Between calls the table says exactly which blocks are held: nothing that
\* was freed is lost and nothing held can be handed out again.
TableIsExact ==
  (\A c \in Clients : pc[c] = "idle") =>
    \A b \in Pool :
      memmap[b] = IF \E a \in live : b \in Blocks(a)
                    THEN Xmemb((CHOOSE a \in live : b \in Blocks(a)).size)
                    ELSE 0

\* A run of free blocks that would do for the request of c.
Fits(c) == \E s \in Pool :
             LET run == s .. s + Xmemb(req[c]) - 1
             IN  run \subseteq Pool /\ \A a \in live : Blocks(a) \cap run = {}

\* NULL is returned only when no run of free blocks is long enough, however
\* the free blocks are scattered.
FailsRightly == \A c \in Clients : Fail(c) => ~Fits(c)
FailsOnlyWhenFull == [][FailsRightly]_vars

\* Two live allocations share no block (malloc.c:89, "found n consecutive
\* free blocks").
Disjoint == \A a, b \in live : a /= b => Blocks(a) \cap Blocks(b) = {}
=============================================================================
