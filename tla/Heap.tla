-------------------------------- MODULE Heap --------------------------------
(***************************************************************************)
(* What a memory pool promises its clients: an allocation is a run of      *)
(* blocks of the pool, long enough for the bytes asked for, that shares no *)
(* block with any other allocation; it stays so until it is freed.         *)
(***************************************************************************)
EXTENDS Naturals

CONSTANTS NBlocks,  \* how many blocks the pool has
          BlkSize,  \* bytes in a block
          Sizes,    \* the sizes clients ask for, in bytes
          Clients

VARIABLE live       \* the allocations: [owner, start, size]

\* The fewest blocks that hold size bytes, and the blocks of an allocation.
Need(size) == (size + BlkSize - 1) \div BlkSize
Run(start, size) == start .. start + Need(size) - 1
Blocks(a) == Run(a.start, a.size)

Pool == 0 .. NBlocks - 1

Init == live = {}

Malloc(c, size) ==
  \E start \in Pool :
    /\ Run(start, size) \subseteq Pool
    /\ \A a \in live : Blocks(a) \cap Run(start, size) = {}
    /\ live' = live \union {[owner |-> c, start |-> start, size |-> size]}

Free(a) == live' = live \ {a}

Next == \/ \E c \in Clients, size \in Sizes \ {0} : Malloc(c, size)
        \/ \E a \in live : Free(a)

Spec == Init /\ [][Next]_live
=============================================================================
