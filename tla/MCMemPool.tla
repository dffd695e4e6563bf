----------------------------- MODULE MCMemPool -----------------------------
(***************************************************************************)
(* MemPool with 5 blocks of 4 bytes and requests of 0, 1, 2 and 4 blocks,  *)
(* one of them an exact multiple of the block size.                        *)
(***************************************************************************)
EXTENDS MemPool

MCSizes == {0, 4, 5, 13}
=============================================================================
