---------------------------- MODULE MCBlockCache ----------------------------
(***************************************************************************)
(* Small instances of the block cache: a file whose last block is short.   *)
(***************************************************************************)
EXTENDS BlockCacheProperties
=============================================================================
