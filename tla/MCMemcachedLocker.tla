-------------------------- MODULE MCMemcachedLocker --------------------------
(***************************************************************************)
(* MemcachedLocker for TLC.                                                *)
(***************************************************************************)
EXTENDS MemcachedLocker, TLC
=============================================================================
