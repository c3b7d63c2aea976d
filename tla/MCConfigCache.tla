---------------------------- MODULE MCConfigCache ----------------------------
(***************************************************************************)
(* ConfigCache for TLC.                                                    *)
(***************************************************************************)
EXTENDS ConfigCache, TLC
=============================================================================
