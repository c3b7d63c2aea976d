--------------------------- MODULE MCInsertPipeline ---------------------------
(***************************************************************************)
(* InsertPipeline for TLC.                                                 *)
(***************************************************************************)
EXTENDS InsertPipeline, TLC

\* The client's queue overflows, and the server's threads get batches of two.
Capacity == [s \in Sides |-> IF s = "client" THEN 1 ELSE 2]
=============================================================================
