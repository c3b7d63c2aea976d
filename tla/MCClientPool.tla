---------------------------- MODULE MCClientPool ----------------------------
(***************************************************************************)
(* ClientPool for TLC: one node, two callers and as many sockets as they   *)
(* and the pool can refer to at a time.                                    *)
(***************************************************************************)
EXTENDS ClientPool, TLC

\* Sockets have no identity of their own, nor have callers.
PoolSymmetry == Permutations(Sockets) \cup Permutations(Clients)
=============================================================================
