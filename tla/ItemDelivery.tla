---------------------------- MODULE ItemDelivery ----------------------------
(***************************************************************************)
(* What a memory queue promises about each item, whatever its threads do:  *)
(* an accepted item is delivered at most MaxAttempts times, a delivery may *)
(* consume it, and an item that was consumed or lost is never delivered    *)
(* again.  MemoryQueue implements this specification.                      *)
(***************************************************************************)
EXTENDS Naturals

CONSTANTS Items, MaxAttempts

VARIABLES fate, attempts

Fates == {"new", "pending", "consumed", "lost"}

Init ==
  /\ fate = [i \in Items |-> "new"]
  /\ attempts = [i \in Items |-> 0]

Pending(S) == \A i \in S : fate[i] = "pending"

Become(S, f) == fate' = [i \in Items |-> IF i \in S THEN f ELSE fate[i]]

Offer(i) ==
  /\ fate[i] = "new"
  /\ Become({i}, "pending") \/ Become({i}, "lost")
  /\ UNCHANGED attempts

\* A batch is tried; all of it is consumed or none of it.
Attempt(S) ==
  /\ Pending(S)
  /\ \A i \in S : attempts[i] < MaxAttempts
  /\ attempts' = [i \in Items |-> IF i \in S THEN attempts[i] + 1 ELSE attempts[i]]
  /\ Become(S, "consumed") \/ UNCHANGED fate

Lose(S) ==
  /\ Pending(S)
  /\ Become(S, "lost")
  /\ UNCHANGED attempts

Next ==
  \/ \E i \in Items : Offer(i)
  \/ \E S \in SUBSET Items : Attempt(S) \/ Lose(S)

Spec == Init /\ [][Next]_<<fate, attempts>>
=============================================================================
