---------------------------- MODULE MCMemoryQueue ----------------------------
(***************************************************************************)
(* MemoryQueue for TLC: small sets of items and threads, and the           *)
(* configurations the repository's services use, at the size of a model.   *)
(***************************************************************************)
EXTENDS MemoryQueue, TLC

CONSTANTS i1, i2, i3, c1, c2

\* One hash code per item, as for most pairs of objects.
DistinctHashes == [i \in Items |-> i]

\* i1 and i2 share a hash code.
CollidingHashes == [i \in Items |-> IF i = i2 THEN i1 ELSE i]

Config(max, actions, errorAction) ==
  [max |-> max, actions |-> actions, errorAction |-> errorAction,
   interval |-> 10, errorInterval |-> 1000, consumeAll |-> TRUE]

\* The queue's own defaults, with the error action the alarm's mail and mobile queues set.
AlarmConfig ==
  Config(1, ReachMaxActions \ {"DoubleMaxItemCountOnce"}, "EnqueueTwiceAndLogException")

\* The default of the Mongodb insert services.
MongodbConfig == Config(2, {"AbandonOldItems"}, "AbandonAndLogException")

\* Every flag together: the log line that throws stands between the others.
AllFlags == Config(1, ReachMaxActions, "EnqueueTwiceAndLogException")

\* No AbandonOldItems: a full queue refuses the new item.
Refusing == Config(1, {"DoubleMaxItemCountOnce"}, "EnqueueTwiceAndLogException")

\* MaxItemCount is not validated.
Zero == Config(0, ReachMaxActions, "EnqueueTwiceAndLogException")

\* Incomplete batches wait for more items.
Waiting == [Config(3, {"AbandonOldItems"}, "EnqueueTwiceAndLogException")
              EXCEPT !.consumeAll = FALSE]

SafetyConfigs == {AlarmConfig, MongodbConfig, AllFlags, Refusing, Zero, Waiting,
                  Config(3, {"AbandonOldItems"}, "EnqueueTwiceAndLogException")}

LivenessConfigs == {AlarmConfig, Config(2, {"AbandonOldItems"}, "EnqueueTwiceAndLogException")}

DocConfigs == {Config(3, {"AbandonOldItems"}, "EnqueueTwice")}

ConsumerSymmetry == Permutations(Consumers)
==============================================================================
