---------------------------- MODULE MCAlarmEvents ----------------------------
(***************************************************************************)
(* AlarmEvents for TLC.                                                    *)
(***************************************************************************)
EXTENDS AlarmEvents, TLC

\* Every group has both channels: the second is throttled by an answer of AlarmIsHandling
\* that the first may have outdated.
BothChannels == [g \in Groups |-> Channels]

MailOnly == [g \in Groups |-> {"mail"}]

AlarmSymmetry == Permutations(Ids) \cup Permutations(Callbacks) \cup Permutations(Users)
=============================================================================
