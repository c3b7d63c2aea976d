CONSTANTS
  Elements = {e1, e2}
  List = list
  Readers = {r1, s1}
  Subscribers = {s1}
  MaxVersion = 4
  None = None
SPECIFICATION FairSpec
INVARIANTS
  TypeOK
  LiveItemsAreCurrent
  ValueIsCurrent
PROPERTIES
  SubscriberIsTold
  OnlyLateAnswersRevive
  UnlistedOnlyByReplacement
  CacheConverges
CHECK_DEADLOCK FALSE
