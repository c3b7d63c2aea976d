CONSTANTS
  Ids = {i1, i2, i3}
  Groups = {g1}
  Enabled <- BothChannels
  Callbacks = {t1, t2}
  Users = {u1}
SPECIFICATION Spec
SYMMETRY AlarmSymmetry
INVARIANTS
  TypeOK
  ActiveEventsAreBounded
  MessagesAreThrottled
CHECK_DEADLOCK FALSE
