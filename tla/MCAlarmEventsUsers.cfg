CONSTANTS
  Ids = {i1, i2}
  Groups = {g1}
  Enabled <- MailOnly
  Callbacks = {t1}
  Users = {u1, u2}
SPECIFICATION FairSpec
PROPERTIES
  RevivedOnlyByStaleRead
  OverdueEventIsClosed
CHECK_DEADLOCK FALSE
