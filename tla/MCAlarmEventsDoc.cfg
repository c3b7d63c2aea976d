CONSTANTS
  Ids = {i1}
  Groups = {g1}
  Enabled <- MailOnly
  Callbacks = {t1}
  Users = {u1}
SPECIFICATION Spec
PROPERTIES
  ClosedOnlyWhenOverdue
CHECK_DEADLOCK FALSE
