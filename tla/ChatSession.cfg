SPECIFICATION FairSpec
CONSTANTS
  None = None
  c1 = c1
  c2 = c2
  s1 = s1
  s2 = s2
  s3 = s3
  m1 = m1
  o1 = o1
  First = c1
  Convs = {c1, c2}
  Slots = {s1, s2, s3}
  Mine = {m1}
  Theirs = {o1}
  MaxDrops = 2
  MaxSwitches = 1
INVARIANT MessagesStayInTheirConversation WindowShowsItsConversation OneWayToConnect
PROPERTY ConnectionReturns SentArrives
CHECK_DEADLOCK FALSE
