SPECIFICATION Spec
CONSTANTS
  Publishers <- MCPublishers
  Subs = {s1}
  REQUESTED <- MCRequested
  WORD = 8
  MaxMessages = 10
INVARIANTS
  SlotsHoldLatest
PROPERTIES
  TopicImplemented
  NewsIsRead
