SPECIFICATION Spec
CONSTANTS
  InboxSize = 1
  Capacity = 1
  Modulus = 2
  MaxRequests = 2
  MaxMessages = 3
INVARIANT ReaderKeepsProtocol
INVARIANT MessagesInOrder
INVARIANT CommandsInOrder
INVARIANT NoncesInStep
CHECK_DEADLOCK FALSE
PROPERTY LinkImplemented
PROPERTY BodyKeepsUp
