SPECIFICATION Spec
CONSTANTS
  InboxSize = 1
  Capacity = 1
  Modulus = 2
  MaxRequests = 2
  MaxMessages = 2
PROPERTY DeviceIsHeard
CHECK_DEADLOCK FALSE
