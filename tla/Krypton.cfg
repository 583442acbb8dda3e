SPECIFICATION Spec
CONSTANTS
  Workers = 2
  Capacity = 2
  MaxRequests = 4
  MaxMessages = 2
  HelloParts = 2
CHECK_DEADLOCK FALSE
PROPERTY LinkImplemented
PROPERTY DeviceIsHeard
