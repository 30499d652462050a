SPECIFICATION FairSpec
CONSTANTS
  Subscribers = {reader, staller}
  Readers = {reader}
  Events = {a, b}
  MaxEvents = 2
  NoOne = NoOne
INVARIANTS
  NoLostWakeup
PROPERTIES
  StreamsReturn
  ImplementsLog
CHECK_DEADLOCK FALSE
