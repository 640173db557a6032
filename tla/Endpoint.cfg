\* Three receivers on one endpoint with room for two messages.
SPECIFICATION FairSpec
CONSTANTS
  r1 = r1
  r2 = r2
  r3 = r3
  Receivers = {r1, r2, r3}
  QUEUE_LIMIT = 2
  MAX_MESSAGES = 4
  NoMessage = 0
INVARIANTS
  NoReceiverSleepsBesideAMessage
  InboxIsExpected
PROPERTIES
  KeepsPromise
  HandedOverIsReceived
CHECK_DEADLOCK FALSE
