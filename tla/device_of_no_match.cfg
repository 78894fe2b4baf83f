SPECIFICATION Spec
CONSTANTS
  alice = alice
  bob = bob
  NULL = NULL
  Identities = {alice, bob}
  Events <- LaterEvent
  EventOf <- LaterEventOf
  Sessions <- OneSession
  SessionOf <- OneSessionOf
  BatchSize = 2
  MaxAttempts = 2
  RetryBase = 1
  RetryCap = 1
  Answers <- AmbiguousDevice
  Mishaps = {}
PROPERTIES DeviceOnlyWhenMatched
