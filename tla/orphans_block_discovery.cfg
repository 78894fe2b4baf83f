SPECIFICATION FairSpec
CONSTANTS
  alice = alice
  bob = bob
  NULL = NULL
  Identities = {alice, bob}
  Events <- FourEvents
  EventOf <- OrphanEventOf
  Sessions <- OneSession
  SessionOf <- OneSessionOf
  BatchSize = 1
  MaxAttempts = 2
  RetryBase = 1
  RetryCap = 2
  Answers <- OneOfEach
  Mishaps = {}
PROPERTIES EventsDiscovered
