SPECIFICATION FairSpec
CONSTANTS
  alice = alice
  bob = bob
  NULL = NULL
  Identities = {alice, bob}
  Events <- FourEvents
  EventOf <- OrphanEventOf
  Sessions <- OneSession
  SessionOf <- OneSessionOf
  BatchSize = 2
  MaxAttempts = 4
  RetryBase = 1
  RetryCap = 3
  Answers <- OneOfEach
  Mishaps = {"crash", "purge"}
INVARIANTS RecordsAgree
PROPERTIES FollowsLifecycle QueueDrains EventsDiscovered
