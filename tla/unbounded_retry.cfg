SPECIFICATION FairSpec
CONSTANTS
  alice = alice
  bob = bob
  NULL = NULL
  Identities = {alice, bob}
  Events <- TwoEvents
  EventOf <- TwoEventOf
  Sessions <- TwoSessions
  SessionOf <- MCSessionOf
  BatchSize = 2
  MaxAttempts = 2
  RetryBase = 1
  RetryCap = 1
  Answers <- OneOfEach
  Mishaps = {}
PROPERTIES RetriesEnd
