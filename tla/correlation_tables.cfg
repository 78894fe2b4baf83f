SPECIFICATION Spec
CONSTANTS
  alice = alice
  bob = bob
  NULL = NULL
  Identities = {alice, bob}
  Events <- ThreeEvents
  EventOf <- ThreeEventOf
  Sessions <- OneSession
  SessionOf <- OneSessionOf
  BatchSize = 2
  MaxAttempts = 2
  RetryBase = 1
  RetryCap = 1
  Answers <- MalformedAnswers
  Mishaps = {"requeue"}
INVARIANTS TypeOK SessionShowsLatest RecordsAgree MetricsAgree
PROPERTIES EvidenceFrozen MalformedAnswersStayLocal
