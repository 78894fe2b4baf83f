SPECIFICATION QueriesSpec
CONSTANTS
  alice = alice
  bob = bob
  NULL = NULL
  Messages <- IdUsedAgain
  SessionIds = {1, 2, 3}
  Accounts <- MCAccounts
  PrincipalOf <- MCPrincipalOf
  ProviderIds = {"2", "3"}
  EventIds <- MCEventIds
  IdRank <- MCIdRank
  BootTokens = {"b1", "b2"}
  Addresses = {"home", "work"}
  TicksPerSecond = 2
  ClockAdvance = {1}
INVARIANTS
  TimelinesApart
