SPECIFICATION QueriesSpec
CONSTANTS
  alice = alice
  bob = bob
  NULL = NULL
  Messages <- OneLongBoot
  SessionIds = {1, 2, 3, 4}
  Accounts <- MCAccounts
  PrincipalOf <- MCPrincipalOf
  ProviderIds = {"2", "3"}
  EventIds <- MCEventIds
  IdRank <- MCIdRank
  BootTokens = {"b1", "b2"}
  Addresses = {"home", "work"}
  TicksPerSecond = 2
  ClockAdvance = {1}
INVARIANTS
  LogoffIsBacked
  LogonsAreDisjoint
  NoFalseReboot
  TimelineHoldsItsEnds
PROPERTIES
  TimesAdvance
  LaterTransitionWins
