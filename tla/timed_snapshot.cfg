SPECIFICATION Spec
CONSTANTS
  NULL = NULL
  Messages <- TimedSnapshot
  SessionIds = {1, 2}
  Accounts = {"Alice"}
  PrincipalOf <- MCPrincipalOf
  ProviderIds = {"2"}
  EventIds <- MCIds
  IdRank <- MCIdRank
  BootTokens = {"b1"}
  Addresses = {"home"}
  TicksPerSecond = 2
  ClockAdvance = {1}
INVARIANTS
  OneRowPerLogon
