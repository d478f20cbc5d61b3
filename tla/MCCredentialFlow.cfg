SPECIFICATION Spec
CONSTANTS
  a1 = a1
  a2 = a2
  h1 = h1
  h2 = h2
  Calls = {c1}
  Agents = {a1, a2}
  Humans = {h1, h2}
  Gateway = Gateway
  ServiceAccount = ServiceAccount
  None = None
  Opaque = Opaque
  Settings <- MCSettings
  TokenTTL = 2
  BrokeredTTL = 1
  MaxTime = 3
  MaxTokens = 2
SYMMETRY Symmetry
CHECK_DEADLOCK FALSE
INVARIANTS
  VerifiedIsServed
  DelegationIsEarned
  AutonomousNeedsNoUser
  LifeBounded
PROPERTIES
  AuditedSpec
