\* Two concurrent calls of one agent, two settings: the safety properties.
SPECIFICATION Spec
CONSTANTS
  None = None
  Invalid = Invalid
  c1 = c1
  c2 = c2
  agent = agent
  alice = alice
  bob = bob
  client = client
  other = other
  crm = crm
  wire = wire
  hr = hr
  approver = approver
  Calls = {c1, c2}
  Agents = {agent}
  Humans = {alice, bob}
  Clients = {client, other}
  Roles = {approver}
  LimitedTool = crm
  Tools <- MCTools
  Requests <- MCRequests
  Registrations <- MCRegistrations
  Settings <- TwoSettings
SYMMETRY CallSymmetry
INVARIANTS
  WriteAhead
  AnswerTellsTheTruth
  HardDenialsEnforced
  CapabilityRespected
PROPERTY AuditedSpec
CHECK_DEADLOCK FALSE
