\* One call, all settings: the liveness properties.
SPECIFICATION Spec
CONSTANTS
  None = None
  Invalid = Invalid
  c1 = c1
  c2 = c2
  agent = agent
  alice = alice
  bob = bob
  client = client
  other = other
  crm = crm
  wire = wire
  hr = hr
  approver = approver
  Calls = {c1}
  Agents = {agent}
  Humans = {alice, bob}
  Clients = {client, other}
  Roles = {approver}
  LimitedTool = crm
  Tools <- MCTools
  Requests <- MCRequests
  Registrations <- MCRegistrations
  Settings <- AllSettings
PROPERTIES
  EveryCallEnds
  RevocationBinds
CHECK_DEADLOCK FALSE
