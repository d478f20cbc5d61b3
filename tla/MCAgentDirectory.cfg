\* Four operations on one agent.
SPECIFICATION Spec
CONSTANTS
  None = None
  agent = agent
  few = few
  many = many
  ann = ann
  ben = ben
  Operations = {o1, o2, o3, o4}
  Agents = {agent}
  Grants = {few, many}
  Owners = {ann, ben}
  Requests <- MCRequests
INVARIANTS
  AuditedOnce
  TrailExplainsRow
  SuspensionOfActiveHolds
PROPERTY EveryOperationEnds
CHECK_DEADLOCK FALSE
