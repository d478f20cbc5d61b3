\* Two upstreams that share a tool name, two concurrent requests.
SPECIFICATION Spec
CONSTANTS
  None = None
  Down = Down
  Odd = Odd
  Pending = Pending
  crm = crm
  wire = wire
  N = 2
  Tools <- MCTools
  Offers <- MCOffers
  Faults <- MCFaults
  Requests = {q1, q2}
  TTL = 1
INVARIANTS
  AuthorityHonoured
PROPERTIES
  FanoutsCoalesce
  EveryRequestEnds
  TableConverges
