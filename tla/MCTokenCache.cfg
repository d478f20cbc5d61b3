\* Two users, two exchanges at a time; Margin > MaxDelay.
SPECIFICATION Spec
CONSTANTS
  Callers = {c1, c2}
  Subjects = {alice, bob}
  Audiences = {crm}
  Lives <- MCLives
  Nothing = Nothing
  MaxTTL = 3
  Margin = 2
  MaxDelay = 1
INVARIANTS
  OwnToken
  MarginKept
  ReuseBounded
