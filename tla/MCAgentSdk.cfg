\* One invocation, tried up to three times: a late request meets later ones.
SPECIFICATION Spec
CONSTANTS
  i1 = i1
  Invocations = {i1}
  MaxAttempts = 3
  Sites <- MCSites
  None = None
\* The program ends, and what is still in flight with it.
CHECK_DEADLOCK FALSE
INVARIANTS
  GuardrailSeesArguments
  AnswersMatchEffects
  RunsAtMostOnce
PROPERTIES
  ImplementsAudited
