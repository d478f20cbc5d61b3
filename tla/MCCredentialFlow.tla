--------------------------- MODULE MCCredentialFlow ---------------------------
\* One call of two agents, with up to two tokens of two users among them. Time
\* runs long enough for a token to expire before, between and after the checks.
EXTENDS CredentialFlow, TLC

CONSTANTS a1, a2, h1, h2

Default ==
  [identity_mode |-> "oidc-jwks", subject_verification |-> TRUE,
   subject_binding |-> "strict", token_exchange_mode |-> "rfc8693",
   delegated_audience |-> "upstream"]

MCSettings ==
  {Default,
   [Default EXCEPT !.subject_binding = "may-act-only"],
   [Default EXCEPT !.subject_binding = "off"],
   [Default EXCEPT !.subject_verification = FALSE],
   [Default EXCEPT !.identity_mode = "jwt-svid"],
   [Default EXCEPT !.identity_mode = "header"],
   [Default EXCEPT !.token_exchange_mode = "entra"],
   [Default EXCEPT !.token_exchange_mode = "stub", !.identity_mode = "header"],
   [Default EXCEPT !.delegated_audience = "gateway"]}

Symmetry == Permutations({a1, a2}) \cup Permutations({h1, h2})
=============================================================================
