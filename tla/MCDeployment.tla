---------------------------- MODULE MCDeployment ----------------------------
\* A gateway with a registry file, one whose users have an identity provider of
\* their own, and one that shares it and has everything else.
EXTENDS Deployment

CONSTANTS v1, v2, badEntry, garbage

Plain == [identity_mode |-> "header", subjects |-> "off",
          database |-> FALSE, redis |-> FALSE, vault |-> FALSE]
Svid == [identity_mode |-> "jwt-svid", subjects |-> "own",
         database |-> TRUE, redis |-> FALSE, vault |-> FALSE]
Full == [identity_mode |-> "oidc-jwks", subjects |-> "shared",
         database |-> TRUE, redis |-> TRUE, vault |-> TRUE]

MCSettings == {Plain, Svid, Full}
=============================================================================
