------------------------------- MODULE Config --------------------------------
(***************************************************************************)
(* internal/config: from the YAML file and the OZPX_* environment to the   *)
(* configuration the proxy runs with, or to a refusal to start.            *)
(*                                                                         *)
(* "" is a key that is left out, as in the code.  A file is what the YAML  *)
(* decoder makes of it; files it rejects are Undecodable.                  *)
(***************************************************************************)
EXTENDS Integers, Sequences, FiniteSets

CONSTANTS
  HttpURL,       \* absolute http(s) URLs
  Undecodable    \* a file with unknown keys or values of a wrong type

supportedSigningAlgs ==
  {"RS256", "RS384", "RS512", "PS256", "PS384", "PS512", "ES256", "ES384", "ES512"}

IssuerType == [name: STRING, issuer: STRING, jwks_uri: STRING, audiences: SUBSET STRING]

\* What the YAML decoder makes of a file, and what os.Getenv returns.
ConfigType ==
  [s3_endpoint: STRING, forward_mode: STRING, strict: STRING, accept_bearer: STRING,
   issuers: Seq(IssuerType), max_duration: Int, store: STRING, addr: STRING,
   clock_skew: Int, algs: SUBSET STRING, pattern: STRING]

EnvType == [s3_endpoint: STRING, strict: STRING, accept_bearer: STRING, store_key: STRING]

\* OZPX_STRICT and OZPX_ACCEPT_BEARER: a value ParseBool does not know is ignored.
OverrideBool(value, env) == IF env \in {"true", "false"} THEN env ELSE value

Override(value, env) == IF env = "" THEN value ELSE env

applyEnv(c, env) ==
  [c EXCEPT !.s3_endpoint = Override(@, env.s3_endpoint),
            !.strict = OverrideBool(@, env.strict),
            !.accept_bearer = OverrideBool(@, env.accept_bearer)]

applyDefaults(c) ==
  [c EXCEPT !.forward_mode = IF @ = "" THEN "rewrite" ELSE @,
            !.max_duration = IF @ = 0 THEN 3600 ELSE @,
            !.store = IF @ = "" THEN "memory" ELSE @,
            !.clock_skew = IF @ = 0 THEN 900 ELSE @,
            !.algs = IF @ = {} THEN {"RS256", "ES256"} ELSE @,
            !.pattern = IF @ = "" THEN "default" ELSE @]

checkHTTPURL(u) == u \in HttpURL

ValidIssuer(issuers, i) ==
  /\ issuers[i].name # ""
  /\ checkHTTPURL(issuers[i].issuer)
  /\ \A j \in 1..i - 1 : issuers[j].name # issuers[i].name /\ issuers[j].issuer # issuers[i].issuer
  /\ issuers[i].jwks_uri = "" \/ checkHTTPURL(issuers[i].jwks_uri)
  /\ issuers[i].audiences # {}

validate(c) ==
  /\ checkHTTPURL(c.s3_endpoint)
  /\ c.forward_mode \in {"rewrite", "resign"}
  /\ c.store = "memory" \/ (c.store = "valkey" /\ c.addr # "")
  /\ c.issuers # <<>>
  /\ \A i \in DOMAIN c.issuers : ValidIssuer(c.issuers, i)
  /\ c.max_duration > 0
  /\ c.clock_skew > 0
  /\ c.algs \subseteq supportedSigningAlgs
  /\ c.pattern # "bad"

Effective(file, env) == applyDefaults(applyEnv(file, env))

\* A form of Accepted that validates what the environment then overrides.
AcceptedBeforeEnv(file, env) == file # Undecodable /\ validate(applyDefaults(file))

\* Parse: whether there is an effective configuration.
Accepted(file, env) == file # Undecodable /\ validate(Effective(file, env))

StrictEnabled(c) == c.strict # "false"
BearerEnabled(c) == c.accept_bearer # "false"

=============================================================================
