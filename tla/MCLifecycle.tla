----------------------------- MODULE MCLifecycle -----------------------------
(***************************************************************************)
(* Instance of Lifecycle: a file with every key set, the files that differ *)
(* from it in one key, and the environments.                               *)
(***************************************************************************)
EXTENDS Lifecycle

MCIssuer(n, u) == [name |-> n, issuer |-> u, jwks_uri |-> "", audiences |-> {"aud"}]

MCBase ==
  [s3_endpoint |-> "http://a", forward_mode |-> "resign", strict |-> "true",
   accept_bearer |-> "true", issuers |-> <<MCIssuer("n", "http://a"), MCIssuer("m", "http://b")>>,
   max_duration |-> 60, store |-> "valkey", addr |-> "addr", clock_skew |-> 1,
   algs |-> {"RS256"}, pattern |-> "good"]

MCIssuers ==
  { <<>>, <<MCIssuer("", "http://a")>>, <<MCIssuer("n", "ftp")>>,
    <<MCIssuer("n", "http://a"), MCIssuer("n", "http://b")>>,
    <<MCIssuer("n", "http://a"), MCIssuer("m", "http://a")>>,
    <<[MCIssuer("n", "http://a") EXCEPT !.jwks_uri = "ftp"]>>,
    <<[MCIssuer("n", "http://a") EXCEPT !.audiences = {}]>> }

MCFile ==
  {MCBase, Undecodable}
  \cup {[MCBase EXCEPT !.s3_endpoint = u] : u \in {"", "ftp"}}
  \cup {[MCBase EXCEPT !.forward_mode = m] : m \in {"", "other"}}
  \cup {[MCBase EXCEPT !.strict = b, !.accept_bearer = b] : b \in {"", "false"}}
  \cup {[MCBase EXCEPT !.issuers = s] : s \in MCIssuers}
  \cup {[MCBase EXCEPT !.max_duration = d, !.clock_skew = d] : d \in {-1, 0}}
  \cup {[MCBase EXCEPT !.store = t] : t \in {"", "other"}}
  \cup {[MCBase EXCEPT !.addr = ""], [MCBase EXCEPT !.store = "", !.addr = ""]}
  \cup {[MCBase EXCEPT !.algs = s] : s \in {{}, {"HS256"}}}
  \cup {[MCBase EXCEPT !.pattern = p] : p \in {"", "bad"}}

MCEnv ==
  [s3_endpoint: {"", "http://b", "ftp"}, strict: {"", "true", "false", "off"},
   accept_bearer: {"", "off"}, store_key: {"", "bad", "key"}]

=============================================================================
