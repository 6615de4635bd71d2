------------------------------- MODULE Forward -------------------------------
(***************************************************************************)
(* What becomes of the content of a request between its verification and   *)
(* the gateway: internal/sigv4 (canonical form, Verify, VerifyPresigned,   *)
(* Sign), internal/forward (the identity headers and the reverse proxy)    *)
(* and applyIdentity of internal/server.  Which credentials a request is   *)
(* checked against is the matter of module Proxy; here they are those of   *)
(* the user the request is forwarded as.                                   *)
(*                                                                         *)
(* A query is a sequence of parameters.  A signature is the record of all  *)
(* that goes into it: equal signatures are signatures of equal contents.   *)
(***************************************************************************)
EXTENDS Subsequence

CONSTANTS
  Query,      \* the queries clients send, before a signature is added
  Connection, \* the sets of headers that Connection headers name
  Endpoint,   \* the values of upstream.s3_endpoint
  AuthKey,    \* presignedAuthParams
  SigKey,     \* X-Amz-Signature, one of them
  Special,    \* the values with a semicolon
  Day,        \* length of a day
  Skew,       \* security.sigv4_clock_skew
  Expires,    \* X-Amz-Expires of the presigned URLs
  MaxTime,    \* bound on the clock
  None        \* an absent header

\* Keys and values are numbered in the order of their encoded forms.  form is how
\* the parameter is written: as is, with percent escapes, or with a broken escape.
Param == [key: Nat \ {0}, val: Nat, form: {"plain", "escaped", "broken"}]

AmzHeader == {"x-amz-date", "x-amz-content-sha256", "x-amz-security-token", "x-amz-meta"}
Name == AmzHeader \cup {"host"}

ASSUME ForwardAssumption ==
  /\ Query \subseteq Seq(Param)
  /\ Connection \subseteq SUBSET (AmzHeader \cup {"authorization"})
  /\ Endpoint \subseteq [path: BOOLEAN, query: Seq(Param)]
  /\ AuthKey \subseteq Nat \ {0} /\ SigKey \in AuthKey
  /\ \A q \in Query : \A i \in DOMAIN q : q[i].key # SigKey
  /\ Special \subseteq Nat
  /\ None \notin Int
  /\ Day \in Nat \ {0} /\ Skew \in Nat /\ Expires \in Nat /\ MaxTime \in Nat \ 0..Day

VARIABLES
  now,        \* the clock
  mode,       \* upstream.forward_mode
  endpoint,   \* upstream.s3_endpoint: whether it has a path, and its query
  pc, lane,   \* where the request stands, and its lane
  req,        \* the request as the handler holds it
  origin,     \* history: the request as its client signed it
  sent        \* what the gateway receives

config == <<mode, endpoint>>
vars == <<now, config, pc, lane, req, origin, sent>>

DayOf(t) == t \div Day

-----------------------------------------------------------------------------
(* The canonical form. *)

Broken(q) == \E i \in DOMAIN q : q[i].form = "broken"

Pair(p) == <<p.key, p.val>>

\* A form of Less that orders by key alone.
LessByKey(x, y) == x[1] < y[1]

Less(x, y) == x[1] < y[1] \/ (x[1] = y[1] /\ x[2] < y[2])

\* The pairs of q by their position, the skipped key (0 for none) left out.
Pairs(q, skip) == [i \in {j \in DOMAIN q : q[j].key # skip} |-> Pair(q[i])]

\* The place of position i when p is sorted; what Less does not tell apart keeps its order.
Place(p, i) ==
  Cardinality({j \in DOMAIN p : Less(p[j], p[i]) \/ (~Less(p[i], p[j]) /\ j <= i)})

Sort(p) == [n \in 1..Cardinality(DOMAIN p) |-> p[CHOOSE i \in DOMAIN p : Place(p, i) = n]]

\* For a query without broken escapes.
canonicalQuery(q, skip) == Sort(Pairs(q, skip))

\* The signature of request r with a secret: date and scope, and the canonical request.
Signature(secret, r, date, day, signed, skip, hash) ==
  [secret |-> secret, date |-> date, day |-> day, path |-> r.path,
   query |-> canonicalQuery(r.query, skip), headers |-> [n \in signed |-> r.headers[n]],
   hash |-> hash]

\* The payload hash a header-signed request declares; for one that declares none it
\* is that of the empty body.
PayloadHash(r) ==
  IF r.headers["x-amz-content-sha256"] = None THEN "empty" ELSE r.headers["x-amz-content-sha256"]

-----------------------------------------------------------------------------
(* Clients.  They sign with the secret of their credentials, and the request *)
(* may be altered on its way.                                                *)

NoSignature == [secret |-> "none"]
NoAuth == [akid |-> "none", date |-> 0, day |-> 0, signed |-> {}, sig |-> NoSignature]

\* The path as canonicalURI finds it: with every character escaped that URLs escape,
\* or with some of them written as they are.
Path == [prefixed: {FALSE}, form: {"escaped", "literal"}]

Bare(path, q, hash, token, hop) ==
  [path |-> path, query |-> q, auth |-> NoAuth, hop |-> hop,
   headers |-> [n \in Name |-> CASE n = "host" -> "proxy"
                                 [] n = "x-amz-content-sha256" -> hash
                                 [] n = "x-amz-security-token" -> token
                                 [] OTHER -> None]]

\* Header authentication, on date d with scope day y.
HeaderSigned(path, q, hash, hop, d, y, signed) ==
  LET r == [Bare(path, q, hash, "session", hop) EXCEPT !.headers["x-amz-date"] = d, !.headers["x-amz-meta"] = 1]
  IN [r EXCEPT !.auth = [akid |-> "akid", date |-> d, day |-> y, signed |-> signed,
                         sig |-> Signature("client", r, d, y, signed, 0, PayloadHash(r))]]

\* Query authentication: the signature itself is one more parameter.
SignatureParam == [key |-> SigKey, val |-> 0, form |-> "plain"]

QuerySigned(path, q, hash, hop, d, y) ==
  LET r == Bare(path, q, hash, None, hop)
  IN [r EXCEPT !.auth = [akid |-> "akid", date |-> d, day |-> y, signed |-> {"host"},
                         sig |-> Signature("client", r, d, y, {"host"}, SigKey, "UNSIGNED-PAYLOAD")],
               !.query = Append(q, SignatureParam)]

HasAuth(q) == \E i \in DOMAIN q : q[i].key \in AuthKey

Begin(l, r) ==
  /\ pc' = "verify" /\ lane' = l
  /\ origin' = r
  /\ UNCHANGED <<now, config, sent>>

ArriveBearer ==
  /\ pc = "idle"
  /\ \E path \in Path, q \in Query, hash \in {None, "declared"}, token \in {None, "session"},
        hop \in Connection :
       Begin("bearer", Bare(path, q, hash, token, hop))
  /\ req' = origin'

\* What may arrive of r: another query, a header changed or lost, the path escaped.
Arriving(r) ==
  {[r EXCEPT !.query = q] : q \in Query}
  \cup {[r EXCEPT !.headers["x-amz-meta"] = 2], [r EXCEPT !.headers["x-amz-date"] = None],
        [r EXCEPT !.path.form = "escaped"]}

ArriveHeader ==
  /\ pc = "idle"
  /\ \E path \in Path, q \in {p \in Query : ~Broken(p)}, signed \in {Name, Name \ {"x-amz-meta"}},
        hash \in {None, "declared"}, hop \in Connection,
        d \in {now - Skew - 1, now - Skew, now + Skew}, y \in {DayOf(now), DayOf(now) + 1} :
       Begin("sigv4", HeaderSigned(path, q, hash, hop, d, y, signed))
  /\ req' \in Arriving(origin')

\* Of a presigned URL the query may change, its signature apart, or the path.
ArrivingPresigned(r) ==
  {[r EXCEPT !.query = Append(q, SignatureParam)] : q \in {p \in Query : HasAuth(p)}}
  \cup {[r EXCEPT !.path.form = "escaped"]}

ArrivePresigned ==
  /\ pc = "idle"
  /\ \E path \in Path, q \in {p \in Query : HasAuth(p) /\ ~Broken(p)}, hash \in {None, "declared"},
        hop \in Connection, d \in {now - Expires - 1, now - Expires, now + Skew, now + Skew + 1},
        y \in {DayOf(now), DayOf(now) + 1} :
       Begin("presigned", QuerySigned(path, q, hash, hop, d, y))
  /\ req' \in ArrivingPresigned(origin')

-----------------------------------------------------------------------------
(* Verification, at the time the handler reads the clock. *)

\* A form of Verify that does not compare the scope's date with X-Amz-Date.
VerifyAnyScope(r) ==
  LET date == r.headers["x-amz-date"] IN
  IF date = None THEN "missing_date"
  ELSE IF now - date > Skew \/ date - now > Skew THEN "skew"
  ELSE IF Broken(r.query) THEN "malformed"
  ELSE IF r.auth.sig # Signature("client", r, date, r.auth.day, r.auth.signed, 0, PayloadHash(r))
       THEN "mismatch"
  ELSE "ok"

Verify(r) ==
  LET date == r.headers["x-amz-date"] IN
  IF date = None THEN "missing_date"
  ELSE IF now - date > Skew \/ date - now > Skew THEN "skew"
  ELSE IF DayOf(date) # r.auth.day THEN "scope"
  ELSE IF Broken(r.query) THEN "malformed"
  ELSE IF r.auth.sig # Signature("client", r, date, r.auth.day, r.auth.signed, 0, PayloadHash(r))
       THEN "mismatch"
  ELSE "ok"

VerifyPresigned(r) ==
  LET date == r.auth.date IN
  IF DayOf(date) # r.auth.day THEN "scope"
  ELSE IF date - now > Skew THEN "skew"
  ELSE IF now > date + Expires THEN "url_expired"
  ELSE IF Broken(r.query) THEN "malformed"
  ELSE IF r.auth.sig # Signature("client", r, date, r.auth.day, r.auth.signed, SigKey, "UNSIGNED-PAYLOAD")
       THEN "mismatch"
  ELSE "ok"

\* The outcome for the lane; a bearer request is identified by its token.
Verdict ==
  CASE lane = "bearer" -> "ok"
    [] lane = "sigv4" -> Verify(req)
    [] lane = "presigned" -> VerifyPresigned(req)

Reject ==
  /\ pc = "verify" /\ Verdict # "ok"
  /\ pc' = Verdict
  /\ UNCHANGED <<now, config, lane, req, origin, sent>>

StripPresignedQuery(r) ==
  [r EXCEPT !.query = Subsequence(@, {i \in DOMAIN @ : @[i].key \notin AuthKey})]

Accept ==
  /\ pc = "verify" /\ Verdict = "ok"
  /\ pc' = "identity"
  /\ req' = IF lane = "presigned" THEN StripPresignedQuery(req) ELSE req
  /\ UNCHANGED <<now, config, lane, origin, sent>>

-----------------------------------------------------------------------------
(* applyIdentity: the request is made the user's. *)

WithoutToken(r) == [r EXCEPT !.headers["x-amz-security-token"] = None]

\* The headers Sign sets before it builds the canonical request.
SignHeaders(r) ==
  [r EXCEPT !.headers["host"] = "gateway",
            !.headers["x-amz-date"] = now,
            !.headers["x-amz-content-sha256"] = IF @ = None THEN "UNSIGNED-PAYLOAD" ELSE @]

\* A form of signedHeaderNames with the three headers Sign sets and no other.
signedHeaderNamesFixed(r) == {"host", "x-amz-content-sha256", "x-amz-date"}

signedHeaderNames(r) == {"host"} \cup {n \in AmzHeader : r.headers[n] # None}

\* forward_mode "resign".  Where Sign fails the headers it has set remain.
ApplyResign ==
  /\ pc = "identity" /\ mode = "resign"
  /\ LET r == SignHeaders(WithoutToken(req))
         signed == signedHeaderNames(r)
     IN IF Broken(r.query)
        THEN /\ req' = r
             /\ pc' = "fallback"
        ELSE /\ req' = [r EXCEPT !.auth =
                          [akid |-> "user", date |-> now, day |-> DayOf(now), signed |-> signed,
                           sig |-> Signature("resign", r, now, DayOf(now), signed, 0,
                                             r.headers["x-amz-content-sha256"])]]
             /\ pc' = "send"
  /\ UNCHANGED <<now, config, lane, origin, sent>>

MustRewrite == pc = "fallback" \/ (pc = "identity" /\ mode = "rewrite")

\* A form of RewriteAccessKeyID that leaves the list of signed headers alone.
RewriteKeepsList ==
  /\ MustRewrite /\ lane = "sigv4"
  /\ req' = [WithoutToken(req) EXCEPT !.auth.akid = "user"]
  /\ pc' = "send"
  /\ UNCHANGED <<now, config, lane, origin, sent>>

RewriteAccessKeyID ==
  /\ MustRewrite /\ lane = "sigv4"
  /\ req' = [WithoutToken(req) EXCEPT !.auth.akid = "user",
                                      !.auth.signed = @ \ {"x-amz-security-token"}]
  /\ pc' = "send"
  /\ UNCHANGED <<now, config, lane, origin, sent>>

ApplySynthetic ==
  /\ MustRewrite /\ lane # "sigv4"
  /\ req' = [WithoutToken(req) EXCEPT
               !.auth = [akid |-> "user", date |-> now, day |-> DayOf(now),
                         signed |-> {"host", "x-amz-date"}, sig |-> NoSignature],
               !.headers["x-amz-date"] = now,
               !.headers["x-amz-content-sha256"] = "UNSIGNED-PAYLOAD"]
  /\ pc' = "send"
  /\ UNCHANGED <<now, config, lane, origin, sent>>

-----------------------------------------------------------------------------
(* The reverse proxy. *)

\* What net/url cannot parse: a broken escape, a semicolon written as is.
Unparsable(p) == p.form = "broken" \/ (p.form = "plain" /\ p.val \in Special)

\* Parameters net/url cannot parse are dropped, and the others then written anew.
CleanQuery(q) ==
  LET kept == Subsequence(q, {i \in DOMAIN q : ~Unparsable(q[i])})
  IN IF Len(kept) = Len(q) THEN q ELSE [i \in DOMAIN kept |-> [kept[i] EXCEPT !.form = "escaped"]]

\* The headers that Connection names go no further than the proxy.
WithoutHopByHop(r) ==
  [r EXCEPT !.auth = IF "authorization" \in r.hop THEN NoAuth ELSE @,
            !.headers = [n \in Name |-> IF n \in r.hop THEN None ELSE @[n]]]

\* The path is escaped and, like the query, put after that of the endpoint.
SetURL(r) ==
  [r EXCEPT !.path = [prefixed |-> endpoint.path, form |-> "escaped"],
            !.query = endpoint.query \o @,
            !.headers["host"] = "gateway"]

ReverseProxy ==
  /\ pc = "send"
  /\ pc' = "done"
  /\ sent' = SetURL([WithoutHopByHop(req) EXCEPT !.query = CleanQuery(@)])
  /\ UNCHANGED <<now, config, lane, req, origin>>

-----------------------------------------------------------------------------
\* Time passes between the readings of the clock.
Tick ==
  /\ pc \in {"verify", "identity", "fallback"}
  /\ now < MaxTime
  /\ now' = now + 1
  /\ UNCHANGED <<config, pc, lane, req, origin, sent>>

Nothing == Bare([prefixed |-> FALSE, form |-> "escaped"], <<>>, None, None, {})

Init ==
  /\ now \in 0..Day
  /\ mode \in {"rewrite", "resign"} /\ endpoint \in Endpoint
  /\ pc = "idle" /\ lane = "none"
  /\ req = Nothing /\ origin = Nothing /\ sent = Nothing

Next ==
  \/ ArriveBearer \/ ArriveHeader \/ ArrivePresigned
  \/ Accept \/ Reject
  \/ ApplyResign \/ RewriteAccessKeyID \/ ApplySynthetic
  \/ ReverseProxy
  \/ Tick

Spec == Init /\ [][Next]_vars

-----------------------------------------------------------------------------
(* Properties. *)

Times(q, pair) == Cardinality({i \in DOMAIN q : Pair(q[i]) = pair})

\* The request that arrived has the parameters the client signed, each as many
\* times, in whatever order and escaping, the signed path, and the values of the
\* signed headers.
Unaltered ==
  /\ \A i \in DOMAIN origin.query \cup DOMAIN req.query : \A q \in {origin.query, req.query} :
       i \in DOMAIN q => Times(req.query, Pair(q[i])) = Times(origin.query, Pair(q[i]))
  /\ req.path = origin.path
  /\ \A n \in origin.auth.signed : req.headers[n] = origin.headers[n]

\* Verify and VerifyPresigned accept exactly what was signed: a request that goes on
\* has the signed path, parameters and headers, and one refused for its signature differs
\* from the signed one in more than the order and the escaping of its parameters.
AcceptedAsSigned ==
  [][pc = "verify" /\ lane # "bearer" =>
       /\ pc' = "identity" => Unaltered
       /\ pc' = "mismatch" => ~Unaltered]_vars

\* Whatever identity the gateway sees is the user's: the key id is theirs, nothing of
\* the client's session token is left in the headers or in the list of signed headers,
\* and of a presigned URL no authentication parameter is left.  It sees none only of a
\* client whose Connection header names Authorization.
OneIdentityForwarded ==
  pc = "done" =>
    /\ \/ sent.auth.akid = "user"
       \/ sent.auth = NoAuth /\ "authorization" \in origin.hop
    /\ sent.headers["x-amz-security-token"] = None
    /\ "x-amz-security-token" \notin sent.auth.signed
    /\ lane = "presigned" =>
         \A i \in DOMAIN sent.query : sent.query[i].key \in AuthKey => i <= Len(endpoint.query)

\* Whatever the mode, and where signing fails half way too, an identity that is
\* forwarded is dated as the request: its scope is the day of X-Amz-Date, even though
\* the clock is read up to three times while the request is handled.  The date is
\* missing only where the client's Connection header names it.
ScopeMatchesDate ==
  pc = "done" /\ sent.auth.akid = "user" =>
    \/ sent.headers["x-amz-date"] = None /\ "x-amz-date" \in origin.hop
    \/ /\ sent.headers["x-amz-date"] # None
       /\ sent.auth.day = DayOf(sent.headers["x-amz-date"])

\* Whether the gateway, knowing ResignSecret, would find the signature valid.
GatewayVerifies ==
  /\ sent.auth.sig = Signature("resign", sent, sent.headers["x-amz-date"], sent.auth.day,
                               sent.auth.signed, 0, sent.headers["x-amz-content-sha256"])
  /\ \A n \in AmzHeader : sent.headers[n] # None => n \in sent.auth.signed

Parsable(q) == \A i \in DOMAIN q : ~Unparsable(q[i])

\* A re-signed request is valid as the gateway receives it, all x-amz- headers signed,
\* if and only if the reverse proxy forwards what was signed: the endpoint has no path
\* of its own, the path needs no escaping, no parameter is dropped as unparsable and no
\* signed header is taken off.  With an endpoint that has a query of its own no request
\* whose parameters all go on is valid.  Without a signature are only a request whose
\* Authorization is taken off, and a bearer request that could not be signed anew.
ResignedIsValid ==
  pc = "done" /\ mode = "resign" =>
    /\ sent.auth.sig = NoSignature =>
         \/ "authorization" \in origin.hop
         \/ lane = "bearer" /\ Broken(origin.query)
    /\ sent.auth.sig # NoSignature =>
         /\ endpoint.query = <<>> =>
              (GatewayVerifies <=> /\ ~endpoint.path /\ req.path.form = "escaped"
                                   /\ Parsable(req.query)
                                   /\ req.hop \cap req.auth.signed = {})
         /\ endpoint.query # <<>> /\ Parsable(req.query) => ~GatewayVerifies

=============================================================================
