-------------------------------- MODULE Proxy --------------------------------
(***************************************************************************)
(* The proxy's request path (internal/server, internal/sts): every lane of *)
(* the main listener, the revocation endpoint of the admin listener, and   *)
(* the credential store underneath, as handlers that interleave.           *)
(*                                                                         *)
(* A handler is a goroutine serving one request.  It runs in steps that    *)
(* end where it waits or reads something that others change: the clock     *)
(* (each call of s.now() is a read of its own), the store, the identity    *)
(* provider and the gateway behind the proxy.  The store is the abstract   *)
(* one of module CredentialStore, so what holds here holds for the memory  *)
(* store of a single replica and for the valkey store of several.          *)
(***************************************************************************)
EXTENDS CredentialStore, EffectiveTtl

CONSTANTS
  Handler,        \* slots for requests being served
  Backend,        \* store.type of the configuration
  Token,          \* the web identity tokens clients hold
  Request,        \* the requests clients send
  JwtSkew,        \* tolerance on exp when a token is validated
  ClockSkew,      \* security.sigv4_clock_skew
  MaxPresign,     \* the longest X-Amz-Expires, in seconds
  Strict,         \* the replicas with data_path.strict
  BearerEnabled,  \* the replicas with data_path.accept_bearer
  NoToken, NoUser

\* A token is its claims; ok says that issuer, algorithm, key, signature,
\* audience and username are all acceptable.
Claims == [user: User, exp: Int, ok: BOOLEAN]

\* What a client sends.  The secret and the session token of a credential are
\* named by its access key ID: key is whose secret signed the request, session
\* whose session token it carries.  flaw is the first thing wrong with it.
Shape ==
  [endpoint: {"s3", "sts", "admin"},
   form: {"ok", "invalid", "role_denied"},
   auth: {"none", "bearer", "sigv4", "other"},
   query: {"none", "sigv4", "sigv2"},
   token: Token, duration: Nat,
   akid: AKID, session: AKID, key: AKID, date: Int, life: Nat,
   flaw: {"none", "parse", "scope", "no_date", "bad_date", "scope_date", "bad_query"}]

ASSUME ProxyAssumption ==
  /\ Backend \in {"memory", "valkey"}
  /\ Backend = "memory" => Cached = {} /\ \E r \in Replica : Replica = {r}
  /\ Token \subseteq Claims
  /\ Request \subseteq Shape
  /\ AKID # {} /\ Replica # {} /\ Request # {}
  /\ JwtSkew \in Nat /\ ClockSkew \in Nat /\ MaxPresign \in Nat
  /\ Strict \subseteq Replica /\ BearerEnabled \subseteq Replica
  /\ NoToken \notin Token /\ NoUser \notin User

VARIABLES
  h,          \* h[i]: the local state of handler i
  origin,     \* origin[a]: history, the token access key ID a was minted for
  handed,     \* history: access key IDs some client has been given
  revoked     \* history: access key IDs whose revocation was confirmed

history == <<origin, handed, revoked>>
vars == <<storeVars, h, history>>

Lane == {"sts", "bearer", "sigv4", "presigned", "unauthenticated", "revoke"}
Label == {"idle", "validate", "mint", "put", "lookup", "expiry", "verify",
          "upstream", "find", "delete", "done"}
Code == {"none", "issued", "ValidationError", "AccessDenied", "InvalidIdentityToken",
         "ExpiredToken", "IDPCommunicationError", "ServiceUnavailable", "ServiceFailure",
         "disabled", "malformed", "store_error", "unknown_akid", "expired", "bad_token",
         "scope", "missing_date", "skew", "url_expired", "mismatch", "InvalidRequest",
         "relayed", "bad_gateway", "cancelled", "204", "404", "503"}

Local == [pc: Label, lane: Lane, rep: Replica, req: Request, akid: AKID,
          creds: Creds \cup {NoCreds}, at: Nat, as: User \cup {NoUser},
          answer: Code, late: BOOLEAN, given: BOOLEAN]

Idle == [pc |-> "idle", lane |-> "sts", rep |-> CHOOSE r \in Replica : TRUE,
         req |-> CHOOSE q \in Request : TRUE, akid |-> CHOOSE a \in AKID : TRUE,
         creds |-> NoCreds, at |-> 0, as |-> NoUser, answer |-> "none",
         late |-> FALSE, given |-> FALSE]

\* Every variable keeps its type.
TypeOK ==
  /\ StoreTypeOK
  /\ h \in [Handler -> Local]
  /\ origin \in [AKID -> Token \cup {NoToken}]
  /\ handed \in SUBSET AKID
  /\ revoked \in SUBSET AKID

Init ==
  /\ StoreInit
  /\ h = [i \in Handler |-> Idle]
  /\ origin = [a \in AKID |-> NoToken]
  /\ handed = {} /\ revoked = {}

-----------------------------------------------------------------------------
(* Dispatch: a request takes a free slot on replica r, in the lane serve    *)
(* chooses, and is answered at once or goes on at label pc.                 *)

Free(i) == h[i].pc \in {"idle", "done"}

Start(i, r, lane, q, pc, answer) ==
  /\ Free(i)
  /\ h' = [h EXCEPT ![i] =
             [pc |-> pc, lane |-> lane, rep |-> r, req |-> q, akid |-> q.akid,
              creds |-> NoCreds, at |-> 0, as |-> NoUser, answer |-> answer,
              late |-> q.akid \in revoked \ lag[r], given |-> q.akid \in handed]]
  /\ UNCHANGED <<storeVars, history>>

ServeSTS(i, r, q) ==
  /\ q.endpoint = "sts"
  /\ \/ q.form = "invalid" /\ Start(i, r, "sts", q, "done", "ValidationError")
     \/ q.form = "role_denied" /\ Start(i, r, "sts", q, "done", "AccessDenied")
     \/ q.form = "ok" /\ Start(i, r, "sts", q, "validate", "none")

ServeBearer(i, r, q) ==
  /\ q.endpoint = "s3" /\ q.auth = "bearer"
  /\ \/ r \notin BearerEnabled /\ Start(i, r, "bearer", q, "done", "disabled")
     \/ r \in BearerEnabled /\ Start(i, r, "bearer", q, "validate", "none")

\* ParseAuthorization and ParsePresigned.
Unparsable(lane, q) ==
  \/ q.flaw = "parse"
  \/ lane = "presigned" /\ (q.flaw = "no_date" \/ q.life = 0 \/ q.life > MaxPresign)

ServeSigned(i, r, q) ==
  /\ q.endpoint = "s3"
  /\ \E lane \in {"sigv4", "presigned"} :
       /\ \/ lane = "sigv4" /\ q.auth = "sigv4"
          \/ lane = "presigned" /\ q.auth = "none" /\ q.query = "sigv4"
       /\ \/ Unparsable(lane, q) /\ Start(i, r, lane, q, "done", "malformed")
          \/ ~Unparsable(lane, q) /\ Start(i, r, lane, q, "lookup", "none")

ServeUnauthenticated(i, r, q) ==
  /\ q.endpoint = "s3"
  /\ q.auth = "other" \/ (q.auth = "none" /\ q.query # "sigv4")
  /\ \/ /\ r \in Strict
        /\ \/ q.query = "sigv2" /\ Start(i, r, "unauthenticated", q, "done", "InvalidRequest")
           \/ q.query # "sigv2" /\ Start(i, r, "unauthenticated", q, "done", "AccessDenied")
     \/ r \notin Strict /\ Start(i, r, "unauthenticated", q, "upstream", "none")

\* DELETE /credentials/{akid} on the admin listener of r.
ServeRevoke(i, r, q) ==
  q.endpoint = "admin" /\ Start(i, r, "revoke", q, "find", "none")

-----------------------------------------------------------------------------
(* Steps shared by the handlers. *)

At(i, pc) == h[i].pc = pc
Answer(i, code) == h' = [h EXCEPT ![i].pc = "done", ![i].answer = code]
Remote == Backend = "valkey"

\* What Validate may return for tok when the clock reads t: the keys of the
\* issuer may be out of reach whatever the token is.
\* Some of the other checks come before the one on exp, some after it.
Outcome(tok, t) ==
  {o \in {"unavailable", "invalid", "expired", "ok"} :
     /\ o = "invalid" => ~tok.ok
     /\ o = "expired" => ~(t < tok.exp + JwtSkew)
     /\ o = "ok" => tok.ok /\ t < tok.exp + JwtSkew}

TokenError(lane, o) ==
  CASE o = "expired" -> "ExpiredToken"
    [] o = "unavailable" -> IF lane = "sts" THEN "IDPCommunicationError" ELSE "ServiceUnavailable"
    [] OTHER -> IF lane = "sts" THEN "InvalidIdentityToken" ELSE "AccessDenied"

Validate(i) ==
  /\ At(i, "validate")
  /\ \E o \in Outcome(h[i].req.token, now) :
       \/ o # "ok" /\ Answer(i, TokenError(h[i].lane, o))
       \/ o = "ok" /\ h[i].lane = "sts" /\ h' = [h EXCEPT ![i].pc = "mint"]
       \/ /\ o = "ok" /\ h[i].lane = "bearer"
          /\ h' = [h EXCEPT ![i].pc = "upstream", ![i].at = now, ![i].as = h[i].req.token.user]
  /\ UNCHANGED <<storeVars, history>>

-----------------------------------------------------------------------------
(* The STS handler, once the token is valid. *)

Mint(i) ==
  LET tok == h[i].req.token
      ttl == EffectiveTTL(tok.exp, now, h[i].req.duration)
  IN /\ At(i, "mint")
     /\ \/ ttl <= 0 /\ Answer(i, "ExpiredToken") /\ UNCHANGED origin
        \/ ttl > 0 /\ Answer(i, "ServiceFailure") /\ UNCHANGED origin
        \/ /\ ttl > 0
           /\ \E a \in AKID :
                /\ origin[a] = NoToken
                /\ origin' = [origin EXCEPT ![a] = tok]
                /\ h' = [h EXCEPT ![i].pc = "put", ![i].at = now, ![i].akid = a,
                                  ![i].creds = [user |-> tok.user, exp |-> now + ttl]]
     /\ UNCHANGED <<storeVars, handed, revoked>>

\* A form of PutStep that does not look at the error.
PutUnchecked(i) ==
  /\ At(i, "put")
  /\ Put(h[i].akid, h[i].creds) \/ UNCHANGED storeVars
  /\ Answer(i, "issued")
  /\ handed' = handed \cup {h[i].akid}
  /\ UNCHANGED <<origin, revoked>>

\* A remote store may fail before or after it applied the write.
PutStep(i) ==
  /\ At(i, "put")
  /\ \/ /\ Put(h[i].akid, h[i].creds)
        /\ Answer(i, "issued")
        /\ handed' = handed \cup {h[i].akid}
     \/ /\ Remote
        /\ Put(h[i].akid, h[i].creds) \/ UNCHANGED storeVars
        /\ Answer(i, "ServiceFailure")
        /\ UNCHANGED handed
  /\ UNCHANGED <<origin, revoked>>

-----------------------------------------------------------------------------
(* The SigV4 lanes. *)


Lookup(i) ==
  LET c == Get(h[i].rep, h[i].akid)
  IN /\ At(i, "lookup")
     /\ \/ Remote /\ Answer(i, "store_error")
        \/ /\ c = NoCreds
           /\ h' = [h EXCEPT ![i].pc = "done", ![i].answer = "unknown_akid", ![i].at = now]
        \/ /\ c # NoCreds
           /\ h' = [h EXCEPT ![i].pc = "expiry", ![i].creds = c]
     /\ UNCHANGED <<storeVars, history>>

\* A form of CheckCreds that does not compare session tokens.
CheckCredsNoSession(i) ==
  /\ At(i, "expiry")
  /\ \/ Expired(h[i].creds, now) /\ Answer(i, "expired")
     \/ ~Expired(h[i].creds, now) /\ h' = [h EXCEPT ![i].pc = "verify", ![i].at = now]
  /\ UNCHANGED <<storeVars, history>>

CheckCreds(i) ==
  /\ At(i, "expiry")
  /\ \/ Expired(h[i].creds, now) /\ Answer(i, "expired")
     \/ /\ ~Expired(h[i].creds, now)
        /\ h[i].req.session # h[i].akid
        /\ Answer(i, "bad_token")
     \/ /\ ~Expired(h[i].creds, now)
        /\ h[i].req.session = h[i].akid
        /\ h' = [h EXCEPT ![i].pc = "verify", ![i].at = now]
  /\ UNCHANGED <<storeVars, history>>

\* A form of HeaderVerdict with an error that has no mapping.
HeaderVerdictUnmapped(q, akid, t) == IF q.flaw = "bad_query" THEN "unmapped" ELSE "success"

\* sigv4.Verify, with the lane's error mapping.
HeaderVerdict(q, akid, t) ==
  IF q.flaw = "scope" THEN "scope"
  ELSE IF q.flaw = "no_date" THEN "missing_date"
  ELSE IF q.flaw = "bad_date" THEN "malformed"
  ELSE IF t - q.date > ClockSkew \/ q.date - t > ClockSkew THEN "skew"
  ELSE IF q.flaw = "scope_date" THEN "scope"
  ELSE IF q.flaw = "bad_query" THEN "malformed"
  ELSE IF q.key # akid THEN "mismatch"
  ELSE "success"

\* sigv4.VerifyPresigned, with the lane's error mapping.
QueryVerdict(q, akid, t) ==
  IF q.flaw \in {"scope", "bad_date", "scope_date"} THEN "malformed"
  ELSE IF q.date - t > ClockSkew THEN "skew"
  ELSE IF t > q.date + q.life * Second THEN "url_expired"
  ELSE IF q.flaw = "bad_query" THEN "malformed"
  ELSE IF q.key # akid THEN "mismatch"
  ELSE "success"

Verify(i) ==
  LET verdict == IF h[i].lane = "sigv4" THEN HeaderVerdict(h[i].req, h[i].akid, now)
                 ELSE QueryVerdict(h[i].req, h[i].akid, now)
  IN /\ At(i, "verify")
     /\ \/ verdict # "success" /\ Answer(i, verdict)
        \/ /\ verdict = "success"
           /\ h' = [h EXCEPT ![i].pc = "upstream", ![i].as = h[i].creds.user]
     /\ UNCHANGED <<storeVars, history>>

\* The reverse proxy relays the gateway's answer, answers 502 when there is
\* none, or gives up when the client does.
Upstream(i) ==
  /\ At(i, "upstream")
  /\ \E code \in {"relayed", "bad_gateway", "cancelled"} : Answer(i, code)
  /\ UNCHANGED <<storeVars, history>>

-----------------------------------------------------------------------------
(* handleRevoke: Get, then Delete, and nothing holds the record in between. *)

RevokeFind(i) ==
  /\ At(i, "find")
  /\ \/ Remote /\ Answer(i, "503")
     \/ Get(h[i].rep, h[i].akid) = NoCreds /\ Answer(i, "404")
     \/ Get(h[i].rep, h[i].akid) # NoCreds /\ h' = [h EXCEPT ![i].pc = "delete"]
  /\ UNCHANGED <<storeVars, history>>

RevokeDelete(i) ==
  /\ At(i, "delete")
  /\ \/ /\ Delete(h[i].akid)
        /\ Answer(i, "204")
        /\ revoked' = revoked \cup {h[i].akid}
     \/ /\ Remote
        /\ Answer(i, "503")
        /\ Delete(h[i].akid) \/ UNCHANGED storeVars
        /\ UNCHANGED revoked
  /\ UNCHANGED <<origin, handed>>

-----------------------------------------------------------------------------
(* The rest of the world. *)

\* The store drops records on its own account.
StoreForgets ==
  /\ \E S \in SUBSET AKID : S # {} /\ Forget(S)
  /\ UNCHANGED <<h, history>>

\* Cached entries of r are invalidated.
Invalidate(r) ==
  /\ \E a \in lag[r] : CatchUp(r, {a})
  /\ UNCHANGED <<h, history>>

\* The store's process loses its records: the proxy itself, or the valkey server.
StoreLost ==
  /\ Lose
  /\ h' = IF Remote THEN h ELSE [i \in Handler |-> Idle]
  /\ UNCHANGED <<origin, handed, revoked>>

\* A replica with a remote store restarts: only what it was doing is lost.
ReplicaRestart(r) ==
  /\ Remote
  /\ h' = [i \in Handler |-> IF h[i].rep = r THEN Idle ELSE h[i]]
  /\ CatchUp(r, AKID)
  /\ UNCHANGED history

ClockTick == Tick /\ UNCHANGED <<h, history>>

Arrive(i) ==
  \E r \in Replica, q \in Request :
    \/ ServeSTS(i, r, q) \/ ServeBearer(i, r, q) \/ ServeSigned(i, r, q)
    \/ ServeUnauthenticated(i, r, q) \/ ServeRevoke(i, r, q)

\* The steps of a handler that wait for nothing, or for a call that is bounded.
Progress(i) ==
  \/ Validate(i) \/ Mint(i) \/ PutStep(i)
  \/ Lookup(i) \/ CheckCreds(i) \/ Verify(i)
  \/ RevokeFind(i) \/ RevokeDelete(i)

Next ==
  \/ \E i \in Handler : Arrive(i) \/ Progress(i) \/ Upstream(i)
  \/ \E r \in Replica : Invalidate(r) \/ ReplicaRestart(r)
  \/ StoreForgets \/ StoreLost
  \/ ClockTick

\* The runtime schedules every goroutine, and the calls to the identity provider and
\* to the store return.  Nothing bounds the gateway's answer, so Upstream is not fair.
Fairness == \A i \in Handler : WF_vars(Progress(i))

Spec == Init /\ [][Next]_vars /\ Fairness

-----------------------------------------------------------------------------
(* Properties. *)

Signed(x) == x.lane \in {"sigv4", "presigned"}

Forwarded(x) ==
  \/ x.pc = "upstream"
  \/ x.pc = "done" /\ x.answer \in {"relayed", "bad_gateway", "cancelled"}

(***************************************************************************)
(* Attribution.  What reaches the gateway does so as the user of an        *)
(* acceptable token: the bearer token itself, or the token the access key  *)
(* ID was minted for, and then the request carries the session token and   *)
(* was signed with the secret of that very access key ID.  Only where      *)
(* strict mode is off does anything reach the gateway without a user.      *)
(***************************************************************************)
Attribution ==
  \A i \in Handler : Forwarded(h[i]) =>
    \/ /\ Signed(h[i])
       /\ origin[h[i].akid] # NoToken
       /\ origin[h[i].akid].ok
       /\ h[i].as = origin[h[i].akid].user
       /\ h[i].req.key = h[i].akid
       /\ h[i].req.session = h[i].akid
    \/ /\ h[i].lane = "bearer"
       /\ h[i].req.token.ok
       /\ h[i].as = h[i].req.token.user
    \/ /\ h[i].lane = "unauthenticated"
       /\ h[i].rep \notin Strict
       /\ h[i].as = NoUser

(***************************************************************************)
(* Credentials never outlive the token they were minted for.  A signed     *)
(* request is forwarded only if, when its credentials were checked, that   *)
(* token had not expired: not by the skew tolerated at the exchange, not   *)
(* by the requested duration, however large.                               *)
(***************************************************************************)
WithinTokenLifetime ==
  \A i \in Handler :
    Forwarded(h[i]) /\ Signed(h[i]) => h[i].at < origin[h[i].akid].exp

(***************************************************************************)
(* Revocation.  A signed request that reaches a replica after the          *)
(* revocation of its access key ID was confirmed and has reached that      *)
(* replica is never forwarded.                                             *)
(***************************************************************************)
RevokedStaysRefused ==
  \A i \in Handler : Signed(h[i]) /\ h[i].late => ~Forwarded(h[i])

(***************************************************************************)
(* A client that was given credentials is told "unknown access key ID"     *)
(* only if they were revoked, the store lost its records, or they expired  *)
(* more than Retention ago; never because its request overtook the Put of  *)
(* the exchange or the store dropped them early.                           *)
(***************************************************************************)
UnknownOnlyWhenGone ==
  \A i \in Handler :
    Signed(h[i]) /\ h[i].pc = "done" /\ h[i].answer = "unknown_akid" /\ h[i].given =>
      \/ h[i].akid \in withdrawn
      \/ /\ issued[h[i].akid] # NoCreds
         /\ issued[h[i].akid].exp + Retention <= h[i].at

=============================================================================
