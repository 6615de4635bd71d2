----------------------------- MODULE ProxyProofs -----------------------------
(***************************************************************************)
(* Proofs that the safety properties of module Proxy hold for every number *)
(* of handlers, replicas, users, access key IDs and tokens, both store     *)
(* backends, and every value of the durations.                             *)
(*                                                                         *)
(* The inductive invariant IInv has a part about the store and the history *)
(* (StoreInv) and a part about each handler on its own (LocalInv).  A step *)
(* of one handler preserves the LocalInv of the others because everything  *)
(* LocalInv says about shared state is stable: see Grows and LocalStable.  *)
(***************************************************************************)
EXTENDS Proxy, TLAPS

\* c is a record the STS handler may store under a.
MintedFor(a, c) ==
  /\ c \in Creds
  /\ origin[a] \in Token
  /\ origin[a].ok
  /\ c.user = origin[a].user
  /\ c.exp <= origin[a].exp

StoreInv ==
  /\ \A a \in AKID : issued[a] # NoCreds => MintedFor(a, issued[a])
  /\ \A a \in present : issued[a] # NoCreds
  /\ \A r \in Replica : \A a \in lag[r] : issued[a] # NoCreds
  /\ \A a \in handed : issued[a] # NoCreds
  /\ \A a \in revoked : issued[a] # NoCreds /\ a \notin present
  /\ \A a \in AKID : issued[a] # NoCreds /\ a \notin present =>
       a \in withdrawn \/ issued[a].exp + Retention <= now

\* The handler has a record in hand that it looked up.
Checked(x) == x.pc \in {"expiry", "verify"} \/ Forwarded(x)

LaneInv(x) ==
  /\ x.pc = "validate" => x.lane \in {"sts", "bearer"}
  /\ x.pc \in {"mint", "put"} => x.lane = "sts"
  /\ x.pc \in {"lookup", "expiry", "verify"} => Signed(x)
  /\ x.pc \in {"find", "delete"} => x.lane = "revoke"

ExchangeInv(x) ==
  /\ x.pc = "mint" => x.req.token.ok
  /\ x.pc = "put" => MintedFor(x.akid, x.creds)
  /\ x.pc = "delete" => issued[x.akid] # NoCreds

SignedInv(x) ==
  Signed(x) =>
    /\ Checked(x) => x.creds = issued[x.akid] /\ x.creds # NoCreds
    /\ x.pc = "verify" \/ Forwarded(x) => x.req.session = x.akid /\ x.at < x.creds.exp
    /\ Forwarded(x) => x.req.key = x.akid /\ x.as = x.creds.user
    /\ x.late => x.akid \in revoked \ lag[x.rep] /\ ~Checked(x)
    /\ x.given => x.akid \in handed
    /\ x.pc = "done" /\ x.answer = "unknown_akid" /\ x.given =>
         x.akid \in withdrawn \/ issued[x.akid].exp + Retention <= x.at

ForwardInv(x) ==
  Forwarded(x) /\ ~Signed(x) =>
    \/ x.lane = "bearer" /\ x.req.token.ok /\ x.as = x.req.token.user
    \/ x.lane = "unauthenticated" /\ x.rep \notin Strict /\ x.as = NoUser

LocalInv(x) == LaneInv(x) /\ ExchangeInv(x) /\ SignedInv(x) /\ ForwardInv(x)

IInv == TypeOK /\ StoreInv /\ \A i \in Handler : LocalInv(h[i])

-----------------------------------------------------------------------------
\* What every step guarantees about the state that handlers share.
Grows ==
  /\ \A a \in AKID : origin[a] # NoToken => origin'[a] = origin[a]
  /\ \A a \in AKID : issued[a] # NoCreds => issued'[a] = issued[a]
  /\ revoked \subseteq revoked'
  /\ handed \subseteq handed'
  /\ withdrawn \subseteq withdrawn'
  /\ \A r \in Replica : \A a \in revoked : a \in lag'[r] => a \in lag[r]

(***************************************************************************)
(* A minted lifetime is an integer that ends no later than the token: what *)
(* EffectiveTTL returns, overflowing products included.                    *)
(***************************************************************************)
LEMMA TTLWithinToken ==
  ASSUME NEW e \in Int, NEW t \in Int, NEW d \in Nat, EffectiveTTL(e, t, d) > 0
  PROVE  EffectiveTTL(e, t, d) \in Int /\ t + EffectiveTTL(e, t, d) <= e
<1> USE EffectiveTtlAssumption
<1>1. Width \div 2 \in Nat
  OBVIOUS
<1>2. \A n \in Int : Seconds(n) \in Int
  BY <1>1 DEF Seconds
<1>3. MaxTicks \in Int /\ MinTicks \in Int /\ MinTicks <= 0
  BY <1>1 DEF MaxTicks, MinTicks
<1>4. Sub(e, t) \in Int /\ (Sub(e, t) <= e - t \/ Sub(e, t) <= 0)
  BY <1>3 DEF Sub
<1> QED
  BY <1>2, <1>4 DEF EffectiveTTL

(***************************************************************************)
(* The invariant of a handler that does not move survives every step.      *)
(***************************************************************************)
LEMMA LocalStable ==
  ASSUME TypeOK, StoreInv, Grows, NEW x \in Local, LocalInv(x)
  PROVE  LocalInv(x)'
<1> USE DEF TypeOK, StoreTypeOK, Local
<1>1. LaneInv(x)'
  BY DEF LocalInv, LaneInv, Signed
<1>2. ExchangeInv(x)'
  BY ProxyAssumption DEF LocalInv, ExchangeInv, MintedFor, Grows
<1>3. SignedInv(x)'
  BY DEF LocalInv, SignedInv, Signed, Checked, Forwarded, Grows, StoreInv
<1>4. ForwardInv(x)'
  BY DEF LocalInv, ForwardInv, Signed, Forwarded
<1> QED
  BY <1>1, <1>2, <1>3, <1>4 DEF LocalInv

(***************************************************************************)
(* When handler i moves to local state y and y satisfies its invariant,    *)
(* every handler does.                                                     *)
(***************************************************************************)
LEMMA HandlerMoves ==
  ASSUME IInv, Grows, NEW i \in Handler, NEW y \in Local, LocalInv(y)',
         h' = [h EXCEPT ![i] = y]
  PROVE  h' \in [Handler -> Local] /\ (\A j \in Handler : LocalInv(h[j]))'
<1>1. \A j \in Handler : h'[j] = IF j = i THEN y ELSE h[j]
  BY DEF IInv, TypeOK
<1>2. \A j \in Handler : h[j] \in Local
  BY DEF IInv, TypeOK
<1>3. ASSUME NEW j \in Handler PROVE LocalInv(h[j])'
  <2>1. CASE j = i
    <3>1. h'[j] = y
      BY <1>1, <2>1
    <3> QED BY <3>1
  <2>2. CASE j # i
    <3>1. h'[j] = h[j]
      BY <1>1, <2>2
    <3>2. ASSUME NEW x, x = h[j] PROVE LocalInv(x)'
      BY <1>2, <3>2, LocalStable DEF IInv
    <3> QED BY <3>1, <3>2
  <2> QED BY <2>1, <2>2
<1> QED
  BY <1>1, <1>2, <1>3 DEF IInv, TypeOK

(***************************************************************************)
(* A step that touches neither the store nor the history, by one handler,  *)
(* preserves the invariant if the handler's new local state satisfies it.  *)
(***************************************************************************)
LEMMA QuietStep ==
  ASSUME IInv, UNCHANGED <<storeVars, history>>,
         NEW i \in Handler, NEW y \in Local, LocalInv(y),
         h' = [h EXCEPT ![i] = y]
  PROVE  IInv'
<1>1. Grows /\ StoreInv'
  BY DEF IInv, TypeOK, StoreTypeOK, Grows, StoreInv, MintedFor, storeVars, history
<1>2. LocalInv(y)'
  BY <1>1, LocalStable DEF IInv
<1>3. h' \in [Handler -> Local] /\ (\A j \in Handler : LocalInv(h[j]))'
  BY Zenon, <1>1, <1>2, HandlerMoves
<1> QED
  BY <1>1, <1>3 DEF IInv, TypeOK, StoreTypeOK, storeVars, history

Refusal == Code \ {"relayed", "bad_gateway", "cancelled", "unknown_akid"}

(***************************************************************************)
(* A handler may give up at any point: answering a refusal forwards        *)
(* nothing and claims nothing about the store.                             *)
(***************************************************************************)
LEMMA RefusalLocal ==
  ASSUME NEW x \in Local, LocalInv(x), NEW code \in Refusal,
         NEW y, y = [x EXCEPT !.pc = "done", !.answer = code]
  PROVE  y \in Local /\ LocalInv(y)
  BY Zenon DEF Local, Label, Refusal, LocalInv, LaneInv, ExchangeInv, SignedInv, ForwardInv,
         Signed, Checked, Forwarded

-----------------------------------------------------------------------------
(***************************************************************************)
(* A request that takes a slot, whatever lane serve dispatches it to.      *)
(***************************************************************************)
LEMMA StartStep ==
  ASSUME IInv, NEW i \in Handler, NEW r \in Replica, NEW q \in Request,
         NEW lane \in Lane, NEW pc \in Label, NEW answer \in Code,
         Start(i, r, lane, q, pc, answer),
         \/ pc = "done" /\ answer \in Refusal
         \/ pc = "validate" /\ lane \in {"sts", "bearer"}
         \/ pc = "lookup" /\ lane \in {"sigv4", "presigned"}
         \/ pc = "upstream" /\ lane = "unauthenticated" /\ r \notin Strict
         \/ pc = "find" /\ lane = "revoke"
  PROVE  IInv'
<1>1. PICK y : y = [pc |-> pc, lane |-> lane, rep |-> r, req |-> q, akid |-> q.akid,
                    creds |-> NoCreds, at |-> 0, as |-> NoUser, answer |-> answer,
                    late |-> q.akid \in revoked \ lag[r], given |-> q.akid \in handed]
  BY Zenon
<1>2. y \in Local
  BY <1>1, ProxyAssumption DEF Local, Shape
<1>3. LocalInv(y)
  BY Zenon, <1>1 DEF LocalInv, LaneInv, ExchangeInv, SignedInv, ForwardInv,
              Signed, Checked, Forwarded, Refusal
<1>4. h' = [h EXCEPT ![i] = y] /\ UNCHANGED <<storeVars, history>>
  BY <1>1 DEF Start
<1> QED
  BY Zenon, <1>2, <1>3, <1>4, QuietStep

(***************************************************************************)
(* A request arrives and serve dispatches it: the lanes differ only in     *)
(* where the handler starts.                                               *)
(***************************************************************************)
LEMMA ArriveStep ==
  ASSUME IInv, NEW i \in Handler, Arrive(i)
  PROVE  IInv'
<1> USE DEF Lane, Label, Code, Refusal
<1>1. PICK r \in Replica, q \in Request :
        \/ ServeSTS(i, r, q) \/ ServeBearer(i, r, q) \/ ServeSigned(i, r, q)
        \/ ServeUnauthenticated(i, r, q) \/ ServeRevoke(i, r, q)
  BY DEF Arrive
<1>2. CASE ServeSTS(i, r, q)
  BY <1>2, StartStep DEF ServeSTS
<1>3. CASE ServeBearer(i, r, q)
  BY <1>3, StartStep DEF ServeBearer
<1>4. CASE ServeSigned(i, r, q)
  BY <1>4, StartStep DEF ServeSigned
<1>5. CASE ServeUnauthenticated(i, r, q)
  BY <1>5, StartStep DEF ServeUnauthenticated
<1>6. CASE ServeRevoke(i, r, q)
  BY <1>6, StartStep DEF ServeRevoke
<1> QED
  BY <1>1, <1>2, <1>3, <1>4, <1>5, <1>6

(***************************************************************************)
(* Refusing a request, at any step of a handler that leaves the rest alone.*)
(***************************************************************************)
LEMMA RefuseStep ==
  ASSUME IInv, NEW i \in Handler, NEW code \in Refusal, Answer(i, code),
         UNCHANGED <<storeVars, history>>
  PROVE  IInv'
<1>1. PICK y : y = [h[i] EXCEPT !.pc = "done", !.answer = code]
  OBVIOUS
<1>2. h[i] \in Local /\ LocalInv(h[i])
  BY DEF IInv, TypeOK
<1>3. y \in Local /\ LocalInv(y)
  BY Zenon, <1>1, <1>2, RefusalLocal
<1>4. h' = [h EXCEPT ![i] = y]
  BY Zenon, <1>1, <1>2 DEF Answer, Local, IInv, TypeOK
<1> QED
  BY Zenon, <1>3, <1>4, QuietStep

(***************************************************************************)
(* Validate: the STS and the bearer lane go on only with an acceptable     *)
(* token.                                                                  *)
(***************************************************************************)
LEMMA ValidateStep ==
  ASSUME IInv, NEW i \in Handler, Validate(i)
  PROVE  IInv'
<1> DEFINE x == h[i]
<1>1. x \in Local /\ LocalInv(x) /\ x.pc = "validate" /\ now \in Nat
  BY DEF IInv, TypeOK, StoreTypeOK, Validate, At
<1>2. UNCHANGED <<storeVars, history>>
  BY DEF Validate
<1>3. PICK o \in Outcome(x.req.token, now) :
        \/ o # "ok" /\ Answer(i, TokenError(x.lane, o))
        \/ o = "ok" /\ x.lane = "sts" /\ h' = [h EXCEPT ![i].pc = "mint"]
        \/ /\ o = "ok" /\ x.lane = "bearer"
           /\ h' = [h EXCEPT ![i].pc = "upstream", ![i].at = now, ![i].as = x.req.token.user]
  BY DEF Validate
<1>4. x.req.token \in Claims
  BY <1>1, ProxyAssumption DEF Local, Shape
<1>5. o = "ok" => x.req.token.ok
  BY DEF Outcome
<1>6. CASE o # "ok" /\ Answer(i, TokenError(x.lane, o))
  <2>1. TokenError(x.lane, o) \in Refusal
    BY <1>6 DEF TokenError, Refusal, Code
  <2> QED
    BY <1>2, <1>6, <2>1, RefuseStep
<1>7. CASE o = "ok" /\ x.lane = "sts" /\ h' = [h EXCEPT ![i].pc = "mint"]
  <2>1. PICK y : y = [x EXCEPT !.pc = "mint"]
    BY Zenon
  <2>2. y \in Local /\ LocalInv(y)
    BY <1>1, <1>5, <1>7, <2>1 DEF Local, Label, LocalInv, LaneInv, ExchangeInv, SignedInv,
                                  ForwardInv, Signed, Checked, Forwarded
  <2>3. h' = [h EXCEPT ![i] = y]
    BY <1>7, <2>1
  <2> QED
    BY Zenon, <1>2, <2>2, <2>3, QuietStep
<1>8. CASE /\ o = "ok" /\ x.lane = "bearer"
           /\ h' = [h EXCEPT ![i].pc = "upstream", ![i].at = now, ![i].as = x.req.token.user]
  <2>1. PICK y : y = [x EXCEPT !.pc = "upstream", !.at = now, !.as = x.req.token.user]
    OBVIOUS
  <2>2. y \in Local
    BY Zenon, <1>1, <1>4, <2>1 DEF Local, Label, Claims
  <2>3. LocalInv(y)
    BY <1>1, <1>5, <1>8, <2>1 DEF Local, Label, LocalInv, LaneInv, ExchangeInv, SignedInv,
                                  ForwardInv, Signed, Checked, Forwarded
  <2>4. h' = [h EXCEPT ![i] = y]
    BY Zenon, <1>1, <1>8, <2>1 DEF Local, IInv, TypeOK
  <2> QED
    BY Zenon, <1>2, <2>2, <2>3, <2>4, QuietStep
<1> QED
  BY <1>3, <1>6, <1>7, <1>8

(***************************************************************************)
(* Mint: the new record is bound to the token and does not outlive it.     *)
(***************************************************************************)
LEMMA MintStep ==
  ASSUME IInv, NEW i \in Handler, Mint(i)
  PROVE  IInv'
<1> DEFINE x == h[i]
           tok == x.req.token
           ttl == EffectiveTTL(tok.exp, now, x.req.duration)
<1>1. x \in Local /\ LocalInv(x) /\ x.pc = "mint" /\ now \in Nat
  BY Zenon DEF IInv, TypeOK, StoreTypeOK, Mint, At
<1>2. tok \in Token /\ tok \in Claims /\ tok.ok /\ x.req.duration \in Nat /\ x.lane = "sts"
  BY <1>1, ProxyAssumption DEF Local, Shape, LocalInv, ExchangeInv, LaneInv
<1>3. CASE UNCHANGED origin
  <2>1. Answer(i, "ExpiredToken") \/ Answer(i, "ServiceFailure")
    <3>1. ASSUME NEW a \in AKID, origin[a] = NoToken, origin' = [origin EXCEPT ![a] = tok]
          PROVE  FALSE
      BY <1>2, <1>3, <3>1, ProxyAssumption DEF IInv, TypeOK
    <3> QED BY Zenon, <3>1 DEF Mint
  <2>2. UNCHANGED <<storeVars, history>>
    BY Zenon, <1>3 DEF Mint, history
  <2> QED
    BY <2>1, <2>2, RefuseStep DEF Refusal, Code
<1>4. ASSUME NEW a \in AKID,
             ttl > 0, origin[a] = NoToken, origin' = [origin EXCEPT ![a] = tok],
             h' = [h EXCEPT ![i].pc = "put", ![i].at = now, ![i].akid = a,
                            ![i].creds = [user |-> tok.user, exp |-> now + ttl]]
      PROVE  IInv'
  <2>1. ttl \in Int /\ now + ttl <= tok.exp
    BY <1>1, <1>2, <1>4, TTLWithinToken DEF Claims
  <2>2. PICK c : c = [user |-> tok.user, exp |-> now + ttl]
    BY Zenon
  <2>3. c \in Creds /\ c.user = tok.user /\ c.exp <= tok.exp
    <3> HIDE DEF ttl
    <3> QED BY <1>1, <1>2, <2>1, <2>2 DEF Creds, Claims
  <2>4. PICK y : y = [x EXCEPT !.pc = "put", !.at = now, !.akid = a, !.creds = c]
    OBVIOUS
  <2>5. UNCHANGED <<storeVars, handed, revoked>>
    BY Zenon DEF Mint
  <2>6. y \in Local /\ y.pc = "put" /\ y.lane = "sts" /\ y.akid = a /\ y.creds = c
    BY Zenon, <1>1, <1>2, <2>3, <2>4 DEF Local, Label
  <2>7. origin' \in [AKID -> Token \cup {NoToken}] /\ origin'[a] = tok
    BY <1>2, <1>4 DEF IInv, TypeOK
  <2>8. Grows
    BY <1>4, <2>5, Zenon DEF IInv, TypeOK, StoreTypeOK, Grows, storeVars
  <2>9. StoreInv'
    BY <2>5, <2>8, ProxyAssumption, Zenon
       DEF IInv, TypeOK, StoreTypeOK, Grows, StoreInv, MintedFor, storeVars
  <2>10. MintedFor(a, y.creds)'
    BY <1>2, <2>3, <2>6, <2>7 DEF MintedFor
  <2>11. LocalInv(y)'
    BY <2>6, <2>10 DEF LocalInv, LaneInv, ExchangeInv, SignedInv, ForwardInv,
                      Signed, Checked, Forwarded
  <2>12. h' = [h EXCEPT ![i] = y]
    BY Zenon, <1>1, <1>4, <2>2, <2>4 DEF Local, IInv, TypeOK
  <2>13. h' \in [Handler -> Local] /\ (\A j \in Handler : LocalInv(h[j]))'
    BY Zenon, <2>6, <2>8, <2>11, <2>12, HandlerMoves
  <2> QED
    BY <2>5, <2>7, <2>9, <2>13, Zenon DEF IInv, TypeOK, StoreTypeOK, storeVars
<1> QED
  BY Zenon, <1>3, <1>4 DEF Mint

(***************************************************************************)
(* An answer given while the store or the history changes.                 *)
(***************************************************************************)
LEMMA AnswerMoves ==
  ASSUME IInv, Grows, NEW i \in Handler, NEW code \in Refusal, Answer(i, code)
  PROVE  h' \in [Handler -> Local] /\ (\A j \in Handler : LocalInv(h[j]))'
<1>1. PICK y : y = [h[i] EXCEPT !.pc = "done", !.answer = code]
  OBVIOUS
<1>2. h[i] \in Local /\ LocalInv(h[i])
  BY DEF IInv, TypeOK
<1>3. y \in Local /\ LocalInv(y)
  BY Zenon, <1>1, <1>2, RefusalLocal
<1>4. LocalInv(y)'
  BY <1>3, LocalStable DEF IInv
<1>5. h' = [h EXCEPT ![i] = y]
  BY Zenon, <1>1, <1>2 DEF Answer, Local, IInv, TypeOK
<1> QED
  BY Zenon, <1>3, <1>4, <1>5, HandlerMoves

(***************************************************************************)
(* Put: the record that becomes visible is the one bound to the token, and *)
(* a client is handed the access key ID only after that.                   *)
(***************************************************************************)
LEMMA PutStepStep ==
  ASSUME IInv, NEW i \in Handler, PutStep(i)
  PROVE  IInv'
<1> DEFINE a == h[i].akid
           c == h[i].creds
<1>1. h[i] \in Local /\ a \in AKID /\ MintedFor(a, c)
  BY DEF IInv, TypeOK, PutStep, At, Local, LocalInv, ExchangeInv
<1>2. UNCHANGED <<origin, revoked>>
  BY Zenon DEF PutStep
<1>3. ASSUME Put(a, c), handed' \in {handed, handed \cup {a}},
             NEW code \in Refusal, Answer(i, code)
      PROVE  IInv'
  <2>1. /\ issued[a] = NoCreds /\ issued' = [issued EXCEPT ![a] = c]
        /\ present' = present \cup {a} /\ UNCHANGED <<now, lag, withdrawn>>
    BY <1>3 DEF Put
  <2>2. c \in Creds /\ c # NoCreds
    BY <1>1, StoreAssumption DEF MintedFor
  <2>3. StoreTypeOK' /\ issued'[a] = c /\ handed' \in SUBSET AKID
    BY <1>1, <1>3, <2>1, <2>2 DEF IInv, TypeOK, StoreTypeOK
  <2>4. Grows
    BY <1>2, <1>3, <2>1 DEF IInv, TypeOK, StoreTypeOK, Grows
  <2>5. \A b \in AKID : b # a => issued'[b] = issued[b]
    BY <2>1 DEF IInv, TypeOK, StoreTypeOK
  <2>6. StoreInv'
    <3>1. (\A b \in AKID : issued[b] # NoCreds => MintedFor(b, issued[b]))'
      BY <1>1, <1>2, <2>3, <2>5 DEF IInv, StoreInv, MintedFor
    <3>2. \A b \in AKID : issued[b] # NoCreds => b # a /\ issued'[b] # NoCreds
      BY <2>1, <2>5, Zenon
    <3>3. \A b \in present' : issued'[b] # NoCreds
      BY <2>1, <2>2, <2>3, <3>2, Zenon DEF IInv, TypeOK, StoreTypeOK, StoreInv
    <3>4. \A r \in Replica : \A b \in lag'[r] : issued'[b] # NoCreds
      BY <2>1, <3>2, Zenon DEF IInv, TypeOK, StoreTypeOK, StoreInv
    <3>5. \A b \in handed' : issued'[b] # NoCreds
      BY <1>3, <2>2, <2>3, <3>2, Zenon DEF IInv, TypeOK, StoreInv
    <3>6. \A b \in revoked' : issued'[b] # NoCreds /\ b \notin present'
      BY <1>2, <2>1, <3>2, Zenon DEF IInv, TypeOK, StoreInv
    <3>7. \A b \in AKID : issued'[b] # NoCreds /\ b \notin present' =>
            b \in withdrawn' \/ issued'[b].exp + Retention <= now'
      BY <1>2, <2>1, <2>5 DEF IInv, StoreInv
    <3> QED
      BY <3>1, <3>3, <3>4, <3>5, <3>6, <3>7, Zenon DEF StoreInv
  <2>7. h' \in [Handler -> Local] /\ (\A j \in Handler : LocalInv(h[j]))'
    BY <1>3, <2>4, AnswerMoves
  <2> QED
    BY <1>2, <2>3, <2>6, <2>7 DEF IInv, TypeOK
<1>4. CASE Put(a, c) /\ Answer(i, "issued") /\ handed' = handed \cup {a}
  BY <1>3, <1>4 DEF Refusal, Code
<1>5. CASE Put(a, c) /\ Answer(i, "ServiceFailure") /\ UNCHANGED handed
  BY <1>3, <1>5 DEF Refusal, Code
<1>6. CASE UNCHANGED storeVars /\ Answer(i, "ServiceFailure") /\ UNCHANGED handed
  BY <1>2, <1>6, RefuseStep DEF Refusal, Code, history
<1> QED
  BY <1>4, <1>5, <1>6, Zenon DEF PutStep

-----------------------------------------------------------------------------
(***************************************************************************)
(* Lookup: what Get finds is the record as it was minted, and it finds     *)
(* nothing for an access key ID whose revocation has reached the replica.  *)
(***************************************************************************)
LEMMA LookupStep ==
  ASSUME IInv, NEW i \in Handler, Lookup(i)
  PROVE  IInv'
<1> DEFINE x == h[i]
           c == Get(x.rep, x.akid)
<1>1. /\ x \in Local /\ LocalInv(x) /\ x.pc = "lookup" /\ Signed(x) /\ now \in Nat
      /\ x.rep \in Replica /\ x.akid \in AKID
  BY DEF IInv, TypeOK, StoreTypeOK, Lookup, At, LocalInv, LaneInv, Local
<1>2. UNCHANGED <<storeVars, history>>
  BY DEF Lookup
<1>3. CASE Answer(i, "store_error")
  BY <1>2, <1>3, RefuseStep DEF Refusal, Code
<1>4. CASE /\ c = NoCreds
           /\ h' = [h EXCEPT ![i].pc = "done", ![i].answer = "unknown_akid", ![i].at = now]
  <2>1. PICK y : y = [x EXCEPT !.pc = "done", !.answer = "unknown_akid", !.at = now]
    OBVIOUS
  <2>2. y \in Local
    BY ZenonT(60), <1>1, <2>1 DEF Local, Label, Code
  <2>3. /\ y.pc = "done" /\ y.answer = "unknown_akid" /\ y.at = now /\ y.lane = x.lane
        /\ y.akid = x.akid /\ y.late = x.late /\ y.given = x.given /\ y.rep = x.rep
    BY <1>1, <2>1 DEF Local
  <2>4. x.given => x.akid \in withdrawn \/ issued[x.akid].exp + Retention <= now
    BY <1>1, <1>4, Zenon DEF IInv, StoreInv, LocalInv, SignedInv, Get
  <2>5. LocalInv(y)
    BY <1>1, <2>3, <2>4 DEF LocalInv, LaneInv, ExchangeInv, SignedInv, ForwardInv,
                            Signed, Checked, Forwarded
  <2>6. h' = [h EXCEPT ![i] = y]
    BY Zenon, <1>1, <1>4, <2>1 DEF Local, IInv, TypeOK
  <2> QED
    BY Zenon, <1>2, <2>2, <2>5, <2>6, QuietStep
<1>5. CASE c # NoCreds /\ h' = [h EXCEPT ![i].pc = "expiry", ![i].creds = c]
  <2>1. c = issued[x.akid] /\ x.akid \in present \cup lag[x.rep]
    BY <1>5, Zenon DEF Get
  <2>2. c \in Creds /\ ~x.late
    BY <1>1, <1>5, <2>1 DEF IInv, TypeOK, StoreTypeOK, StoreInv, LocalInv, SignedInv
  <2>3. PICK y : y = [x EXCEPT !.pc = "expiry", !.creds = c]
    OBVIOUS
  <2>4. y \in Local
    <3> HIDE DEF c
    <3> QED BY Zenon, <1>1, <2>2, <2>3 DEF Local, Label
  <2>5. /\ y.pc = "expiry" /\ y.creds = c /\ y.lane = x.lane /\ y.akid = x.akid
        /\ y.late = x.late /\ y.given = x.given
    <3> HIDE DEF c
    <3> QED BY <1>1, <2>3 DEF Local
  <2>6. LocalInv(y)
    BY <1>1, <1>5, <2>1, <2>2, <2>5
       DEF LocalInv, LaneInv, ExchangeInv, SignedInv, ForwardInv, Signed, Checked, Forwarded
  <2>7. h' = [h EXCEPT ![i] = y]
    <3> HIDE DEF c
    <3> QED BY Zenon, <1>1, <1>5, <2>3 DEF Local, IInv, TypeOK
  <2> QED
    BY Zenon, <1>2, <2>4, <2>6, <2>7, QuietStep
<1> QED
  BY <1>3, <1>4, <1>5 DEF Lookup

(***************************************************************************)
(* The checks of expiry and session token, on the record the handler       *)
(* looked up, leave the handler with an unexpired record of its own.       *)
(***************************************************************************)
LEMMA CheckCredsStep ==
  ASSUME IInv, NEW i \in Handler, CheckCreds(i)
  PROVE  IInv'
<1> DEFINE x == h[i]
<1>1. /\ x \in Local /\ LocalInv(x) /\ x.pc = "expiry" /\ Signed(x) /\ now \in Nat
  BY DEF IInv, TypeOK, StoreTypeOK, CheckCreds, At, LocalInv, LaneInv
<1>2. UNCHANGED <<storeVars, history>>
  BY DEF CheckCreds
<1>3. CASE Answer(i, "expired") \/ Answer(i, "bad_token")
  BY <1>2, <1>3, RefuseStep DEF Refusal, Code
<1>4. CASE /\ ~Expired(x.creds, now)
           /\ x.req.session = x.akid
           /\ h' = [h EXCEPT ![i].pc = "verify", ![i].at = now]
  <2>1. PICK y : y = [x EXCEPT !.pc = "verify", !.at = now]
    OBVIOUS
  <2>2. y \in Local
    BY Zenon, <1>1, <2>1 DEF Local, Label
  <2>3. /\ y.pc = "verify" /\ y.at = now /\ y.creds = x.creds /\ y.lane = x.lane
        /\ y.akid = x.akid /\ y.late = x.late /\ y.given = x.given /\ y.req = x.req
        /\ y.rep = x.rep
    BY <1>1, <2>1 DEF Local
  <2>4. LocalInv(y)
    BY <1>1, <1>4, <2>3 DEF LocalInv, LaneInv, ExchangeInv, SignedInv, ForwardInv,
                            Signed, Checked, Forwarded, Expired
  <2>5. h' = [h EXCEPT ![i] = y]
    BY Zenon, <1>1, <1>4, <2>1 DEF Local, IInv, TypeOK
  <2> QED
    BY Zenon, <1>2, <2>2, <2>4, <2>5, QuietStep
<1> QED
  BY <1>3, <1>4 DEF CheckCreds

(***************************************************************************)
(* Verify: only a request signed with the secret of the access key ID it   *)
(* names gets past, in either lane.                                        *)
(***************************************************************************)
LEMMA VerifyStep ==
  ASSUME IInv, NEW i \in Handler, Verify(i)
  PROVE  IInv'
<1> DEFINE x == h[i]
           verdict == IF x.lane = "sigv4" THEN HeaderVerdict(x.req, x.akid, now)
                      ELSE QueryVerdict(x.req, x.akid, now)
<1>1. x \in Local /\ LocalInv(x) /\ x.pc = "verify" /\ Signed(x)
  BY DEF IInv, TypeOK, Verify, At, LocalInv, LaneInv
<1>2. UNCHANGED <<storeVars, history>>
  BY Zenon DEF Verify
<1>3. CASE verdict # "success" /\ Answer(i, verdict)
  <2>1. verdict \in Refusal
    BY <1>3 DEF HeaderVerdict, QueryVerdict, Refusal, Code
  <2> QED
    BY <1>2, <1>3, <2>1, RefuseStep, ZenonT(60)
<1>4. CASE verdict = "success" /\ h' = [h EXCEPT ![i].pc = "upstream", ![i].as = x.creds.user]
  <2>1. x.req.key = x.akid
    BY <1>4 DEF HeaderVerdict, QueryVerdict
  <2>2. x.creds \in Creds
    BY Zenon, <1>1 DEF Local, LocalInv, SignedInv, Checked
  <2>3. PICK y : y = [x EXCEPT !.pc = "upstream", !.as = x.creds.user]
    OBVIOUS
  <2>4. y \in Local
    BY Zenon, <1>1, <2>2, <2>3 DEF Local, Label, Creds
  <2>5. /\ y.pc = "upstream" /\ y.as = x.creds.user /\ y.at = x.at /\ y.creds = x.creds
        /\ y.lane = x.lane /\ y.akid = x.akid /\ y.late = x.late /\ y.given = x.given
        /\ y.req = x.req /\ y.rep = x.rep
    BY <1>1, <2>3 DEF Local
  <2>6. LocalInv(y)
    BY Zenon, <1>1, <2>1, <2>5 DEF LocalInv, LaneInv, ExchangeInv, SignedInv, ForwardInv,
                            Signed, Checked, Forwarded
  <2>7. h' = [h EXCEPT ![i] = y]
    BY Zenon, <1>1, <1>4, <2>3 DEF Local, IInv, TypeOK
  <2> QED
    BY Zenon, <1>2, <2>4, <2>6, <2>7, QuietStep
<1> QED
  BY <1>3, <1>4 DEF Verify

(***************************************************************************)
(* The answer of the gateway changes nothing the request was forwarded as. *)
(***************************************************************************)
LEMMA UpstreamStep ==
  ASSUME IInv, NEW i \in Handler, Upstream(i)
  PROVE  IInv'
<1> DEFINE x == h[i]
<1>1. x \in Local /\ LocalInv(x) /\ x.pc = "upstream"
  BY DEF IInv, TypeOK, Upstream, At
<1>2. PICK code \in {"relayed", "bad_gateway", "cancelled"} : Answer(i, code)
  BY DEF Upstream
<1>3. PICK y : y = [x EXCEPT !.pc = "done", !.answer = code]
  OBVIOUS
<1>4. y \in Local
  BY ZenonT(60), <1>1, <1>3 DEF Local, Label, Code
<1>5. /\ y.pc = "done" /\ y.answer = code /\ y.as = x.as /\ y.at = x.at /\ y.creds = x.creds
      /\ y.lane = x.lane /\ y.akid = x.akid /\ y.late = x.late /\ y.given = x.given
      /\ y.req = x.req /\ y.rep = x.rep
  BY <1>1, <1>3 DEF Local
<1>6. LocalInv(y)
  BY <1>1, <1>5 DEF LocalInv, LaneInv, ExchangeInv, SignedInv, ForwardInv,
                    Signed, Checked, Forwarded
<1>7. h' = [h EXCEPT ![i] = y]
  BY Zenon, <1>1, <1>2, <1>3 DEF Answer, Local, IInv, TypeOK
<1> QED
  BY Zenon, <1>4, <1>6, <1>7, QuietStep DEF Upstream

-----------------------------------------------------------------------------
(***************************************************************************)
(* The lookup of handleRevoke: the handler goes on only for a record that  *)
(* was stored.                                                             *)
(***************************************************************************)
LEMMA RevokeFindStep ==
  ASSUME IInv, NEW i \in Handler, RevokeFind(i)
  PROVE  IInv'
<1> DEFINE x == h[i]
<1>1. /\ x \in Local /\ LocalInv(x) /\ x.pc = "find" /\ x.lane = "revoke"
      /\ x.rep \in Replica /\ x.akid \in AKID
  BY DEF IInv, TypeOK, RevokeFind, At, LocalInv, LaneInv, Local
<1>2. UNCHANGED <<storeVars, history>>
  BY DEF RevokeFind
<1>3. CASE Answer(i, "503") \/ Answer(i, "404")
  BY <1>2, <1>3, RefuseStep DEF Refusal, Code
<1>4. CASE Get(x.rep, x.akid) # NoCreds /\ h' = [h EXCEPT ![i].pc = "delete"]
  <2>1. issued[x.akid] # NoCreds
    BY <1>1, <1>4 DEF Get
  <2>2. PICK y : y = [x EXCEPT !.pc = "delete"]
    BY Zenon
  <2>3. y \in Local /\ y.pc = "delete" /\ y.lane = "revoke" /\ y.akid = x.akid
    BY <1>1, <2>2, Zenon DEF Local, Label
  <2>4. LocalInv(y)
    BY <2>1, <2>3 DEF LocalInv, LaneInv, ExchangeInv, SignedInv, ForwardInv,
                      Signed, Checked, Forwarded
  <2>5. h' = [h EXCEPT ![i] = y]
    BY <1>4, <2>2
  <2> QED
    BY Zenon, <1>2, <2>3, <2>4, <2>5, QuietStep
<1> QED
  BY <1>3, <1>4 DEF RevokeFind

(***************************************************************************)
(* Removing records, on whatever account: each of them is withdrawn or     *)
(* past its retention, and no cache gains a record already revoked.        *)
(***************************************************************************)
LEMMA RemoveStore ==
  ASSUME TypeOK, StoreInv, NEW S \in SUBSET AKID, Remove(S),
         UNCHANGED <<origin, handed>>,
         \A a \in S \cap present : a \in withdrawn' \/ issued[a].exp + Retention <= now,
         NEW T \in SUBSET S, \A a \in T : issued[a] # NoCreds,
         revoked' = revoked \cup T,
         withdrawn \subseteq withdrawn', withdrawn' \in SUBSET AKID
  PROVE  StoreTypeOK' /\ Grows /\ StoreInv'
<1> USE DEF TypeOK, StoreTypeOK
<1>1. /\ present' = present \ S
      /\ UNCHANGED <<now, issued>>
      /\ \E held \in [Cached -> SUBSET (S \cap present)] :
           lag' = [r \in Replica |-> IF r \in Cached THEN lag[r] \cup held[r] ELSE lag[r]]
  BY Zenon DEF Remove
<1>2. lag' \in [Replica -> SUBSET AKID]
  BY <1>1
<1>3. \A r \in Replica : lag'[r] \subseteq lag[r] \cup (S \cap present)
  BY <1>1, Zenon
<1>4. Grows
  BY <1>1, <1>3, Zenon DEF Grows, StoreInv
<1>5. StoreInv'
  BY <1>1, <1>3 DEF StoreInv, MintedFor
<1> QED
  BY <1>1, <1>2, <1>4, <1>5

(***************************************************************************)
(* The Delete of handleRevoke, applied, failed, or applied with an error   *)
(* reported.                                                               *)
(***************************************************************************)
LEMMA RevokeDeleteStep ==
  ASSUME IInv, NEW i \in Handler, RevokeDelete(i)
  PROVE  IInv'
<1> DEFINE a == h[i].akid
<1>1. h[i] \in Local /\ a \in AKID /\ issued[a] # NoCreds
  BY DEF IInv, TypeOK, RevokeDelete, At, Local, LocalInv, ExchangeInv
<1>2. UNCHANGED <<origin, handed>>
  BY Zenon DEF RevokeDelete
<1>3. ASSUME Delete(a), NEW T \in SUBSET {a},
             revoked' = revoked \cup T, NEW code \in Refusal, Answer(i, code)
      PROVE  IInv'
  <2>1. StoreTypeOK' /\ Grows /\ StoreInv'
    <3>1. Remove({a}) /\ {a} \in SUBSET AKID /\ withdrawn' = withdrawn \cup {a}
      BY <1>1, <1>3 DEF Delete
    <3>2. withdrawn' \in SUBSET AKID
      BY <1>1, <3>1 DEF IInv, TypeOK, StoreTypeOK
    <3> QED
      BY <1>1, <1>2, <1>3, <3>1, <3>2, RemoveStore DEF IInv
  <2>2. h' \in [Handler -> Local] /\ (\A j \in Handler : LocalInv(h[j]))'
    BY <1>3, <2>1, AnswerMoves
  <2> QED
    BY <1>1, <1>2, <1>3, <2>1, <2>2, ZenonT(60) DEF IInv, TypeOK
<1>4. CASE Delete(a) /\ Answer(i, "204") /\ revoked' = revoked \cup {a}
  BY Zenon, <1>3, <1>4 DEF Refusal, Code
<1>5. CASE Delete(a) /\ Answer(i, "503") /\ UNCHANGED revoked
  <2>1. revoked' = revoked \cup {} /\ {} \in SUBSET {a}
    BY <1>5
  <2> QED
    BY Zenon, <1>3, <1>5, <2>1 DEF Refusal, Code
<1>6. CASE UNCHANGED storeVars /\ Answer(i, "503") /\ UNCHANGED revoked
  BY <1>2, <1>6, RefuseStep, Zenon DEF Refusal, Code, history
<1> QED
  BY <1>4, <1>5, <1>6, ZenonT(60) DEF RevokeDelete

-----------------------------------------------------------------------------
(***************************************************************************)
(* Handlers that stay put or are reset: the steps of the environment.      *)
(***************************************************************************)
LEMMA IdleLocal == Idle \in Local /\ LocalInv(Idle)
<1>1. /\ (CHOOSE r \in Replica : TRUE) \in Replica
      /\ (CHOOSE q \in Request : TRUE) \in Request
      /\ (CHOOSE a \in AKID : TRUE) \in AKID
  BY ProxyAssumption, Zenon
<1>2. Idle \in Local
  BY <1>1, Zenon DEF Idle, Local, Label, Lane, Code
<1>3. Idle.pc = "idle" /\ Idle.lane = "sts"
  BY DEF Idle
<1> QED
  BY <1>2, <1>3 DEF LocalInv, LaneInv, ExchangeInv, SignedInv, ForwardInv,
                    Signed, Checked, Forwarded

(***************************************************************************)
(* A step of the environment that resets the handlers D, and no other,     *)
(* keeps the invariant of every handler.                                   *)
(***************************************************************************)
LEMMA OthersMove ==
  ASSUME IInv, Grows, NEW D \in SUBSET Handler,
         h' = [i \in Handler |-> IF i \in D THEN Idle ELSE h[i]]
  PROVE  h' \in [Handler -> Local] /\ (\A j \in Handler : LocalInv(h[j]))'
<1>1. \A j \in Handler : h[j] \in Local /\ LocalInv(h[j])
  BY DEF IInv, TypeOK
<1>2. \A j \in Handler : h'[j] \in Local /\ (h'[j] = Idle \/ h'[j] = h[j])
  BY <1>1, IdleLocal
<1>3. ASSUME NEW j \in Handler PROVE LocalInv(h[j])'
  <2>1. ASSUME NEW x, x \in Local, LocalInv(x), h'[j] = x PROVE LocalInv(h[j])'
    <3>1. LocalInv(x)'
      BY <2>1, LocalStable DEF IInv
    <3> QED BY <2>1, <3>1
  <2>2. PICK x : x = h'[j]
    OBVIOUS
  <2>3. x \in Local /\ LocalInv(x)
    BY <1>1, <1>2, <2>2, IdleLocal
  <2> QED BY <2>1, <2>2, <2>3
<1> QED
  BY <1>2, <1>3

(***************************************************************************)
(* Stuttering, records forgotten by the store, invalidations, restarts of  *)
(* the store or of a replica, and the clock preserve the invariant.        *)
(***************************************************************************)
LEMMA EnvironmentStep ==
  ASSUME IInv,
         \/ StoreForgets \/ StoreLost \/ ClockTick \/ UNCHANGED vars
         \/ \E r \in Replica : Invalidate(r) \/ ReplicaRestart(r)
  PROVE  IInv'
<1> USE DEF history
<1>1. ASSUME StoreTypeOK', Grows, StoreInv', UNCHANGED <<origin, handed, revoked>>,
             NEW D \in SUBSET Handler, h' = [i \in Handler |-> IF i \in D THEN Idle ELSE h[i]]
      PROVE  IInv'
  <2>1. h' \in [Handler -> Local] /\ (\A j \in Handler : LocalInv(h[j]))'
    BY <1>1, OthersMove
  <2> QED
    BY <1>1, <2>1 DEF IInv, TypeOK
<1>2. ASSUME StoreTypeOK', Grows, StoreInv', UNCHANGED <<h, origin, handed, revoked>>
      PROVE  IInv'
  <2>1. PICK D \in SUBSET Handler : D = {}
    BY Zenon
  <2>2. h' = [i \in Handler |-> IF i \in D THEN Idle ELSE h[i]]
    BY <1>2, <2>1, Zenon DEF IInv, TypeOK
  <2> QED
    BY <1>1, <1>2, <2>2
<1>4. CASE StoreForgets
  <2>1. PICK S \in SUBSET AKID : Forget(S)
    BY <1>4 DEF StoreForgets
  <2>2. UNCHANGED <<h, history>>
    BY <1>4 DEF StoreForgets
  <2>3. revoked' = revoked \cup {} /\ {} \in SUBSET S
    BY <2>2
  <2>4. withdrawn' = withdrawn /\ withdrawn \in SUBSET AKID
    BY <2>1 DEF Forget, IInv, TypeOK, StoreTypeOK
  <2>5. StoreTypeOK' /\ Grows /\ StoreInv'
    BY Zenon, <2>1, <2>2, <2>3, <2>4, RemoveStore DEF IInv, Forget
  <2> QED
    BY <1>2, <2>2, <2>5 DEF IInv, TypeOK
<1>5. CASE StoreLost
  <2>1. Remove(present) /\ present \in SUBSET AKID
    BY <1>5 DEF StoreLost, Lose, IInv, TypeOK, StoreTypeOK
  <2>2. withdrawn' = withdrawn \cup present /\ UNCHANGED <<origin, handed, revoked>>
    BY <1>5 DEF StoreLost, Lose
  <2>3. revoked' = revoked \cup {} /\ {} \in SUBSET present
    BY <2>2
  <2>4. withdrawn' \in SUBSET AKID
    BY <2>1, <2>2 DEF IInv, TypeOK, StoreTypeOK
  <2>5. StoreTypeOK' /\ Grows /\ StoreInv'
    BY Zenon, <2>1, <2>2, <2>3, <2>4, RemoveStore DEF IInv
  <2>6. CASE h' = h
    BY <1>2, <2>2, <2>5, <2>6
  <2>7. CASE h' = [i \in Handler |-> Idle]
    <3>1. PICK D \in SUBSET Handler : D = Handler
      OBVIOUS
    <3>2. h' = [i \in Handler |-> IF i \in D THEN Idle ELSE h[i]]
      BY <2>7, <3>1, Zenon
    <3> QED
      BY <1>1, <2>2, <2>5, <3>2
  <2> QED
    BY <1>5, <2>6, <2>7 DEF StoreLost
<1>6. CASE ClockTick
  <2>1. now' = now + 1 /\ UNCHANGED <<issued, present, lag, withdrawn, h, history>>
    BY <1>6, Zenon DEF ClockTick, Tick
  <2>2. StoreTypeOK' /\ Grows /\ StoreInv'
    BY <2>1, StoreAssumption
       DEF IInv, TypeOK, StoreTypeOK, Grows, StoreInv, MintedFor, Creds
  <2> QED
    BY <1>2, <2>1, <2>2 DEF IInv, TypeOK
<1>7. ASSUME NEW r \in Replica, NEW S \in SUBSET AKID, CatchUp(r, S), UNCHANGED history
      PROVE  StoreTypeOK' /\ Grows /\ StoreInv'
  <2>1. lag' = [lag EXCEPT ![r] = @ \ S] /\ UNCHANGED <<now, issued, present, withdrawn>>
    BY <1>7 DEF CatchUp
  <2>2. StoreTypeOK' /\ \A p \in Replica : lag'[p] \subseteq lag[p]
    BY <2>1, Zenon DEF IInv, TypeOK, StoreTypeOK
  <2> QED
    BY Zenon, <1>7, <2>1, <2>2 DEF IInv, TypeOK, StoreTypeOK, Grows, StoreInv, MintedFor
<1>8. ASSUME NEW r \in Replica, Invalidate(r) PROVE IInv'
  <2>1. PICK a \in lag[r] : CatchUp(r, {a})
    BY <1>8, Zenon DEF Invalidate
  <2>2. {a} \in SUBSET AKID
    BY <1>8 DEF IInv, TypeOK, StoreTypeOK
  <2>3. UNCHANGED <<h, history>>
    BY <1>8 DEF Invalidate
  <2> QED
    BY <1>2, <1>7, <2>1, <2>2, <2>3, Zenon DEF IInv, TypeOK
<1>9. ASSUME NEW r \in Replica, ReplicaRestart(r) PROVE IInv'
  <2>1. PICK D \in SUBSET Handler : D = {j \in Handler : h[j].rep = r}
    BY Zenon
  <2>2. h' = [i \in Handler |-> IF i \in D THEN Idle ELSE h[i]]
    BY <1>9, <2>1 DEF ReplicaRestart
  <2>3. CatchUp(r, AKID) /\ UNCHANGED history
    BY <1>9 DEF ReplicaRestart
  <2>4. StoreTypeOK' /\ Grows /\ StoreInv'
    BY <1>7, <2>3
  <2> QED
    BY <1>1, <2>2, <2>3, <2>4 DEF IInv, TypeOK
<1>10. CASE UNCHANGED vars
  <2>1. UNCHANGED <<now, issued, present, lag>> /\ UNCHANGED <<h, origin, handed, revoked, withdrawn>>
    BY <1>10 DEF vars, storeVars
  <2>2. StoreTypeOK' /\ Grows /\ StoreInv'
    BY Zenon, <2>1 DEF IInv, TypeOK, StoreTypeOK, Grows, StoreInv, MintedFor
  <2> QED
    BY <1>2, <2>1, <2>2 DEF IInv, TypeOK
<1> QED
  BY <1>4, <1>5, <1>6, <1>8, <1>9, <1>10, Zenon

-----------------------------------------------------------------------------
(***************************************************************************)
(* Type correctness and the four safety properties of the request path:    *)
(* IInv is an invariant of every behaviour of the proxy.                   *)
(***************************************************************************)
THEOREM Invariance == Spec => []IInv
<1>1. Init => IInv
  <2> SUFFICES ASSUME Init PROVE IInv
    OBVIOUS
  <2>1. TypeOK
    BY IdleLocal DEF Init, StoreInit, TypeOK, StoreTypeOK
  <2>2. StoreInv
    BY DEF Init, StoreInit, StoreInv
  <2>3. \A i \in Handler : LocalInv(h[i])
    BY IdleLocal DEF Init
  <2> QED
    BY <2>1, <2>2, <2>3 DEF IInv
<1>2. IInv /\ [Next]_vars => IInv'
  <2> SUFFICES ASSUME IInv, [Next]_vars PROVE IInv'
    OBVIOUS
  <2>1. ASSUME NEW i \in Handler, Arrive(i) PROVE IInv'
    BY <2>1, ArriveStep
  <2>2. ASSUME NEW i \in Handler, Progress(i) \/ Upstream(i) PROVE IInv'
    BY <2>2, ValidateStep, MintStep, PutStepStep, LookupStep, CheckCredsStep, VerifyStep,
       UpstreamStep, RevokeFindStep, RevokeDeleteStep DEF Progress
  <2>3. CASE \/ StoreForgets \/ StoreLost \/ ClockTick \/ UNCHANGED vars
             \/ \E r \in Replica : Invalidate(r) \/ ReplicaRestart(r)
    BY <2>3, EnvironmentStep
  <2> QED
    BY <2>1, <2>2, <2>3 DEF Next
<1> QED
  BY <1>1, <1>2, PTL DEF Spec

(***************************************************************************)
(* Every variable of the proxy keeps its type.                             *)
(***************************************************************************)
THEOREM TypeCorrect == Spec => []TypeOK
<1>1. IInv => TypeOK
  BY DEF IInv
<1> QED
  BY <1>1, Invariance, PTL

(***************************************************************************)
(* What reaches the gateway is attributed to the user of an acceptable     *)
(* token, the one its credentials were minted for.                         *)
(***************************************************************************)
THEOREM AttributionHolds == Spec => []Attribution
<1>1. IInv => Attribution
  <2> SUFFICES ASSUME IInv, NEW i \in Handler, Forwarded(h[i])
               PROVE  \/ /\ Signed(h[i])
                         /\ origin[h[i].akid] # NoToken
                         /\ origin[h[i].akid].ok
                         /\ h[i].as = origin[h[i].akid].user
                         /\ h[i].req.key = h[i].akid
                         /\ h[i].req.session = h[i].akid
                      \/ /\ h[i].lane = "bearer"
                         /\ h[i].req.token.ok
                         /\ h[i].as = h[i].req.token.user
                      \/ /\ h[i].lane = "unauthenticated"
                         /\ h[i].rep \notin Strict
                         /\ h[i].as = NoUser
    BY DEF Attribution
  <2>1. h[i] \in Local /\ LocalInv(h[i]) /\ h[i].akid \in AKID
    BY DEF IInv, TypeOK, Local
  <2>2. CASE Signed(h[i])
    BY ZenonT(60), <2>1, <2>2, ProxyAssumption DEF IInv, StoreInv, MintedFor, LocalInv, SignedInv, Checked
  <2>3. CASE ~Signed(h[i])
    BY Zenon, <2>1, <2>3 DEF LocalInv, ForwardInv
  <2> QED
    BY ZenonT(60), <2>2, <2>3
<1> QED
  BY <1>1, Invariance, PTL

(***************************************************************************)
(* No signed request is forwarded on credentials that outlived their token.*)
(***************************************************************************)
THEOREM LifetimeHolds == Spec => []WithinTokenLifetime
<1>1. IInv => WithinTokenLifetime
  <2> SUFFICES ASSUME IInv, NEW i \in Handler, Forwarded(h[i]), Signed(h[i])
               PROVE  h[i].at < origin[h[i].akid].exp
    BY DEF WithinTokenLifetime
  <2>1. h[i] \in Local /\ LocalInv(h[i]) /\ h[i].akid \in AKID /\ h[i].at \in Nat
    BY SMTT(60) DEF IInv, TypeOK, Local
  <2>2. h[i].at < issued[h[i].akid].exp /\ issued[h[i].akid] # NoCreds
    BY <2>1, ZenonT(60) DEF LocalInv, SignedInv, Checked
  <2>3. MintedFor(h[i].akid, issued[h[i].akid])
    BY <2>1, <2>2, ZenonT(60) DEF IInv, StoreInv
  <2> QED
    BY <2>1, <2>2, <2>3, ProxyAssumption DEF MintedFor, Creds, Claims
<1> QED
  BY <1>1, Invariance, PTL

(***************************************************************************)
(* A request that arrives after the revocation of its credentials has      *)
(* reached its replica is never forwarded.                                 *)
(***************************************************************************)
THEOREM RevocationHolds == Spec => []RevokedStaysRefused
<1>1. IInv => RevokedStaysRefused
  BY Zenon DEF IInv, LocalInv, SignedInv, Checked, RevokedStaysRefused
<1> QED
  BY <1>1, Invariance, PTL

(***************************************************************************)
(* Credentials handed to a client are unknown only once they were revoked, *)
(* lost with the store, or are past their retention.                       *)
(***************************************************************************)
THEOREM UnknownHolds == Spec => []UnknownOnlyWhenGone
<1>1. IInv => UnknownOnlyWhenGone
  BY Zenon DEF IInv, TypeOK, StoreInv, LocalInv, SignedInv, UnknownOnlyWhenGone
<1> QED
  BY <1>1, Invariance, PTL
=============================================================================
