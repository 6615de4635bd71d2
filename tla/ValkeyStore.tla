----------------------------- MODULE ValkeyStore -----------------------------
(***************************************************************************)
(* internal/store/valkey.go: the credential store shared by the replicas   *)
(* of a scaled-out proxy.  Every replica talks to one valkey server over a *)
(* RESP3 connection, and Get goes through valkey-go's client-side cache:   *)
(* DoCache answers from the cache, joins a read already in flight, or      *)
(* reads the server, which remembers that the replica holds the key and    *)
(* pushes an invalidation down the same connection when the key changes.   *)
(*                                                                         *)
(* The server and the client library are not part of the repository; they *)
(* are modelled as valkey.go uses them (marked "external" in the map).     *)
(***************************************************************************)
EXTENDS Integers, Sequences, FiniteSets

CONSTANTS
  AKID, User, Replica, Retention, MaxTime, NoCreds,
  Expiry,     \* the expiries callers of Put use
  CacheTTL    \* cacheTTL of NewValkey

VARIABLES
  now,        \* the clock
  kv,         \* the server's keyspace
  until,      \* until[a]: when the server expires key a (SET PX)
  tracked,    \* tracked[r]: keys the server remembers replica r holding
  conn,       \* conn[r]: what the server has sent to r and r has not read
  linked,     \* linked[r]: the server side of the connection is up
  cache,      \* cache[r][a]: the client-side cache
  said,       \* said[r][a]: history, the last answer of Get at r for a
  issued,     \* history: the record ever stored under a
  withdrawn   \* history: access key IDs deleted, or lost with the server

vars == <<now, kv, until, tracked, conn, linked, cache, said, issued, withdrawn>>
serverVars == <<kv, until>>
linkVars == <<tracked, conn, linked>>
history == <<issued, withdrawn>>

Creds == [user: User, exp: Int]
Answer == Creds \cup {NoCreds}
Entry == [state: {"absent", "pending", "value"}, val: Answer, till: Int]
Message == [type: {"reply", "invalidate"}, key: AKID, val: Answer, ttl: Int]

ASSUME ValkeyStoreAssumption ==
  /\ Retention \in Nat \ {0}
  /\ CacheTTL \in Nat
  /\ MaxTime \in Nat
  /\ Expiry \subseteq Int
  /\ NoCreds \notin Creds

Absent == [state |-> "absent", val |-> NoCreds, till |-> 0]
Pending == [Absent EXCEPT !.state = "pending"]
Reply(a, v, t) == [type |-> "reply", key |-> a, val |-> v, ttl |-> t]
Invalidation(a) == [type |-> "invalidate", key |-> a, val |-> NoCreds, ttl |-> 0]

\* Every variable keeps its type.
TypeOK ==
  /\ now \in Nat
  /\ kv \in [AKID -> Answer]
  /\ until \in [AKID -> Int]
  /\ tracked \in [Replica -> SUBSET AKID]
  /\ conn \in [Replica -> Seq(Message)]
  /\ linked \in [Replica -> BOOLEAN]
  /\ cache \in [Replica -> [AKID -> Entry]]
  /\ said \in [Replica -> [AKID -> {"nothing", "found", "missing"}]]
  /\ issued \in [AKID -> Answer]
  /\ withdrawn \in SUBSET AKID

\* NewValkey on every replica, an empty server.
Init ==
  /\ now = 0
  /\ kv = [a \in AKID |-> NoCreds]
  /\ until = [a \in AKID |-> 0]
  /\ tracked = [r \in Replica |-> {}]
  /\ conn = [r \in Replica |-> <<>>]
  /\ linked = [r \in Replica |-> TRUE]
  /\ cache = [r \in Replica |-> [a \in AKID |-> Absent]]
  /\ said = [r \in Replica |-> [a \in AKID |-> "nothing"]]
  /\ issued = [a \in AKID |-> NoCreds]
  /\ withdrawn = {}

Smaller(x, y) == IF x < y THEN x ELSE y
VerdictOnNil(v) == IF v = NoCreds THEN "error" ELSE "found"
Verdict(v) == IF v = NoCreds THEN "missing" ELSE "found"

\* A record replica r can still answer without asking the server.
Holds(r, a) ==
  \/ cache[r][a].state = "value" /\ cache[r][a].val # NoCreds
  \/ \E i \in DOMAIN conn[r] : /\ conn[r][i].type = "reply"
                               /\ conn[r][i].key = a
                               /\ conn[r][i].val # NoCreds

Store == INSTANCE CredentialStore WITH
           Cached  <- Replica,
           present <- {a \in AKID : kv[a] # NoCreds},
           lag     <- [r \in Replica |-> {a \in AKID : kv[a] = NoCreds /\ Holds(r, a)}]

-----------------------------------------------------------------------------
(* Mutated forms, used to show that the properties can fail. *)

ServerTTLAtExpiry(c) == IF c.exp - now > 0 THEN c.exp - now ELSE Retention
PushToNobody(a) == UNCHANGED <<tracked, conn>>
PushAheadOfReplies(a) ==
  /\ conn' = [r \in Replica |-> IF linked[r] /\ a \in tracked[r]
                                  THEN <<Invalidation(a)>> \o conn[r] ELSE conn[r]]
  /\ tracked' = [r \in Replica |-> tracked[r] \ {a}]

-----------------------------------------------------------------------------
(* The server. *)

\* The server tells every replica that holds a, once, and forgets that it does.
Push(a) ==
  /\ conn' = [r \in Replica |-> IF linked[r] /\ a \in tracked[r]
                                  THEN Append(conn[r], Invalidation(a)) ELSE conn[r]]
  /\ tracked' = [r \in Replica |-> tracked[r] \ {a}]

Due(a) == kv[a] # NoCreds /\ until[a] <= now

\* The server reads a for r, after expiring the key if it is due.
ServerGet(r, a) ==
  /\ linked[r]
  /\ cache[r][a].state = "pending"
  /\ ~\E i \in DOMAIN conn[r] : conn[r][i].type = "reply" /\ conn[r][i].key = a
  /\ ~Due(a)
  /\ conn' = [conn EXCEPT ![r] = Append(@, Reply(a, kv[a], until[a] - now))]
  /\ tracked' = [tracked EXCEPT ![r] = @ \cup {a}]
  /\ UNCHANGED <<now, serverVars, linked, cache, said, history>>

ServerExpire(a) ==
  /\ Due(a)
  /\ kv' = [kv EXCEPT ![a] = NoCreds]
  /\ Push(a)
  /\ UNCHANGED <<now, until, linked, cache, said, history>>

\* The connection of r breaks.  The server knows at once, r does not.
LinkDown(r) ==
  /\ linked[r]
  /\ linked' = [linked EXCEPT ![r] = FALSE]
  /\ tracked' = [tracked EXCEPT ![r] = {}]
  /\ UNCHANGED <<now, serverVars, conn, cache, said, history>>

\* The server loses its memory.
ServerRestart ==
  /\ kv' = [a \in AKID |-> NoCreds]
  /\ linked' = [r \in Replica |-> FALSE]
  /\ tracked' = [r \in Replica |-> {}]
  /\ withdrawn' = withdrawn \cup {a \in AKID : kv[a] # NoCreds}
  /\ UNCHANGED <<now, until, conn, cache, said, issued>>

-----------------------------------------------------------------------------
(* The replicas. *)

ServerTTL(c) ==
  LET ttl == c.exp + Retention - now IN IF ttl <= 0 THEN Retention ELSE ttl

\* A form of Put with an access key ID that has been used before.
PutRepeats(r, a, c) ==
  /\ linked[r]
  /\ kv[a] = NoCreds
  /\ kv' = [kv EXCEPT ![a] = c]
  /\ until' = [until EXCEPT ![a] = now + ServerTTL(c)]
  /\ Push(a)
  /\ issued' = [issued EXCEPT ![a] = c]
  /\ UNCHANGED <<now, linked, cache, said, withdrawn>>

\* Put: an error may be reported after the server applied the SET as well as
\* before; the caller then drops the record, whose access key ID nobody knows.
Put(r, a, c) ==
  /\ linked[r]
  /\ issued[a] = NoCreds
  /\ kv' = [kv EXCEPT ![a] = c]
  /\ until' = [until EXCEPT ![a] = now + ServerTTL(c)]
  /\ Push(a)
  /\ issued' = [issued EXCEPT ![a] = c]
  /\ UNCHANGED <<now, linked, cache, said, withdrawn>>

Delete(r, a) ==
  /\ linked[r]
  /\ issued[a] # NoCreds
  /\ kv' = [kv EXCEPT ![a] = NoCreds]
  /\ IF kv[a] = NoCreds THEN UNCHANGED <<tracked, conn>> ELSE Push(a)
  /\ withdrawn' = withdrawn \cup {a}
  /\ UNCHANGED <<now, until, linked, cache, said, issued>>

Hit(r, a) == cache[r][a].state = "value" /\ now < cache[r][a].till

\* Get, answered by the cache.
GetHit(r, a) ==
  /\ Hit(r, a)
  /\ said' = [said EXCEPT ![r][a] = Verdict(cache[r][a].val)]
  /\ UNCHANGED <<now, serverVars, linkVars, cache, history>>

\* Get, not answered by the cache: one read for all callers until it returns.
GetMiss(r, a) ==
  /\ issued[a] # NoCreds
  /\ cache[r][a].state # "pending" /\ ~Hit(r, a)
  /\ cache' = [cache EXCEPT ![r][a] = Pending]
  /\ UNCHANGED <<now, serverVars, linkVars, said, history>>

\* r reads the next message: it fills the cache and answers, or drops the entry.
\* A push that finds a read in flight leaves it alone: its reply is newer.
Receive(r) ==
  /\ conn[r] # <<>>
  /\ conn' = [conn EXCEPT ![r] = Tail(@)]
  /\ LET m == Head(conn[r]) IN
       \/ /\ m.type = "reply"
          /\ cache' = [cache EXCEPT ![r][m.key] =
                         [state |-> "value", val |-> m.val,
                          till |-> now + (IF m.val = NoCreds THEN CacheTTL
                                          ELSE Smaller(CacheTTL, m.ttl))]]
          /\ said' = [said EXCEPT ![r][m.key] = Verdict(m.val)]
       \/ /\ m.type = "invalidate"
          /\ cache' = [cache EXCEPT ![r][m.key] = IF @.state = "pending" THEN @ ELSE Absent]
          /\ UNCHANGED said
  /\ UNCHANGED <<now, serverVars, tracked, linked, history>>

\* r notices the broken connection: reads in flight fail, the cache is dropped
\* with the connection, and the client connects again.
Reconnect(r) ==
  /\ ~linked[r]
  /\ linked' = [linked EXCEPT ![r] = TRUE]
  /\ conn' = [conn EXCEPT ![r] = <<>>]
  /\ cache' = [cache EXCEPT ![r] = [a \in AKID |-> Absent]]
  /\ UNCHANGED <<now, serverVars, tracked, said, history>>

Tick ==
  /\ now < MaxTime
  /\ now' = now + 1
  /\ UNCHANGED <<serverVars, linkVars, cache, said, history>>

Next ==
  \/ \E r \in Replica, a \in AKID :
       \/ \E u \in User, e \in Expiry : Put(r, a, [user |-> u, exp |-> e])
       \/ Delete(r, a) \/ GetHit(r, a) \/ GetMiss(r, a) \/ ServerGet(r, a)
  \/ \E a \in AKID : ServerExpire(a)
  \/ \E r \in Replica : Receive(r) \/ LinkDown(r) \/ Reconnect(r)
  \/ ServerRestart
  \/ Tick

\* The client library reads its connection, and notices when it is broken; the
\* server answers what it is asked and expires keys in the background.
Fairness ==
  /\ \A r \in Replica : WF_vars(Receive(r)) /\ WF_vars(Reconnect(r))
  /\ \A r \in Replica, a \in AKID : WF_vars(ServerGet(r, a))
  /\ \A a \in AKID : WF_vars(ServerExpire(a))

Spec == Init /\ [][Next]_vars /\ Fairness

-----------------------------------------------------------------------------
(* Properties. *)

(***************************************************************************)
(* Cache coherence.  When the record of a has left the server and replica  *)
(* r can still answer it, from its cache or from a reply it has yet to     *)
(* read, the invalidation is on its way behind it, unless the connection   *)
(* is broken, in which case the cache goes with it.  Delete relies on      *)
(* this: it reports success without waiting for any replica.               *)
(***************************************************************************)
Coherence ==
  \A r \in Replica, a \in AKID :
    linked[r] /\ kv[a] = NoCreds /\ Holds(r, a)
      => \E i \in DOMAIN conn[r] :
           /\ conn[r][i] = Invalidation(a)
           /\ \A j \in i..Len(conn[r]) :
                ~(conn[r][j].type = "reply" /\ conn[r][j].key = a /\ conn[r][j].val # NoCreds)

(***************************************************************************)
(* Get answers "not found" for a stored credential only when it was        *)
(* deleted or lost with the server, or when it expired more than Retention *)
(* ago: the caller can tell ExpiredToken from InvalidAccessKeyId on every  *)
(* replica, whatever its cache has been through.                           *)
(***************************************************************************)
MissingOnlyWhenGone ==
  \A r \in Replica, a \in AKID :
    said[r][a] = "missing" => a \in withdrawn \/ issued[a].exp + Retention <= now

(***************************************************************************)
(* A replica that has answered "not found" for a credential never answers  *)
(* it again: a late reply or a stale cache entry cannot bring a revoked    *)
(* credential back.                                                        *)
(***************************************************************************)
NoResurrection ==
  [][\A r \in Replica, a \in AKID : said[r][a] = "missing" => said'[r][a] # "found"]_vars

(***************************************************************************)
(* A revocation reaches every replica: from some time on none of them can  *)
(* answer the deleted record, however often the connections break.         *)
(***************************************************************************)
RevocationConverges ==
  \A r \in Replica, a \in AKID : a \in withdrawn ~> [](~Holds(r, a))

(***************************************************************************)
(* The valkey store implements the abstract credential store.              *)
(***************************************************************************)
ImplementsStore == Store!StoreSpec

(***************************************************************************)
(* "Count returns the number of live records" (the Store interface), which *)
(* the gauge's help text calls unexpired temporary credentials.  Count     *)
(* scans the keyspace, where a record stays for Retention after it expired.*)
(***************************************************************************)
Count == Cardinality({a \in AKID : kv[a] # NoCreds /\ ~Due(a)})

CountIsLive ==
  Count = Cardinality({a \in AKID : kv[a] # NoCreds /\ now < kv[a].exp})
=============================================================================
