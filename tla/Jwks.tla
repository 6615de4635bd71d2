-------------------------------- MODULE Jwks ---------------------------------
(***************************************************************************)
(* internal/oidc: how concurrent validations find the key that signed      *)
(* their token.  One issuer; each process validates tokens one after the   *)
(* other (lookupKey, resolveJWKS, discoverJWKS).  The key set is cached;   *)
(* an unknown kid forces a refresh, at most one per cooldown.              *)
(*                                                                         *)
(* The mutex of the issuer is held across the discovery request, and       *)
(* released between the decision to refresh and the refresh itself.  The   *)
(* cache (lestrrat-go/jwx over httprc) lets one caller at a time fetch or  *)
(* read an entry; it and the identity provider are external.               *)
(***************************************************************************)
EXTENDS Integers

CONSTANTS
  Proc,        \* goroutines that validate tokens
  Kid,         \* key IDs
  Gen,         \* the keys an issuer may publish under one key ID
  Discovery,   \* the issuer has no jwks_uri: its URL is discovered
  Cooldown,    \* refreshCooldown
  Nobody,      \* no process
  Absent,      \* the key ID is not published
  NoSet        \* no key set has been fetched

ASSUME JwksAssumption ==
  /\ Discovery \in BOOLEAN
  /\ Cooldown \in Nat
  /\ Nobody \notin Proc
  /\ Absent \notin Gen
  /\ NoSet \notin [Kid -> Gen \cup {Absent}]

KeySet == [Kid -> Gen \cup {Absent}]

VARIABLES
  resolved,     \* iss.jwksURL is set, and registered with the cache
  mu,           \* holder of iss.mu
  age,          \* time since iss.lastRefresh, up to the first that is over the cooldown
  cached,       \* the cached key set
  sem,          \* who fetches the key set
  pc, kid,      \* where a validation stands, and the kid of its token
  gen,          \* the key its token is signed with
  forced,       \* forced[p]: p fetches because the kid was unknown
  reply,        \* reply[p]: what the issuer answered to p
  result,       \* result[p]: how the lookup of p ended
  served,       \* the keys the issuer publishes
  steady        \* steady[p]: history, the key of p was published ever since p began

validation == <<pc, kid, gen, forced, reply, result>>
issuer == <<resolved, mu, age>>
vars == <<issuer, cached, sem, validation, served, steady>>

Label == {"idle", "resolve", "discover", "get", "cooldown", "stamp", "refresh",
          "reuse", "fetch", "store", "done"}

\* Every variable keeps its type.
TypeOK ==
  /\ resolved \in BOOLEAN
  /\ mu \in Proc \cup {Nobody}
  /\ age \in 0..Cooldown + 1
  /\ cached \in KeySet \cup {NoSet}
  /\ sem \in Proc \cup {Nobody}
  /\ pc \in [Proc -> Label]
  /\ kid \in [Proc -> Kid]
  /\ gen \in [Proc -> Gen]
  /\ forced \in [Proc -> BOOLEAN]
  /\ reply \in [Proc -> KeySet \cup {NoSet}]
  /\ result \in [Proc -> {"none", "key", "mismatch", "unknown", "unavailable"}]
  /\ served \in KeySet
  /\ steady \in [Proc -> BOOLEAN]

\* The zero time is longer ago than any cooldown.
Init ==
  /\ resolved = FALSE /\ mu = Nobody /\ age = Cooldown + 1
  /\ cached = NoSet /\ sem = Nobody
  /\ pc = [p \in Proc |-> "idle"]
  /\ kid \in [Proc -> Kid]
  /\ gen \in [Proc -> Gen]
  /\ forced = [p \in Proc |-> FALSE]
  /\ reply = [p \in Proc |-> NoSet]
  /\ result = [p \in Proc |-> "none"]
  /\ served \in KeySet
  /\ steady = [p \in Proc |-> FALSE]

At(p, l) == pc[p] = l
Goto(p, l) == pc' = [pc EXCEPT ![p] = l] /\ UNCHANGED result
Return(p, r) == pc' = [pc EXCEPT ![p] = "done"] /\ result' = [result EXCEPT ![p] = r]

\* A token of the issuer, signed with key g under the ID k, is to be validated.
Begin(p, k, g) ==
  /\ pc[p] \in {"idle", "done"}
  /\ pc' = [pc EXCEPT ![p] = "resolve"]
  /\ kid' = [kid EXCEPT ![p] = k]
  /\ gen' = [gen EXCEPT ![p] = g]
  /\ forced' = [forced EXCEPT ![p] = FALSE]
  /\ reply' = [reply EXCEPT ![p] = NoSet]
  /\ result' = [result EXCEPT ![p] = "none"]
  /\ steady' = [steady EXCEPT ![p] = served[k] = g]
  /\ UNCHANGED <<issuer, cached, sem, served>>

-----------------------------------------------------------------------------
(* resolveJWKS. *)

Resolve(p) ==
  /\ At(p, "resolve")
  /\ mu = Nobody
  /\ \/ /\ resolved \/ ~Discovery
        /\ resolved' = TRUE
        /\ Goto(p, "get")
        /\ UNCHANGED mu
     \/ /\ ~resolved /\ Discovery
        /\ mu' = p
        /\ Goto(p, "discover")
        /\ UNCHANGED resolved
  /\ UNCHANGED <<age, cached, sem, kid, gen, forced, reply, served, steady>>

\* A form of Discovered in which the error path forgets the mutex.
DiscoveredKeepsLock(p) ==
  /\ At(p, "discover")
  /\ \/ resolved' = TRUE /\ mu' = Nobody /\ Goto(p, "get")
     \/ UNCHANGED <<resolved, mu>> /\ Return(p, "unavailable")
  /\ UNCHANGED <<age, cached, sem, kid, gen, forced, reply, served, steady>>

\* The discovery document arrives, or does not.
Discovered(p) ==
  /\ At(p, "discover")
  /\ mu' = Nobody
  /\ \/ resolved' = TRUE /\ Goto(p, "get")
     \/ UNCHANGED resolved /\ Return(p, "unavailable")
  /\ UNCHANGED <<age, cached, sem, kid, gen, forced, reply, served, steady>>

-----------------------------------------------------------------------------
(* lookupKey. *)

\* What becomes of p once it has looked its kid up in set: the key found verifies the
\* token, or is another key of the same ID, or there is none.
Found(p, set, otherwise) ==
  \/ set[kid[p]] = gen[p] /\ Return(p, "key")
  \/ set[kid[p]] \notin {gen[p], Absent} /\ Return(p, "mismatch")
  \/ set[kid[p]] = Absent /\ otherwise

CacheGet(p) ==
  /\ At(p, "get")
  /\ sem = Nobody
  /\ \/ cached # NoSet /\ Found(p, cached, Goto(p, "cooldown")) /\ UNCHANGED sem
     \/ cached = NoSet /\ sem' = p /\ Goto(p, "fetch")
  /\ UNCHANGED <<issuer, cached, kid, gen, forced, reply, served, steady>>

\* A form of CheckCooldown that decides without keeping the mutex.
CheckCooldownUnlocked(p) ==
  /\ At(p, "cooldown")
  /\ mu = Nobody
  /\ \/ age > Cooldown /\ Goto(p, "stamp")
     \/ age <= Cooldown /\ Goto(p, "reuse")
  /\ UNCHANGED <<issuer, cached, sem, kid, gen, forced, reply, served, steady>>

\* A form of CheckCooldown that restarts the cooldown whatever it decides.
CheckCooldownRestarts(p) ==
  /\ At(p, "cooldown")
  /\ mu = Nobody
  /\ \/ age > Cooldown /\ mu' = p /\ Goto(p, "stamp") /\ UNCHANGED age
     \/ age <= Cooldown /\ age' = 0 /\ Goto(p, "reuse") /\ UNCHANGED mu
  /\ UNCHANGED <<resolved, cached, sem, kid, gen, forced, reply, served, steady>>

\* The clock is read once to decide, and once more to set lastRefresh.
CheckCooldown(p) ==
  /\ At(p, "cooldown")
  /\ mu = Nobody
  /\ \/ age > Cooldown /\ mu' = p /\ Goto(p, "stamp")
     \/ age <= Cooldown /\ Goto(p, "reuse") /\ UNCHANGED mu
  /\ UNCHANGED <<resolved, age, cached, sem, kid, gen, forced, reply, served, steady>>

Stamp(p) ==
  /\ At(p, "stamp")
  /\ age' = 0
  /\ mu' = Nobody
  /\ Goto(p, "refresh")
  /\ UNCHANGED <<resolved, cached, sem, kid, gen, forced, reply, served, steady>>

Refresh(p) ==
  /\ At(p, "refresh")
  /\ sem = Nobody
  /\ sem' = p
  /\ forced' = [forced EXCEPT ![p] = TRUE]
  /\ Goto(p, "fetch")
  /\ UNCHANGED <<issuer, cached, kid, gen, reply, served, steady>>

Reuse(p) ==
  /\ At(p, "reuse")
  /\ sem = Nobody
  /\ Found(p, cached, Return(p, "unknown"))
  /\ UNCHANGED <<issuer, cached, sem, kid, gen, forced, reply, served, steady>>

\* The issuer answers the fetch of p with its keys, or p gets no usable answer.
IssuerAnswers(p) ==
  /\ At(p, "fetch")
  /\ reply' = [reply EXCEPT ![p] = served] \/ reply' = [reply EXCEPT ![p] = NoSet]
  /\ Goto(p, "store")
  /\ UNCHANGED <<issuer, cached, sem, kid, gen, forced, served, steady>>

\* Forms of Store that cache a failure, and that look the kid up in the set
\* found before the refresh.
StoreFailure(p) ==
  /\ At(p, "store")
  /\ sem' = Nobody
  /\ cached' = IF reply[p] = NoSet THEN [k \in Kid |-> NoSet] ELSE reply[p]
  /\ Return(p, IF reply[p] = NoSet THEN "unavailable" ELSE "key")
  /\ UNCHANGED <<issuer, kid, gen, forced, reply, served, steady>>

StoreShadowed(p) ==
  /\ At(p, "store")
  /\ sem' = Nobody
  /\ \/ reply[p] = NoSet /\ Return(p, "unavailable") /\ UNCHANGED cached
     \/ /\ reply[p] # NoSet
        /\ cached' = reply[p]
        /\ \/ forced[p] /\ Found(p, cached, Return(p, "unknown"))
           \/ ~forced[p] /\ Found(p, reply[p], Goto(p, "cooldown"))
  /\ UNCHANGED <<issuer, kid, gen, forced, reply, served, steady>>

\* A failed fetch leaves the cached set as it was.
Store(p) ==
  /\ At(p, "store")
  /\ sem' = Nobody
  /\ \/ reply[p] = NoSet /\ Return(p, "unavailable") /\ UNCHANGED cached
     \/ /\ reply[p] # NoSet
        /\ cached' = reply[p]
        /\ \/ forced[p] /\ Found(p, reply[p], Return(p, "unknown"))
           \/ ~forced[p] /\ Found(p, reply[p], Goto(p, "cooldown"))
  /\ UNCHANGED <<issuer, kid, gen, forced, reply, served, steady>>

-----------------------------------------------------------------------------
(* The rest of the world. *)

\* The cache refreshes an entry in the background; failures are discarded.
BackgroundRefresh ==
  /\ cached # NoSet /\ sem = Nobody
  /\ cached' = served
  /\ UNCHANGED <<issuer, sem, validation, served, steady>>

\* The issuer publishes another set of keys.
Rotate ==
  /\ \E S \in KeySet : S # served /\ served' = S
  /\ steady' = [p \in Proc |-> steady[p] /\ served'[kid[p]] = gen[p]]
  /\ UNCHANGED <<issuer, cached, sem, validation>>

Tick ==
  /\ age <= Cooldown
  /\ age' = age + 1
  /\ UNCHANGED <<resolved, mu, cached, sem, validation, served, steady>>

Waits(p) == Resolve(p) \/ CacheGet(p) \/ CheckCooldown(p) \/ Refresh(p) \/ Reuse(p)
Runs(p) == Discovered(p) \/ Stamp(p) \/ IssuerAnswers(p) \/ Store(p)

Next ==
  \/ \E p \in Proc : (\E k \in Kid, g \in Gen : Begin(p, k, g)) \/ Waits(p) \/ Runs(p)
  \/ BackgroundRefresh \/ Rotate \/ Tick

\* Requests to the issuer end, by an answer or by the timeout of the HTTP client.
\* sync.Mutex and a channel hand themselves to every waiter in the end, hence
\* strong fairness for the steps that wait for one.
Fairness == WF_vars(Tick) /\ \A p \in Proc : SF_vars(Waits(p)) /\ WF_vars(Runs(p))

Spec == Init /\ [][Next]_vars /\ Fairness

-----------------------------------------------------------------------------
(* Properties. *)

(***************************************************************************)
(* However many tokens with unknown kids arrive at once, forced refreshes  *)
(* are more than a cooldown apart (refreshCooldown, lookupKey): when one   *)
(* is stamped, the previous one is that long ago.                          *)
(***************************************************************************)
RefreshesApart ==
  [][\A p \in Proc : At(p, "stamp") /\ pc'[p] = "refresh" => age > Cooldown]_vars

(***************************************************************************)
(* Key rotation.  A validation that forced a refresh never refuses a token *)
(* whose key the issuer has published since before the validation began:   *)
(* what it fetches is what it looks the kid up in.                         *)
(***************************************************************************)
RotationSeen ==
  \A p \in Proc : At(p, "done") /\ result[p] \in {"unknown", "mismatch"} /\ forced[p] => ~steady[p]

(***************************************************************************)
(* Every validation ends, whatever the issuer does: neither a failed       *)
(* discovery nor a failed fetch leaves the mutex or the cache entry held.  *)
(***************************************************************************)
EveryLookupEnds == \A p \in Proc : ~At(p, "done") /\ ~At(p, "idle") ~> At(p, "done")

Refused(k, g, r) ==
  \E p \in Proc : kid[p] = k /\ gen[p] = g /\ pc[p] # "done" /\ pc'[p] = "done" /\ result'[p] = r

RequestFails == \E p \in Proc : pc'[p] = "done" /\ pc[p] # "done" /\ result'[p] = "unavailable"

(***************************************************************************)
(* A published key is accepted in the end.  Once the issuer publishes a    *)
(* key for good, and no request to it fails, tokens of that key stop being *)
(* refused as unknown however they arrive: the cooldown cannot put the     *)
(* refresh off for ever, and this needs no background refresh.  Where the  *)
(* key took the ID of an older one, no refresh is forced, and tokens stop  *)
(* being refused as long as the background refresh keeps coming.           *)
(***************************************************************************)
AcceptedInTheEnd ==
  \A k \in Kid, g \in Gen :
    <>[](served[k] = g) /\ <>[][~RequestFails]_vars =>
      /\ <>[][~Refused(k, g, "unknown")]_vars
      /\ WF_vars(BackgroundRefresh) => <>[][~Refused(k, g, "mismatch")]_vars

(***************************************************************************)
(* "Another request refreshed moments ago; reuse its result" (lookupKey):  *)
(* when a validation reads the cached set because of the cooldown, the     *)
(* refresh that started the cooldown has been made.                        *)
(***************************************************************************)
ReusesResult ==
  [][\A p, q \in Proc : At(p, "reuse") /\ pc'[p] = "done" => ~At(q, "refresh")]_vars
=============================================================================
