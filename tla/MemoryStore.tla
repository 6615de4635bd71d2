----------------------------- MODULE MemoryStore -----------------------------
(***************************************************************************)
(* internal/store/memory.go: the in-process credential store of a          *)
(* single-replica proxy and its sweeper goroutine.                         *)
(*                                                                         *)
(* Put, Get, Delete and Count run under the RWMutex and are atomic.  The   *)
(* sweeper is not: sweep reads the clock to compute its cutoff before it   *)
(* takes the lock, so any number of operations, and any amount of time,    *)
(* may come between the two.                                               *)
(***************************************************************************)
EXTENDS Integers, FiniteSets

CONSTANTS
  AKID, User, Retention, MaxTime, NoCreds,
  Expiry      \* the expiries callers of Put use

VARIABLES
  now,        \* the clock
  creds,      \* the map guarded by mu
  sweeper,    \* where the sweeper goroutine stands
  cutoff,     \* local variable of sweep
  stop,       \* the stop channel is closed
  issued,     \* history: the record ever stored under a
  withdrawn   \* history: access key IDs deleted, or lost with the process

vars == <<now, creds, sweeper, cutoff, stop, issued, withdrawn>>

\* The memory store has one replica and no cache in front of the map.
Store == INSTANCE CredentialStore WITH
           Replica <- {"proxy"},
           Cached  <- {},
           present <- {a \in AKID : creds[a] # NoCreds},
           lag     <- [r \in {"proxy"} |-> {}]

Creds == [user: User, exp: Int]

ASSUME MemoryStoreAssumption ==
  /\ Retention \in Nat
  /\ MaxTime \in Nat
  /\ Expiry \subseteq Int
  /\ NoCreds \notin Creds

\* Every variable keeps its type.
TypeOK ==
  /\ now \in Nat
  /\ creds \in [AKID -> Creds \cup {NoCreds}]
  /\ sweeper \in {"select", "sweep", "returned"}
  /\ cutoff \in Int
  /\ stop \in BOOLEAN
  /\ issued \in [AKID -> Creds \cup {NoCreds}]
  /\ withdrawn \in SUBSET AKID

\* NewMemory: an empty map and a running sweeper.
Init ==
  /\ now = 0
  /\ creds = [a \in AKID |-> NoCreds]
  /\ sweeper = "select"
  /\ cutoff = 0
  /\ stop = FALSE
  /\ issued = [a \in AKID |-> NoCreds]
  /\ withdrawn = {}

-----------------------------------------------------------------------------
(* Mutated forms, used to show that the properties can fail. *)

SweepAtExpiry(c) == c.exp < cutoff + Retention
SweepNothing(c) == FALSE
CountEverything == Cardinality({a \in AKID : creds[a] # NoCreds})

-----------------------------------------------------------------------------
\* Mint draws the access key ID from a CSPRNG.
Fresh(a) == issued[a] = NoCreds

Put(a, c) ==
  /\ Fresh(a)
  /\ creds' = [creds EXCEPT ![a] = c]
  /\ issued' = [issued EXCEPT ![a] = c]
  /\ UNCHANGED <<now, sweeper, cutoff, stop, withdrawn>>

Get(a) == creds[a]

Delete(a) ==
  /\ creds' = [creds EXCEPT ![a] = NoCreds]
  /\ withdrawn' = IF issued[a] = NoCreds THEN withdrawn ELSE withdrawn \cup {a}
  /\ UNCHANGED <<now, sweeper, cutoff, stop, issued>>

Expired(c, t) == ~(t < c.exp)

Count == Cardinality({a \in AKID : creds[a] # NoCreds /\ ~Expired(creds[a], now)})

\* The ticker fires.  When stop is closed as well, select may pick either.
Cutoff == now - Retention

SweepBegin ==
  /\ sweeper = "select"
  /\ sweeper' = "sweep"
  /\ cutoff' = Cutoff
  /\ UNCHANGED <<now, creds, stop, issued, withdrawn>>

Sweepable(c) == c.exp < cutoff

SweepLocked ==
  /\ sweeper = "sweep"
  /\ sweeper' = "select"
  /\ creds' = [a \in AKID |->
                 IF creds[a] # NoCreds /\ Sweepable(creds[a]) THEN NoCreds ELSE creds[a]]
  /\ UNCHANGED <<now, cutoff, stop, issued, withdrawn>>

SweeperReturns ==
  /\ sweeper = "select"
  /\ stop
  /\ sweeper' = "returned"
  /\ UNCHANGED <<now, creds, cutoff, stop, issued, withdrawn>>

Close ==
  /\ ~stop
  /\ stop' = TRUE
  /\ UNCHANGED <<now, creds, sweeper, cutoff, issued, withdrawn>>

\* The proxy process exits and a new one starts.
Restart ==
  /\ creds' = [a \in AKID |-> NoCreds]
  /\ sweeper' = "select"
  /\ cutoff' = 0
  /\ stop' = FALSE
  /\ withdrawn' = withdrawn \cup {a \in AKID : creds[a] # NoCreds}
  /\ UNCHANGED <<now, issued>>

Tick ==
  /\ now < MaxTime
  /\ now' = now + 1
  /\ UNCHANGED <<creds, sweeper, cutoff, stop, issued, withdrawn>>

Next ==
  \/ \E a \in AKID, u \in User, e \in Expiry : Put(a, [user |-> u, exp |-> e])
  \/ \E a \in AKID : Delete(a)
  \/ SweepBegin \/ SweepLocked \/ SweeperReturns
  \/ Close \/ Restart
  \/ Tick

\* The runtime schedules the sweeper goroutine, and its ticker keeps firing.
Fairness == WF_vars(SweepBegin) /\ WF_vars(SweepLocked) /\ WF_vars(SweeperReturns)

Spec == Init /\ [][Next]_vars /\ Fairness

-----------------------------------------------------------------------------
(* Properties. *)

(***************************************************************************)
(* A record is found, unchanged, from Put until Retention after its        *)
(* expiry, unless someone deleted it or the process went away: the sweep,  *)
(* whose cutoff is computed before the lock is taken, never removes it     *)
(* sooner.  This is what lets the lanes answer ExpiredToken rather than    *)
(* InvalidAccessKeyId.                                                     *)
(***************************************************************************)
RetentionKept ==
  \A a \in AKID :
    issued[a] # NoCreds /\ a \notin withdrawn /\ now <= issued[a].exp + Retention
      => Get(a) = issued[a]

(***************************************************************************)
(* The active-credentials gauge counts the credentials a client can still  *)
(* use: every record stored, not withdrawn and not expired, and no other.  *)
(***************************************************************************)
CountIsLive ==
  Count = Cardinality({a \in AKID : /\ issued[a] # NoCreds
                                    /\ a \notin withdrawn
                                    /\ ~Expired(issued[a], now)})

(***************************************************************************)
(* The sweeper keeps the map from growing for ever: a record past its      *)
(* retention window is removed, unless the store is closed.                *)
(***************************************************************************)
EventuallySwept ==
  \A a \in AKID :
    (creds[a] # NoCreds /\ creds[a].exp + Retention < now)
      ~> (creds[a] = NoCreds \/ stop)

(***************************************************************************)
(* The memory store implements the abstract credential store.              *)
(***************************************************************************)
ImplementsStore == Store!StoreSpec
=============================================================================
