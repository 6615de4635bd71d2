--------------------------- MODULE CredentialStore ---------------------------
(***************************************************************************)
(* What the credential store of the proxy promises to its callers: the     *)
(* STS handler (Put), the SigV4 lanes (Get) and the revocation endpoint    *)
(* (Get, then Delete).  internal/store declares the interface and ships    *)
(* two implementations, MemoryStore and ValkeyStore in this directory,     *)
(* both shown to implement the specification below.  The proxy itself      *)
(* (module Proxy) is specified on top of this module and not on top of     *)
(* either implementation.                                                  *)
(*                                                                         *)
(* A credential record is what Mint produced.  The secret and the session  *)
(* token are random strings bound to the access key ID, so the record of   *)
(* a stands for them and only the username and the expiry are kept.        *)
(***************************************************************************)
EXTENDS Integers

CONSTANTS
  AKID,       \* access key IDs Mint may draw
  User,       \* usernames
  Replica,    \* proxy replicas sharing the store
  Cached,     \* replicas that may answer a Get from a local cache
  Retention,  \* how long a record outlives its expiry
  MaxTime,    \* bound on the clock
  NoCreds     \* the answer "not found"

Creds == [user: User, exp: Int]

ASSUME StoreAssumption ==
  /\ Cached \subseteq Replica
  /\ Retention \in Nat
  /\ MaxTime \in Nat
  /\ NoCreds \notin Creds

VARIABLES
  now,      \* the clock
  issued,   \* issued[a]: the record ever stored under a
  present,  \* the access key IDs the store holds
  lag,      \* lag[r]: removed access key IDs replica r may still answer
  withdrawn \* access key IDs a caller deleted, or lost with the store's process

storeVars == <<now, issued, present, lag, withdrawn>>

(***************************************************************************)
(* The one type invariant of the store's state.                            *)
(***************************************************************************)
StoreTypeOK ==
  /\ now \in Nat
  /\ issued \in [AKID -> Creds \cup {NoCreds}]
  /\ present \in SUBSET AKID
  /\ lag \in [Replica -> SUBSET AKID]
  /\ withdrawn \in SUBSET AKID

StoreInit ==
  /\ now = 0
  /\ issued = [a \in AKID |-> NoCreds]
  /\ present = {}
  /\ lag = [r \in Replica |-> {}]
  /\ withdrawn = {}

Expired(c, t) == ~(t < c.exp)

\* Get at replica r.  An expired record is still found until it is removed.
Get(r, a) == IF a \in present \cup lag[r] THEN issued[a] ELSE NoCreds

\* Put.  Mint draws 80 random bits for the access key ID: never one drawn before.
Put(a, c) ==
  /\ issued[a] = NoCreds
  /\ issued' = [issued EXCEPT ![a] = c]
  /\ present' = present \cup {a}
  /\ UNCHANGED <<now, lag, withdrawn>>

\* A form of Remove that caches a record which was removed before.
RemoveCachesAgain(S) ==
  /\ present' = present \ S
  /\ \E held \in [Cached -> SUBSET S] :
       lag' = [r \in Replica |-> IF r \in Cached THEN lag[r] \cup held[r] ELSE lag[r]]
  /\ UNCHANGED <<now, issued>>

\* The records S leave the store.  A replica with a cache may have some of them
\* there, and answers those until it catches up.
Remove(S) ==
  /\ present' = present \ S
  /\ \E held \in [Cached -> SUBSET (S \cap present)] :
       lag' = [r \in Replica |-> IF r \in Cached THEN lag[r] \cup held[r] ELSE lag[r]]
  /\ UNCHANGED <<now, issued>>

Delete(a) ==
  /\ Remove({a})
  /\ withdrawn' = IF issued[a] = NoCreds THEN withdrawn ELSE withdrawn \cup {a}

\* The sweeper of the memory store, or valkey's own expiry.
Forget(S) ==
  /\ \A a \in S : a \in present /\ issued[a].exp + Retention <= now
  /\ Remove(S)
  /\ UNCHANGED withdrawn

\* The process that held the records is gone, and the records with it.
Lose ==
  /\ Remove(present)
  /\ withdrawn' = withdrawn \cup present

\* The cache of r drops the entries S.
CatchUp(r, S) ==
  /\ lag' = [lag EXCEPT ![r] = @ \ S]
  /\ UNCHANGED <<now, issued, present, withdrawn>>

Tick ==
  /\ now < MaxTime
  /\ now' = now + 1
  /\ UNCHANGED <<issued, present, lag, withdrawn>>

StoreNext ==
  \/ \E a \in AKID : issued'[a] \in Creds /\ Put(a, issued'[a])
  \/ \E a \in AKID : Delete(a)
  \/ \E S \in SUBSET AKID : Forget(S)
  \/ \E r \in Replica, S \in SUBSET AKID : CatchUp(r, S)
  \/ Lose
  \/ Tick

StoreSpec == StoreInit /\ [][StoreNext]_storeVars
=============================================================================
