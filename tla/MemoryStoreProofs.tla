-------------------------- MODULE MemoryStoreProofs ---------------------------
(***************************************************************************)
(* Proofs about the memory store, for every set of access key IDs and      *)
(* users and every retention: records are kept for their retention window, *)
(* the live ones are counted, and the store implements CredentialStore.    *)
(*                                                                         *)
(* The sweep computes its cutoff before it takes the lock.  What makes     *)
(* that harmless is the second conjunct of IInv: a cutoff in use is never  *)
(* ahead of the clock, because the clock only advances.                    *)
(***************************************************************************)
EXTENDS MemoryStore, TLAPS

IInv ==
  /\ TypeOK
  /\ sweeper = "sweep" => cutoff + Retention <= now
  /\ \A a \in AKID : creds[a] # NoCreds => creds[a] = issued[a]
  /\ \A a \in AKID : issued[a] # NoCreds /\ creds[a] = NoCreds =>
       a \in withdrawn \/ issued[a].exp + Retention < now
  /\ \A a \in withdrawn : issued[a] # NoCreds /\ creds[a] = NoCreds

(***************************************************************************)
(* Put, Delete, both steps of the sweep, Close, a restart and the clock    *)
(* preserve the invariant.                                                 *)
(***************************************************************************)
LEMMA Inductive == IInv /\ [Next]_vars => IInv'
<1> SUFFICES ASSUME IInv, [Next]_vars PROVE IInv'
  OBVIOUS
<1> USE MemoryStoreAssumption DEF IInv, TypeOK
<1>1. ASSUME NEW a \in AKID, NEW u \in User, NEW e \in Expiry, Put(a, [user |-> u, exp |-> e])
      PROVE  IInv'
  <2>1. PICK c \in Creds : c = [user |-> u, exp |-> e]
    BY DEF Creds
  <2> QED
    BY <1>1, <2>1 DEF Put, Fresh
<1>2. ASSUME NEW a \in AKID, Delete(a) PROVE IInv'
  BY <1>2 DEF Delete
<1>3. CASE SweepBegin
  BY <1>3 DEF SweepBegin, Cutoff
<1>4. CASE SweepLocked
  <2>1. \A a \in AKID : creds'[a] = creds[a] \/
          (creds'[a] = NoCreds /\ creds[a] # NoCreds /\ creds[a].exp < cutoff)
    BY <1>4 DEF SweepLocked, Sweepable
  <2>2. \A a \in AKID : creds[a] # NoCreds => creds[a].exp \in Int
    BY DEF Creds
  <2>3. creds' \in [AKID -> Creds \cup {NoCreds}]
    BY <1>4 DEF SweepLocked
  <2> QED
    BY <1>4, <2>1, <2>2, <2>3 DEF SweepLocked
<1>5. CASE SweeperReturns \/ Close
  BY <1>5 DEF SweeperReturns, Close
<1>6. CASE Restart
  <2>1. creds' = [a \in AKID |-> NoCreds] /\ UNCHANGED <<now, issued>>
    BY <1>6 DEF Restart
  <2>2. creds' \in [AKID -> Creds \cup {NoCreds}] /\ \A a \in AKID : creds'[a] = NoCreds
    BY <2>1
  <2>3. stop' \in BOOLEAN /\ sweeper' = "select" /\ cutoff' = 0
    BY <1>6 DEF Restart
  <2>4. withdrawn' = withdrawn \cup {a \in AKID : creds[a] # NoCreds}
    BY <1>6 DEF Restart
  <2>5. withdrawn' \in SUBSET AKID
    BY <2>4
  <2>6. \A a \in AKID : issued[a] # NoCreds => a \in withdrawn' \/ issued[a].exp + Retention < now
    BY <2>4
  <2>7. \A a \in withdrawn' : issued[a] # NoCreds
    BY <2>4
  <2> QED
    BY <2>1, <2>2, <2>3, <2>5, <2>6, <2>7
<1>7. CASE Tick
  <2>1. \A a \in AKID : issued[a] # NoCreds => issued[a].exp \in Int
    BY DEF Creds
  <2> QED
    BY <1>7, <2>1 DEF Tick
<1>8. CASE UNCHANGED vars
  BY <1>8 DEF vars
<1> QED
  BY <1>1, <1>2, <1>3, <1>4, <1>5, <1>6, <1>7, <1>8 DEF Next

(***************************************************************************)
(* The inductive invariant holds in every state of the store.              *)
(***************************************************************************)
THEOREM Invariance == Spec => []IInv
<1>1. Init => IInv
  <2> SUFFICES ASSUME Init PROVE IInv
    OBVIOUS
  <2>1. stop \in BOOLEAN /\ creds \in [AKID -> Creds \cup {NoCreds}]
    BY DEF Init
  <2>2. issued \in [AKID -> Creds \cup {NoCreds}] /\ \A a \in AKID : issued[a] = NoCreds
    BY DEF Init
  <2> QED
    BY <2>1, <2>2 DEF Init, IInv, TypeOK
<1> QED
  BY <1>1, Inductive, PTL DEF Spec

(***************************************************************************)
(* Every variable of the store keeps its type.                             *)
(***************************************************************************)
THEOREM TypeCorrect == Spec => []TypeOK
<1>1. IInv => TypeOK
  BY DEF IInv
<1> QED
  BY <1>1, Invariance, PTL

(***************************************************************************)
(* No record is swept before the end of its retention window, although     *)
(* sweep works with a cutoff read before it had the lock.                  *)
(***************************************************************************)
THEOREM RetentionHolds == Spec => []RetentionKept
<1>1. IInv => RetentionKept
  <2> SUFFICES ASSUME IInv, NEW a \in AKID, issued[a] # NoCreds, a \notin withdrawn,
                      now <= issued[a].exp + Retention
               PROVE  creds[a] = issued[a]
    BY DEF RetentionKept, Get
  <2>1. issued[a].exp \in Int
    BY DEF IInv, TypeOK, Creds
  <2> QED
    BY <2>1, MemoryStoreAssumption DEF IInv, TypeOK
<1> QED
  BY <1>1, Invariance, PTL

(***************************************************************************)
(* Count, which the gauge of active credentials shows, counts exactly the  *)
(* records that are stored, not withdrawn and not expired: what the sweep  *)
(* has removed was expired for longer than the retention.                  *)
(***************************************************************************)
THEOREM CountAlwaysLive == Spec => []CountIsLive
<1>1. IInv => CountIsLive
  <2> SUFFICES ASSUME IInv,
                      NEW a \in AKID
               PROVE  creds[a] # NoCreds /\ ~Expired(creds[a], now)
                        <=> issued[a] # NoCreds /\ a \notin withdrawn /\ ~Expired(issued[a], now)
    BY DEF CountIsLive, Count
  <2>1. issued[a] # NoCreds => issued[a].exp \in Int
    BY DEF IInv, TypeOK, Creds
  <2> QED
    BY <2>1, MemoryStoreAssumption DEF IInv, TypeOK, Expired
<1> QED
  BY <1>1, Invariance, PTL

-----------------------------------------------------------------------------
\* The access key IDs in the map: what the refinement maps present to.
Present == {a \in AKID : creds[a] # NoCreds}

(***************************************************************************)
(* Removing records from the map is the Remove of the abstract store: no   *)
(* replica has a cache that could still hold one.                          *)
(***************************************************************************)
LEMMA RemoveMaps ==
  ASSUME NEW S \in SUBSET AKID, Present' = Present \ S, UNCHANGED <<now, issued>>
  PROVE  Store!Remove(S)
<1>1. PICK held : held = [r \in {} |-> {}]
  OBVIOUS
<1>2. held \in [{} -> SUBSET (S \cap Present)]
  BY <1>1
<1>3. [r \in {"proxy"} |-> {}] =
        [r \in {"proxy"} |-> IF r \in {} THEN [q \in {"proxy"} |-> {}][r] \cup held[r]
                             ELSE [q \in {"proxy"} |-> {}][r]]
  OBVIOUS
<1> QED
  BY <1>2, <1>3 DEF Store!Remove, Present

(***************************************************************************)
(* The memory store implements the credential store the proxy is           *)
(* specified on.                                                           *)
(***************************************************************************)
THEOREM Implements == Spec => ImplementsStore
<1>1. Init => Store!StoreInit
  BY DEF Init, Store!StoreInit
<1>2. IInv /\ [Next]_vars => [Store!StoreNext]_(Store!storeVars)
  <2> SUFFICES ASSUME IInv, [Next]_vars
               PROVE  Store!StoreNext \/ UNCHANGED Store!storeVars
    OBVIOUS
  <2> USE MemoryStoreAssumption DEF IInv, TypeOK
  <2>1. ASSUME NEW a \in AKID, NEW u \in User, NEW e \in Expiry, Put(a, [user |-> u, exp |-> e])
        PROVE  Store!StoreNext
    <3>1. PICK c \in Creds : c = [user |-> u, exp |-> e]
      BY DEF Creds
    <3>2. issued[a] = NoCreds /\ issued' = [issued EXCEPT ![a] = c] /\ UNCHANGED <<now, withdrawn>>
      BY <2>1, <3>1 DEF Put, Fresh
    <3>3. creds' = [creds EXCEPT ![a] = c]
      BY <2>1, <3>1 DEF Put
    <3>4. Present' = Present \cup {a}
      BY <3>3 DEF Present
    <3>5. issued'[a] = c /\ c \in Store!Creds
      BY <3>1, <3>2 DEF Creds, Store!Creds
    <3>6. Store!Put(a, issued'[a])
      BY <3>2, <3>4, <3>5 DEF Store!Put, Present
    <3> QED
      BY <3>5, <3>6 DEF Store!StoreNext
  <2>2. ASSUME NEW a \in AKID, Delete(a) PROVE Store!StoreNext
    <3>1. Present' = Present \ {a} /\ UNCHANGED <<now, issued>>
      BY <2>2 DEF Delete, Present
    <3>2. Store!Delete(a)
      BY <2>2, <3>1, RemoveMaps DEF Delete, Store!Delete
    <3> QED
      BY <3>2 DEF Store!StoreNext
  <2>3. CASE SweepLocked
    <3>1. PICK S \in SUBSET AKID : S = {a \in AKID : creds[a] # NoCreds /\ creds[a].exp < cutoff}
      OBVIOUS
    <3>2. Present' = Present \ S /\ UNCHANGED <<now, issued>>
      BY <2>3, <3>1 DEF SweepLocked, Sweepable, Present
    <3>3. Store!Remove(S)
      BY <3>2, RemoveMaps
    <3>4. \A a \in S : creds[a] # NoCreds /\ issued[a].exp + Retention <= now
      BY <2>3, <3>1 DEF SweepLocked, Creds
    <3>5. Store!Forget(S)
      BY <2>3, <3>3, <3>4 DEF SweepLocked, Store!Forget
    <3> QED
      BY <3>5 DEF Store!StoreNext
  <2>4. CASE Restart
    <3>1. PICK S \in SUBSET AKID : S = Present
      BY DEF Present
    <3>2. Present' = Present \ S /\ UNCHANGED <<now, issued>>
      BY <2>4, <3>1 DEF Restart, Present
    <3>3. Store!Remove(S)
      BY <3>2, RemoveMaps
    <3>4. Store!Lose
      BY <2>4, <3>1, <3>3 DEF Restart, Store!Lose, Store!Remove, Present
    <3> QED
      BY <3>4 DEF Store!StoreNext
  <2>5. CASE Tick
    <3>1. Store!Tick
      BY <2>5 DEF Tick, Store!Tick
    <3> QED
      BY <3>1 DEF Store!StoreNext
  <2>6. CASE SweepBegin \/ SweeperReturns \/ Close \/ UNCHANGED vars
    BY <2>6 DEF SweepBegin, SweeperReturns, Close, vars, Store!storeVars
  <2> QED
    BY <2>1, <2>2, <2>3, <2>4, <2>5, <2>6 DEF Next
<1> QED
  BY <1>1, <1>2, Invariance, PTL DEF Spec, ImplementsStore, Store!StoreSpec
=============================================================================
