----------------------------- MODULE JwksProofs ------------------------------
(***************************************************************************)
(* Proofs about the lookup of keys, for any number of concurrent           *)
(* validations, key IDs and keys, and any cooldown.                        *)
(***************************************************************************)
EXTENDS Jwks, TLAPS

(***************************************************************************)
(* The inductive invariant, process by process.  Between its decision to   *)
(* refresh and the stamp a process holds the mutex, and the cooldown is    *)
(* over.  A validation is forced only once it fetches.  If its key has     *)
(* been published all along, then it is published, and it is in the answer *)
(* the process has got.                                                    *)
(***************************************************************************)
PInv(p) ==
  /\ pc[p] \in {"stamp", "discover"} => mu = p
  /\ pc[p] = "stamp" => age > Cooldown
  /\ forced[p] => pc[p] \in {"fetch", "store", "done"}
  /\ steady[p] => served[kid[p]] = gen[p]
  /\ steady[p] /\ pc[p] = "store" /\ reply[p] # NoSet => reply[p][kid[p]] = gen[p]
  /\ pc[p] = "done" /\ result[p] \in {"unknown", "mismatch"} /\ forced[p] => ~steady[p]

IInv == TypeOK /\ \A p \in Proc : PInv(p)

\* The initial states satisfy the invariant.
LEMMA InitIInv == Init => IInv
  <1> SUFFICES ASSUME Init PROVE IInv
    OBVIOUS
  <1>1. TypeOK
    <2>1. age \in 0..Cooldown + 1
      BY JwksAssumption DEF Init
    <2>2. pc \in [Proc -> Label] /\ forced \in [Proc -> BOOLEAN] /\ steady \in [Proc -> BOOLEAN]
      BY DEF Init, Label
    <2>3. reply \in [Proc -> KeySet \cup {NoSet}]
      BY DEF Init
    <2>4. result \in [Proc -> {"none", "key", "mismatch", "unknown", "unavailable"}]
      BY DEF Init
    <2> QED
      BY <2>1, <2>2, <2>3, <2>4, Zenon DEF Init, TypeOK
  <1>2. ASSUME NEW p \in Proc PROVE PInv(p)
    BY DEF Init, PInv
  <1> QED
    BY <1>1, <1>2 DEF IInv

\* Every step keeps the types.
LEMMA NextTypeOK == TypeOK /\ [Next]_vars => TypeOK'
  <1> SUFFICES ASSUME TypeOK, [Next]_vars PROVE TypeOK'
    OBVIOUS
  <1> USE DEF TypeOK, Label, Goto, Return, At, issuer, validation
  <1>1. ASSUME NEW p \in Proc, NEW k \in Kid, NEW g \in Gen, Begin(p, k, g) PROVE TypeOK'
    BY <1>1 DEF Begin
  <1>2. ASSUME NEW p \in Proc, Resolve(p) PROVE TypeOK'
    BY <1>2, Zenon DEF Resolve
  <1>3. ASSUME NEW p \in Proc, Discovered(p) PROVE TypeOK'
    BY <1>3, Zenon DEF Discovered
  <1>4. ASSUME NEW p \in Proc, CacheGet(p) PROVE TypeOK'
    BY <1>4 DEF CacheGet, Found
  <1>5. ASSUME NEW p \in Proc, CheckCooldown(p) PROVE TypeOK'
    BY <1>5 DEF CheckCooldown
  <1>6. ASSUME NEW p \in Proc, Stamp(p) PROVE TypeOK'
    BY <1>6, JwksAssumption DEF Stamp
  <1>7. ASSUME NEW p \in Proc, Refresh(p) PROVE TypeOK'
    BY <1>7 DEF Refresh
  <1>8. ASSUME NEW p \in Proc, Reuse(p) PROVE TypeOK'
    BY <1>8 DEF Reuse, Found
  <1>9. ASSUME NEW p \in Proc, IssuerAnswers(p) PROVE TypeOK'
    BY <1>9 DEF IssuerAnswers
  <1>10. ASSUME NEW p \in Proc, Store(p) PROVE TypeOK'
    BY <1>10 DEF Store, Found
  <1>11. CASE BackgroundRefresh
    BY <1>11 DEF BackgroundRefresh
  <1>12. CASE Rotate
    BY <1>12 DEF Rotate
  <1>13. CASE Tick
    BY <1>13, JwksAssumption DEF Tick
  <1>14. CASE UNCHANGED vars
    BY <1>14, Zenon DEF vars
  <1> QED
    BY <1>1, <1>2, <1>3, <1>4, <1>5, <1>6, <1>7, <1>8, <1>9, <1>10, <1>11, <1>12, <1>13, <1>14
    DEF Next, Waits, Runs

\* Every step keeps the invariant of each process.
LEMMA NextPInv ==
  ASSUME IInv, [Next]_vars, NEW q \in Proc PROVE PInv(q)'
  <1> USE DEF IInv, TypeOK, PInv, Label, Goto, Return, At, issuer, validation
  <1>1. ASSUME NEW p \in Proc, NEW k \in Kid, NEW g \in Gen, Begin(p, k, g) PROVE PInv(q)'
    BY <1>1, Zenon DEF Begin
  <1>2. ASSUME NEW p \in Proc, Resolve(p) PROVE PInv(q)'
    BY <1>2, JwksAssumption DEF Resolve
  <1>3. ASSUME NEW p \in Proc, Discovered(p) PROVE PInv(q)'
    BY <1>3 DEF Discovered
  <1>4. ASSUME NEW p \in Proc, CacheGet(p) PROVE PInv(q)'
    BY <1>4 DEF CacheGet, Found
  <1>5. ASSUME NEW p \in Proc, CheckCooldown(p) PROVE PInv(q)'
    BY <1>5, JwksAssumption DEF CheckCooldown
  <1>6. ASSUME NEW p \in Proc, Stamp(p) PROVE PInv(q)'
    BY <1>6 DEF Stamp
  <1>7. ASSUME NEW p \in Proc, Refresh(p) PROVE PInv(q)'
    BY <1>7 DEF Refresh
  <1>8. ASSUME NEW p \in Proc, Reuse(p) PROVE PInv(q)'
    BY <1>8 DEF Reuse, Found
  <1>9. ASSUME NEW p \in Proc, IssuerAnswers(p) PROVE PInv(q)'
    BY <1>9 DEF IssuerAnswers
  <1>10. ASSUME NEW p \in Proc, Store(p) PROVE PInv(q)'
    <2>1. CASE q # p
      BY <1>10, <2>1 DEF Store, Found
    <2>2. CASE q = p /\ reply[p] = NoSet
      BY <1>10, <2>2 DEF Store
    <2>3. CASE q = p /\ reply[p] # NoSet /\ forced[p]
      BY <1>10, <2>3, JwksAssumption DEF Store, Found
    <2>4. CASE q = p /\ reply[p] # NoSet /\ ~forced[p]
      BY <1>10, <2>4 DEF Store, Found
    <2> QED
      BY <2>1, <2>2, <2>3, <2>4
  <1>11. CASE BackgroundRefresh
    BY <1>11 DEF BackgroundRefresh
  <1>12. CASE Rotate
    BY <1>12, Zenon DEF Rotate
  <1>13. CASE Tick
    BY <1>13, JwksAssumption DEF Tick
  <1>14. CASE UNCHANGED vars
    BY <1>14 DEF vars
  <1> QED
    BY <1>1, <1>2, <1>3, <1>4, <1>5, <1>6, <1>7, <1>8, <1>9, <1>10, <1>11, <1>12, <1>13, <1>14, Zenon
    DEF Next, Waits, Runs

\* The invariant holds of every run.
THEOREM Invariance == Spec => []IInv
  <1>1. IInv /\ [Next]_vars => IInv'
    BY NextTypeOK, NextPInv DEF IInv
  <1> QED
    BY <1>1, InitIInv, PTL DEF Spec

\* The types of the model hold of every run.
THEOREM TypesKept == Spec => []TypeOK
  <1>1. IInv => TypeOK
    BY DEF IInv
  <1> QED
    BY <1>1, Invariance, PTL

(***************************************************************************)
(* lookupKey never stamps two forced refreshes within one cooldown, for    *)
(* any number of validations and any cooldown.                             *)
(***************************************************************************)
THEOREM RefreshesAlwaysApart == Spec => RefreshesApart
  <1>1. IInv => [\A p \in Proc : At(p, "stamp") /\ pc'[p] = "refresh" => age > Cooldown]_vars
    BY DEF IInv, PInv, At
  <1> QED
    BY <1>1, Invariance, PTL DEF RefreshesApart

(***************************************************************************)
(* A validation that forced a refresh never refuses a token whose key was  *)
(* published all along, for any number of validations, key IDs and keys.   *)
(***************************************************************************)
THEOREM RotationAlwaysSeen == Spec => []RotationSeen
  <1>1. IInv => RotationSeen
    BY DEF IInv, PInv, RotationSeen, At
  <1> QED
    BY <1>1, Invariance, PTL

=============================================================================
