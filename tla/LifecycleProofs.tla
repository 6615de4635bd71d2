--------------------------- MODULE LifecycleProofs ---------------------------
(***************************************************************************)
(* Proofs about the life of the process, for every configuration and any   *)
(* number of requests in flight.                                           *)
(***************************************************************************)
EXTENDS Lifecycle, FiniteSetTheorems, FunctionTheorems, TLAPS

\* Shutdown has been called on l, and its requests are over or out of time.
Drained(l) == stopping[l] /\ (inflight[l] = 0 \/ deadline = "passed")

Sent(l) == IF listener[l] = "returned" THEN 1 ELSE 0

(***************************************************************************)
(* The inductive invariant: what has been drained stays so, because a      *)
(* listener on which Shutdown was called listens no more; the admin        *)
(* listener's turn comes after the data path is drained; the store is      *)
(* closed last; and a goroutine sends on errCh once.                       *)
(***************************************************************************)
IInv ==
  /\ TypeOK
  /\ pc \in {"load", "notify", "store", "assemble"} => \A l \in Listener : listener[l] = "off"
  /\ pc \in {"load", "notify", "store", "assemble", "select"} => \A l \in Listener : ~stopping[l]
  /\ pc = "drain" => stopping[ShutdownOrder[turn]]
  /\ errCh = Sent("main") + Sent("admin")
  /\ \A l \in Listener : stopping[l] => listener[l] # "listening"
  /\ turn = 2 \/ pc = "close" \/ store = "closed" => Drained("main")
  /\ pc = "close" \/ store = "closed" => Drained("admin")
  /\ stopping["admin"] => Drained("main")
  /\ store = "closed" => pc = "exited"

\* The initial states satisfy the invariant.
LEMMA InitIInv == Init => IInv
  <1> SUFFICES ASSUME Init PROVE IInv
    OBVIOUS
  <1>1. \A l \in Listener : listener[l] = "off" /\ ~stopping[l] /\ inflight[l] = 0
    BY DEF Init
  <1>2. 0 \in 0..MaxRequests /\ 0 \in 0..2 /\ 1 \in 1..2
    BY LifecycleAssumption
  <1>3. TypeOK
    <2>1. listener \in [Listener -> {"off", "starting", "listening", "returned"}]
      BY DEF Init
    <2>2. stopping \in [Listener -> BOOLEAN]
      BY DEF Init
    <2>3. inflight \in [Listener -> 0..MaxRequests]
      BY <1>2, ZenonT(60) DEF Init
    <2> QED
      BY <1>2, <2>1, <2>2, <2>3, Zenon DEF Init, TypeOK
  <1> QED
    BY <1>1, <1>3 DEF Init, IInv, Sent, Drained, Listener

\* Every step of main preserves the invariant.
LEMMA MainIInv == IInv /\ Main => IInv'
  <1> SUFFICES ASSUME IInv, Main PROVE IInv'
    OBVIOUS
  <1> USE DEF IInv, TypeOK, Listener, Goto, Exit
  <1>1. CASE Load
    BY <1>1 DEF Load, Drained, Sent, inputs
  <1>2. CASE Notify
    BY <1>2 DEF Notify, Drained, Sent, inputs
  <1>3. CASE newStore
    BY <1>3 DEF newStore, Drained, Sent, inputs
  <1>4. CASE Assemble
    BY <1>4 DEF Assemble, Drained, Sent, inputs
  <1>5. CASE Select
    BY <1>5, Zenon DEF Select, Drained, Sent, inputs
  <1>6. CASE Shutdown
    <2>1. CASE turn = 1
      BY <1>6, <2>1 DEF Shutdown, ListenerReturns, ShutdownOrder, Drained, Sent, inputs
    <2>2. CASE turn = 2
      BY <1>6, <2>2 DEF Shutdown, ListenerReturns, ShutdownOrder, Drained, Sent, inputs
    <2> QED
      BY <2>1, <2>2
  <1>7. CASE Drain
    <2>1. CASE turn = 1
      BY <1>7, <2>1 DEF Drain, After, ShutdownOrder, Drained, Sent, inputs
    <2>2. CASE turn = 2
      BY <1>7, <2>2 DEF Drain, After, ShutdownOrder, Drained, Sent, inputs
    <2> QED
      BY <2>1, <2>2
  <1>8. CASE Close
    BY <1>8, Zenon DEF Close, Drained, Sent, inputs
  <1> QED
    BY <1>1, <1>2, <1>3, <1>4, <1>5, <1>6, <1>7, <1>8 DEF Main

\* So does every other step of the process and of its environment.
LEMMA OtherIInv ==
  ASSUME IInv,
         \/ Signal \/ DeadlinePasses
         \/ \E l \in Listener : Bind(l) \/ AcceptFails(l) \/ Arrive(l) \/ Finish(l)
  PROVE  IInv'
  <1> USE DEF IInv, TypeOK, Listener
  <1>1. CASE Signal
    BY <1>1, ZenonT(60) DEF Signal, Running, Exit, Drained, Sent, inputs
  <1>2. CASE DeadlinePasses
    BY <1>2 DEF DeadlinePasses, Drained, Sent, inputs
  <1>3. ASSUME NEW l \in Listener, Bind(l) PROVE IInv'
    BY <1>3 DEF Bind, ListenerReturns, Drained, Sent, inputs
  <1>4. ASSUME NEW l \in Listener, AcceptFails(l) PROVE IInv'
    BY <1>4 DEF AcceptFails, ListenerReturns, Drained, Sent, inputs
  <1>5. ASSUME NEW l \in Listener, Arrive(l) PROVE IInv'
    BY <1>5, LifecycleAssumption DEF Arrive, Running, Drained, Sent, inputs
  <1>6. ASSUME NEW l \in Listener, Finish(l) PROVE IInv'
    BY <1>6, LifecycleAssumption DEF Finish, Running, Drained, Sent, inputs
  <1> QED
    BY <1>1, <1>2, <1>3, <1>4, <1>5, <1>6, Zenon

\* The invariant is inductive.
LEMMA NextIInv == IInv /\ [Next]_vars => IInv'
  <1>1. IInv /\ UNCHANGED vars => IInv'
    BY DEF IInv, TypeOK, Drained, Sent, Listener, vars, inputs
  <1> QED
    BY <1>1, MainIInv, OtherIInv DEF Next

\* The invariant holds of every run of the process.
THEOREM Invariance == Spec => []IInv
  BY InitIInv, NextIInv, PTL DEF Spec

(***************************************************************************)
(* No request is cut off within the grace period of main: for every        *)
(* configuration and any number of requests in flight.                     *)
(***************************************************************************)
THEOREM GraceAlwaysKept == Spec => []GraceKept
  <1>1. IInv => GraceKept
    BY DEF IInv, GraceKept, Drained, Listener
  <1> QED
    BY <1>1, Invariance, PTL

(***************************************************************************)
(* main shuts the admin listener down only when the data path is drained   *)
(* or the deadline has passed.                                             *)
(***************************************************************************)
THEOREM AdminAlwaysOutlivesMain == Spec => []AdminOutlivesMain
  <1>1. IInv => AdminOutlivesMain
    BY DEF IInv, AdminOutlivesMain, Drained, TypeOK, Listener
  <1> QED
    BY <1>1, Invariance, PTL

-----------------------------------------------------------------------------
(* What the process serves with. *)

Loaded == Accepted(file, env) /\ cfg = Effective(file, env)

(***************************************************************************)
(* The inductive invariant for the configuration: from the end of Load on  *)
(* main works with the effective configuration, which has been accepted,   *)
(* and from newStore on with an open store.                                *)
(***************************************************************************)
SInv ==
  /\ file \in File /\ env \in Env
  /\ pc \notin {"load", "exited"} => Loaded
  /\ pc \notin {"load", "notify", "store", "exited"} => store = "open"

\* Nothing but Load touches the configuration.
LEMMA LoadedKept == UNCHANGED <<inputs, cfg>> => Loaded' = Loaded
  BY DEF Loaded, inputs

\* The invariant is inductive.
LEMMA SInvInductive == (Init => SInv) /\ (SInv /\ [Next]_vars => SInv')
  <1>1. Init => SInv
    BY DEF Init, SInv
  <1> SUFFICES ASSUME SInv, [Next]_vars PROVE SInv'
    BY <1>1
  <1> USE DEF SInv, inputs, Goto, Exit
  <1>2. CASE Load
    BY <1>2 DEF Load, Loaded
  <1>3. CASE Notify \/ newStore \/ Assemble \/ Select \/ Shutdown
    BY <1>3, LoadedKept, Zenon DEF Notify, newStore, Assemble, Select, Shutdown
  <1>4. CASE Drain \/ Close
    BY <1>4, LoadedKept DEF Drain, After, Close
  <1>5. CASE Signal \/ DeadlinePasses
    BY <1>5, LoadedKept, Zenon DEF Signal, DeadlinePasses, Running
  <1>6. ASSUME NEW l \in Listener, Bind(l) \/ AcceptFails(l) \/ Arrive(l) \/ Finish(l) PROVE SInv'
    BY <1>6, LoadedKept DEF Bind, AcceptFails, Arrive, Finish
  <1>7. CASE UNCHANGED vars
    BY <1>7, LoadedKept DEF vars
  <1> QED
    BY <1>2, <1>3, <1>4, <1>5, <1>6, <1>7, Zenon DEF Next, Main

\* What applyEnv and applyDefaults make of the keys the property speaks of.
LEMMA EffectiveKeys ==
  ASSUME NEW f \in ConfigType, NEW e \in EnvType
  PROVE  /\ Effective(f, e).s3_endpoint = Override(f.s3_endpoint, e.s3_endpoint)
         /\ Effective(f, e).strict = OverrideBool(f.strict, e.strict)
         /\ Effective(f, e).issuers = f.issuers
  BY DEF ConfigType, Effective, applyEnv, applyDefaults

\* Values that differ pairwise are as many as their positions.
LEMMA PairwiseDistinct ==
  ASSUME NEW n \in Nat, NEW f \in [1..n -> STRING],
         \A i \in 1..n : \A j \in 1..i - 1 : f[j] # f[i]
  PROVE  Cardinality({f[i] : i \in 1..n}) = n
  <1> DEFINE S == {f[i] : i \in 1..n}
  <1>1. f \in [1..n -> S]
    OBVIOUS
  <1>2. ASSUME NEW i \in 1..n, NEW j \in 1..n, f[i] = f[j] PROVE i = j
    <2>1. ~(i \in 1..j - 1) /\ ~(j \in 1..i - 1)
      BY <1>2
    <2> QED
      BY <2>1
  <1>3. \A y \in S : \E i \in 1..n : f[i] = y
    OBVIOUS
  <1>4. f \in Bijection(1..n, S)
    BY <1>1, <1>2, <1>3, Fun_IsBij, Zenon
  <1>5. ExistsBijection(1..n, S)
    BY <1>4 DEF ExistsBijection
  <1> QED
    BY <1>5, FS_CountingElements

\* validate makes issuers distinguishable by name and by URL.
LEMMA IssuersDistinct ==
  ASSUME NEW issuers \in Seq(IssuerType), \A i \in DOMAIN issuers : ValidIssuer(issuers, i)
  PROVE  Distinct(issuers, LAMBDA x : x.name) /\ Distinct(issuers, LAMBDA x : x.issuer)
  <1> DEFINE n == Len(issuers)
             names == [i \in 1..n |-> issuers[i].name]
             urls == [i \in 1..n |-> issuers[i].issuer]
  <1>1. n \in Nat /\ DOMAIN issuers = 1..n
    OBVIOUS
  <1>2. ASSUME NEW i \in 1..n, NEW j \in 1..i - 1
        PROVE  j \in 1..n /\ names[j] # names[i] /\ urls[j] # urls[i]
    <2>1. j \in 1..n
      BY <1>1
    <2>2. ValidIssuer(issuers, i)
      BY <1>1
    <2>3. issuers[j].name # issuers[i].name /\ issuers[j].issuer # issuers[i].issuer
      BY <2>2, Zenon DEF ValidIssuer
    <2> QED
      BY <2>1, <2>3
  <1>3. \A i \in 1..n : issuers[i].name \in STRING /\ issuers[i].issuer \in STRING
    <2>1. \A i \in 1..n : issuers[i] \in IssuerType
      BY <1>1
    <2> QED
      BY <2>1 DEF IssuerType
  <1> HIDE DEF n
  <1>4. Cardinality({names[i] : i \in 1..n}) = n
    <2>1. \A i \in 1..n : \A j \in 1..i - 1 : names[j] # names[i]
      BY <1>2, Zenon
    <2>2. names \in [1..n -> STRING]
      BY <1>3
    <2> HIDE DEF names
    <2> QED
      BY <1>1, <2>1, <2>2, PairwiseDistinct
  <1>5. Cardinality({urls[i] : i \in 1..n}) = n
    <2>1. \A i \in 1..n : \A j \in 1..i - 1 : urls[j] # urls[i]
      BY <1>2, Zenon
    <2>2. urls \in [1..n -> STRING]
      BY <1>3
    <2> HIDE DEF urls
    <2> QED
      BY <1>1, <2>1, <2>2, PairwiseDistinct
  <1>6. /\ {names[i] : i \in 1..n} = {issuers[i].name : i \in DOMAIN issuers}
        /\ {urls[i] : i \in 1..n} = {issuers[i].issuer : i \in DOMAIN issuers}
    BY <1>1
  <1> QED
    BY <1>4, <1>5, <1>6, Zenon DEF Distinct, n

(***************************************************************************)
(* "A misconfigured proxy never starts": whatever the file and the         *)
(* environment hold, a listener runs only on a sound configuration and an  *)
(* open store (Parse of internal/config and main of cmd/proxy).            *)
(***************************************************************************)
THEOREM AlwaysServesSound == Spec => []ServesOnlySound
  <1>1. IInv /\ SInv => ServesOnlySound
    <2> SUFFICES ASSUME IInv, SInv, NEW l \in Listener, Running, listener[l] # "off"
                 PROVE  /\ store = "open"
                        /\ cfg.s3_endpoint \in HttpURL
                        /\ \/ cfg.s3_endpoint = env.s3_endpoint
                           \/ env.s3_endpoint = "" /\ cfg.s3_endpoint = file.s3_endpoint
                        /\ cfg.issuers # <<>>
                        /\ Distinct(cfg.issuers, LAMBDA x : x.name)
                        /\ Distinct(cfg.issuers, LAMBDA x : x.issuer)
                        /\ \A i \in DOMAIN cfg.issuers : cfg.issuers[i].audiences # {}
                        /\ cfg.max_duration > 0 /\ cfg.clock_skew > 0
                        /\ ~StrictEnabled(cfg) =>
                             env.strict = "false" \/ (env.strict # "true" /\ file.strict = "false")
      BY DEF ServesOnlySound
    <2>1. pc \notin {"load", "notify", "store", "assemble", "exited"}
      BY DEF IInv, Running
    <2>2. store = "open" /\ Loaded
      BY <2>1 DEF SInv
    <2>3. file \in ConfigType /\ env \in EnvType
      BY <2>2, LifecycleAssumption DEF SInv, Loaded, Accepted
    <2>4. validate(cfg) /\ cfg = Effective(file, env)
      BY <2>2 DEF Loaded, Accepted
    <2>5. /\ cfg.s3_endpoint = Override(file.s3_endpoint, env.s3_endpoint)
          /\ cfg.strict = OverrideBool(file.strict, env.strict)
          /\ cfg.issuers = file.issuers
      BY <2>3, <2>4, EffectiveKeys, Zenon
    <2>6. \A i \in DOMAIN cfg.issuers : ValidIssuer(cfg.issuers, i)
      BY <2>4 DEF validate
    <2>7. cfg.issuers \in Seq(IssuerType)
      BY <2>3, <2>5 DEF ConfigType
    <2>8. Distinct(cfg.issuers, LAMBDA x : x.name) /\ Distinct(cfg.issuers, LAMBDA x : x.issuer)
      BY <2>6, <2>7, IssuersDistinct
    <2>9. /\ cfg.s3_endpoint \in HttpURL /\ cfg.issuers # <<>>
          /\ cfg.max_duration > 0 /\ cfg.clock_skew > 0
      BY <2>4 DEF validate, checkHTTPURL
    <2>10. \A i \in DOMAIN cfg.issuers : cfg.issuers[i].audiences # {}
      BY <2>6 DEF ValidIssuer
    <2>11. \/ cfg.s3_endpoint = env.s3_endpoint
           \/ env.s3_endpoint = "" /\ cfg.s3_endpoint = file.s3_endpoint
      BY <2>5 DEF Override
    <2>12. ~StrictEnabled(cfg) =>
             env.strict = "false" \/ (env.strict # "true" /\ file.strict = "false")
      BY <2>5 DEF OverrideBool, StrictEnabled
    <2> QED
      BY <2>2, <2>8, <2>9, <2>10, <2>11, <2>12
  <1>2. Spec => []SInv
    BY SInvInductive, PTL DEF Spec
  <1> QED
    BY <1>1, <1>2, Invariance, PTL

=============================================================================
