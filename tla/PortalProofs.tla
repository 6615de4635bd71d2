---------------------------- MODULE PortalProofs -----------------------------
(***************************************************************************)
(* Proofs about the token exchange, for every width of time.Duration,      *)
(* every sts.max_duration, every duration a client may ask for and every   *)
(* user name: minted credentials never outlive what bounds them, their     *)
(* announced expiry is usable, and the portal's session names are valid.   *)
(***************************************************************************)
EXTENDS Portal, FiniteSetTheorems, FunctionTheorems, SequenceTheorems, TLAPS

\* A remainder is at most the number divided.
LEMMA ModAtMost ==
  ASSUME NEW a \in Nat, NEW w \in Nat, w > 0 PROVE a % w \in Int /\ a % w <= a
  OBVIOUS

\* However the product wraps around, it is at most the exact one.
LEMMA SecondsAtMost ==
  ASSUME NEW n \in Nat PROVE Seconds(n) \in Int /\ Seconds(n) <= n * Second
  <1> DEFINE half == Width \div 2
  <1> DEFINE product == n * Second
  <1>1. half \in Nat /\ product \in Nat /\ Width \in Nat /\ Width > 0
    BY EffectiveTtlAssumption
  <1>2. product + half \in Nat
    BY <1>1
  <1>3. (product + half) % Width \in Int /\ (product + half) % Width <= product + half
    BY <1>1, <1>2, ModAtMost
  <1>4. Seconds(n) = ((product + half) % Width) - half
    BY DEF Seconds
  <1> HIDE DEF half, product
  <1>5. Seconds(n) \in Int /\ Seconds(n) <= product
    BY <1>1, <1>3, <1>4
  <1> QED
    BY <1>5 DEF product

\* A positive difference of times is at most the exact one, saturated or not.
LEMMA SubAtMost ==
  ASSUME NEW x \in Int, NEW y \in Int PROVE Sub(x, y) \in Int /\ (Sub(x, y) > 0 => Sub(x, y) <= x - y)
  <1>1. MaxTicks \in Int /\ MinTicks \in Int /\ MinTicks <= 0
    BY EffectiveTtlAssumption DEF MaxTicks, MinTicks
  <1> QED
    BY <1>1 DEF Sub

\* What EffectiveTTL returns, where it is positive, is within its three bounds.
LEMMA EffectiveTTLBounded ==
  ASSUME NEW x \in Int, NEW y \in Int, NEW r \in Nat, EffectiveTTL(x, y, r) > 0
  PROVE  /\ EffectiveTTL(x, y, r) <= x - y
         /\ EffectiveTTL(x, y, r) <= MaxDuration * Second
         /\ r > 0 => EffectiveTTL(x, y, r) <= r * Second
  <1>1. Sub(x, y) \in Int /\ (Sub(x, y) > 0 => Sub(x, y) <= x - y)
    BY SubAtMost
  <1>2. Seconds(MaxDuration) \in Int /\ Seconds(MaxDuration) <= MaxDuration * Second
    BY SecondsAtMost, EffectiveTtlAssumption
  <1>3. Seconds(r) \in Int /\ Seconds(r) <= r * Second
    BY SecondsAtMost
  <1>4. MaxDuration * Second \in Int /\ r * Second \in Int
    BY EffectiveTtlAssumption
  <1> QED
    BY <1>1, <1>2, <1>3, <1>4 DEF EffectiveTTL

\* A product that a time.Duration can hold is exact.
LEMMA SecondsExact ==
  ASSUME NEW n \in Nat, n * Second <= MaxTicks PROVE Seconds(n) = n * Second
  <1> DEFINE half == Width \div 2
             product == n * Second
  <1>1. half \in Nat /\ Width \in Nat /\ Width > 0 /\ 2 * half <= Width
    BY EffectiveTtlAssumption
  <1>2. product \in Nat /\ product <= half - 1
    BY EffectiveTtlAssumption DEF MaxTicks
  <1>3. Seconds(n) = ((product + half) % Width) - half
    BY DEF Seconds
  <1> HIDE DEF half, product
  <1>4. (product + half) % Width = product + half
    BY <1>1, <1>2
  <1>5. Seconds(n) = product
    BY <1>1, <1>2, <1>3, <1>4
  <1> QED
    BY <1>5 DEF product

\* Cutting an expiry to whole seconds takes less than a second away.
LEMMA AnnouncedWithin ==
  ASSUME NEW e \in Nat
  PROVE  Announced(e) \in Int /\ Announced(e) <= e /\ Announced(e) > e - Second
  BY EffectiveTtlAssumption, SMTT(30) DEF Announced

\* A whole number of seconds is left as it is.
LEMMA AnnouncedWhole ==
  ASSUME NEW s \in Nat PROVE Announced(s * Second) = s * Second
  BY EffectiveTtlAssumption, SMTT(30) DEF Announced

\* The positions of the characters that are kept are positions of letters: the rank of
\* a position is one-to-one, so every rank is taken.
LEMMA NthPosition ==
  ASSUME NEW I, I \subseteq Nat \ {0}, IsFiniteSet(I), NEW n \in 1..Cardinality(I)
  PROVE  Nth(I, n) \in I
  <1> DEFINE card == Cardinality(I)
             upto(i) == I \cap 1..i
             rank == [i \in I |-> Cardinality(upto(i))]
  <1>1. card \in Nat
    BY FS_CardinalityType
  <1>2. ASSUME NEW i \in I
        PROVE  IsFiniteSet(upto(i)) /\ Cardinality(upto(i)) \in 1..card
    <2>1. IsFiniteSet(upto(i)) /\ Cardinality(upto(i)) <= card
      BY FS_Subset
    <2>2. i \in upto(i)
      OBVIOUS
    <2>3. Cardinality(upto(i)) \in Nat /\ Cardinality(upto(i)) # 0
      BY <2>1, <2>2, FS_CardinalityType, FS_EmptySet, Zenon
    <2> QED
      BY <1>1, <2>1, <2>3
  <1>3. ASSUME NEW i \in I, NEW j \in I, i < j
        PROVE  Cardinality(upto(i)) # Cardinality(upto(j))
    <2>1. upto(i) \in SUBSET upto(j) /\ j \in upto(j) /\ j \notin upto(i)
      BY <1>3
    <2> QED
      BY <1>2, <2>1, FS_Subset, Zenon
  <1>4. rank \in [I -> 1..card]
    BY <1>2
  <1>5. ASSUME NEW i \in I, NEW j \in I, rank[i] = rank[j] PROVE i = j
    <2>1. i \in Int /\ j \in Int
      OBVIOUS
    <2> QED
      BY <1>3, <1>5, <2>1
  <1>6. rank \in Injection(I, 1..card)
    BY <1>4, <1>5, Fun_IsInj, Zenon
  <1>7. IsFiniteSet(1..card) /\ Cardinality(1..card) = card
    BY <1>1, FS_Interval
  <1>8. rank \in Surjection(I, 1..card)
    BY <1>6, <1>7, FS_Injection
  <1>9. \E i \in I : rank[i] = n
    BY <1>8, Zenon DEF Surjection
  <1> QED
    BY <1>9, Zenon DEF Nth

\* sessionName keeps letters, and at most as many as the bound.
LEMMA WrittenLetters ==
  ASSUME NEW raw \in Seq(STRING), NEW bound \in Nat
  PROVE  Written(raw, bound) \in Seq(Letter) /\ Len(Written(raw, bound)) <= bound
  <1> DEFINE I == {i \in DOMAIN raw : raw[i] \in Letter}
             kept == Subsequence(raw, I)
             m == Least(Len(kept), bound)
  <1>1. I \subseteq Nat \ {0} /\ IsFiniteSet(I)
    <2>1. DOMAIN raw = 1..Len(raw) /\ Len(raw) \in Nat
      BY LenProperties
    <2>2. IsFiniteSet(1..Len(raw))
      BY <2>1, FS_Interval
    <2> QED
      BY <2>1, <2>2, FS_Subset
  <1>2. Cardinality(I) \in Nat
    BY <1>1, FS_CardinalityType
  <1>3. \A n \in 1..Cardinality(I) : raw[Nth(I, n)] \in Letter
    BY <1>1, NthPosition, Zenon
  <1> HIDE DEF I
  <1>4. kept \in Seq(Letter) /\ Len(kept) = Cardinality(I)
    BY <1>2, <1>3 DEF Subsequence
  <1> HIDE DEF kept
  <1>5. m \in Nat /\ m <= bound /\ m <= Len(kept)
    BY <1>2, <1>4 DEF Least
  <1>6. Written(raw, bound) = SubSeq(kept, 1, m)
    BY DEF Written, kept, I
  <1> HIDE DEF m
  <1>7. \A i \in 1..m : kept[i] \in Letter
    BY <1>2, <1>4, <1>5, ElementOfSeq
  <1> QED
    BY <1>5, <1>6, <1>7, SubSeqProperties

\* Whatever the two headers hold, the session name satisfies the pattern of the STS
\* handler; so does the fallback.
LEMMA SessionNameValid ==
  /\ roleSessionNamePattern(Fallback)
  /\ \A preferred, user \in Raw : roleSessionNamePattern(sessionName(preferred, user))
  <1>1. roleSessionNamePattern(Fallback)
    BY PortalAssumption DEF roleSessionNamePattern, Fallback
  <1>2. ASSUME NEW raw \in Raw PROVE roleSessionNamePattern(Named(Written(raw, 64)))
    <2> DEFINE w == Written(raw, 64)
    <2>1. w \in Seq(Letter) /\ Len(w) <= 64
      BY WrittenLetters, PortalAssumption
    <2> HIDE DEF w
    <2>2. CASE Len(w) < 2
      BY <1>1, <2>2 DEF Named, w
    <2>3. CASE ~(Len(w) < 2)
      <3>1. Named(Written(raw, 64)) = w
        BY <2>3 DEF Named, w
      <3>2. Len(w) \in Nat /\ Len(w) <= 64
        BY <2>1
      <3>3. Len(w) \in 2..64
        <4>1. \A n \in Nat : n <= 64 /\ ~(n < 2) => n \in 2..64
          OBVIOUS
        <4> QED
          BY <2>3, <3>2, <4>1, Zenon
      <3>4. \A i \in DOMAIN w : w[i] \in Letter
        BY <2>1
      <3> QED
        BY <3>1, <3>3, <3>4 DEF roleSessionNamePattern
    <2> QED
      BY <2>2, <2>3
  <1> QED
    BY <1>1, <1>2 DEF sessionName

\* The inductive invariant: the session name in a call is valid, and the lifetime of
\* minted credentials is the one computed from the token, whose expiry is in whole
\* seconds, and the request, which do not change any more.
IInv ==
  /\ now \in Nat /\ t \in Nat /\ requested \in Nat
  /\ \E s \in Nat : exp = s * Second
  /\ sts = "minted" => ttl = EffectiveTTL(exp, t, requested) /\ ttl > 0
  /\ pc = "idle" => sts = "none"
  /\ sts = "called" => roleSessionNamePattern(name)
  /\ sts # "invalid_name"

\* The invariant is inductive.
LEMMA Inductive == (Init => IInv) /\ (IInv /\ [Next]_vars => IInv')
  <1>1. Init => IInv
    <2>1. 0 = 0 * Second
      BY EffectiveTtlAssumption
    <2> QED
      BY <2>1 DEF Init, IInv
  <1> SUFFICES ASSUME IInv, [Next]_vars PROVE IInv'
    BY <1>1
  <1> USE DEF IInv, call
  <1>2. ASSUME NEW n, roleSessionNamePattern(n), NEW d \in Nat, Calls(n, d) PROVE IInv'
    <2>1. \E s \in Nat : exp' = s * Second
      BY <1>2, PortalAssumption DEF Calls
    <2>2. name' = n /\ roleSessionNamePattern(n)'
      BY <1>2 DEF Calls, roleSessionNamePattern
    <2> QED
      BY <1>2, <2>1, <2>2 DEF Calls
  <1>3. CASE ServeHome
    BY <1>2, <1>3, SessionNameValid, Zenon DEF ServeHome
  <1>4. CASE SdkCalls
    BY <1>2, <1>4, SessionNameValid, PortalAssumption DEF SdkCalls
  <1>5. CASE NotHome \/ Unreachable \/ TimesOut \/ Answered
    BY <1>5 DEF NotHome, Unreachable, TimesOut, Answered
  <1>6. CASE Exchange
    <2>0. exp \in Nat
      BY EffectiveTtlAssumption
    <2>1. Sub(exp, now) \in Int /\ Seconds(MaxDuration) \in Int /\ Seconds(requested) \in Int
      BY <2>0, SubAtMost, SecondsAtMost, EffectiveTtlAssumption
    <2>2. EffectiveTTL(exp, now, requested) \in Int
      BY <2>1, Zenon DEF EffectiveTTL
    <2> QED
      BY <1>6, <2>2 DEF Exchange
  <1>7. CASE Tick
    BY <1>7 DEF Tick
  <1>8. CASE UNCHANGED vars
    BY <1>8 DEF vars
  <1> QED
    BY <1>3, <1>4, <1>5, <1>6, <1>7, <1>8 DEF Next

(***************************************************************************)
(* Minted credentials outlive neither the token nor sts.max_duration nor   *)
(* the duration asked for, whatever these are and also where the product   *)
(* with time.Second overflows (ServeHTTP of internal/sts).                 *)
(***************************************************************************)
THEOREM TTLAlwaysBounded == Spec => []TTLBounded
  <1>1. IInv => TTLBounded
    <2> SUFFICES ASSUME IInv, sts = "minted"
                 PROVE  /\ t + ttl <= exp
                        /\ ttl <= MaxDuration * Second
                        /\ requested > 0 => ttl <= requested * Second
      BY DEF TTLBounded
    <2>0. exp \in Nat
      BY EffectiveTtlAssumption DEF IInv
    <2>1. Sub(exp, t) \in Int /\ Seconds(MaxDuration) \in Int /\ Seconds(requested) \in Int
      BY <2>0, SubAtMost, SecondsAtMost, EffectiveTtlAssumption DEF IInv
    <2>2. ttl \in Int
      BY <2>1 DEF IInv, EffectiveTTL
    <2>3. ttl <= exp - t /\ ttl <= MaxDuration * Second
             /\ (requested > 0 => ttl <= requested * Second)
      BY <2>0, EffectiveTTLBounded DEF IInv
    <2> QED
      BY <2>0, <2>2, <2>3 DEF IInv
  <1> QED
    BY <1>1, Inductive, PTL DEF Spec

(***************************************************************************)
(* The STS handler never refuses the session name the portal derives,      *)
(* whatever the user is called (sessionName of cmd/credential-portal and   *)
(* roleSessionNamePattern of internal/sts).                                *)
(***************************************************************************)
THEOREM SessionNameAlwaysAccepted == Spec => []SessionNameAccepted
  <1>1. IInv => SessionNameAccepted
    BY DEF IInv, SessionNameAccepted
  <1> QED
    BY <1>1, Inductive, PTL DEF Spec

(***************************************************************************)
(* The announced Expiration, cut to whole seconds, is not later than the   *)
(* real one and not past when the credentials are minted, for durations a  *)
(* time.Duration can hold: a lifetime that ends with the token ends on a   *)
(* whole second, and any other is at least a second (ServeHTTP).           *)
(***************************************************************************)
THEOREM AnnouncedAlwaysUsable == Spec => []AnnouncedUsable
  <1>1. IInv => AnnouncedUsable
    <2> SUFFICES ASSUME IInv, sts = "minted",
                        requested * Second <= MaxTicks, MaxDuration * Second <= MaxTicks
                 PROVE  Announced(t + ttl) <= t + ttl /\ Announced(t + ttl) > t
      BY DEF AnnouncedUsable
    <2>1. PICK s \in Nat : exp = s * Second
      BY DEF IInv
    <2>2. /\ Second \in Nat /\ Second > 0
          /\ MaxDuration \in Nat /\ MaxDuration > 0
          /\ requested \in Nat /\ t \in Nat /\ exp \in Nat
      BY <2>1, EffectiveTtlAssumption DEF IInv
    <2>3. Seconds(MaxDuration) = MaxDuration * Second
      BY <2>2, SecondsExact
    <2>4. Seconds(requested) = requested * Second
      BY <2>2, SecondsExact
    <2>5. /\ MaxDuration * Second \in Nat /\ MaxDuration * Second >= Second
          /\ requested > 0 => requested * Second \in Nat /\ requested * Second >= Second
      BY <2>2
    <2>6. ttl > 0 /\ ttl = EffectiveTTL(exp, t, requested)
      BY DEF IInv
    <2>7. ttl = exp - t \/ (ttl \in Nat /\ ttl >= Second)
      BY <2>2, <2>3, <2>4, <2>5, <2>6, EffectiveTtlAssumption
         DEF EffectiveTTL, Sub, MaxTicks, MinTicks
    <2>8. CASE ttl = exp - t
      <3>1. t + ttl = exp /\ exp > t
        BY <2>2, <2>6, <2>8
      <3>2. Announced(exp) = exp
        BY <2>1, AnnouncedWhole
      <3> QED
        BY <2>2, <3>1, <3>2
    <2>9. CASE ttl \in Nat /\ ttl >= Second
      BY <2>2, <2>9, AnnouncedWithin
    <2> QED
      BY <2>7, <2>8, <2>9
  <1> QED
    BY <1>1, Inductive, PTL DEF Spec

=============================================================================
