---------------------------- MODULE EffectiveTtl -----------------------------
(***************************************************************************)
(* How long minted credentials live: the arithmetic of the STS handler     *)
(* (internal/sts/sts.go), on time.Duration, a signed integer of fixed      *)
(* width counting the ticks of the clock.                                  *)
(***************************************************************************)
EXTENDS Integers

CONSTANTS
  Second,       \* ticks in a second (10^9 in the code)
  Width,        \* 2^bits of time.Duration (2^64 in the code)
  MaxDuration   \* sts.max_duration, in seconds

ASSUME EffectiveTtlAssumption ==
  /\ Second \in Nat \ {0}
  /\ Width \in Nat \ {0, 1}
  /\ MaxDuration \in Nat \ {0}

MaxTicks == Width \div 2 - 1
MinTicks == -(Width \div 2)

\* time.Duration(n) * time.Second: the product wraps around.
Seconds(n) == ((n * Second + Width \div 2) % Width) - Width \div 2

\* t.Sub(u) saturates.
Sub(t, u) ==
  IF t - u > MaxTicks THEN MaxTicks
  ELSE IF t - u < MinTicks THEN MinTicks ELSE t - u

-----------------------------------------------------------------------------
(* Mutated forms, used to show that the properties can fail. *)

RequestedExtends(exp, t, requested) ==
  IF requested > 0 THEN Seconds(requested)
  ELSE IF Sub(exp, t) > Seconds(MaxDuration) THEN Seconds(MaxDuration) ELSE Sub(exp, t)

RoundedUp(e) == ((e + Second - 1) \div Second) * Second

-----------------------------------------------------------------------------
\* requested = 0: the client sent no DurationSeconds.
EffectiveTTL(exp, t, requested) ==
  LET left == Sub(exp, t)
      capped == IF left > Seconds(MaxDuration) THEN Seconds(MaxDuration) ELSE left
  IN IF requested > 0 /\ capped > Seconds(requested) THEN Seconds(requested) ELSE capped

\* The Expiration element of the answer has no fractions of a second.
Announced(e) == (e \div Second) * Second
=============================================================================
