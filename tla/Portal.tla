------------------------------- MODULE Portal --------------------------------
(***************************************************************************)
(* A token exchange seen from both ends: the client, a page of             *)
(* cmd/credential-portal or an AWS SDK, and the STS handler (internal/sts) *)
(* with the arithmetic of module EffectiveTtl.  The client gives up after  *)
(* a timeout, which need not stop the STS handler.                         *)
(***************************************************************************)
EXTENDS EffectiveTtl, Subsequence

CONSTANTS
  Raw,        \* user names in the headers of oauth2-proxy, as sequences of characters
  Letter,     \* the characters of session names that both sides allow
  Plus,       \* the one that the STS handler allows and the portal does not
  Horizon,    \* bound on the clock
  Timeout,    \* of the portal's HTTP client, in ticks
  LastExp,    \* latest exp claim, in seconds
  LastReq     \* largest DurationSeconds

ASSUME PortalAssumption ==
  /\ Raw \subseteq Seq(STRING) /\ <<>> \in Raw
  /\ {"p", "o", "r", "t", "a", "l"} \subseteq Letter /\ Plus \notin Letter
  /\ Horizon \in Nat /\ Timeout \in Nat /\ LastExp \in Nat /\ LastReq \in Nat

VARIABLES
  now,         \* the clock
  pc, start,   \* where the client stands, and when it called
  name,        \* RoleSessionName
  exp,         \* expiry of the identity token
  requested,   \* DurationSeconds; 0: not sent, as by the portal
  sts,         \* what the STS handler has done
  t, ttl       \* when it computed the lifetime of the credentials, and that lifetime

call == <<start, name, exp, requested>>
vars == <<now, pc, call, sts, t, ttl>>

Least(x, y) == IF x < y THEN x ELSE y

-----------------------------------------------------------------------------
(* The client. *)

\* The letters of "portal".
Fallback == <<"p", "o", "r", "t", "a", "l">>

\* The letters of raw, up to a bound.
Written(raw, bound) ==
  LET kept == Subsequence(raw, {i \in DOMAIN raw : raw[i] \in Letter})
  IN SubSeq(kept, 1, Least(Len(kept), bound))

Named(written) == IF Len(written) < 2 THEN Fallback ELSE written

\* A form of sessionName that stops one character late.
sessionNameLate(preferred, user) == Named(Written(IF preferred = <<>> THEN user ELSE preferred, 65))

sessionName(preferred, user) == Named(Written(IF preferred = <<>> THEN user ELSE preferred, 64))

\* serveHome without a token, or for another path.
NotHome ==
  /\ pc = "idle"
  /\ pc' \in {"not_found", "unauthorized"}
  /\ UNCHANGED <<now, call, sts, t, ttl>>

Calls(n, d) ==
  /\ pc' = "calling" /\ start' = now
  /\ name' = n /\ requested' = d
  /\ exp' \in {s * Second : s \in 0..LastExp}
  /\ sts' = "called"
  /\ UNCHANGED <<now, t, ttl>>

ServeHome ==
  /\ pc = "idle"
  /\ \E preferred, user \in Raw : Calls(sessionName(preferred, user), 0)

\* An SDK names its own session and may ask for a duration.
SdkCalls ==
  /\ pc = "idle"
  /\ \E d \in 0..LastReq : Calls(Fallback, d)

\* The connection fails: the STS handler never sees the request.
Unreachable ==
  /\ pc = "calling" /\ sts = "called"
  /\ pc' = "unreachable" /\ sts' = "none"
  /\ UNCHANGED <<now, call, t, ttl>>

\* A form of TimesOut for a client without a timeout.
TimesOutNever == FALSE /\ UNCHANGED vars

TimesOut ==
  /\ pc = "calling" /\ now >= start + Timeout
  /\ pc' = "unreachable"
  /\ UNCHANGED <<now, call, sts, t, ttl>>

\* The answer arrives; a minted one may be cut short on its way.
Answered ==
  /\ pc = "calling"
  /\ \/ sts \in {"invalid_name", "expired", "rejected"} /\ pc' = "rejected"
     \/ sts = "minted" /\ pc' \in {"credentials", "unreadable"}
  /\ UNCHANGED <<now, call, sts, t, ttl>>

-----------------------------------------------------------------------------
(* The STS handler. *)

roleSessionNamePattern(n) == Len(n) \in 2..64 /\ \A i \in DOMAIN n : n[i] \in Letter \cup {Plus}

\* The name is checked before the token; validation, minting and storing may each
\* fail ("rejected").
Exchange ==
  /\ sts = "called"
  /\ \/ ~roleSessionNamePattern(name) /\ sts' = "invalid_name" /\ UNCHANGED <<t, ttl>>
     \/ roleSessionNamePattern(name) /\ sts' = "rejected" /\ UNCHANGED <<t, ttl>>
     \/ /\ roleSessionNamePattern(name)
        /\ t' = now /\ ttl' = EffectiveTTL(exp, now, requested)
        /\ sts' = IF ttl' <= 0 THEN "expired" ELSE "minted"
  /\ UNCHANGED <<now, pc, call>>

-----------------------------------------------------------------------------
Init ==
  /\ now = 0
  /\ pc = "idle" /\ start = 0
  /\ name = Fallback /\ exp = 0 /\ requested = 0
  /\ sts = "none" /\ t = 0 /\ ttl = 0

Tick == now < Horizon /\ now' = now + 1 /\ UNCHANGED <<pc, call, sts, t, ttl>>

Next ==
  \/ NotHome \/ ServeHome \/ SdkCalls \/ Unreachable \/ TimesOut \/ Answered
  \/ Exchange
  \/ Tick

\* Time passes, and the HTTP client notices its timeout.  Nothing makes the STS
\* handler answer.
Spec == Init /\ [][Next]_vars /\ WF_vars(Tick) /\ WF_vars(TimesOut)

-----------------------------------------------------------------------------
(* Properties. *)

(***************************************************************************)
(* Credentials that are minted, also those of a call the client has given  *)
(* up, outlive neither the token nor sts.max_duration nor the duration     *)
(* asked for, also when the product with time.Second wraps around.         *)
(***************************************************************************)
TTLBounded ==
  sts = "minted" => /\ t + ttl <= exp
                    /\ ttl <= MaxDuration * Second
                    /\ requested > 0 => ttl <= requested * Second

(***************************************************************************)
(* The Expiration the client reads, cut to whole seconds, is not later     *)
(* than the real one and was not past when the credentials were minted, as *)
(* long as the durations, the one asked for and sts.max_duration, are ones *)
(* a time.Duration can hold.                                               *)
(***************************************************************************)
AnnouncedUsable ==
  sts = "minted" /\ requested * Second <= MaxTicks /\ MaxDuration * Second <= MaxTicks =>
    /\ Announced(t + ttl) <= t + ttl
    /\ Announced(t + ttl) > t

(***************************************************************************)
(* Whatever the user is called, the STS handler does not refuse the        *)
(* session name the portal derives (sessionName: "internal/sts enforces    *)
(* the same").                                                             *)
(***************************************************************************)
SessionNameAccepted == sts # "invalid_name"

(***************************************************************************)
(* Every page is rendered in the end, also when the STS endpoint accepts   *)
(* the connection and never answers (the ten seconds of serveHome).        *)
(***************************************************************************)
EveryPageRendered == pc = "calling" /\ start + Timeout <= Horizon ~> pc # "calling"

(***************************************************************************)
(* "Effective TTL = min(jwt.exp - now, DurationSeconds, sts.max_duration)" *)
(* (the comment over the computation in ServeHTTP).                        *)
(***************************************************************************)
TTLIsMin ==
  sts \in {"minted", "expired"} /\ exp > t =>
  ttl = LET tokenOrMax == Least(exp - t, MaxDuration * Second)
        IN IF requested = 0 THEN tokenOrMax ELSE Least(tokenOrMax, requested * Second)
=============================================================================
