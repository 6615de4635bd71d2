----------------------------- MODULE DeviceLogin -----------------------------
(***************************************************************************)
(* cmd/ozone-login and internal/devicelogin: a user signs in with the      *)
(* OAuth device flow, and the client then keeps a token file fresh.        *)
(*                                                                         *)
(* The clock advances while the client sleeps and while it waits for an    *)
(* answer, which it does for as long as the timeout of its HTTP client.    *)
(* Timers fire when they are due; file operations take no time.  The       *)
(* identity provider is external: it acts on a request at some moment      *)
(* while the client waits, or not at all, and its answer may be lost.      *)
(***************************************************************************)
EXTENDS Integers

CONSTANTS
  Interval,    \* values of interval in the device authorization response
  CodeLife,    \* values of its expires_in (0: none)
  Life,        \* values of expires_in in a token response
  Backoff,     \* added to the interval by slow_down
  Floor,       \* shortest wait of the refresh loop
  RetryLife,   \* the expires_in a failed refresh is taken to have had
  Timeout,     \* the longest a request takes
  Rotates,     \* the provider issues refresh tokens for single use
  MaxTime      \* bound on the clock

ASSUME DeviceLoginAssumption ==
  /\ Interval \subseteq Nat /\ CodeLife \subseteq Nat /\ Life \subseteq Nat
  /\ Backoff \in Nat /\ Floor \in Nat \ {0} /\ RetryLife \in Nat /\ Timeout \in Nat
  /\ Rotates \in BOOLEAN
  /\ MaxTime \in Nat

VARIABLES
  once,       \* flag -once
  now,        \* the clock
  pc,         \* where the client stands
  exit,       \* why it exited
  due,        \* when it wakes up, or gives up on an answer
  cancelled,  \* its context is cancelled (Ctrl-C)
  interval, deadline, expires,      \* Poll: interval, deadline, da.ExpiresIn > 0
  refresh,    \* the refresh token in hand: its generation
  tok,        \* the token being written: when it was issued, for how long
  tmp,        \* the temporary file
  file,       \* the token file: its token and whether all of it is there
  session,    \* the provider's session is alive
  reply,      \* the answer that is on its way to the client
  current,    \* the generation of the refresh token the provider accepts
  lost,       \* history: an answer to a refresh was lost
  failures,   \* history: refreshes failed since the token file was written
  asked,      \* history: the interval in the device authorization response
  lastPoll, slowed    \* history: time of the last poll, slow_down answers so far

poll == <<interval, deadline, expires, asked, lastPoll, slowed>>
provider == <<session, reply, current, lost>>
vars == <<once, now, pc, exit, due, cancelled, poll, refresh, tok, tmp, file, provider, failures>>

Tokens == [at: Nat, life: Nat]
NoToken == [at |-> 0, life |-> 0]
NoReply == [kind |-> "none", token |-> NoToken]
NoFile == [token |-> NoToken, state |-> "none"]

\* Every variable keeps its type.
TypeOK ==
  /\ once \in BOOLEAN
  /\ now \in Nat /\ due \in Nat
  /\ pc \in {"start", "sleep", "poll", "create", "write", "close", "rename", "wait", "refresh", "exited"}
  /\ exit \in {"running", "ok", "error", "expired", "denied", "session", "stopped", "killed"}
  /\ pc = "exited" <=> exit # "running"
  /\ cancelled \in BOOLEAN
  /\ interval \in Nat /\ deadline \in Nat /\ expires \in BOOLEAN
  /\ refresh \in Nat
  /\ tok \in Tokens
  /\ tmp \in {"none", "empty", "partial", "whole"}
  /\ file \in [token: Tokens, state: {"none", "empty", "partial", "whole"}]
  /\ reply \in [kind: {"none", "token", "invalid_grant"}, token: Tokens]
  /\ session \in BOOLEAN /\ current \in Nat /\ lost \in BOOLEAN
  /\ failures \in Nat
  /\ asked \in Nat /\ lastPoll \in Int /\ slowed \in Nat

Init ==
  /\ once \in BOOLEAN
  /\ now = 0 /\ due = 0
  /\ pc = "start" /\ exit = "running" /\ cancelled = FALSE
  /\ interval = 0 /\ deadline = 0 /\ expires = FALSE
  /\ refresh = 0 /\ tok = NoToken /\ tmp = "none" /\ file = NoFile
  /\ session = TRUE /\ reply = NoReply /\ current = 0 /\ lost = FALSE /\ failures = 0
  /\ asked = 0 /\ lastPoll = 0 /\ slowed = 0

Exit(why) == pc' = "exited" /\ exit' = why
Goto(l) == pc' = l /\ UNCHANGED exit
Larger(x, y) == IF x < y THEN y ELSE x

-----------------------------------------------------------------------------
(* Signing in. *)

\* A form of Again that does not look at the deadline.
AgainForever(n, t, last, limited) ==
  \/ cancelled /\ Exit("error") /\ UNCHANGED due
  \/ ~cancelled /\ Goto("sleep") /\ due' = t + n

\* The top of the loop in Poll, with interval n at time t.
Again(n, t, last, limited) ==
  \/ cancelled /\ Exit("error") /\ UNCHANGED due
  \/ ~cancelled /\ limited /\ t > last /\ Exit("expired") /\ UNCHANGED due
  \/ ~cancelled /\ ~(limited /\ t > last) /\ Goto("sleep") /\ due' = t + n

\* Discover and Start, then Poll up to its first sleep.
Begin ==
  /\ pc = "start"
  /\ \/ Exit("error") /\ UNCHANGED <<due, poll>>
     \/ \E n \in Interval, e \in CodeLife :
          /\ interval' = Larger(n, 1)
          /\ deadline' = now + e
          /\ expires' = (e > 0)
          /\ asked' = n
          /\ lastPoll' = now
          /\ Again(interval', now, deadline', expires')
          /\ UNCHANGED slowed
  /\ UNCHANGED <<once, now, cancelled, refresh, tok, tmp, file, provider, failures>>

\* A form of SlowDown that ignores the answer.
SlowDownIgnored == UNCHANGED interval

SlowDown == interval' = interval + Backoff

\* The sleep is over: the token endpoint is asked, unless the context is cancelled.
SendPoll ==
  /\ pc = "sleep" /\ due <= now
  /\ lastPoll' = now
  /\ \/ cancelled /\ Exit("error") /\ UNCHANGED due
     \/ ~cancelled /\ Goto("poll") /\ due' = now + Timeout
  /\ UNCHANGED <<once, now, cancelled, interval, deadline, expires, asked, slowed, refresh, tok,
                 tmp, file, provider, failures>>

\* The answer to a poll.
Polled ==
  /\ pc = "poll"
  /\ reply' = NoReply
  /\ \/ \* the user has approved: Poll returns, and its variables are gone
        /\ reply.kind = "token"
        /\ tok' = reply.token
        /\ Goto("create")
        /\ interval' = 0 /\ deadline' = 0 /\ expires' = FALSE
        /\ asked' = 0 /\ lastPoll' = 0 /\ slowed' = 0
        /\ UNCHANGED due
     \/ \* authorization_pending
        /\ reply.kind = "none"
        /\ Again(interval, now, deadline, expires)
        /\ UNCHANGED <<poll, tok>>
     \/ \* slow_down
        /\ reply.kind = "none"
        /\ SlowDown
        /\ slowed' = slowed + 1
        /\ Again(interval', now, deadline, expires)
        /\ UNCHANGED <<deadline, expires, asked, lastPoll, tok>>
     \/ \* access_denied or expired_token
        /\ reply.kind = "none"
        /\ \E why \in {"denied", "expired"} : Exit(why)
        /\ UNCHANGED <<due, poll, tok>>
     \/ \* any other error, or no answer
        /\ Exit("error")
        /\ UNCHANGED <<due, poll, tok>>
  /\ UNCHANGED <<once, now, cancelled, refresh, tmp, file, session, current, lost, failures>>

-----------------------------------------------------------------------------
(* WriteTokenFile. *)

writing == <<once, now, due, cancelled, poll, refresh, tok, file, provider, failures>>

\* An error: the deferred Remove takes the temporary file away, and main fails.
WriteFails == tmp' = "none" /\ Exit("error")

\* MkdirAll, CreateTemp and Chmod.
CreateTemp ==
  /\ pc = "create"
  /\ \/ tmp' = "empty" /\ Goto("write")
     \/ WriteFails
  /\ UNCHANGED writing

\* Part of the token is in the temporary file.
WriteBegun ==
  /\ pc = "write" /\ tmp = "empty"
  /\ tmp' = "partial" /\ Goto("write")
  /\ UNCHANGED writing

\* A form of WriteString whose error is not looked at.
WriteStringUnchecked ==
  /\ pc = "write"
  /\ tmp' = "whole" \/ UNCHANGED tmp
  /\ Goto("close")
  /\ UNCHANGED writing

\* WriteString returns, with an error if it could not write all of the token.
WriteString ==
  /\ pc = "write"
  /\ \/ tmp' = "whole" /\ Goto("close")
     \/ WriteFails
  /\ UNCHANGED writing

CloseTemp ==
  /\ pc = "close"
  /\ \/ UNCHANGED tmp /\ Goto("rename")
     \/ WriteFails
  /\ UNCHANGED writing

\* A form of refreshAfter that waits for the whole lifetime.
RefreshAtExpiry(expiresIn) == Larger(expiresIn, Floor)

RefreshAfter(expiresIn) == Larger((expiresIn * 2) \div 3, Floor)

\* The temporary file takes the place of the token file, and main sets the timer.
Rename ==
  /\ pc = "rename"
  /\ \/ WriteFails /\ UNCHANGED <<file, due, failures>>
     \/ /\ file' = [token |-> tok, state |-> tmp]
        /\ tmp' = "none"
        /\ failures' = 0
        /\ \/ once /\ Exit("ok") /\ UNCHANGED due
           \/ ~once /\ Goto("wait") /\ due' = now + RefreshAfter(tok.life)
  /\ UNCHANGED <<once, now, cancelled, poll, refresh, tok, provider>>

-----------------------------------------------------------------------------
(* The loop around Refresh. *)

\* A refresh failed: it is tried again as if the token had RetryLife left.
Retry ==
  /\ Goto("wait")
  /\ failures' = failures + 1
  /\ due' = now + RefreshAfter(RetryLife)

\* The timer fires.  With the context cancelled the request fails at once.
SendRefresh ==
  /\ pc = "wait" /\ due <= now
  /\ \/ cancelled /\ Retry
     \/ ~cancelled /\ Goto("refresh") /\ due' = now + Timeout /\ UNCHANGED failures
  /\ UNCHANGED <<once, now, cancelled, poll, refresh, tok, tmp, file, provider>>

Refreshed ==
  /\ pc = "refresh" /\ reply.kind = "token"
  /\ tok' = reply.token
  /\ refresh' = current
  /\ reply' = NoReply
  /\ Goto("create")
  /\ UNCHANGED <<once, now, due, cancelled, poll, tmp, file, session, current, lost, failures>>

\* A form of RefreshFails that treats every failure as the end of the session.
RefreshFailsHard ==
  /\ pc = "refresh"
  /\ reply' = NoReply
  /\ Exit("session")
  /\ UNCHANGED <<once, now, due, cancelled, poll, refresh, tok, tmp, file, session, current, lost,
                 failures>>

\* An error or the timeout, although the provider may have acted on the request.
RefreshFails ==
  /\ pc = "refresh"
  /\ lost' = (lost \/ reply.kind = "token")
  /\ reply' = NoReply
  /\ Retry
  /\ UNCHANGED <<once, now, cancelled, poll, refresh, tok, tmp, file, session, current>>

\* invalid_grant.
SessionOver ==
  /\ pc = "refresh" /\ reply.kind = "invalid_grant"
  /\ Exit("session")
  /\ UNCHANGED <<once, now, due, cancelled, poll, refresh, tok, tmp, file, provider, failures>>

\* select: the context was cancelled.  A timer that is due as well may win.
Stopped ==
  /\ pc = "wait" /\ cancelled
  /\ Exit("stopped")
  /\ UNCHANGED <<once, now, due, cancelled, poll, refresh, tok, tmp, file, provider, failures>>

-----------------------------------------------------------------------------
(* The rest of the world. *)

\* The provider accepts the refresh token in hand.
Accepted == session /\ (Rotates => refresh = current)

\* It issues a token: for the device code the user approved, or for a refresh
\* token, which it may replace as it does so.  Acting after the client gave up
\* comes to the same as acting just before.
Issues ==
  /\ reply.kind = "none"
  /\ \/ pc = "poll" /\ UNCHANGED current
     \/ pc = "refresh" /\ Accepted /\ current' = IF Rotates THEN current + 1 ELSE current
  /\ \E l \in Life : reply' = [kind |-> "token", token |-> [at |-> now, life |-> l]]
  /\ UNCHANGED <<once, now, pc, exit, due, cancelled, poll, refresh, tok, tmp, file, session, lost,
                 failures>>

\* It refuses the refresh token.
Refuses ==
  /\ pc = "refresh" /\ reply.kind = "none"
  /\ ~Accepted
  /\ reply' = [NoReply EXCEPT !.kind = "invalid_grant"]
  /\ UNCHANGED <<once, now, pc, exit, due, cancelled, poll, refresh, tok, tmp, file, session,
                 current, lost, failures>>

Interrupt ==
  /\ ~cancelled /\ pc # "exited"
  /\ cancelled' = TRUE
  /\ UNCHANGED <<once, now, pc, exit, due, poll, refresh, tok, tmp, file, provider, failures>>

Killed ==
  /\ pc # "exited"
  /\ Exit("killed")
  /\ UNCHANGED <<once, now, due, cancelled, poll, refresh, tok, tmp, file, provider, failures>>

SessionEnds ==
  /\ session
  /\ session' = FALSE
  /\ UNCHANGED <<once, now, pc, exit, due, cancelled, poll, refresh, tok, tmp, file, reply,
                 current, lost, failures>>

Tick ==
  /\ now < MaxTime
  /\ pc \in {"sleep", "poll", "wait", "refresh"} /\ now < due
  /\ now' = now + 1
  /\ UNCHANGED <<once, pc, exit, due, cancelled, poll, refresh, tok, tmp, file, provider, failures>>

Client ==
  \/ Begin \/ SendPoll \/ Polled
  \/ CreateTemp \/ WriteBegun \/ WriteString \/ CloseTemp \/ Rename
  \/ SendRefresh \/ Refreshed \/ RefreshFails \/ SessionOver \/ Stopped

Next == Client \/ Issues \/ Refuses \/ Interrupt \/ Killed \/ SessionEnds \/ Tick

\* The client runs, and time passes.
Fairness == WF_vars(Client) /\ WF_vars(Tick)

Spec == Init /\ [][Next]_vars /\ Fairness

-----------------------------------------------------------------------------
(* Properties. *)

(***************************************************************************)
(* Whoever opens the token file finds a whole token, also when the client  *)
(* is killed between any two steps of WriteTokenFile, or one of them fails *)
(* with part of the token written.                                         *)
(***************************************************************************)
TokenFileWhole == file.state \in {"none", "whole"}

(***************************************************************************)
(* Polls are never closer together than the interval the provider asked    *)
(* for, one second at least, and further apart with every slow_down.       *)
(***************************************************************************)
PollPace ==
  [][SendPoll => now - lastPoll >= Larger(asked, 1) + Backoff * slowed]_vars

(***************************************************************************)
(* The token file holds an unexpired token for as long as the client runs, *)
(* also through failed refreshes, as many as fit in the last third of the  *)
(* token's lifetime (refreshAfter and the retry after an error) when every *)
(* request, the one that fetched the token included, takes its full        *)
(* timeout; provided the floor on the wait is not above two thirds of that *)
(* lifetime.                                                               *)
(***************************************************************************)
FreshDespiteFailures ==
  /\ pc # "exited" /\ file.state # "none"
  /\ 3 * Floor <= 2 * file.token.life
  /\ 3 * ((failures + 2) * Timeout + failures * Larger((2 * RetryLife) \div 3, Floor))
       < file.token.life
  => now < file.token.at + file.token.life

(***************************************************************************)
(* The client gives up with "session expired" only when the session is     *)
(* over, or when an answer that carried a new single-use refresh token was *)
(* lost on the way: other failures are retried.                            *)
(***************************************************************************)
EndsOnlyWithSession == exit = "session" => ~session \/ (Rotates /\ lost)

(***************************************************************************)
(* Signing in ends: by approval, by refusal, or because the device code    *)
(* ran out, however often the provider answers slow_down, and however long *)
(* it takes to answer.                                                     *)
(***************************************************************************)
SigningIn == pc \in {"sleep", "poll"}
LoginEnds == SigningIn /\ expires ~> ~SigningIn
=============================================================================
