-------------------------- MODULE DeviceLoginProofs ---------------------------
(***************************************************************************)
(* Proofs about the device login, for all intervals, lifetimes, timeouts   *)
(* and back-offs and a clock of any length.                                *)
(***************************************************************************)
EXTENDS DeviceLogin, TLAPS

\* The interval in force: what the provider asked for, and a step per slow_down.
Pace == Larger(asked, 1) + Backoff * slowed

\* Until when the token in the file is left alone, after that many failures.
Patience ==
  Timeout + RefreshAfter(file.token.life) + failures * (Timeout + RefreshAfter(RetryLife))

Writing == pc \in {"create", "write", "close", "rename"}
Asking == pc \in {"poll", "refresh"}

(***************************************************************************)
(* The inductive invariant, in five parts besides the types.  The pace: a  *)
(* client asleep is due an interval or more after its last poll.  The      *)
(* answer: it is on its way only while the client waits for it, and what   *)
(* it carries was issued within the last Timeout.                          *)
(***************************************************************************)
PaceInv ==
  /\ pc = "start" => slowed = 0
  /\ SigningIn => interval = Pace /\ lastPoll <= now
  /\ pc = "sleep" => due >= lastPoll + interval

ReplyInv ==
  /\ pc \notin {"poll", "refresh", "exited"} => reply = NoReply
  /\ Asking \/ pc = "wait" => now <= due
  /\ Asking => due <= now + Timeout
  /\ Asking /\ reply.kind = "token" => due <= reply.token.at + Timeout
  /\ Writing => now <= tok.at + Timeout

\* The file: only a temporary file that holds all of the token is renamed.
FileInv ==
  /\ TokenFileWhole
  /\ pc \in {"close", "rename"} => tmp = "whole"

\* The wait: the client turns to the token in the file before Patience is over.
WaitInv ==
  file.state # "none" =>
    /\ ~SigningIn /\ pc # "start"
    /\ pc = "wait" => due <= file.token.at + Patience
    /\ pc = "refresh" => due <= file.token.at + Patience + Timeout
    /\ Writing => now <= file.token.at + Patience + Timeout

\* The session: the client is a refresh token behind only if an answer was
\* lost, or is on its way.
SessionInv ==
  /\ Rotates /\ ~lost /\ pc # "exited" =>
       current = IF pc = "refresh" /\ reply.kind = "token" THEN refresh + 1 ELSE refresh
  /\ pc = "refresh" /\ reply.kind = "invalid_grant" => ~session \/ (Rotates /\ lost)
  /\ EndsOnlyWithSession

IInv == TypeOK /\ PaceInv /\ ReplyInv /\ FileInv /\ WaitInv /\ SessionInv

\* The arithmetic of the waits stays within the naturals.
LEMMA LargerNat == ASSUME NEW x \in Nat, NEW y \in Nat PROVE Larger(x, y) \in Nat
  BY DEF Larger

\* refreshAfter waits a natural number of ticks, for a token of any lifetime.
LEMMA RefreshAfterNat == ASSUME NEW x \in Nat PROVE RefreshAfter(x) \in Nat
  BY DeviceLoginAssumption DEF RefreshAfter, Larger

\* So does the whole of the patience with a token.
LEMMA PatienceNat == TypeOK => Patience \in Nat
  <1> SUFFICES ASSUME TypeOK PROVE Patience \in Nat
    OBVIOUS
  <1>1. file.token.life \in Nat /\ failures \in Nat
    BY DEF TypeOK, Tokens
  <1>2. RefreshAfter(file.token.life) \in Nat /\ RefreshAfter(RetryLife) \in Nat /\ Timeout \in Nat
    BY <1>1, RefreshAfterNat, DeviceLoginAssumption
  <1> QED
    BY <1>1, <1>2 DEF Patience

\* The invariant holds before the client has started.
LEMMA InitIInv == Init => IInv
  <1> SUFFICES ASSUME Init PROVE IInv
    OBVIOUS
  <1>1. tok \in Tokens /\ file \in [token: Tokens, state: {"none", "empty", "partial", "whole"}]
    BY DEF Init, Tokens, NoToken, NoFile
  <1>2. reply \in [kind: {"none", "token", "invalid_grant"}, token: Tokens]
    BY DEF Init, Tokens, NoToken, NoReply
  <1>3. cancelled \in BOOLEAN /\ expires \in BOOLEAN /\ session \in BOOLEAN /\ lost \in BOOLEAN
    BY Zenon DEF Init
  <1>4. TypeOK
    BY <1>1, <1>2, <1>3 DEF Init, TypeOK
  <1>5. PaceInv /\ ReplyInv
    BY DEF Init, PaceInv, ReplyInv, SigningIn, Asking, Writing
  <1>6. FileInv /\ WaitInv
    BY DEF Init, FileInv, WaitInv, TokenFileWhole, NoFile, Writing
  <1>7. SessionInv
    BY DEF Init, SessionInv, EndsOnlyWithSession
  <1> QED
    BY <1>4, <1>5, <1>6, <1>7 DEF IInv

-----------------------------------------------------------------------------
(* The types. *)

\* What the loop of Poll assigns as it goes on.
LEMMA AgainStep ==
  ASSUME TypeOK, NEW n \in Nat, NEW l, NEW e, Again(n, now, l, e)
  PROVE  /\ due' \in Nat
         /\ \/ pc' = "sleep" /\ exit' = exit /\ due' = now + n
            \/ pc' = "exited" /\ exit' \in {"error", "expired"}
  BY DEF Again, Exit, Goto, TypeOK

\* Starting the device flow and polling (Start, Poll) keep the types.
LEMMA SignInType == TypeOK /\ (Begin \/ SendPoll \/ Polled) => TypeOK'
  <1> SUFFICES ASSUME TypeOK, Begin \/ SendPoll \/ Polled PROVE TypeOK'
    OBVIOUS
  <1> USE DeviceLoginAssumption
  <1>1. CASE Begin
    <2>1. CASE Exit("error") /\ UNCHANGED <<due, poll>>
      BY <1>1, <2>1 DEF Begin, Exit, TypeOK, poll, provider
    <2>2. ASSUME NEW n \in Interval, NEW c \in CodeLife,
                 interval' = Larger(n, 1), deadline' = now + c, expires' = (c > 0), asked' = n,
                 lastPoll' = now, Again(interval', now, deadline', expires'), UNCHANGED slowed
          PROVE  TypeOK'
      <3>1. interval' \in Nat /\ deadline' \in Nat /\ expires' \in BOOLEAN /\ asked' \in Nat
        BY <2>2, LargerNat DEF TypeOK
      <3>2. /\ due' \in Nat
            /\ \/ pc' = "sleep" /\ exit' = exit /\ due' = now + interval'
               \/ pc' = "exited" /\ exit' \in {"error", "expired"}
        BY <2>2, <3>1, AgainStep
      <3> QED
        BY <1>1, <2>2, <3>1, <3>2 DEF Begin, TypeOK, provider
    <2> QED
      BY <1>1, <2>1, <2>2 DEF Begin
  <1>2. CASE SendPoll
    BY <1>2 DEF SendPoll, Exit, Goto, TypeOK, provider
  <1>3. CASE Polled
    <2>0. /\ pc = "poll" /\ reply' = NoReply /\ reply' \in [kind: {"none", "token", "invalid_grant"}, token: Tokens]
          /\ UNCHANGED <<once, now, cancelled, refresh, tmp, file, session, current, lost, failures>>
      BY <1>3 DEF Polled, NoReply, NoToken, Tokens
    <2>1. CASE /\ tok' = reply.token /\ Goto("create")
               /\ interval' = 0 /\ deadline' = 0 /\ expires' = FALSE
               /\ asked' = 0 /\ lastPoll' = 0 /\ slowed' = 0 /\ UNCHANGED due
      <3>1. tok' \in Tokens
        BY <2>1 DEF TypeOK
      <3>2. expires' \in BOOLEAN
        BY <2>1, Zenon
      <3> QED
        BY <2>0, <2>1, <3>1, <3>2 DEF Goto, TypeOK
    <2>2. CASE Again(interval, now, deadline, expires) /\ UNCHANGED <<poll, tok>>
      <3>1. /\ due' \in Nat
            /\ \/ pc' = "sleep" /\ exit' = exit /\ due' = now + interval
               \/ pc' = "exited" /\ exit' \in {"error", "expired"}
        BY <2>2, AgainStep DEF TypeOK
      <3> QED
        BY <2>0, <2>2, <3>1 DEF TypeOK, poll
    <2>3. CASE /\ SlowDown /\ slowed' = slowed + 1 /\ Again(interval', now, deadline, expires)
               /\ UNCHANGED <<deadline, expires, asked, lastPoll, tok>>
      <3>1. interval' \in Nat /\ slowed' \in Nat
        BY <2>3 DEF SlowDown, TypeOK
      <3>2. /\ due' \in Nat
            /\ \/ pc' = "sleep" /\ exit' = exit /\ due' = now + interval'
               \/ pc' = "exited" /\ exit' \in {"error", "expired"}
        BY <2>3, <3>1, AgainStep
      <3>3. UNCHANGED <<deadline, expires, asked, lastPoll, tok>>
        BY <2>3, Zenon
      <3>4. pc' \in {"sleep", "exited"} /\ (pc' = "exited" <=> exit' # "running")
            /\ exit' \in {"running", "error", "expired"}
        BY <2>0, <3>2 DEF TypeOK
      <3> QED
        BY <2>0, <3>1, <3>2, <3>3, <3>4 DEF TypeOK
    <2>4. ASSUME NEW why \in {"denied", "expired", "error"}, Exit(why), UNCHANGED <<due, poll, tok>>
          PROVE  TypeOK'
      BY <2>0, <2>4 DEF Exit, TypeOK, poll
    <2> QED
      BY <1>3, <2>1, <2>2, <2>3, <2>4, Zenon DEF Polled
  <1> QED
    BY <1>1, <1>2, <1>3

\* So do WriteTokenFile and the loop around Refresh.
LEMMA KeepType ==
  /\ TypeOK
  /\ \/ CreateTemp \/ WriteBegun \/ WriteString \/ CloseTemp \/ Rename
     \/ SendRefresh \/ Refreshed \/ RefreshFails \/ SessionOver
  => TypeOK'
  <1> SUFFICES ASSUME TypeOK,
                      \/ CreateTemp \/ WriteBegun \/ WriteString \/ CloseTemp \/ Rename
                      \/ SendRefresh \/ Refreshed \/ RefreshFails \/ SessionOver
               PROVE  TypeOK'
    OBVIOUS
  <1>0. /\ RefreshAfter(tok.life) \in Nat /\ RefreshAfter(RetryLife) \in Nat /\ Timeout \in Nat
        /\ NoReply \in [kind: {"none", "token", "invalid_grant"}, token: Tokens]
    BY RefreshAfterNat, DeviceLoginAssumption DEF TypeOK, Tokens, NoReply, NoToken
  <1>1. CASE CreateTemp
    BY <1>1 DEF CreateTemp, WriteFails, writing, Exit, Goto, TypeOK, poll, provider
  <1>2. CASE WriteBegun
    BY <1>2 DEF WriteBegun, writing, Goto, TypeOK, poll, provider
  <1>3. CASE WriteString
    BY <1>3 DEF WriteString, WriteFails, writing, Exit, Goto, TypeOK, poll, provider
  <1>4. CASE CloseTemp
    BY <1>4 DEF CloseTemp, WriteFails, writing, Exit, Goto, TypeOK, poll, provider
  <1>5. CASE Rename
    <2>1. CASE WriteFails /\ UNCHANGED <<file, due, failures>>
      BY <1>5, <2>1 DEF Rename, WriteFails, Exit, TypeOK, poll, provider
    <2>2. CASE /\ file' = [token |-> tok, state |-> tmp] /\ tmp' = "none" /\ failures' = 0
               /\ \/ once /\ Exit("ok") /\ UNCHANGED due
                  \/ ~once /\ Goto("wait") /\ due' = now + RefreshAfter(tok.life)
      <3>1. file' \in [token: Tokens, state: {"none", "empty", "partial", "whole"}]
        BY <2>2 DEF TypeOK
      <3>2. due' \in Nat
        BY <1>0, <2>2 DEF TypeOK
      <3> QED
        BY <1>5, <2>2, <3>1, <3>2 DEF Rename, Exit, Goto, TypeOK, poll, provider
    <2> QED
      BY <1>5, <2>1, <2>2 DEF Rename
  <1>6. CASE SendRefresh
    BY <1>0, <1>6 DEF SendRefresh, Retry, Goto, TypeOK, poll, provider
  <1>7. CASE Refreshed
    BY <1>0, <1>7 DEF Refreshed, Goto, TypeOK, poll
  <1>8. CASE RefreshFails
    <2>1. lost' \in BOOLEAN
      BY <1>8, Zenon DEF RefreshFails
    <2> QED
      BY <1>0, <1>8, <2>1 DEF RefreshFails, Retry, Goto, TypeOK, poll
  <1>9. CASE SessionOver
    BY <1>9 DEF SessionOver, Exit, TypeOK, poll, provider
  <1> QED
    BY <1>1, <1>2, <1>3, <1>4, <1>5, <1>6, <1>7, <1>8, <1>9

\* So do the provider, the signals and the clock.
LEMMA WorldType ==
  TypeOK /\ (Stopped \/ Issues \/ Refuses \/ Interrupt \/ Killed \/ SessionEnds \/ Tick) => TypeOK'
  <1> SUFFICES ASSUME TypeOK, Stopped \/ Issues \/ Refuses \/ Interrupt \/ Killed \/ SessionEnds \/ Tick
               PROVE  TypeOK'
    OBVIOUS
  <1>1. CASE Stopped
    BY <1>1, ZenonT(60) DEF Stopped, Exit, TypeOK, poll, provider
  <1>2. CASE Issues
    <2>1. PICK l \in Life : reply' = [kind |-> "token", token |-> [at |-> now, life |-> l]]
      BY <1>2 DEF Issues
    <2>2. reply' \in [kind: {"none", "token", "invalid_grant"}, token: Tokens]
      BY <2>1, DeviceLoginAssumption, Zenon DEF Tokens, TypeOK
    <2>3. current' \in Nat
      BY <1>2 DEF Issues, TypeOK
    <2> QED
      BY <1>2, <2>2, <2>3, ZenonT(60) DEF Issues, TypeOK, poll
  <1>3. CASE Refuses
    <2>1. reply' = [NoReply EXCEPT !.kind = "invalid_grant"]
      BY <1>3 DEF Refuses
    <2>2. reply' \in [kind: {"none", "token", "invalid_grant"}, token: Tokens]
      BY <2>1 DEF NoReply, NoToken, Tokens
    <2> QED
      BY <1>3, <2>2 DEF Refuses, TypeOK, poll
  <1>4. CASE Interrupt
    BY <1>4 DEF Interrupt, TypeOK, poll, provider
  <1>5. CASE Killed
    BY <1>5 DEF Killed, Exit, TypeOK, poll, provider
  <1>6. CASE SessionEnds
    <2>1. session' \in BOOLEAN
      BY <1>6, Zenon DEF SessionEnds
    <2> QED
      BY <1>6, <2>1 DEF SessionEnds, TypeOK, poll
  <1>7. CASE Tick
    BY <1>7 DEF Tick, TypeOK, poll, provider
  <1> QED
    BY <1>1, <1>2, <1>3, <1>4, <1>5, <1>6, <1>7

\* Every step keeps the types.
LEMMA StepType == TypeOK /\ [Next]_vars => TypeOK'
  <1>1. TypeOK /\ UNCHANGED vars => TypeOK'
    BY DEF TypeOK, vars, poll, provider
  <1> QED
    BY <1>1, SignInType, KeepType, WorldType DEF Next, Client

-----------------------------------------------------------------------------
(* The other parts of the invariant. *)

\* Every step keeps the pace: only Poll's own steps touch it.
LEMMA StepPace == TypeOK /\ PaceInv /\ ReplyInv /\ [Next]_vars => PaceInv'
  <1> SUFFICES ASSUME TypeOK, PaceInv, ReplyInv, [Next]_vars PROVE PaceInv'
    OBVIOUS
  <1> USE DeviceLoginAssumption DEF SigningIn
  <1>1. CASE Begin
    <2>1. CASE Exit("error")
      BY <2>1 DEF Exit, PaceInv
    <2>2. ASSUME NEW n \in Interval, NEW c \in CodeLife,
                 interval' = Larger(n, 1), asked' = n, lastPoll' = now,
                 Again(interval', now, deadline', expires'), UNCHANGED slowed
          PROVE  PaceInv'
      <3>1. Larger(n, 1) \in Nat
        BY LargerNat, Zenon
      <3>2. slowed' = 0
        BY <1>1, <2>2 DEF Begin, PaceInv
      <3>3. Pace' = Larger(n, 1)
        BY <2>2, <3>1, <3>2 DEF Pace
      <3>4. \/ pc' = "sleep" /\ due' = now + interval'
            \/ pc' = "exited"
        BY <2>2, <3>1, AgainStep
      <3>5. now' = now /\ now \in Nat
        BY <1>1 DEF Begin, TypeOK
      <3> QED
        BY <2>2, <3>1, <3>3, <3>4, <3>5 DEF PaceInv
    <2> QED
      BY <1>1, <2>1, <2>2 DEF Begin
  <1>2. CASE SendPoll
    BY <1>2 DEF SendPoll, Exit, Goto, PaceInv, Pace, TypeOK
  <1>3. CASE Polled
    <2>0. pc = "poll" /\ interval = Pace /\ lastPoll <= now /\ now' = now
      BY <1>3 DEF Polled, PaceInv
    <2>1. CASE Goto("create")
      BY <2>1 DEF Goto, PaceInv
    <2>2. CASE Again(interval, now, deadline, expires) /\ UNCHANGED <<poll, tok>>
      <3>1. \/ pc' = "sleep" /\ due' = now + interval
            \/ pc' = "exited"
        BY <2>2, AgainStep DEF TypeOK
      <3>2. Pace' = Pace /\ interval' = interval /\ lastPoll' = lastPoll
        BY <2>2 DEF Pace, poll
      <3> QED
        BY <2>0, <3>1, <3>2 DEF PaceInv, TypeOK
    <2>3. CASE /\ SlowDown /\ slowed' = slowed + 1 /\ Again(interval', now, deadline, expires)
               /\ UNCHANGED <<deadline, expires, asked, lastPoll, tok>>
      <3>1. interval' = interval + Backoff /\ interval' \in Nat
        BY <2>3 DEF SlowDown, TypeOK
      <3>2. Larger(asked, 1) \in Nat /\ slowed \in Nat
        BY LargerNat DEF TypeOK
      <3>3. Backoff * (slowed + 1) = Backoff * slowed + Backoff /\ Backoff * slowed \in Nat
        BY <3>2
      <3>4. Pace' = Larger(asked, 1) + Backoff * (slowed + 1)
        BY <2>3 DEF Pace
      <3>5. interval' = Pace'
        BY <2>0, <3>1, <3>2, <3>3, <3>4 DEF Pace
      <3>6. \/ pc' = "sleep" /\ due' = now + interval'
            \/ pc' = "exited"
        BY <2>3, <3>1, AgainStep
      <3> QED
        BY <2>0, <2>3, <3>1, <3>5, <3>6 DEF PaceInv, TypeOK
    <2>4. ASSUME NEW why, Exit(why) PROVE PaceInv'
      BY <2>4, Zenon DEF Exit, PaceInv
    <2> QED
      BY <1>3, <2>1, <2>2, <2>3, <2>4 DEF Polled
  <1>4. CASE Tick
    BY <1>4 DEF Tick, PaceInv, Pace, TypeOK, poll
  <1>5. CASE CreateTemp \/ WriteBegun \/ WriteString \/ CloseTemp \/ Rename
    BY <1>5, Zenon DEF CreateTemp, WriteBegun, WriteString, CloseTemp, Rename, WriteFails, Exit, Goto, PaceInv
  <1>6. CASE SendRefresh \/ Refreshed \/ RefreshFails \/ SessionOver \/ Stopped \/ Killed
    BY <1>6 DEF SendRefresh, Refreshed, RefreshFails, SessionOver, Stopped, Killed, Retry, Exit, Goto, PaceInv
  <1>7. CASE Issues \/ Refuses \/ Interrupt \/ SessionEnds \/ UNCHANGED vars
    BY <1>7 DEF Issues, Refuses, Interrupt, SessionEnds, vars, poll, PaceInv, Pace
  <1> QED
    BY <1>1, <1>2, <1>3, <1>4, <1>5, <1>6, <1>7 DEF Next, Client

\* An answer that is on its way is as old as the request at most.
LEMMA StepReply == TypeOK /\ ReplyInv /\ [Next]_vars => ReplyInv'
  <1> SUFFICES ASSUME TypeOK, ReplyInv, [Next]_vars PROVE ReplyInv'
    BY Zenon
  <1> USE DeviceLoginAssumption DEF Asking, Writing
  <1>1. CASE Begin
    BY <1>1, Zenon DEF Begin, Again, Exit, Goto, ReplyInv, provider
  <1>2. CASE SendPoll
    BY <1>2 DEF SendPoll, Exit, Goto, ReplyInv, TypeOK, NoReply, provider
  <1>3. CASE Polled
    BY <1>3, SMTT(60) DEF Polled, Again, Exit, Goto, ReplyInv, TypeOK, Tokens
  <1>4. CASE CreateTemp \/ WriteBegun \/ WriteString \/ CloseTemp
    BY <1>4 DEF CreateTemp, WriteBegun, WriteString, CloseTemp, WriteFails, writing, Exit, Goto, ReplyInv, provider
  <1>5. CASE Rename
    <2>1. RefreshAfter(tok.life) \in Nat
      BY RefreshAfterNat, Zenon DEF TypeOK, Tokens
    <2> QED
      BY <1>5, <2>1 DEF Rename, WriteFails, Exit, Goto, ReplyInv, TypeOK, provider
  <1>6. CASE SendRefresh
    BY <1>6, RefreshAfterNat DEF SendRefresh, Retry, Goto, ReplyInv, TypeOK, NoReply, provider
  <1>7. CASE Refreshed
    BY <1>7 DEF Refreshed, Goto, ReplyInv, TypeOK, Tokens
  <1>8. CASE RefreshFails
    BY <1>8, RefreshAfterNat, SMTT(60) DEF RefreshFails, Retry, Goto, ReplyInv, TypeOK
  <1>9. CASE SessionOver \/ Stopped \/ Killed
    BY <1>9, Zenon DEF SessionOver, Stopped, Killed, Exit, ReplyInv
  <1>10. CASE Issues
    <2>1. PICK l \in Life : reply' = [kind |-> "token", token |-> [at |-> now, life |-> l]]
      BY <1>10 DEF Issues
    <2>2. reply'.token.at = now /\ Asking
      BY <1>10, <2>1 DEF Issues
    <2> QED
      BY <1>10, <2>2, Zenon DEF Issues, ReplyInv, TypeOK
  <1>11. CASE Refuses
    <2>1. reply'.kind = "invalid_grant"
      BY <1>11, Zenon DEF Refuses, NoReply
    <2> QED
      BY <1>11, <2>1 DEF Refuses, ReplyInv
  <1>12. CASE Interrupt \/ SessionEnds \/ UNCHANGED vars
    BY <1>12, Zenon DEF Interrupt, SessionEnds, vars, provider, ReplyInv
  <1>13. CASE Tick
    BY <1>13 DEF Tick, ReplyInv, TypeOK, provider
  <1> QED
    BY <1>1, <1>2, <1>3, <1>4, <1>5, <1>6, <1>7, <1>8, <1>9, <1>10, <1>11, <1>12, <1>13 DEF Next, Client

\* Only Rename touches the token file, and only when all of the token is written.
LEMMA StepFile == FileInv /\ [Next]_vars => FileInv'
  <1> SUFFICES ASSUME FileInv, [Next]_vars PROVE FileInv'
    BY Zenon
  <1> USE DEF FileInv, TokenFileWhole
  <1>1. CASE Begin \/ SendPoll \/ Polled
    BY <1>1 DEF Begin, SendPoll, Polled, Again, Exit, Goto
  <1>2. CASE CreateTemp \/ WriteBegun
    BY <1>2 DEF CreateTemp, WriteBegun, WriteFails, writing, Exit, Goto
  <1>3. CASE WriteString \/ CloseTemp
    BY <1>3 DEF WriteString, CloseTemp, WriteFails, writing, Exit, Goto
  <1>4. CASE Rename
    BY <1>4 DEF Rename, WriteFails, Exit, Goto
  <1>5. CASE SendRefresh \/ Refreshed \/ RefreshFails \/ SessionOver \/ Stopped \/ Killed
    BY <1>5 DEF SendRefresh, Refreshed, RefreshFails, SessionOver, Stopped, Killed, Retry, Exit, Goto
  <1>6. CASE Issues \/ Refuses \/ Interrupt \/ SessionEnds \/ Tick \/ UNCHANGED vars
    BY <1>6 DEF Issues, Refuses, Interrupt, SessionEnds, Tick, vars
  <1> QED
    BY <1>1, <1>2, <1>3, <1>4, <1>5, <1>6 DEF Next, Client

\* One more failure is one more request and one more wait.
LEMMA RetryPatience ==
  ASSUME TypeOK, failures' = failures + 1, file' = file
  PROVE  /\ Patience' = Patience + Timeout + RefreshAfter(RetryLife)
         /\ Patience \in Nat /\ Timeout \in Nat /\ RefreshAfter(RetryLife) \in Nat
  <1> DEFINE R == Timeout + RefreshAfter(RetryLife)
             A == Timeout + RefreshAfter(file.token.life)
  <1>1. /\ RefreshAfter(file.token.life) \in Nat /\ RefreshAfter(RetryLife) \in Nat
        /\ Timeout \in Nat /\ failures \in Nat
    BY RefreshAfterNat, DeviceLoginAssumption DEF TypeOK, Tokens
  <1>2. R \in Nat /\ A \in Nat
    BY <1>1
  <1>3. Patience = A + failures * R /\ Patience' = A + (failures + 1) * R
    BY DEF Patience
  <1>4. R = Timeout + RefreshAfter(RetryLife)
    OBVIOUS
  <1> HIDE DEF R, A
  <1>5. (failures + 1) * R = failures * R + R /\ failures * R \in Nat
    BY <1>1, <1>2
  <1> QED
    BY <1>1, <1>2, <1>3, <1>4, <1>5

\* The steps that touch neither the file nor the number of failures.
LEMMA SamePatience == ASSUME UNCHANGED <<file, failures>> PROVE Patience' = Patience
  BY DEF Patience

\* Every step keeps the wait within the patience.
LEMMA StepWait == TypeOK /\ ReplyInv /\ WaitInv /\ [Next]_vars => WaitInv'
  <1> SUFFICES ASSUME TypeOK, ReplyInv, WaitInv, [Next]_vars PROVE WaitInv'
    BY Zenon
  <1> USE DEF Asking, Writing
  <1>0. Patience \in Nat /\ Timeout \in Nat /\ now \in Nat /\ due \in Nat /\ file.token.at \in Nat
    BY PatienceNat, DeviceLoginAssumption, Zenon DEF TypeOK, Tokens
  <1>1. CASE Begin \/ SendPoll \/ Polled
    BY <1>1, Zenon DEF Begin, SendPoll, Polled, Again, Exit, Goto, WaitInv, SigningIn
  <1>2. CASE CreateTemp \/ WriteBegun \/ WriteString \/ CloseTemp
    <2>1. Patience' = Patience
      BY <1>2, SamePatience, Zenon DEF CreateTemp, WriteBegun, WriteString, CloseTemp, writing
    <2> QED
      BY <1>2, <2>1, Zenon DEF CreateTemp, WriteBegun, WriteString, CloseTemp, WriteFails, writing, Exit, Goto,
                        WaitInv, SigningIn
  <1>3. CASE Rename
    <2>1. CASE pc' = "exited"
      BY <2>1, Zenon DEF WaitInv, SigningIn
    <2>2. CASE /\ file' = [token |-> tok, state |-> tmp] /\ failures' = 0
               /\ Goto("wait") /\ due' = now + RefreshAfter(tok.life)
      <3>1. RefreshAfter(tok.life) \in Nat /\ RefreshAfter(RetryLife) \in Nat /\ tok.at \in Nat
        BY RefreshAfterNat, DeviceLoginAssumption DEF TypeOK, Tokens
      <3>2. file'.token = tok
        BY <2>2, Zenon
      <3>3. Patience' = Timeout + RefreshAfter(tok.life)
        BY <1>0, <2>2, <3>1, <3>2 DEF Patience
      <3>4. now <= tok.at + Timeout
        BY <1>3, Zenon DEF Rename, ReplyInv
      <3>5. due' <= file'.token.at + Patience'
        BY <1>0, <2>2, <3>1, <3>2, <3>3, <3>4
      <3> QED
        BY <2>2, <3>5 DEF Goto, WaitInv, SigningIn
    <2> QED
      BY <1>3, <2>1, <2>2, Zenon DEF Rename, WriteFails, Exit
  <1>4. ASSUME pc = "wait", due <= now, Retry, UNCHANGED <<now, file>> PROVE WaitInv'
    <2>1. /\ Patience' = Patience + Timeout + RefreshAfter(RetryLife)
          /\ RefreshAfter(RetryLife) \in Nat
      BY <1>4, RetryPatience DEF Retry
    <2>2. now <= due
      BY <1>4, Zenon DEF ReplyInv
    <2> QED
      BY <1>0, <1>4, <2>1, <2>2 DEF Retry, Goto, WaitInv, SigningIn
  <1>5. ASSUME pc = "refresh", Retry, UNCHANGED <<now, file>> PROVE WaitInv'
    <2>1. /\ Patience' = Patience + Timeout + RefreshAfter(RetryLife)
          /\ RefreshAfter(RetryLife) \in Nat
      BY <1>5, RetryPatience DEF Retry
    <2>2. now <= due
      BY <1>5 DEF ReplyInv
    <2> QED
      BY <1>0, <1>5, <2>1, <2>2 DEF Retry, Goto, WaitInv, SigningIn
  <1>6. CASE SendRefresh
    <2>1. CASE Retry
      BY <1>4, <1>6, <2>1, Zenon DEF SendRefresh
    <2>2. CASE Goto("refresh") /\ due' = now + Timeout /\ UNCHANGED failures
      <3>1. Patience' = Patience
        BY <1>6, <2>2, SamePatience, Zenon DEF SendRefresh
      <3>2. now <= due
        BY <1>6, Zenon DEF SendRefresh, ReplyInv
      <3> QED
        BY <1>0, <1>6, <2>2, <3>1, <3>2 DEF SendRefresh, Goto, WaitInv, SigningIn
    <2> QED
      BY <1>6, <2>1, <2>2 DEF SendRefresh
  <1>7. CASE Refreshed
    <2>1. Patience' = Patience
      BY <1>7, SamePatience, Zenon DEF Refreshed
    <2>2. now <= due
      BY <1>7 DEF Refreshed, ReplyInv
    <2> QED
      BY <1>0, <1>7, <2>1, <2>2 DEF Refreshed, Goto, WaitInv, SigningIn
  <1>8. CASE RefreshFails
    BY <1>5, <1>8, Zenon DEF RefreshFails
  <1>9. CASE SessionOver \/ Stopped \/ Killed
    BY <1>9 DEF SessionOver, Stopped, Killed, Exit, WaitInv, SigningIn
  <1>10. CASE Issues \/ Refuses \/ Interrupt \/ SessionEnds \/ UNCHANGED vars
    <2>1. Patience' = Patience
      BY <1>10, SamePatience, Zenon DEF Issues, Refuses, Interrupt, SessionEnds, vars
    <2> QED
      BY <1>10, <2>1 DEF Issues, Refuses, Interrupt, SessionEnds, vars, WaitInv, SigningIn
  <1>11. CASE Tick
    <2>1. Patience' = Patience
      BY <1>11, SamePatience, Zenon DEF Tick
    <2> QED
      BY <1>11, <2>1 DEF Tick, WaitInv, SigningIn
  <1> QED
    BY <1>1, <1>2, <1>3, <1>6, <1>7, <1>8, <1>9, <1>10, <1>11 DEF Next, Client

\* Every step keeps the client and the provider of one mind about the session.
LEMMA StepSession == TypeOK /\ ReplyInv /\ SessionInv /\ [Next]_vars => SessionInv'
  <1> SUFFICES ASSUME TypeOK, ReplyInv, SessionInv, [Next]_vars PROVE SessionInv'
    OBVIOUS
  <1> USE DEF SessionInv, EndsOnlyWithSession
  <1>1. CASE Begin \/ SendPoll
    BY <1>1, Zenon DEF Begin, SendPoll, Again, Exit, Goto, provider, TypeOK
  <1>2. CASE Polled
    BY <1>2, Zenon DEF Polled, Again, Exit, Goto, TypeOK
  <1>3. CASE CreateTemp \/ WriteBegun \/ WriteString \/ CloseTemp
    BY <1>3, Zenon DEF CreateTemp, WriteBegun, WriteString, CloseTemp, WriteFails, writing, Exit, Goto, provider, TypeOK
  <1>4. CASE Rename
    BY <1>4, Zenon DEF Rename, WriteFails, Exit, Goto, provider, TypeOK
  <1>5. CASE SendRefresh
    BY <1>5 DEF SendRefresh, Retry, Goto, provider, TypeOK, ReplyInv, NoReply
  <1>6. CASE Refreshed
    BY <1>6 DEF Refreshed, Goto, TypeOK
  <1>7. CASE RefreshFails
    <2>1. pc' = "wait" /\ exit' = exit /\ exit # "session"
      BY <1>7 DEF RefreshFails, Retry, Goto, TypeOK
    <2>2. ASSUME Rotates, ~lost' PROVE current' = refresh'
      BY <1>7, <2>2, ZenonT(60) DEF RefreshFails
    <2> QED
      BY <2>1, <2>2, Zenon
  <1>8. CASE SessionOver
    BY <1>8, Zenon DEF SessionOver, Exit, provider
  <1>9. CASE Stopped \/ Killed
    BY <1>9, Zenon DEF Stopped, Killed, Exit, provider
  <1>10. CASE Issues
    <2>1. reply'.kind = "token"
      BY <1>10 DEF Issues
    <2>2. CASE pc = "poll" /\ UNCHANGED current
      BY <1>10, <2>1, <2>2, Zenon DEF Issues, TypeOK
    <2>3. CASE pc = "refresh" /\ Accepted /\ current' = IF Rotates THEN current + 1 ELSE current
      BY <1>10, <2>1, <2>3 DEF Issues, Accepted, TypeOK
    <2> QED
      BY <1>10, <2>2, <2>3, Zenon DEF Issues
  <1>11. CASE Refuses
    <2>1. reply'.kind = "invalid_grant" /\ reply.kind = "none" /\ pc = "refresh"
      BY <1>11 DEF Refuses, NoReply
    <2>2. ~session \/ (Rotates /\ lost)
      BY <1>11, <2>1 DEF Refuses, Accepted
    <2> QED
      BY <1>11, <2>1, <2>2 DEF Refuses
  <1>12. CASE SessionEnds
    BY <1>12, Zenon DEF SessionEnds
  <1>13. CASE Interrupt \/ Tick \/ UNCHANGED vars
    BY <1>13 DEF Interrupt, Tick, vars, provider
  <1> QED
    BY <1>1, <1>2, <1>3, <1>4, <1>5, <1>6, <1>7, <1>8, <1>9, <1>10, <1>11, <1>12, <1>13, ZenonT(60) DEF Next, Client

-----------------------------------------------------------------------------
(* The theorems. *)

\* The invariant holds of every run.
THEOREM Invariance == Spec => []IInv
  <1>1. IInv /\ [Next]_vars => IInv'
    BY StepType, StepPace, StepReply, StepFile, StepWait, StepSession DEF IInv
  <1> QED
    BY <1>1, InitIInv, PTL DEF Spec

(***************************************************************************)
(* A kill between any two steps of WriteTokenFile, or an error in one of   *)
(* them with part of the token written, leaves the token file whole.       *)
(***************************************************************************)
THEOREM TokenFileAlwaysWhole == Spec => []TokenFileWhole
  <1>1. IInv => TokenFileWhole
    BY Zenon DEF IInv, FileInv
  <1> QED
    BY <1>1, Invariance, PTL

(***************************************************************************)
(* Poll keeps the pace the provider asked for, however often it is slowed. *)
(***************************************************************************)
THEOREM PollPaceKept == Spec => PollPace
  <1>1. IInv /\ SendPoll => now - lastPoll >= Larger(asked, 1) + Backoff * slowed
    BY DEF IInv, PaceInv, SigningIn, TypeOK, SendPoll, Pace
  <1>2. IInv /\ [Next]_vars => [SendPoll => now - lastPoll >= Larger(asked, 1) + Backoff * slowed]_vars
    BY <1>1
  <1> QED
    BY <1>2, Invariance, PTL DEF Spec, PollPace

(***************************************************************************)
(* The client reports the end of the session only for the session's end or *)
(* a lost single-use refresh token.                                        *)
(***************************************************************************)
THEOREM AlwaysEndsOnlyWithSession == Spec => []EndsOnlyWithSession
  <1>1. IInv => EndsOnlyWithSession
    BY Zenon DEF IInv, SessionInv
  <1> QED
    BY <1>1, Invariance, PTL

(***************************************************************************)
(* The last third of a token's life is room for its share of failures, the *)
(* time every one of their requests takes included.                        *)
(***************************************************************************)
THEOREM AlwaysFresh == Spec => []FreshDespiteFailures
  <1>1. IInv => FreshDespiteFailures
    <2> DEFINE L == file.token.life
               R == RefreshAfter(RetryLife)
               A == RefreshAfter(file.token.life)
               F == failures
    <2> SUFFICES ASSUME IInv, pc # "exited", file.state # "none", 3 * Floor <= 2 * L,
                        3 * ((F + 2) * Timeout + F * Larger((2 * RetryLife) \div 3, Floor)) < L
                 PROVE  now < file.token.at + L
      BY Zenon DEF FreshDespiteFailures
    <2>1. /\ L \in Nat /\ file.token.at \in Nat /\ now \in Nat /\ due \in Nat /\ F \in Nat
          /\ Timeout \in Nat
      BY DeviceLoginAssumption, Zenon DEF IInv, TypeOK, Tokens
    <2>2. R \in Nat /\ A \in Nat /\ R = Larger((2 * RetryLife) \div 3, Floor)
      BY <2>1, RefreshAfterNat, DeviceLoginAssumption DEF RefreshAfter
    <2>3. 3 * A <= 2 * L
      BY <2>1, DeviceLoginAssumption DEF RefreshAfter, Larger
    <2>4. Patience = Timeout + A + F * (Timeout + R)
      BY Zenon DEF Patience
    <2>5. now <= file.token.at + Patience + Timeout
      <3>1. Patience \in Nat
        BY PatienceNat, Zenon DEF IInv
      <3>2. pc \in {"wait", "refresh"} \/ Writing
        BY DEF IInv, TypeOK, WaitInv, SigningIn, Writing
      <3> QED
        BY <2>1, <3>1, <3>2 DEF IInv, WaitInv, ReplyInv, Asking
    <2>6. 3 * ((F + 2) * Timeout + F * R) < L
      BY <2>2
    <2> HIDE DEF L, R, A, F
    <2>7. F * (Timeout + R) = F * Timeout + F * R /\ (F + 2) * Timeout = F * Timeout + 2 * Timeout
      BY <2>1, <2>2
    <2>8. F * Timeout \in Nat /\ F * R \in Nat
      BY <2>1, <2>2
    <2> QED
      BY <2>1, <2>2, <2>3, <2>4, <2>5, <2>6, <2>7, <2>8
  <1> QED
    BY <1>1, Invariance, PTL

=============================================================================
