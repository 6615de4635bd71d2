------------------------------ MODULE Lifecycle ------------------------------
(***************************************************************************)
(* cmd/proxy: the life of the process.  main loads the configuration,      *)
(* opens the credential store, starts the two listeners, waits for a       *)
(* signal or for a listener to fail, and shuts the listeners down in turn  *)
(* under one deadline before it closes the store.  net/http's server (what *)
(* ListenAndServe and Shutdown do) is external.                            *)
(***************************************************************************)
EXTENDS Config

CONSTANTS
  File,          \* configuration files
  Env,           \* environments: the overrides, and the store key
  MaxRequests,   \* bound on the requests in flight on a listener
  NoConfig       \* nothing has been loaded

ASSUME LifecycleAssumption ==
  /\ File \subseteq ConfigType \cup {Undecodable} /\ Env \subseteq EnvType
  /\ MaxRequests \in Nat

Listener == {"main", "admin"}

VARIABLES
  file, env,     \* what the process is started with
  pc,            \* where main stands
  cfg,           \* the configuration in effect
  ctxDone,       \* a signal has been received
  store,         \* the credential store
  listener,      \* listener[l]: what ListenAndServe of l is at
  stopping,      \* stopping[l]: Shutdown has been called on l
  inflight,      \* inflight[l]: requests being served
  errCh,         \* values sent on errCh
  turn,          \* place in ShutdownOrder
  deadline,      \* of shutdownCtx
  exit           \* how the process ended

inputs == <<file, env>>
vars == <<inputs, pc, cfg, ctxDone, store, listener, stopping, inflight, errCh, turn, deadline, exit>>

\* Every variable keeps its type.
TypeOK ==
  /\ file \in File /\ env \in Env
  /\ pc \in {"load", "notify", "store", "assemble", "select", "shutdown", "drain", "close", "exited"}
  /\ ctxDone \in BOOLEAN
  /\ store \in {"none", "open", "closed"}
  /\ listener \in [Listener -> {"off", "starting", "listening", "returned"}]
  /\ stopping \in [Listener -> BOOLEAN]
  /\ inflight \in [Listener -> 0..MaxRequests]
  /\ errCh \in 0..2
  /\ turn \in 1..2
  /\ deadline \in {"none", "running", "passed"}
  /\ exit \in {"none", "killed", "failed", "clean"}

Init ==
  /\ file \in File /\ env \in Env
  /\ pc = "load"
  /\ cfg = NoConfig
  /\ ctxDone = FALSE
  /\ store = "none"
  /\ listener = [l \in Listener |-> "off"]
  /\ stopping = [l \in Listener |-> FALSE]
  /\ inflight = [l \in Listener |-> 0]
  /\ errCh = 0
  /\ turn = 1
  /\ deadline = "none"
  /\ exit = "none"

Exit(how) == pc' = "exited" /\ exit' = how
Goto(l) == pc' = l /\ UNCHANGED exit

-----------------------------------------------------------------------------
(* main, up to the select. *)

Load ==
  /\ pc = "load"
  /\ \/ ~Accepted(file, env) /\ Exit("failed") /\ UNCHANGED cfg
     \/ Accepted(file, env) /\ cfg' = Effective(file, env) /\ Goto("notify")
  /\ UNCHANGED <<inputs, ctxDone, store, listener, stopping, inflight, errCh, turn, deadline>>

\* signal.NotifyContext.
Notify ==
  /\ pc = "notify"
  /\ Goto("store")
  /\ UNCHANGED <<inputs, cfg, ctxDone, store, listener, stopping, inflight, errCh, turn, deadline>>

\* The key is needed with valkey alone, and so is the connection.
newStore ==
  /\ pc = "store"
  /\ \/ /\ cfg.store = "memory" \/ env.store_key = "key"
        /\ store' = "open" /\ Goto("assemble")
     \/ cfg.store = "valkey" /\ Exit("failed") /\ UNCHANGED store
  /\ UNCHANGED <<inputs, cfg, ctxDone, listener, stopping, inflight, errCh, turn, deadline>>

\* oidc.New and server.New, which cannot fail on an accepted configuration, and the
\* two goroutines.
Assemble ==
  /\ pc = "assemble"
  /\ listener' = [l \in Listener |-> "starting"]
  /\ Goto("select")
  /\ UNCHANGED <<inputs, cfg, ctxDone, store, stopping, inflight, errCh, turn, deadline>>

-----------------------------------------------------------------------------
(* The listeners and what they serve. *)

Running == pc # "exited"

\* ListenAndServe returns, and the goroutine sends on the buffered channel.
ListenerReturns(l) ==
  /\ listener' = [listener EXCEPT ![l] = "returned"]
  /\ errCh' = errCh + 1

\* The socket is bound, unless it cannot be or Shutdown came first.
Bind(l) ==
  /\ Running /\ listener[l] = "starting"
  /\ \/ ~stopping[l] /\ listener' = [listener EXCEPT ![l] = "listening"] /\ UNCHANGED errCh
     \/ ListenerReturns(l)
  /\ UNCHANGED <<inputs, pc, cfg, ctxDone, store, stopping, inflight, turn, deadline, exit>>

AcceptFails(l) ==
  /\ Running /\ listener[l] = "listening"
  /\ ListenerReturns(l)
  /\ UNCHANGED <<inputs, pc, cfg, ctxDone, store, stopping, inflight, turn, deadline, exit>>

Arrive(l) ==
  /\ Running /\ listener[l] = "listening"
  /\ inflight[l] < MaxRequests
  /\ inflight' = [inflight EXCEPT ![l] = @ + 1]
  /\ UNCHANGED <<inputs, pc, cfg, ctxDone, store, listener, stopping, errCh, turn, deadline, exit>>

Finish(l) ==
  /\ Running /\ inflight[l] > 0
  /\ inflight' = [inflight EXCEPT ![l] = @ - 1]
  /\ UNCHANGED <<inputs, pc, cfg, ctxDone, store, listener, stopping, errCh, turn, deadline, exit>>

\* SIGINT or SIGTERM: it kills the process until NotifyContext has been called.
Signal ==
  /\ Running
  /\ \/ pc \in {"load", "notify"} /\ Exit("killed") /\ UNCHANGED ctxDone
     \/ pc \notin {"load", "notify"} /\ ~ctxDone /\ ctxDone' = TRUE /\ UNCHANGED <<pc, exit>>
  /\ UNCHANGED <<inputs, cfg, store, listener, stopping, inflight, errCh, turn, deadline>>

-----------------------------------------------------------------------------
(* main, from the select on. *)

AdminFirst == <<"admin", "main">>
ShutdownOrder == <<"main", "admin">>

Select ==
  /\ pc = "select"
  /\ ctxDone \/ errCh > 0
  /\ deadline' = "running"
  /\ Goto("shutdown")
  /\ UNCHANGED <<inputs, cfg, ctxDone, store, listener, stopping, inflight, errCh, turn>>

\* Shutdown closes the listening socket ...
Shutdown ==
  /\ pc = "shutdown"
  /\ LET l == ShutdownOrder[turn] IN
       /\ stopping' = [stopping EXCEPT ![l] = TRUE]
       /\ \/ listener[l] = "listening" /\ ListenerReturns(l)
          \/ listener[l] # "listening" /\ UNCHANGED <<listener, errCh>>
  /\ Goto("drain")
  /\ UNCHANGED <<inputs, cfg, ctxDone, store, inflight, turn, deadline>>

After == IF turn < 2 THEN turn' = turn + 1 /\ Goto("shutdown") ELSE UNCHANGED turn /\ Goto("close")

\* Forms of Drain that wait for the first listener alone, and that know no deadline.
DrainFirst ==
  /\ pc = "drain"
  /\ turn = 2 \/ inflight[ShutdownOrder[turn]] = 0 \/ deadline = "passed"
  /\ After
  /\ UNCHANGED <<inputs, cfg, ctxDone, store, listener, stopping, inflight, errCh, deadline>>

DrainAll ==
  /\ pc = "drain"
  /\ inflight[ShutdownOrder[turn]] = 0
  /\ After
  /\ UNCHANGED <<inputs, cfg, ctxDone, store, listener, stopping, inflight, errCh, deadline>>

\* ... and waits for the requests of its listener, or for the deadline.
Drain ==
  /\ pc = "drain"
  /\ inflight[ShutdownOrder[turn]] = 0 \/ deadline = "passed"
  /\ After
  /\ UNCHANGED <<inputs, cfg, ctxDone, store, listener, stopping, inflight, errCh, deadline>>

DeadlinePasses ==
  /\ Running /\ deadline = "running"
  /\ deadline' = "passed"
  /\ UNCHANGED <<inputs, pc, cfg, ctxDone, store, listener, stopping, inflight, errCh, turn, exit>>

\* The deferred calls; the process then ends, whatever the reason for the shutdown.
Close ==
  /\ pc = "close"
  /\ store' = "closed"
  /\ Exit("clean")
  /\ UNCHANGED <<inputs, cfg, ctxDone, listener, stopping, inflight, errCh, turn, deadline>>

Main == Load \/ Notify \/ newStore \/ Assemble \/ Select \/ Shutdown \/ Drain \/ Close

Next ==
  \/ Main \/ Signal \/ DeadlinePasses
  \/ \E l \in Listener : Bind(l) \/ AcceptFails(l) \/ Arrive(l) \/ Finish(l)

\* main runs on, ListenAndServe binds or fails, and time passes.  Nothing makes the
\* requests in flight end.
Fairness == WF_vars(Main) /\ WF_vars(DeadlinePasses) /\ \A l \in Listener : WF_vars(Bind(l))

Spec == Init /\ [][Next]_vars /\ Fairness

-----------------------------------------------------------------------------
(* Properties. *)

Distinct(seq, Of(_)) == Cardinality({Of(seq[i]) : i \in DOMAIN seq}) = Len(seq)

(***************************************************************************)
(* "A misconfigured proxy never starts" (internal/config), in what the     *)
(* other modules assume: once a listener is started the store is open, the *)
(* gateway's URL is the one the environment or else the file gives and is  *)
(* well formed, issuers can be told apart by name and by URL and each has  *)
(* an audience, the bounds are positive, and strict mode is off only where *)
(* the environment, or else the file, says so in as many words.            *)
(***************************************************************************)
ServesOnlySound ==
  \A l \in Listener : Running /\ listener[l] # "off" =>
    /\ store = "open"
    /\ cfg.s3_endpoint \in HttpURL
    /\ cfg.s3_endpoint = env.s3_endpoint \/ (env.s3_endpoint = "" /\ cfg.s3_endpoint = file.s3_endpoint)
    /\ cfg.issuers # <<>>
    /\ Distinct(cfg.issuers, LAMBDA x : x.name) /\ Distinct(cfg.issuers, LAMBDA x : x.issuer)
    /\ \A i \in DOMAIN cfg.issuers : cfg.issuers[i].audiences # {}
    /\ cfg.max_duration > 0 /\ cfg.clock_skew > 0
    /\ ~StrictEnabled(cfg) => env.strict = "false" \/ (env.strict # "true" /\ file.strict = "false")

(***************************************************************************)
(* No request is cut off within the ten seconds of grace: where the        *)
(* process has closed the store and left, no request was in flight on      *)
(* either listener, or the one deadline the two Shutdown calls share had   *)
(* passed.                                                                 *)
(***************************************************************************)
GraceKept == store = "closed" => deadline = "passed" \/ \A l \in Listener : inflight[l] = 0

(***************************************************************************)
(* While requests drain from the data path, and before the deadline, the   *)
(* admin listener has not been shut down: credentials can be revoked and   *)
(* metrics read as long as the process serves (the order of the Shutdown   *)
(* calls in main).                                                         *)
(***************************************************************************)
AdminOutlivesMain ==
  Running /\ inflight["main"] > 0 /\ deadline # "passed" => ~stopping["admin"]

(***************************************************************************)
(* A signal, and the failure of either listener, ends the process in the   *)
(* end: the proxy does not go on with one listener, requests that never    *)
(* finish do not hold it up, and neither does a listener that was not      *)
(* bound yet.                                                              *)
(***************************************************************************)
ProcessEnds == ctxDone \/ (\E l \in Listener : listener[l] = "returned") ~> pc = "exited"

=============================================================================
