------------------------------- MODULE MCProxy -------------------------------
(***************************************************************************)
(* A small instance of Proxy: two users, one of whose tokens outlives the  *)
(* other's, a token that is not acceptable, and one request for every way  *)
(* through the handlers.                                                   *)
(***************************************************************************)
EXTENDS Proxy, TLC

CONSTANTS k1, k2, alice, bob

MCToken == {[user |-> alice, exp |-> 2, ok |-> TRUE],
            [user |-> bob, exp |-> 9, ok |-> TRUE],
            [user |-> alice, exp |-> 9, ok |-> FALSE]}

Base == [endpoint |-> "s3", form |-> "ok", auth |-> "none", query |-> "none",
         token |-> [user |-> alice, exp |-> 9, ok |-> FALSE], duration |-> 0,
         akid |-> k1, session |-> k1, key |-> k1, date |-> 1, life |-> 1, flaw |-> "none"]

\* Durations: absent, one second, and one whose product overflows.
MCExchanges ==
  {[Base EXCEPT !.endpoint = "sts", !.token = t, !.duration = d] : t \in MCToken, d \in {0, 1, 9}}
  \cup {[Base EXCEPT !.endpoint = "sts", !.form = f] : f \in {"invalid", "role_denied"}}

MCBearer == {[Base EXCEPT !.auth = "bearer", !.token = t] : t \in MCToken}

MCHeader == {[Base EXCEPT !.auth = "sigv4", !.akid = a, !.session = a, !.key = a] : a \in {k1, k2}}
MCFlawed ==
  {[q EXCEPT !.flaw = f] : q \in {[Base EXCEPT !.auth = "sigv4"]},
                           f \in {"parse", "scope", "no_date", "bad_date", "scope_date", "bad_query"}}
  \cup {[Base EXCEPT !.auth = "sigv4", !.session = k2], [Base EXCEPT !.auth = "sigv4", !.key = k2]}

MCPresigned ==
  {[Base EXCEPT !.query = "sigv4", !.life = n] : n \in {0, 1, 2, 3}}
  \cup {[Base EXCEPT !.query = "sigv4", !.flaw = f] : f \in {"scope", "bad_query"}}
  \cup {[Base EXCEPT !.query = "sigv4", !.key = k2]}

MCPlain == {[Base EXCEPT !.query = v] : v \in {"none", "sigv2"}}

MCAdmin == {[Base EXCEPT !.endpoint = "admin"]}

MCRequest == MCExchanges \cup MCBearer \cup MCHeader \cup MCFlawed \cup MCPresigned
             \cup MCPlain \cup MCAdmin

\* For the run with several replicas, one of them open and without the bearer lane.
MCReplicas ==
  {[Base EXCEPT !.endpoint = "sts", !.token = t] : t \in {x \in MCToken : x.ok /\ x.user = alice}}
  \cup {[Base EXCEPT !.auth = "sigv4"]}
  \cup {[Base EXCEPT !.auth = a] : a \in {"other", "bearer"}}
  \cup MCAdmin

MCSymmetry == Permutations(Handler)
=============================================================================
