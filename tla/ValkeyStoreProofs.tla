-------------------------- MODULE ValkeyStoreProofs ---------------------------
(***************************************************************************)
(* Proofs about the valkey store, for any number of replicas and records:  *)
(* the client-side caches are coherent, and the store implements the       *)
(* abstract one.                                                           *)
(***************************************************************************)
EXTENDS ValkeyStore, TLAPS

(***************************************************************************)
(* What one replica knows of one record.  s: what is on the connection,    *)
(* e: the cache entry, v: the record on the server, iss: the record ever   *)
(* stored, up: the connection is up, trk: the records the server knows the *)
(* replica to hold, sd: the last answer of Get.                            *)
(***************************************************************************)
IsReply(m, a) == m.type = "reply" /\ m.key = a

Hold(s, e, a) ==
  \/ e.state = "value" /\ e.val # NoCreds
  \/ \E i \in DOMAIN s : s[i].type = "reply" /\ s[i].key = a /\ s[i].val # NoCreds

\* An invalidation follows the last reply with a record.
Follows(s, a) ==
  \E i \in DOMAIN s :
    /\ s[i] = Invalidation(a)
    /\ \A j \in i..Len(s) : ~(s[j].type = "reply" /\ s[j].key = a /\ s[j].val # NoCreds)

View(s, e, v, iss, up, trk, sd, a) ==
  /\ iss = NoCreds => e.state = "absent" /\ v = NoCreds
  /\ \A i \in DOMAIN s : IsReply(s[i], a) => e.state = "pending" /\ (s[i].val = NoCreds => v = NoCreds)
  /\ \A i, j \in DOMAIN s : IsReply(s[i], a) /\ IsReply(s[j], a) => i = j
  /\ e.state = "value" /\ e.val = NoCreds => v = NoCreds
  /\ sd = "missing" => v = NoCreds /\ iss # NoCreds /\ ~Hold(s, e, a)
  /\ up /\ Hold(s, e, a) => Follows(s, a) \/ (v # NoCreds /\ a \in trk)

(***************************************************************************)
(* The inductive invariant.  What the server holds is the record stored,   *)
(* and it holds it until the end of the retention; what it no longer holds *)
(* was withdrawn or is past that; and every replica has a sound view.      *)
(***************************************************************************)
Kept(a) ==
  /\ kv[a] # NoCreds => kv[a] = issued[a] /\ issued[a].exp + Retention <= until[a]
  /\ issued[a] # NoCreds /\ kv[a] = NoCreds => a \in withdrawn \/ issued[a].exp + Retention <= now

ViewOf(r, a) ==
  View(conn[r], cache[r][a], kv[a], issued[a], linked[r], tracked[r], said[r][a], a)

IInv ==
  /\ TypeOK
  /\ \A a \in AKID : Kept(a)
  /\ \A r \in Replica, a \in AKID : ViewOf(r, a)

\* Replies and invalidations are messages, and both empty forms of a cache entry are entries.
LEMMA MessageTypes ==
  ASSUME NEW a \in AKID
  PROVE  /\ Invalidation(a) \in Message
         /\ \A v \in Answer, t \in Int : Reply(a, v, t) \in Message
         /\ Absent \in Entry /\ Pending \in Entry
  BY DEF Invalidation, Reply, Message, Answer, Absent, Pending, Entry

-----------------------------------------------------------------------------
(* The view of a record through each kind of change. *)

\* A message about another record.
LEMMA ViewOther ==
  ASSUME NEW s \in Seq(Message), NEW m \in Message, NEW a \in AKID, m.key # a,
         NEW e, NEW v, NEW iss, NEW up, NEW trk, NEW sd,
         NEW T, a \in trk => a \in T,
         View(s, e, v, iss, up, trk, sd, a)
  PROVE  View(Append(s, m), e, v, iss, up, T, sd, a)
  <1> DEFINE t == Append(s, m)
  <1>1. /\ Len(t) = Len(s) + 1 /\ DOMAIN t = 1..Len(s) + 1 /\ DOMAIN s = 1..Len(s) /\ Len(s) \in Nat
        /\ t[Len(s) + 1] = m /\ \A i \in 1..Len(s) : t[i] = s[i]
    OBVIOUS
  <1> HIDE DEF t
  <1>2. Hold(t, e, a) => Hold(s, e, a)
    BY <1>1 DEF Hold
  <1>3. Follows(s, a) => Follows(t, a)
    BY <1>1 DEF Follows
  <1> QED
    BY <1>1, <1>2, <1>3 DEF View, IsReply, t

\* The record leaves the server, which tells the replica if it is tracked.
LEMMA ViewGone ==
  ASSUME NEW s \in Seq(Message), NEW a \in AKID,
         NEW e, NEW v, NEW iss, NEW up, NEW trk, NEW sd,
         NEW q, q = IF up /\ a \in trk THEN Append(s, Invalidation(a)) ELSE s,
         NEW T, View(s, e, v, iss, up, trk, sd, a)
  PROVE  View(q, e, NoCreds, iss, up, T, sd, a)
  <1>1. CASE up /\ a \in trk
    <2> DEFINE t == Append(s, Invalidation(a))
    <2>1. /\ Len(t) = Len(s) + 1 /\ DOMAIN t = 1..Len(s) + 1 /\ DOMAIN s = 1..Len(s) /\ Len(s) \in Nat
          /\ t[Len(s) + 1] = Invalidation(a) /\ \A i \in 1..Len(s) : t[i] = s[i]
      BY MessageTypes
    <2>2. Invalidation(a).type = "invalidate"
      BY DEF Invalidation
    <2> HIDE DEF t
    <2>3. Hold(t, e, a) => Hold(s, e, a)
      BY <2>1, <2>2 DEF Hold
    <2>4. Follows(t, a)
      BY <2>1, <2>2 DEF Follows
    <2>5. View(t, e, NoCreds, iss, up, T, sd, a)
      BY <2>1, <2>2, <2>3, <2>4 DEF View, IsReply
    <2> QED
      BY <1>1, <2>5, Zenon DEF t
  <1>2. CASE ~(up /\ a \in trk)
    BY <1>2 DEF View
  <1> QED
    BY <1>1, <1>2

\* The server answers a read.
LEMMA ViewReply ==
  ASSUME NEW s \in Seq(Message), NEW a \in AKID, NEW v \in Answer, NEW d \in Int,
         NEW e, NEW iss, NEW up, NEW trk, NEW sd,
         View(s, e, v, iss, up, trk, sd, a), NEW T, a \in T,
         e.state = "pending", \A i \in DOMAIN s : ~IsReply(s[i], a)
  PROVE  View(Append(s, Reply(a, v, d)), e, v, iss, up, T, sd, a)
  <1> DEFINE t == Append(s, Reply(a, v, d))
             m == Reply(a, v, d)
  <1>1. /\ Len(t) = Len(s) + 1 /\ DOMAIN t = 1..Len(s) + 1 /\ DOMAIN s = 1..Len(s) /\ Len(s) \in Nat
        /\ t[Len(s) + 1] = m /\ \A i \in 1..Len(s) : t[i] = s[i]
    BY MessageTypes
  <1>2. m.type = "reply" /\ m.key = a /\ m.val = v
    BY DEF Reply
  <1> HIDE DEF t, m
  <1>3. v = NoCreds => (Hold(t, e, a) => Hold(s, e, a))
    BY <1>1, <1>2 DEF Hold
  <1>4. v = NoCreds => (Follows(s, a) => Follows(t, a))
    BY <1>1, <1>2 DEF Follows
  <1>5. View(t, e, v, iss, up, T, sd, a)
    BY <1>1, <1>2, <1>3, <1>4 DEF View, IsReply
  <1> QED
    BY <1>5 DEF t

\* The replica reads a message.
LEMMA TailFacts ==
  ASSUME NEW s \in Seq(Message), s # <<>>
  PROVE  /\ Tail(s) \in Seq(Message) /\ Head(s) = s[1] /\ Head(s) \in Message
         /\ Len(s) \in Nat /\ Len(s) >= 1
         /\ DOMAIN s = 1..Len(s) /\ DOMAIN Tail(s) = 1..Len(s) - 1 /\ Len(Tail(s)) = Len(s) - 1
         /\ \A i \in 1..Len(s) - 1 : Tail(s)[i] = s[i + 1]
  OBVIOUS

\* Without its head the connection keeps an invalidation that follows the records,
\* unless that was the head.
LEMMA TailFollows ==
  ASSUME NEW s \in Seq(Message), s # <<>>, NEW a \in AKID, Follows(s, a)
  PROVE  \/ Follows(Tail(s), a)
         \/ /\ Head(s) = Invalidation(a)
            /\ \A j \in DOMAIN s : ~(s[j].type = "reply" /\ s[j].key = a /\ s[j].val # NoCreds)
  <1>1. PICK i \in DOMAIN s :
          /\ s[i] = Invalidation(a)
          /\ \A j \in i..Len(s) : ~(s[j].type = "reply" /\ s[j].key = a /\ s[j].val # NoCreds)
    BY DEF Follows
  <1> DEFINE t == Tail(s)
  <1>2. /\ t \in Seq(Message) /\ Head(s) = s[1]
        /\ Len(s) \in Nat /\ Len(s) >= 1
        /\ DOMAIN s = 1..Len(s) /\ DOMAIN t = 1..Len(s) - 1 /\ Len(t) = Len(s) - 1
        /\ \A k \in 1..Len(s) - 1 : t[k] = s[k + 1]
    BY TailFacts
  <1> HIDE DEF t
  <1>3. CASE i = 1
    BY <1>1, <1>2, <1>3
  <1>4. CASE i # 1
    <2>1. i - 1 \in DOMAIN t /\ t[i - 1] = Invalidation(a)
      BY <1>1, <1>2, <1>4
    <2>2. \A j \in i - 1..Len(t) : ~(t[j].type = "reply" /\ t[j].key = a /\ t[j].val # NoCreds)
      BY <1>1, <1>2, <1>4
    <2>3. Follows(t, a)
      BY <2>1, <2>2 DEF Follows
    <2> QED
      BY <2>3 DEF t
  <1> QED
    BY <1>3, <1>4

\* A message about another record is read.
LEMMA ViewReadOther ==
  ASSUME NEW s \in Seq(Message), s # <<>>, NEW a \in AKID, Head(s).key # a,
         NEW e, NEW v, NEW iss, NEW up, NEW trk, NEW sd,
         View(s, e, v, iss, up, trk, sd, a)
  PROVE  View(Tail(s), e, v, iss, up, trk, sd, a)
  <1> DEFINE t == Tail(s)
  <1>1. /\ Head(s) = s[1] /\ Len(s) \in Nat /\ Len(s) >= 1
        /\ DOMAIN s = 1..Len(s) /\ DOMAIN t = 1..Len(s) - 1 /\ Len(t) = Len(s) - 1
        /\ \A i \in 1..Len(s) - 1 : t[i] = s[i + 1]
    BY TailFacts
  <1>2. Follows(s, a) => Follows(t, a)
    BY TailFollows DEF Invalidation
  <1> HIDE DEF t
  <1>3. \A i \in DOMAIN t : i + 1 \in DOMAIN s /\ t[i] = s[i + 1]
    BY <1>1
  <1>4. Hold(t, e, a) => Hold(s, e, a)
    BY <1>3 DEF Hold
  <1>5. /\ \A i \in DOMAIN t : IsReply(t[i], a) => e.state = "pending" /\ (t[i].val = NoCreds => v = NoCreds)
        /\ \A i, j \in DOMAIN t : IsReply(t[i], a) /\ IsReply(t[j], a) => i = j
    BY <1>1, <1>3 DEF View
  <1> QED
    BY <1>2, <1>4, <1>5 DEF View, t

\* The reply is read, which was the only one for the record.
LEMMA ViewReadReply ==
  ASSUME NEW s \in Seq(Message), s # <<>>, NEW a \in AKID, IsReply(Head(s), a),
         NEW e, NEW v, NEW iss, NEW up, NEW trk, NEW sd, NEW d,
         View(s, e, v, iss, up, trk, sd, a)
  PROVE  View(Tail(s), [state |-> "value", val |-> Head(s).val, till |-> d], v, iss, up, trk,
              Verdict(Head(s).val), a)
  <1> DEFINE t == Tail(s)
             m == Head(s)
             f == [state |-> "value", val |-> m.val, till |-> d]
  <1>1. /\ m = s[1] /\ Len(s) \in Nat /\ Len(s) >= 1
        /\ DOMAIN s = 1..Len(s) /\ DOMAIN t = 1..Len(s) - 1
        /\ \A i \in 1..Len(s) - 1 : t[i] = s[i + 1]
    BY TailFacts
  <1>2. f.state = "value" /\ f.val = m.val
    OBVIOUS
  <1>3. Follows(s, a) => Follows(t, a)
    BY TailFollows DEF Invalidation, IsReply
  <1> HIDE DEF t, m, f
  <1>4. IsReply(m, a) /\ m.type = "reply" /\ m.key = a
    BY DEF IsReply, m
  <1>5. \A i \in DOMAIN t : ~IsReply(t[i], a)
    BY <1>1, <1>4, SMTT(30) DEF View
  <1>6. Hold(t, f, a) <=> m.val # NoCreds
    BY <1>2, <1>5 DEF Hold, IsReply
  <1>7. m.val # NoCreds => Hold(s, e, a)
    BY <1>1, <1>4 DEF Hold
  <1>8. e.state = "pending" /\ (m.val = NoCreds => v = NoCreds)
    BY <1>1, <1>4 DEF View
  <1>9. iss # NoCreds
    BY <1>8 DEF View
  <1>10. Verdict(m.val) = "missing" => m.val = NoCreds
    BY DEF Verdict
  <1>11. View(t, f, v, iss, up, trk, Verdict(m.val), a)
    BY <1>2, <1>3, <1>5, <1>6, <1>7, <1>8, <1>9, <1>10 DEF View
  <1> QED
    BY <1>11 DEF t, m, f

\* The invalidation is read.
LEMMA ViewReadInvalidation ==
  ASSUME NEW s \in Seq(Message), s # <<>>, NEW a \in AKID, Head(s).type = "invalidate",
         NEW e, NEW v, NEW iss, NEW up, NEW trk, NEW sd,
         View(s, e, v, iss, up, trk, sd, a)
  PROVE  View(Tail(s), IF e.state = "pending" THEN e ELSE Absent, v, iss, up, trk, sd, a)
  <1> DEFINE t == Tail(s)
             f == IF e.state = "pending" THEN e ELSE Absent
  <1>1. /\ Head(s) = s[1] /\ Len(s) \in Nat /\ Len(s) >= 1
        /\ DOMAIN s = 1..Len(s) /\ DOMAIN t = 1..Len(s) - 1 /\ Len(t) = Len(s) - 1
        /\ \A i \in 1..Len(s) - 1 : t[i] = s[i + 1]
    BY TailFacts
  <1>2. \/ ~Follows(s, a) \/ Follows(t, a)
        \/ \A j \in DOMAIN s : ~(s[j].type = "reply" /\ s[j].key = a /\ s[j].val # NoCreds)
    BY TailFollows
  <1>3. f.state \in {"pending", "absent"} /\ (e.state = "pending" => f.state = "pending")
        /\ (e.state = "absent" => f.state = "absent")
    BY DEF Absent
  <1> HIDE DEF t, f
  <1>4. \A i \in DOMAIN t : i + 1 \in DOMAIN s /\ t[i] = s[i + 1]
    BY <1>1
  <1>5. Hold(t, f, a) => \E j \in DOMAIN s : s[j].type = "reply" /\ s[j].key = a /\ s[j].val # NoCreds
    BY <1>3, <1>4 DEF Hold
  <1>6. Hold(t, f, a) => Hold(s, e, a)
    BY <1>5 DEF Hold
  <1>7. /\ \A i \in DOMAIN t : IsReply(t[i], a) => f.state = "pending" /\ (t[i].val = NoCreds => v = NoCreds)
        /\ \A i, j \in DOMAIN t : IsReply(t[i], a) /\ IsReply(t[j], a) => i = j
    BY <1>1, <1>3, <1>4 DEF View
  <1>8. View(t, f, v, iss, up, trk, sd, a)
    BY <1>2, <1>3, <1>5, <1>6, <1>7 DEF View
  <1> QED
    BY <1>8 DEF t, f

\* A cached answer, or a read that begins.
LEMMA ViewGet ==
  ASSUME NEW s, NEW a \in AKID, NEW e, NEW v, NEW iss, NEW up, NEW trk, NEW sd,
         View(s, e, v, iss, up, trk, sd, a)
  PROVE  /\ e.state = "value" => View(s, e, v, iss, up, trk, Verdict(e.val), a)
         /\ iss # NoCreds /\ e.state # "pending" => View(s, Pending, v, iss, up, trk, sd, a)
  <1>1. ASSUME e.state = "value" PROVE View(s, e, v, iss, up, trk, Verdict(e.val), a)
    <2>1. Verdict(e.val) = "missing" => e.val = NoCreds
      BY DEF Verdict
    <2>2. \A i \in DOMAIN s : ~IsReply(s[i], a)
      BY <1>1 DEF View
    <2>3. e.val = NoCreds => ~Hold(s, e, a)
      BY <2>2 DEF Hold, IsReply
    <2> QED
      BY <1>1, <2>1, <2>3 DEF View
  <1>2. ASSUME iss # NoCreds, e.state # "pending" PROVE View(s, Pending, v, iss, up, trk, sd, a)
    <2>1. \A i \in DOMAIN s : ~IsReply(s[i], a)
      BY <1>2 DEF View
    <2>2. Pending.state = "pending"
      BY DEF Pending, Absent
    <2>3. ~Hold(s, Pending, a)
      BY <2>1, <2>2 DEF Hold, IsReply
    <2> QED
      BY <1>2, <2>1, <2>2, <2>3 DEF View
  <1> QED
    BY <1>1, <1>2

\* The connection breaks, or is made anew.
LEMMA ViewLink ==
  ASSUME NEW s, NEW a \in AKID, NEW e, NEW v, NEW iss, NEW up, NEW trk, NEW sd, NEW u, NEW T,
         View(s, e, v, iss, up, trk, sd, a)
  PROVE  /\ ~u => View(s, e, v, iss, u, T, sd, a) /\ View(s, e, NoCreds, iss, u, T, sd, a)
         /\ View(<<>>, Absent, v, iss, u, T, sd, a)
  <1>1. Absent.state = "absent"
    BY DEF Absent
  <1>2. DOMAIN <<>> = {}
    OBVIOUS
  <1>3. ~Hold(<<>>, Absent, a)
    BY <1>1, <1>2 DEF Hold
  <1>4. View(<<>>, Absent, v, iss, u, T, sd, a)
    BY <1>1, <1>2, <1>3 DEF View
  <1> QED
    BY <1>4 DEF View

\* The record is stored for the first time.
LEMMA ViewStored ==
  ASSUME NEW s, NEW a \in AKID, NEW e, NEW v, NEW up, NEW trk, NEW sd, NEW c, c # NoCreds,
         View(s, e, v, NoCreds, up, trk, sd, a)
  PROVE  View(s, e, c, c, up, trk, sd, a)
  <1>1. e.state = "absent" /\ \A i \in DOMAIN s : ~IsReply(s[i], a)
    BY DEF View
  <1>2. ~Hold(s, e, a)
    BY <1>1 DEF Hold, IsReply
  <1> QED
    BY <1>1, <1>2 DEF View

-----------------------------------------------------------------------------
(* The steps. *)

\* The invariant holds of an empty server and empty caches.
LEMMA InitIInv == Init => IInv
  <1> SUFFICES ASSUME Init PROVE IInv
    OBVIOUS
  <1>1. TypeOK
    BY DEF Init, TypeOK, Answer, Absent, Entry
  <1>2. \A a \in AKID : Kept(a)
    BY DEF Init, Kept
  <1>3. ASSUME NEW r \in Replica, NEW a \in AKID PROVE ViewOf(r, a)
    <2>1. /\ conn[r] = <<>> /\ cache[r][a].state = "absent" /\ kv[a] = NoCreds
          /\ said[r][a] = "nothing" /\ DOMAIN conn[r] = {}
      BY DEF Init, Absent
    <2> QED
      BY <2>1 DEF ViewOf, View, Hold
  <1> QED
    BY <1>1, <1>2, <1>3 DEF IInv

\* A push keeps the types, and the views of the other records.
LEMMA PushTypes ==
  ASSUME TypeOK, NEW a \in AKID, Push(a)
  PROVE  conn' \in [Replica -> Seq(Message)] /\ tracked' \in [Replica -> SUBSET AKID]
  <1>1. \A r \in Replica : conn[r] \in Seq(Message)
    BY DEF TypeOK
  <1>2. \A r \in Replica : Append(conn[r], Invalidation(a)) \in Seq(Message)
    BY <1>1, MessageTypes
  <1> QED
    BY <1>1, <1>2 DEF Push, TypeOK

\* Invalidating one record leaves every replica's view of another as it was.
LEMMA PushViews ==
  ASSUME TypeOK, NEW a \in AKID, Push(a), NEW r \in Replica, NEW b \in AKID, b # a, ViewOf(r, b)
  PROVE  View(conn'[r], cache[r][b], kv[b], issued[b], linked[r], tracked'[r], said[r][b], b)
  <1>1. Invalidation(a) \in Message /\ Invalidation(a).key # b /\ conn[r] \in Seq(Message)
    BY MessageTypes, Zenon DEF Invalidation, TypeOK
  <1>2. CASE linked[r] /\ a \in tracked[r]
    <2>1. conn'[r] = Append(conn[r], Invalidation(a)) /\ tracked'[r] = tracked[r] \ {a}
      BY <1>2, Zenon DEF Push
    <2> QED
      BY <1>1, <2>1, ViewOther DEF ViewOf, TypeOK
  <1>3. CASE ~(linked[r] /\ a \in tracked[r])
    <2>1. conn'[r] = conn[r] /\ tracked'[r] = tracked[r] \ {a}
      BY <1>3 DEF Push
    <2> QED
      BY <2>1 DEF ViewOf, View
  <1> QED
    BY <1>2, <1>3

\* Invalidating a record makes every replica's view of it that of a record that is gone.
LEMMA PushView ==
  ASSUME TypeOK, NEW a \in AKID, Push(a), NEW r \in Replica, ViewOf(r, a)
  PROVE  View(conn'[r], cache[r][a], NoCreds, issued[a], linked[r], tracked'[r], said[r][a], a)
  <1>1. /\ conn'[r] = IF linked[r] /\ a \in tracked[r] THEN Append(conn[r], Invalidation(a)) ELSE conn[r]
        /\ tracked'[r] = tracked[r] \ {a} /\ conn[r] \in Seq(Message)
    BY DEF Push, TypeOK
  <1>2. View(conn[r], cache[r][a], kv[a], issued[a], linked[r], tracked[r], said[r][a], a)
    BY DEF ViewOf
  <1> QED
    BY <1>1, <1>2, ViewGone, ZenonT(60)

\* Valkey.Put keeps the invariant.
LEMMA PutIInv ==
  ASSUME IInv, NEW r \in Replica, NEW a \in AKID, NEW c \in Creds, Put(r, a, c)
  PROVE  IInv'
  <1>1. TypeOK
    BY DEF IInv
  <1>2. c # NoCreds /\ c \in Answer /\ c.exp \in Int /\ c.exp + Retention <= now + ServerTTL(c)
        /\ now + ServerTTL(c) \in Int
    BY <1>1, ValkeyStoreAssumption DEF Creds, Answer, ServerTTL, TypeOK
  <1>3. TypeOK'
    BY <1>1, <1>2, PushTypes DEF Put, TypeOK
  <1>4. ASSUME NEW b \in AKID PROVE Kept(b)'
    <2>1. Kept(b)
      BY DEF IInv
    <2> QED
      BY <1>1, <1>2, <2>1 DEF Kept, Put, TypeOK
  <1>5. ASSUME NEW q \in Replica, NEW b \in AKID PROVE ViewOf(q, b)'
    <2>1. ViewOf(q, b)
      BY DEF IInv
    <2>2. UNCHANGED <<cache, linked, said>>
      BY Zenon DEF Put
    <2>3. CASE b = a
      <3>1. View(conn'[q], cache[q][a], NoCreds, issued[a], linked[q], tracked'[q], said[q][a], a)
        BY <1>1, <2>1, <2>3, PushView DEF Put
      <3>2. issued[a] = NoCreds /\ kv'[a] = c /\ issued'[a] = c
        BY <1>1 DEF Put, TypeOK
      <3>3. View(conn'[q], cache[q][a], c, c, linked[q], tracked'[q], said[q][a], a)
        BY <1>2, <3>1, <3>2, ViewStored
      <3> QED
        BY <2>2, <2>3, <3>2, <3>3, Zenon DEF ViewOf
    <2>4. CASE b # a
      <3>1. View(conn'[q], cache[q][b], kv[b], issued[b], linked[q], tracked'[q], said[q][b], b)
        BY <1>1, <2>1, <2>4, PushViews DEF Put
      <3>2. kv'[b] = kv[b] /\ issued'[b] = issued[b]
        BY <1>1, <2>4 DEF Put, TypeOK
      <3> QED
        BY <2>2, <3>1, <3>2, Zenon DEF ViewOf
    <2> QED
      BY <2>3, <2>4
  <1> QED
    BY <1>3, <1>4, <1>5 DEF IInv

\* Removing the record of a, with a push.
LEMMA RemoveIInv ==
  ASSUME IInv, NEW a \in AKID, kv' = [kv EXCEPT ![a] = NoCreds], Push(a),
         withdrawn' \in SUBSET AKID, withdrawn \subseteq withdrawn',
         a \in withdrawn' \/ (kv[a] # NoCreds /\ until[a] <= now),
         UNCHANGED <<now, until, linked, cache, said, issued>>
  PROVE  IInv'
  <1>1. TypeOK
    BY DEF IInv
  <1>2. TypeOK'
    BY <1>1, PushTypes DEF TypeOK, Answer
  <1>3. ASSUME NEW b \in AKID PROVE Kept(b)'
    <2>1. Kept(b) /\ kv[b] \in Answer /\ until[b] \in Int /\ now \in Nat
      BY <1>1 DEF IInv, TypeOK
    <2>2. issued[b] # NoCreds => issued[b].exp \in Int
      BY <1>1 DEF TypeOK, Answer, Creds
    <2>3. kv'[b] = IF b = a THEN NoCreds ELSE kv[b]
      BY <1>1 DEF TypeOK
    <2> QED
      BY <2>1, <2>2, <2>3, ValkeyStoreAssumption DEF Kept
  <1>4. ASSUME NEW q \in Replica, NEW b \in AKID PROVE ViewOf(q, b)'
    <2>1. ViewOf(q, b)
      BY DEF IInv
    <2>2. kv'[b] = IF b = a THEN NoCreds ELSE kv[b]
      BY <1>1 DEF TypeOK
    <2>3. CASE b = a
      BY <1>1, <2>1, <2>2, <2>3, PushView, Zenon DEF ViewOf
    <2>4. CASE b # a
      BY <1>1, <2>1, <2>2, <2>4, PushViews DEF ViewOf
    <2> QED
      BY <2>3, <2>4
  <1> QED
    BY <1>2, <1>3, <1>4 DEF IInv

\* Valkey.Delete keeps it: replicas that hold the record have an invalidation under way.
LEMMA DeleteIInv ==
  ASSUME IInv, NEW r \in Replica, NEW a \in AKID, Delete(r, a)
  PROVE  IInv'
  <1>1. TypeOK
    BY DEF IInv
  <1>2. CASE kv[a] # NoCreds
    BY <1>1, <1>2, RemoveIInv, Zenon DEF Delete, TypeOK
  <1>3. CASE kv[a] = NoCreds
    <2>1. kv' = kv
      BY <1>1, <1>3 DEF Delete, TypeOK
    <2>2. UNCHANGED <<now, until, tracked, conn, linked, cache, said, issued>> /\ withdrawn' = withdrawn \cup {a}
      BY <1>3 DEF Delete
    <2> QED
      BY <1>1, <2>1, <2>2 DEF IInv, TypeOK, Kept, ViewOf
  <1> QED
    BY <1>2, <1>3

\* So does the expiry of a key at the server.
LEMMA ServerExpireIInv ==
  ASSUME IInv, NEW a \in AKID, ServerExpire(a)
  PROVE  IInv'
  BY RemoveIInv, ZenonT(60) DEF ServerExpire, Due, history, IInv, TypeOK

\* A step that leaves the server's records and the clock alone.
LEMMA ReplicaStep ==
  ASSUME IInv, TypeOK', UNCHANGED <<now, kv, until, issued, withdrawn>>,
         \A q \in Replica, b \in AKID :
           View(conn'[q], cache'[q][b], kv[b], issued[b], linked'[q], tracked'[q], said'[q][b], b)
  PROVE  IInv'
  BY Zenon DEF IInv, Kept, ViewOf

\* So does the server's answer to a GET, which starts tracking.
LEMMA ServerGetIInv ==
  ASSUME IInv, NEW r \in Replica, NEW a \in AKID, ServerGet(r, a)
  PROVE  IInv'
  <1>1. TypeOK
    BY DEF IInv
  <1> DEFINE d == until[a] - now
             m == Reply(a, kv[a], d)
  <1>2. d \in Int /\ kv[a] \in Answer /\ m \in Message /\ m.key = a
    BY <1>1, MessageTypes DEF TypeOK, Reply
  <1>3. conn[r] \in Seq(Message) /\ conn' = [conn EXCEPT ![r] = Append(conn[r], m)]
        /\ tracked' = [tracked EXCEPT ![r] = tracked[r] \cup {a}]
    BY <1>1, Zenon DEF ServerGet, TypeOK
  <1>4. UNCHANGED <<now, kv, until, linked, cache, said, issued, withdrawn>>
    BY DEF ServerGet, serverVars, history
  <1>5. cache[r][a].state = "pending" /\ \A i \in DOMAIN conn[r] : ~IsReply(conn[r][i], a)
    BY DEF ServerGet, IsReply
  <1>6. Append(conn[r], m) \in Seq(Message)
    BY <1>2, <1>3
  <1> HIDE DEF m
  <1>7. TypeOK'
    BY <1>1, <1>3, <1>4, <1>6, ZenonT(60) DEF TypeOK
  <1>8. ASSUME NEW q \in Replica, NEW b \in AKID
        PROVE  View(conn'[q], cache'[q][b], kv[b], issued[b], linked'[q], tracked'[q], said'[q][b], b)
    <2>1. View(conn[q], cache[q][b], kv[b], issued[b], linked[q], tracked[q], said[q][b], b)
      BY DEF IInv, ViewOf
    <2>2. CASE q # r
      <3>1. conn'[q] = conn[q] /\ tracked'[q] = tracked[q]
        BY <1>1, <1>3, <2>2, Zenon DEF TypeOK
      <3> QED
        BY <1>4, <2>1, <3>1
    <2>3. CASE q = r /\ b # a
      <3>1. b \in tracked[q] => b \in tracked'[q]
        BY <1>1, <1>3, <2>3 DEF TypeOK
      <3>2. conn'[q] = Append(conn[q], m)
        BY <1>1, <1>3, <2>3, ZenonT(60) DEF TypeOK
      <3> QED
        BY <1>2, <1>3, <1>4, <2>1, <2>3, <3>1, <3>2, ViewOther
    <2>4. CASE q = r /\ b = a
      <3>1. conn'[q] = Append(conn[q], Reply(a, kv[a], d)) /\ a \in tracked'[q]
        BY <1>1, <1>3, <2>4 DEF TypeOK, m
      <3> HIDE DEF d
      <3>2. View(conn[r], cache[r][a], kv[a], issued[a], linked[r], tracked[r], said[r][a], a)
        BY <2>1, <2>4, Zenon
      <3> DEFINE T == tracked'[q]
      <3>3. a \in T
        BY <3>1, Zenon
      <3> HIDE DEF T
      <3>4. View(Append(conn[r], Reply(a, kv[a], d)), cache[r][a], kv[a], issued[a], linked[r], T, said[r][a], a)
        BY <1>2, <1>3, <1>5, <3>2, <3>3, ViewReply
      <3> QED
        BY <1>4, <2>4, <3>1, <3>4, Zenon DEF T
    <2> QED
      BY <2>2, <2>3, <2>4, Zenon
  <1> QED
    BY <1>4, <1>7, <1>8, ReplicaStep

\* So does Valkey.Get, from the cache or by asking the server.
LEMMA GetIInv ==
  ASSUME IInv, NEW r \in Replica, NEW a \in AKID, GetHit(r, a) \/ GetMiss(r, a)
  PROVE  IInv'
  <1>1. TypeOK
    BY DEF IInv
  <1>2. UNCHANGED <<now, kv, until, tracked, conn, linked, issued, withdrawn>>
    BY Zenon DEF GetHit, GetMiss, serverVars, linkVars, history
  <1>3. CASE GetHit(r, a)
    <2>1. /\ cache' = cache /\ cache[r][a].state = "value"
          /\ said' = [said EXCEPT ![r] = [said[r] EXCEPT ![a] = Verdict(cache[r][a].val)]]
      BY <1>3 DEF GetHit, Hit
    <2>2. TypeOK'
      BY <1>1, <1>2, <2>1 DEF TypeOK, Verdict
    <2>3. ASSUME NEW q \in Replica, NEW b \in AKID
          PROVE  View(conn'[q], cache'[q][b], kv[b], issued[b], linked'[q], tracked'[q], said'[q][b], b)
      <3>1. View(conn[q], cache[q][b], kv[b], issued[b], linked[q], tracked[q], said[q][b], b)
        BY DEF IInv, ViewOf
      <3>2. said'[q][b] = IF q = r /\ b = a THEN Verdict(cache[q][b].val) ELSE said[q][b]
        BY <1>1, <2>1, Zenon DEF TypeOK
      <3> QED
        BY <1>2, <2>1, <3>1, <3>2, ViewGet, Zenon
    <2> QED
      BY <1>2, <2>2, <2>3, ReplicaStep
  <1>4. CASE GetMiss(r, a)
    <2>1. /\ said' = said /\ issued[a] # NoCreds /\ cache[r][a].state # "pending"
          /\ cache' = [cache EXCEPT ![r] = [cache[r] EXCEPT ![a] = Pending]]
      BY <1>4, Zenon DEF GetMiss
    <2>2. TypeOK'
      BY <1>1, <1>2, <2>1, MessageTypes, Zenon DEF TypeOK
    <2>3. ASSUME NEW q \in Replica, NEW b \in AKID
          PROVE  View(conn'[q], cache'[q][b], kv[b], issued[b], linked'[q], tracked'[q], said'[q][b], b)
      <3>1. View(conn[q], cache[q][b], kv[b], issued[b], linked[q], tracked[q], said[q][b], b)
        BY DEF IInv, ViewOf
      <3>2. cache'[q][b] = IF q = r /\ b = a THEN Pending ELSE cache[q][b]
        BY <1>1, <2>1, ZenonT(60) DEF TypeOK
      <3> QED
        BY <1>2, <2>1, <3>1, <3>2, ViewGet
    <2> QED
      BY <1>2, <2>2, <2>3, ReplicaStep
  <1> QED
    BY <1>3, <1>4

\* So does the client library when it takes the next reply or invalidation.
LEMMA ReceiveIInv ==
  ASSUME IInv, NEW r \in Replica, Receive(r)
  PROVE  IInv'
  <1>1. TypeOK
    BY Zenon DEF IInv
  <1>2. conn[r] \in Seq(Message) /\ conn[r] # <<>>
    BY <1>1 DEF Receive, TypeOK
  <1>3. Head(conn[r]) \in Message /\ Tail(conn[r]) \in Seq(Message)
    BY <1>2, TailFacts
  <1>4. Head(conn[r]).key \in AKID /\ Head(conn[r]).val \in Answer /\ Head(conn[r]).ttl \in Int
    BY <1>3 DEF Message
  <1>5. UNCHANGED <<now, kv, until, tracked, linked, issued, withdrawn>>
        /\ conn' = [conn EXCEPT ![r] = Tail(conn[r])]
    BY ZenonT(60) DEF Receive, serverVars, history
  <1> DEFINE m == Head(conn[r])
             k == m.key
             t == now + (IF m.val = NoCreds THEN CacheTTL ELSE Smaller(CacheTTL, m.ttl))
             f == [state |-> "value", val |-> m.val, till |-> t]
             g == IF cache[r][k].state = "pending" THEN cache[r][k] ELSE Absent
  <1>6. \/ /\ m.type = "reply"
           /\ cache' = [cache EXCEPT ![r] = [cache[r] EXCEPT ![k] = f]]
           /\ said' = [said EXCEPT ![r] = [said[r] EXCEPT ![k] = Verdict(m.val)]]
        \/ /\ m.type = "invalidate"
           /\ cache' = [cache EXCEPT ![r] = [cache[r] EXCEPT ![k] = g]]
           /\ said' = said
    BY Zenon DEF Receive
  <1>7. f \in Entry
    BY <1>1, <1>4, ValkeyStoreAssumption, SMTT(30) DEF Entry, TypeOK, Smaller
  <1>8. g \in Entry
    BY <1>1, <1>4, MessageTypes DEF TypeOK
  <1>9. Verdict(m.val) \in {"found", "missing"}
    BY DEF Verdict
  <1> HIDE DEF m, k, t, f, g
  <1>10. TypeOK'
    <2>1. cache' \in [Replica -> [AKID -> Entry]]
      <3>1. ASSUME NEW x \in Entry
            PROVE  [cache EXCEPT ![r] = [cache[r] EXCEPT ![k] = x]] \in [Replica -> [AKID -> Entry]]
        BY <1>1, <1>4 DEF TypeOK, k, m
      <3> QED
        BY <1>6, <1>7, <1>8, <3>1, Zenon
    <2>2. said' \in [Replica -> [AKID -> {"nothing", "found", "missing"}]]
      <3>1. ASSUME NEW x \in {"found", "missing"}
            PROVE  [said EXCEPT ![r] = [said[r] EXCEPT ![k] = x]]
                     \in [Replica -> [AKID -> {"nothing", "found", "missing"}]]
        BY <1>1, <1>4 DEF TypeOK, k, m
      <3>2. said \in [Replica -> [AKID -> {"nothing", "found", "missing"}]]
        BY <1>1 DEF TypeOK
      <3> QED
        BY <1>6, <1>9, <3>1, <3>2
    <2>3. conn' \in [Replica -> Seq(Message)]
      BY <1>1, <1>3, <1>5 DEF TypeOK
    <2> QED
      BY <1>1, <1>5, <2>1, <2>2, <2>3 DEF TypeOK
  <1>11. ASSUME NEW q \in Replica, NEW b \in AKID
         PROVE  View(conn'[q], cache'[q][b], kv[b], issued[b], linked'[q], tracked'[q], said'[q][b], b)
    <2>1. View(conn[q], cache[q][b], kv[b], issued[b], linked[q], tracked[q], said[q][b], b)
      BY DEF IInv, ViewOf
    <2>2. conn'[q] = IF q = r THEN Tail(conn[q]) ELSE conn[q]
      BY <1>1, <1>5 DEF TypeOK
    <2>3. q # r \/ b # k => cache'[q][b] = cache[q][b] /\ said'[q][b] = said[q][b]
      BY <1>1, <1>4, <1>6, SMTT(30) DEF TypeOK
    <2>4. CASE q # r
      BY <1>5, <2>1, <2>2, <2>3, <2>4, ZenonT(60)
    <2>5. CASE q = r /\ b # k
      <3>1. Head(conn[q]).key # b
        BY <2>5, Zenon DEF k, m
      <3>2. View(Tail(conn[q]), cache[q][b], kv[b], issued[b], linked[q], tracked[q], said[q][b], b)
        BY <1>2, <2>1, <2>5, <3>1, ViewReadOther, ZenonT(60)
      <3> QED
        BY <1>5, <2>2, <2>3, <2>5, <3>2
    <2>6. CASE q = r /\ b = k /\ m.type = "reply"
      <3>1. cache'[q][b] = f /\ said'[q][b] = Verdict(m.val)
        BY <1>1, <1>4, <1>6, <2>6 DEF TypeOK
      <3>2. IsReply(Head(conn[q]), b)
        BY <2>6, ZenonT(60) DEF IsReply, k, m
      <3>3. View(Tail(conn[q]), f, kv[b], issued[b], linked[q], tracked[q], Verdict(m.val), b)
        BY <1>2, <2>1, <2>6, <3>2, ViewReadReply, Zenon DEF f, m
      <3> QED
        BY <1>5, <2>2, <2>6, <3>1, <3>3, Zenon
    <2>7. CASE q = r /\ b = k /\ m.type = "invalidate"
      <3>1. cache'[q][b] = g /\ said'[q][b] = said[q][b]
        BY <1>1, <1>4, <1>6, <2>7 DEF TypeOK
      <3>2. Head(conn[q]).type = "invalidate"
        BY <2>7, Zenon DEF m
      <3>3. View(Tail(conn[q]), g, kv[b], issued[b], linked[q], tracked[q], said[q][b], b)
        BY <1>2, <2>1, <2>7, <3>2, ViewReadInvalidation DEF g
      <3> QED
        BY <1>5, <2>2, <2>7, <3>1, <3>3
    <2> QED
      BY <1>6, <2>4, <2>5, <2>6, <2>7, Zenon
  <1> QED
    BY <1>5, <1>10, <1>11, ReplicaStep

\* So do a broken connection and the reconnect, which drops the cache.
LEMMA LinkIInv ==
  ASSUME IInv, NEW r \in Replica, LinkDown(r) \/ Reconnect(r)
  PROVE  IInv'
  <1>1. TypeOK
    BY DEF IInv
  <1>2. CASE LinkDown(r)
    <2>1. /\ UNCHANGED <<now, kv, until, conn, cache, said, issued, withdrawn>>
          /\ linked' = [linked EXCEPT ![r] = FALSE] /\ tracked' = [tracked EXCEPT ![r] = {}]
      BY <1>2 DEF LinkDown, serverVars, history
    <2>2. TypeOK'
      BY <1>1, <2>1 DEF TypeOK
    <2>3. ASSUME NEW q \in Replica, NEW b \in AKID
          PROVE  View(conn'[q], cache'[q][b], kv[b], issued[b], linked'[q], tracked'[q], said'[q][b], b)
      <3>1. View(conn[q], cache[q][b], kv[b], issued[b], linked[q], tracked[q], said[q][b], b)
        BY DEF IInv, ViewOf
      <3>2. \/ q # r /\ linked'[q] = linked[q] /\ tracked'[q] = tracked[q]
            \/ q = r /\ ~linked'[q]
        BY <1>1, <2>1, Zenon DEF TypeOK
      <3> QED
        BY <2>1, <3>1, <3>2, ViewLink, Zenon
    <2> QED
      BY <2>1, <2>2, <2>3, ReplicaStep, Zenon
  <1>3. CASE Reconnect(r)
    <2>1. /\ UNCHANGED <<now, kv, until, tracked, said, issued, withdrawn>>
          /\ linked' = [linked EXCEPT ![r] = TRUE] /\ conn' = [conn EXCEPT ![r] = <<>>]
          /\ cache' = [cache EXCEPT ![r] = [a \in AKID |-> Absent]]
      BY <1>3 DEF Reconnect, serverVars, history
    <2>2. [a \in AKID |-> Absent] \in [AKID -> Entry]
      BY MessageTypes
    <2>3. TypeOK'
      BY <1>1, <2>1, <2>2 DEF TypeOK
    <2>4. ASSUME NEW q \in Replica, NEW b \in AKID
          PROVE  View(conn'[q], cache'[q][b], kv[b], issued[b], linked'[q], tracked'[q], said'[q][b], b)
      <3>1. View(conn[q], cache[q][b], kv[b], issued[b], linked[q], tracked[q], said[q][b], b)
        BY DEF IInv, ViewOf
      <3>2. \/ q # r /\ linked'[q] = linked[q] /\ conn'[q] = conn[q] /\ cache'[q][b] = cache[q][b]
            \/ q = r /\ conn'[q] = <<>> /\ cache'[q][b] = Absent
        BY <1>1, <2>1, ZenonT(60) DEF TypeOK
      <3>3. View(<<>>, Absent, kv[b], issued[b], linked'[q], tracked'[q], said[q][b], b)
        BY <3>1, ViewLink
      <3> QED
        BY <2>1, <3>1, <3>2, <3>3, Zenon
    <2> QED
      BY <2>1, <2>3, <2>4, ReplicaStep, Zenon
  <1> QED
    BY <1>2, <1>3

\* So does a restart of the server, which loses keys and tracking.
LEMMA ServerRestartIInv == ASSUME IInv, ServerRestart PROVE IInv'
  <1>1. TypeOK
    BY DEF IInv
  <1>2. TypeOK'
    BY <1>1 DEF ServerRestart, TypeOK, Answer
  <1>3. ASSUME NEW b \in AKID PROVE Kept(b)'
    <2>1. Kept(b)
      BY Zenon DEF IInv
    <2> QED
      BY <2>1 DEF Kept, ServerRestart
  <1>4. ASSUME NEW q \in Replica, NEW b \in AKID PROVE ViewOf(q, b)'
    <2>1. View(conn[q], cache[q][b], kv[b], issued[b], linked[q], tracked[q], said[q][b], b)
      BY DEF IInv, ViewOf
    <2>2. kv'[b] = NoCreds /\ ~linked'[q]
          /\ UNCHANGED <<conn, cache, said, issued>>
      BY DEF ServerRestart
    <2>3. View(conn'[q], cache'[q][b], kv'[b], issued'[b], linked'[q], tracked'[q], said'[q][b], b)
      BY <2>1, <2>2, ViewLink, ZenonT(60)
    <2> QED
      BY <2>3, Zenon DEF ViewOf
  <1> QED
    BY <1>2, <1>3, <1>4 DEF IInv

\* So does the passing of time.
LEMMA TickIInv == ASSUME IInv, Tick PROVE IInv'
  <1>1. UNCHANGED <<kv, until, tracked, conn, linked, cache, said, issued, withdrawn>> /\ now' = now + 1
    BY DEF Tick, serverVars, linkVars, history
  <1>2. TypeOK'
    BY <1>1 DEF IInv, TypeOK
  <1>3. ASSUME NEW b \in AKID PROVE Kept(b)'
    <2>1. Kept(b) /\ now \in Nat
      BY DEF IInv, TypeOK
    <2>2. issued[b] # NoCreds => issued[b].exp \in Int
      BY DEF IInv, TypeOK, Answer, Creds
    <2> QED
      BY <1>1, <2>1, <2>2, ValkeyStoreAssumption DEF Kept
  <1>4. \A q \in Replica, b \in AKID : ViewOf(q, b)'
    BY <1>1 DEF IInv, ViewOf
  <1> QED
    BY <1>2, <1>3, <1>4 DEF IInv

\* The invariant holds of every run.
THEOREM Invariance == Spec => []IInv
  <1>1. ASSUME IInv, Next PROVE IInv'
    <2>1. ASSUME NEW r \in Replica, NEW a \in AKID, NEW u \in User, NEW e \in Expiry,
                 Put(r, a, [user |-> u, exp |-> e])
          PROVE  IInv'
      <3>1. [user |-> u, exp |-> e] \in Creds
        BY ValkeyStoreAssumption, Zenon DEF Creds
      <3> QED
        BY <1>1, <2>1, <3>1, PutIInv
    <2> QED
      BY <1>1, <2>1, DeleteIInv, ServerExpireIInv, ServerGetIInv, GetIInv, ReceiveIInv, LinkIInv,
         ServerRestartIInv, TickIInv, ZenonT(60)
         DEF Next
  <1>2. IInv /\ UNCHANGED vars => IInv'
    BY DEF IInv, TypeOK, Kept, ViewOf, vars
  <1> QED
    BY <1>1, <1>2, InitIInv, PTL DEF Spec

-----------------------------------------------------------------------------
(* What follows from the invariant. *)

(***************************************************************************)
(* Server, connections and caches keep their types: in particular a        *)
(* connection carries nothing but replies and invalidations.               *)
(***************************************************************************)
THEOREM TypeCorrect == Spec => []TypeOK
  <1>1. IInv => TypeOK
    BY DEF IInv
  <1> QED
    BY <1>1, Invariance, PTL

\* What a replica holds is a function of its connection and its cache entry.
LEMMA HoldsHold == \A r, a : Holds(r, a) <=> Hold(conn[r], cache[r][a], a)
  BY DEF Holds, Hold

(***************************************************************************)
(* The client-side caches are coherent: what a replica can still answer of *)
(* a record that has left the server, an invalidation follows.             *)
(***************************************************************************)
THEOREM CoherenceHolds == Spec => []Coherence
  <1>1. ASSUME IInv PROVE Coherence
    <2> SUFFICES ASSUME NEW r \in Replica, NEW a \in AKID, linked[r], kv[a] = NoCreds, Holds(r, a)
                 PROVE  Follows(conn[r], a)
      BY Zenon DEF Coherence, Follows
    <2>1. ViewOf(r, a)
      BY <1>1, Zenon DEF IInv
    <2> QED
      BY <2>1, HoldsHold, Zenon DEF ViewOf, View
  <1> QED
    BY <1>1, Invariance, PTL

(***************************************************************************)
(* "Not found" means withdrawn or past the retention, on every replica.    *)
(***************************************************************************)
THEOREM MissingHolds == Spec => []MissingOnlyWhenGone
  <1>1. ASSUME IInv PROVE MissingOnlyWhenGone
    <2> SUFFICES ASSUME NEW r \in Replica, NEW a \in AKID, said[r][a] = "missing"
                 PROVE  a \in withdrawn \/ issued[a].exp + Retention <= now
      BY DEF MissingOnlyWhenGone
    <2>1. ViewOf(r, a) /\ Kept(a)
      BY <1>1 DEF IInv
    <2> QED
      BY <2>1, Zenon DEF ViewOf, View, Kept
  <1> QED
    BY <1>1, Invariance, PTL

(***************************************************************************)
(* A replica that answered "not found" never answers the record again.     *)
(***************************************************************************)
THEOREM RemovedStaysRemoved == Spec => NoResurrection
  <1>1. ASSUME IInv, [Next]_vars, NEW r \in Replica, NEW a \in AKID, said[r][a] = "missing"
        PROVE  said'[r][a] # "found"
    <2>1. ~Hold(conn[r], cache[r][a], a) /\ TypeOK
      BY <1>1 DEF IInv, ViewOf, View
    <2>2. ASSUME NEW q \in Replica, NEW b \in AKID, GetHit(q, b) PROVE said'[r][a] # "found"
      <3>1. /\ said' = [said EXCEPT ![q] = [said[q] EXCEPT ![b] = Verdict(cache[q][b].val)]]
            /\ cache[q][b].state = "value"
        BY <2>2 DEF GetHit, Hit
      <3>2. CASE q = r /\ b = a
        <4>1. cache[r][a].val = NoCreds
          BY <2>1, <3>1, <3>2 DEF Hold
        <4> QED
          BY <2>1, <3>1, <3>2, <4>1 DEF TypeOK, Verdict
      <3>3. CASE ~(q = r /\ b = a)
        BY <1>1, <2>1, <3>1, <3>3 DEF TypeOK
      <3> QED
        BY <3>2, <3>3
    <2>3. ASSUME NEW q \in Replica, Receive(q) PROVE said'[r][a] # "found"
      <3> DEFINE m == Head(conn[q])
                 k == m.key
      <3>1. conn[q] \in Seq(Message) /\ conn[q] # <<>>
        BY <2>1, <2>3 DEF Receive, TypeOK
      <3>2. m \in Message /\ m = conn[q][1] /\ 1 \in DOMAIN conn[q]
        BY <3>1, TailFacts, SMTT(30)
      <3>3. \/ said' = said
            \/ m.type = "reply" /\ said' = [said EXCEPT ![q] = [said[q] EXCEPT ![k] = Verdict(m.val)]]
        BY <2>3 DEF Receive
      <3>4. k \in AKID
        BY <3>2 DEF Message
      <3> HIDE DEF m, k
      <3>5. CASE said' = said
        BY <1>1, <3>5
      <3>6. CASE m.type = "reply" /\ said' = [said EXCEPT ![q] = [said[q] EXCEPT ![k] = Verdict(m.val)]]
        <4>1. CASE q = r /\ k = a
          <5>1. m.val = NoCreds
            BY <2>1, <3>2, <3>6, <4>1 DEF Hold, k
          <5> QED
            BY <2>1, <3>6, <4>1, <5>1 DEF TypeOK, Verdict
        <4>2. CASE ~(q = r /\ k = a)
          BY <1>1, <2>1, <3>4, <3>6, <4>2 DEF TypeOK
        <4> QED
          BY <4>1, <4>2
      <3> QED
        BY <3>3, <3>5, <3>6, ZenonT(60)
    <2>4. ASSUME NEW q \in Replica, NEW b \in AKID,
                 \/ \E u \in User, e \in Expiry : Put(q, b, [user |-> u, exp |-> e])
                 \/ Delete(q, b) \/ GetMiss(q, b) \/ ServerGet(q, b)
          PROVE  said' = said
      BY <2>4, Zenon DEF Put, Delete, GetMiss, ServerGet
    <2>5. (\E b \in AKID : ServerExpire(b)) \/ ServerRestart \/ Tick => said' = said
      BY Zenon DEF ServerExpire, ServerRestart, Tick
    <2>6. (\E q \in Replica : LinkDown(q) \/ Reconnect(q)) => said' = said
      BY Zenon DEF LinkDown, Reconnect
    <2>7. UNCHANGED vars => said' = said
      BY Zenon DEF vars
    <2> QED
      BY <1>1, <2>2, <2>3, <2>4, <2>5, <2>6, <2>7, ZenonT(60) DEF Next
  <1>2. IInv /\ [Next]_vars =>
          [\A r \in Replica, a \in AKID : said[r][a] = "missing" => said'[r][a] # "found"]_vars
    BY <1>1
  <1> QED
    BY <1>2, Invariance, PTL DEF Spec, NoResurrection

-----------------------------------------------------------------------------
(* The refinement. *)

Present == {a \in AKID : kv[a] # NoCreds}
Lag == [r \in Replica |-> {a \in AKID : kv[a] = NoCreds /\ Holds(r, a)}]

\* A message that carries no record of a does not change what the replica can answer.
LEMMA HoldAppend ==
  ASSUME NEW s \in Seq(Message), NEW m \in Message, NEW e, NEW a,
         ~(m.type = "reply" /\ m.key = a /\ m.val # NoCreds)
  PROVE  Hold(Append(s, m), e, a) <=> Hold(s, e, a)
  <1> DEFINE t == Append(s, m)
  <1>1. /\ DOMAIN t = 1..Len(s) + 1 /\ DOMAIN s = 1..Len(s) /\ Len(s) \in Nat
        /\ t[Len(s) + 1] = m /\ \A i \in 1..Len(s) : t[i] = s[i]
    OBVIOUS
  <1> HIDE DEF t
  <1>2. Hold(t, e, a) <=> Hold(s, e, a)
    BY <1>1 DEF Hold
  <1> QED
    BY <1>2 DEF t

\* A queued invalidation does not change what a replica can still answer.
LEMMA PushHolds ==
  ASSUME TypeOK, NEW a \in AKID, Push(a), cache' = cache, NEW r \in Replica, NEW b \in AKID
  PROVE  Holds(r, b)' <=> Holds(r, b)
  <1>1. conn'[r] = conn[r] \/ conn'[r] = Append(conn[r], Invalidation(a))
    BY DEF Push
  <1>2. Invalidation(a) \in Message /\ Invalidation(a).type = "invalidate" /\ conn[r] \in Seq(Message)
    BY MessageTypes DEF Invalidation, TypeOK
  <1>3. Hold(conn'[r], cache[r][b], b) <=> Hold(conn[r], cache[r][b], b)
    <2>1. ~(Invalidation(a).type = "reply" /\ Invalidation(a).key = b /\ Invalidation(a).val # NoCreds)
      BY <1>2
    <2>2. Hold(Append(conn[r], Invalidation(a)), cache[r][b], b) <=> Hold(conn[r], cache[r][b], b)
      BY <1>2, <2>1, HoldAppend, Zenon
    <2> QED
      BY <1>1, <2>2, Zenon
  <1>4. Holds(r, b)' <=> Hold(conn'[r], cache'[r][b], b)
    BY Zenon DEF Holds, Hold
  <1> QED
    BY <1>3, <1>4, HoldsHold, Zenon

\* Records that leave the server stay with the replicas that hold them.
LEMMA RemoveMaps ==
  ASSUME NEW S \in SUBSET AKID, Present' = Present \ S, UNCHANGED <<now, issued>>,
         \A r \in Replica, a \in AKID : Holds(r, a)' <=> Holds(r, a)
  PROVE  Store!Remove(S)
  <1> DEFINE held == [r \in Replica |-> {a \in S \cap Present : Holds(r, a)}]
  <1>1. held \in [Replica -> SUBSET (S \cap Present)]
    BY Zenon
  <1>2. ASSUME NEW r \in Replica PROVE Lag'[r] = Lag[r] \cup held[r]
    <2>1. \A a \in AKID : (kv'[a] = NoCreds <=> kv[a] = NoCreds \/ a \in S)
      BY Zenon DEF Present
    <2> QED
      BY <2>1 DEF Lag, Present
  <1>3. Lag' = [r \in Replica |-> IF r \in Replica THEN Lag[r] \cup held[r] ELSE Lag[r]]
    BY <1>2, Zenon DEF Lag
  <1> HIDE DEF held
  <1> QED
    BY <1>1, <1>3 DEF Store!Remove, Present, Lag

\* A cache that drops entries catches up.
LEMMA CatchUpMaps ==
  ASSUME NEW r \in Replica, UNCHANGED <<now, kv, issued, withdrawn>>,
         \A q \in Replica, a \in AKID : q # r => (Holds(q, a)' <=> Holds(q, a)),
         \A a \in AKID : kv[a] = NoCreds /\ Holds(r, a)' => Holds(r, a)
  PROVE  Store!StoreNext
  <1>1. PICK S \in SUBSET AKID : S = Lag[r] \ Lag'[r]
    BY Zenon DEF Lag
  <1>2. Lag'[r] = Lag[r] \ S
    BY <1>1 DEF Lag
  <1>3. \A q \in Replica : q # r => Lag'[q] = Lag[q]
    BY DEF Lag
  <1>4. Lag' = [Lag EXCEPT ![r] = Lag[r] \ S]
    BY <1>2, <1>3, Zenon DEF Lag
  <1>5. Store!CatchUp(r, S)
    BY <1>4 DEF Store!CatchUp, Lag
  <1> QED
    BY <1>5 DEF Store!StoreNext

\* Each step of the store is a step of the abstract store, or leaves it alone.
LEMMA StepMaps == ASSUME IInv, Next PROVE Store!StoreNext \/ UNCHANGED Store!storeVars
  <1>1. TypeOK
    BY DEF IInv
  <1>2. \A q, b : Holds(q, b)' <=> Hold(conn'[q], cache'[q][b], b)
    BY DEF Holds, Hold
  <1>3. ASSUME NEW r \in Replica, NEW a \in AKID, NEW c \in Creds, Put(r, a, c)
        PROVE  Store!StoreNext
    <2>1. /\ issued[a] = NoCreds /\ issued' = [issued EXCEPT ![a] = c]
          /\ kv' = [kv EXCEPT ![a] = c] /\ UNCHANGED <<now, withdrawn, cache>> /\ Push(a)
      BY <1>3 DEF Put
    <2>2. Present' = Present \cup {a}
      BY <1>1, <2>1, ValkeyStoreAssumption DEF Present, TypeOK
    <2>3. \A q \in Replica : ~Holds(q, a)
      <3> SUFFICES ASSUME NEW q \in Replica PROVE ~Holds(q, a)
        OBVIOUS
      <3>1. ViewOf(q, a)
        BY DEF IInv
      <3>2. cache[q][a].state = "absent" /\ \A i \in DOMAIN conn[q] : ~IsReply(conn[q][i], a)
        BY <2>1, <3>1, Zenon DEF ViewOf, View
      <3> QED
        BY <3>2 DEF Holds, IsReply
    <2>4. \A q \in Replica, b \in AKID : Holds(q, b)' <=> Holds(q, b)
      BY <1>1, <2>1, PushHolds
    <2>5. \A b \in AKID : b # a => kv'[b] = kv[b]
      BY <1>1, <2>1 DEF TypeOK
    <2>6. Lag' = Lag
      BY <2>3, <2>4, <2>5 DEF Lag
    <2>7. issued'[a] = c /\ c \in Store!Creds
      BY <1>1, <2>1 DEF Creds, Store!Creds, TypeOK
    <2>8. Store!Put(a, issued'[a])
      BY <2>1, <2>2, <2>6, <2>7, Zenon DEF Store!Put, Present, Lag
    <2> QED
      BY <2>7, <2>8 DEF Store!StoreNext
  <1>4. ASSUME NEW r \in Replica, NEW a \in AKID, Delete(r, a) PROVE Store!StoreNext
    <2>1. /\ issued[a] # NoCreds /\ kv' = [kv EXCEPT ![a] = NoCreds]
          /\ UNCHANGED <<now, issued, cache>> /\ withdrawn' = withdrawn \cup {a}
          /\ conn' = conn \/ Push(a)
      BY <1>4 DEF Delete
    <2>2. Present' = Present \ {a}
      BY <1>1, <2>1, Zenon DEF Present, TypeOK
    <2>3. \A q \in Replica, b \in AKID : Holds(q, b)' <=> Holds(q, b)
      BY <1>1, <1>2, <2>1, PushHolds, HoldsHold
    <2>4. Store!Remove({a})
      BY <2>1, <2>2, <2>3, RemoveMaps
    <2>5. Store!Delete(a)
      BY <2>1, <2>4 DEF Store!Delete
    <2> QED
      BY <2>5 DEF Store!StoreNext
  <1>5. ASSUME NEW a \in AKID, ServerExpire(a) PROVE Store!StoreNext
    <2>1. /\ kv' = [kv EXCEPT ![a] = NoCreds] /\ kv[a] # NoCreds /\ until[a] <= now
          /\ UNCHANGED <<now, issued, cache, withdrawn>> /\ Push(a)
      BY <1>5 DEF ServerExpire, Due, history
    <2>2. Present' = Present \ {a} /\ a \in Present
      BY <1>1, <2>1 DEF Present, TypeOK
    <2>3. \A q \in Replica, b \in AKID : Holds(q, b)' <=> Holds(q, b)
      BY <1>1, <2>1, PushHolds, Zenon
    <2>4. Store!Remove({a})
      BY <2>1, <2>2, <2>3, RemoveMaps
    <2>5. issued[a].exp + Retention <= now
      <3>1. kv[a] = issued[a] /\ issued[a].exp + Retention <= until[a]
        BY <2>1 DEF IInv, Kept
      <3>2. issued[a].exp \in Int /\ until[a] \in Int /\ now \in Int /\ Retention \in Int
        BY <1>1, <2>1, <3>1, ValkeyStoreAssumption, SMTT(30) DEF TypeOK, Answer, Creds
      <3> QED
        BY <2>1, <3>1, <3>2
    <2>6. Store!Forget({a})
      BY <2>1, <2>2, <2>4, <2>5 DEF Store!Forget, Present
    <2> QED
      BY <2>6 DEF Store!StoreNext
  <1>6. CASE ServerRestart
    <2>1. UNCHANGED <<now, issued, conn, cache>> /\ withdrawn' = withdrawn \cup Present /\ Present' = {}
      BY <1>6 DEF ServerRestart, Present
    <2>2. PICK S \in SUBSET AKID : S = Present
      BY Zenon DEF Present
    <2>3. \A q \in Replica, b \in AKID : Holds(q, b)' <=> Holds(q, b)
      BY <1>2, <2>1, HoldsHold
    <2>4. Store!Remove(S)
      BY <2>1, <2>2, <2>3, RemoveMaps, ZenonT(60)
    <2>5. Store!Lose
      BY <2>1, <2>2, <2>4 DEF Store!Lose, Store!Remove, Present
    <2> QED
      BY <2>5 DEF Store!StoreNext
  <1>7. ASSUME NEW r \in Replica, NEW a \in AKID, ServerGet(r, a) PROVE Store!StoreNext
    <2>1. /\ UNCHANGED <<now, kv, issued, withdrawn, cache>>
          /\ conn' = [conn EXCEPT ![r] = Append(conn[r], Reply(a, kv[a], until[a] - now))]
      BY <1>7 DEF ServerGet, serverVars, history
    <2>2. /\ Reply(a, kv[a], until[a] - now) \in Message /\ conn[r] \in Seq(Message)
          /\ Reply(a, kv[a], until[a] - now).key = a /\ Reply(a, kv[a], until[a] - now).val = kv[a]
      BY <1>1, MessageTypes DEF TypeOK, Reply
    <2>3. \A q \in Replica, b \in AKID : q # r => (Holds(q, b)' <=> Holds(q, b))
      BY <1>1, <1>2, <2>1, HoldsHold, Zenon DEF TypeOK
    <2>4. ASSUME NEW b \in AKID, kv[b] = NoCreds PROVE Holds(r, b)' <=> Holds(r, b)
      <3>1. conn'[r] = Append(conn[r], Reply(a, kv[a], until[a] - now))
        BY <1>1, <2>1, Zenon DEF TypeOK
      <3>2. Hold(conn'[r], cache[r][b], b) <=> Hold(conn[r], cache[r][b], b)
        BY <2>2, <2>4, <3>1, HoldAppend
      <3> QED
        BY <1>2, <2>1, <3>2, HoldsHold
    <2> QED
      BY <2>1, <2>3, <2>4, CatchUpMaps, Zenon
  <1>8. ASSUME NEW r \in Replica, NEW a \in AKID, GetMiss(r, a) PROVE Store!StoreNext
    <2>1. /\ UNCHANGED <<now, kv, issued, withdrawn, conn>>
          /\ cache' = [cache EXCEPT ![r] = [cache[r] EXCEPT ![a] = Pending]]
      BY <1>8 DEF GetMiss, serverVars, linkVars, history
    <2>2. \A q \in Replica, b \in AKID : cache'[q][b] = IF q = r /\ b = a THEN Pending ELSE cache[q][b]
      BY <1>1, <2>1 DEF TypeOK
    <2>3. Pending.state = "pending"
      BY DEF Pending, Absent
    <2>4. \A q \in Replica, b \in AKID : q # r => (Holds(q, b)' <=> Holds(q, b))
      BY <1>2, <2>1, <2>2, HoldsHold
    <2>5. \A b \in AKID : Holds(r, b)' => Holds(r, b)
      BY <2>1, <2>2, <2>3 DEF Holds
    <2> QED
      BY <2>1, <2>4, <2>5, CatchUpMaps
  <1>9. ASSUME NEW r \in Replica, Reconnect(r) PROVE Store!StoreNext
    <2>1. /\ UNCHANGED <<now, kv, issued, withdrawn>>
          /\ conn' = [conn EXCEPT ![r] = <<>>]
          /\ cache' = [cache EXCEPT ![r] = [a \in AKID |-> Absent]]
      BY <1>9 DEF Reconnect, serverVars, history
    <2>2. \A q \in Replica, b \in AKID : q # r => conn'[q] = conn[q] /\ cache'[q][b] = cache[q][b]
      BY <1>1, <2>1 DEF TypeOK
    <2>3. \A b \in AKID : conn'[r] = <<>> /\ cache'[r][b] = Absent
      BY <1>1, <2>1, Zenon DEF TypeOK
    <2>4. \A q \in Replica, b \in AKID : q # r => (Holds(q, b)' <=> Holds(q, b))
      BY <1>2, <2>2, HoldsHold, Zenon
    <2>5. \A b \in AKID : ~Holds(r, b)'
      BY <2>3 DEF Holds, Absent
    <2> QED
      BY <2>1, <2>4, <2>5, CatchUpMaps
  <1>10. ASSUME NEW r \in Replica, Receive(r) PROVE Store!StoreNext
    <2>1. /\ UNCHANGED <<now, kv, issued, withdrawn>>
          /\ conn' = [conn EXCEPT ![r] = Tail(conn[r])] /\ conn[r] # <<>>
      BY <1>10, ZenonT(60) DEF Receive, serverVars, history
    <2> DEFINE m == Head(conn[r])
               k == m.key
               t == now + (IF m.val = NoCreds THEN CacheTTL ELSE Smaller(CacheTTL, m.ttl))
               f == [state |-> "value", val |-> m.val, till |-> t]
               g == IF cache[r][k].state = "pending" THEN cache[r][k] ELSE Absent
    <2>2. \/ m.type = "reply" /\ cache' = [cache EXCEPT ![r] = [cache[r] EXCEPT ![k] = f]]
          \/ cache' = [cache EXCEPT ![r] = [cache[r] EXCEPT ![k] = g]]
      BY <1>10, Zenon DEF Receive
    <2>3. /\ m = conn[r][1] /\ Len(conn[r]) \in Nat /\ Len(conn[r]) >= 1
          /\ DOMAIN conn[r] = 1..Len(conn[r]) /\ DOMAIN Tail(conn[r]) = 1..Len(conn[r]) - 1
          /\ \A i \in 1..Len(conn[r]) - 1 : Tail(conn[r])[i] = conn[r][i + 1]
      BY <1>1, <2>1, TailFacts DEF TypeOK
    <2>4. f.val = m.val
      BY Zenon
    <2>5. g.state = "value" => g = cache[r][k]
      BY Zenon DEF Absent
    <2> HIDE DEF m, t, f, g
    <2>6. \A q \in Replica, b \in AKID : q # r => conn'[q] = conn[q] /\ cache'[q][b] = cache[q][b]
      BY <1>1, <2>1, <2>2 DEF TypeOK
    <2>7. \A b \in AKID : \/ cache'[r][b] = cache[r][b]
                          \/ b = k /\ m.type = "reply" /\ cache'[r][b] = f
                          \/ b = k /\ cache'[r][b] = g
      BY <1>1, <2>2 DEF TypeOK
    <2>8. conn'[r] = Tail(conn[r])
      BY <1>1, <2>1 DEF TypeOK
    <2>9. ASSUME NEW b \in AKID, Holds(r, b)' PROVE Holds(r, b)
      <3>1. CASE cache'[r][b].state = "value" /\ cache'[r][b].val # NoCreds
        BY <2>3, <2>4, <2>5, <2>7, <3>1, SMTT(30) DEF Holds
      <3>2. CASE ~(cache'[r][b].state = "value" /\ cache'[r][b].val # NoCreds)
        <4>1. PICK i \in DOMAIN Tail(conn[r]) :
                /\ Tail(conn[r])[i].type = "reply" /\ Tail(conn[r])[i].key = b
                /\ Tail(conn[r])[i].val # NoCreds
          BY <2>8, <2>9, <3>2, Zenon DEF Holds
        <4>2. i + 1 \in DOMAIN conn[r] /\ conn[r][i + 1] = Tail(conn[r])[i]
          BY <2>3
        <4> QED
          BY <4>1, <4>2 DEF Holds
      <3> QED
        BY <3>1, <3>2, Zenon
    <2>10. \A q \in Replica, b \in AKID : q # r => (Holds(q, b)' <=> Holds(q, b))
      BY <1>2, <2>6, HoldsHold
    <2> QED
      BY <2>1, <2>9, <2>10, CatchUpMaps, Zenon
  <1>11. CASE Tick
    <2>1. UNCHANGED <<kv, conn, cache, issued, withdrawn>> /\ now < MaxTime /\ now' = now + 1
      BY <1>11, Zenon DEF Tick, serverVars, linkVars, history
    <2>2. Present' = Present /\ Lag' = Lag
      BY <2>1 DEF Present, Lag, Holds
    <2>3. Store!Tick
      BY <2>1, <2>2, Zenon DEF Store!Tick, Present, Lag
    <2> QED
      BY <2>3 DEF Store!StoreNext
  <1>12. ASSUME UNCHANGED <<now, kv, conn, cache, issued, withdrawn>> PROVE UNCHANGED Store!storeVars
    BY <1>12 DEF Store!storeVars, Holds
  <1>13. ASSUME NEW r \in Replica, NEW a \in AKID, GetHit(r, a) PROVE UNCHANGED Store!storeVars
    BY <1>12, <1>13 DEF GetHit, serverVars, linkVars, history
  <1>14. ASSUME NEW r \in Replica, LinkDown(r) PROVE UNCHANGED Store!storeVars
    BY <1>12, <1>14 DEF LinkDown, serverVars, history
  <1>15. ASSUME NEW r \in Replica, NEW a \in AKID, NEW u \in User, NEW e \in Expiry,
                Put(r, a, [user |-> u, exp |-> e])
         PROVE  Store!StoreNext
    <2>1. [user |-> u, exp |-> e] \in Creds
      BY ValkeyStoreAssumption DEF Creds
    <2> QED
      BY <1>3, <1>15, <2>1
  <1> QED
    BY <1>4, <1>5, <1>6, <1>7, <1>8, <1>9, <1>10, <1>11, <1>13, <1>14, <1>15, Zenon DEF Next

(***************************************************************************)
(* The valkey store, with its server, its caches and its connections,      *)
(* implements the credential store the proxy is specified on.              *)
(***************************************************************************)
THEOREM Implements == Spec => ImplementsStore
  <1>1. Init => Store!StoreInit
    BY DEF Init, Store!StoreInit, Holds, Absent
  <1>2. IInv /\ [Next]_vars => [Store!StoreNext]_(Store!storeVars)
    <2>1. ASSUME UNCHANGED vars PROVE UNCHANGED Store!storeVars
      BY <2>1 DEF vars, Store!storeVars, Holds
    <2> QED
      BY <2>1, StepMaps, Zenon
  <1> QED
    BY <1>1, <1>2, Invariance, PTL DEF Spec, ImplementsStore, Store!StoreSpec

=============================================================================
