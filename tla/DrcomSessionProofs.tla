------------------------- MODULE DrcomSessionProofs -------------------------
(***************************************************************************)
(* Theorems about DrcomSession, for every number of retries, every age up  *)
(* to 256 heartbeat numbers that the network lets datagrams reach, and     *)
(* every bound on the rounds.                                              *)
(***************************************************************************)
EXTENDS DrcomSession, TLAPS

USE RetryCountAssumption, LifetimeAssumption, MaxCountAssumption, StaleAssumption

-----------------------------------------------------------------------------
(* Types.                                                                   *)

\* An exchange about to begin an attempt has one left, and only an exchange
\* writes and reads: the types of "attempt" and "requests" rest on it.
Typed ==
  /\ TypeOK
  /\ step \in Kinds /\ io = "ready" => attempt <= RetryCount
  /\ io # "ready" => step \in Kinds

Errors == {"refused", "canceled", "unavailable"}

LEMMA SeqIsByte == ASSUME NEW c \in Nat PROVE Seq(c) \in 0..255
  BY DEF Seq

LEMMA ServerReplyTypes ==
  ASSUME NEW k \in Kinds, NEW s \in 0..255, NEW p \in ServerReplies(k, s)
  PROVE p \in Packets
  BY DEF Packets, ServerReplies, HeartbeatReply, Packet, Kinds, FileKinds

LEMMA FailTypes ==
  ASSUME Typed, NEW e \in Errors, Fail(e)
  PROVE Typed'
  BY DEF Typed, TypeOK, Fail, Enter, States, Errors, LoginKinds, RoundKinds, LogoutKinds,
    Kinds, Heartbeats, FileKinds, context, network, server

LEMMA SucceedTypes ==
  ASSUME Typed, step \in Kinds, Succeed
  PROVE Typed'
<1>1. step' \in Kinds \cup {"sleep", "closed"}
  BY DEF Succeed, Enter, After, HeartbeatAt, Kinds, FileKinds
<1>2. count' \in Nat /\ state' \in States
  BY DEF Typed, TypeOK, Succeed, Counted, Reached, States
<1>3. requests' \subseteq Requests /\ replies' \subseteq Messages
  BY DEF Typed, TypeOK, Succeed
<1>4. QED
  BY <1>1, <1>2, <1>3 DEF Typed, TypeOK, Succeed, Enter, context, server

LEMMA ServeTypes ==
  ASSUME Typed, NEW r \in requests, Serve(r)
  PROVE Typed'
<1>1. r \in Requests /\ Seq(r.count) \in 0..255
  BY SeqIsByte DEF Typed, TypeOK, Requests
<1>2. PICK p \in IF Refused(r) THEN {Rejection} ELSE ServerReplies(r.kind, Seq(r.count)) :
        replies' = replies \cup {Reply(r, p)}
  BY DEF Serve
<1>3. p \in Packets
  <2>1. Rejection \in Packets
    BY DEF Rejection, Packet, Packets
  <2>2. r.kind \in Kinds
    BY <1>1 DEF Requests
  <2>3. QED
    BY <1>1, <1>2, <2>1, <2>2, ServerReplyTypes
<1>4. Reply(r, p) \in Messages
  <2>1. r \in [kind : Kinds, count : Int]
    BY <1>1 DEF Requests
  <2>2. Server \in Senders
    BY DEF Server, Senders
  <2>3. QED
    BY <1>3, <2>1, <2>2 DEF Reply, Messages
<1>5. seen' \in Int
  BY <1>1 DEF Typed, TypeOK, Serve, Requests
<1>6. held' \in BOOLEAN
  BY DEF Typed, TypeOK, Serve
<1>7. QED
  BY <1>2, <1>4, <1>5, <1>6 DEF Typed, TypeOK, Serve, client, context

LEMMA InitTypes == Init => Typed
<1> SUFFICES ASSUME Init PROVE Typed
  OBVIOUS
<1>1. attempt \in 0..(RetryCount + 1) /\ attempt <= RetryCount /\ count \in Nat /\ seen \in Int
  BY DEF Init
<1>2. requests \subseteq Requests /\ replies \subseteq Messages
  BY DEF Init
<1>3. cancelled \in BOOLEAN /\ expired \in BOOLEAN /\ valid \in BOOLEAN /\ held \in BOOLEAN
  BY DEF Init
<1>4. step \in Kinds /\ io = "ready" /\ state \in States /\ result = "none"
  BY DEF Init, Kinds, States
<1>5. QED
  BY <1>1, <1>2, <1>3, <1>4 DEF Typed, TypeOK

LEMMA NextTypes == Typed /\ [Next]_vars => Typed'
<1> SUFFICES ASSUME Typed, [Next]_vars PROVE Typed'
  OBVIOUS
<1>1. CASE Begin
  BY <1>1 DEF Begin, Typed, TypeOK, context, network, server
<1>2. CASE Write
  BY <1>2 DEF Write, Typed, TypeOK, Requests, context, server
<1>3. CASE SocketFails
  BY <1>3, FailTypes DEF SocketFails, Errors
<1>4. CASE Timeout
  BY <1>4, FailTypes DEF Timeout, Errors, Typed, TypeOK, context, network, server
<1>5. CASE Interrupt
  BY <1>5, FailTypes DEF Interrupt, Errors
<1>6. CASE \E m \in replies : Receive(m)
  <2>1. step \in Kinds
    BY <1>6 DEF Receive, Typed
  <2>2. QED
    BY <1>6, <2>1, FailTypes, SucceedTypes DEF Receive, Errors
<1>7. CASE Wake
  BY <1>7 DEF Wake, Enter, Typed, TypeOK, Kinds, context, network, server
<1>8. CASE Leave
  BY <1>8 DEF Leave, Enter, Typed, TypeOK, Kinds, context, network, server
<1>9. CASE Deferred
  BY <1>9 DEF Deferred, Enter, Typed, TypeOK, States, Kinds, context, network, server
<1>10. CASE Cancel \/ Expire \/ Kick
  BY <1>10 DEF Cancel, Expire, Kick, Typed, TypeOK, client, context, network, server
<1>11. CASE \E r \in requests : Serve(r)
  BY <1>11, ServeTypes
<1>12. CASE UNCHANGED vars
  BY <1>12 DEF Typed, TypeOK, vars, client, context, network, server
<1>13. QED
  BY <1>1, <1>2, <1>3, <1>4, <1>5, <1>6, <1>7, <1>8, <1>9, <1>10, <1>11, <1>12
    DEF Next, Client, Closed

\* The session's variables keep their types and no exchange begins more
\* attempts than the configuration allows (RetryExchange).
THEOREM SessionTypes == Spec => []TypeOK
<1>1. Typed => TypeOK
  BY DEF Typed
<1>2. QED
  BY <1>1, InitTypes, NextTypes, PTL DEF Spec

-----------------------------------------------------------------------------
(* The steps, sorted by what they do to the invariants below.               *)

Stays == UNCHANGED <<step, state, result, count, requests, replies, valid, seen>>

GivesUp == step \in Kinds /\ \E e \in {"canceled", "unavailable"} : Fail(e)

RefusedBy(m) == FromServer(m) /\ Rejects(m.wire) /\ step \in Kinds /\ Fail("refused")

AnsweredBy(m) ==
  FromServer(m) /\ Answers(step, Seq(count), m.wire) /\ step \in Kinds /\ Succeed

Writes == Write /\ step \in Kinds

Sorted ==
  \/ Stays \/ GivesUp \/ Wake \/ Leave \/ Deferred \/ Writes
  \/ \E m \in replies : RefusedBy(m)
  \/ \E m \in replies : AnsweredBy(m)
  \/ \E r \in requests : Serve(r)

LEMMA StepsSorted == Typed /\ [Next]_vars => Sorted
<1> SUFFICES ASSUME Typed, [Next]_vars PROVE Sorted
  OBVIOUS
<1>1. CASE Begin
  BY <1>1 DEF Begin, Sorted, Stays, network, server
<1>2. CASE Write
  BY <1>2 DEF Write, Typed, Writes, Sorted
<1>3. CASE SocketFails
  BY <1>3 DEF SocketFails, Typed, GivesUp, Sorted
<1>4. CASE Timeout
  BY <1>4 DEF Timeout, Typed, GivesUp, Stays, Sorted, network, server
<1>5. CASE Interrupt
  BY <1>5 DEF Interrupt, GivesUp, Sorted
<1>6. CASE \E m \in replies : Receive(m)
  BY <1>6 DEF Receive, Typed, RefusedBy, AnsweredBy, Sorted
<1>7. CASE Wake \/ Leave \/ Deferred
  BY <1>7 DEF Sorted
<1>8. CASE Cancel \/ Expire \/ Kick
  BY <1>8 DEF Cancel, Expire, Kick, Sorted, Stays, client, network, server
<1>9. CASE \E r \in requests : Serve(r)
  BY <1>9 DEF Sorted
<1>10. CASE UNCHANGED vars
  BY <1>10 DEF Sorted, Stays, vars, client, network, server
<1>11. QED
  BY <1>1, <1>2, <1>3, <1>4, <1>5, <1>6, <1>7, <1>8, <1>9, <1>10 DEF Next, Client, Closed

-----------------------------------------------------------------------------
(* The cadence of the heartbeats.                                           *)

Odds == {1, 3, 5, 7, 9, 11, 13, 15, 17, 19}
Evens == {2, 4, 6, 8, 10, 12, 14, 16, 18, 20}

\* The heartbeat numbers that each kind of heartbeat is sent with.  They do
\* not overlap, so the number of a heartbeat tells its kind.
Fits(kind, c) ==
  /\ kind = "first" => c = 0
  /\ kind = "extra" => c # 0 /\ c % 21 = 0
  /\ kind = "step1" => c % 21 \in Odds
  /\ kind = "step2" => c % 21 \in Evens

\* Between rounds the count is zero or odd modulo 21.
Cadence ==
  /\ step \in LoginKinds => count = 0
  /\ step \in {"keepAlive", "sleep"} => count % 21 \in {0} \cup Odds
  /\ step \in Heartbeats => Fits(step, count)

LEMMA CadenceHolds == Typed /\ Cadence /\ Sorted => Cadence'
<1> SUFFICES ASSUME Typed, Cadence, Sorted PROVE Cadence'
  OBVIOUS
<1> USE DEF LoginKinds, Heartbeats, FileKinds
<1>1. CASE Stays
  BY <1>1 DEF Stays, Cadence, Fits
<1>2. CASE GivesUp \/ \E m \in replies : RefusedBy(m)
  BY <1>2 DEF GivesUp, RefusedBy, Fail, Enter, Cadence
<1>3. CASE Wake
  BY <1>3 DEF Wake, Enter, Cadence
<1>4. CASE Leave \/ Deferred
  BY <1>4 DEF Leave, Deferred, Enter, Cadence
<1>5. CASE Writes
  BY <1>5 DEF Writes, Write, Cadence, Fits
<1>6. CASE \E r \in requests : Serve(r)
  BY <1>6 DEF Serve, client, Cadence, Fits
<1>7. ASSUME NEW m \in replies, AnsweredBy(m) PROVE Cadence'
  <2> count \in Nat
    BY DEF Typed, TypeOK
  <2>1. step' = After(step, count) /\ count' = Counted(step, count)
    BY <1>7 DEF AnsweredBy, Succeed, Enter
  <2>2. CASE step \in LoginKinds
    BY <2>1, <2>2 DEF After, Counted, Cadence
  <2>3. CASE step = "keepAlive"
    BY <2>1, <2>3 DEF After, HeartbeatAt, Counted, Cadence, Fits, Odds
  <2>4. CASE step \in FileKinds
    BY <2>1, <2>4 DEF After, Counted, Cadence, Fits, Odds
  <2>5. CASE step = "step1"
    BY <2>1, <2>5 DEF After, Counted, Cadence, Fits, Odds, Evens
  <2>6. CASE step = "step2"
    BY <2>1, <2>6 DEF After, Counted, Cadence, Fits, Odds, Evens
  <2>7. CASE step \in LogoutKinds
    BY <2>1, <2>7 DEF After, Counted, Cadence, LogoutKinds
  <2>8. QED
    BY <1>7, <2>2, <2>3, <2>4, <2>5, <2>6, <2>7 DEF AnsweredBy, Kinds, LogoutKinds
<1>8. QED
  BY <1>1, <1>2, <1>3, <1>4, <1>5, <1>6, <1>7 DEF Sorted

\* No round ever sends a regular heartbeat with a number whose turn an extra
\* heartbeat is (HeartbeatOnce), however many rounds the session lives.
THEOREM ExtraOnTime == Spec => []ExtraNeverSkipped
<1> DEFINE Inv == Typed /\ Cadence
<1>1. Init => Inv
  BY InitTypes DEF Init, Cadence, Heartbeats, FileKinds
<1>2. Inv /\ [Next]_vars => Inv'
  BY NextTypes, StepsSorted, CadenceHolds
<1>3. Inv => ExtraNeverSkipped
  BY DEF Cadence, Fits, ExtraNeverSkipped, Heartbeats, Odds, Evens
<1>4. QED
  BY <1>1, <1>2, <1>3, PTL DEF Spec

-----------------------------------------------------------------------------
(* What the network holds.                                                  *)

\* The server's own datagrams are all of this session.
NoStale == \A m \in Stale : ~ FromServer(m)

\* A request of this session, sent with a number its kind has and at most
\* Lifetime numbers ago.
Recent(r) ==
  /\ r \in Requests
  /\ r.count <= count /\ count < r.count + Lifetime
  /\ r.kind \in Heartbeats => Fits(r.kind, r.count)

Genuine(m) == Rejects(m.wire) \/ m.wire \in ServerReplies(m.re.kind, Seq(m.re.count))

Traffic ==
  /\ \A r \in requests : Recent(r)
  /\ \A m \in replies : FromServer(m) => Recent(m.re) /\ Genuine(m)

LEMMA ServedIsGenuine ==
  ASSUME NEW r \in requests, Serve(r)
  PROVE \A m \in replies' : m \in replies \/ (m.re = r /\ Genuine(m))
<1>1. PICK p \in IF Refused(r) THEN {Rejection} ELSE ServerReplies(r.kind, Seq(r.count)) :
        replies' = replies \cup {Reply(r, p)}
  BY DEF Serve
<1>2. Rejects(p) \/ p \in ServerReplies(r.kind, Seq(r.count))
  BY <1>1 DEF Rejection, Packet, Rejects
<1>3. Reply(r, p).wire = p /\ Reply(r, p).re = r
  BY DEF Reply
<1>4. Genuine(Reply(r, p))
  BY <1>2, <1>3 DEF Genuine
<1>5. QED
  BY <1>1, <1>3, <1>4

LEMMA TrafficHolds == Typed /\ Cadence /\ Traffic /\ Sorted => Traffic'
<1> SUFFICES ASSUME Typed, Cadence, Traffic, Sorted PROVE Traffic'
  OBVIOUS
<1> count \in Nat /\ Lifetime \in Nat /\ Lifetime > 0
  BY DEF Typed, TypeOK
<1>1. ASSUME UNCHANGED <<count, requests, replies>> PROVE Traffic'
  BY <1>1 DEF Traffic, Recent, Genuine
<1>2. CASE Stays \/ GivesUp \/ \E m \in replies : RefusedBy(m)
  BY <1>1, <1>2 DEF Stays, GivesUp, RefusedBy, Fail, network
<1>3. CASE Wake \/ Leave \/ Deferred
  BY <1>1, <1>3 DEF Wake, Leave, Deferred, network
<1>4. CASE Writes
  <2>1. requests' = requests \cup {[kind |-> step, count |-> count]}
        /\ count' = count /\ replies' = replies
    BY <1>4 DEF Writes, Write
  <2>2. Recent([kind |-> step, count |-> count])
    BY <1>4 DEF Writes, Recent, Requests, Cadence
  <2>3. QED
    BY <2>1, <2>2 DEF Traffic, Recent, Genuine
<1>5. ASSUME NEW m \in replies, AnsweredBy(m) PROVE Traffic'
  <2>1. /\ requests' = {r \in requests : count' < r.count + Lifetime}
        /\ replies' = {n \in replies : count' < n.re.count + Lifetime}
    BY <1>5 DEF AnsweredBy, Succeed
  <2>2. count' \in Nat /\ count <= count'
    BY <1>5 DEF AnsweredBy, Succeed, Counted
  <2>3. ASSUME NEW r, Recent(r), count' < r.count + Lifetime PROVE Recent(r)'
    BY <2>2, <2>3 DEF Recent, Requests
  <2>4. QED
    BY <2>1, <2>3 DEF Traffic, Genuine
<1>6. ASSUME NEW r \in requests, Serve(r) PROVE Traffic'
  <2>1. count' = count /\ requests' = requests
    BY <1>6 DEF Serve, client
  <2>2. QED
    BY <1>6, <2>1, ServedIsGenuine DEF Traffic, Recent, Genuine
<1>7. QED
  BY <1>2, <1>3, <1>4, <1>5, <1>6 DEF Sorted

LEMMA InitTraffic == NoStale /\ Init => Traffic
  BY DEF NoStale, Init, Traffic

-----------------------------------------------------------------------------
(* What an accepted datagram says.                                          *)

\* The heartbeats whose replies the matcher does not tell apart by shape.
Alike == FileKinds \cup {"step1"}

\* The matcher on the server's own shapes: it confuses first, extra and step1
\* heartbeats of one number with each other, and nothing else.
LEMMA OnlyOwnShapes ==
  \A k, l \in Kinds, s, t \in 0..255 : \A p \in ServerReplies(l, t) : Answers(k, s, p) =>
    /\ k = l \/ (k \in Alike /\ l \in Alike)
    /\ k \in Heartbeats => s = t
  BY DEF Alike, ServerReplies, HeartbeatReply, Packet, Kinds, FileKinds, Heartbeats, Answers, Accepts,
    Request, BuildLoginChallenge, BuildLogoutChallenge, BuildLoginPacket,
    BuildKeepAliveAuth, BuildLogoutPacket, BuildHeartbeatBase, BuildHeartbeatStep2, Rejects,
    ValidHeartbeat, KeepAliveReply, LogoutReply, HeartbeatPhases

\* A byte tells numbers apart that are less than 256 apart.
LEMMA SeqDetermines ==
  ASSUME NEW a \in Nat, NEW b \in Nat, a <= b, b < a + 256, Seq(a) = Seq(b)
  PROVE a = b
  BY DEF Seq

LEMMA AcceptedIsOwn == Typed /\ Cadence /\ Traffic => AcceptsOnlyOwn
<1> SUFFICES ASSUME Typed, Cadence, Traffic, NEW m \in replies,
                    step \in Kinds, FromServer(m), Answers(step, Seq(count), m.wire)
             PROVE m.re.kind = step /\ (step \in Heartbeats => m.re.count = count)
  BY DEF AcceptsOnlyOwn
<1> DEFINE r == m.re
<1>1. Recent(r) /\ r.kind \in Kinds /\ r.count \in Nat /\ count \in Nat
  BY DEF Traffic, Recent, Requests, Typed, TypeOK
<1>2. m.wire \in ServerReplies(r.kind, Seq(r.count))
  BY DEF Traffic, Genuine, Answers, Accepts
<1>3. Seq(count) \in 0..255 /\ Seq(r.count) \in 0..255
  BY <1>1, SeqIsByte
<1>4. /\ step = r.kind \/ (step \in Alike /\ r.kind \in Alike)
      /\ step \in Heartbeats => Seq(count) = Seq(r.count)
  <2> DEFINE k == r.kind  t == Seq(r.count)  s == Seq(count)  p == m.wire
  <2>1. k \in Kinds /\ s \in 0..255 /\ t \in 0..255 /\ p \in ServerReplies(k, t)
    BY <1>1, <1>2, <1>3
  <2>2. Answers(step, s, p)
    OBVIOUS
  <2> HIDE DEF k, s, t, p
  <2>3. /\ step = k \/ (step \in Alike /\ k \in Alike)
        /\ step \in Heartbeats => s = t
    BY <2>1, <2>2, OnlyOwnShapes, Zenon
  <2>4. QED
    BY <2>3 DEF k, s, t
<1>5. step \in Heartbeats => r.count = count
  <2> DEFINE c == r.count
  <2>1. c \in Nat /\ count \in Nat /\ c <= count /\ count < c + 256
    BY <1>1 DEF Recent
  <2> HIDE DEF c
  <2>2. Seq(c) = Seq(count) => c = count
    BY <2>1, SeqDetermines
  <2>3. QED
    BY <1>4, <2>2 DEF c
<1>6. step = r.kind
  <2> SUFFICES ASSUME step \in Alike, r.kind \in Alike PROVE step = r.kind
    BY <1>4
  <2>1. Fits(step, count) /\ Fits(r.kind, count)
    BY <1>1, <1>5 DEF Recent, Cadence, Alike, Heartbeats, FileKinds
  <2> HIDE DEF r
  <2>2. QED
    BY <1>1, <2>1 DEF Fits, Alike, FileKinds, Odds
<1>7. QED
  BY <1>5, <1>6

\* Whatever the network delays, repeats and reorders, as long as nothing is
\* 256 heartbeat numbers late, the session accepts no datagram of the server
\* but the answer to its own current request (ResponseMatcher and the one-byte
\* HeartbeatCount).
THEOREM OwnRepliesOnly == ASSUME NoStale PROVE Spec => []AcceptsOnlyOwn
<1> DEFINE Inv == Typed /\ Cadence /\ Traffic
<1>1. Init => Inv
  BY InitTypes, InitTraffic DEF Init, Cadence, Heartbeats, FileKinds
<1>2. Inv /\ [Next]_vars => Inv'
  BY NextTypes, StepsSorted, CadenceHolds, TrafficHolds
<1>3. Inv => AcceptsOnlyOwn
  BY AcceptedIsOwn
<1>4. QED
  BY <1>1, <1>2, <1>3, PTL DEF Spec

-----------------------------------------------------------------------------
(* Rejected logins.                                                         *)

\* While the client logs in, only its login can be refused: nothing else is on
\* its way.
Rejections ==
  /\ step \in LoginKinds => \A r \in requests : r.kind \in LoginKinds
  /\ step \in LoginKinds => \A m \in replies : FromServer(m) => m.re.kind \in LoginKinds
  /\ \A m \in replies :
       FromServer(m) /\ Rejects(m.wire) /\ m.re.kind \in LoginKinds => ~ valid
  /\ result = "rejected" => ~ valid

LEMMA RepliesDoNotReject ==
  \A k \in Kinds, s \in 0..255 : \A p \in ServerReplies(k, s) : ~ Rejects(p)
  BY DEF ServerReplies, HeartbeatReply, Packet, Kinds, FileKinds, Rejects

LEMMA LoginRefusal ==
  ASSUME Typed, NEW r \in requests, Serve(r), r.kind \in LoginKinds,
         NEW m \in replies', m \notin replies, Rejects(m.wire)
  PROVE ~ valid
<1>1. PICK p \in IF Refused(r) THEN {Rejection} ELSE ServerReplies(r.kind, Seq(r.count)) :
        replies' = replies \cup {Reply(r, p)}
  BY DEF Serve
<1>2. m.wire = p
  BY <1>1 DEF Reply
<1>3. r.kind \in Kinds /\ Seq(r.count) \in 0..255
  BY SeqIsByte DEF Typed, TypeOK, Requests
<1>4. Refused(r)
  BY <1>1, <1>2, <1>3, RepliesDoNotReject
<1>5. QED
  BY <1>4 DEF Refused, LoginKinds, RoundKinds, Heartbeats, FileKinds

LEMMA RejectionsHold == Typed /\ Rejections /\ Sorted => Rejections'
<1> SUFFICES ASSUME Typed, Rejections, Sorted PROVE Rejections'
  OBVIOUS
<1>1. CASE Stays
  BY <1>1 DEF Stays, Rejections
<1>2. CASE GivesUp
  BY <1>2 DEF GivesUp, Fail, Enter, Rejections, LoginKinds, network, server
<1>3. CASE \E m \in replies : RefusedBy(m)
  BY <1>3 DEF RefusedBy, Fail, Enter, Rejections, LoginKinds, network, server
<1>4. CASE Wake \/ Leave \/ Deferred
  BY <1>4 DEF Wake, Leave, Deferred, Enter, Rejections, LoginKinds, network, server
<1>5. CASE Writes
  BY <1>5 DEF Writes, Write, Rejections, LoginKinds, server
<1>6. ASSUME NEW m \in replies, AnsweredBy(m) PROVE Rejections'
  <2>1. step' \in LoginKinds => step \in LoginKinds
    BY <1>6 DEF AnsweredBy, Succeed, Enter, After, HeartbeatAt, LoginKinds, FileKinds
  <2>2. requests' \subseteq requests /\ replies' \subseteq replies /\ result' = result /\ valid' = valid
    BY <1>6 DEF AnsweredBy, Succeed, server
  <2>3. QED
    BY <2>1, <2>2 DEF Rejections
<1>7. ASSUME NEW r \in requests, Serve(r) PROVE Rejections'
  <2>1. step' = step /\ result' = result /\ requests' = requests /\ valid' = valid
    BY <1>7 DEF Serve, client
  <2>2. \A m \in replies' : m \in replies \/ m.re = r
    BY <1>7, ServedIsGenuine
  <2>3. \A m \in replies' : m \notin replies /\ r.kind \in LoginKinds /\ Rejects(m.wire) => ~ valid
    BY <1>7, LoginRefusal
  <2>4. QED
    BY <2>1, <2>2, <2>3 DEF Rejections
<1>8. QED
  BY <1>1, <1>2, <1>3, <1>4, <1>5, <1>6, <1>7 DEF Sorted

\* Automatic retries are given up for good only for an account the server does
\* reject, unless the server's datagrams of an earlier session reach this one
\* (Login's ErrAuthenticationRejected).
THEOREM OnlyBadAccountsRejected == ASSUME NoStale PROVE Spec => []RejectionIsGenuine
<1> DEFINE Inv == Typed /\ Rejections
<1>1. Init => Inv
  BY InitTypes DEF NoStale, Init, Rejections
<1>2. Inv /\ [Next]_vars => Inv'
  BY NextTypes, StepsSorted, RejectionsHold
<1>3. Inv => RejectionIsGenuine
  BY DEF Rejections, RejectionIsGenuine
<1>4. QED
  BY <1>1, <1>2, <1>3, PTL DEF Spec

-----------------------------------------------------------------------------
(* Client and server count alike.                                           *)

\* No heartbeat is under way, nor did one just fail.
Settled == step \in LoginKinds \cup {"keepAlive", "sleep"} \/ (state = "Online" /\ step \notin Heartbeats)

\* The server has answered every heartbeat the client has counted and at most
\* the one under way besides; while none is, the client has sent no other.
InStep ==
  /\ seen \in {count - 1, count}
  /\ Settled => seen = count - 1
  /\ Settled => \A r \in requests : r.kind \in Heartbeats => r.count < count
  /\ \A m \in replies :
       FromServer(m) /\ m.re.kind \in Heartbeats /\ ~ Rejects(m.wire) => m.re.count <= seen

\* What the server answers it has seen.
LEMMA ServedIsSeen ==
  ASSUME Typed, NEW r \in requests, Serve(r)
  PROVE /\ seen' \in Int /\ seen <= seen' /\ seen' \in {seen, r.count}
        /\ r.kind \notin Heartbeats => seen' = seen
        /\ \A m \in replies' :
             m \notin replies /\ r.kind \in Heartbeats /\ ~ Rejects(m.wire) => r.count <= seen'
<1>0. seen \in Int /\ r.count \in Nat
  BY DEF Typed, TypeOK, Requests
<1>1. PICK p \in IF Refused(r) THEN {Rejection} ELSE ServerReplies(r.kind, Seq(r.count)) :
        replies' = replies \cup {Reply(r, p)}
  BY DEF Serve
<1>2. \A m \in replies' : m \notin replies => m.wire = p
  BY <1>1 DEF Reply
<1>3. Refused(r) => Rejects(p)
  BY <1>1 DEF Rejection, Packet, Rejects
<1>4. seen' = IF r.kind \in Heartbeats /\ ~ Refused(r) /\ r.count > seen THEN r.count ELSE seen
  BY DEF Serve
<1>5. QED
  BY <1>0, <1>2, <1>3, <1>4

LEMMA InStepHolds ==
  Typed /\ Cadence /\ Traffic /\ InStep /\ Sorted => InStep'
<1> SUFFICES ASSUME Typed, Cadence, Traffic, InStep, Sorted PROVE InStep'
  OBVIOUS
<1> count \in Nat /\ seen \in Int
  BY DEF Typed, TypeOK
<1>1. CASE Stays
  BY <1>1 DEF Stays, InStep, Settled
<1>2. CASE GivesUp \/ \E m \in replies : RefusedBy(m)
  <2>1. UNCHANGED <<count, requests, replies, seen>>
    BY <1>2 DEF GivesUp, RefusedBy, Fail, network, server
  <2>2. Settled' => Settled
    BY <1>2 DEF GivesUp, RefusedBy, Fail, Enter, Settled, LoginKinds, LogoutKinds, Heartbeats, FileKinds
  <2>3. QED
    BY <2>1, <2>2 DEF InStep
<1>3. CASE Wake \/ Leave \/ Deferred
  <2>1. UNCHANGED <<count, requests, replies, seen>>
    BY <1>3 DEF Wake, Leave, Deferred, network, server
  <2>2. Settled' => Settled
    BY <1>3 DEF Wake, Leave, Deferred, Enter, Settled, LoginKinds, Heartbeats, FileKinds
  <2>3. QED
    BY <2>1, <2>2 DEF InStep
<1>4. CASE Writes
  <2>1. UNCHANGED <<step, state, count, replies, seen>>
        /\ requests' = requests \cup {[kind |-> step, count |-> count]}
    BY <1>4 DEF Writes, Write, server
  <2>2. Settled' = Settled
    BY <2>1 DEF Settled
  <2>3. Settled => step \notin Heartbeats
    BY DEF Settled, LoginKinds, Heartbeats, FileKinds
  <2>4. QED
    BY <2>1, <2>2, <2>3 DEF InStep
<1>5. ASSUME NEW m \in replies, AnsweredBy(m) PROVE InStep'
  <2>1. /\ step' = After(step, count) /\ count' = Counted(step, count) /\ state' = Reached(step)
        /\ requests' \subseteq requests /\ replies' \subseteq replies /\ seen' = seen
    BY <1>5 DEF AnsweredBy, Succeed, Enter, server
  <2>2. CASE step \in Heartbeats
    <3>1. m.re.kind = step /\ m.re.count = count
      BY <1>5, <2>2, AcceptedIsOwn DEF AcceptsOnlyOwn, AnsweredBy
    <3>2. ~ Rejects(m.wire)
      BY <1>5 DEF AnsweredBy, Answers, Accepts
    <3>3. seen = count
      BY <1>5, <2>2, <3>1, <3>2 DEF InStep, AnsweredBy
    <3>4. count' = count + 1
      BY <2>1, <2>2 DEF Counted
    <3>5. \A r \in requests' : r.count < count'
      BY <2>1, <3>4 DEF Traffic, Recent, Requests
    <3>6. QED
      BY <2>1, <3>3, <3>4, <3>5 DEF InStep
  <2>3. CASE step \notin Heartbeats
    <3>1. count' = count
      BY <2>1, <2>3 DEF Counted
    <3>2. Settled' => Settled
      BY <1>5, <2>1, <2>3 DEF AnsweredBy, Settled, After, Reached, HeartbeatAt, Kinds, LoginKinds, Heartbeats, FileKinds
    <3>3. QED
      BY <2>1, <3>1, <3>2 DEF InStep
  <2>4. QED
    BY <2>2, <2>3
<1>6. ASSUME NEW r \in requests, Serve(r) PROVE InStep'
  <2>1. UNCHANGED <<step, state, count, requests>>
    BY <1>6 DEF Serve, client
  <2>2. Settled' = Settled
    BY <2>1 DEF Settled
  <2>3. \A m \in replies' : m \in replies \/ m.re = r
    BY <1>6, ServedIsGenuine
  <2>4. /\ seen' \in Int /\ seen <= seen' /\ seen' \in {seen, r.count}
        /\ r.kind \notin Heartbeats => seen' = seen
        /\ \A m \in replies' :
             m \notin replies /\ r.kind \in Heartbeats /\ ~ Rejects(m.wire) => r.count <= seen'
    BY <1>6, ServedIsSeen
  <2>5. r.count \in Nat /\ r.count <= count
    BY DEF Traffic, Recent, Requests
  <2>6. seen' \in {count - 1, count}
    BY <2>4, <2>5 DEF InStep
  <2>7. Settled => seen' = count - 1
    BY <2>4, <2>5 DEF InStep
  <2>8. \A m \in replies' :
          FromServer(m) /\ m.re.kind \in Heartbeats /\ ~ Rejects(m.wire) => m.re.count <= seen'
    <3> SUFFICES ASSUME NEW m \in replies', FromServer(m), m.re.kind \in Heartbeats,
                        ~ Rejects(m.wire)
                 PROVE m.re.count <= seen'
      OBVIOUS
    <3>1. CASE m \in replies
      <4>1. m.re.count \in Nat /\ m.re.count <= seen
        BY <3>1 DEF InStep, Traffic, Recent, Requests
      <4>2. QED
        BY <4>1, <2>4
    <3>2. CASE m \notin replies
      BY <3>2, <2>3, <2>4
    <3>3. QED
      BY <3>1, <3>2
  <2>9. QED
    BY <2>1, <2>2, <2>6, <2>7, <2>8 DEF InStep
<1>7. QED
  BY <1>1, <1>2, <1>3, <1>4, <1>5, <1>6 DEF Sorted

\* A heartbeat is counted exactly when the server has answered it, over any
\* number of rounds, losses, repetitions and wraps of the byte that numbers it
\* (HeartbeatCount++).
THEOREM CountsAgree == ASSUME NoStale PROVE Spec => []ServerInStep
<1> DEFINE Inv == Typed /\ Cadence /\ Traffic /\ InStep
<1>1. Init => Inv
  BY InitTypes, InitTraffic DEF NoStale, Init, Cadence, InStep, Settled, Heartbeats, FileKinds
<1>2. Inv /\ [Next]_vars => Inv'
  BY NextTypes, StepsSorted, CadenceHolds, TrafficHolds, InStepHolds
<1>3. Inv => ServerInStep
  BY DEF InStep, Settled, ServerInStep
<1>4. QED
  BY <1>1, <1>2, <1>3, PTL DEF Spec

-----------------------------------------------------------------------------
(* The session implements RunnerContract.                                   *)

\* The state last reported while an exchange of that phase is under way.
Staged ==
  /\ step = "loginChallenge" => state = "LoginChallenge"
  /\ step = "login" => state = "LoggingIn"
  /\ step = "sleep" => state = "Online"
  /\ step \in LogoutKinds => state = "LoggingOut"

LEMMA StagedHolds == Staged /\ Sorted => Staged'
<1> SUFFICES ASSUME Staged, Sorted PROVE Staged'
  OBVIOUS
<1> USE DEF Staged, LoginKinds, RoundKinds, LogoutKinds, Heartbeats, FileKinds
<1>1. CASE Stays
  BY <1>1 DEF Stays
<1>2. CASE GivesUp \/ \E m \in replies : RefusedBy(m)
  BY <1>2 DEF GivesUp, RefusedBy, Fail, Enter
<1>3. CASE Wake \/ Leave \/ Deferred
  BY <1>3 DEF Wake, Leave, Deferred, Enter
<1>4. CASE Writes
  BY <1>4 DEF Writes, Write
<1>5. ASSUME NEW m \in replies, AnsweredBy(m) PROVE Staged'
  BY <1>5 DEF AnsweredBy, Succeed, Enter, After, Reached, HeartbeatAt, Kinds
<1>6. ASSUME NEW r \in requests, Serve(r) PROVE Staged'
  BY <1>6 DEF Serve, client
<1>7. QED
  BY <1>1, <1>2, <1>3, <1>4, <1>5, <1>6 DEF Sorted

\* A step of Run, or one its owner does not see.
Promised ==
  \/ Contract!Step /\ UNCHANGED cancelled
  \/ Contract!Cancel
  \/ UNCHANGED <<Phase, state, result, cancelled>>

\* What an exchange reports: a refusal, its time-out, or the end of a context
\* that has ended.
LEMMA FailurePromised ==
  ASSUME Typed, Staged, step \in Kinds, NEW e \in Errors, Fail(e),
         e = "canceled" => Done
  PROVE Promised
<1>1. UNCHANGED cancelled
  BY DEF Fail, context
<1> USE DEF Promised, Phase, Contract!Step, Contract!Quiet, Contract!Ending, Contract!Transient,
    LoginKinds, RoundKinds, LogoutKinds, Heartbeats, FileKinds, Errors, Done
<1>2. CASE step \in LoginKinds
  <2>1. Contract!LoginFails
    BY <1>2 DEF Fail, Enter, Staged, Contract!LoginFails
  <2>2. QED
    BY <1>1, <2>1
<1>3. CASE step \in RoundKinds
  <2>1. Contract!RoundFails
    BY <1>3 DEF Fail, Enter, Contract!RoundFails
  <2>2. QED
    BY <1>1, <2>1
<1>4. CASE step \in LogoutKinds
  <2>1. Contract!LogoutEnds
    BY <1>4 DEF Fail, Enter, Staged, Contract!LogoutEnds
  <2>2. QED
    BY <1>1, <2>1
<1>5. QED
  BY <1>2, <1>3, <1>4 DEF Kinds

LEMMA SuccessPromised ==
  ASSUME Staged, step \in Kinds, Succeed
  PROVE Promised
<1>1. UNCHANGED <<cancelled, result>>
  BY DEF Succeed, context
<1>2. step' = After(step, count) /\ state' = Reached(step)
  BY DEF Succeed, Enter
<1> USE DEF Promised, Phase, Contract!Step, Contract!Quiet, Contract!Ending, Staged, After, Reached,
    HeartbeatAt, LoginKinds, RoundKinds, LogoutKinds, Heartbeats, FileKinds
<1>3. CASE step = "loginChallenge"
  BY <1>1, <1>2, <1>3 DEF Contract!Challenged
<1>4. CASE step = "login"
  BY <1>1, <1>2, <1>4 DEF Contract!LoggedIn
<1>5. CASE step = "step2"
  BY <1>1, <1>2, <1>5 DEF Contract!RoundDone
<1>6. CASE step \in RoundKinds \ {"step2"}
  BY <1>1, <1>2, <1>6
<1>7. CASE step = "logoutChallenge"
  BY <1>1, <1>2, <1>7
<1>8. CASE step = "logout"
  BY <1>1, <1>2, <1>8 DEF Contract!LogoutEnds
<1>9. QED
  BY <1>3, <1>4, <1>5, <1>6, <1>7, <1>8 DEF Kinds

LEMMA StepsPromised == Typed /\ Staged /\ [Next]_vars => Promised
<1> SUFFICES ASSUME Typed, Staged, [Next]_vars PROVE Promised
  OBVIOUS
<1> USE DEF Promised, Phase, LoginKinds, RoundKinds, LogoutKinds, Heartbeats, FileKinds
<1>1. CASE Begin \/ Write
  BY <1>1 DEF Begin, Write, context
<1>2. CASE SocketFails
  BY <1>2, FailurePromised DEF SocketFails, Typed, Errors
<1>3. CASE Timeout
  <2>1. CASE Fail("unavailable")
    BY <1>3, <2>1, FailurePromised DEF Timeout, Typed, Errors
  <2>2. CASE ~ Fail("unavailable")
    BY <1>3, <2>2 DEF Timeout, context
  <2>3. QED
    BY <2>1, <2>2
<1>4. CASE Interrupt
  BY <1>4, FailurePromised DEF Interrupt, Errors
<1>5. ASSUME NEW m \in replies, Receive(m) PROVE Promised
  BY <1>5, FailurePromised, SuccessPromised DEF Receive, Typed, Errors
<1>6. CASE Wake
  BY <1>6 DEF Wake, Enter, context
<1>7. CASE Leave
  BY <1>7 DEF Leave, Enter, context, Staged, Contract!Step, Contract!Quiet, Contract!Ending, Contract!PauseEnds
<1>8. CASE Deferred
  BY <1>8 DEF Deferred, Enter, context, Contract!Step, Contract!Quiet, Contract!Ending, Contract!Deferred
<1>9. CASE Cancel
  BY <1>9 DEF Cancel, client, Contract!Cancel
<1>10. CASE Expire \/ Kick \/ \E r \in requests : Serve(r)
  BY <1>10 DEF Expire, Kick, Serve, client, context
<1>11. CASE UNCHANGED vars
  BY <1>11 DEF vars, client, context
<1>12. QED
  BY <1>1, <1>2, <1>3, <1>4, <1>5, <1>6, <1>7, <1>8, <1>9, <1>10, <1>11 DEF Next, Client, Closed

\* Whatever the network and the server do, the owner of a session sees the
\* states in the promised order, a rejection only of the login, a cancelled
\* outcome only of a cancelled session, and a logout only then (Runner.Run).
THEOREM SessionKeepsContract == Spec => ImplementsContract
<1> DEFINE Inv == Typed /\ Staged
<1>1. Init => Inv /\ Contract!Init
  <2>1. Init => Staged
    BY DEF Init, Staged, LogoutKinds
  <2>2. Init => Contract!Init
    BY DEF Init, Phase, LoginKinds, RoundKinds, LogoutKinds, Heartbeats, FileKinds,
      Contract!Init, Contract!Started
  <2>3. QED
    BY <2>1, <2>2, InitTypes
<1>2. Inv /\ [Next]_vars => Inv'
  BY NextTypes, StepsSorted, StagedHolds
<1>3. Inv /\ [Next]_vars => [Contract!Next]_(Contract!vars)
  BY StepsPromised DEF Promised, Contract!Next, Contract!vars
<1>4. QED
  BY <1>1, <1>2, <1>3, PTL DEF Spec, ImplementsContract, Contract!Spec
-----------------------------------------------------------------------------
(* A cancelled session counts down.                                         *)

\* Steps of an exchange that has begun "a" attempts, with all those it has left,
\* and of one that has not begun.
Left(i, a) == 3 * (RetryCount + 1 - a)
                + (IF i = "ready" THEN 1 ELSE IF i = "reading" THEN 2 ELSE 3)
Exchange == 3 * (RetryCount + 1) + 1

\* Steps until an exchange outside the logout has ended: no attempt begins any
\* more, but the one under way may still succeed.
Last(i) == IF i = "ready" THEN 2 ELSE IF i = "reading" THEN 4 ELSE 5

\* At most so many steps of its own has a cancelled Run still to take from
\* place "s".  Go's select may wake the next round, which then gives up.
Rest(s, i, a) ==
  CASE s = "closed"          -> 0
    [] s = "logout"          -> Left(i, a)
    [] s = "logoutChallenge" -> Exchange + Left(i, a)
    [] s = "ending"          -> 2 * Exchange + 1
    [] s = "sleep"           -> 2 * Exchange + 3
    [] OTHER                 -> 2 * Exchange + Last(i)

Budget == Rest(step, io, attempt)

CancelCountsDown ==
  /\ [](Budget \in 0..6 * RetryCount + 13)
  /\ [][cancelled => Budget' <= Budget /\ (Client => Budget' < Budget)]_vars

LEMMA Sizes ==
  /\ Exchange \in Nat /\ Exchange = Left("ready", 0) /\ Exchange = 3 * RetryCount + 4
  /\ \A i, a : a \in 0..(RetryCount + 1) => Left(i, a) \in 1..(3 * RetryCount + 6)
  /\ \A i : Last(i) \in 2..5
  /\ Last("ready") = 2 /\ Last("reading") = 4 /\ Last("armed") = 5
BY DEF Exchange, Left, Last

\* What Rest is, place by place.
LEMMA Rests ==
  ASSUME NEW i, NEW a
  PROVE  /\ Rest("closed", i, a) = 0
         /\ Rest("logout", i, a) = Left(i, a)
         /\ Rest("logoutChallenge", i, a) = Exchange + Left(i, a)
         /\ Rest("ending", i, a) = 2 * Exchange + 1
         /\ Rest("sleep", i, a) = 2 * Exchange + 3
         /\ \A s \in LoginKinds \cup RoundKinds : Rest(s, i, a) = 2 * Exchange + Last(i)
BY DEF Rest, LoginKinds, RoundKinds, Heartbeats, FileKinds

\* The kinds, sorted as Rest sorts them.
LEMMA KindsSorted ==
  /\ Kinds = {"logoutChallenge", "logout"} \cup LoginKinds \cup RoundKinds
  /\ \A s \in LoginKinds \cup RoundKinds :
       s \notin {"closed", "logout", "logoutChallenge", "ending", "sleep"}
BY DEF Kinds, LoginKinds, RoundKinds, Heartbeats, FileKinds

LEMMA RestBounds ==
  ASSUME NEW s \in Kinds \cup {"sleep", "ending", "closed"}, NEW i,
         NEW a \in 0..(RetryCount + 1)
  PROVE  Rest(s, i, a) \in 0..6 * RetryCount + 13
<1>1. CASE s \in {"closed", "logout", "logoutChallenge", "ending", "sleep"}
  BY <1>1, Sizes, Rests
<1>2. CASE s \in LoginKinds \cup RoundKinds
  <2>1. Rest(s, i, a) = 2 * Exchange + Last(i)
    BY <1>2, Rests
  <2>2. QED
    BY <2>1, Sizes
<1>3. QED
  BY <1>1, <1>2, KindsSorted

LEMMA BudgetBounds == Typed => Budget \in 0..6 * RetryCount + 13
BY RestBounds DEF Typed, TypeOK, Budget

LEMMA BudgetBoundsNext == Typed /\ [Next]_vars => Budget' \in 0..6 * RetryCount + 13
<1> SUFFICES ASSUME Typed' PROVE Budget' \in 0..6 * RetryCount + 13
  BY NextTypes
<1>1. step' \in Kinds \cup {"sleep", "ending", "closed"} /\ attempt' \in 0..(RetryCount + 1)
  BY DEF Typed, TypeOK
<1>2. QED
  BY <1>1, RestBounds DEF Budget

LEMMA OthersCostNothing == UNCHANGED client => Budget' = Budget
BY DEF client, Budget

\* The steps of Fail and of Succeed: each ends an exchange.
LEMMA FailCosts ==
  ASSUME Typed, step \in Kinds, NEW e, Fail(e)
  PROVE  Budget' < Budget
<1>1. attempt \in 0..(RetryCount + 1)
  BY DEF Typed, TypeOK
<1>2. CASE step \in LoginKinds \cup RoundKinds
  <2>1. Budget = 2 * Exchange + Last(io)
    BY <1>2, Rests DEF Budget
  <2>2. step' \in {"closed", "ending"}
    BY <1>2, KindsSorted DEF Fail, Enter, LogoutKinds
  <2>3. Budget' = 0 \/ Budget' = 2 * Exchange + 1
    BY <2>2, Rests DEF Budget
  <2>4. QED
    BY <2>1, <2>3, Sizes
<1>3. CASE step \in {"logoutChallenge", "logout"}
  <2>1. Budget = Left(io, attempt) \/ Budget = Exchange + Left(io, attempt)
    BY <1>3, Rests DEF Budget
  <2>2. step' = "closed"
    BY <1>3, KindsSorted DEF Fail, Enter
  <2>3. Budget' = 0
    BY <2>2, Rests DEF Budget
  <2>4. QED
    BY <1>1, <2>1, <2>3, Sizes
<1>4. QED
  BY <1>2, <1>3, KindsSorted

LEMMA SucceedCosts ==
  ASSUME Typed, step \in Kinds, io = "reading", Succeed
  PROVE  Budget' < Budget
<1>1. attempt \in 0..(RetryCount + 1)
  BY DEF Typed, TypeOK
<1>2. step' = After(step, count) /\ io' = "ready" /\ attempt' = 0
  BY DEF Succeed, Enter
<1>3. CASE step \in LoginKinds \cup RoundKinds
  <2>1. Budget = 2 * Exchange + Last("reading")
    BY <1>3, Rests DEF Budget
  <2>2. step' \in {"sleep"} \cup LoginKinds \cup RoundKinds
    <3> DEFINE at == HeartbeatAt(count)
    <3>1. at \in {"first", "extra", "step1"}
      BY DEF HeartbeatAt
    <3>2. step \in LoginKinds => step' \in {"login", "keepAlive"}
      BY <1>2 DEF After, LoginKinds, FileKinds
    <3>3. step = "keepAlive" => step' = at
      BY <1>2 DEF After, FileKinds
    <3>4. step \in Heartbeats => step' \in {"step1", "step2", "sleep"}
      BY <1>2 DEF After, Heartbeats, FileKinds
    <3>5. QED
      BY <1>3, <3>1, <3>2, <3>3, <3>4 DEF LoginKinds, RoundKinds, Heartbeats, FileKinds
  <2>3. step' = "sleep" => Budget' = 2 * Exchange + 3
    BY Rests DEF Budget
  <2>4. step' \in LoginKinds \cup RoundKinds => Budget' = 2 * Exchange + Last("ready")
    BY <1>2, Rests DEF Budget
  <2>5. QED
    BY <2>1, <2>2, <2>3, <2>4, Sizes
<1>4. CASE step = "logoutChallenge"
  <2>1. Budget = Exchange + Left(io, attempt)
    BY <1>4, Rests DEF Budget
  <2>2. step' = "logout"
    BY <1>2, <1>4 DEF After, FileKinds
  <2>3. Budget' = Left("ready", 0)
    BY <1>2, <2>2, Rests DEF Budget
  <2>4. QED
    BY <1>1, <2>1, <2>3, Sizes
<1>5. CASE step = "logout"
  <2>1. Budget = Left(io, attempt)
    BY <1>5, Rests DEF Budget
  <2>2. step' = "closed"
    BY <1>2, <1>5 DEF After, FileKinds
  <2>3. Budget' = 0
    BY <2>2, Rests DEF Budget
  <2>4. QED
    BY <1>1, <2>1, <2>3, Sizes
<1>6. QED
  BY <1>3, <1>4, <1>5, KindsSorted

\* A step within an exchange: of the logout any, of another only the write.
LEMMA WithinCosts ==
  ASSUME Typed, step \in Kinds, step' = step, Left(io', attempt') < Left(io, attempt),
         attempt' \in 0..(RetryCount + 1),
         step \in LogoutKinds \/ Last(io') < Last(io)
  PROVE  Budget' < Budget
<1>1. Left(io', attempt') \in Int /\ Left(io, attempt) \in Int /\ Exchange \in Int
  BY Sizes DEF Typed, TypeOK
<1>2. Last(io) \in Int /\ Last(io') \in Int
  BY Sizes
<1>3. CASE step = "logout"
  <2>1. Budget = Left(io, attempt) /\ Budget' = Left(io', attempt')
    BY <1>3, Rests DEF Budget
  <2>2. QED
    BY <2>1
<1>4. CASE step = "logoutChallenge"
  <2>1. Budget = Exchange + Left(io, attempt) /\ Budget' = Exchange + Left(io', attempt')
    BY <1>4, Rests DEF Budget
  <2>2. QED
    BY <1>1, <2>1
<1>5. CASE step \in LoginKinds \cup RoundKinds
  <2>1. Budget = 2 * Exchange + Last(io) /\ Budget' = 2 * Exchange + Last(io')
    BY <1>5, Rests DEF Budget
  <2>2. step \notin LogoutKinds
    BY <1>5, KindsSorted DEF LogoutKinds
  <2>3. QED
    BY <1>1, <1>2, <2>1, <2>2
<1>6. QED
  BY <1>3, <1>4, <1>5, KindsSorted

LEMMA ClientCosts ==
  ASSUME Typed, cancelled, Client
  PROVE  Budget' < Budget
<1>1. attempt \in 0..(RetryCount + 1) /\ io \in {"ready", "armed", "reading"}
      /\ (io # "ready" => step \in Kinds)
      /\ (step \in Kinds /\ io = "ready" => attempt <= RetryCount)
  BY DEF Typed, TypeOK
<1>2. CASE Begin
  <2>1. step \in Kinds /\ step \in LogoutKinds /\ step' = step
    BY <1>2 DEF Begin, Done
  <2>2. io = "ready" /\ io' = "armed" /\ attempt' = attempt + 1
    BY <1>2 DEF Begin
  <2>3. attempt' \in 0..(RetryCount + 1) /\ Left(io', attempt') < Left(io, attempt)
    BY <1>1, <2>1, <2>2 DEF Left
  <2>4. QED
    BY <2>1, <2>3, WithinCosts
<1>3. CASE Write
  <2>1. step \in Kinds /\ step' = step
    BY <1>1, <1>3 DEF Write
  <2>2. io = "armed" /\ io' = "reading" /\ attempt' = attempt
    BY <1>3 DEF Write
  <2>3. Left(io', attempt') < Left(io, attempt) /\ Last(io') < Last(io)
    BY <1>1, <2>2 DEF Left, Last
  <2>4. QED
    BY <1>1, <2>1, <2>2, <2>3, WithinCosts
<1>4. CASE SocketFails \/ Interrupt
  BY <1>1, <1>4, FailCosts DEF SocketFails, Interrupt
<1>5. CASE Timeout
  <2>1. step \in Kinds /\ step \in LogoutKinds /\ io = "reading"
    BY <1>1, <1>5 DEF Timeout, Done
  <2>2. CASE Fail("unavailable")
    BY <2>1, <2>2, FailCosts
  <2>3. CASE io' = "ready" /\ step' = step /\ attempt' = attempt
    <3>1. Left(io', attempt') < Left(io, attempt)
      BY <1>1, <2>1, <2>3 DEF Left
    <3>2. QED
      BY <1>1, <2>1, <2>3, <3>1, WithinCosts
  <2>4. QED
    BY <1>5, <2>2, <2>3 DEF Timeout
<1>6. CASE \E m \in replies : Receive(m)
  BY <1>1, <1>6, FailCosts, SucceedCosts DEF Receive
<1>7. CASE Wake
  <2>1. step = "sleep" /\ step' = "keepAlive" /\ io' = "ready"
    BY <1>7 DEF Wake, Enter
  <2>2. Budget = 2 * Exchange + 3
    BY <2>1, Rests DEF Budget
  <2>3. "keepAlive" \in LoginKinds \cup RoundKinds
    BY DEF RoundKinds
  <2>4. Budget' = 2 * Exchange + Last("ready")
    BY <2>1, <2>3, Rests DEF Budget
  <2>5. QED
    BY <2>2, <2>4, Sizes
<1>8. CASE Leave
  <2>1. step = "sleep" /\ step' = "ending"
    BY <1>8 DEF Leave, Enter
  <2>2. Budget = 2 * Exchange + 3
    BY <2>1, Rests DEF Budget
  <2>3. Budget' = 2 * Exchange + 1
    BY <2>1, Rests DEF Budget
  <2>4. QED
    BY <2>2, <2>3, Sizes
<1>9. CASE Deferred
  <2>1. step = "ending" /\ step' = "logoutChallenge" /\ io' = "ready" /\ attempt' = 0
    BY <1>9 DEF Deferred, Enter
  <2>2. Budget = 2 * Exchange + 1
    BY <2>1, Rests DEF Budget
  <2>3. Budget' = Exchange + Left("ready", 0)
    BY <2>1, Rests DEF Budget
  <2>4. QED
    BY <2>2, <2>3, Sizes
<1>10. QED
  BY <1>2, <1>3, <1>4, <1>5, <1>6, <1>7, <1>8, <1>9 DEF Client

\* However the network and the server behave, and wherever in Run it is, a
\* cancelled session takes at most 6 * RetryCount + 13 steps of its own until it
\* has returned, its logout with all its retries included.  With the fairness
\* of FairSpec this is why CancelEnds holds (Run, RetryExchange).
THEOREM CancelledCountsDown == Spec => CancelCountsDown
<1>1. Typed /\ [Next]_vars =>
        [cancelled => Budget' <= Budget /\ (Client => Budget' < Budget)]_vars
  <2> SUFFICES ASSUME Typed, Next, cancelled, vars' # vars
               PROVE  Budget' <= Budget /\ (Client => Budget' < Budget)
    OBVIOUS
  <2>1. CASE Client
    <3>1. Budget \in Int /\ Budget' \in Int
      BY BudgetBounds, BudgetBoundsNext
    <3>2. Budget' < Budget
      BY <2>1, ClientCosts
    <3>3. QED
      BY <3>1, <3>2
  <2>2. CASE UNCHANGED client
    <3>1. Budget' = Budget /\ Budget \in Int
      BY <2>2, BudgetBounds, OthersCostNothing
    <3>2. ~ Client
      BY <3>1, ClientCosts
    <3>3. QED
      BY <3>1, <3>2
  <2>3. Client \/ UNCHANGED client
    BY DEF Next, Cancel, Expire, Closed, Kick, Serve, vars
  <2>4. QED
    BY <2>1, <2>2, <2>3
<1>2. QED
  BY <1>1, InitTypes, NextTypes, BudgetBounds, PTL DEF Spec, CancelCountsDown
=============================================================================
