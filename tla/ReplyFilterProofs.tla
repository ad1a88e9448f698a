-------------------------- MODULE ReplyFilterProofs --------------------------
(***************************************************************************)
(* Theorems about ReplyFilter: for datagrams of every length and content,  *)
(* not only those around the boundaries of the matcher.                    *)
(***************************************************************************)
EXTENDS ReplyFilter, TLAPS

LEMMA BufTypes == Spec => [](buf \in Packets)
<1>1. Init => buf \in Packets
  BY DEF Init, Empty, Packet, Packets
<1>2. buf \in Packets /\ [Next]_buf => (buf \in Packets)'
  BY DatagramsAssumption DEF Next, Fill, Discard, Empty, Packet, Packets
<1>3. QED
  BY <1>1, <1>2, PTL DEF Spec

\* The matcher, unfolded for the request of each kind.
Unfolded(k, s, p) ==
  /\ p.b0 # 5
  /\ k = "loginChallenge"  => p.n >= 8 /\ p.b0 = 2 /\ p.b1 = 2
  /\ k = "logoutChallenge" => p.n >= 8 /\ p.b0 = 2 /\ p.b1 = 3
  /\ k = "login"           => p.n >= 39 /\ p.b0 = 4
  /\ k = "logout"          => p.n < 39 /\ p.b0 = 4
  /\ k = "keepAlive"       => p.b0 = 7 /\ p.b4 = 6
  /\ k \in Heartbeats      => ValidHeartbeat(p) /\ p.b1 = s
  /\ k = "step1"           => p.b5 = 2
  /\ k = "step2"           => p.b5 = 4
  /\ k \in FileKinds       => p.b5 \in {2, 6}

LEMMA RequestKinds ==
  ASSUME NEW k \in Kinds, NEW s \in 0..255, NEW p \in Packets, Answers(k, s, p)
  PROVE Unfolded(k, s, p)
  BY DEF Unfolded, Packets, Answers, Accepts, Rejects, Request, BuildLoginChallenge,
    BuildLogoutChallenge, BuildLoginPacket,
    BuildKeepAliveAuth, BuildLogoutPacket, BuildHeartbeatBase, BuildHeartbeatStep2, Packet, Kinds,
    Heartbeats, FileKinds, ValidHeartbeat, KeepAliveReply, LogoutReply, HeartbeatPhases

LEMMA OneQuestion ==
  ASSUME NEW k \in Kinds, NEW l \in Kinds, NEW s \in 0..255, NEW t \in 0..255,
         NEW p \in Packets, Answers(k, s, p), Answers(l, t, p)
  PROVE SameQuestion(k, l) /\ (k \in Heartbeats => s = t)
<1>1. Unfolded(k, s, p)
  BY RequestKinds, Zenon
<1>2. Unfolded(l, t, p)
  BY RequestKinds, Zenon
<1>3. SameQuestion(k, l)
  BY <1>1, <1>2 DEF Unfolded, Packets, ValidHeartbeat, SameQuestion, Kinds, Heartbeats, FileKinds
<1>4. ASSUME k \in Heartbeats PROVE s = t
  <2>1. l \in Heartbeats
    BY <1>3, <1>4 DEF SameQuestion, Heartbeats, FileKinds
  <2>2. QED
    BY <1>1, <1>2, <1>4, <2>1 DEF Unfolded
<1>5. QED
  BY <1>3, <1>4

\* No datagram whatsoever passes for the reply to two requests that differ in
\* more than being a first, an extra or a step1 heartbeat (ResponseMatcher).
THEOREM NeverTwoClaimants == Spec => []OneClaimant
<1>1. ASSUME buf \in Packets PROVE OneClaimant
  <2> SUFFICES ASSUME NEW c \in Claims(buf), NEW d \in Claims(buf)
               PROVE SameQuestion(c[1], d[1]) /\ (c[1] \in Heartbeats => c[2] = d[2])
    BY DEF OneClaimant
  <2>1. /\ c[1] \in Kinds /\ c[2] \in 0..255 /\ Answers(c[1], c[2], buf)
        /\ d[1] \in Kinds /\ d[2] \in 0..255 /\ Answers(d[1], d[2], buf)
    BY NumbersAssumption DEF Claims
  <2> DEFINE k == c[1]
             s == c[2]
             l == d[1]
             t == d[2]
  <2>2. /\ k \in Kinds /\ s \in 0..255 /\ Answers(k, s, buf)
        /\ l \in Kinds /\ t \in 0..255 /\ Answers(l, t, buf)
    BY <2>1
  <2> HIDE DEF k, s, l, t
  <2>3. SameQuestion(k, l) /\ (k \in Heartbeats => s = t)
    BY <1>1, <2>2, OneQuestion, Zenon
  <2>4. QED
    BY <2>3 DEF k, s, l, t
<1>2. QED
  BY <1>1, BufTypes, PTL

\* Whatever the matcher lets through parses: after a successful exchange the
\* error branches of Login, Logout and HeartbeatOnce behind a Parse call are
\* never taken.
THEOREM MatchedReplyParses == Spec => []MatchImpliesParse
<1>1. ASSUME buf \in Packets PROVE MatchImpliesParse
  <2> SUFFICES ASSUME NEW c \in Claims(buf) PROVE Parses(c[1], c[2], buf)
    BY DEF MatchImpliesParse
  <2>1. c[1] \in Kinds /\ c[2] \in 0..255 /\ Answers(c[1], c[2], buf)
    BY NumbersAssumption DEF Claims
  <2>2. Unfolded(c[1], c[2], buf)
    BY <1>1, <2>1, RequestKinds, Zenon
  <2>3. QED
    BY <1>1, <2>1, <2>2 DEF Unfolded, Packets, Kinds, Heartbeats, FileKinds, Parses, ParsesChallenge,
      ParsesLogin, ParsesStep1, Rejects, ValidHeartbeat
<1>2. QED
  BY <1>1, BufTypes, PTL

LEMMA RepliesAnswer ==
  ASSUME NEW k \in Kinds, NEW s \in 0..255, NEW p \in ServerReplies(k, s)
  PROVE Answers(k, s, p)
BY DEF ServerReplies, HeartbeatReply, Answers, Accepts, Rejects, Request, BuildLoginChallenge,
  BuildLogoutChallenge, BuildLoginPacket, BuildKeepAliveAuth, BuildLogoutPacket,
  BuildHeartbeatBase, BuildHeartbeatStep2, Packet, Kinds, Heartbeats, FileKinds,
  ValidHeartbeat, KeepAliveReply, LogoutReply, HeartbeatPhases

\* Every shape the campus server sends passes the matcher of its own exchange,
\* with every heartbeat number (ResponseMatcher).
THEOREM OwnRepliesPass == Spec => []ServerRepliesPass
<1>1. ServerRepliesPass
  BY NumbersAssumption, RepliesAnswer DEF ServerRepliesPass, Claims
<1>2. QED
  BY <1>1, PTL
=============================================================================
