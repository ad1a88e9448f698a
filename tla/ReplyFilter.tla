----------------------------- MODULE ReplyFilter -----------------------------
(***************************************************************************)
(* The receive buffer of Transport.Exchange, filled by one datagram after  *)
(* another, and what ResponseMatcher makes of each: which of the requests  *)
(* the client could have under way the datagram in the buffer would        *)
(* answer.                                                                 *)
(***************************************************************************)
EXTENDS ResponseMatcher

CONSTANTS
  Datagrams,  \* what the network may bring
  Numbers     \* heartbeat numbers modulo 256

Empty == Packet(0, 0, 0, 0, 0, 0)

ASSUME DatagramsAssumption == Datagrams \subseteq Packets
ASSUME NumbersAssumption == Numbers \subseteq 0..255

VARIABLE buf

Init == buf = Empty

\* ReadFromUDP fills the buffer; the loop reads again after a datagram that
\* is no answer.
Fill == buf = Empty /\ buf' \in Datagrams
Discard == buf # Empty /\ buf' = Empty

Next == Fill \/ Discard

Spec == Init /\ [][Next]_buf

\* The requests, as <<kind, number>>, whose exchange this datagram would end.
Claims(p) == {c \in Kinds \X Numbers : Answers(c[1], c[2], p)}

SameQuestion(k, l) == k = l \/ {k, l} \subseteq FileKinds \cup {"step1"}

\* No datagram passes for the reply to two different requests, whatever its
\* bytes and its length: two requests that share a reply are of one kind, or
\* are first, extra and step1 heartbeats, and heartbeats of one number
\* (ResponseMatcher; the lengths keep login and logout replies apart).
OneClaimant ==
  \A c, d \in Claims(buf) :
    /\ SameQuestion(c[1], d[1])
    /\ c[1] \in Heartbeats => c[2] = d[2]

\* What the matcher lets through, the parser that Runner calls next accepts:
\* ParseLoginChallengeResponse, ParseLoginResponse, ParseHeartbeatStep1Response
\* and ParseLogoutChallengeResponse never fail after a successful exchange,
\* although each repeats the tests in its own words.
MatchImpliesParse == \A c \in Claims(buf) : Parses(c[1], c[2], buf)

\* A reply of the server is never filtered out of its own exchange: the
\* matcher answers to every shape the campus server has been seen to send.
ServerRepliesPass ==
  \A k \in Kinds, s \in Numbers :
    \A p \in ServerReplies(k, s) : buf = p => <<k, s>> \in Claims(buf)
=============================================================================
