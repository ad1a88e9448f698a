--------------------------- MODULE ResponseMatcher ---------------------------
(***************************************************************************)
(* How the client recognises the reply to one of its requests.             *)
(* protocol.ResponseMatcher looks at the length of a datagram and at a few *)
(* of its bytes and at nothing else, so a datagram is reduced to them:     *)
(*   n  length      b0 b1 b4 b5  those bytes      w  bytes 2..3, LE uint16 *)
(* A byte beyond the end of a short datagram is never inspected by the     *)
(* code (the length test comes first); here it may have any value.         *)
(***************************************************************************)
EXTENDS Integers

\* The exchanges of a session, in the order Runner performs them.
Kinds == {"loginChallenge", "login", "keepAlive", "first", "extra",
          "step1", "step2", "logoutChallenge", "logout"}

\* First and extra heartbeats pass allowFile = true to Runner.exchange.
FileKinds == {"first", "extra"}

Heartbeats == FileKinds \cup {"step1", "step2"}

\* ErrRejected: the marker 0x05, whatever the request was.
Rejects(p) == p.n > 0 /\ p.b0 = 5

ValidHeartbeat(p) ==
  /\ p.n >= 40
  /\ p.b0 = 7 /\ p.b4 = 11 /\ p.w = p.n
  /\ p.b5 \in {2, 4, 6}

\* Mutant: this reply's length field counts the datagram, as a heartbeat's does.
KeepAliveReplyFullLength(p) == p.n >= 72 /\ p.b0 = 7 /\ p.w = p.n /\ p.b4 = 6

\* The length field of this reply says 16, whatever the datagram's length.
KeepAliveReply(p) == p.n >= 72 /\ p.b0 = 7 /\ p.w = 16 /\ p.b4 = 6

LogoutReply(p) == p.n >= 25 /\ p.n < 39 /\ p.b0 = 4

\* Mutant: any phase will do.
AnyPhase(req, allowFile) == {2, 4, 6}

\* The phase a heartbeat request admits in its reply.
HeartbeatPhases(req, allowFile) ==
  IF req.b5 = 3 THEN {4} ELSE IF allowFile THEN {2, 6} ELSE {2}

\* ResponseMatcher(request, allowFile)(p) = (true, nil)
Accepts(req, allowFile, p) ==
  /\ req.n > 0 /\ p.n > 0 /\ ~ Rejects(p)
  /\ \/ req.b0 = 1   /\ req.n >= 2 /\ p.n >= 8 /\ p.b0 = 2 /\ p.b1 = req.b1
     \/ req.b0 = 3   /\ p.n >= 39 /\ p.b0 = 4
     \/ req.b0 = 6   /\ LogoutReply(p)
     \/ req.b0 = 255 /\ KeepAliveReply(p)
     \/ req.b0 = 7   /\ req.n >= 8 /\ ValidHeartbeat(p) /\ p.b1 = req.b1
                     /\ p.b5 \in HeartbeatPhases(req, allowFile)

-----------------------------------------------------------------------------
(* The requests, as the builders lay them out.                              *)

Packets == [n : Int, b0 : Int, b1 : Int, w : Int, b4 : Int, b5 : Int]

Packet(n, b0, b1, w, b4, b5) ==
  [n |-> n, b0 |-> b0, b1 |-> b1, w |-> w, b4 |-> b4, b5 |-> b5]

BuildLoginChallenge == Packet(20, 1, 2, 0, 0, 0)
BuildLogoutChallenge == Packet(20, 1, 3, 0, 0, 0)

\* 334 bytes or, with a long password, more.  The b4, b5 of this and of the
\* other requests are digest or version bytes that no matcher reads.
BuildLoginPacket == Packet(334, 3, 1, 0, 0, 0)
BuildKeepAliveAuth == Packet(38, 255, 0, 0, 0, 0)
BuildLogoutPacket == Packet(80, 6, 1, 0, 0, 0)

\* First, extra and step1 heartbeats have phase 1, step 2 has phase 3; all are
\* 40 bytes long and say so.  seq is the byte of HeartbeatCount.
BuildHeartbeatBase(seq) == Packet(40, 7, seq, 40, 11, 1)
BuildHeartbeatStep2(seq) == Packet(40, 7, seq, 40, 11, 3)

Request(kind, seq) ==
  CASE kind = "loginChallenge"  -> BuildLoginChallenge
    [] kind = "login"           -> BuildLoginPacket
    [] kind = "keepAlive"       -> BuildKeepAliveAuth
    [] kind = "step2"           -> BuildHeartbeatStep2(seq)
    [] kind = "logoutChallenge" -> BuildLogoutChallenge
    [] kind = "logout"          -> BuildLogoutPacket
    [] OTHER                    -> BuildHeartbeatBase(seq)

\* Mutant: the reply's number is not compared with the request's.
AnswersAnyNumber(kind, seq, p) ==
  Accepts([Request(kind, seq) EXCEPT !.b1 = IF kind \in Heartbeats THEN p.b1 ELSE @],
          kind \in FileKinds, p)

\* The datagram p ends the exchange of this kind successfully.
Answers(kind, seq, p) == Accepts(Request(kind, seq), kind \in FileKinds, p)

-----------------------------------------------------------------------------
(* The server's replies, with the shapes observed on the campus network.    *)

HeartbeatReply(n, seq, phase) == Packet(n, 7, seq, n, 11, phase)

ServerReplies(kind, seq) ==
  CASE kind = "loginChallenge"  -> {Packet(76, 2, 2, 0, 0, 0)}
    [] kind = "login"           -> {Packet(45, 4, 0, 0, 0, 0)}
    [] kind = "keepAlive"       -> {Packet(72, 7, 1, 16, 6, 0)}
    [] kind \in FileKinds       -> {HeartbeatReply(272, seq, 6),
                                    HeartbeatReply(40, seq, 2)}
    [] kind = "step1"           -> {HeartbeatReply(40, seq, 2)}
    [] kind = "step2"           -> {HeartbeatReply(40, seq, 4)}
    [] kind = "logoutChallenge" -> {Packet(76, 2, 3, 0, 0, 0)}
    [] OTHER                    -> {Packet(25, 4, 0, 0, 0, 0)}  \* logout

Rejection == Packet(40, 5, 5, 1285, 5, 5)

-----------------------------------------------------------------------------
(* The parsers Runner calls on a reply its matcher has let through.         *)

ParsesChallenge(subtype, p) == p.n >= 8 /\ p.b0 = 2 /\ p.b1 = subtype

ParsesLogin(p) == ~ Rejects(p) /\ p.n >= 39 /\ p.b0 = 4

ParsesStep1(seq, p) == ValidHeartbeat(p) /\ p.b5 = 2 /\ p.b1 = seq

Parses(kind, seq, p) ==
  CASE kind = "loginChallenge"  -> ParsesChallenge(2, p)
    [] kind = "login"           -> ParsesLogin(p)
    [] kind = "step1"           -> ParsesStep1(seq, p)
    [] kind = "logoutChallenge" -> ParsesChallenge(3, p)
    [] OTHER                    -> TRUE
=============================================================================
