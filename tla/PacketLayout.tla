---------------------------- MODULE PacketLayout ----------------------------
(***************************************************************************)
(* Where the builders of internal/protocol write: for each packet its size *)
(* and its writes in the order of the code.  A write fills len bytes from  *)
(* at on; a digest is a write of the value computed from the packet's      *)
(* first "over" bytes as they are at that moment.  p gives the lengths, in *)
(* bytes, of the configured strings.  Neighbouring writes of single bytes  *)
(* are one write.                                                          *)
(***************************************************************************)
EXTENDS Integers, Sequences

Least(a, b) == IF a <= b THEN a ELSE b

Write(at, len) == [at |-> at, len |-> len, over |-> 0]
Digest(at, len, over) == [at |-> at, len |-> len, over |-> over]

\* Where a string field ends; copyFixed cuts what does not fit in front of it.
UsernameEnd == 56
HostNameEnd == 142
OSInfoEnd == 246
CopyFixed(at, end, length) == Write(at, Least(end - at, length))

\* rorLen
Ror(password) == Least(password, 16)

\* Mutant: a length that is a multiple of four is padded.
PaddingUnreduced(password) == 4 - (password % 4)

\* Up to the next multiple of four.
Padding(password) == (4 - (password % 4)) % 4

Size(kind, password) ==
  CASE kind = "login"     -> 334 + ((password - 1) \div 4) * 4
    [] kind = "challenge" -> 20
    [] kind = "keepAlive" -> 38
    [] kind = "logout"    -> 80
    [] OTHER              -> 40

RandomOffset(password) == 328 + Ror(password) + Padding(password)
RandomFits(password) == RandomOffset(password) + 2 <= Size("login", password)

\* BuildLoginPacket: type and username length, MD5A, username, flags, MAC;
\* MD5B, IP, MD5C over the first 97 bytes, host name, DNS and DHCP servers,
\* indicator, versions and operating system; the rotated password and the
\* checksum over everything in front of it; MAC and, where they fit, two
\* random bytes.
LoginWrites(p) ==
  LET ror == Ror(p.password) IN
  << Write(0, 4), Write(4, 16), CopyFixed(20, UsernameEnd, p.username), Write(56, 2),
     Write(58, 6), Write(64, 16), Write(80, 5), Digest(97, 8, 97), Write(105, 1),
     CopyFixed(110, HostNameEnd, p.host), Write(142, 4), Write(146, 4), Write(181, 9),
     Write(190, 2), CopyFixed(192, OSInfoEnd, p.os), Write(246, 40), Write(310, 2),
     Write(313, 1), Write(314, ror), Write(314 + ror, 2), Digest(316 + ror, 4, 316 + ror),
     Write(322 + ror, 6),
     Write(RandomOffset(p.password), IF RandomFits(p.password) THEN 2 ELSE 0) >>

LogoutWrites(p) ==
  << Write(0, 4), Write(4, 16), CopyFixed(20, UsernameEnd, p.username), Write(56, 2),
     Write(58, 6), Write(64, 16) >>

\* Type, sequence number, length, phase, version and a random token, then the
\* server's token.
HeartbeatWrites == << Write(0, 6), Write(6, 2), Write(8, 4), Write(16, 4) >>

Step2Writes ==
  << Write(0, 6), Write(6, 2), Write(8, 4), Write(16, 4), Digest(24, 4, 24), Write(28, 4) >>

Writes(kind, p) ==
  CASE kind = "login"     -> LoginWrites(p)
    [] kind = "challenge" -> << Write(0, 2), Write(2, 2), Write(4, 2) >>
    [] kind = "keepAlive" -> << Write(0, 1), Write(1, 16), Write(20, 16), Write(36, 2) >>
    [] kind = "logout"    -> LogoutWrites(p)
    [] kind = "step2"     -> Step2Writes
    [] OTHER              -> HeartbeatWrites

Kinds == {"challenge", "login", "keepAlive", "heartbeat", "step2", "logout"}
=============================================================================
