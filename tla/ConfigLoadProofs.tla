-------------------------- MODULE ConfigLoadProofs --------------------------
(***************************************************************************)
(* For every set of adapters, every order and number of their addresses    *)
(* and every configuration file: the adapter selected is the unique best,  *)
(* an accepted configuration is one adapter's, and its packets are sound.  *)
(***************************************************************************)
EXTENDS ConfigLoad, TLAPS

(***************************************************************************)
(* The scan: what best, bestScore and ambiguous say of the addresses in    *)
(* front of i.                                                             *)
(***************************************************************************)
Counts(k) == Usable(nets[k], file.hint)
Points(k) == Score(nets[k], file.hint)
SameAsBest(k) == nets[k].name = best.name /\ nets[k].ip = best.ip

TypeInv ==
  /\ file \in File /\ nets \in Seq(Address) /\ OneMAC(nets)
  /\ i \in 1..Len(nets) + 1 /\ bestScore \in Int /\ ambiguous \in BOOLEAN

ScanInv ==
  /\ \A k \in 1..i - 1 : Counts(k) => Points(k) <= bestScore
  /\ bestScore >= 0 =>
       \E k \in 1..i - 1 : best = nets[k] /\ Counts(k) /\ Points(k) = bestScore
  /\ ~ ambiguous =>
       \A k \in 1..i - 1 : Counts(k) /\ Points(k) = bestScore => SameAsBest(k)
  /\ ambiguous =>
       bestScore >= 0 /\ \E k \in 1..i - 1 :
                            Counts(k) /\ Points(k) = bestScore /\ ~ SameAsBest(k)

\* What the selection, once made, was made from.
SelectInv ==
  /\ pc \in {"keys", "scan", "network", "rest", "failed", "accepted"}
  /\ err = "noNetwork" => i = Len(nets) + 1 /\ bestScore < 0
  /\ err = "ambiguous" => i = Len(nets) + 1 /\ ambiguous
  /\ pc \in {"keys", "scan", "network", "rest", "accepted"} => err = "none"
  /\ NeedAuto /\ pc \in {"network", "rest", "accepted"} =>
       i = Len(nets) + 1 /\ bestScore >= 0 /\ ~ ambiguous /\ auto = best

\* What the later keys add.
CfgInv ==
  /\ pc \in {"rest", "accepted"} =>
       /\ cfg.ip = IP /\ cfg.mac = MAC /\ IP # "bad" /\ MAC # "bad"
       /\ NeedAuto => IP = auto.ip /\ MAC = auto.mac
  /\ pc = "accepted" =>
       /\ Valid
       /\ cfg.username = file.username /\ cfg.password = file.password
       /\ cfg.host = file.host /\ cfg.os = file.os

LEMMA ScoreNat == \A c, hint : Score(c, hint) \in Nat
<1> SUFFICES ASSUME NEW c, NEW hint PROVE Score(c, hint) \in Nat OBVIOUS
<1> DEFINE a == IF c.name \in Virtual THEN 0 ELSE 100
           b == IF hint = "" THEN 0 ELSE IF <<c.name, hint>> \in Exact THEN 1000 ELSE 500
<1>1. a \in Nat /\ b \in Nat OBVIOUS
<1>2. Score(c, hint) = 10 + a + b BY DEF Score
<1> HIDE DEF a, b
<1>3. QED BY <1>1, <1>2

LEMMA TypeStep == ASSUME TypeInv, [Next]_vars PROVE TypeInv'
<1> USE DEF TypeInv
<1>1. CASE Keys BY <1>1 DEF Keys, scan, OneMAC
<1>2. CASE Scan
  <2>1. i' \in 1..Len(nets) + 1 /\ UNCHANGED <<file, nets>> BY <1>2 DEF Scan
  <2>2. bestScore' \in Int
    <3>1. bestScore' = bestScore \/ bestScore' = Score(nets[i], file.hint)
      BY <1>2 DEF Scan, Consider
    <3>2. QED BY <3>1, ScoreNat
  <2>3. ambiguous' \in BOOLEAN
    <3>1. ambiguous' = ambiguous \/ ambiguous' = TRUE \/ ambiguous' = FALSE
      BY <1>2 DEF Scan, Consider
    <3>2. QED BY <3>1
  <2>4. QED BY <2>1, <2>2, <2>3 DEF OneMAC
<1>3. CASE Select BY <1>3 DEF Select, scan, OneMAC
<1>4. CASE Network BY <1>4 DEF Network, scan, OneMAC
<1>5. CASE Rest BY <1>5 DEF Rest, scan, OneMAC
<1>6. CASE UNCHANGED vars BY <1>6 DEF vars, scan, OneMAC
<1>7. QED BY <1>1, <1>2, <1>3, <1>4, <1>5, <1>6 DEF Next, Done

\* A step that leaves the scan's variables alone leaves ScanInv alone.
LEMMA ScanUnmoved ==
  ASSUME ScanInv, UNCHANGED <<scan, file, nets>> PROVE ScanInv'
BY DEF ScanInv, scan, Counts, Points, SameAsBest

\* One address more.
LEMMA ScanMoves == ASSUME TypeInv, ScanInv, Scan PROVE ScanInv'
<1> DEFINE c == nets[i]
           s == Score(c, file.hint)
<1>1. /\ i \in Nat \ {0} /\ i <= Len(nets) /\ i' = i + 1
      /\ nets' = nets /\ file' = file /\ bestScore \in Int
  BY DEF Scan, TypeInv
<1>2. 1..i' - 1 = (1..i - 1) \cup {i} /\ i \notin 1..i - 1 BY <1>1
<1>3. s \in Nat BY ScoreNat
<1>4. \A k \in 1..i : Points(k) \in Nat /\ Points(k)' = Points(k) /\ (Counts(k)' <=> Counts(k))
  BY <1>1, ScoreNat DEF Points, Counts
<1>5. Points(i) = s /\ (Counts(i) <=> Usable(c, file.hint)) BY DEF Points, Counts
<1>6. CASE ~ Counts(i)
  <2>1. UNCHANGED <<best, bestScore, ambiguous>> BY <1>6, <1>5 DEF Scan
  <2>2. \A k \in 1..i : SameAsBest(k)' <=> SameAsBest(k) BY <2>1, <1>1 DEF SameAsBest
  <2>3. QED BY <1>1, <1>2, <1>4, <1>6, <2>1, <2>2 DEF ScanInv
<1>7. CASE Counts(i) /\ s > bestScore
  <2>1. best' = c /\ bestScore' = s /\ ambiguous' = FALSE
    BY <1>7, <1>5, <1>1, <1>3 DEF Scan, Consider
  <2>2. \A k \in 1..i - 1 : Counts(k) => Points(k) < s BY <1>7, <1>1, <1>3, <1>4 DEF ScanInv
  <2>3. \A k \in {i} : SameAsBest(k)' BY <2>1, <1>1 DEF SameAsBest
  <2>4. QED BY <1>1, <1>2, <1>3, <1>4, <1>5, <1>7, <2>1, <2>2, <2>3 DEF ScanInv
<1>8. CASE Counts(i) /\ s = bestScore /\ ~ SameAsBest(i)
  <2>1. ambiguous' = TRUE /\ best' = best /\ bestScore' = bestScore
    BY <1>8, <1>5, <1>1, <1>3 DEF Scan, Consider, SameAsBest
  <2>2. \A k \in 1..i : SameAsBest(k)' <=> SameAsBest(k) BY <2>1, <1>1 DEF SameAsBest
  <2>3. QED BY <1>1, <1>2, <1>3, <1>4, <1>5, <1>8, <2>1, <2>2 DEF ScanInv
<1>9. CASE Counts(i) /\ (s < bestScore \/ (s = bestScore /\ SameAsBest(i)))
  <2>1. UNCHANGED <<best, bestScore, ambiguous>>
    BY <1>9, <1>5, <1>1, <1>3 DEF Scan, Consider, SameAsBest
  <2>2. \A k \in 1..i : SameAsBest(k)' <=> SameAsBest(k) BY <2>1, <1>1 DEF SameAsBest
  <2>3. QED BY <1>1, <1>2, <1>3, <1>4, <1>5, <1>9, <2>1, <2>2 DEF ScanInv
<1>10. QED BY <1>6, <1>7, <1>8, <1>9, <1>1, <1>3

LEMMA ScanStep == ASSUME TypeInv, ScanInv, [Next]_vars PROVE ScanInv'
<1>1. CASE Scan BY <1>1, ScanMoves
<1>2. CASE UNCHANGED <<scan, file, nets>> BY <1>2, ScanUnmoved
<1>3. [Next]_vars => Scan \/ UNCHANGED <<scan, file, nets>>
  BY DEF Next, Keys, Select, Network, Rest, Done, vars, scan
<1>4. QED BY <1>1, <1>2, <1>3

LEMMA SelectStep == ASSUME TypeInv, SelectInv, [Next]_vars PROVE SelectInv'
<1> USE DEF SelectInv, NeedAuto, Fail, scan
<1>1. CASE Keys BY <1>1 DEF Keys
<1>2. CASE Scan BY <1>2 DEF Scan, TypeInv
<1>3. CASE Select BY <1>3 DEF Select, TypeInv
<1>4. CASE Network BY <1>4 DEF Network
<1>5. CASE Rest BY <1>5 DEF Rest
<1>6. CASE UNCHANGED vars BY <1>6 DEF vars
<1>7. QED BY <1>1, <1>2, <1>3, <1>4, <1>5, <1>6 DEF Next, Done

LEMMA CfgStep == ASSUME SelectInv, CfgInv, [Next]_vars PROVE CfgInv'
<1> USE DEF CfgInv
<1>1. CASE Keys BY <1>1 DEF Keys, Fail
<1>2. CASE Scan BY <1>2 DEF Scan
<1>3. CASE Select BY <1>3 DEF Select, Fail
<1>4. CASE Network
  <2>1. CASE pc' = "failed" BY <2>1
  <2>2. CASE pc' = "rest"
    <3>1. UNCHANGED <<file, auto>> /\ cfg' = Config(IP, MAC, 0, 0, 0, 0)
      BY <1>4, <2>2 DEF Network, Fail
    <3>2. QED BY <1>4, <2>2, <3>1 DEF Network, Fail, IP, MAC, NeedAuto, Config
  <2>3. QED BY <1>4, <2>1, <2>2 DEF Network, Fail
<1>5. CASE Rest BY <1>5 DEF Rest, Fail, IP, MAC, NeedAuto, Valid, BindIP, Config
<1>6. CASE UNCHANGED vars BY <1>6 DEF vars, IP, MAC, NeedAuto, Valid, BindIP
<1>7. QED BY <1>1, <1>2, <1>3, <1>4, <1>5, <1>6 DEF Next, Done

Inv == TypeInv /\ ScanInv /\ SelectInv /\ CfgInv

LEMMA InvInit == Init => Inv
<1> SUFFICES ASSUME Init PROVE Inv OBVIOUS
<1>1. TypeInv
  <2>1. file \in File /\ nets \in Seq(Address) /\ OneMAC(nets)
    BY InputsAssumption DEF Init
  <2>2. Len(nets) \in Nat BY <2>1
  <2>3. i = 1 /\ bestScore = -1 /\ ambiguous = FALSE BY DEF Init
  <2>4. i \in 1..Len(nets) + 1 /\ bestScore \in Int BY <2>2, <2>3
  <2>5. ambiguous \in BOOLEAN BY <2>3
  <2>6. QED BY <2>1, <2>4, <2>5 DEF TypeInv
<1>2. ScanInv BY DEF Init, ScanInv
<1>3. SelectInv BY DEF Init, SelectInv
<1>4. CfgInv BY DEF Init, CfgInv
<1>5. QED BY <1>1, <1>2, <1>3, <1>4 DEF Inv

LEMMA Invariance == Spec => []Inv
<1>1. Inv /\ [Next]_vars => Inv'
  BY TypeStep, ScanStep, SelectStep, CfgStep DEF Inv
<1>2. QED BY InvInit, <1>1, PTL DEF Spec

(***************************************************************************)
(* What is selected.                                                       *)
(***************************************************************************)

\* Every candidate is one of the scan's, and the reverse, once it is over.
LEMMA Acceptables ==
  ASSUME TypeInv, i = Len(nets) + 1
  PROVE  /\ \A k \in 1..i - 1 : Counts(k) => nets[k] \in Acceptable
         /\ \A c \in Acceptable : \E k \in 1..i - 1 : c = nets[k] /\ Counts(k)
<1>1. 1..i - 1 = 1..Len(nets) BY DEF TypeInv
<1>2. QED BY <1>1 DEF Acceptable, Addresses, Counts

\* After the scan the best are those with bestScore points.
LEMMA Tops ==
  ASSUME TypeInv, ScanInv, i = Len(nets) + 1, bestScore >= 0
  PROVE  /\ best \in Top
         /\ \A k \in 1..i - 1 : Counts(k) /\ Points(k) = bestScore => nets[k] \in Top
         /\ \A c \in Top : \E k \in 1..i - 1 :
                             c = nets[k] /\ Counts(k) /\ Points(k) = bestScore
<1>1. PICK b \in 1..i - 1 : best = nets[b] /\ Counts(b) /\ Points(b) = bestScore
  BY DEF ScanInv
<1>2. \A c \in Acceptable : Score(c, file.hint) <= bestScore
  BY Acceptables DEF ScanInv, Points
<1>3. \A k \in 1..i - 1 : Counts(k) /\ Points(k) = bestScore => nets[k] \in Top
  BY <1>2, Acceptables DEF Top, Points
<1>4. best \in Top BY <1>1, <1>3
<1>5. ASSUME NEW c \in Top
      PROVE  \E k \in 1..i - 1 : c = nets[k] /\ Counts(k) /\ Points(k) = bestScore
  <2>1. PICK k \in 1..i - 1 : c = nets[k] /\ Counts(k) BY <1>5, Acceptables DEF Top
  <2>2. Points(b) <= Points(k) BY <1>1, <2>1, <1>5, Acceptables DEF Top, Points
  <2>3. Points(k) <= bestScore BY <2>1 DEF ScanInv
  <2>4. Points(k) \in Nat /\ bestScore \in Int BY ScoreNat DEF Points, TypeInv
  <2>5. Points(k) = bestScore BY <1>1, <2>2, <2>3, <2>4
  <2>6. QED BY <2>1, <2>5
<1>6. QED BY <1>3, <1>4, <1>5

\* The scan of selectAutoNetwork finds the unique best address, whatever the
\* number and the order of the addresses the system lists.
THEOREM SelectsUniqueBestAlways == Spec => []SelectsUniqueBest
<1>1. Inv => SelectsUniqueBest
  <2> SUFFICES ASSUME Inv PROVE SelectsUniqueBest OBVIOUS
  <2>0. TypeInv /\ ScanInv /\ SelectInv BY DEF Inv
  <2>1. ASSUME err = "noNetwork" PROVE Acceptable = {}
    <3>1. i = Len(nets) + 1 /\ bestScore < 0 BY <2>0, <2>1 DEF SelectInv
    <3>2. \A k \in 1..i - 1 : Points(k) \in Nat BY ScoreNat DEF Points
    <3>3. \A k \in 1..i - 1 : ~ Counts(k) BY <2>0, <3>1, <3>2 DEF ScanInv, TypeInv
    <3>4. QED BY <2>0, <3>1, <3>3, Acceptables
  <2>2. ASSUME err = "ambiguous"
        PROVE  \E c, d \in Top : <<c.name, c.ip>> # <<d.name, d.ip>>
    <3>1. i = Len(nets) + 1 /\ ambiguous BY <2>0, <2>2 DEF SelectInv
    <3>2. PICK k \in 1..i - 1 : Counts(k) /\ Points(k) = bestScore /\ ~ SameAsBest(k)
      BY <2>0, <3>1 DEF ScanInv
    <3>3. best \in Top /\ nets[k] \in Top BY <2>0, <3>1, <3>2, Tops DEF ScanInv
    <3>4. <<best.name, best.ip>> # <<nets[k].name, nets[k].ip>> BY <3>2 DEF SameAsBest
    <3>5. QED BY <3>3, <3>4
  <2>3. ASSUME NeedAuto, pc \in {"network", "rest", "accepted"}
        PROVE  Top # {} /\ \A c \in Top : c = auto
    <3>1. i = Len(nets) + 1 /\ bestScore >= 0 /\ ~ ambiguous /\ auto = best
      BY <2>0, <2>3 DEF SelectInv
    <3>2. PICK b \in 1..i - 1 : best = nets[b] /\ Counts(b) BY <2>0, <3>1 DEF ScanInv
    <3>3. ASSUME NEW c \in Top PROVE c = best
      <4>1. PICK k \in 1..i - 1 : c = nets[k] /\ Counts(k) /\ Points(k) = bestScore
        BY <2>0, <3>1, Tops
      <4>2. c.name = best.name /\ c.ip = best.ip
        BY <2>0, <3>1, <4>1 DEF ScanInv, SameAsBest
      <4>3. b \in 1..Len(nets) /\ k \in 1..Len(nets) BY <2>0, <3>1 DEF TypeInv
      <4>4. c \in Address /\ best \in Address BY <2>0, <3>2, <4>1, <4>3 DEF TypeInv
      <4>5. c.mac = best.mac BY <2>0, <3>2, <4>1, <4>2, <4>3 DEF TypeInv, OneMAC
      <4>6. c.up = best.up
        BY <3>2, <4>1, <4>4 DEF Counts, Usable, Address
      <4>7. QED BY <4>2, <4>4, <4>5, <4>6 DEF Address
    <3>4. QED BY <2>0, <3>1, <3>3, Tops
  <2>4. QED BY <2>1, <2>2, <2>3 DEF SelectsUniqueBest
<1>2. QED BY Invariance, <1>1, PTL

\* Validate and the test of the pair leave only one address of this machine,
\* or one that is altogether the user's (ParseWithDetector).
THEOREM AcceptedIsOneAdapterAlways == Spec => []AcceptedIsOneAdapter
<1>1. Inv => AcceptedIsOneAdapter
  <2> SUFFICES ASSUME Inv, pc = "accepted"
               PROVE  /\ BindIP = cfg.ip /\ cfg.ip \in IPs \ Unusable /\ cfg.mac \in MACs
                      /\ NeedAuto => \E c \in Acceptable :
                                       c.up /\ c.ip = cfg.ip /\ c.mac = cfg.mac
    BY DEF AcceptedIsOneAdapter
  <2>0. TypeInv /\ ScanInv /\ SelectInv /\ CfgInv BY DEF Inv
  <2>1. BindIP = cfg.ip /\ cfg.ip \notin Unusable /\ cfg.mac # "zero"
    BY <2>0 DEF CfgInv, Valid
  <2>2. cfg.ip = IP /\ cfg.mac = MAC /\ IP # "bad" /\ MAC # "bad" BY <2>0 DEF CfgInv
  <2>3. file.ip \in IPs \cup {"auto", "bad"} /\ file.mac \in MACs \cup {"zero", "auto", "bad"}
    BY <2>0 DEF TypeInv, File
  <2>4. CASE ~ NeedAuto
    <3>1. IP = file.ip /\ MAC = file.mac BY <2>4 DEF NeedAuto, IP, MAC
    <3>2. file.ip # "auto" /\ file.mac # "auto" BY <2>4 DEF NeedAuto
    <3>3. QED BY <2>1, <2>2, <2>3, <2>4, <3>1, <3>2
  <2>5. CASE NeedAuto
    <3>1. i = Len(nets) + 1 /\ bestScore >= 0 /\ auto = best
      BY <2>0, <2>5 DEF SelectInv
    <3>2. PICK b \in 1..i - 1 : best = nets[b] /\ Counts(b) BY <2>0, <3>1 DEF ScanInv
    <3>3. b \in 1..Len(nets) BY <2>0, <3>1 DEF TypeInv
    <3>4. best \in Address BY <2>0, <3>2, <3>3 DEF TypeInv
    <3>5. best.up /\ best.mac \notin {"zero", "short"} BY <3>2 DEF Counts, Usable
    <3>6. best.ip \in IPs /\ best.mac \in MACs BY <3>4, <3>5 DEF Address
    <3>7. best \in Acceptable BY <2>0, <3>1, <3>2, Acceptables
    <3>8. cfg.ip = best.ip /\ cfg.mac = best.mac BY <2>0, <2>2, <2>5, <3>1 DEF CfgInv
    <3>9. QED BY <2>1, <3>5, <3>6, <3>7, <3>8
  <2>6. QED BY <2>4, <2>5
<1>2. QED BY Invariance, <1>1, PTL

(***************************************************************************)
(* The packets.  Only the login packet's layout depends on the             *)
(* configuration in more than the length of the username.                  *)
(***************************************************************************)
Lengths(p) ==
  /\ p.username \in 1..36 /\ p.password \in 1..255 /\ p.host \in 0..32 /\ p.os \in 0..54

LEMMA RorRange == ASSUME NEW n \in 1..255 PROVE Ror(n) \in 1..16
  BY DEF Ror, Least

\* Every password leaves the random bytes room between the MAC address and
\* the end of the packet.
LEMMA RandomHasRoom ==
  ASSUME NEW n \in 1..255
  PROVE  RandomFits(n) /\ RandomOffset(n) \in Int /\ RandomOffset(n) >= 328 + Ror(n)
  BY DEF RandomFits, RandomOffset, Padding, Size, Ror, Least

\* Fields of Validate's lengths are not cut.
LEMMA FieldsFit ==
  ASSUME NEW p, Lengths(p)
  PROVE  /\ CopyFixed(20, UsernameEnd, p.username) = Write(20, p.username)
         /\ CopyFixed(110, HostNameEnd, p.host) = Write(110, p.host)
         /\ CopyFixed(192, OSInfoEnd, p.os) = Write(192, p.os)
  BY DEF Lengths, CopyFixed, Least, UsernameEnd, HostNameEnd, OSInfoEnd

LEMMA LoginSound ==
  ASSUME NEW p, Lengths(p)
  PROVE  Sound(LoginWrites(p), Size("login", p.password))
<1> DEFINE w == LoginWrites(p)
           r == Ror(p.password)
           offset == RandomOffset(p.password)
<1>1. /\ p.username \in 1..36 /\ p.password \in 1..255
      /\ p.host \in 0..32 /\ p.os \in 0..54
  BY DEF Lengths
<1>2. r \in 1..16 BY <1>1, RorRange
<1>3. RandomFits(p.password) /\ offset \in Int /\ offset >= 328 + r
  BY <1>1, RandomHasRoom
<1>4. w = << Write(0, 4), Write(4, 16), Write(20, p.username), Write(56, 2), Write(58, 6),
             Write(64, 16), Write(80, 5), Digest(97, 8, 97), Write(105, 1),
             Write(110, p.host), Write(142, 4), Write(146, 4), Write(181, 9), Write(190, 2),
             Write(192, p.os), Write(246, 40), Write(310, 2), Write(313, 1), Write(314, r),
             Write(314 + r, 2), Digest(316 + r, 4, 316 + r), Write(322 + r, 6),
             Write(offset, 2) >>
  BY FieldsFit, <1>3 DEF LoginWrites
<1>5. offset + 2 <= Size("login", p.password) BY <1>3 DEF RandomFits
<1> HIDE DEF w, r, offset
<1>6. Len(w) = 23 BY <1>4
<1>7. \A k \in 1..23 : w[k].over <= w[k].at
  BY <1>2, <1>3, <1>4 DEF Write, Digest
<1>8. \A k \in 1..22 : w[k].at + w[k].len <= w[k + 1].at
  BY <1>1, <1>2, <1>3, <1>4, SMTT(60) DEF Write, Digest
<1>9. w[23].at + w[23].len <= Size("login", p.password)
  BY <1>4, <1>5 DEF Write
<1>10. Sound(w, Size("login", p.password)) BY <1>6, <1>7, <1>8, <1>9 DEF Sound
<1>11. QED BY <1>10 DEF w

LEMMA OthersSound ==
  ASSUME NEW p, Lengths(p), NEW kind \in Kinds \ {"login"}
  PROVE  Sound(Writes(kind, p), Size(kind, p.password))
<1>1. CASE kind = "challenge" BY <1>1 DEF Sound, Writes, Size, Write
<1>2. CASE kind = "keepAlive" BY <1>2 DEF Sound, Writes, Size, Write
<1>3. CASE kind = "heartbeat" BY <1>3 DEF Sound, Writes, Size, Write, HeartbeatWrites
<1>4. CASE kind = "step2" BY <1>4 DEF Sound, Writes, Size, Write, Digest, Step2Writes
<1>5. CASE kind = "logout"
  <2>1. LogoutWrites(p) = << Write(0, 4), Write(4, 16), Write(20, p.username), Write(56, 2),
                             Write(58, 6), Write(64, 16) >>
    BY FieldsFit DEF LogoutWrites
  <2>2. p.username \in 1..36 BY DEF Lengths
  <2>3. Sound(LogoutWrites(p), 80) BY <2>1, <2>2 DEF Sound, Write
  <2>4. QED BY <1>5, <2>3 DEF Writes, Size
<1>6. QED BY <1>1, <1>2, <1>3, <1>4, <1>5 DEF Kinds

\* What Validate accepts the builders can lay out, for every password length
\* and every length of the other strings (Validate, BuildLoginPacket).
THEOREM PacketsSoundAlways == Spec => []PacketsSound
<1>1. Inv => PacketsSound
  <2> SUFFICES ASSUME Inv, pc = "accepted"
               PROVE  /\ \A kind \in Kinds : Sound(Writes(kind, cfg), Size(kind, cfg.password))
                      /\ 20 + cfg.username <= UsernameEnd /\ 110 + cfg.host <= HostNameEnd
                      /\ 192 + cfg.os <= OSInfoEnd
                      /\ cfg.username + 20 < 256 /\ cfg.password < 256
                      /\ RandomFits(cfg.password)
    BY DEF PacketsSound
  <2>1. file.host \in Nat /\ file.os \in Nat BY DEF Inv, TypeInv, File
  <2>2. Lengths(cfg) BY <2>1 DEF Inv, CfgInv, Valid, Lengths
  <2>3. Writes("login", cfg) = LoginWrites(cfg) BY DEF Writes
  <2>4. \A kind \in Kinds : Sound(Writes(kind, cfg), Size(kind, cfg.password))
    BY <2>2, <2>3, LoginSound, OthersSound
  <2>5. RandomFits(cfg.password) BY <2>2, RandomHasRoom DEF Lengths
  <2>6. QED BY <2>2, <2>4, <2>5 DEF Lengths, UsernameEnd, HostNameEnd, OSInfoEnd
<1>2. QED BY Invariance, <1>1, PTL
=============================================================================
