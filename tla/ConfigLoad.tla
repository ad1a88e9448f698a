----------------------------- MODULE ConfigLoad -----------------------------
(***************************************************************************)
(* From the configuration file to the packets: ParseWithDetector reads the *)
(* keys in a fixed order, asks AutoDetectNetwork for an adapter when ip or *)
(* mac is "auto", and validates; what it accepts decides the layout of the *)
(* packets.  A key's value is what the code tells apart: an address, the   *)
(* length of a string, "auto", or "bad" for one of a wrong type or form.   *)
(***************************************************************************)
EXTENDS PacketLayout, FiniteSets

CONSTANTS
  IPs, MACs,      \* addresses; "auto", "bad" and "zero" are none of them
  Unusable,       \* IPs that are loopback, multicast, unspecified or link-local
  Names, Hints,   \* of adapters, in lower case; "" is the absent hint
  Virtual,        \* Names that contain a word like "vmware"
  Exact, Part,    \* <<name, hint>> when they are equal; when the name contains the hint
  Inputs          \* [file, nets]: a configuration file, and the addresses the system
                  \* lists, interface by interface; none if it cannot

\* An IPv4 address of an interface, with the interface's own data ("zero" for
\* a hardware address of zeros, "short" for one of less than six bytes).  up:
\* it is up and not a loopback.
Address == [name : Names, up : BOOLEAN, mac : MACs \cup {"zero", "short"}, ip : IPs]

File == [syntax : BOOLEAN,  \* known keys only, strings where strings are wanted first
         hint : Hints \cup {""},
         ip : IPs \cup {"auto", "bad"}, mac : MACs \cup {"zero", "auto", "bad"},
         bind : IPs \cup {"auto", "bad"},
         others : BOOLEAN,  \* every other key has its type and is within its bounds
         username : Nat, password : Nat, host : Nat, os : Nat]  \* defaults filled in

\* An interface has one hardware address.
OneMAC(nets) ==
  \A i, j \in 1..Len(nets) : nets[i].name = nets[j].name => nets[i].mac = nets[j].mac

ASSUME NamesAssumption ==
  /\ {"auto", "bad", "zero", "short"} \cap (IPs \cup MACs) = {}
  /\ "" \notin Hints

ASSUME InputsAssumption ==
  \A x \in Inputs : x.file \in File /\ x.nets \in Seq(Address) /\ OneMAC(x.nets)

VARIABLES
  pc,        \* where ParseWithDetector is; "failed" or "accepted"
  err,       \* the error it returned with
  file, nets,
  i, best, bestScore, ambiguous,  \* the loop of selectAutoNetwork
  auto,      \* cfg.AutoNetwork
  cfg        \* the fields of Config the packets are built from

scan == <<i, best, bestScore, ambiguous>>
vars == <<pc, err, file, nets, scan, auto, cfg>>

Config(ip, mac, username, password, host, os) ==
  [ip |-> ip, mac |-> mac, username |-> username, password |-> password,
   host |-> host, os |-> os]

None == [name |-> "", up |-> FALSE, mac |-> "zero", ip |-> "zero"]

Init ==
  /\ \E x \in Inputs : file = x.file /\ nets = x.nets
  /\ pc = "keys" /\ err = "none"
  /\ i = 1 /\ best = None /\ bestScore = -1 /\ ambiguous = FALSE
  /\ auto = None
  /\ cfg = Config("zero", "zero", 0, 0, 0, 0)

Fail(e) == pc' = "failed" /\ err' = e

-----------------------------------------------------------------------------
(* AutoDetectNetwork and selectAutoNetwork.                                 *)

\* Not skipped, whatever its score: the conditions of both loops.
Usable(c, hint) ==
  /\ c.ip \notin Unusable /\ c.up /\ c.mac \notin {"zero", "short"}
  /\ IF hint = "" THEN c.name \notin Virtual ELSE <<c.name, hint>> \in Exact \cup Part

Score(c, hint) ==
  10 + (IF c.name \in Virtual THEN 0 ELSE 100)
     + (IF hint = "" THEN 0 ELSE IF <<c.name, hint>> \in Exact THEN 1000 ELSE 500)

\* ip or mac is to be detected.
NeedAuto == file.ip = "auto" \/ file.mac = "auto"

\* The file is decoded; username, password and adapter_hint are read.
Keys ==
  /\ pc = "keys"
  /\ IF ~ file.syntax THEN Fail("config")
     ELSE pc' = (IF NeedAuto THEN "scan" ELSE "network") /\ UNCHANGED err
  /\ UNCHANGED <<file, nets, scan, auto, cfg>>

\* Mutant: a better candidate leaves the mark of an earlier tie.
ConsiderKeepsMark(c, score) ==
  \/ score > bestScore /\ best' = c /\ bestScore' = score /\ UNCHANGED ambiguous
  \/ /\ score = bestScore /\ (best.name # c.name \/ best.ip # c.ip)
     /\ ambiguous' = TRUE /\ UNCHANGED <<best, bestScore>>
  \/ /\ score < bestScore \/ (score = bestScore /\ best.name = c.name /\ best.ip = c.ip)
     /\ UNCHANGED <<best, bestScore, ambiguous>>

Consider(c, score) ==
  \/ score > bestScore /\ best' = c /\ bestScore' = score /\ ambiguous' = FALSE
  \/ /\ score = bestScore /\ (best.name # c.name \/ best.ip # c.ip)
     /\ ambiguous' = TRUE /\ UNCHANGED <<best, bestScore>>
  \/ /\ score < bestScore \/ (score = bestScore /\ best.name = c.name /\ best.ip = c.ip)
     /\ UNCHANGED <<best, bestScore, ambiguous>>

Scan ==
  /\ pc = "scan" /\ i <= Len(nets) /\ i' = i + 1
  /\ IF Usable(nets[i], file.hint) THEN Consider(nets[i], Score(nets[i], file.hint))
     ELSE UNCHANGED <<best, bestScore, ambiguous>>
  /\ UNCHANGED <<pc, err, file, nets, auto, cfg>>

Select ==
  /\ pc = "scan" /\ i > Len(nets)
  /\ \/ bestScore < 0 /\ Fail("noNetwork") /\ UNCHANGED auto
     \/ bestScore >= 0 /\ ambiguous /\ Fail("ambiguous") /\ UNCHANGED auto
     \/ /\ bestScore >= 0 /\ ~ ambiguous
        /\ pc' = "network" /\ auto' = best /\ UNCHANGED err
  /\ UNCHANGED <<file, nets, scan, cfg>>

-----------------------------------------------------------------------------
(* The rest of ParseWithDetector.                                           *)

IP == IF file.ip = "auto" THEN auto.ip ELSE file.ip
MAC == IF file.mac = "auto" THEN auto.mac ELSE file.mac
BindIP == IF file.bind = "auto" THEN IP ELSE file.bind

\* Mutant: each of the two is taken where it comes from.
NetworkUnpaired ==
  /\ pc = "network"
  /\ IF IP = "bad" \/ MAC = "bad" THEN Fail("config") /\ UNCHANGED cfg
     ELSE pc' = "rest" /\ cfg' = Config(IP, MAC, 0, 0, 0, 0) /\ UNCHANGED err
  /\ UNCHANGED <<file, nets, scan, auto>>

\* What was detected is used for both, or not at all.
Network ==
  /\ pc = "network"
  /\ IF IP = "bad" \/ MAC = "bad" \/ (NeedAuto /\ (IP # auto.ip \/ MAC # auto.mac))
     THEN Fail("config") /\ UNCHANGED cfg
     ELSE pc' = "rest" /\ cfg' = Config(IP, MAC, 0, 0, 0, 0) /\ UNCHANGED err
  /\ UNCHANGED <<file, nets, scan, auto>>

\* Validate, of the keys that matter here.
Valid ==
  /\ file.others
  /\ file.username \in 1..36 /\ file.password \in 1..255
  /\ file.host <= 32 /\ file.os <= 54
  /\ cfg.ip \notin Unusable /\ cfg.mac # "zero"
  /\ BindIP = cfg.ip

Rest ==
  /\ pc = "rest"
  /\ IF ~ Valid THEN Fail("config") /\ UNCHANGED cfg
     ELSE /\ pc' = "accepted" /\ UNCHANGED err
          /\ cfg' = Config(cfg.ip, cfg.mac, file.username, file.password, file.host, file.os)
  /\ UNCHANGED <<file, nets, scan, auto>>

\* ParseWithDetector has returned.
Done == pc \in {"failed", "accepted"} /\ UNCHANGED vars

Next == Keys \/ Scan \/ Select \/ Network \/ Rest \/ Done

Spec == Init /\ [][Next]_vars

-----------------------------------------------------------------------------
Addresses == {nets[k] : k \in 1..Len(nets)}
Acceptable == {c \in Addresses : Usable(c, file.hint)}
Top == {c \in Acceptable : \A d \in Acceptable : Score(d, file.hint) <= Score(c, file.hint)}

\* What is selected depends on the set of addresses alone, not on the order
\* the system lists them in, nor on what an earlier, worse tie had marked: the
\* one best address; "ambiguous" if there are two, "no network" if there is
\* none (AutoDetectNetwork, selectAutoNetwork).
SelectsUniqueBest ==
  /\ err = "noNetwork" => Acceptable = {}
  /\ err = "ambiguous" => \E c, d \in Top : <<c.name, c.ip>> # <<d.name, d.ip>>
  /\ NeedAuto /\ pc \in {"network", "rest", "accepted"} =>
       Top # {} /\ \A c \in Top : c = auto

\* A configuration with anything detected in it names one address of this
\* machine, that of an adapter that is up, as ip, mac and bind_ip; a user's
\* own ip never goes with a detected mac of another adapter, nor the reverse.
AcceptedIsOneAdapter ==
  pc = "accepted" =>
    /\ BindIP = cfg.ip /\ cfg.ip \in IPs \ Unusable /\ cfg.mac \in MACs
    /\ NeedAuto => \E c \in Acceptable : c.up /\ c.ip = cfg.ip /\ c.mac = cfg.mac

\* Writes go upwards and stay within the packet: nothing is overwritten, no
\* index is out of range, and a digest's bytes are final when it is taken.
Sound(w, size) ==
  /\ \A k \in 1..Len(w) : w[k].over <= w[k].at
  /\ \A k \in 1..Len(w) - 1 : w[k].at + w[k].len <= w[k + 1].at
  /\ w[Len(w)].at + w[Len(w)].len <= size

\* For every configuration that is accepted each packet is laid out soundly,
\* no string is cut to its field, the two length bytes do not wrap, and the
\* last random bytes are there: the bounds of Validate are those of the
\* builders (Validate, BuildLoginPacket, BuildLogoutPacket).
PacketsSound ==
  pc = "accepted" =>
    /\ \A kind \in Kinds : Sound(Writes(kind, cfg), Size(kind, cfg.password))
    /\ 20 + cfg.username <= UsernameEnd /\ 110 + cfg.host <= HostNameEnd
    /\ 192 + cfg.os <= OSInfoEnd
    /\ cfg.username + 20 < 256 /\ cfg.password < 256
    /\ RandomFits(cfg.password)
=============================================================================
