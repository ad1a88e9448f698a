------------------------------ MODULE MCConfig ------------------------------
(***************************************************************************)
(* ConfigLoad for TLC: a machine with a wired adapter of two addresses,    *)
(* two wireless ones, a virtual switch and addresses that no scan may      *)
(* take, in every order of up to MaxNets; and, on a machine with one       *)
(* address, every length of password with the other lengths at their       *)
(* limits.                                                                 *)
(***************************************************************************)
EXTENDS ConfigLoad

CONSTANT MaxNets

On(name, mac, ip) == [name |-> name, up |-> TRUE, mac |-> mac, ip |-> ip]

Wired == On("wired", "m1", "ip1")

MCAddresses ==
  {Wired, On("wired", "m1", "ip2"), On("wlan", "m2", "ip3"),
   On("wlan 2", "m4", "ip1"), On("wlan 2", "m4", "ip2"),
   On("virtual lan", "m3", "ip3"),       \* of another net, with an address of wlan's
   [On("lan down", "m5", "ip2") EXCEPT !.up = FALSE],
   On("lan", "zero", "ip2"), On("lan 3", "m5", "link")}

MCNames == {"wired", "wlan", "wlan 2", "virtual lan", "lan down", "lan", "lan 3"}
MCVirtual == {"virtual lan"}
MCHints == {"wlan", "lan", "virtual lan", "office"}
MCExact == {<<"wlan", "wlan">>, <<"lan", "lan">>, <<"virtual lan", "virtual lan">>}
MCPart == {<<"wlan 2", "wlan">>} \cup {<<n, "lan">> : n \in MCNames \ {"lan", "wired"}}

Nets == UNION {[1..n -> MCAddresses] : n \in 0..MaxNets}

Ordinary ==
  [syntax |-> TRUE, hint |-> "", ip |-> "auto", mac |-> "auto", bind |-> "auto", others |-> TRUE,
   username |-> 8, password |-> 10, host |-> 10, os |-> 7]

NetworkFiles ==
  {[Ordinary EXCEPT !.ip = ip, !.mac = mac, !.hint = hint] :
     ip \in {"auto", "ip1", "ip3", "link", "bad"}, mac \in {"auto", "m1", "m2", "zero"},
     hint \in MCHints \cup {""}}

LengthFiles ==
  {[Ordinary EXCEPT !.password = n] : n \in 0..256} \cup
  {[Ordinary EXCEPT !.password = n, !.username = u, !.host = h, !.os = o] :
     n \in {1, 16, 17, 255}, u \in {0, 1, 36, 37}, h \in {0, 32, 33}, o \in {0, 54, 55}} \cup
  {[Ordinary EXCEPT !.syntax = FALSE], [Ordinary EXCEPT !.others = FALSE],
   [Ordinary EXCEPT !.bind = "ip1"], [Ordinary EXCEPT !.bind = "ip3"],
   [Ordinary EXCEPT !.bind = "bad"]}

MCInputs ==
  [file : NetworkFiles, nets : Nets] \cup [file : LengthFiles, nets : {<<Wired>>}]
=============================================================================
