------------------------------ MODULE MCSession ------------------------------
(***************************************************************************)
(* DrcomSession for TLC: what reaches the socket besides this session's    *)
(* own datagrams.                                                          *)
(***************************************************************************)
EXTENDS DrcomSession

Strange(p) == [wire |-> p, src |-> "stranger", re |-> [kind |-> "keepAlive", count |-> -1]]

\* Another host sends well-formed refusals and heartbeat replies.
FromStrangers == {Strange(Rejection), Strange(HeartbeatReply(40, 0, 2))}

\* The server's refusal of a keepalive of the previous session arrives after
\* the reconnect has bound the same port.
LateRefusal == {[Reply([kind |-> "keepAlive", count |-> 0], Rejection)
                   EXCEPT !.re.count = -1]}

Nothing == {}
=============================================================================
