---------------------------- MODULE DrcomSession ----------------------------
(***************************************************************************)
(* One authentication session: Runner.Run with its deferred Logout, over   *)
(* RetryExchange and Transport.Exchange, on a UDP network that loses,      *)
(* duplicates, delays and reorders, against the campus server.             *)
(*                                                                         *)
(* Datagrams are never removed when they are read, so each may arrive any  *)
(* number of times and in any order, or not at all.  They age: one whose   *)
(* request carried heartbeat number c is gone once HeartbeatCount reaches  *)
(* c + Lifetime.  Salts, tokens, digests and random bytes are left out: no *)
(* control decision of the client reads them.                              *)
(***************************************************************************)
EXTENDS ResponseMatcher

CONSTANTS
  RetryCount,  \* configured retries of one exchange
  Lifetime,    \* age, in heartbeat numbers, that no datagram reaches
  MaxCount,    \* bound of the model: no round starts at this number or later
  Stale        \* datagrams that reach the socket from before this session

Server == "server"
Senders == {Server, "stranger"}

\* What a datagram answers.  Those of Stale answer nothing of this session.
Requests == [kind : Kinds, count : Nat]
Messages == [wire : Packets, src : Senders, re : [kind : Kinds, count : Int]]

ASSUME RetryCountAssumption == RetryCount \in Nat
ASSUME LifetimeAssumption == Lifetime \in 1..256
ASSUME MaxCountAssumption == MaxCount \in Nat
ASSUME StaleAssumption == Stale \subseteq Messages

VARIABLES
  step,       \* the exchange under way, or where Run is between exchanges
  io,         \* where that exchange is: "ready" to begin an attempt, "armed"
              \* (deadline set, nothing sent yet) or "reading"
  attempt,    \* attempts begun, RetryExchange's loop variable
  count,      \* Session.HeartbeatCount
  state,      \* Runner.State
  result,     \* what Run returns
  cancelled,  \* Run's context is done
  expired,    \* the 1.5 s of the logout context are over
  requests,   \* packets the server may (again) receive
  replies,    \* datagrams the client's socket may (again) receive
  valid,      \* the server accepts this account's login
  held,       \* the server holds the session
  seen        \* the highest heartbeat number the server has answered, or -1

client == <<step, io, attempt, count, state, result>>
context == <<cancelled, expired>>
network == <<requests, replies>>
server == <<valid, held, seen>>
vars == <<client, context, network, server>>

LoginKinds == {"loginChallenge", "login"}
RoundKinds == {"keepAlive"} \cup Heartbeats
LogoutKinds == {"logoutChallenge", "logout"}

\* The HeartbeatCount byte of a packet: byte(count & 0xff).
Seq(c) == c % 256

Init ==
  /\ step = "loginChallenge" /\ io = "ready" /\ attempt = 0 /\ count = 0
  /\ state = "LoginChallenge" /\ result = "none"
  /\ cancelled = FALSE /\ expired = FALSE
  /\ requests = {} /\ replies = Stale
  /\ valid \in BOOLEAN /\ held = FALSE /\ seen = -1

-----------------------------------------------------------------------------
(* The order of the exchanges.                                              *)

\* HeartbeatOnce, after KeepAliveAuth: the first round opens with a first
\* heartbeat and every 21st number with an extra one.
HeartbeatAt(c) ==
  IF c = 0 THEN "first" ELSE IF c % 21 = 0 THEN "extra" ELSE "step1"

After(kind, c) ==
  CASE kind = "loginChallenge"  -> "login"
    [] kind = "login"           -> "keepAlive"
    [] kind = "keepAlive"       -> HeartbeatAt(c)
    [] kind \in FileKinds       -> "step1"
    [] kind = "step1"           -> "step2"
    [] kind = "step2"           -> "sleep"
    [] kind = "logoutChallenge" -> "logout"
    [] OTHER                    -> "closed"

\* Mutant: the reply to a first or extra heartbeat is not counted.
CountedStepsOnly(kind, c) == IF kind \in {"step1", "step2"} THEN c + 1 ELSE c

\* HeartbeatCount++ after each acknowledged heartbeat, and only then.
Counted(kind, c) == IF kind \in Heartbeats THEN c + 1 ELSE c

\* setState on the way to the next exchange.
Reached(kind) ==
  CASE kind = "loginChallenge" -> "LoggingIn"
    [] kind = "step2"          -> "Online"
    [] kind = "logout"         -> "Stopped"
    [] OTHER                   -> state

Enter(next) == step' = next /\ io' = "ready" /\ attempt' = 0

Succeed ==
  /\ Enter(After(step, count))
  /\ count' = Counted(step, count)
  /\ state' = Reached(step)
  /\ requests' = {r \in requests : Counted(step, count) < r.count + Lifetime}
  /\ replies' = {m \in replies : Counted(step, count) < m.re.count + Lifetime}
  /\ UNCHANGED <<result, context, server>>

\* The error of an exchange: ErrRejected ("refused"), the context's, or any
\* other ("unavailable").  Only a refusal of the login packet itself becomes
\* ErrAuthenticationRejected.  Login returns before Run defers the logout.
Fail(error) ==
  /\ \/ /\ step \in LoginKinds
        /\ Enter("closed") /\ state' = "Failed"
        /\ result' = IF step = "login" /\ error = "refused" THEN "rejected" ELSE error
     \/ step \in RoundKinds  /\ Enter("ending") /\ state' = "Failed" /\ result' = error
     \/ step \in LogoutKinds /\ Enter("closed") /\ UNCHANGED <<state, result>>
  /\ UNCHANGED <<count, context, network, server>>

-----------------------------------------------------------------------------
(* RetryExchange and Exchange.                                              *)

\* The context of the exchange is done: Run's, or the logout's own.
Done == IF step \in LogoutKinds THEN expired ELSE cancelled

\* Mutant: RetryExchange does not count its attempts.
BeginUncounted ==
  /\ step \in Kinds /\ io = "ready" /\ ~ Done
  /\ io' = "armed"
  /\ UNCHANGED <<step, attempt, count, state, result, context, network, server>>

\* Another attempt: the context is checked, the deadline armed.
Begin ==
  /\ step \in Kinds /\ io = "ready" /\ ~ Done
  /\ io' = "armed" /\ attempt' = attempt + 1
  /\ UNCHANGED <<step, count, state, result, context, network, server>>

\* WriteToUDP.  The context may have ended since Begin: the packet then still
\* goes out unless the callback has already moved the deadline (Interrupt).
Write ==
  /\ io = "armed"
  /\ io' = "reading"
  /\ requests' = requests \cup {[kind |-> step, count |-> count]}
  /\ UNCHANGED <<step, attempt, count, state, result, context, replies, server>>

\* The socket fails (interface gone, no route): not a timeout, so no retry.
SocketFails == io \in {"armed", "reading"} /\ ~ Done /\ Fail("unavailable")

\* Mutant: the sender's address is not compared.
FromAnyone(m) == TRUE

FromServer(m) == m.src = Server

\* ReadFromUDP returns m.  A datagram of another sender and one the matcher
\* does not recognise change nothing, so the loop over them is a stutter.
Receive(m) ==
  /\ io = "reading" /\ FromServer(m)
  /\ \/ Rejects(m.wire) /\ Fail("refused")
     \/ Answers(step, Seq(count), m.wire) /\ Succeed

\* Mutant: one attempt too many.
TimeoutOnceMore ==
  /\ io = "reading" /\ ~ Done
  /\ \/ /\ attempt <= RetryCount + 1
        /\ io' = "ready"
        /\ UNCHANGED <<step, attempt, count, state, result, context, network, server>>
     \/ attempt > RetryCount + 1 /\ Fail("unavailable")

\* The deadline of the attempt: ErrTimeout, the one error that is retried.
Timeout ==
  /\ io = "reading" /\ ~ Done
  /\ \/ /\ attempt <= RetryCount
        /\ io' = "ready"
        /\ UNCHANGED <<step, attempt, count, state, result, context, network, server>>
     \/ attempt > RetryCount /\ Fail("unavailable")

\* The context ends the exchange: at either check, in a write or in a read.
Interrupt == step \in Kinds /\ Done /\ Fail("canceled")

-----------------------------------------------------------------------------
(* Run, around the exchanges.                                               *)

\* The select after a round.  When both are ready Go chooses either.
Wake ==
  /\ step = "sleep" /\ count < MaxCount
  /\ Enter("keepAlive")
  /\ UNCHANGED <<count, state, result, context, network, server>>

Leave ==
  /\ step = "sleep" /\ cancelled
  /\ Enter("ending") /\ result' = "canceled"
  /\ UNCHANGED <<count, state, context, network, server>>

\* Mutant: the logout depends on why the round ended, not on the context.
DeferredOnCanceled ==
  /\ step = "ending"
  /\ IF result = "canceled" THEN Enter("logoutChallenge") /\ state' = "LoggingOut"
                            ELSE Enter("closed") /\ UNCHANGED state
  /\ UNCHANGED <<count, result, context, network, server>>

\* The deferred function: a best-effort logout only when the context is done.
Deferred ==
  /\ step = "ending"
  /\ IF cancelled THEN Enter("logoutChallenge") /\ state' = "LoggingOut"
                  ELSE Enter("closed") /\ UNCHANGED state
  /\ UNCHANGED <<count, result, context, network, server>>

Client ==
  \/ Begin \/ Write \/ SocketFails \/ Timeout \/ Interrupt
  \/ \E m \in replies : Receive(m)
  \/ Wake \/ Leave \/ Deferred

-----------------------------------------------------------------------------
(* The environment: the owner of the context, its timer, and the server.    *)

Cancel ==
  /\ step # "closed" /\ ~ cancelled
  /\ cancelled' = TRUE
  /\ UNCHANGED <<client, expired, network, server>>

Expire ==
  /\ step \in LogoutKinds /\ ~ expired
  /\ expired' = TRUE
  /\ UNCHANGED <<client, cancelled, network, server>>

Reply(r, p) == [wire |-> p, src |-> Server, re |-> r]

\* A login of a bad account and a keepalive of a session the server does not
\* hold are refused; everything else gets the reply of its kind.
Refused(r) == \/ r.kind = "login" /\ ~ valid
              \/ r.kind \in RoundKinds /\ ~ held

Serve(r) ==
  /\ \E p \in IF Refused(r) THEN {Rejection} ELSE ServerReplies(r.kind, Seq(r.count)) :
       replies' = replies \cup {Reply(r, p)}
  /\ held' = CASE r.kind = "login"  -> valid
               [] r.kind = "logout" -> FALSE
               [] OTHER             -> held
  /\ seen' = IF r.kind \in Heartbeats /\ ~ Refused(r) /\ r.count > seen
               THEN r.count ELSE seen
  /\ UNCHANGED <<client, context, requests, valid>>

\* The server forgets the session on its own.
Kick == held /\ held' = FALSE /\ UNCHANGED <<client, context, network, valid, seen>>

\* Run has returned; nobody reads the socket any more.
Closed == step = "closed" /\ UNCHANGED vars

Next ==
  \/ Client \/ Cancel \/ Expire \/ Closed
  \/ step # "closed" /\ (Kick \/ \E r \in requests : Serve(r))

Spec == Init /\ [][Next]_vars

\* Every blocking call of the client returns: deadlines elapse, timers fire
\* and the goroutine is scheduled.  Nothing is asked of the network, of the
\* server or of the 1.5 s timer.
FairSpec == Spec /\ WF_vars(Client)
-----------------------------------------------------------------------------
(* Properties.                                                              *)

States == {"LoginChallenge", "LoggingIn", "Online", "LoggingOut", "Stopped", "Failed"}

\* The types of the session: runner.go keeps the count, the state and the
\* place in Run, RetryExchange the attempt, the network only what was sent.
TypeOK ==
  /\ step \in Kinds \cup {"sleep", "ending", "closed"}
  /\ io \in {"ready", "armed", "reading"}
  /\ attempt \in 0..(RetryCount + 1) /\ count \in Nat
  /\ state \in States
  /\ result \in {"none", "rejected", "refused", "canceled", "unavailable"}
  /\ cancelled \in BOOLEAN /\ expired \in BOOLEAN
  /\ requests \subseteq Requests /\ replies \subseteq Messages
  /\ valid \in BOOLEAN /\ held \in BOOLEAN /\ seen \in Int

\* A datagram that would now end the exchange answers the request of this
\* very exchange: of its kind and, for heartbeats, of its number, however late
\* or often the network delivers, and although the number is sent modulo 256
\* (ResponseMatcher).  A keepalive reply carries no number and may be an
\* earlier one's.
AcceptsOnlyOwn ==
  \A m \in replies :
    step \in Kinds /\ FromServer(m) /\ Answers(step, Seq(count), m.wire) =>
      /\ m.re.kind = step
      /\ step \in Heartbeats => m.re.count = count

\* The client counts a heartbeat exactly when the server has answered it: the
\* two never drift apart by more than the heartbeat under way, and between
\* rounds, whenever the status says Online, by nothing (HeartbeatCount++).
ServerInStep ==
  /\ seen \in {count - 1, count}
  /\ step \notin Heartbeats => seen = count - 1 \/ state # "Online"

\* Rounds advance the count by two or three, so it must land on every multiple
\* of 21 between rounds: no heartbeat of a regular round ever has such a
\* number, which would skip an extra heartbeat (HeartbeatOnce).
ExtraNeverSkipped == step \in {"step1", "step2"} => count % 21 # 0

\* Run reports ErrAuthenticationRejected, which ends automatic retries for
\* good, only if the server really refuses this account's login.
RejectionIsGenuine == result = "rejected" => ~ valid

\* However the network and the server behave, a cancelled Run returns: each
\* exchange, the logout's included, gives up after its attempts.
CancelEnds == cancelled ~> (step = "closed")

\* "Logout: stop reconnecting, go offline on a best-effort basis": a cancelled
\* session that the server holds has at least tried to log out.
LogoutAttempted ==
  step = "closed" /\ cancelled /\ held => state \in {"LoggingOut", "Stopped"}

\* The phase of Run as its owner sees it.
Phase ==
  CASE step \in LoginKinds               -> "login"
    [] step \in RoundKinds \cup {"sleep"} -> "established"
    [] step = "ending"                   -> "leaving"
    [] step \in LogoutKinds              -> "logout"
    [] OTHER                             -> "ended"

Contract == INSTANCE RunnerContract WITH phase <- Phase

\* Seen from its owner, the session does what RunnerContract promises: the
\* retries, the network and the server only decide which promise.
ImplementsContract == Contract!Spec
=============================================================================
