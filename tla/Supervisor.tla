----------------------------- MODULE Supervisor -----------------------------
(***************************************************************************)
(* Supervisor.Run: load the configuration, bind a socket, run one session, *)
(* close the socket, and start over after a growing pause, until the       *)
(* context ends, the login is rejected or the configuration is invalid.    *)
(* The session is RunnerContract's.  "state" is what OnState reported      *)
(* last: the Runner's states pass through, Reconnecting is added here.     *)
(* The configuration is the one recommended: ip and mac are auto.          *)
(***************************************************************************)
EXTENDS Integers, FiniteSets, FiniteSetsExt

CONSTANT Adapters  \* names of the network adapters AUTO may select

ASSUME AdaptersAssumption == "none" \notin Adapters

First == 5         \* seconds, the shortest pause
Longest == 60

VARIABLES
  pc,         \* where Run is
  delay,      \* the next pause
  bound,      \* the adapter of the last configuration loaded, or "none"
  sockets,    \* UDP sockets open
  phase, state, result, cancelled,  \* see RunnerContract; result is err
  usable,     \* how many usable IPv4 addresses each adapter has; 2 is any more
  config,     \* the file: "valid", "malformed", or "invalid" in a key that is
              \* read after the network
  hint,       \* adapter_hint, or "none"
  pauses      \* history: pauses since the last Online, up to 4

Session == INSTANCE RunnerContract

session == <<phase, state>>
world == <<usable, config, hint>>
vars == <<pc, delay, bound, sockets, session, result, cancelled, world, pauses>>

Configs == {"valid", "malformed", "invalid"}
World(u, c, h) ==
  u \in [Adapters -> 0..2] /\ c \in Configs /\ h \in Adapters \cup {"none"}

Init ==
  /\ pc = "check" /\ delay = First /\ bound = "none" /\ sockets = 0
  /\ phase = "idle" /\ state = "Disconnected" /\ result = "none"
  /\ cancelled = FALSE /\ pauses = 0
  /\ World(usable, config, hint)

Return(err) == pc' = "returned" /\ result' = err

\* The loop condition.
Check ==
  /\ pc = "check"
  /\ IF cancelled THEN Return("canceled") ELSE pc' = "load" /\ UNCHANGED result
  /\ UNCHANGED <<delay, bound, sockets, session, cancelled, world, pauses>>

\* AutoDetectNetwork: without a hint every adapter is as good as another, and
\* two candidates of equal score, or two addresses, are never chosen between.
Candidates == {a \in Adapters : usable[a] > 0 /\ hint \in {a, "none"}}
Ambiguous == Cardinality(Candidates) > 1 \/ \E a \in Candidates : usable[a] > 1

Parsed == config # "malformed"
Selected == Parsed /\ Candidates # {} /\ ~ Ambiguous

LoadFailsForGood ==
  \/ ~ Parsed /\ Return("config")
  \/ Selected /\ config = "invalid" /\ Return("config")
  \/ Parsed /\ Ambiguous /\ Return("ambiguous")

\* Mutant: any failure to load ends the supervisor.
LoadStrictly ==
  /\ pc = "load"
  /\ \/ LoadFailsForGood /\ UNCHANGED bound
     \/ Parsed /\ Candidates = {} /\ Return("noNetwork") /\ UNCHANGED bound
     \/ /\ Selected /\ config = "valid"
        /\ bound' \in Candidates /\ pc' = "open" /\ UNCHANGED result
  /\ UNCHANGED <<delay, sockets, session, cancelled, world, pauses>>

\* Mutant: the first configuration that loads is kept.
LoadOnce ==
  /\ pc = "load"
  /\ \/ bound = "none" /\ LoadFailsForGood /\ UNCHANGED bound
     \/ /\ bound = "none" /\ Parsed /\ Candidates = {}
        /\ pc' = "judge" /\ result' = "noNetwork" /\ UNCHANGED bound
     \/ /\ bound = "none" /\ Selected /\ config = "valid"
        /\ bound' \in Candidates /\ pc' = "open" /\ UNCHANGED result
     \/ bound # "none" /\ pc' = "open" /\ UNCHANGED <<result, bound>>
  /\ UNCHANGED <<delay, sockets, session, cancelled, world, pauses>>

\* A fresh configuration, with an adapter that is usable now.  Only
\* ErrNetworkUnavailable, no such adapter, is worth waiting for.
Load ==
  /\ pc = "load"
  /\ \/ LoadFailsForGood /\ UNCHANGED bound
     \/ /\ Parsed /\ Candidates = {}
        /\ pc' = "judge" /\ result' = "noNetwork" /\ UNCHANGED bound
     \/ /\ Selected /\ config = "valid"
        /\ bound' \in Candidates /\ pc' = "open" /\ UNCHANGED result
  /\ UNCHANGED <<delay, sockets, session, cancelled, world, pauses>>

\* NewTransport fails on an address that is gone or a port that is taken, or
\* cannot pin the socket to its adapter and closes it before it returns: either
\* way no socket is left.
OpenFails ==
  /\ pc = "open" /\ pc' = "judge" /\ result' = "openFails"
  /\ UNCHANGED <<delay, bound, sockets, session, cancelled, world, pauses>>

Open ==
  /\ pc = "open" /\ pc' = "run" /\ sockets' = sockets + 1
  /\ Session!Start
  /\ UNCHANGED <<delay, bound, cancelled, world, pauses>>

\* A step of Runner.Run.  Reporting Online resets the pause.
RunQuietly ==
  /\ pc = "run" /\ Session!Quiet
  /\ UNCHANGED <<pc, delay, bound, sockets, cancelled, world, pauses>>

\* Mutant: the pause is not reset.
RunOnlineKeepsPause ==
  /\ pc = "run" /\ Session!RoundDone
  /\ pauses' = 0
  /\ UNCHANGED <<pc, delay, bound, sockets, cancelled, world>>

RunOnline ==
  /\ pc = "run" /\ Session!RoundDone
  /\ delay' = First /\ pauses' = 0
  /\ UNCHANGED <<pc, bound, sockets, cancelled, world>>

\* Mutant: the socket of a rejected session is left open.
CloseUnlessRejected ==
  /\ pc = "run" /\ phase = "ended"
  /\ pc' = "judge" /\ phase' = "idle"
  /\ sockets' = IF result = "rejected" THEN sockets ELSE sockets - 1
  /\ UNCHANGED <<delay, bound, state, result, cancelled, world, pauses>>

Close ==
  /\ pc = "run" /\ phase = "ended"
  /\ pc' = "judge" /\ sockets' = sockets - 1 /\ phase' = "idle"
  /\ UNCHANGED <<delay, bound, state, result, cancelled, world, pauses>>

\* Mutant: the outcome is judged without a look at the context.
JudgeUnchecked ==
  /\ pc = "judge"
  /\ \/ result = "rejected" /\ Return(result)
     \/ result # "rejected" /\ pc' = "announce" /\ UNCHANGED result
  /\ UNCHANGED <<delay, bound, sockets, session, cancelled, world, pauses>>

\* The context's error first, then the one rejection that is final.
Judge ==
  /\ pc = "judge"
  /\ \/ cancelled /\ Return("canceled")
     \/ ~ cancelled /\ result = "rejected" /\ Return(result)
     \/ ~ cancelled /\ result # "rejected" /\ pc' = "announce" /\ UNCHANGED result
  /\ UNCHANGED <<delay, bound, sockets, session, cancelled, world, pauses>>

\* OnState(StateReconnecting): the context may have ended since Judge.
Announce ==
  /\ pc = "announce" /\ pc' = "wait" /\ state' = "Reconnecting"
  /\ UNCHANGED <<delay, bound, sockets, phase, result, cancelled, world, pauses>>

Pause ==
  /\ pc = "wait"
  /\ pc' = "check" /\ delay' = Min({delay * 2, Longest})
  /\ pauses' = Min({pauses + 1, 4})
  /\ UNCHANGED <<bound, sockets, session, result, cancelled, world>>

PauseCancelled ==
  /\ pc = "wait" /\ cancelled /\ Return("canceled")
  /\ UNCHANGED <<delay, bound, sockets, session, cancelled, world, pauses>>

Own ==
  \/ Check \/ Load \/ OpenFails \/ Open \/ Close \/ Judge \/ Announce
  \/ Pause \/ PauseCancelled

-----------------------------------------------------------------------------
Cancel ==
  /\ pc # "returned" /\ ~ cancelled /\ cancelled' = TRUE
  /\ UNCHANGED <<pc, delay, bound, sockets, session, result, world, pauses>>

\* The user edits config.toml, plugs a cable, joins or leaves a Wi-Fi network.
Reconfigure ==
  /\ pc # "returned"
  /\ usable' \in [Adapters -> 0..2] /\ config' \in Configs
  /\ hint' \in Adapters \cup {"none"}
  /\ UNCHANGED <<pc, delay, bound, sockets, session, result, cancelled, pauses>>

Returned == pc = "returned" /\ UNCHANGED vars

Next == Own \/ RunQuietly \/ RunOnline \/ Cancel \/ Reconfigure \/ Returned

Spec == Init /\ [][Next]_vars

\* The goroutine runs and its pauses end.  A session ends that is cancelled
\* (CancelEnds of DrcomSession), or whose adapter has lost its address, because
\* its exchanges time out.  Nothing is asked of the network or of a bind.
RunEnds == pc = "run" /\ Session!Ending
            /\ UNCHANGED <<pc, delay, bound, sockets, cancelled, world, pauses>>

FairSpec ==
  /\ Spec /\ WF_vars(Own)
  /\ WF_vars(pc = "run" /\ (cancelled \/ usable[bound] = 0) /\ RunEnds)

-----------------------------------------------------------------------------
\* Pauses of 5, 10, 20, 40 and 60 seconds, counted from the last Online and from
\* nothing else (OnState's reset, the doubling after the wait; README.md).
PauseFollowsFailures == delay = <<5, 10, 20, 40, 60>>[pauses + 1]

\* The fixed local port is free whenever no session runs: in a pause, before
\* the next bind, and after every way to return (Close after Run).
PortFreeBetweenSessions == sockets = IF pc = "run" THEN 1 ELSE 0

\* A cancellation is not taken for a failure: whether it meets the load, the
\* bind or the session, no further failure is announced and no pause begins.
\* One that Judge has already decided on is still announced (Judge, Announce).
CancelledNeverReconnects ==
  [][cancelled /\ pc # "announce" => pc' # "announce" /\ (pc' = "wait" => pc = "wait")]_vars

\* An adapter that is gone for good is, in the end, used by no session: the
\* configuration is loaded anew for each one (Load inside the loop).
LeavesLostAdapter ==
  \A a \in Adapters :
    <>[](usable[a] = 0) => <>[](pc = "run" => bound # a)

\* What the tray sees of the loop.
Reported == {"LoginChallenge", "LoggingIn", "Online", "Failed", "LoggingOut",
             "Stopped", "Reconnecting"}
Outcome == IF pc # "returned" THEN "none"
           ELSE IF result \in {"config", "ambiguous", "rejected"} THEN "permanent"
           ELSE result

Worker == INSTANCE WorkerContract WITH
  Reports <- Reported, reported <- state, outcome <- Outcome

\* Seen from the tray, the loop with its configurations, sockets and sessions
\* is WorkerContract.  No missing network, time-out, failed bind or refused
\* heartbeat ends the automatic retries: left alone, Run returns for an invalid
\* configuration, a rejected login or a choice between adapters only (Load,
\* Judge).  A cancelled Run returns, from wherever it is, because every session
\* it may be in does.
ImplementsWorker == Worker!Spec /\ Worker!CancelReturns
=============================================================================
