-------------------------- MODULE SupervisorProofs --------------------------
(***************************************************************************)
(* What Supervisor.Run does is what WorkerContract allows, for every set   *)
(* of adapters; its own promises about the port, the pauses and the end of *)
(* a cancelled loop.                                                       *)
(***************************************************************************)
EXTENDS Supervisor, TLAPS

\* Between sessions the fixed local port is free: every way out of a session
\* closes its socket, and only Open, after Close, opens one (Supervisor.Run).
THEOREM PortAlwaysFree == Spec => []PortFreeBetweenSessions
<1>1. Init => PortFreeBetweenSessions BY DEF Init, PortFreeBetweenSessions
<1>2. PortFreeBetweenSessions /\ [Next]_vars => PortFreeBetweenSessions'
  <2> SUFFICES ASSUME PortFreeBetweenSessions, [Next]_vars PROVE PortFreeBetweenSessions'
    OBVIOUS
  <2> USE DEF PortFreeBetweenSessions
  <2>1. CASE Own
    <3>1. CASE Check \/ Load
      BY <3>1 DEF Check, Load, LoadFailsForGood, Return
    <3>2. CASE OpenFails \/ Open BY <3>2 DEF OpenFails, Open
    <3>3. CASE Close BY <3>3 DEF Close
    <3>4. CASE Judge \/ Announce BY <3>4 DEF Judge, Announce, Return
    <3>5. CASE Pause \/ PauseCancelled BY <3>5 DEF Pause, PauseCancelled, Return
    <3>6. QED BY <2>1, <3>1, <3>2, <3>3, <3>4, <3>5 DEF Own
  <2>2. CASE RunQuietly \/ RunOnline BY <2>2 DEF RunQuietly, RunOnline
  <2>3. CASE Cancel \/ Reconfigure BY <2>3 DEF Cancel, Reconfigure
  <2>4. CASE UNCHANGED vars BY <2>4 DEF vars
  <2>5. QED BY <2>1, <2>2, <2>3, <2>4 DEF Next, Returned
<1>3. QED BY <1>1, <1>2, PTL DEF Spec

\* A cancellation never turns into another announced failure or a new pause,
\* wherever the loop is when it arrives (Judge looks at the context first).
THEOREM CancelledStaysQuiet == Spec => CancelledNeverReconnects
<1>1. [Next]_vars =>
        [cancelled /\ pc # "announce" =>
           pc' # "announce" /\ (pc' = "wait" => pc = "wait")]_vars
  <2> SUFFICES ASSUME Next, cancelled, pc # "announce"
               PROVE pc' # "announce" /\ (pc' = "wait" => pc = "wait")
    OBVIOUS
  <2>1. CASE Own
    <3>1. CASE Check \/ Load
      BY <3>1 DEF Check, Load, LoadFailsForGood, Return
    <3>2. CASE OpenFails \/ Open \/ Close BY <3>2 DEF OpenFails, Open, Close
    <3>3. CASE Judge \/ Announce BY <3>3 DEF Judge, Announce, Return
    <3>4. CASE Pause \/ PauseCancelled BY <3>4 DEF Pause, PauseCancelled, Return
    <3>5. QED BY <2>1, <3>1, <3>2, <3>3, <3>4 DEF Own
  <2>2. CASE RunQuietly \/ RunOnline BY <2>2 DEF RunQuietly, RunOnline
  <2>3. CASE Cancel \/ Reconfigure BY <2>3 DEF Cancel, Reconfigure
  <2>4. CASE Returned BY <2>4 DEF Returned, vars
  <2>5. QED BY <2>1, <2>2, <2>3, <2>4 DEF Next
<1>2. QED BY <1>1, PTL DEF Spec, CancelledNeverReconnects

\* Steps of its own that a cancelled loop may still take from a place, those of
\* the session it may be in not counted.
Ahead(place) ==
  CASE place = "load"                 -> 4
    [] place \in {"open", "announce"} -> 3
    [] place \in {"run", "wait"}      -> 2
    [] place \in {"judge", "check"}   -> 1
    [] OTHER                          -> 0

CancelledOnlyLeaves ==
  [][cancelled => Ahead(pc') <= Ahead(pc) /\ (Own => Ahead(pc') < Ahead(pc))]_vars

\* Wherever a cancellation meets the loop, Run returns after at most four steps
\* of its own and those of one session: it neither loads again after a session
\* nor waits a second time (Run's loop condition, waitForRetry).  With the end of every
\* cancelled session (CancelledCountsDown of DrcomSession) this is why it
\* returns (CancelReturns).
THEOREM CancelledLoopLeaves == Spec => CancelledOnlyLeaves
<1>1. ASSUME cancelled, Own PROVE Ahead(pc') < Ahead(pc)
  <2> USE <1>1 DEF Ahead
  <2>1. CASE Check BY <2>1 DEF Check, Return
  <2>2. CASE Load BY <2>2 DEF Load, LoadFailsForGood, Return
  <2>3. CASE OpenFails BY <2>3 DEF OpenFails
  <2>4. CASE Open BY <2>4 DEF Open
  <2>5. CASE Close BY <2>5 DEF Close
  <2>6. CASE Judge BY <2>6 DEF Judge, Return
  <2>7. CASE Announce BY <2>7 DEF Announce
  <2>8. CASE Pause BY <2>8 DEF Pause
  <2>9. CASE PauseCancelled BY <2>9 DEF PauseCancelled, Return
  <2>10. QED BY <2>1, <2>2, <2>3, <2>4, <2>5, <2>6, <2>7, <2>8, <2>9 DEF Own
<1>2. \A place : Ahead(place) \in 0..4 BY DEF Ahead
<1>3. ASSUME Next, ~ Own PROVE UNCHANGED pc
  BY <1>3 DEF Next, RunQuietly, RunOnline, Cancel, Reconfigure, Returned, vars
<1>4. ASSUME Next, cancelled
      PROVE Ahead(pc') <= Ahead(pc) /\ (Own => Ahead(pc') < Ahead(pc))
  <2>1. Ahead(pc) \in Int /\ Ahead(pc') \in Int BY <1>2
  <2>2. CASE Own BY <1>1, <1>4, <2>1, <2>2
  <2>3. CASE ~ Own BY <1>3, <1>4, <2>1, <2>3
  <2>4. QED BY <2>2, <2>3
<1>5. QED BY <1>4, PTL DEF Spec, CancelledOnlyLeaves

Ladder == <<5, 10, 20, 40, 60>>

LEMMA MinOfTwo ==
  ASSUME NEW a \in Int, NEW b \in Int
  PROVE Min({a, b}) = IF a <= b THEN a ELSE b
BY DEF Min

LEMMA NextRung ==
  ASSUME NEW n \in 0..4
  PROVE Min({n + 1, 4}) \in 0..4 /\ Ladder[Min({n + 1, 4}) + 1] = Min({Ladder[n + 1] * 2, Longest})
<1>1. Min({n + 1, 4}) = IF n + 1 <= 4 THEN n + 1 ELSE 4 BY MinOfTwo
<1>2. Ladder[n + 1] \in Int BY DEF Ladder
<1>3. Min({Ladder[n + 1] * 2, Longest}) =
        IF Ladder[n + 1] * 2 <= Longest THEN Ladder[n + 1] * 2 ELSE Longest
  BY <1>2, MinOfTwo DEF Longest
<1>4. CASE n = 0 BY <1>1, <1>3, <1>4 DEF Ladder, Longest
<1>5. CASE n = 1 BY <1>1, <1>3, <1>5 DEF Ladder, Longest
<1>6. CASE n = 2 BY <1>1, <1>3, <1>6 DEF Ladder, Longest
<1>7. CASE n = 3 BY <1>1, <1>3, <1>7 DEF Ladder, Longest
<1>8. CASE n = 4 BY <1>1, <1>3, <1>8 DEF Ladder, Longest
<1>9. QED BY <1>4, <1>5, <1>6, <1>7, <1>8

\* However the failures of load, bind and session follow each other, the pause
\* is the one the README lists for their number since the last Online
\* (Supervisor.Run's retryDelay).
THEOREM PauseAlwaysFollows == Spec => []PauseFollowsFailures
<1> DEFINE Counted == pauses \in 0..4 /\ delay = Ladder[pauses + 1]
<1>1. Init => Counted BY DEF Init, First, Ladder
<1>2. Counted /\ [Next]_vars => Counted'
  <2> SUFFICES ASSUME Counted, [Next]_vars PROVE Counted'
    OBVIOUS
  <2>1. CASE Pause
    <3>1. delay' = Min({delay * 2, Longest}) /\ pauses' = Min({pauses + 1, 4})
      BY <2>1 DEF Pause
    <3>2. QED BY <3>1, NextRung
  <2>2. CASE RunOnline BY <2>2 DEF RunOnline, First, Ladder
  <2>3. CASE UNCHANGED <<delay, pauses>> BY <2>3
  <2>4. CASE Own /\ ~ Pause
    BY <2>3, <2>4 DEF Own, Check, Load, OpenFails, Open, Close, Judge, Announce, PauseCancelled
  <2>5. CASE RunQuietly \/ Cancel \/ Reconfigure \/ UNCHANGED vars
    BY <2>3, <2>5 DEF RunQuietly, Cancel, Reconfigure, vars
  <2>6. QED BY <2>1, <2>2, <2>4, <2>5 DEF Next, Returned
<1>3. Counted => PauseFollowsFailures BY DEF PauseFollowsFailures, Ladder
<1>4. QED BY <1>1, <1>2, <1>3, PTL DEF Spec

(***************************************************************************)
(* The refinement.                                                         *)
(***************************************************************************)
\* A step of WorkerContract, or one the tray does not see.
Contract ==
  \/ Outcome = "none" /\ UNCHANGED cancelled
     /\ \/ state' \in Reported /\ UNCHANGED Outcome
        \/ UNCHANGED state /\ (Outcome' = "permanent" \/ (cancelled /\ Outcome' = "canceled"))
  \/ ~ cancelled /\ cancelled' = TRUE /\ UNCHANGED <<state, Outcome>>
  \/ UNCHANGED <<state, Outcome, cancelled>>

LEMMA OutcomeIsWorkers == Contract => [Worker!Next]_(Worker!vars)
BY DEF Contract, Worker!Next, Worker!Report, Worker!Return,
       Worker!Cancel, Worker!Running, Worker!vars

\* A session reports states of its own and never returns for the loop.
LEMMA SessionReports == Session!Step => state' \in Reported \/ UNCHANGED state
BY DEF Session!Step, Session!Quiet, Session!Ending, Session!Challenged, Session!LoggedIn,
       Session!LoginFails, Session!RoundFails, Session!PauseEnds, Session!Deferred,
       Session!LogoutEnds, Session!RoundDone, Reported

LEMMA StepIsContracts == [Next]_vars => Contract
<1> SUFFICES ASSUME [Next]_vars PROVE Contract OBVIOUS
<1> USE DEF Contract, Outcome
<1>1. CASE Own
  <2>1. CASE Check BY <2>1 DEF Check, Return, session
  <2>2. CASE Load BY <2>2 DEF Load, LoadFailsForGood, Return, session
  <2>3. CASE OpenFails BY <2>3 DEF OpenFails, session
  <2>4. CASE Open BY <2>4 DEF Open, Session!Start, Reported
  <2>5. CASE Close BY <2>5 DEF Close
  <2>6. CASE Judge BY <2>6 DEF Judge, Return, session
  <2>7. CASE Announce BY <2>7 DEF Announce, Reported
  <2>8. CASE Pause BY <2>8 DEF Pause, session
  <2>9. CASE PauseCancelled BY <2>9 DEF PauseCancelled, Return, session
  <2>10. QED BY <1>1, <2>1, <2>2, <2>3, <2>4, <2>5, <2>6, <2>7, <2>8, <2>9 DEF Own
<1>2. CASE RunQuietly \/ RunOnline
  <2>1. pc = "run" /\ pc' = "run" /\ UNCHANGED cancelled /\ Session!Step
    BY <1>2 DEF RunQuietly, RunOnline, Session!Step
  <2>2. QED BY <2>1, SessionReports
<1>3. CASE Cancel BY <1>3 DEF Cancel, session
<1>4. CASE Reconfigure BY <1>4 DEF Reconfigure, session
<1>5. CASE UNCHANGED vars BY <1>5 DEF vars, session
<1>6. QED BY <1>1, <1>2, <1>3, <1>4, <1>5 DEF Next, Returned

\* Whatever the adapters, the file and the sessions do, the tray sees a worker
\* that reports, and that returns for a final error or when it was cancelled:
\* the safety part of ImplementsWorker (Supervisor.Run, App.startClient).
THEOREM LoopIsAWorker == Spec => Worker!Spec
<1>1. Init => Worker!Init BY DEF Init, Outcome, Worker!Init
<1>2. [Next]_vars => [Worker!Next]_(Worker!vars) BY StepIsContracts, OutcomeIsWorkers
<1>3. QED BY <1>1, <1>2, PTL DEF Spec, Worker!Spec
=============================================================================
