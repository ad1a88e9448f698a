--------------------------- MODULE TrayAppProofs ----------------------------
(***************************************************************************)
(* The tray's invariants, for every set of states the worker may report.   *)
(* They lean on one another: that Login launches no second worker rests on *)
(* cancel telling the truth, which rests on a worker's end being handled   *)
(* once; that a resume launches only what the user wants rests on every    *)
(* exit having taken the wish back.  TypeOK and OneWorker are taken apart: *)
(* "live" alone is a number.                                               *)
(***************************************************************************)
EXTENDS TrayApp, TLAPS

Flags ==
  /\ cancel \in BOOLEAN /\ desired \in BOOLEAN /\ suspended \in BOOLEAN
  /\ exiting \in BOOLEAN /\ ctx \in BOOLEAN /\ wanted \in BOOLEAN

Texts == status \in Statuses /\ tip \in Statuses \cup {"absent"}

Values ==
  /\ done \in {"nil", "open", "closed"}
  /\ workerErr \in {"none", "permanent", "canceled"}
  /\ worker \in {"none", "running", "reporting", "returned"}
  /\ posted \subseteq {"status", "workerDone", "close", "taskbar"}
  /\ menu \in {"closed", "idle", "busy"}
  /\ window \in {"open", "ending", "quit", "destroyed", "exited"}

Busy == worker \in {"running", "reporting"}

\* live counts the worker, which Busy tells of without a number.
Counted == live = IF Busy THEN 1 ELSE 0

\* cancel tells of a worker until its end is handled, and that end is
\* announced after the worker's last step.
OneEnd ==
  /\ cancel <=> worker # "none" \/ "workerDone" \in posted
  /\ worker # "none" => "workerDone" \notin posted

\* The application wants what the user wants, until its window is destroyed
\* with nothing left that could act on it.
WishIsUsers ==
  /\ exiting => ~ desired
  /\ window \in {"open", "ending", "quit"} /\ desired => wanted

Asleep == suspended /\ Busy => ctx

Inv ==
  /\ Texts /\ Flags /\ Values /\ OneEnd /\ WishIsUsers
  /\ IdleSaysSo /\ TipCatchesUp /\ WantedIsServed /\ Asleep

LEMMA InvInit == Init => Inv
<1> SUFFICES ASSUME Init PROVE Inv OBVIOUS
<1> USE DEF Init
<1>1. Texts BY DEF Texts, Statuses, Failure
<1>2. Flags BY DEF Flags
<1>3. Values BY DEF Values
<1>4. OneEnd BY DEF OneEnd
<1>5. WishIsUsers BY DEF WishIsUsers
<1>6. IdleSaysSo BY DEF IdleSaysSo
<1>7. TipCatchesUp BY DEF TipCatchesUp
<1>8. WantedIsServed BY DEF WantedIsServed
<1>9. Asleep BY DEF Asleep, Busy
<1>10. QED BY <1>1, <1>2, <1>3, <1>4, <1>5, <1>6, <1>7, <1>8, <1>9 DEF Inv

-----------------------------------------------------------------------------
(* The steps.                                                               *)

USE DEF app, job, screen, Idle, Shown, Listening, Got, Launch

LEMMA ReportKeeps == ASSUME Inv, Report PROVE Inv'
<1> USE DEF Inv, Report, Supervisor!Report
<1>1. Flags' /\ WishIsUsers' /\ WantedIsServed'
  BY DEF Flags, WishIsUsers, WantedIsServed
<1>2. Texts' BY DEF Texts, Statuses, Failure
<1>3. Values' BY DEF Values
<1>4. OneEnd' BY DEF OneEnd, Values
<1>5. IdleSaysSo' BY DEF IdleSaysSo, OneEnd, Failure
<1>6. TipCatchesUp' BY DEF TipCatchesUp
<1>7. Asleep' BY DEF Asleep, Busy, OneEnd
<1>8. QED BY <1>1, <1>2, <1>3, <1>4, <1>5, <1>6, <1>7

LEMMA PostStatusKeeps == ASSUME Inv, PostStatus PROVE Inv'
<1> USE DEF Inv, PostStatus
<1>1. Texts' /\ Flags' /\ WishIsUsers' /\ IdleSaysSo' /\ WantedIsServed'
  BY DEF Texts, Flags, WishIsUsers, IdleSaysSo, WantedIsServed
<1>2. Values' BY DEF Values
<1>3. OneEnd' BY DEF OneEnd, Values
<1>4. TipCatchesUp' BY DEF TipCatchesUp
<1>5. Asleep' BY DEF Asleep, Busy, OneEnd
<1>6. QED BY <1>1, <1>2, <1>3, <1>4, <1>5

LEMMA ReturnKeeps == ASSUME Inv, Return PROVE Inv'
<1> USE DEF Inv, Return, Supervisor!Return
<1>1. Texts' /\ Flags' /\ WishIsUsers' /\ IdleSaysSo' /\ WantedIsServed'
  BY DEF Texts, Flags, WishIsUsers, IdleSaysSo, WantedIsServed
<1>2. Values' BY DEF Values
<1>3. OneEnd' BY DEF OneEnd, Values
<1>4. TipCatchesUp' BY DEF TipCatchesUp
<1>5. Asleep' BY DEF Asleep, Busy, OneEnd
<1>6. QED BY <1>1, <1>2, <1>3, <1>4, <1>5

LEMMA PostDoneKeeps == ASSUME Inv, PostDone PROVE Inv'
<1> USE DEF Inv, PostDone
<1>1. Texts' /\ Flags' /\ WishIsUsers' /\ IdleSaysSo' /\ WantedIsServed'
  BY DEF Texts, Flags, WishIsUsers, IdleSaysSo, WantedIsServed
<1>2. Values' BY DEF Values
<1>3. OneEnd' BY DEF OneEnd, Values
<1>4. TipCatchesUp' BY DEF TipCatchesUp
<1>5. Asleep' BY DEF Asleep, Busy, OneEnd
<1>6. QED BY <1>1, <1>2, <1>3, <1>4, <1>5

LEMMA OnStatusKeeps == ASSUME Inv, OnStatus PROVE Inv'
<1> USE DEF Inv, OnStatus
<1>1. Flags' /\ WishIsUsers' /\ IdleSaysSo' /\ WantedIsServed' /\ Asleep'
  BY DEF Flags, WishIsUsers, IdleSaysSo, WantedIsServed, Asleep, Busy
<1>2. Texts' BY DEF Texts, Statuses, Failure
<1>3. Values' BY DEF Values
<1>4. OneEnd' BY DEF OneEnd, Values
<1>5. TipCatchesUp' BY DEF TipCatchesUp
<1>6. QED BY <1>1, <1>2, <1>3, <1>4, <1>5

LEMMA OnWorkerDoneKeeps == ASSUME Inv, OnWorkerDone PROVE Inv'
<1> USE DEF Inv, OnWorkerDone, Outcome
<1>1. Texts' BY DEF Texts, Statuses, Failure
<1>2. Flags' BY DEF Flags
<1>3. Values' BY DEF Values
<1>4. OneEnd' BY DEF OneEnd, Values
<1>5. WishIsUsers' BY DEF WishIsUsers, WantedIsServed
<1>6. IdleSaysSo' BY DEF IdleSaysSo, OneEnd, Failure
<1>7. TipCatchesUp' BY DEF TipCatchesUp
<1>8. WantedIsServed' BY DEF WantedIsServed, OneEnd
<1>9. Asleep' BY DEF Asleep, Busy, OneEnd
<1>10. QED BY <1>1, <1>2, <1>3, <1>4, <1>5, <1>6, <1>7, <1>8, <1>9

LEMMA OnCloseKeeps == ASSUME Inv, OnClose PROVE Inv'
<1> USE DEF Inv, OnClose, RequestExit, CancelWorker
<1>1. Texts' BY DEF Texts, Statuses, Failure
<1>2. Flags' BY DEF Flags
<1>3. Values' BY DEF Values
<1>4. OneEnd' BY DEF OneEnd, Values
<1>5. WishIsUsers' BY DEF WishIsUsers, WantedIsServed
<1>6. IdleSaysSo' BY DEF IdleSaysSo, OneEnd, Failure
<1>7. TipCatchesUp' BY DEF TipCatchesUp
<1>8. WantedIsServed'
  <2>1. CASE cancel
    <3>1. exiting' = exiting \/ exiting' = TRUE BY <2>1
    <3>2. UNCHANGED desired \/ desired' = FALSE BY <2>1
    <3>3. UNCHANGED <<suspended, cancel>> BY <2>1
    <3>4. QED BY <2>1, <3>1, <3>2, <3>3 DEF WantedIsServed
  <2>2. CASE ~ cancel
    <3>1. UNCHANGED <<desired, suspended, exiting, cancel>> BY <2>2
    <3>2. QED BY <3>1 DEF WantedIsServed
  <2>3. QED BY <2>1, <2>2
<1>9. Asleep' BY DEF Asleep, Busy, OneEnd
<1>10. QED BY <1>1, <1>2, <1>3, <1>4, <1>5, <1>6, <1>7, <1>8, <1>9

LEMMA OnTaskbarKeeps == ASSUME Inv, OnTaskbar PROVE Inv'
<1> USE DEF Inv, OnTaskbar
<1>1. Flags' /\ WishIsUsers' /\ IdleSaysSo' /\ WantedIsServed' /\ Asleep'
  BY DEF Flags, WishIsUsers, IdleSaysSo, WantedIsServed, Asleep, Busy
<1>2. Texts' BY DEF Texts, Statuses, Failure
<1>3. Values' BY DEF Values
<1>4. OneEnd' BY DEF OneEnd, Values
<1>5. TipCatchesUp' BY DEF TipCatchesUp
<1>6. QED BY <1>1, <1>2, <1>3, <1>4, <1>5

LEMMA OnSuspendKeeps == ASSUME Inv, OnSuspend PROVE Inv'
<1> USE DEF Inv, OnSuspend
<1>1. Texts' /\ Values' /\ OneEnd' /\ WishIsUsers' /\ IdleSaysSo' /\ TipCatchesUp'
  BY DEF Texts, Values, OneEnd, WishIsUsers, IdleSaysSo, TipCatchesUp
<1>2. Flags' BY DEF Flags
<1>3. WantedIsServed' BY DEF WantedIsServed, OneEnd
<1>4. Asleep' BY DEF Asleep, Busy, OneEnd
<1>5. QED BY <1>1, <1>2, <1>3, <1>4

LEMMA OnResumeKeeps == ASSUME Inv, OnResume PROVE Inv'
<1> USE DEF Inv, OnResume
<1>1. WishIsUsers'
  BY DEF WishIsUsers
<1>2. Texts' BY DEF Texts, Statuses, Failure
<1>3. Flags' BY DEF Flags
<1>4. Values' BY DEF Values
<1>5. OneEnd' BY DEF OneEnd, Values
<1>6. IdleSaysSo' BY DEF IdleSaysSo, OneEnd, Failure
<1>7. TipCatchesUp' BY DEF TipCatchesUp
<1>8. WantedIsServed' BY DEF WantedIsServed, OneEnd
<1>9. Asleep' BY DEF Asleep, Busy, OneEnd
<1>10. QED BY <1>1, <1>2, <1>3, <1>4, <1>5, <1>6, <1>7, <1>8, <1>9

LEMMA OnEndSessionKeeps == ASSUME Inv, OnEndSession PROVE Inv'
<1> USE DEF Inv, OnEndSession, StopClient, CancelWorker
<1>1. Texts' BY DEF Texts, Statuses, Failure
<1>2. Flags' BY DEF Flags
<1>3. Values' BY DEF Values
<1>4. OneEnd' BY DEF OneEnd, Values
<1>5. WishIsUsers' BY DEF WishIsUsers, WantedIsServed
<1>6. IdleSaysSo' BY DEF IdleSaysSo, OneEnd, Failure
<1>7. TipCatchesUp' BY DEF TipCatchesUp
<1>8. WantedIsServed' BY DEF WantedIsServed, OneEnd
<1>9. Asleep' BY DEF Asleep, Busy, OneEnd
<1>10. QED BY <1>1, <1>2, <1>3, <1>4, <1>5, <1>6, <1>7, <1>8, <1>9

LEMMA EndSessionGoesOnKeeps == ASSUME Inv, EndSessionGoesOn PROVE Inv'
<1> USE DEF Inv, EndSessionGoesOn
<1>1. Flags' /\ OneEnd' /\ IdleSaysSo' /\ WantedIsServed' /\ Asleep'
  BY DEF Flags, OneEnd, IdleSaysSo, WantedIsServed, Asleep, Busy
<1>2. Texts' BY DEF Texts, Statuses, Failure
<1>3. Values' BY DEF Values
<1>4. WishIsUsers' BY DEF WishIsUsers, WantedIsServed
<1>5. TipCatchesUp' BY DEF TipCatchesUp
<1>6. QED BY <1>1, <1>2, <1>3, <1>4, <1>5

LEMMA OpenMenuKeeps == ASSUME Inv, OpenMenu PROVE Inv'
<1> USE DEF Inv, OpenMenu
<1>1. Texts' /\ Flags' /\ OneEnd' /\ WishIsUsers' /\ IdleSaysSo' /\ TipCatchesUp'
    /\ WantedIsServed' /\ Asleep'
  BY DEF Texts, Flags, OneEnd, WishIsUsers, IdleSaysSo, TipCatchesUp, WantedIsServed, Asleep, Busy
<1>2. Values' BY DEF Values
<1>3. QED BY <1>1, <1>2

\* Login is one of three: refused, already served, or a launch.
LEMMA LoginKeeps == ASSUME Inv, Login PROVE Inv'
<1> USE DEF Inv
<1>1. \/ (exiting \/ suspended) /\ UNCHANGED <<status, app, job, tip, wanted>>
      \/ /\ ~ (exiting \/ suspended) /\ cancel /\ desired' = TRUE /\ wanted' = TRUE
         /\ UNCHANGED <<status, suspended, exiting, job, tip>>
      \/ /\ ~ (exiting \/ suspended) /\ ~ cancel /\ desired' = TRUE /\ wanted' = TRUE
         /\ Launch /\ UNCHANGED <<suspended, exiting>>
  BY DEF Login, StartClient, Flags
<1>2. menu' = "closed" /\ UNCHANGED <<posted, window>> BY DEF Login
<1>3. Texts' BY <1>1 DEF Texts, Statuses, Failure
<1>4. Flags' BY <1>1 DEF Flags
<1>5. Values' BY <1>1, <1>2 DEF Values
<1>6. OneEnd' BY <1>1, <1>2 DEF OneEnd, Values
<1>7. WishIsUsers' BY <1>1, <1>2 DEF WishIsUsers, Flags
<1>8. IdleSaysSo' BY <1>1 DEF IdleSaysSo, OneEnd, Failure
<1>9. TipCatchesUp' BY <1>1, <1>2 DEF TipCatchesUp
<1>10. WantedIsServed' BY <1>1 DEF WantedIsServed
<1>11. Asleep' BY <1>1 DEF Asleep, Busy, OneEnd
<1>12. QED BY <1>3, <1>4, <1>5, <1>6, <1>7, <1>8, <1>9, <1>10, <1>11

LEMMA LogoutKeeps == ASSUME Inv, Logout PROVE Inv'
<1> USE DEF Inv, Logout, StopClient, CancelWorker
<1>1. Texts' BY DEF Texts, Statuses, Failure
<1>2. Flags' BY DEF Flags
<1>3. Values' BY DEF Values
<1>4. OneEnd' BY DEF OneEnd, Values
<1>5. WishIsUsers' BY DEF WishIsUsers, WantedIsServed
<1>6. IdleSaysSo' BY DEF IdleSaysSo, OneEnd, Failure
<1>7. TipCatchesUp' BY DEF TipCatchesUp
<1>8. WantedIsServed' BY DEF WantedIsServed, OneEnd
<1>9. Asleep' BY DEF Asleep, Busy, OneEnd
<1>10. QED BY <1>1, <1>2, <1>3, <1>4, <1>5, <1>6, <1>7, <1>8, <1>9

LEMMA ExitKeeps == ASSUME Inv, Exit PROVE Inv'
<1> USE DEF Inv, Exit, RequestExit, CancelWorker
<1>1. Texts' BY DEF Texts, Statuses, Failure
<1>2. Flags' BY DEF Flags
<1>3. Values' BY DEF Values
<1>4. OneEnd' BY DEF OneEnd, Values
<1>5. WishIsUsers' BY DEF WishIsUsers, WantedIsServed
<1>6. IdleSaysSo' BY DEF IdleSaysSo, OneEnd, Failure
<1>7. TipCatchesUp' BY DEF TipCatchesUp
<1>8. WantedIsServed' BY DEF WantedIsServed, OneEnd
<1>9. Asleep' BY DEF Asleep, Busy, OneEnd
<1>10. QED BY <1>1, <1>2, <1>3, <1>4, <1>5, <1>6, <1>7, <1>8, <1>9

LEMMA DismissKeeps == ASSUME Inv, Dismiss PROVE Inv'
<1> USE DEF Inv, Dismiss
<1>1. Texts' /\ Flags' /\ OneEnd' /\ WishIsUsers' /\ IdleSaysSo' /\ TipCatchesUp'
    /\ WantedIsServed' /\ Asleep'
  BY DEF Texts, Flags, OneEnd, WishIsUsers, IdleSaysSo, TipCatchesUp, WantedIsServed, Asleep, Busy
<1>2. Values' BY DEF Values
<1>3. QED BY <1>1, <1>2

LEMMA LeaveKeeps == ASSUME Inv, Leave PROVE Inv'
<1> USE DEF Inv, Leave
<1>1. Texts' /\ Flags' /\ OneEnd' /\ IdleSaysSo' /\ WantedIsServed' /\ Asleep'
  BY
    DEF Texts, Flags, OneEnd, IdleSaysSo, WantedIsServed, Asleep, Busy
<1>2. Values' BY DEF Values
<1>3. WishIsUsers' BY DEF WishIsUsers, WantedIsServed
<1>4. TipCatchesUp' BY DEF TipCatchesUp
<1>5. QED BY <1>1, <1>2, <1>3, <1>4

LEMMA ExplorerRestartsKeeps == ASSUME Inv, ExplorerRestarts PROVE Inv'
<1> USE DEF Inv, ExplorerRestarts
<1>1. Flags' /\ WishIsUsers' /\ IdleSaysSo' /\ WantedIsServed' /\ Asleep'
  BY DEF Flags, WishIsUsers, IdleSaysSo, WantedIsServed, Asleep, Busy
<1>2. Texts' BY DEF Texts, Statuses, Failure
<1>3. Values' BY DEF Values
<1>4. OneEnd' BY DEF OneEnd, Values
<1>5. TipCatchesUp' BY DEF TipCatchesUp
<1>6. QED BY <1>1, <1>2, <1>3, <1>4, <1>5

LEMMA CloseRequestedKeeps == ASSUME Inv, CloseRequested PROVE Inv'
<1> USE DEF Inv, CloseRequested
<1>1. Texts' /\ Flags' /\ WishIsUsers' /\ IdleSaysSo' /\ WantedIsServed' /\
    Asleep'
  BY DEF Texts, Flags, WishIsUsers, IdleSaysSo, WantedIsServed, Asleep, Busy
<1>2. Values' BY DEF Values
<1>3. OneEnd' BY DEF OneEnd, Values
<1>4. TipCatchesUp' BY DEF TipCatchesUp
<1>5. QED BY <1>1, <1>2, <1>3, <1>4

LEMMA InvNext == ASSUME Inv, [Next]_vars PROVE Inv'
<1>1. CASE UNCHANGED vars
  <2> USE <1>1 DEF Inv, vars
  <2>1. Texts' /\ Flags' /\ Values' BY DEF Texts, Flags, Values
  <2>2. OneEnd' /\ WishIsUsers' BY DEF OneEnd, WishIsUsers
  <2>3. IdleSaysSo' /\ TipCatchesUp' BY DEF IdleSaysSo, TipCatchesUp
  <2>4. WantedIsServed' /\ Asleep' BY DEF WantedIsServed, Asleep, Busy
  <2>5. QED BY <2>1, <2>2, <2>3, <2>4
<1>2. CASE Worker
  BY <1>2, ReportKeeps, PostStatusKeeps, ReturnKeeps, PostDoneKeeps DEF Worker
<1>3. CASE Messages
  BY <1>3, OnStatusKeeps, OnWorkerDoneKeeps, OnCloseKeeps, OnTaskbarKeeps DEF Messages
<1>4. CASE User
  BY <1>4, OpenMenuKeeps, LoginKeeps, LogoutKeeps, ExitKeeps, DismissKeeps DEF User
<1>5. CASE Windows
  BY <1>5, OnSuspendKeeps, OnResumeKeeps, OnEndSessionKeeps, ExplorerRestartsKeeps,
     CloseRequestedKeeps DEF Windows
<1>6. QED
  BY <1>1, <1>2, <1>3, <1>4, <1>5, EndSessionGoesOnKeeps, LeaveKeeps DEF Next, Exited

\* A worker appears only with a launch, which the user wants, and disappears
\* only when it returns.
LEMMA StepCounts ==
  ASSUME Inv, [Next]_vars
  PROVE \/ UNCHANGED live /\ (Busy' <=> Busy)
        \/ live' = live + 1 /\ ~ Busy /\ Busy' /\ wanted'
        \/ live' = live - 1 /\ Busy /\ ~ Busy'
<1> USE DEF Inv, Busy, OneEnd
<1>1. CASE UNCHANGED <<live, worker>> BY <1>1
<1>2. CASE Worker
  BY <1>2 DEF Worker, Report, PostStatus, Return, PostDone, Values
<1>3. CASE OnWorkerDone BY <1>3, OnWorkerDoneKeeps DEF OnWorkerDone, WishIsUsers
<1>4. CASE Login BY <1>4 DEF Login, StartClient
<1>5. CASE OnResume BY <1>5 DEF OnResume, WishIsUsers
<1>6. Next => \/ UNCHANGED <<live, worker>>
              \/ Worker \/ OnWorkerDone \/ Login \/ OnResume
  <2>1. Messages => UNCHANGED <<live, worker>> \/ OnWorkerDone
    BY DEF Messages, OnStatus, OnClose, OnTaskbar, RequestExit, CancelWorker
  <2>2. User => UNCHANGED <<live, worker>> \/ Login
    BY DEF User, OpenMenu, Logout, Exit, Dismiss, StopClient, RequestExit, CancelWorker
  <2>3. Windows => UNCHANGED <<live, worker>> \/ OnResume
    BY DEF Windows, OnSuspend, OnEndSession, ExplorerRestarts, CloseRequested,
           StopClient, CancelWorker
  <2>4. EndSessionGoesOn \/ Leave \/ Exited => UNCHANGED <<live, worker>>
    BY DEF EndSessionGoesOn, Leave, Exited, vars
  <2>5. QED BY <2>1, <2>2, <2>3, <2>4 DEF Next
<1>7. QED BY <1>1, <1>2, <1>3, <1>4, <1>5, <1>6 DEF vars

LEMMA CountedNext == ASSUME Inv, Counted, [Next]_vars PROVE Counted'
BY StepCounts DEF Counted

LEMMA Invariance == Spec => [](Inv /\ Counted)
<1>1. Init => Inv /\ Counted BY InvInit DEF Init, Counted, Busy
<1>2. Inv /\ Counted /\ [Next]_vars => (Inv /\ Counted)' BY InvNext, CountedNext
<1>3. QED BY <1>1, <1>2, PTL DEF Spec

-----------------------------------------------------------------------------
\* Every field keeps its type, and there is one worker at most, whatever the
\* order of messages, clicks, power events and the worker's own steps.
THEOREM TrayTypes == Spec => []TypeOK
<1>1. Inv /\ Counted => TypeOK
  <2> SUFFICES ASSUME Inv, Counted PROVE TypeOK OBVIOUS
  <2>1. live \in 0..1 BY DEF Counted
  <2>2. QED BY <2>1 DEF Inv, TypeOK, Texts, Flags, Values
<1>2. QED BY <1>1, Invariance, PTL

\* a.cancel tells the truth about the worker, and startClient never starts a
\* second one on the fixed local port.
THEOREM NeverTwoWorkers == Spec => []OneWorker
<1>1. Inv /\ Counted => OneWorker BY DEF Inv, OneEnd, Counted, Busy, OneWorker
<1>2. QED BY <1>1, Invariance, PTL

\* Without a worker the status is a final one, whatever report or click came
\* late (setStatus, runnerDone).
THEOREM IdleAlwaysSaysSo == Spec => []IdleSaysSo
<1>1. Inv => IdleSaysSo BY DEF Inv
<1>2. QED BY <1>1, Invariance, PTL

\* A tooltip that differs from the status will be corrected (modifyTip).
THEOREM TipAlwaysCatchesUp == Spec => []TipCatchesUp
<1>1. Inv => TipCatchesUp BY DEF Inv
<1>2. QED BY <1>1, Invariance, PTL

\* A wanted connection has a worker, or a suspend or an exit under way
\* (startClient, powerEvent, runnerDone).
THEOREM WantedAlwaysServed == Spec => []WantedIsServed
<1>1. Inv => WantedIsServed BY DEF Inv
<1>2. QED BY <1>1, Invariance, PTL

\* No worker goes on in a suspended machine without having been told to stop.
THEOREM NeverWorkAsleep == Spec => []NoWorkAsleep
<1>1. Inv /\ Counted => NoWorkAsleep
  <2> SUFFICES ASSUME Inv, Counted, suspended, live > 0 PROVE ctx BY DEF NoWorkAsleep
  <2>1. Busy BY DEF Counted
  <2>2. QED BY <2>1 DEF Inv, Asleep
<1>2. QED BY <1>1, Invariance, PTL

\* After a Logout or an exit only the user's next Login launches a worker.
THEOREM LogoutAlwaysSticks == Spec => LogoutSticks
<1>1. Inv /\ Counted /\ [Next]_vars => [live' > live => wanted']_vars
  <2> SUFFICES ASSUME Inv, Counted, [Next]_vars, live' > live PROVE wanted' OBVIOUS
  <2>1. live \in 0..1 BY DEF Counted
  <2>2. QED BY <2>1, StepCounts
<1>2. QED BY <1>1, Invariance, PTL DEF Spec, LogoutSticks

\* The window is not destroyed under a worker (wmClose, requestExit).
THEOREM QuitAlwaysWaits == Spec => QuitWaits
<1>1. Inv /\ Counted /\ [Next]_vars =>
        [window = "open" /\ window' \in {"quit", "destroyed"} => live = 0]_vars
  <2> SUFFICES ASSUME Inv, Counted, Next, window = "open", window' \in {"quit", "destroyed"}
               PROVE live = 0
    OBVIOUS
  <2>1. CASE OnClose
    <3>1. ~ cancel BY <2>1 DEF OnClose
    <3>2. worker = "none" BY <3>1 DEF Inv, OneEnd
    <3>3. QED BY <3>2 DEF Counted, Busy
  <2>2. ~ Worker BY DEF Worker, Report, PostStatus, Return, PostDone
  <2>3. Messages => OnClose BY DEF Messages, OnStatus, OnWorkerDone, OnTaskbar
  <2>4. ~ User BY DEF User, OpenMenu, Login, Logout, Exit, Dismiss
  <2>5. ~ Windows
    BY DEF Windows, OnSuspend, OnResume, OnEndSession, ExplorerRestarts, CloseRequested
  <2>6. ~ (EndSessionGoesOn \/ Leave \/ Exited)
    BY DEF EndSessionGoesOn, Leave, Exited
  <2>7. QED BY <2>1, <2>2, <2>3, <2>4, <2>5, <2>6 DEF Next
<1>2. QED BY <1>1, Invariance, PTL DEF Spec, QuitWaits

-----------------------------------------------------------------------------
(* An exit is under way until it is done.                                   *)

\* Once the application exits or the Windows session ends, the worker has been
\* told to stop; and an open window without a worker has its close queued.
Told == exiting \/ window = "ending" => (Busy => ctx)
Queued == exiting /\ window = "open" /\ ~ cancel => "close" \in posted

ExitUnderway == Told /\ Queued

LEMMA MessagesKeepExit == ASSUME Inv, ExitUnderway, Messages PROVE ExitUnderway'
<1> USE DEF ExitUnderway
<1>1. CASE OnStatus
  <2>1. Told' BY <1>1 DEF OnStatus, Told, Busy
  <2>2. Queued' BY <1>1 DEF OnStatus, Queued
  <2>3. QED BY <2>1, <2>2
<1>2. CASE OnWorkerDone
  <2>1. Told' BY <1>2 DEF OnWorkerDone, Told, Busy
  <2>2. Queued' BY <1>2 DEF OnWorkerDone, Queued
  <2>3. QED BY <2>1, <2>2
<1>3. CASE OnClose
  <2>1. CASE cancel
    <3>1. RequestExit(posted \ {"close"}) /\ UNCHANGED window BY <1>3, <2>1 DEF OnClose
    <3>2. Told' BY <2>1, <3>1 DEF RequestExit, CancelWorker, Told, Busy
    <3>3. cancel' BY <2>1, <3>1 DEF RequestExit, CancelWorker
    <3>4. QED BY <3>2, <3>3 DEF Queued
  <2>2. CASE ~ cancel
    <3>1. window' = "destroyed" /\ UNCHANGED worker BY <1>3, <2>2 DEF OnClose
    <3>2. ~ Busy' BY <2>2, <3>1 DEF Inv, OneEnd, Busy
    <3>3. QED BY <3>1, <3>2 DEF Told, Queued
  <2>3. QED BY <2>1, <2>2
<1>4. CASE OnTaskbar
  <2>1. Told' BY <1>4 DEF OnTaskbar, Told, Busy
  <2>2. Queued' BY <1>4 DEF OnTaskbar, Queued
  <2>3. QED BY <2>1, <2>2
<1>5. QED BY <1>1, <1>2, <1>3, <1>4 DEF Messages

LEMMA UserKeepsExit == ASSUME Inv, ExitUnderway, User PROVE ExitUnderway'
<1> USE DEF ExitUnderway
<1>1. CASE OpenMenu \/ Dismiss
  <2>1. Told' BY <1>1 DEF OpenMenu, Dismiss, Told, Busy
  <2>2. Queued' BY <1>1 DEF OpenMenu, Dismiss, Queued
  <2>3. QED BY <2>1, <2>2
<1>2. CASE Login
  <2>1. Told' BY <1>2 DEF Login, StartClient, Told, Busy
  <2>2. Queued' BY <1>2 DEF Login, StartClient, Queued
  <2>3. QED BY <2>1, <2>2
<1>3. CASE Logout
  <2>1. Told' BY <1>3 DEF Logout, StopClient, CancelWorker, Told, Busy
  <2>2. Queued' BY <1>3 DEF Logout, StopClient, CancelWorker, Queued
  <2>3. QED BY <2>1, <2>2
<1>4. CASE Exit
  <2>1. worker # "none" => cancel BY DEF Inv, OneEnd
  <2>2. Told' BY <1>4, <2>1 DEF Exit, RequestExit, CancelWorker, Told, Busy
  <2>3. Queued' BY <1>4 DEF Exit, RequestExit, CancelWorker, Queued
  <2>4. QED BY <2>2, <2>3
<1>5. QED BY <1>1, <1>2, <1>3, <1>4 DEF User

LEMMA WindowsKeepExit == ASSUME Inv, ExitUnderway, Windows PROVE ExitUnderway'
<1> USE DEF ExitUnderway
<1>1. worker # "none" => cancel BY DEF Inv, OneEnd
<1>2. CASE OnSuspend
  <2>1. Told' BY <1>2 DEF OnSuspend, Told, Busy
  <2>2. Queued' BY <1>2 DEF OnSuspend, Queued
  <2>3. QED BY <2>1, <2>2
<1>3. CASE OnResume
  <2>1. Told' BY <1>3 DEF OnResume, Told, Busy
  <2>2. Queued' BY <1>3 DEF OnResume, Queued
  <2>3. QED BY <2>1, <2>2
<1>4. CASE OnEndSession
  <2>1. Told' BY <1>1, <1>4 DEF OnEndSession, StopClient, CancelWorker, Told, Busy
  <2>2. window' = "ending" BY <1>4 DEF OnEndSession
  <2>3. QED BY <2>1, <2>2 DEF Queued
<1>5. CASE ExplorerRestarts \/ CloseRequested
  <2>1. Told' BY <1>5 DEF ExplorerRestarts, CloseRequested, Told, Busy
  <2>2. Queued' BY <1>5 DEF ExplorerRestarts, CloseRequested, Queued
  <2>3. QED BY <2>1, <2>2
<1>6. QED BY <1>2, <1>3, <1>4, <1>5 DEF Windows

LEMMA WorkerKeepsExit == ASSUME ExitUnderway, Worker PROVE ExitUnderway'
<1>1. Told' BY DEF ExitUnderway, Worker, Report, PostStatus, Return, PostDone, Told, Busy
<1>2. UNCHANGED <<exiting, window, cancel>> /\ posted \subseteq posted'
  BY DEF Worker, Report, PostStatus, Return, PostDone
<1>3. QED BY <1>1, <1>2 DEF ExitUnderway, Queued

LEMMA ExitKept == ASSUME Inv, ExitUnderway, [Next]_vars PROVE ExitUnderway'
<1>1. CASE EndSessionGoesOn \/ Leave
  BY <1>1 DEF EndSessionGoesOn, Leave, ExitUnderway, Told, Queued, Busy
<1>2. CASE UNCHANGED vars
  BY <1>2 DEF vars, ExitUnderway, Told, Queued, Busy
<1>3. QED
  BY <1>1, <1>2, MessagesKeepExit, UserKeepsExit, WindowsKeepExit, WorkerKeepsExit
     DEF Next, Exited

\* No handler lets an exit fall asleep: not a resume, not a late Login from a
\* menu that was open, not a second close.  What ExitEnds still needs is that
\* the worker returns and the thread handles its messages (requestExit, wmClose).
THEOREM ExitStaysUnderway == Spec => []ExitUnderway
<1>1. Init => ExitUnderway BY DEF Init, ExitUnderway, Told, Queued
<1>2. QED BY <1>1, ExitKept, Invariance, PTL DEF Spec
=============================================================================
