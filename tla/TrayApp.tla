------------------------------ MODULE TrayApp ------------------------------
(***************************************************************************)
(* The tray application: the window thread and its messages, the worker    *)
(* goroutine that runs the Supervisor, and the fields of App they share    *)
(* under its mutex.  Each handler of the window thread is one action: no   *)
(* other message is handled meanwhile and, apart from status, the worker   *)
(* writes nothing that a handler reads twice.  Two calls of the thread do  *)
(* let messages or the worker in and are split: an open menu               *)
(* (TrackPopupMenu runs a message loop) and the wait of WM_ENDSESSION.     *)
(*                                                                         *)
(* Posted messages are a set: a second wmStatus in the queue shows nothing *)
(* the first does not, of each other kind there is at most one to handle,  *)
(* and no handler relies on their order.                                   *)
(***************************************************************************)
EXTENDS Integers

CONSTANT Reports  \* the states a running Supervisor reports

VARIABLES
  status, cancel, done, workerErr, desired, suspended, exiting,  \* fields of App:
    \* cancel: a.cancel # nil; done: a.done is "nil", "open" or "closed"
  ctx,      \* the worker's context is done
  worker,   \* "none", "running", "reporting" (status set, wmStatus not posted
            \* yet) or "returned" (done closed, wmWorkerDone not posted yet)
  live,     \* worker goroutines that have not returned
  posted,   \* messages in the thread's queue
  menu,     \* "closed", or the menu on screen: "idle" offers Login, "busy" Logout
  window,   \* "open", "ending" (in the wait of WM_ENDSESSION), then "quit" or
            \* "destroyed" (WM_QUIT posted, the window still there or gone), "exited"
  tip,      \* the icon's tooltip in the taskbar, or "absent"
  wanted    \* history: the user's last word was Login

app == <<desired, suspended, exiting>>
job == <<cancel, done, workerErr, ctx, worker, live>>
screen == <<menu, window, tip>>
vars == <<status, app, job, posted, screen, wanted>>

Failure == "Failed - check config/logs; then Login"
Statuses == Reports \cup {"Stopped", "Starting", "LoggingOut", "Suspended", Failure}

\* Run, up to the message loop, without and with -autologin.
Init ==
  /\ suspended = FALSE /\ exiting = FALSE /\ workerErr = "none" /\ ctx = FALSE
  /\ posted = {"status"} /\ menu = "closed" /\ window = "open"
  /\ \/ /\ desired = FALSE /\ status = "Stopped"
        /\ done = "nil" /\ worker = "none" /\ live = 0
     \/ /\ desired = TRUE /\ status = "Starting"
        /\ done = "open" /\ worker = "running" /\ live = 1
  /\ tip \in {"absent", status} /\ wanted = desired /\ cancel = desired

-----------------------------------------------------------------------------
(* The worker goroutine.                                                    *)

\* What runs in it is the Supervisor, as far as its contract tells.
Supervisor == INSTANCE WorkerContract WITH
  reported <- status, outcome <- IF live > 0 THEN "none" ELSE workerErr,
  cancelled <- ctx

\* OnState: setStatus sets the status under the mutex, then posts wmStatus.
Report ==
  /\ worker = "running" /\ worker' = "reporting"
  /\ UNCHANGED <<app, cancel, done, workerErr, ctx, live, posted, screen, wanted>>
  /\ Supervisor!Report

PostStatus ==
  /\ worker = "reporting" /\ worker' = "running"
  /\ posted' = posted \cup {"status"}
  /\ UNCHANGED <<status, app, cancel, done, workerErr, ctx, live, screen, wanted>>

\* Supervisor.Run returns, its error is kept and done closed.
Return ==
  /\ worker = "running" /\ worker' = "returned"
  /\ workerErr' \in {"permanent", "canceled"}
  /\ done' = "closed" /\ live' = live - 1
  /\ UNCHANGED <<app, cancel, ctx, posted, screen, wanted>>
  /\ Supervisor!Return

PostDone ==
  /\ worker = "returned" /\ worker' = "none"
  /\ posted' = posted \cup {"workerDone"}
  /\ UNCHANGED <<status, app, cancel, done, workerErr, ctx, live, screen, wanted>>

Worker == Report \/ PostStatus \/ Return \/ PostDone

-----------------------------------------------------------------------------
(* What the handlers do.                                                    *)

\* modifyTip: an icon that is not there cannot be modified.
Shown(s) == IF tip = "absent" THEN tip ELSE s

Idle == UNCHANGED job

Launch ==
  /\ cancel' = TRUE /\ done' = "open" /\ ctx' = FALSE
  /\ worker' = "running" /\ live' = live + 1 /\ UNCHANGED workerErr
  /\ status' = "Starting" /\ tip' = Shown("Starting")

\* Mutant: a second worker may be launched.
StartClientAgain ==
  \/ (exiting \/ suspended) /\ Idle /\ UNCHANGED <<desired, status, tip>>
  \/ ~ (exiting \/ suspended) /\ desired' = TRUE /\ Launch

\* Mutant: a worker may be launched in a machine that goes to sleep.
StartClientAsleep ==
  \/ exiting /\ Idle /\ UNCHANGED <<desired, status, tip>>
  \/ ~ exiting /\ cancel /\ desired' = TRUE /\ Idle /\ UNCHANGED <<status, tip>>
  \/ ~ exiting /\ ~ cancel /\ desired' = TRUE /\ Launch

\* The early returns, and the launch.
StartClient ==
  \/ (exiting \/ suspended) /\ Idle /\ UNCHANGED <<desired, status, tip>>
  \/ /\ ~ (exiting \/ suspended) /\ desired' = TRUE
     /\ \/ cancel /\ Idle /\ UNCHANGED <<status, tip>>
        \/ ~ cancel /\ Launch

\* Mutant: the status is set whether or not there is a worker to cancel.
CancelWorkerAlways(more) ==
  /\ status' = "LoggingOut" /\ ctx' = (ctx \/ cancel) /\ posted' = more \cup {"status"}
  /\ UNCHANGED <<cancel, done, workerErr, worker, live>>

\* setStatus("LoggingOut"), cancel() and the message setStatus posts.
CancelWorker(more) ==
  IF cancel
    THEN /\ status' = "LoggingOut" /\ ctx' = TRUE /\ posted' = more \cup {"status"}
         /\ UNCHANGED <<cancel, done, workerErr, worker, live>>
    ELSE posted' = more /\ Idle /\ UNCHANGED status

StopClient(more) == desired' = FALSE /\ CancelWorker(more)

\* The window closes once there is no worker: now, or in RunnerDone.
RequestExit(more) ==
  \/ exiting /\ posted' = more /\ Idle /\ UNCHANGED <<desired, exiting, status>>
  \/ /\ ~ exiting /\ exiting' = TRUE /\ desired' = FALSE
     /\ CancelWorker(more \cup (IF cancel THEN {} ELSE {"close"}))

-----------------------------------------------------------------------------
(* The messages.                                                            *)

\* The thread retrieves messages, in its loop or in an open menu's.
Listening == window \in {"open", "quit"}
Got(m) == Listening /\ m \in posted

\* Mutant: the tooltip is not refreshed.
OnStatusIgnored ==
  /\ Got("status") /\ posted' = posted \ {"status"}
  /\ UNCHANGED <<status, app, job, screen, wanted>>

OnStatus ==
  /\ Got("status") /\ posted' = posted \ {"status"} /\ tip' = Shown(status)
  /\ UNCHANGED <<status, app, job, menu, window, wanted>>

Outcome == IF suspended THEN "Suspended"
           ELSE IF workerErr = "permanent" THEN Failure ELSE "Stopped"

\* Mutant: a worker that ends is replaced, whatever the user wants.
OnWorkerDoneRestarts ==
  /\ Got("workerDone")
  /\ \/ /\ ~ suspended /\ ~ exiting /\ workerErr # "permanent"
        /\ posted' = posted \ {"workerDone"} /\ desired' = desired /\ Launch
     \/ /\ suspended \/ exiting \/ workerErr = "permanent"
        /\ posted' = (posted \ {"workerDone"}) \cup (IF exiting THEN {"close"} ELSE {})
        /\ desired' = (desired /\ workerErr # "permanent")
        /\ cancel' = FALSE /\ done' = "nil" /\ status' = Outcome /\ tip' = Shown(Outcome)
        /\ UNCHANGED <<workerErr, ctx, worker, live>>
  /\ UNCHANGED <<suspended, exiting, menu, window, wanted>>

\* Mutant: the exit is not resumed when the worker is done.
OnWorkerDoneSilent ==
  /\ Got("workerDone") /\ posted' = posted \ {"workerDone"}
  /\ desired' = (desired /\ workerErr # "permanent")
  /\ cancel' = FALSE /\ done' = "nil" /\ status' = Outcome /\ tip' = Shown(Outcome)
  /\ UNCHANGED <<suspended, exiting, workerErr, ctx, worker, live, menu, window, wanted>>

\* runnerDone, and the startClient or wmClose it ends with.
OnWorkerDone ==
  /\ Got("workerDone")
  /\ desired' = (desired /\ workerErr # "permanent")
  /\ posted' = (posted \ {"workerDone"}) \cup (IF exiting THEN {"close"} ELSE {})
  /\ \/ desired' /\ ~ suspended /\ ~ exiting /\ Launch
     \/ /\ ~ desired' \/ suspended \/ exiting
        /\ cancel' = FALSE /\ done' = "nil" /\ status' = Outcome /\ tip' = Shown(Outcome)
        /\ UNCHANGED <<workerErr, ctx, worker, live>>
  /\ UNCHANGED <<suspended, exiting, menu, window, wanted>>

\* Mutant: the window is destroyed although a worker runs.
OnCloseAtOnce ==
  /\ Got("close") /\ posted' = {} /\ window' = "destroyed" /\ tip' = "absent"
  /\ wanted' = FALSE
  /\ Idle /\ UNCHANGED <<status, app, menu>>

\* wmClose while a worker runs is an exit request; else the window is
\* destroyed: the icon is removed and WM_QUIT posted.
OnClose ==
  /\ Got("close")
  /\ \/ cancel /\ RequestExit(posted \ {"close"}) /\ UNCHANGED <<window, tip>>
     \/ /\ ~ cancel /\ posted' = {} /\ window' = "destroyed" /\ tip' = "absent"
        /\ Idle /\ UNCHANGED <<status, desired, exiting>>
  /\ wanted' = FALSE
  /\ UNCHANGED <<suspended, menu>>

\* TaskbarCreated: addTrayIcon, which may fail again.
OnTaskbar ==
  /\ Got("taskbar") /\ posted' = posted \ {"taskbar"}
  /\ tip' \in {tip, status}
  /\ UNCHANGED <<status, app, job, menu, window, wanted>>

\* WM_POWERBROADCAST.  The worker is cancelled but remains wanted.
OnSuspend ==
  /\ Listening /\ suspended' = TRUE
  /\ ctx' = (cancel \/ ctx)
  /\ UNCHANGED <<status, desired, exiting, cancel, done, workerErr, worker, live, posted, screen, wanted>>

\* Mutant: the resumed application does not reconnect.
OnResumeIdle ==
  /\ Listening /\ suspended /\ suspended' = FALSE
  /\ UNCHANGED <<status, desired, exiting, job, posted, screen, wanted>>

OnResume ==
  /\ Listening /\ suspended' = FALSE
  /\ IF desired /\ ~ cancel /\ ~ exiting
       THEN Launch ELSE Idle /\ UNCHANGED <<status, tip>>
  /\ UNCHANGED <<desired, exiting, posted, menu, window, wanted>>

\* WM_ENDSESSION: stopClient, then up to 2 s for the worker, which meanwhile
\* runs on; then the icon is removed and WM_QUIT posted.
OnEndSession ==
  /\ window = "open" /\ window' = "ending"
  /\ StopClient(posted) /\ wanted' = FALSE
  /\ UNCHANGED <<suspended, exiting, menu, tip>>

\* done is closed, or the 2 s are over.
EndSessionGoesOn ==
  /\ window = "ending" /\ window' = "quit" /\ tip' = "absent"
  /\ UNCHANGED <<status, app, job, posted, menu, wanted>>

\* showMenu: the items are enabled by a snapshot taken before the menu opens.
OpenMenu ==
  /\ window = "open" /\ menu = "closed" /\ tip # "absent"
  /\ menu' = IF cancel THEN "busy" ELSE "idle"
  /\ UNCHANGED <<status, app, job, posted, window, tip, wanted>>

\* The user's choice, handled when the world may have moved on.
Login ==
  /\ Listening /\ menu = "idle" /\ menu' = "closed" /\ StartClient
  /\ wanted' = (wanted \/ ~ (exiting \/ suspended))
  /\ UNCHANGED <<suspended, exiting, posted, window>>

Logout ==
  /\ Listening /\ menu = "busy" /\ menu' = "closed"
  /\ StopClient(posted) /\ wanted' = FALSE
  /\ UNCHANGED <<suspended, exiting, window, tip>>

Exit ==
  /\ Listening /\ menu # "closed" /\ menu' = "closed"
  /\ RequestExit(posted) /\ wanted' = FALSE
  /\ UNCHANGED <<suspended, window, tip>>

Dismiss ==
  /\ window # "ending" /\ menu # "closed" /\ menu' = "closed"
  /\ UNCHANGED <<status, app, job, posted, window, tip, wanted>>

\* GetMessage returns WM_QUIT only when no posted message is left; main then
\* returns and takes a worker that still runs with it.
Leave ==
  /\ window \in {"quit", "destroyed"} /\ posted = {} /\ menu = "closed"
  /\ window' = "exited"
  /\ UNCHANGED <<status, app, job, posted, menu, tip, wanted>>

User == OpenMenu \/ Login \/ Logout \/ Exit \/ Dismiss

Messages == OnStatus \/ OnWorkerDone \/ OnClose \/ OnTaskbar

-----------------------------------------------------------------------------
(* Windows: Explorer restarts, and another program closes the window.       *)

ExplorerRestarts ==
  /\ window = "open" /\ tip' = "absent" /\ posted' = posted \cup {"taskbar"}
  /\ UNCHANGED <<status, app, job, menu, window, wanted>>

CloseRequested ==
  /\ window = "open" /\ posted' = posted \cup {"close"}
  /\ UNCHANGED <<status, app, job, screen, wanted>>

Windows == OnSuspend \/ OnResume \/ OnEndSession \/ ExplorerRestarts \/ CloseRequested

Exited == window = "exited" /\ UNCHANGED vars

Next ==
  \/ window # "exited" /\ (Worker \/ Messages \/ User \/ Windows)
  \/ EndSessionGoesOn \/ Leave \/ Exited

Spec == Init /\ [][Next]_vars

\* The thread handles its messages, and WM_QUIT closes an open menu.  A worker
\* takes its next step; one whose context is done returns after finitely many
\* reports (CancelReturns of WorkerContract).
FairSpec ==
  /\ Spec
  /\ WF_vars(OnWorkerDone) /\ WF_vars(OnClose) /\ WF_vars(EndSessionGoesOn)
  /\ WF_vars(OnStatus) /\ WF_vars(OnTaskbar)
  /\ WF_vars(window \in {"quit", "destroyed"} /\ Dismiss) /\ SF_vars(Leave)
  /\ WF_vars(PostStatus /\ window # "exited") /\ WF_vars(PostDone /\ window # "exited")
  /\ SF_vars(ctx /\ Return /\ window # "exited")

-----------------------------------------------------------------------------
\* The types of App's fields, the worker, the queue and the screen.
TypeOK ==
  /\ status \in Statuses /\ tip \in Statuses \cup {"absent"}
  /\ cancel \in BOOLEAN /\ done \in {"nil", "open", "closed"}
  /\ workerErr \in {"none", "permanent", "canceled"}
  /\ desired \in BOOLEAN /\ suspended \in BOOLEAN /\ exiting \in BOOLEAN
  /\ ctx \in BOOLEAN /\ wanted \in BOOLEAN /\ live \in 0..1
  /\ worker \in {"none", "running", "reporting", "returned"}
  /\ posted \subseteq {"status", "workerDone", "close", "taskbar"}
  /\ menu \in {"closed", "idle", "busy"}
  /\ window \in {"open", "ending", "quit", "destroyed", "exited"}

\* a.cancel is set exactly while there is a worker whose end the window thread
\* has not handled, and there is never a second one on the fixed local port
\* (startClient, runnerDone).
OneWorker ==
  /\ cancel <=> worker # "none" \/ "workerDone" \in posted
  /\ live = IF worker \in {"running", "reporting"} THEN 1 ELSE 0

\* Without a worker the status is a final one: no late report and no click on
\* a stale menu leaves "LoggingOut" or "Authenticated" standing.
IdleSaysSo == ~ cancel => status \in {"Stopped", "Suspended", Failure}

\* The icon's tooltip catches up with the status: when they differ a wmStatus
\* is queued, or the worker is about to post it (setStatus, modifyTip).
TipCatchesUp ==
  window = "open" => tip \in {"absent", status} \/ "status" \in posted \/ worker = "reporting"

\* A wanted connection is never forgotten: in whatever order a suspend, a
\* resume and the end of the worker are handled, somebody will restart it.
WantedIsServed == desired /\ ~ suspended /\ ~ exiting => cancel

\* No worker goes on in a machine that was told to sleep (powerEvent).
NoWorkAsleep == suspended /\ live > 0 => ctx

\* After Logout, Exit or the end of the Windows session nothing launches a
\* worker but the user's next Login: not a resume, not a worker's late end.
LogoutSticks == [][live' > live => wanted']_vars

\* Exit and WM_CLOSE wait for the worker and so for its logout; only the end
\* of the Windows session may cut it short.
QuitWaits == [][window = "open" /\ window' \in {"quit", "destroyed"} => live = 0]_vars

\* Exit and the end of the Windows session end the process, in whatever state
\* they meet the worker, the menu and the queue.
ExitEnds == exiting \/ window = "ending" ~> window = "exited"

\* "Failed - check config/logs; then Login" is what the user is shown after a
\* failure that will not be retried (USER_GUIDE.md).
FailureIsShown == ~ cancel /\ workerErr = "permanent" /\ ~ suspended => status = Failure
=============================================================================
