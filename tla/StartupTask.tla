----------------------------- MODULE StartupTask -----------------------------
(***************************************************************************)
(* "Start with Windows": the scheduled task, the value older versions left *)
(* under the Run key, and the tray's check mark for them.  The tray runs   *)
(* an operation at its start (refreshStartup) and one per click            *)
(* (toggleStartup), each in a goroutine of its own under one busy flag;    *)
(* "drcom-tray -startup MODE" runs one in a process of its own.  Every     *)
(* call of PowerShell or the registry may fail, PowerShell also after it   *)
(* has done its work (20 s limit), and the tray may end between two calls. *)
(***************************************************************************)
CONSTANT Toggles  \* clicks whose goroutines may exist at one time

Tray == Toggles \cup {"refresh"}
Operations == Tray \cup {"command"}

ASSUME TogglesAssumption == Toggles \cap {"refresh", "command"} = {}

VARIABLES
  task,      \* the scheduled task: "absent", "disabled" or "enabled"
  legacy,    \* the Run value exists (a blank one, or one of another type, counts as none)
  alive,     \* the tray runs
  startup, startupBusy,  \* fields of App
  menu,      \* "closed", or how the item was drawn: "grayed", "checked" or "unchecked"
  job,       \* the goroutine, or process, of each operation: where it is ("at"), the
             \* mode it asks for, its result ("found": refreshStartup's "enabled", or
             \* that a toggle met no error) and, as history, whether it is "clean":
             \* no call of it failed and nothing ran beside it
  orphans,   \* the modes of the PowerShells that outlive the tray
  trust,     \* history: the last operation of the tray was clean, and nothing since
  early,     \* history: the menu was opened before refreshStartup's goroutine ran
  declined   \* history: a disable has been asked for, or the task taken away
             \* elsewhere, since an enable was last asked for with nothing underway

system == <<task, legacy>>
fields == <<startup, startupBusy>>
history == <<trust, early, declined>>
vars == <<system, alive, fields, menu, job, orphans, history>>

Starts == task = "enabled" \/ legacy
Job(place, mode, found, clean) ==
  [at |-> place, mode |-> mode, found |-> found, clean |-> clean]
None == Job("idle", "enable", FALSE, TRUE)
Active == {o \in Operations : job[o] # None}
Underway == Active # {} \/ orphans # {}

Init ==
  /\ task \in {"absent", "disabled", "enabled"} /\ legacy \in BOOLEAN
  /\ alive = TRUE /\ startup = FALSE /\ startupBusy = FALSE /\ menu = "closed"
  /\ job = [o \in Operations |->
             IF o = "refresh" THEN Job("spawned", "enable", FALSE, TRUE) ELSE None]
  /\ orphans = {} /\ trust = FALSE /\ early = FALSE /\ declined = FALSE

At(o, place) == job[o].at = place

\* o goes on to a place, with a result; ok: its call did not fail.
Goto(o, place, found, ok) ==
  job' = [job EXCEPT ![o] = Job(place, @.mode, found, @.clean /\ ok)]

\* Whatever runs, runs on but is not alone.
Disturbed == [o \in Operations |->
                IF o \in Active THEN Job(job[o].at, job[o].mode, job[o].found, FALSE)
                ELSE None]

Begin(o, place, mode) ==
  job' = [Disturbed EXCEPT ![o] = Job(place, mode, FALSE, ~ Underway)]

-----------------------------------------------------------------------------
(* refreshStartup.                                                          *)

Refresh ==
  /\ At("refresh", "spawned") /\ Goto("refresh", "query", FALSE, TRUE)
  /\ startupBusy' = TRUE
  /\ UNCHANGED <<system, alive, startup, menu, orphans, history>>

\* Mutant: the task alone decides what is shown.
QueryAlone ==
  /\ At("refresh", "query") /\ Goto("refresh", "check", task = "enabled", TRUE)
  /\ UNCHANGED <<system, alive, fields, menu, orphans, history>>

\* A task that is enabled needs no look at the Run value; after an error only
\* that look is left.  The script asks for the task with SilentlyContinue: one
\* it cannot get is no error but no task.
Query ==
  /\ At("refresh", "query")
  /\ \/ task = "enabled" /\ Goto("refresh", "check", TRUE, TRUE)
     \/ Goto("refresh", "read", FALSE, task # "enabled")
     \/ Goto("refresh", "lastRead", FALSE, FALSE)
  /\ UNCHANGED <<system, alive, fields, menu, orphans, history>>

\* legacyStartupEnabled: a value that cannot be read counts as none.
ReadLegacy ==
  /\ \E found \in {legacy, FALSE} :
       \/ At("refresh", "read") /\ Goto("refresh", "check", found, found = legacy)
       \/ At("refresh", "lastRead") /\ Goto("refresh", "publish", found, FALSE)
  /\ UNCHANGED <<system, alive, fields, menu, orphans, history>>

\* A Run value is migrated, with ConfigureStartup("enable").
Check ==
  /\ At("refresh", "check")
  /\ \E found \in {legacy, FALSE} :
       Goto("refresh", IF found THEN "task" ELSE "publish", job["refresh"].found, found = legacy)
  /\ UNCHANGED <<system, alive, fields, menu, orphans, history>>

-----------------------------------------------------------------------------
(* toggleStartup and ConfigureStartup.                                      *)

OpenMenu ==
  /\ alive /\ menu = "closed"
  /\ menu' = IF startupBusy THEN "grayed" ELSE IF startup THEN "checked" ELSE "unchecked"
  /\ early' = (early \/ At("refresh", "spawned"))
  /\ UNCHANGED <<system, alive, fields, job, orphans, trust, declined>>

Ask(o, mode) ==
  /\ Begin(o, "task", mode) /\ trust' = FALSE
  /\ declined' = (mode = "disable" \/ (declined /\ Underway))

Clicked(t) == menu \in {"checked", "unchecked"} /\ At(t, "idle") /\ menu' = "closed"

\* Mutant: the busy flag is tested but not set.
ToggleUnguarded(t) ==
  /\ Clicked(t) /\ ~ startupBusy
  /\ Ask(t, IF startup THEN "disable" ELSE "enable")
  /\ UNCHANGED <<system, alive, fields, orphans, early>>

\* The user's click: the mode is decided by startup as it is now.
Toggle(t) ==
  /\ Clicked(t) /\ ~ startupBusy /\ startupBusy' = TRUE
  /\ Ask(t, IF startup THEN "disable" ELSE "enable")
  /\ UNCHANGED <<system, alive, startup, orphans, early>>

\* The menu closes without a click, or with one that meets a busy flag.
Dismiss ==
  /\ menu # "closed" /\ menu' = "closed"
  /\ UNCHANGED <<system, alive, fields, job, orphans, history>>

\* drcom-tray -startup MODE, which looks at no mutex.
Command ==
  /\ At("command", "idle") /\ \E mode \in {"enable", "disable"} : Ask("command", mode)
  /\ UNCHANGED <<system, alive, fields, menu, orphans, early>>

\* After ConfigureStartup.  A toggle keeps the outcome, and shows a message
\* box for an error; the migration's outcome is logged only.
Configured(o, ok) ==
  CASE o = "command" -> job' = [job EXCEPT ![o] = None]
    [] o = "refresh" -> Goto(o, "publish", job[o].found, ok)
    [] OTHER         -> Goto(o, IF ok THEN "publish" ELSE "box", ok, ok)

Applied(mode) == task' = IF mode = "enable" THEN "enabled" ELSE "absent"

\* Mutant: the Run value is removed whatever became of the task.
RunTaskRegardless(o) ==
  /\ At(o, "task")
  /\ \/ Applied(job[o].mode) /\ Goto(o, "value", FALSE, TRUE)
     \/ UNCHANGED task /\ Goto(o, "value", FALSE, FALSE)
  /\ UNCHANGED <<legacy, alive, fields, menu, orphans, history>>

\* runStartupTask: PowerShell's effect and its answer are two things, and a
\* task it cannot get is nothing to disable.
RunTask(o) ==
  /\ At(o, "task")
  /\ \/ Applied(job[o].mode) /\ Goto(o, "value", job[o].found, TRUE)
     \/ job[o].mode = "disable" /\ UNCHANGED task /\ Goto(o, "value", job[o].found, FALSE)
     \/ (UNCHANGED task \/ Applied(job[o].mode)) /\ Configured(o, FALSE)
  /\ UNCHANGED <<legacy, alive, fields, menu, orphans, history>>

\* deleteStartupValue: no value, or no key, is a success.
DeleteValue(o) ==
  /\ At(o, "value")
  /\ \/ legacy' = FALSE /\ Configured(o, TRUE)
     \/ UNCHANGED legacy /\ Configured(o, FALSE)
  /\ UNCHANGED <<task, alive, fields, menu, orphans, history>>

\* ShowError's box, which the user closes.
CloseBox(t) ==
  /\ At(t, "box") /\ Goto(t, "publish", FALSE, FALSE)
  /\ UNCHANGED <<system, alive, fields, menu, orphans, history>>

\* Mutant: a failed toggle returns before it clears the flag.
PublishUnlessFailed(o) ==
  /\ At(o, "publish") /\ job' = [job EXCEPT ![o] = None]
  /\ \/ o # "refresh" /\ ~ job[o].found /\ UNCHANGED fields
     \/ /\ o = "refresh" \/ job[o].found
        /\ startupBusy' = FALSE
        /\ startup' = IF o = "refresh" THEN job[o].found ELSE job[o].mode = "enable"
  /\ trust' = job[o].clean
  /\ UNCHANGED <<system, alive, menu, orphans, early, declined>>

\* The last lock section: the result is published and the flag cleared.
Publish(o) ==
  /\ At(o, "publish") /\ job' = [job EXCEPT ![o] = None] /\ startupBusy' = FALSE
  /\ startup' = CASE o = "refresh"                   -> job[o].found
                  [] o # "refresh" /\ job[o].found -> (job[o].mode = "enable")
                  [] OTHER                           -> startup
  /\ trust' = job[o].clean
  /\ UNCHANGED <<system, alive, menu, orphans, early, declined>>

-----------------------------------------------------------------------------
(* The tray's life, and others who change the task.                         *)

\* The process ends, at whatever call its goroutines are; any PowerShell it has
\* started may go on.
Quit ==
  /\ alive /\ alive' = FALSE /\ menu' = "closed"
  /\ startup' = FALSE /\ startupBusy' = FALSE /\ early' = FALSE /\ trust' = FALSE
  /\ job' = [o \in Operations |-> IF o \in Tray THEN None ELSE job[o]]
  /\ \E left \in SUBSET {job[o].mode : o \in {p \in Tray : At(p, "task")}} :
       orphans' = orphans \cup left
  /\ UNCHANGED <<system, declined>>

Launch ==
  /\ ~ alive /\ alive' = TRUE /\ Begin("refresh", "spawned", "enable")
  /\ UNCHANGED <<system, fields, menu, orphans, history>>

\* One of them ends, with or without its effect; another of its mode may be left.
Orphan ==
  /\ \E mode \in orphans : /\ orphans' \in {orphans, orphans \ {mode}}
                           /\ UNCHANGED task \/ Applied(mode)
  /\ job' = Disturbed /\ trust' = FALSE
  /\ UNCHANGED <<legacy, alive, fields, menu, early, declined>>

\* The user, or a policy, changes the task in Task Scheduler.
Elsewhere ==
  /\ task' \in {"absent", "disabled", "enabled"} \ {task}
  /\ declined' = (declined \/ task' # "enabled")
  /\ job' = Disturbed /\ trust' = FALSE
  /\ UNCHANGED <<legacy, alive, fields, menu, orphans, early>>

Proceed(o) == RunTask(o) \/ DeleteValue(o) \/ Publish(o)

Refreshing == Refresh \/ Query \/ ReadLegacy \/ Check

User == OpenMenu \/ Dismiss \/ Command \/ (\E t \in Toggles : Toggle(t) \/ CloseBox(t))

Next ==
  \/ Refreshing \/ (\E o \in Operations : Proceed(o)) \/ User
  \/ Quit \/ Launch \/ Orphan \/ Elsewhere

Spec == Init /\ [][Next]_vars

\* Goroutines run, and their calls end: PowerShell after 20 s at the latest.
\* Nothing is asked of the user, who may leave a message box open.
FairSpec ==
  Spec /\ WF_vars(Refreshing) /\ \A o \in Operations : WF_vars(Proceed(o))

-----------------------------------------------------------------------------
\* Nothing but a disable the user asked for ends an automatic start: not a
\* migration that fails half-way, not a killed PowerShell, not the end of the
\* tray between the task and the Run value (ConfigureStartup, USER_GUIDE.md).
StartSurvives == [][Starts /\ ~ Starts' => declined']_vars

\* After an operation in which nothing failed and which met no other, the
\* check mark is the task's and the Run value is gone, whatever earlier
\* failures, overlaps and other programs had left behind.
MenuTellsTruth == trust => startup = (task = "enabled") /\ ~ legacy

\* startupBusy is set exactly while one of the tray's goroutines is at work,
\* and there is one at a time, unless a menu was opened before
\* refreshStartup's goroutine had set it (refreshStartup, toggleStartup).
BusyGuards ==
  ~ early =>
    /\ \A o, p \in Active \cap Tray : o = p
    /\ startupBusy <=> \E o \in Tray : job[o].at \notin {"idle", "spawned"}

\* A click does what the menu offered: the state it was drawn from has not
\* been replaced while it was open.
ClickMeansOpposite ==
  [][\A t \in Toggles : ~ early /\ At(t, "idle") /\ ~ At(t, "idle")' =>
       job'[t].mode = IF menu = "checked" THEN "disable" ELSE "enable"]_vars

\* The menu item comes back, however its operation ends, unless a message box
\* waits for the user.
ItemComesBack == startupBusy ~> ~ startupBusy \/ \E t \in Toggles : At(t, "box")
=============================================================================
