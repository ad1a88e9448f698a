------------------------- MODULE StartupTaskProofs --------------------------
(***************************************************************************)
(* The automatic start outlives every failure, the busy flag keeps the     *)
(* tray's goroutines apart, a click does what the menu offered, and the    *)
(* check mark tells the truth, for any number of clicks whose goroutines   *)
(* overlap, with the refresh, a command and a PowerShell without its tray. *)
(***************************************************************************)
EXTENDS StartupTask, Naturals, TLAPS

\* Whoever may still take the task away was asked to.
DisableDeclined ==
  /\ \A o \in Operations : job[o].at # "idle" /\ job[o].mode = "disable" => declined
  /\ "disable" \in orphans => declined

\* Whoever is about to remove the Run value to enable the start has registered
\* the task, and nobody undid it unasked.
ValueAfterTask ==
  \A o \in Operations :
    At(o, "value") /\ job[o].mode = "enable" => task = "enabled" \/ declined

Modes ==
  /\ DOMAIN job = Operations
  /\ \A o \in Operations : job[o].mode \in {"enable", "disable"}
  /\ orphans \subseteq {"enable", "disable"}

Inv == Modes /\ DisableDeclined /\ ValueAfterTask

LEMMA InvInit == Init => Inv
<1> SUFFICES ASSUME Init PROVE Inv OBVIOUS
<1>1. /\ DOMAIN job = Operations
      /\ \A o \in Operations : job[o].at # "value" /\ job[o].mode = "enable"
  BY DEF Init, None, Job
<1>2. Modes BY <1>1 DEF Init, Modes
<1>3. DisableDeclined BY <1>1 DEF Init, DisableDeclined
<1>4. ValueAfterTask BY <1>1 DEF ValueAfterTask, At
<1>5. QED BY <1>2, <1>3, <1>4 DEF Inv

\* One operation goes on or ends: what it asks for stays, and so do the others.
LEMMA GoesOn ==
  ASSUME Modes, NEW o \in Operations, NEW place, NEW found, NEW ok,
         Goto(o, place, found, ok), UNCHANGED orphans
  PROVE /\ Modes' /\ At(o, place)' /\ job'[o].mode = job[o].mode
        /\ \A p \in Operations \ {o} : job'[p] = job[p]
BY DEF Goto, Modes, At, Job

\* What a call may do to the task while its operation is at work.
Allowed(o) == UNCHANGED task \/ task' = "enabled" \/ job[o].mode = "disable"

LEMMA Moves ==
  ASSUME Inv, NEW o \in Operations, NEW place, NEW found, NEW ok,
         Goto(o, place, found, ok), job[o].at # "idle", place # "value",
         Allowed(o), UNCHANGED <<orphans, declined>>
  PROVE Inv'
<1>1. /\ Modes' /\ At(o, place)' /\ job'[o].mode = job[o].mode
      /\ \A p \in Operations \ {o} : job'[p] = job[p]
  BY GoesOn DEF Inv
<1>2. DisableDeclined' BY <1>1 DEF Inv, DisableDeclined
<1>3. ValueAfterTask'
  BY <1>1 DEF Inv, DisableDeclined, ValueAfterTask, Allowed, At
<1>4. QED BY <1>1, <1>2, <1>3 DEF Inv

LEMMA Ends ==
  ASSUME Inv, NEW o \in Operations, job' = [job EXCEPT ![o] = None],
         job[o].at # "idle", Allowed(o), UNCHANGED <<orphans, declined>>
  PROVE Inv'
<1>1. /\ Modes' /\ job'[o] = None /\ \A p \in Operations \ {o} : job'[p] = job[p]
  BY DEF Inv, Modes, None, Job
<1>2. DisableDeclined' BY <1>1 DEF Inv, DisableDeclined, None, Job
<1>3. ValueAfterTask'
  BY <1>1 DEF Inv, DisableDeclined, ValueAfterTask, Allowed, At, None, Job
<1>4. QED BY <1>1, <1>2, <1>3 DEF Inv

LEMMA ConfiguredKeeps ==
  ASSUME Inv, NEW o \in Operations, NEW ok \in BOOLEAN, Configured(o, ok),
         job[o].at # "idle", Allowed(o), UNCHANGED <<orphans, declined>>
  PROVE Inv'
<1>1. CASE o = "command" BY <1>1, Ends DEF Configured
<1>2. CASE o = "refresh"
  <2>1. Goto(o, "publish", job[o].found, ok) BY <1>2 DEF Configured
  <2>2. QED BY <2>1, Moves
<1>3. CASE o \notin {"command", "refresh"}
  <2>1. \E place \in {"publish", "box"} : Goto(o, place, ok, ok)
    BY <1>3 DEF Configured
  <2>2. QED BY <2>1, Moves
<1>4. QED BY <1>1, <1>2, <1>3

LEMMA RunTaskKeeps == ASSUME Inv, NEW o \in Operations, RunTask(o) PROVE Inv'
<1>1. job[o].at # "idle" /\ UNCHANGED <<orphans, declined>> BY DEF RunTask, At, history
<1>2. CASE (UNCHANGED task \/ Applied(job[o].mode)) /\ Configured(o, FALSE)
  <2>1. Allowed(o) BY <1>2 DEF Allowed, Applied, Inv, Modes
  <2>2. QED BY <1>1, <1>2, <2>1, ConfiguredKeeps
<1>3. CASE /\ Applied(job[o].mode) \/ (job[o].mode = "disable" /\ UNCHANGED task)
           /\ \E ok : Goto(o, "value", job[o].found, ok)
  <2>1. /\ Modes' /\ At(o, "value")' /\ job'[o].mode = job[o].mode
        /\ \A p \in Operations \ {o} : job'[p] = job[p]
    BY <1>1, <1>3, GoesOn DEF Inv
  <2>2. DisableDeclined' BY <1>1, <2>1 DEF Inv, DisableDeclined
  <2>3. Allowed(o) BY <1>3 DEF Allowed, Applied, Inv, Modes
  <2>4. job[o].mode = "enable" => task' = "enabled" BY <1>3 DEF Applied
  <2>5. ValueAfterTask'
    BY <1>1, <2>1, <2>3, <2>4 DEF Inv, DisableDeclined, ValueAfterTask, Allowed, At
  <2>6. QED BY <2>1, <2>2, <2>5 DEF Inv
<1>4. QED BY <1>2, <1>3 DEF RunTask

LEMMA ProceedKeeps == ASSUME Inv, NEW o \in Operations, Proceed(o) PROVE Inv'
<1>1. CASE DeleteValue(o)
  <2>1. /\ job[o].at # "idle" /\ UNCHANGED <<task, orphans, declined>>
        /\ \E ok \in BOOLEAN : Configured(o, ok)
    BY <1>1 DEF DeleteValue, At, history
  <2>2. QED BY <2>1, ConfiguredKeeps DEF Allowed
<1>2. CASE Publish(o)
  <2>1. /\ job[o].at # "idle" /\ UNCHANGED <<task, orphans, declined>>
        /\ job' = [job EXCEPT ![o] = None]
    BY <1>2 DEF Publish, At, system
  <2>2. QED BY <2>1, Ends DEF Allowed
<1>3. QED BY <1>1, <1>2, RunTaskKeeps DEF Proceed

LEMMA RefreshingKeeps == ASSUME Inv, Refreshing PROVE Inv'
<1>1. "refresh" \in Operations BY DEF Operations, Tray
<1>2. /\ job["refresh"].at # "idle" /\ UNCHANGED <<task, orphans, declined>>
      /\ \E place \in {"query", "check", "read", "lastRead", "publish", "task"} : \E found, ok :
           Goto("refresh", place, found, ok)
  <2>1. CASE Refresh BY <2>1 DEF Refresh, At, system, history
  <2>2. CASE Query BY <2>2 DEF Query, At, system, history
  <2>3. CASE ReadLegacy BY <2>3 DEF ReadLegacy, At, system, history
  <2>4. CASE Check BY <2>4 DEF Check, At, system, history
  <2>5. QED BY <2>1, <2>2, <2>3, <2>4 DEF Refreshing
<1>3. QED BY <1>1, <1>2, Moves DEF Allowed

\* Something happens beside what runs: every operation stays where it is.
LEMMA Stays ==
  ASSUME Modes
  PROVE /\ DOMAIN Disturbed = Operations
        /\ \A o \in Operations :
             Disturbed[o].at = job[o].at /\ Disturbed[o].mode = job[o].mode
BY DEF Modes, Disturbed, Active, None, Job

LEMMA BeginKeeps ==
  ASSUME Inv, NEW o \in Operations, NEW place, NEW mode \in {"enable", "disable"},
         Begin(o, place, mode), place \notin {"idle", "value"}, UNCHANGED <<task, orphans>>,
         declined' = declined \/ declined' = (mode = "disable" \/ (declined /\ Underway)),
         mode = "disable" => declined'
  PROVE Inv'
<1>1. /\ DOMAIN job' = Operations /\ job'[o].at = place /\ job'[o].mode = mode
      /\ \A p \in Operations \ {o} : job'[p].at = job[p].at /\ job'[p].mode = job[p].mode
  BY Stays DEF Inv, Begin, Job
<1>2. Modes' BY <1>1 DEF Inv, Modes
<1>3. declined /\ Underway => declined' OBVIOUS
<1>4. ~ Underway => orphans = {} /\ \A p \in Operations : job[p] = None
  BY DEF Underway, Active
<1>5. DisableDeclined'
  <2>1. CASE Underway BY <1>1, <1>3, <2>1 DEF Inv, DisableDeclined
  <2>2. CASE ~ Underway BY <1>1, <1>4, <2>2 DEF Inv, DisableDeclined, None, Job
  <2>3. QED BY <2>1, <2>2
<1>6. ValueAfterTask'
  <2>1. CASE Underway BY <1>1, <1>3, <2>1 DEF Inv, ValueAfterTask, At
  <2>2. CASE ~ Underway BY <1>1, <1>4, <2>2 DEF ValueAfterTask, At, None, Job
  <2>3. QED BY <2>1, <2>2
<1>7. QED BY <1>2, <1>5, <1>6 DEF Inv

LEMMA SameKeeps == ASSUME Inv, UNCHANGED <<job, task, orphans, declined>> PROVE Inv'
BY DEF Inv, Modes, DisableDeclined, ValueAfterTask, At

LEMMA UserKeeps == ASSUME Inv, User PROVE Inv'
<1>1. CASE OpenMenu \/ Dismiss
  BY <1>1, SameKeeps DEF OpenMenu, Dismiss, system, history
<1>2. CASE Command
  <2>1. PICK mode \in {"enable", "disable"} : Ask("command", mode) BY <1>2 DEF Command
  <2>2. "command" \in Operations /\ UNCHANGED <<task, orphans>>
    BY <1>2 DEF Operations, Command, system
  <2>3. /\ Begin("command", "task", mode)
        /\ declined' = (mode = "disable" \/ (declined /\ Underway))
    BY <2>1 DEF Ask
  <2>4. mode = "disable" => declined' BY <2>3
  <2>5. QED BY <2>2, <2>3, <2>4, BeginKeeps
<1>3. ASSUME NEW t \in Toggles, Toggle(t) PROVE Inv'
  <2>1. PICK mode \in {"enable", "disable"} : Ask(t, mode) BY <1>3 DEF Toggle
  <2>2. t \in Operations /\ UNCHANGED <<task, orphans>>
    BY <1>3 DEF Operations, Tray, Toggle, system
  <2>3. QED BY <2>1, <2>2, BeginKeeps DEF Ask
<1>4. ASSUME NEW t \in Toggles, CloseBox(t) PROVE Inv'
  <2>1. /\ t \in Operations /\ job[t].at # "idle" /\ UNCHANGED <<task, orphans, declined>>
        /\ Goto(t, "publish", FALSE, FALSE)
    BY <1>4 DEF Operations, Tray, CloseBox, At, system, history
  <2>2. QED BY <2>1, Moves DEF Allowed
<1>5. QED BY <1>1, <1>2, <1>3, <1>4 DEF User

LEMMA QuitKeeps == ASSUME Inv, Quit PROVE Inv'
<1>1. /\ UNCHANGED <<task, declined>>
      /\ job' = [o \in Operations |-> IF o \in Tray THEN None ELSE job[o]]
      /\ \E left \in SUBSET {job[o].mode : o \in {p \in Tray : At(p, "task")}} :
           orphans' = orphans \cup left
  BY DEF Quit, system
<1>2. \A mode \in orphans' \ orphans :
        \E o \in Operations : At(o, "task") /\ mode = job[o].mode
  BY <1>1 DEF Operations
<1>3. Modes'
  <2>1. "refresh" \in Operations BY DEF Operations, Tray
  <2>2. QED BY <1>1, <1>2, <2>1 DEF Inv, Modes, None, Job
<1>4. DisableDeclined' BY <1>1, <1>2 DEF Inv, DisableDeclined, At, None, Job
<1>5. ValueAfterTask' BY <1>1 DEF Inv, ValueAfterTask, At, None, Job
<1>6. QED BY <1>3, <1>4, <1>5 DEF Inv

LEMMA BesideKeeps ==
  ASSUME Inv, job' = Disturbed, orphans' \subseteq orphans, declined => declined',
         task' # task => task' = "enabled" \/ declined'
  PROVE Inv'
<1>1. /\ DOMAIN job' = Operations
      /\ \A o \in Operations : job'[o].at = job[o].at /\ job'[o].mode = job[o].mode
  BY Stays DEF Inv
<1>2. Modes' BY <1>1 DEF Inv, Modes
<1>3. DisableDeclined' BY <1>1 DEF Inv, DisableDeclined
<1>4. ValueAfterTask' BY <1>1 DEF Inv, ValueAfterTask, At
<1>5. QED BY <1>2, <1>3, <1>4 DEF Inv

LEMMA OthersKeep == ASSUME Inv, Launch \/ Orphan \/ Elsewhere PROVE Inv'
<1>1. CASE Launch
  <2>1. "refresh" \in Operations BY DEF Operations, Tray
  <2>2. Begin("refresh", "spawned", "enable") /\ UNCHANGED <<task, orphans, declined>>
    BY <1>1 DEF Launch, system, history
  <2>3. QED BY <2>1, <2>2, BeginKeeps
<1>2. CASE Orphan
  <2>1. PICK mode \in orphans : UNCHANGED task \/ Applied(mode) BY <1>2 DEF Orphan
  <2>2. job' = Disturbed /\ orphans' \subseteq orphans /\ UNCHANGED declined
    BY <1>2 DEF Orphan
  <2>3. task' # task => task' = "enabled" \/ declined'
    BY <2>1, <2>2 DEF Applied, Inv, Modes, DisableDeclined
  <2>4. QED BY <2>2, <2>3, BesideKeeps
<1>3. CASE Elsewhere
  <2>1. job' = Disturbed /\ orphans' = orphans /\ declined' = (declined \/ task' # "enabled")
    BY <1>3 DEF Elsewhere
  <2>2. QED BY <2>1, BesideKeeps
<1>4. QED BY <1>1, <1>2, <1>3

LEMMA InvNext == Inv /\ [Next]_vars => Inv'
BY ProceedKeeps, RefreshingKeeps, UserKeeps, QuitKeeps, OthersKeep, SameKeeps
   DEF Next, vars, system, history

-----------------------------------------------------------------------------
LEMMA StepKeepsStart ==
  ASSUME Inv, Next, Starts, ~ Starts' PROVE declined'
<1>1. ASSUME NEW o \in Operations, RunTask(o) PROVE declined'
  <2>1. job[o].at # "idle" /\ UNCHANGED <<legacy, declined>>
    BY <1>1 DEF RunTask, At, history
  <2>2. UNCHANGED task \/ task' = "enabled" \/ job[o].mode = "disable"
    BY <1>1 DEF RunTask, Applied, Inv, Modes
  <2>3. QED BY <2>1, <2>2 DEF Starts, Inv, DisableDeclined
<1>2. ASSUME NEW o \in Operations, DeleteValue(o) PROVE declined'
  <2>1. At(o, "value") /\ UNCHANGED <<task, declined>>
    BY <1>2 DEF DeleteValue, history
  <2>2. job[o].mode \in {"enable", "disable"} BY DEF Inv, Modes
  <2>3. QED BY <2>1, <2>2 DEF Starts, Inv, DisableDeclined, ValueAfterTask, At
<1>3. CASE Orphan BY <1>3 DEF Orphan, Applied, Starts, Inv, Modes, DisableDeclined
<1>4. CASE Elsewhere BY <1>4 DEF Elsewhere, Starts
<1>5. (\E o \in Operations : Publish(o)) \/ Refreshing \/ User \/ Quit \/ Launch =>
        UNCHANGED system
  BY DEF Publish, Refreshing, Refresh, Query, ReadLegacy, Check, User, OpenMenu, Dismiss,
         Command, Toggle, CloseBox, Quit, Launch
<1>6. QED BY <1>1, <1>2, <1>3, <1>4, <1>5 DEF Next, Proceed, Starts, system

\* Only a disable that was asked for, or somebody else, ends an automatic
\* start: no failure of PowerShell or the registry, no migration that is cut
\* off half-way, no overlap of operations (ConfigureStartup, refreshStartup).
THEOREM StartAlwaysSurvives == Spec => StartSurvives
<1>1. Inv /\ [Next]_vars => [Starts /\ ~ Starts' => declined']_vars
  BY StepKeepsStart DEF vars
<1>2. QED BY InvInit, InvNext, <1>1, PTL DEF Spec, StartSurvives

-----------------------------------------------------------------------------
(* The busy flag and the menu.                                              *)

Idle(o) == At(o, "idle")
AtWork(o) == job[o].at \notin {"idle", "spawned"}

Shape ==
  /\ DOMAIN job = Operations
  /\ \A o \in Operations : Idle(o) => job[o] = None
  /\ \A o \in Operations \ {"refresh"} : ~ At(o, "spawned")
  /\ ~ At("command", "publish")

\* A tray that has ended runs nothing and trusts nothing.
Away == ~ alive => menu = "closed" /\ ~ startupBusy /\ ~ trust /\ \A o \in Tray : Idle(o)

One == ~ early => \A o, p \in Tray : ~ Idle(o) /\ ~ Idle(p) => o = p

Busy == ~ early => (startupBusy <=> \E o \in Tray : AtWork(o))

\* While the menu offers a click the tray runs no operation, so what the item
\* was drawn from is still so.
Drawn ==
  ~ early =>
    /\ menu # "closed" => ~ At("refresh", "spawned")
    /\ menu \in {"checked", "unchecked"} => \A o \in Tray : Idle(o)
    /\ menu = "checked" => startup
    /\ menu = "unchecked" => ~ startup

Guarded == Shape /\ Away /\ One /\ Busy /\ Drawn

LEMMA GuardedInit == Init => Guarded
<1> SUFFICES ASSUME Init PROVE Guarded OBVIOUS
<1> USE DEF Idle, At, AtWork
<1>1. /\ DOMAIN job = Operations /\ job["refresh"] = Job("spawned", "enable", FALSE, TRUE)
      /\ \A o \in Operations \ {"refresh"} : job[o] = None
  BY DEF Init, Operations, Tray
<1>2. /\ job["refresh"].at = "spawned"
      /\ \A o \in Operations \ {"refresh"} : job[o].at = "idle"
  BY <1>1 DEF Job, None
<1>3. "refresh" \in Tray /\ Tray \subseteq Operations /\ "command" \in Operations
  BY DEF Operations, Tray
<1>4. Shape BY <1>1, <1>2, <1>3 DEF Init, Shape
<1>5. Away BY DEF Init, Away
<1>6. One BY <1>2, <1>3 DEF One
<1>7. Busy BY <1>2, <1>3 DEF Init, Busy
<1>8. Drawn BY DEF Init, Drawn
<1>9. QED BY <1>4, <1>5, <1>6, <1>7, <1>8 DEF Guarded

\* An operation at work goes on.
LEMMA OneMoves ==
  ASSUME Guarded, NEW o \in Operations, DOMAIN job' = Operations,
         \A p \in Operations \ {o} : job'[p] = job[p],
         AtWork(o), AtWork(o)', o = "command" => job'[o].at # "publish",
         UNCHANGED <<alive, fields, menu, early, trust>>
  PROVE Guarded'
<1> USE DEF Guarded, Idle, At, AtWork, fields
<1>1. Tray \subseteq Operations /\ "command" \in Operations /\ "refresh" \in Operations
  BY DEF Operations, Tray
<1>2. Shape' BY <1>1 DEF Shape
<1>3. Away' BY <1>1 DEF Away
<1>4. One' BY <1>1 DEF One
<1>5. Busy' BY <1>1 DEF Busy
<1>6. Drawn' BY <1>1 DEF Drawn
<1>7. QED BY <1>2, <1>3, <1>4, <1>5, <1>6

\* Nothing moves, or something else that the tray does not see.
LEMMA NoneMoves ==
  ASSUME Guarded, DOMAIN job' = Operations,
         \A p \in Operations : job'[p].at = job[p].at /\ (Idle(p) => job'[p] = None),
         UNCHANGED <<alive, fields, menu, early>>, trust' => trust
  PROVE Guarded'
<1> USE DEF Guarded, Idle, At, AtWork, fields
<1>1. Tray \subseteq Operations /\ "command" \in Operations /\ "refresh" \in Operations
  BY DEF Operations, Tray
<1>2. Shape' BY <1>1 DEF Shape
<1>3. Away' BY <1>1 DEF Away
<1>4. One' BY <1>1 DEF One
<1>5. Busy' BY <1>1 DEF Busy
<1>6. Drawn' BY <1>1 DEF Drawn
<1>7. QED BY <1>2, <1>3, <1>4, <1>5, <1>6

LEMMA Went ==
  ASSUME DOMAIN job = Operations, NEW o \in Operations, NEW place, NEW found, NEW ok,
         Goto(o, place, found, ok)
  PROVE /\ DOMAIN job' = Operations /\ job'[o].at = place /\ job'[o].mode = job[o].mode
        /\ job'[o].found = found /\ job'[o].clean = (job[o].clean /\ ok)
        /\ \A p \in Operations \ {o} : job'[p] = job[p]
BY DEF Goto, Job

LEMMA Gone ==
  ASSUME DOMAIN job = Operations, NEW o \in Operations, job' = [job EXCEPT ![o] = None]
  PROVE /\ DOMAIN job' = Operations /\ job'[o] = None /\ job'[o].at = "idle"
        /\ \A p \in Operations \ {o} : job'[p] = job[p]
BY DEF None, Job

LEMMA DisturbedPlaces ==
  ASSUME Shape
  PROVE /\ DOMAIN Disturbed = Operations
        /\ \A o \in Operations : Disturbed[o].at = job[o].at
        /\ \A o \in Operations : Idle(o) => Disturbed[o] = None
        /\ \A o \in Operations : ~ Idle(o) => ~ Disturbed[o].clean
BY DEF Shape, Disturbed, Active, Idle, At, None, Job

LEMMA Began ==
  ASSUME Shape, NEW o \in Operations, NEW place, NEW mode, Begin(o, place, mode)
  PROVE /\ DOMAIN job' = Operations /\ job'[o].at = place /\ job'[o].mode = mode
        /\ job'[o].clean = ~ Underway
        /\ \A p \in Operations \ {o} : job'[p].at = job[p].at
        /\ \A p \in Operations \ {o} : Idle(p) => job'[p] = None
        /\ \A p \in Operations \ {o} : ~ Idle(p) => ~ job'[p].clean
BY DisturbedPlaces DEF Begin, Job

LEMMA MovesGuarded ==
  ASSUME Guarded, NEW o \in Operations, NEW place, NEW found, NEW ok,
         Goto(o, place, found, ok), AtWork(o), place \notin {"idle", "spawned"},
         o = "command" => place # "publish",
         UNCHANGED <<alive, fields, menu, early, trust>>
  PROVE Guarded'
<1>1. /\ DOMAIN job' = Operations /\ job'[o].at = place
      /\ \A p \in Operations \ {o} : job'[p] = job[p]
  BY Went DEF Guarded, Shape
<1>2. AtWork(o)' BY <1>1 DEF AtWork
<1>3. QED BY <1>1, <1>2, OneMoves

LEMMA CommandEndsGuarded ==
  ASSUME Guarded, job' = [job EXCEPT !["command"] = None],
         UNCHANGED <<alive, fields, menu, early, trust>>
  PROVE Guarded'
<1> USE TogglesAssumption DEF Guarded, Idle, At, AtWork, fields
<1>1. /\ Tray \subseteq Operations /\ "command" \in Operations /\ "refresh" \in Tray
      /\ "command" \notin Tray
  BY DEF Operations, Tray
<1>2. /\ DOMAIN job' = Operations /\ job'["command"] = None /\ job'["command"].at = "idle"
      /\ \A p \in Operations \ {"command"} : job'[p] = job[p]
  BY <1>1, Gone DEF Shape
<1>3. Shape' BY <1>1, <1>2 DEF Shape
<1>4. Away' BY <1>1, <1>2 DEF Away
<1>5. One' BY <1>1, <1>2 DEF One
<1>6. Busy' BY <1>1, <1>2 DEF Busy
<1>7. Drawn' BY <1>1, <1>2 DEF Drawn
<1>8. QED BY <1>3, <1>4, <1>5, <1>6, <1>7

LEMMA ConfiguredGuarded ==
  ASSUME Guarded, NEW o \in Operations, NEW ok \in BOOLEAN, Configured(o, ok), AtWork(o),
         UNCHANGED <<alive, fields, menu, early, trust>>
  PROVE Guarded'
<1>1. CASE o = "command" BY <1>1, CommandEndsGuarded DEF Configured
<1>2. CASE o = "refresh"
  <2>1. Goto(o, "publish", job[o].found, ok) BY <1>2 DEF Configured
  <2>2. QED BY <1>2, <2>1, MovesGuarded
<1>3. CASE o \notin {"command", "refresh"}
  <2>1. \E place \in {"publish", "box"} : Goto(o, place, ok, ok)
    BY <1>3 DEF Configured
  <2>2. QED BY <1>3, <2>1, MovesGuarded
<1>4. QED BY <1>1, <1>2, <1>3

LEMMA PublishGuarded == ASSUME Guarded, NEW o \in Operations, Publish(o) PROVE Guarded'
<1> USE TogglesAssumption DEF Guarded, Idle, At, AtWork
<1>1. /\ Tray \subseteq Operations /\ "command" \in Operations /\ "refresh" \in Tray
      /\ "command" \notin Tray /\ (o = "command" \/ o \in Tray)
  BY DEF Operations, Tray
<1>2. o \in Tray /\ job[o].at = "publish" BY <1>1 DEF Publish, Shape
<1>3. /\ DOMAIN job' = Operations /\ job'[o] = None /\ job'[o].at = "idle"
      /\ \A p \in Operations \ {o} : job'[p] = job[p]
  BY Gone DEF Publish, Shape
<1>4. startupBusy' = FALSE /\ UNCHANGED <<alive, menu, early>> BY DEF Publish
<1>5. alive BY <1>2 DEF Away
<1>6. ~ early => menu \notin {"checked", "unchecked"} BY <1>2 DEF Drawn
<1>7. ~ early => \A p \in Tray : job'[p].at = "idle" BY <1>1, <1>2, <1>3 DEF One
<1>8. Shape' BY <1>1, <1>3 DEF Shape
<1>9. Away' BY <1>4, <1>5 DEF Away
<1>10. One' BY <1>4, <1>7 DEF One
<1>11. Busy' BY <1>4, <1>7 DEF Busy
<1>12. Drawn' BY <1>1, <1>4, <1>6, <1>7 DEF Drawn
<1>13. QED BY <1>8, <1>9, <1>10, <1>11, <1>12

LEMMA RefreshingGuarded == ASSUME Guarded, Refreshing PROVE Guarded'
<1> DEFINE r == "refresh"
<1> USE DEF Guarded, Idle, At, AtWork
<1>1. r \in Tray /\ Tray \subseteq Operations /\ "command" \in Operations /\ r # "command"
  BY DEF Operations, Tray
<1>2. CASE Refresh
  <2>1. /\ job[r].at = "spawned" /\ startupBusy' = TRUE
        /\ UNCHANGED <<alive, startup, menu, early, trust>>
    BY <1>2 DEF Refresh, history
  <2>2. /\ DOMAIN job' = Operations /\ job'[r].at = "query"
        /\ \A p \in Operations \ {r} : job'[p] = job[p]
    BY <1>1, <1>2, Went DEF Refresh, Shape
  <2>3. Shape' BY <1>1, <2>2 DEF Shape
  <2>4. Away' BY <1>1, <2>1 DEF Away
  <2>5. One' BY <1>1, <2>1, <2>2 DEF One
  <2>6. Busy' BY <1>1, <2>1, <2>2 DEF Busy
  <2>7. Drawn' BY <1>1, <2>1, <2>2 DEF Drawn
  <2>8. QED BY <2>3, <2>4, <2>5, <2>6, <2>7
<1>3. ASSUME Query \/ ReadLegacy \/ Check PROVE Guarded'
  <2>1. /\ AtWork(r) /\ UNCHANGED <<alive, fields, menu, early, trust>>
        /\ \E place \in {"check", "read", "lastRead", "publish", "task"} : \E found, ok :
             Goto(r, place, found, ok)
    <3>1. CASE Query BY <3>1 DEF Query, history
    <3>2. CASE ReadLegacy BY <3>2 DEF ReadLegacy, history
    <3>3. CASE Check BY <3>3 DEF Check, history
    <3>4. QED BY <1>3, <3>1, <3>2, <3>3
  <2>2. QED BY <1>1, <2>1, MovesGuarded
<1>4. QED BY <1>2, <1>3 DEF Refreshing

LEMMA ProceedGuarded == ASSUME Guarded, NEW o \in Operations, Proceed(o) PROVE Guarded'
<1>1. CASE RunTask(o)
  <2>1. AtWork(o) /\ UNCHANGED <<alive, fields, menu, early, trust>>
    BY <1>1 DEF RunTask, At, AtWork, history
  <2>2. \/ \E found, ok : Goto(o, "value", found, ok)
        \/ Configured(o, FALSE)
    BY <1>1 DEF RunTask
  <2>3. QED BY <2>1, <2>2, MovesGuarded, ConfiguredGuarded
<1>2. CASE DeleteValue(o)
  <2>1. /\ AtWork(o) /\ UNCHANGED <<alive, fields, menu, early, trust>>
        /\ \E ok \in BOOLEAN : Configured(o, ok)
    BY <1>2 DEF DeleteValue, At, AtWork, history
  <2>2. QED BY <2>1, ConfiguredGuarded
<1>3. QED BY <1>1, <1>2, PublishGuarded DEF Proceed

LEMMA MenuGuarded == ASSUME Guarded, OpenMenu \/ Dismiss PROVE Guarded'
<1> USE DEF Guarded, Idle, At, AtWork, fields
<1>1. UNCHANGED <<job, alive, startup, startupBusy, trust>>
  BY DEF OpenMenu, Dismiss, history
<1>2. Shape' BY <1>1 DEF Shape
<1>3. Away'
  BY <1>1 DEF Away, OpenMenu, Dismiss
<1>4. CASE OpenMenu
  <2>1. early' = (early \/ At("refresh", "spawned")) BY <1>4 DEF OpenMenu
  <2>2. One' BY <1>1, <2>1 DEF One
  <2>3. Busy' BY <1>1, <2>1 DEF Busy
  <2>4. ~ early' => (menu' \in {"checked", "unchecked"} => \A o \in Tray : job[o].at = "idle")
    <3>1. \A o \in Tray : job[o].at # "spawned" \/ o = "refresh"
      BY DEF Shape, Operations
    <3>2. QED BY <1>4, <2>1, <3>1 DEF Busy, OpenMenu
  <2>5. Drawn'
    <3>1. ~ early' => job["refresh"].at # "spawned" BY <2>1
    <3>2. (menu' = "checked" => startup) /\ (menu' = "unchecked" => ~ startup)
      BY <1>4 DEF OpenMenu
    <3>3. QED BY <1>1, <2>4, <3>1, <3>2 DEF Drawn
  <2>6. QED BY <1>2, <1>3, <2>2, <2>3, <2>5
<1>5. CASE Dismiss
  <2>1. menu' = "closed" /\ UNCHANGED early BY <1>5 DEF Dismiss, history
  <2>2. One' BY <1>1, <2>1 DEF One
  <2>3. Busy' BY <1>1, <2>1 DEF Busy
  <2>4. Drawn' BY <2>1 DEF Drawn
  <2>5. QED BY <1>2, <1>3, <2>2, <2>3, <2>4
<1>6. QED BY <1>4, <1>5

LEMMA ToggleGuarded == ASSUME Guarded, NEW t \in Toggles, Toggle(t) PROVE Guarded'
<1> USE TogglesAssumption DEF Guarded, Idle, At, AtWork
<1>1. /\ t \in Tray /\ Tray \subseteq Operations /\ "command" \in Operations
      /\ "refresh" \in Tray /\ t \notin {"refresh", "command"}
  BY DEF Operations, Tray
<1>2. /\ menu \in {"checked", "unchecked"} /\ ~ startupBusy /\ startupBusy' = TRUE
      /\ menu' = "closed" /\ trust' = FALSE /\ UNCHANGED <<alive, startup, early>>
  BY DEF Toggle, Clicked, Ask
<1>3. alive BY <1>2 DEF Away
<1>4. \E mode : Begin(t, "task", mode) BY DEF Toggle, Ask
<1>5. /\ DOMAIN job' = Operations /\ job'[t].at = "task"
      /\ \A p \in Operations \ {t} : job'[p].at = job[p].at
      /\ \A p \in Operations \ {t} : Idle(p) => job'[p] = None
  BY <1>1, <1>4, Began
<1>6. ~ early => \A p \in Tray : job[p].at = "idle" BY <1>2 DEF Drawn
<1>7. Shape' BY <1>1, <1>5 DEF Shape
<1>8. Away' BY <1>2, <1>3 DEF Away
<1>9. One' BY <1>1, <1>2, <1>5, <1>6 DEF One
<1>10. Busy' BY <1>1, <1>2, <1>5 DEF Busy
<1>11. Drawn' BY <1>2 DEF Drawn
<1>12. QED BY <1>7, <1>8, <1>9, <1>10, <1>11

LEMMA CommandGuarded == ASSUME Guarded, Command PROVE Guarded'
<1> USE TogglesAssumption DEF Guarded, Idle, At, AtWork, fields
<1>1. /\ Tray \subseteq Operations /\ "command" \in Operations /\ "refresh" \in Tray
      /\ "command" \notin Tray
  BY DEF Operations, Tray
<1>2. trust' = FALSE /\ UNCHANGED <<alive, startup, startupBusy, menu, early>>
  BY DEF Command, Ask
<1>3. \E mode : Begin("command", "task", mode) BY DEF Command, Ask
<1>4. /\ DOMAIN job' = Operations /\ job'["command"].at = "task"
      /\ \A p \in Operations \ {"command"} : job'[p].at = job[p].at
      /\ \A p \in Operations \ {"command"} : Idle(p) => job'[p] = None
  BY <1>1, <1>3, Began
<1>5. Shape' BY <1>1, <1>4 DEF Shape
<1>6. Away' BY <1>1, <1>2, <1>4 DEF Away
<1>7. One' BY <1>1, <1>2, <1>4 DEF One
<1>8. Busy' BY <1>1, <1>2, <1>4 DEF Busy
<1>9. Drawn' BY <1>1, <1>2, <1>4 DEF Drawn
<1>10. QED BY <1>5, <1>6, <1>7, <1>8, <1>9

LEMMA UserGuarded == ASSUME Guarded, User PROVE Guarded'
<1>1. ASSUME NEW t \in Toggles, CloseBox(t) PROVE Guarded'
  <2>1. /\ t \in Operations /\ t # "command" /\ AtWork(t)
        /\ UNCHANGED <<alive, fields, menu, early, trust>>
        /\ Goto(t, "publish", FALSE, FALSE)
    BY <1>1, TogglesAssumption DEF Operations, Tray, CloseBox, At, AtWork, history
  <2>2. QED BY <2>1, MovesGuarded
<1>2. QED BY <1>1, MenuGuarded, ToggleGuarded, CommandGuarded DEF User

LEMMA LifeGuarded == ASSUME Guarded, Quit \/ Launch PROVE Guarded'
<1> USE TogglesAssumption DEF Guarded, Idle, At, AtWork
<1>1. /\ Tray \subseteq Operations /\ "command" \in Operations /\ "refresh" \in Tray
      /\ "command" \notin Tray
  BY DEF Operations, Tray
<1>2. CASE Quit
  <2>1. /\ alive' = FALSE /\ menu' = "closed" /\ startupBusy' = FALSE /\ trust' = FALSE
        /\ job' = [o \in Operations |-> IF o \in Tray THEN None ELSE job[o]]
    BY <1>2 DEF Quit
  <2>2. /\ DOMAIN job' = Operations /\ job'["command"] = job["command"]
        /\ \A o \in Tray : job'[o] = None /\ job'[o].at = "idle"
        /\ \A o \in Operations \ Tray : job'[o] = job[o]
    BY <1>1, <2>1 DEF None, Job
  <2>3. Shape' BY <1>1, <2>2 DEF Shape
  <2>4. Away' BY <2>1, <2>2 DEF Away
  <2>5. One' BY <2>2 DEF One
  <2>6. Busy' BY <2>1, <2>2 DEF Busy
  <2>7. Drawn' BY <2>1 DEF Drawn
  <2>8. QED BY <2>3, <2>4, <2>5, <2>6, <2>7
<1>3. CASE Launch
  <2>1. ~ alive /\ alive' = TRUE /\ Begin("refresh", "spawned", "enable")
        /\ UNCHANGED <<startup, startupBusy, menu, early, trust>>
    BY <1>3 DEF Launch, fields, history
  <2>2. /\ DOMAIN job' = Operations /\ job'["refresh"].at = "spawned"
        /\ \A p \in Operations \ {"refresh"} : job'[p].at = job[p].at
        /\ \A p \in Operations \ {"refresh"} : Idle(p) => job'[p] = None
    BY <1>1, <2>1, Began
  <2>3. menu = "closed" /\ ~ startupBusy /\ \A o \in Tray : job[o].at = "idle"
    BY <2>1 DEF Away
  <2>4. Shape' BY <1>1, <2>2 DEF Shape
  <2>5. Away' BY <2>1 DEF Away
  <2>6. One' BY <1>1, <2>2, <2>3 DEF One
  <2>7. Busy' BY <1>1, <2>1, <2>2, <2>3 DEF Busy
  <2>8. Drawn' BY <2>1, <2>3 DEF Drawn
  <2>9. QED BY <2>4, <2>5, <2>6, <2>7, <2>8
<1>4. QED BY <1>2, <1>3

LEMMA GuardedKept == Guarded /\ [Next]_vars => Guarded'
<1> SUFFICES ASSUME Guarded, [Next]_vars PROVE Guarded' OBVIOUS
<1>1. CASE Orphan \/ Elsewhere
  <2>1. job' = Disturbed /\ trust' = FALSE /\ UNCHANGED <<alive, fields, menu, early>>
    BY <1>1 DEF Orphan, Elsewhere
  <2>2. QED BY <2>1, DisturbedPlaces, NoneMoves DEF Guarded
<1>2. CASE UNCHANGED vars
  BY <1>2, NoneMoves DEF vars, history, Guarded, Shape
<1>3. QED
  BY <1>1, <1>2, RefreshingGuarded, ProceedGuarded, UserGuarded, LifeGuarded DEF Next

\* The busy flag says exactly whether one of the tray's goroutines is at work,
\* for any number of clicks: no two of them meet unless the menu was opened
\* before refreshStartup's goroutine had run (startupBusy, toggleStartup).
THEOREM BusyAlwaysGuards == Spec => []BusyGuards
<1>1. Guarded => BusyGuards
  <2> SUFFICES ASSUME Guarded, ~ early
               PROVE /\ \A o, p \in Active \cap Tray : o = p
                     /\ startupBusy <=> \E o \in Tray : job[o].at \notin {"idle", "spawned"}
    BY DEF BusyGuards
  <2>1. \A o \in Active \cap Tray : ~ Idle(o) BY DEF Active, Guarded, Shape
  <2>2. QED BY <2>1 DEF Guarded, One, Busy, AtWork
<1>2. QED BY <1>1, GuardedInit, GuardedKept, PTL DEF Spec

\* Only a click takes a toggle out of its rest.
LEMMA OnlyClicksBegin ==
  ASSUME Guarded, Next, NEW t \in Toggles, Idle(t), ~ Idle(t)'
  PROVE Toggle(t)
<1> USE TogglesAssumption DEF Idle, At
<1>1. /\ t \in Operations /\ "refresh" \in Operations /\ "command" \in Operations
      /\ t \notin {"refresh", "command"} /\ Toggles \subseteq Operations
  BY DEF Operations, Tray
<1>2. /\ DOMAIN job = Operations /\ job[t] = None /\ None.at = "idle" /\ Shape
  BY <1>1 DEF Guarded, Shape, None, Job
<1>3. ~ Refreshing
  <2>1. Refreshing => \E place, found, ok : Goto("refresh", place, found, ok)
    BY DEF Refreshing, Refresh, Query, ReadLegacy, Check
  <2>2. QED BY <1>1, <1>2, <2>1, Went
<1>4. ASSUME NEW o \in Operations, Proceed(o) PROVE FALSE
  <2>1. o # t BY <1>4 DEF Proceed, RunTask, DeleteValue, Publish
  <2>2. \/ job' = [job EXCEPT ![o] = None]
        \/ \E place, found, ok : Goto(o, place, found, ok)
    BY <1>4 DEF Proceed, RunTask, DeleteValue, Publish, Configured
  <2>3. job'[t] = job[t] BY <1>1, <1>2, <2>1, <2>2, Went, Gone
  <2>4. QED BY <2>3
<1>5. ~ (OpenMenu \/ Dismiss) BY DEF OpenMenu, Dismiss
<1>6. ~ Command
  <2>1. Command => \E mode : Begin("command", "task", mode) BY DEF Command, Ask
  <2>2. QED BY <1>1, <1>2, <2>1, Began
<1>7. ASSUME NEW u \in Toggles, CloseBox(u) PROVE FALSE
  <2>1. u # t /\ u \in Operations /\ \E ok : Goto(u, "publish", ok, ok)
    BY <1>1, <1>7 DEF CloseBox
  <2>2. job'[t] = job[t] BY <1>1, <1>2, <2>1, Went
  <2>3. QED BY <2>2
<1>8. ASSUME NEW u \in Toggles, Toggle(u), u # t PROVE FALSE
  <2>1. \E mode : Begin(u, "task", mode) BY <1>8 DEF Toggle, Ask
  <2>2. QED BY <1>1, <1>2, <1>8, <2>1, Began
<1>9. ~ Quit
  <2>1. Quit => job'[t] = None
    BY <1>1, <1>2 DEF Quit
  <2>2. QED BY <1>2, <2>1
<1>10. ~ Launch
  <2>1. Launch => Begin("refresh", "spawned", "enable") BY DEF Launch
  <2>2. QED BY <1>1, <1>2, <2>1, Began
<1>11. ~ (Orphan \/ Elsewhere)
  <2>1. Orphan \/ Elsewhere => job' = Disturbed BY DEF Orphan, Elsewhere
  <2>2. QED BY <1>1, <1>2, <2>1, DisturbedPlaces
<1>12. QED
  BY <1>3, <1>4, <1>5, <1>6, <1>7, <1>8, <1>9, <1>10, <1>11 DEF Next, User

\* A click does what the open menu offered, although toggleStartup decides by
\* the state at the click: nothing replaces it while the menu offers one.
THEOREM ClicksMeanOpposite == Spec => ClickMeansOpposite
<1>1. Guarded /\ [Next]_vars =>
        [\A t \in Toggles : ~ early /\ At(t, "idle") /\ ~ At(t, "idle")' =>
           job'[t].mode = IF menu = "checked" THEN "disable" ELSE "enable"]_vars
  <2> SUFFICES ASSUME Guarded, Next, NEW t \in Toggles, ~ early, At(t, "idle"), ~ At(t, "idle")'
               PROVE job'[t].mode = IF menu = "checked" THEN "disable" ELSE "enable"
    OBVIOUS
  <2>1. Toggle(t) BY OnlyClicksBegin DEF Idle
  <2>2. menu \in {"checked", "unchecked"} /\ Begin(t, "task", IF startup THEN "disable" ELSE "enable")
    BY <2>1 DEF Toggle, Clicked, Ask
  <2>3. (menu = "checked" => startup) /\ (menu = "unchecked" => ~ startup)
    BY DEF Guarded, Drawn
  <2>4. t \in Operations /\ Shape BY DEF Operations, Tray, Guarded
  <2>5. job'[t].mode = IF startup THEN "disable" ELSE "enable" BY <2>2, <2>4, Began
  <2>6. QED BY <2>2, <2>3, <2>5
<1>2. QED BY <1>1, GuardedInit, GuardedKept, PTL DEF Spec, ClickMeansOpposite

-----------------------------------------------------------------------------
(* The check mark.                                                          *)

Types ==
  /\ legacy \in BOOLEAN /\ job["refresh"].mode = "enable"
  /\ \A o \in Operations : job[o].found \in BOOLEAN /\ job[o].clean \in BOOLEAN

\* Beside an operation that still counts as clean nothing else is underway.
Clean(o) == ~ Idle(o) /\ job[o].clean

Alone == \A o \in Operations :
  Clean(o) => orphans = {} /\ \A p \in Operations \ {o} : Idle(p)

\* The task an operation leaves behind when nothing fails.
AsAsked(o) == task = IF job[o].mode = "enable" THEN "enabled" ELSE "absent"

\* What a clean operation of the tray knows of the task and the Run value.
Known(o) ==
  /\ ~ At(o, "lastRead") /\ ~ At(o, "box")
  /\ At(o, "read") => task # "enabled"
  /\ At(o, "check") => (job[o].found <=> task = "enabled" \/ legacy)
  /\ At(o, "task") /\ o = "refresh" => job[o].found
  /\ At(o, "value") => AsAsked(o) /\ (o = "refresh" => job[o].found)
  /\ At(o, "publish") => ~ legacy
  /\ At(o, "publish") /\ o = "refresh" => (job[o].found <=> task = "enabled")
  /\ At(o, "publish") /\ o # "refresh" => job[o].found /\ AsAsked(o)

Trusted == trust =>
  /\ startup = (task = "enabled") /\ ~ legacy
  /\ orphans = {} /\ \A o \in Operations : Idle(o)

Truth == Types /\ Alone /\ (\A o \in Tray : Clean(o) => Known(o)) /\ Trusted

LEMMA TruthInit == Init => Truth
<1> SUFFICES ASSUME Init PROVE Truth OBVIOUS
<1> USE DEF Idle, At, Clean
<1>1. /\ DOMAIN job = Operations /\ job["refresh"] = Job("spawned", "enable", FALSE, TRUE)
      /\ \A o \in Operations \ {"refresh"} : job[o] = None
  BY DEF Init, Operations, Tray
<1>2. "refresh" \in Tray /\ Tray \subseteq Operations BY DEF Operations, Tray
<1>3. Types BY <1>1, <1>2 DEF Init, Types, Job, None
<1>4. \A o \in Operations \ {"refresh"} : job[o].at = "idle" BY <1>1 DEF None, Job
<1>5. Alone BY <1>4 DEF Init, Alone
<1>6. Clean("refresh") => Known("refresh") BY <1>1 DEF Known, Job
<1>7. Trusted BY DEF Init, Trusted
<1>8. QED BY <1>2, <1>3, <1>4, <1>5, <1>6, <1>7 DEF Truth

\* An operation goes on: it is enough to know what it knows.
LEMMA OneTells ==
  ASSUME Truth, NEW o \in Operations, DOMAIN job' = Operations,
         \A p \in Operations \ {o} : job'[p] = job[p],
         ~ Idle(o), ~ Idle(o)', job'[o].mode = job[o].mode,
         job'[o].found \in BOOLEAN, job'[o].clean \in BOOLEAN,
         job'[o].clean => job[o].clean,
         o \in Tray /\ job[o].clean /\ job'[o].clean => Known(o)',
         legacy' \in BOOLEAN, UNCHANGED <<orphans, trust>>
  PROVE Truth'
<1> USE DEF Truth, Clean, Idle, At
<1>1. "refresh" \in Operations /\ Tray \subseteq Operations BY DEF Operations, Tray
<1>2. Types' BY <1>1 DEF Types
<1>3. \A p \in Operations \ {o} : ~ Clean(p) BY DEF Alone
<1>4. \A p \in Operations \ {o} : ~ Clean(p)' BY <1>3
<1>5. Alone' BY <1>4 DEF Alone
<1>6. \A p \in Tray : Clean(p)' => Known(p)' BY <1>1, <1>4
<1>7. Trusted' BY DEF Trusted
<1>8. QED BY <1>2, <1>5, <1>6, <1>7

\* Nothing counts as clean any more but an operation that begins alone.
LEMMA OthersTell ==
  ASSUME Truth, Shape, NEW o \in Operations, NEW place, NEW mode, Begin(o, place, mode),
         place \in {"spawned", "task"}, o = "refresh" => mode = "enable" /\ place = "spawned",
         ~ trust', UNCHANGED <<legacy, orphans>>
  PROVE Truth'
<1> USE DEF Truth, Clean, Idle, At
<1>1. /\ DOMAIN job' = Operations /\ job'[o].at = place /\ job'[o].mode = mode
      /\ job'[o].clean = ~ Underway
      /\ \A p \in Operations \ {o} : job'[p].at = job[p].at
      /\ \A p \in Operations \ {o} : Idle(p) => job'[p] = None
      /\ \A p \in Operations \ {o} : ~ Idle(p) => ~ job'[p].clean
  BY Began
<1>2. \A p \in Operations : job'[p].found \in BOOLEAN /\ job'[p].clean \in BOOLEAN
  BY DEF Shape, Types, Begin, Disturbed, Active, Underway, Job, None
<1>3. job'["refresh"].mode = "enable"
  BY <1>1, Stays DEF Shape, Types, Begin, Disturbed, Operations, Tray, Job, None
<1>4. Types' BY <1>2, <1>3 DEF Types
<1>5. \A p \in Operations \ {o} : ~ Clean(p)' BY <1>1
<1>6. Clean(o)' => orphans = {} /\ \A p \in Operations : job[p] = None
  BY <1>1 DEF Underway, Active
<1>7. Clean(o)' => \A p \in Operations \ {o} : job'[p].at = "idle"
  BY <1>1, <1>6 DEF None, Job
<1>8. Alone' BY <1>5, <1>6, <1>7 DEF Alone
<1>9. \A p \in Tray : Clean(p)' => Known(p)'
  BY <1>1, <1>5 DEF Known, Operations
<1>10. Trusted' BY DEF Trusted
<1>11. QED BY <1>4, <1>8, <1>9, <1>10

\* An operation ends; what the tray then trusts is to be shown.
LEMMA EndTells ==
  ASSUME Truth, Shape, NEW o \in Operations, job' = [job EXCEPT ![o] = None], ~ Idle(o),
         UNCHANGED orphans, legacy' \in BOOLEAN,
         trust' = trust \/ (trust' = job[o].clean
                            /\ (job[o].clean => startup' = (task' = "enabled") /\ ~ legacy'))
  PROVE Truth'
<1> USE DEF Truth, Clean, Idle, At
<1>1. /\ DOMAIN job' = Operations /\ job'[o] = None /\ job'[o].at = "idle"
      /\ \A p \in Operations \ {o} : job'[p] = job[p]
  BY Gone DEF Shape
<1>2. "refresh" \in Operations /\ Tray \subseteq Operations BY DEF Operations, Tray
<1>3. Types' BY <1>1, <1>2 DEF Types, None, Job
<1>4. \A p \in Operations \ {o} : ~ Clean(p) BY DEF Alone
<1>5. \A p \in Operations : ~ Clean(p)' BY <1>1, <1>4
<1>6. Alone' BY <1>5 DEF Alone
<1>7. ~ trust BY DEF Trusted
<1>8. trust' => job[o].clean /\ startup' = (task' = "enabled") /\ ~ legacy'
  BY <1>7
<1>9. job[o].clean => orphans = {} /\ \A p \in Operations : job'[p].at = "idle"
  BY <1>1 DEF Alone
<1>10. Trusted' BY <1>8, <1>9 DEF Trusted
<1>11. QED BY <1>2, <1>3, <1>5, <1>6, <1>10

\* What ConfigureStartup's answer tells.
LEMMA ConfiguredTells ==
  ASSUME Inv, Truth, Shape, NEW o \in Operations, NEW ok \in BOOLEAN, Configured(o, ok),
         ~ Idle(o), legacy' \in BOOLEAN, UNCHANGED <<orphans, trust>>,
         job[o].clean /\ ok => At(o, "value") /\ ~ legacy' /\ UNCHANGED task,
         o \in Tray /\ job[o].clean => Known(o)
  PROVE Truth'
<1> USE TogglesAssumption
<1>1. CASE o = "command"
  <2>1. job' = [job EXCEPT !["command"] = None] BY <1>1 DEF Configured
  <2>2. QED BY <1>1, <2>1, EndTells
<1>2. CASE o # "command"
  <2>1. PICK place \in {"publish", "box"}, found \in BOOLEAN :
          /\ Goto(o, place, found, ok)
          /\ ok => place = "publish"
          /\ IF o = "refresh" THEN found = job[o].found ELSE found = ok
    BY <1>2 DEF Configured, Truth, Types
  <2>2. /\ DOMAIN job' = Operations /\ job'[o].at = place /\ job'[o].mode = job[o].mode
        /\ job'[o].found = found /\ job'[o].clean = (job[o].clean /\ ok)
        /\ \A p \in Operations \ {o} : job'[p] = job[p]
    BY <2>1, Went DEF Shape
  <2>3. job'[o].clean => job[o].clean /\ ok BY <2>2
  <2>4. job'[o].clean \in BOOLEAN BY <2>2 DEF Truth, Types
  <2>5. o \in Tray BY <1>2 DEF Operations
  <2>6. job[o].mode \in {"enable", "disable"} /\ job["refresh"].mode = "enable"
    BY DEF Inv, Modes, Truth, Types
  <2>7. job'[o].clean => Known(o)'
    BY <2>1, <2>2, <2>3, <2>5, <2>6 DEF Known, AsAsked, At
  <2>8. ~ Idle(o)' BY <2>2 DEF Idle, At
  <2>9. QED BY <2>1, <2>2, <2>3, <2>4, <2>7, <2>8, OneTells
<1>3. QED BY <1>1, <1>2

LEMMA ProceedTells ==
  ASSUME Inv, Truth, Guarded, NEW o \in Operations, Proceed(o)
  PROVE Truth'
<1> USE TogglesAssumption
<1>1. /\ Shape /\ ~ Idle(o) /\ legacy \in BOOLEAN /\ DOMAIN job = Operations
      /\ o \in Tray /\ job[o].clean => Known(o)
      /\ job[o].mode \in {"enable", "disable"} /\ job["refresh"].mode = "enable"
      /\ job[o].found \in BOOLEAN /\ job[o].clean \in BOOLEAN
  BY DEF Proceed, RunTask, DeleteValue, Publish, At, Idle, Guarded, Shape, Truth, Clean, Types,
         Inv, Modes
<1>2. CASE RunTask(o)
  <2>1. At(o, "task") /\ UNCHANGED <<legacy, orphans, trust>> BY <1>2 DEF RunTask, history
  <2>2. CASE Configured(o, FALSE) BY <1>1, <2>1, <2>2, ConfiguredTells
  <2>3. CASE \E ok \in BOOLEAN :
               Goto(o, "value", job[o].found, ok) /\ (ok => Applied(job[o].mode))
    <3>1. PICK ok \in BOOLEAN :
            Goto(o, "value", job[o].found, ok) /\ (ok => Applied(job[o].mode))
      BY <2>3
    <3>2. /\ DOMAIN job' = Operations /\ job'[o].at = "value" /\ job'[o].mode = job[o].mode
          /\ job'[o].found = job[o].found /\ job'[o].clean = (job[o].clean /\ ok)
          /\ \A p \in Operations \ {o} : job'[p] = job[p]
      BY <1>1, <3>1, Went
    <3>3. job'[o].clean => job[o].clean /\ ok BY <3>2
    <3>4. job'[o].clean \in BOOLEAN BY <1>1, <3>2
    <3>5. o \in Tray /\ job'[o].clean => Known(o)'
      BY <1>1, <2>1, <3>1, <3>2, <3>3 DEF Known, AsAsked, Applied, At
    <3>6. ~ Idle(o)' BY <3>2 DEF Idle, At
    <3>7. QED BY <1>1, <2>1, <3>2, <3>3, <3>4, <3>5, <3>6, OneTells
  <2>4. Configured(o, FALSE) \/ \E ok \in BOOLEAN :
               Goto(o, "value", job[o].found, ok) /\ (ok => Applied(job[o].mode))
    BY <1>2 DEF RunTask
  <2>5. QED BY <2>2, <2>3, <2>4
<1>3. CASE DeleteValue(o)
  <2>1. PICK ok \in BOOLEAN : /\ Configured(o, ok) /\ legacy' \in {legacy, FALSE}
                              /\ ok => legacy' = FALSE
    BY <1>3 DEF DeleteValue
  <2>2. At(o, "value") /\ UNCHANGED <<task, orphans, trust>> BY <1>3 DEF DeleteValue, history
  <2>3. QED BY <1>1, <2>1, <2>2, ConfiguredTells
<1>4. CASE Publish(o)
  <2>1. /\ At(o, "publish") /\ job' = [job EXCEPT ![o] = None] /\ trust' = job[o].clean
        /\ UNCHANGED <<task, legacy, orphans>>
    BY <1>4 DEF Publish, system
  <2>2. o \in Tray BY <2>1 DEF Guarded, Shape, Operations
  <2>3. job[o].clean => startup' = (task = "enabled") /\ ~ legacy
    <3>1. CASE o = "refresh"
      <4>1. startup' = job[o].found BY <1>4, <3>1 DEF Publish
      <4>2. QED BY <1>1, <2>1, <2>2, <3>1, <4>1 DEF Known
    <3>2. CASE o # "refresh" /\ job[o].clean
      <4>1. startup' = (job[o].mode = "enable")
        BY <1>1, <1>4, <2>1, <2>2, <3>2 DEF Publish, Known
      <4>2. QED BY <1>1, <2>1, <2>2, <3>2, <4>1 DEF Known, AsAsked
    <3>3. QED BY <3>1, <3>2
  <2>4. QED BY <1>1, <2>1, <2>3, EndTells
<1>5. QED BY <1>2, <1>3, <1>4 DEF Proceed

LEMMA RefreshingTells == ASSUME Inv, Truth, Guarded, Refreshing PROVE Truth'
<1> DEFINE r == "refresh"
<1>1. /\ r \in Operations /\ r \in Tray /\ Shape /\ legacy \in BOOLEAN /\ DOMAIN job = Operations
      /\ job[r].found \in BOOLEAN /\ job[r].clean \in BOOLEAN /\ job[r].mode = "enable"
  BY DEF Operations, Tray, Guarded, Shape, Truth, Types
<1>2. ~ Idle(r) /\ UNCHANGED <<task, legacy, orphans, trust>>
  BY DEF Refreshing, Refresh, Query, ReadLegacy, Check, Idle, At, system, history
<1>3. job[r].clean => Known(r) BY <1>1, <1>2 DEF Truth, Clean
<1>4. ASSUME NEW place \in {"query", "read", "lastRead", "check", "task", "publish"},
             NEW found \in BOOLEAN, NEW ok \in BOOLEAN, Goto(r, place, found, ok),
             job[r].clean /\ ok =>
               /\ place # "lastRead"
               /\ place = "read" => task # "enabled"
               /\ place = "check" => (found <=> task = "enabled" \/ legacy)
               /\ place = "task" => found
               /\ place = "publish" => ~ legacy /\ (found <=> task = "enabled")
      PROVE Truth'
  <2>1. /\ DOMAIN job' = Operations /\ job'[r].at = place /\ job'[r].mode = job[r].mode
        /\ job'[r].found = found /\ job'[r].clean = (job[r].clean /\ ok)
        /\ \A p \in Operations \ {r} : job'[p] = job[p]
    BY <1>1, <1>4, Went
  <2>2. job'[r].clean => job[r].clean /\ ok BY <2>1
  <2>3. job'[r].clean \in BOOLEAN BY <1>1, <2>1
  <2>4. job'[r].clean => Known(r)' BY <1>2, <1>4, <2>1, <2>2 DEF Known, At
  <2>5. ~ Idle(r)' BY <2>1 DEF Idle, At
  <2>6. QED BY <1>1, <1>2, <2>1, <2>2, <2>3, <2>4, <2>5, OneTells
<1>5. CASE Refresh
  <2>1. \E found \in BOOLEAN, ok \in BOOLEAN : Goto(r, "query", found, ok) BY <1>5 DEF Refresh
  <2>2. QED BY <1>4, <2>1
<1>6. CASE Query
  <2>1. \/ \E found \in BOOLEAN, ok \in BOOLEAN :
             Goto(r, "check", found, ok) /\ found /\ task = "enabled"
        \/ \E found \in BOOLEAN, ok \in BOOLEAN :
             Goto(r, "read", found, ok) /\ (ok => task # "enabled")
        \/ \E found \in BOOLEAN, ok \in BOOLEAN :
             Goto(r, "lastRead", found, ok) /\ ~ ok
    BY <1>6 DEF Query
  <2>2. QED BY <1>4, <2>1
<1>7. CASE ReadLegacy
  <2>1. \/ \E found \in BOOLEAN, ok \in BOOLEAN :
             At(r, "read") /\ Goto(r, "check", found, ok) /\ (ok => found = legacy)
        \/ \E found \in BOOLEAN, ok \in BOOLEAN : Goto(r, "publish", found, ok) /\ ~ ok
    BY <1>1, <1>7 DEF ReadLegacy
  <2>2. QED BY <1>3, <1>4, <2>1 DEF Known
<1>8. CASE Check
  <2>1. PICK found \in {legacy, FALSE} :
          Goto(r, IF found THEN "task" ELSE "publish", job[r].found, found = legacy)
    BY <1>8 DEF Check
  <2>2. At(r, "check") BY <1>8 DEF Check
  <2>3. job[r].clean => (job[r].found <=> task = "enabled" \/ legacy) BY <1>3, <2>2 DEF Known
  <2>4. CASE found
    <3>1. legacy /\ \E ok \in BOOLEAN : Goto(r, "task", job[r].found, ok) BY <2>1, <2>4
    <3>2. QED BY <1>1, <1>4, <2>3, <3>1
  <2>5. CASE ~ found
    <3>1. \E ok \in BOOLEAN : Goto(r, "publish", job[r].found, ok) /\ (ok => ~ legacy)
      BY <1>1, <2>1, <2>5
    <3>2. QED BY <1>1, <1>4, <2>3, <3>1
  <2>6. QED BY <2>4, <2>5
<1>9. QED BY <1>5, <1>6, <1>7, <1>8 DEF Refreshing

LEMMA SameTells ==
  ASSUME Truth, UNCHANGED <<system, startup, job, orphans, trust>>
  PROVE Truth'
<1>1. Types' /\ Alone' /\ Trusted'
  BY DEF system, Truth, Types, Alone, Trusted, Clean, Idle, At
<1>2. \A o \in Tray : Clean(o)' => Known(o)'
  BY DEF system, Truth, Known, AsAsked, Clean, Idle, At
<1>3. QED BY <1>1, <1>2 DEF Truth

LEMMA UserTells == ASSUME Truth, Guarded, User PROVE Truth'
<1> USE TogglesAssumption
<1>1. CASE OpenMenu \/ Dismiss BY <1>1, SameTells DEF OpenMenu, Dismiss, fields, history
<1>2. ASSUME NEW o \in Operations \ {"refresh"}, NEW mode, Ask(o, mode),
             UNCHANGED <<system, orphans>>
      PROVE Truth'
  <2>1. Shape /\ Begin(o, "task", mode) /\ ~ trust' /\ UNCHANGED <<legacy, orphans>>
    BY <1>2 DEF Ask, Guarded, system
  <2>2. QED BY <2>1, OthersTell
<1>3. CASE Command BY <1>2, <1>3 DEF Command, Operations
<1>4. ASSUME NEW t \in Toggles, Toggle(t) PROVE Truth'
  <2>1. t \in Operations \ {"refresh"} BY DEF Operations, Tray
  <2>2. QED BY <1>2, <1>4, <2>1 DEF Toggle
<1>5. ASSUME NEW t \in Toggles, CloseBox(t) PROVE Truth'
  <2>1. /\ t \in Operations /\ t \in Tray /\ At(t, "box") /\ ~ Idle(t)
        /\ DOMAIN job = Operations /\ UNCHANGED <<legacy, orphans, trust>>
        /\ legacy \in BOOLEAN /\ job[t].clean \in BOOLEAN
    BY <1>5 DEF Operations, Tray, CloseBox, At, Idle, system, history, Guarded, Shape, Truth, Types
  <2>2. \E found \in BOOLEAN, ok \in BOOLEAN : Goto(t, "publish", found, ok)
    BY <1>5 DEF CloseBox
  <2>3. ~ job[t].clean BY <2>1 DEF Truth, Clean, Known
  <2>4. PICK found \in BOOLEAN, ok \in BOOLEAN : Goto(t, "publish", found, ok) BY <2>2
  <2>5. /\ DOMAIN job' = Operations /\ job'[t].at = "publish" /\ job'[t].mode = job[t].mode
        /\ job'[t].found = found /\ job'[t].clean = (job[t].clean /\ ok)
        /\ \A p \in Operations \ {t} : job'[p] = job[p]
    BY <2>1, <2>4, Went
  <2>6. job'[t].clean \in BOOLEAN /\ ~ job'[t].clean BY <2>3, <2>5
  <2>7. ~ Idle(t)' BY <2>5 DEF Idle, At
  <2>8. QED BY <2>1, <2>5, <2>6, <2>7, OneTells
<1>6. QED BY <1>1, <1>3, <1>4, <1>5 DEF User

LEMMA LifeTells == ASSUME Truth, Guarded, Quit \/ Launch PROVE Truth'
<1> USE TogglesAssumption DEF Guarded, Truth, Clean, Idle, At
<1>1. "refresh" \in Tray /\ Tray \subseteq Operations BY DEF Operations, Tray
<1>2. CASE Quit
  <2>1. /\ job' = [o \in Operations |-> IF o \in Tray THEN None ELSE job[o]]
        /\ \E left \in SUBSET {job[o].mode : o \in {p \in Tray : At(p, "task")}} :
             orphans' = orphans \cup left
        /\ trust' = FALSE /\ UNCHANGED legacy
    BY <1>2 DEF Quit, system
  <2>2. /\ \A o \in Tray : job'[o] = None /\ job'[o].at = "idle"
        /\ \A o \in Operations \ Tray : job'[o] = job[o]
    BY <1>1, <2>1 DEF None, Job
  <2>3. Types' BY <1>1, <2>1, <2>2 DEF Types, None, Job
  <2>4. Alone'
    <3>1. ASSUME NEW o \in Operations, Clean(o)'
          PROVE orphans' = {} /\ \A p \in Operations \ {o} : job'[p].at = "idle"
      <4>1. o \notin Tray /\ Clean(o) BY <2>2, <3>1
      <4>2. orphans = {} /\ \A p \in Operations \ {o} : job[p].at = "idle"
        BY <4>1 DEF Alone
      <4>3. orphans' = {} BY <1>1, <2>1, <4>1, <4>2
      <4>4. QED BY <2>2, <4>2, <4>3
    <3>2. QED BY <3>1 DEF Alone
  <2>5. \A o \in Tray : ~ Clean(o)' BY <2>2
  <2>6. Trusted' BY <2>1 DEF Trusted
  <2>7. QED BY <2>3, <2>4, <2>5, <2>6
<1>3. CASE Launch
  <2>1. ~ trust BY <1>3 DEF Launch, Away
  <2>2. /\ Begin("refresh", "spawned", "enable") /\ ~ trust' /\ UNCHANGED <<legacy, orphans>>
        /\ "refresh" \in Operations
    BY <1>1, <1>3, <2>1 DEF Launch, system, history
  <2>3. QED BY <2>2, OthersTell
<1>4. QED BY <1>2, <1>3

LEMMA BesideTells == ASSUME Modes, Truth, Shape, Orphan \/ Elsewhere PROVE Truth'
<1> USE DEF Truth, Clean, Idle, At
<1>1. job' = Disturbed /\ trust' = FALSE /\ UNCHANGED legacy
  BY DEF Orphan, Elsewhere
<1>2. /\ DOMAIN job' = Operations
      /\ \A o \in Operations : job'[o].at = job[o].at /\ job'[o].mode = job[o].mode
      /\ \A o \in Operations : ~ Idle(o) => ~ job'[o].clean
  BY <1>1, DisturbedPlaces, Stays
<1>3. \A o \in Operations : job'[o].found \in BOOLEAN /\ job'[o].clean \in BOOLEAN
  BY <1>1 DEF Types, Disturbed, Job, None
<1>4. "refresh" \in Operations /\ Tray \subseteq Operations BY DEF Operations, Tray
<1>5. Types' BY <1>1, <1>2, <1>3, <1>4 DEF Types
<1>6. \A o \in Operations : ~ Clean(o)' BY <1>2
<1>7. Alone' BY <1>6 DEF Alone
<1>8. Trusted' BY <1>1 DEF Trusted
<1>9. QED BY <1>4, <1>5, <1>6, <1>7, <1>8

LEMMA TruthKept == Inv /\ Guarded /\ Truth /\ [Next]_vars => Truth'
<1> SUFFICES ASSUME Inv, Guarded, Truth, [Next]_vars PROVE Truth' OBVIOUS
<1>1. CASE Orphan \/ Elsewhere BY <1>1, BesideTells DEF Inv, Guarded
<1>2. CASE UNCHANGED vars BY <1>2, SameTells DEF vars, fields, history
<1>3. QED
  BY <1>1, <1>2, RefreshingTells, ProceedTells, UserTells, LifeTells DEF Next

\* An operation that met no failure and no other leaves the check mark true and
\* the legacy value gone, whatever was left behind before it, and so it stays
\* until somebody changes the task (refreshStartup, toggleStartup).
THEOREM MenuTellsTruthAlways == Spec => []MenuTellsTruth
<1> DEFINE All == Inv /\ Guarded /\ Truth
<1>1. Init => All BY InvInit, GuardedInit, TruthInit
<1>2. All /\ [Next]_vars => All' BY InvNext, GuardedKept, TruthKept
<1>3. All => MenuTellsTruth BY DEF Truth, Trusted, MenuTellsTruth
<1>4. QED BY <1>1, <1>2, <1>3, PTL DEF Spec

-----------------------------------------------------------------------------
(* The item comes back.                                                     *)

\* Calls an operation has still to make at a place, at most.
Ahead(place) ==
  CASE place = "spawned"              -> 8
    [] place = "query"                -> 7
    [] place \in {"read", "lastRead"} -> 6
    [] place = "check"                -> 5
    [] place = "task"                 -> 4
    [] place = "value"                -> 3
    [] place = "box"                  -> 2
    [] place = "publish"              -> 1
    [] OTHER                          -> 0

BusyHasWork == startupBusy => \E o \in Tray : AtWork(o)

\* o stays, ends, begins, or comes nearer to its end.
Onward(o) ==
  \/ job'[o].at \in {job[o].at, "idle"} \/ Idle(o)
  \/ Ahead(job'[o].at) < Ahead(job[o].at)

ItemOnItsWay == []BusyHasWork /\ [][\A o \in Operations : Onward(o)]_vars

\* One operation goes on; the flag is not set without it.
Works(o) ==
  /\ \A p \in Operations \ {o} : job'[p].at = job[p].at
  /\ Onward(o)
  /\ startupBusy' => \/ startupBusy /\ (o \in Tray /\ AtWork(o) => AtWork(o)')
                     \/ o \in Tray /\ AtWork(o)'

LEMMA WorksOn ==
  ASSUME BusyHasWork, NEW o \in Operations, Works(o)
  PROVE  BusyHasWork' /\ \A p \in Operations : Onward(p)
<1>1. \A p \in Operations : Onward(p) BY DEF Works, Onward
<1>2. ASSUME startupBusy' PROVE \E p \in Tray : AtWork(p)'
  <2>1. CASE o \in Tray /\ AtWork(o)' BY <2>1
  <2>2. CASE ~ (o \in Tray /\ AtWork(o)')
    <3>1. startupBusy /\ (o \in Tray => ~ AtWork(o)) BY <1>2, <2>2 DEF Works
    <3>2. PICK p \in Tray : AtWork(p) BY <3>1 DEF BusyHasWork
    <3>3. p \in Operations \ {o} BY <3>1, <3>2 DEF Operations
    <3>4. AtWork(p)' BY <3>2, <3>3 DEF Works, AtWork
    <3>5. QED BY <3>4
  <2>3. QED BY <2>1, <2>2
<1>3. QED BY <1>1, <1>2 DEF BusyHasWork

LEMMA Order ==
  /\ Ahead("spawned") = 8 /\ Ahead("query") = 7 /\ Ahead("read") = 6 /\ Ahead("lastRead") = 6
  /\ Ahead("check") = 5 /\ Ahead("task") = 4 /\ Ahead("value") = 3
  /\ Ahead("box") = 2 /\ Ahead("publish") = 1
BY DEF Ahead

\* A call moves its operation from one place to a nearer one.
LEMMA CallWorks ==
  ASSUME Guarded, NEW o \in Tray, NEW place, NEW found, NEW ok, Goto(o, place, found, ok),
         Ahead(place) < Ahead(job[o].at), place \notin {"idle", "spawned"}
  PROVE  Works(o)
<1>1. o \in Operations BY DEF Operations
<1>2. job'[o].at = place /\ \A p \in Operations \ {o} : job'[p].at = job[p].at
  BY <1>1, Went DEF Guarded, Shape
<1>3. QED BY <1>2 DEF Works, Onward, AtWork

LEMMA RefreshingWorks == ASSUME Guarded, Refreshing PROVE Works("refresh")
<1> USE DEF At
<1>1. "refresh" \in Tray BY DEF Tray
<1>2. ASSUME NEW was, job["refresh"].at = was, NEW place,
             \E found, ok : Goto("refresh", place, found, ok),
             Ahead(place) < Ahead(was), place \notin {"idle", "spawned"}
      PROVE Works("refresh")
  BY <1>1, <1>2, CallWorks
<1>3. CASE Refresh
  <2>1. job["refresh"].at = "spawned" /\ \E found, ok : Goto("refresh", "query", found, ok)
    BY <1>3 DEF Refresh
  <2>2. QED BY <1>2, <2>1, Order
<1>4. CASE Query
  <2>1. /\ job["refresh"].at = "query"
        /\ \E place \in {"check", "read", "lastRead"} : \E found, ok :
             Goto("refresh", place, found, ok)
    BY <1>4 DEF Query
  <2>2. QED BY <1>2, <2>1, Order
<1>5. CASE ReadLegacy
  <2>1. /\ job["refresh"].at \in {"read", "lastRead"}
        /\ \E place \in {"check", "publish"} : \E found, ok : Goto("refresh", place, found, ok)
    BY <1>5 DEF ReadLegacy
  <2>2. QED BY <1>2, <2>1, Order
<1>6. CASE Check
  <2>1. /\ job["refresh"].at = "check"
        /\ \E place \in {"task", "publish"} : \E found, ok : Goto("refresh", place, found, ok)
    BY <1>6 DEF Check
  <2>2. QED BY <1>2, <2>1, Order
<1>7. QED BY <1>3, <1>4, <1>5, <1>6 DEF Refreshing

LEMMA ConfiguredWorks ==
  ASSUME Guarded, NEW o \in Operations, NEW ok, Configured(o, ok),
         job[o].at \in {"task", "value"}, UNCHANGED startupBusy
  PROVE  Works(o)
<1> USE TogglesAssumption
<1>1. CASE o = "command"
  <2>1. o \notin Tray BY <1>1 DEF Tray
  <2>2. job'[o].at = "idle" /\ \A p \in Operations \ {o} : job'[p].at = job[p].at
    BY <1>1, Gone DEF Configured, Guarded, Shape
  <2>3. QED BY <2>1, <2>2 DEF Works, Onward
<1>2. CASE o # "command"
  <2>1. PICK place \in {"publish", "box"} : \E found : Goto(o, place, found, ok)
    BY <1>2 DEF Configured
  <2>2. Ahead(place) < Ahead(job[o].at) BY Order
  <2>3. o \in Tray BY <1>2 DEF Operations
  <2>4. QED BY <2>1, <2>2, <2>3, CallWorks
<1>3. QED BY <1>1, <1>2

LEMMA ProceedWorks == ASSUME Guarded, NEW o \in Operations, Proceed(o) PROVE Works(o)
<1>1. CASE RunTask(o)
  <2>1. job[o].at = "task" /\ UNCHANGED startupBusy BY <1>1 DEF RunTask, At, fields
  <2>2. CASE Configured(o, FALSE) BY <2>1, <2>2, ConfiguredWorks
  <2>3. CASE \E found, ok : Goto(o, "value", found, ok)
    <3>1. job'[o].at = "value" /\ \A p \in Operations \ {o} : job'[p].at = job[p].at
      BY <2>3, Went DEF Guarded, Shape
    <3>2. Ahead("value") < Ahead("task") BY Order
    <3>3. QED BY <2>1, <3>1, <3>2 DEF Works, Onward, AtWork
  <2>4. QED BY <1>1, <2>2, <2>3 DEF RunTask
<1>2. CASE DeleteValue(o)
  <2>1. job[o].at = "value" /\ UNCHANGED startupBusy BY <1>2 DEF DeleteValue, At, fields
  <2>2. \E ok : Configured(o, ok) BY <1>2 DEF DeleteValue
  <2>3. QED BY <2>1, <2>2, ConfiguredWorks
<1>3. CASE Publish(o)
  <2>1. job' = [job EXCEPT ![o] = None] /\ startupBusy' = FALSE BY <1>3 DEF Publish
  <2>2. job'[o].at = "idle" /\ \A p \in Operations \ {o} : job'[p].at = job[p].at
    BY <2>1, Gone DEF Guarded, Shape
  <2>3. QED BY <2>1, <2>2 DEF Works, Onward
<1>4. QED BY <1>1, <1>2, <1>3 DEF Proceed

\* A click, a command and a launch begin what was idle.
LEMMA BeginWorks ==
  ASSUME Guarded, NEW o \in Operations, NEW place, NEW mode, Begin(o, place, mode), Idle(o),
         UNCHANGED startupBusy \/ (o \in Tray /\ place = "task")
  PROVE  Works(o)
<1>1. job'[o].at = place /\ \A p \in Operations \ {o} : job'[p].at = job[p].at
  BY Began DEF Guarded
<1>2. ~ AtWork(o) BY DEF Idle, At, AtWork
<1>3. QED BY <1>1, <1>2 DEF Works, Onward, AtWork

LEMMA ItemKept ==
  ASSUME Guarded, BusyHasWork, [Next]_vars
  PROVE  BusyHasWork' /\ \A o \in Operations : Onward(o)
<1> USE TogglesAssumption
<1>1. "refresh" \in Operations /\ "command" \in Operations /\ Toggles \subseteq Operations
      /\ Tray \subseteq Operations /\ "refresh" \in Tray /\ Toggles \subseteq Tray
  BY DEF Operations, Tray
<1>2. ASSUME UNCHANGED startupBusy, \A o \in Operations : job'[o].at = job[o].at
      PROVE BusyHasWork' /\ \A o \in Operations : Onward(o)
  BY <1>1, <1>2 DEF BusyHasWork, Onward, AtWork
<1>3. CASE Refreshing BY <1>1, <1>3, RefreshingWorks, WorksOn
<1>4. CASE \E o \in Operations : Proceed(o) BY <1>4, ProceedWorks, WorksOn
<1>5. CASE OpenMenu \/ Dismiss \/ UNCHANGED vars
  BY <1>2, <1>5 DEF OpenMenu, Dismiss, fields, vars
<1>6. CASE Command
  <2>1. Idle("command") /\ UNCHANGED startupBusy /\ \E mode : Begin("command", "task", mode)
    BY <1>6 DEF Command, Ask, Idle, fields
  <2>2. QED BY <1>1, <2>1, BeginWorks, WorksOn
<1>7. ASSUME NEW t \in Toggles, Toggle(t)
      PROVE BusyHasWork' /\ \A o \in Operations : Onward(o)
  <2>1. Idle(t) /\ \E mode : Begin(t, "task", mode)
    BY <1>7 DEF Toggle, Clicked, Ask, Idle
  <2>2. QED BY <1>1, <2>1, BeginWorks, WorksOn
<1>8. ASSUME NEW t \in Toggles, CloseBox(t)
      PROVE BusyHasWork' /\ \A o \in Operations : Onward(o)
  <2>1. job[t].at = "box" /\ \E found, ok : Goto(t, "publish", found, ok)
    BY <1>8 DEF CloseBox, At
  <2>2. Works(t) BY <1>1, <2>1, Order, CallWorks
  <2>3. QED BY <1>1, <2>2, WorksOn
<1>9. CASE Quit
  <2>1. startupBusy' = FALSE
        /\ job' = [o \in Operations |-> IF o \in Tray THEN None ELSE job[o]]
    BY <1>9 DEF Quit
  <2>2. \A o \in Operations : job'[o].at \in {job[o].at, "idle"} BY <2>1 DEF None, Job
  <2>3. QED BY <2>1, <2>2 DEF BusyHasWork, Onward
<1>10. CASE Launch
  <2>1. Begin("refresh", "spawned", "enable") /\ Idle("refresh") /\ UNCHANGED startupBusy
    BY <1>1, <1>10 DEF Launch, Guarded, Away, fields
  <2>2. QED BY <1>1, <2>1, BeginWorks, WorksOn
<1>11. CASE Orphan \/ Elsewhere
  <2>1. job' = Disturbed /\ UNCHANGED startupBusy BY <1>11 DEF Orphan, Elsewhere, fields
  <2>2. QED BY <1>2, <2>1, DisturbedPlaces DEF Guarded
<1>12. QED
  BY <1>3, <1>4, <1>5, <1>6, <1>7, <1>8, <1>9, <1>10, <1>11 DEF Next, User

\* The menu item is never gray for nothing: while the flag is set, even after a
\* menu that was opened too early, one of the tray's goroutines is at work, and
\* every operation, however its calls end, makes eight calls at most.  What
\* ItemComesBack still needs is that each call ends (20 s for PowerShell).
THEOREM ItemStaysOnItsWay == Spec => ItemOnItsWay
<1>1. Init => BusyHasWork BY DEF Init, BusyHasWork
<1>2. Guarded /\ BusyHasWork /\ [Next]_vars =>
        BusyHasWork' /\ [\A o \in Operations : Onward(o)]_vars
  BY ItemKept
<1>3. QED BY <1>1, <1>2, GuardedInit, GuardedKept, PTL DEF Spec, ItemOnItsWay
=============================================================================
