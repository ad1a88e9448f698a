# A verification development for jlu-drcom-win

jlu-drcom-win is a Windows tray program that logs a computer in to the campus
network of Jilin University with the Dr.COM protocol over UDP and keeps the login
alive. This directory holds TLA+ modules that model its logic, TLC configurations
that check them on small instances, and TLAPS proofs of the properties that matter
most. All paths below are relative to `src/`.

## Inventory

| Component | State it keeps | Operations | Interacts with | What is hard | What makes it correct |
|---|---|---|---|---|---|
| Packets, matcher (`internal/protocol`) | none | `Build*`, `Parse*`, `ResponseMatcher` | called by Runner; matcher is a callback of `Exchange` | replies without transaction id; lengths that tell login from logout; a length field that is not the length; sequence modulo 256; offsets that move with the password | a datagram answers one request only; what matches also parses; no server reply is filtered out; no builder overwrites or overruns |
| Digests (`internal/protocol/crypto.go`) | none | MD5, XOR, ROR, Checksum, CRC | builders | integer width, padding | the bytes they cover are final when they are taken |
| UDP transport (`internal/transport/udp.go`) | the socket and its deadline | `Exchange`, `Close` | Runner; a callback goroutine of `context.AfterFunc` | owner and callback both set the deadline; two clocks (socket, context) | no exchange inherits a deadline; cancellation interrupts; `ErrTimeout` means a time-out |
| Retries (`internal/transport/retry.go`) | attempt counter | `RetryExchange` | Runner | late answers to an earlier attempt | bounded; only time-outs are retried |
| Session (`internal/runner/runner.go`) | salts, tokens, `HeartbeatCount`, state | `Login`, `HeartbeatOnce`, `KeepAliveAuth`, `Logout`, `Run` | transport below, Supervisor above (`OnState`, context, error) | loss, duplication, reordering; cancellation anywhere; deferred logout | client and server count alike; only own replies accepted; rejection is genuine; a cancelled session ends and logs out |
| Supervisor (`internal/runner/supervisor.go`) | pause | `Run` | configuration, transport, Runner, tray | network and file change under it; cancellation anywhere | final errors only end it; fresh configuration each time; port released; pause follows failures |
| Configuration, adapter choice (`internal/config`) | none | `Load`, `ParseWithDetector`, `AutoDetectNetwork`, `Validate` | Supervisor, builders | classification of errors; ambiguity; order of enumeration; automatic and fixed keys mixed | never guesses an adapter; one address of one adapter; limits fit the packets; only a missing network is retried |
| Tray (`internal/trayapp/app_windows.go`, `lifecycle_windows.go`) | `App` fields, icon | window messages, menu, power events, worker goroutine | Supervisor through context and `OnState`; Windows | messages against goroutine; nested message loop of the menu; suspend, shutdown, Explorer restart | one worker; status and tooltip settle; login intent survives sleep, never logout; exit ends |
| Startup task (`startup_windows.go`, `toggleStartup`, `refreshStartup`) | busy flag, task, Run value | query, enable, disable | PowerShell, registry, `-startup` in another process | overlapping goroutines, half-done migration, PowerShell killed after its work | menu tells the truth; a click does what it offered; the automatic start is never lost |
| Instance, log (`cmd/drcom-tray/main.go`, `internal/logging`) | mutex, file and size | acquire, write, rotate | all | failing calls and kills during rotation; order of deferred calls | one writer; bounded size; newest lines kept |
| Interface pinning, scripts, CI | – | – | – | – | not part of the logic |

Control flows down by calls (tray → Supervisor → Runner → RetryExchange →
Exchange → matcher), cancellation down by one `context.Context`, status up by
the `OnState` callback and, in the tray, by posted window messages.

## Modules

| Module | Models | Over |
|---|---|---|
| `ResponseMatcher` | the matcher, parsers and request headers, as operators | – |
| `ReplyFilter`, `MCReplyFilter` | the receive buffer and what the matcher makes of each datagram | `ResponseMatcher` |
| `UdpExchange` | `Transport.Exchange` line by line: owner, callback, context, clock | – |
| `DrcomSession`, `MCSession` | `Runner.Run` with retries, exchange, logout; network; server | `ResponseMatcher` |
| `RunnerContract` | abstract: what `Runner.Run` promises its owner | – |
| `Supervisor` | `Supervisor.Run`, configuration and adapters | an instance of `RunnerContract` |
| `WorkerContract` | abstract: what `Supervisor.Run` promises the tray | – |
| `TrayApp` | window thread, worker goroutine, Windows, the user | an instance of `WorkerContract` |
| `StartupTask` | "Start with Windows": two goroutines of the tray, the command line, PowerShell, the registry | – |
| `PacketLayout` | where each builder writes, as operators | – |
| `ConfigLoad`, `MCConfig` | `ParseWithDetector`, adapter selection, `Validate` | `PacketLayout` |
| `InstanceLog` | the instance mutex, `run()` and the rotating log, for several processes | – |
| `DrcomSessionProofs`, `ReplyFilterProofs`, `UdpExchangeProofs`, `ConfigLoadProofs`, `InstanceLogProofs`, `SupervisorProofs`, `TrayAppProofs`, `StartupTaskProofs` | theorems | the module in the name |

The chain `DrcomSession` ⇒ `RunnerContract`, `Supervisor` (over `RunnerContract`) ⇒
`WorkerContract`, `TrayApp` (over `WorkerContract`) composes the tray, the loop and
the session through what each promises the next. Both implications are checked
(`ImplementsContract`, `ImplementsWorker`), and their safety parts proved.

**Datagrams.** The matcher reads a datagram's length and its bytes 0, 1, 2..3, 4
and 5, so a datagram is the record of these. Salts, tokens, digests and random
bytes are left out: no decision of the client depends on them.

**DrcomSession.** `step` is the place in `Login`/`HeartbeatOnce`/`Logout`, `io` the
place in `RetryExchange`/`Exchange`, `attempt` the loop variable, `count`
`HeartbeatCount`. A datagram, once sent, stays in `requests` or `replies` and may be
received any number of times, in any order, or never; this covers loss,
duplication, delay and reordering at once. It ages away after `Lifetime` heartbeat
numbers. `Stale` is what the network holds from before. The server answers with the
shapes the repository documents, holds or forgets a session, and refuses what it
does not hold. `valid`, `held`, `seen` are the server's.

**UdpExchange.** `pc` is the line of `Exchange`. The callback of `AfterFunc` is a
goroutine that may be stopped (`registered`) or runs (`callbacks`). `Past` is the
deadline `time.Now()` that fails blocked calls at once. A context deadline passes
before the context is done: its timer may be late. In `DrcomSession` the same call
is taken as this module delivers it: a deadline of its own, a context that
interrupts it.

**Supervisor.** `RunQuietly` and `RunOnline` are steps of `RunnerContract`, which
`DrcomSession` is shown to implement (`ImplementsContract`), so the two models fit.
The configuration is the recommended one, `ip` and `mac` automatic; with fixed
addresses a lost adapter fails in `Open` instead of `Load`. `usable` counts the
addresses of each adapter, because two are already ambiguous.

**WorkerContract.** A running worker reports states; it returns a permanent error at
any time, or a cancelled one when its context is done; once cancelled it returns.
`ImplementsWorker` says that every missing network, time-out, failed bind and refused
heartbeat of `Supervisor` stays inside the loop. The choice between two equally good
adapters does not: `ambiguous` is a permanent outcome, also at a reconnect.

**TrayApp.** One action per handler of the window thread, which handles one message
at a time; two calls let others in and are split: the open menu and the wait of
`WM_ENDSESSION`. `posted` is a set, which is sound because handlers are idempotent
for `wmStatus` and no other kind is queued twice with a different meaning.
Power events other than suspend and resume evaluate the same restart condition;
`WantedIsServed` says it is then false. The worker's steps are those of
`WorkerContract`, refined by the two messages it posts.

**StartupTask.** `job` holds each operation's place, one call of PowerShell or the
registry per action; effect and answer of a call are independent, because PowerShell
may be killed at its 20 s limit after its work. `orphans` are the modes of the
PowerShells that the ends of trays left running, any number of them: an end without
removal stands for one that leaves another of its mode. A `-startup` process ends only
when its call has. A script that cannot get the task takes it for absent
(`SilentlyContinue`), so a disable may succeed without an effect and a query find
nothing. Three history variables say when a property applies: `trust` (the tray's
last operation had no failing call and overlapped nothing), `declined` (a disable
was asked for), `early` (the menu was opened before `refreshStartup`'s goroutine
had run: `startupBusy` is set inside it, so such a click may overlap the refresh).

**ConfigLoad.** A file is the record of what the code tells apart in each key, the
machine a sequence of addresses in the order the system lists them. `Scan` is one
iteration of `selectAutoNetwork` with its three variables. Names and hints are
compared through the relations `Exact`, `Part` and `Virtual`, which are constants:
the theorems hold for every table of names. What is accepted gives the lengths
`PacketLayout` lays the packets out for; a write is its place and length, in the
order of the code, and a digest also how far the bytes it covers reach.

**InstanceLog.** `main` is the line of `run()`, `writer` the line of
`RotatingWriter.Write`, whose lock makes a write without rotation one step. Log
lines carry numbers, so that the property can say which are kept; a write cut
short leaves a `Part`. Any call fails; any process is killed anywhere.

## Runs

| Run | Bounds | Shows |
|---|---|---|
| `ReplyFilter` | 13,205 datagrams: every length, marker, phase and number around every comparison, and every server reply | `OneClaimant`, `MatchImpliesParse`, `ServerRepliesPass` |
| `UdpExchange` | time-out 2, context deadlines in 1 or 3 (before and after the time-out) or none, clock to 5; any number of exchanges and contexts | `TypeOK`, `NotPoisoned`, `QuietBetweenCalls`, `TimeoutIsOwn`, `CancelInterrupts` |
| `Session` | 1 retry, datagrams live 3 numbers, rounds start below number 5 (first and later rounds), a stranger's datagrams | `TypeOK`, `AcceptsOnlyOwn`, `ServerInStep`, `RejectionIsGenuine`, `ImplementsContract`, `CancelEnds` |
| `SessionWrap` | no retry, lifetime 2, numbers to 260: past the wrap at 256 and twelve extra heartbeats | `ExtraNeverSkipped` |
| `Supervisor` | 2 adapters with 0, 1 or more addresses, any hint, 3 kinds of configuration file, all changing at any time; pauses to the cap | `PauseFollowsFailures`, `PortFreeBetweenSessions`, `CancelledNeverReconnects`, `LeavesLostAdapter`, `ImplementsWorker` |
| `TrayApp` | three reported states | `TypeOK`, `OneWorker`, `IdleSaysSo`, `TipCatchesUp`, `WantedIsServed`, `NoWorkAsleep`, `LogoutSticks`, `QuitWaits`, `ExitEnds` |
| `StartupTask` | two clicks, the refresh and one command at a time; restarts, failures and changes elsewhere without a bound | `MenuTellsTruth`, `BusyGuards`, `StartSurvives`, `ClickMeansOpposite`, `ItemComesBack` |
| `Config` | 9 addresses of 7 adapters in every order of up to 3, 100 files of `ip`, `mac`, `hint`; password lengths 0 to 256 with the other strings at and beyond their limits | `SelectsUniqueBest`, `AcceptedIsOneAdapter`, `PacketsSound` |
| `InstanceLog` | 3 processes, 5 lines of 1 or 2 bytes, files of 3 | `OneWriter`, `NewestKept`, `LogsBounded` |

Why these bounds are enough: one retry distinguishes a first, a repeated and a
last attempt; a lifetime of 3 lets replies of the previous two heartbeats meet the
current one; strangers differ from the server in their address only. `MaxCount`
stops new rounds and nothing else: a session asleep at the bound can still be
cancelled. The wrap run has no retries because it asks about numbers only, and the
proofs cover all values. The run `Session` stops long before the number wraps at 256:
that an old reply whose number is the same modulo 256 is neither accepted nor counted
is what `OwnRepliesOnly` and `CountsAgree` prove, for every count and every lifetime up
to 256; the run shows the same two properties under retries, loss,
duplicates and reordering. The states of the tray and of the startup item are finite
without a bound; two clicks are enough because the busy flag can only be missed by the
first. Three addresses are a best one, one that ties with it and one worse or better that
comes between, before or after; the proof covers longer lists. Three processes are
a tray, a second start and a third that meets the second's handle; five lines in
files of at most three fill both files and push the oldest out. A line longer than
the limit is left out (`SizesAssumption`): lines are some hundred bytes, the limit
4 MiB. A line that arrives while no file is open, because a rotation has failed, is
lost and counts neither as kept nor as a gap.

Three more runs state what the documentation says and find the code doing otherwise:

- `SessionLateRefusal` (`RejectionIsGenuine` with `Stale` a late refusal): the
  matcher tests for the marker `0x05` before anything else
  (`internal/protocol/response.go:17`), so the refusal of a keepalive of the
  previous session, late on the same fixed port, is read as a rejected login and
  ends the automatic retries of a valid account.
- `SessionLogout` (`LogoutAttempted`): `Run` returns at `runner.go:113`, before the
  logout is deferred, when it is cancelled while the login reply is on its way; a
  session the server has opened is left without a logout attempt.
- `TrayAppFailure` (`FailureIsShown`): a permanent failure handled while suspended
  is shown as `Suspended` (`app_windows.go:435`); the resume restarts nothing,
  since `desired` is cleared, and the text stays.

Design choices worth knowing, which no document contradicts and no run is about: two equally
good adapters at the moment of a reconnect end the automatic retries
(`ambiguous` in `ImplementsWorker`); after a failed rotation the process logs nothing more
until it is restarted; a second start holds a handle of the mutex while it returns,
and a third that meets only this handle returns too.

## Fairness

- `DrcomSession!FairSpec`: weak fairness of the client's next step. Every blocking
  call has a deadline and the goroutine is scheduled. Nothing is assumed of the
  network, the server or the 1.5 s logout timer, so `CancelEnds` rests on the
  retry bound alone.
- `UdpExchange!FairSpec`: both goroutines run, and a write or read on a past deadline
  fails. The clock is not assumed to advance, so `CancelInterrupts` cannot be due to
  the time-out.
- `Supervisor!FairSpec`: the loop runs and pauses end; a session that is cancelled ends
  (`CancelEnds` of `DrcomSession`), and so does one whose adapter has no address any
  more, because its exchanges time out. Neither the network nor a bind is assumed to
  succeed.
- `TrayApp!FairSpec`: the thread handles each kind of message it has, `WM_QUIT`
  closes an open menu, the worker goroutine runs. Strong fairness is asked of two
  steps: the return of a worker whose context is done, which reports may interrupt
  only finitely often (`CancelReturns`, which `Supervisor` is shown to promise), and
  `Leave`, because `GetMessage` returns `WM_QUIT` when the queue is empty and only
  finitely many messages are posted after it.
- `StartupTask!FairSpec`: the goroutines run and their calls end, PowerShell at its 20 s
  limit. The user is not assumed to close a message box, so `ItemComesBack` excepts it.

## Proofs

All theorems hold for every value of the constants that satisfies the named
assumptions.

`DrcomSessionProofs`. The assumptions are `RetryCount \in Nat`,
`Lifetime \in 1..256` (a datagram does not outlive 256 heartbeat numbers, some 40
minutes at the default interval), `MaxCount \in Nat` and `Stale` a set of datagrams. `SessionTypes` and
`ExtraOnTime` need no more; `OwnRepliesOnly`, `OnlyBadAccountsRejected` and
`CountsAgree` also assume `NoStale`: the server has no datagram under way when the
session begins (without it `SessionLateRefusal` is the counterexample). The
inductive invariant has four parts, checked together:
`Typed`; `Cadence`, which relates `count` modulo 21 to the step (rounds begin at a
number that is odd modulo 21 or a multiple of it, so a round never steps over
one); `Traffic`, that everything under way was caused by this session, carries a
number in the window `(count - Lifetime, count]`, and that replies are the
server's replies to their own request; and `InStep`, which ties `seen` to `count`
at every step, because a heartbeat number can only be advanced by a reply to it.
`AcceptsOnlyOwn` follows from `Traffic` and the arithmetic fact that two numbers in
a window of at most 256 with equal residues modulo 256 are equal. None of the
properties is inductive alone: `ServerInStep` needs to know that an accepted reply
is the own one, and that needs the window.

`SessionKeepsContract` is the refinement: every step of `DrcomSession` is one
of `RunnerContract` or a stutter, since each exchange ends in one of two ways, and the
contract's phase is a function of `step`. It needs one invariant more, `Staged`: the
contract's state may only move forward, so the state last reported has to be known at
the exchange that fails or succeeds.

`CancelledCountsDown` is what `CancelEnds` rests on besides fairness: once cancelled,
each step of the session itself lowers `Budget`, nothing else raises it, and it starts
at `6 * RetryCount + 13` or less. The bound counts the two exchanges of the logout with
all their attempts, at most three steps each; outside the logout it has to grant one
success of the exchange under way and one wrong choice of Go's `select` in the pause,
both of which the code allows after a cancellation.

`ReplyFilterProofs`. `NeverTwoClaimants` and `MatchedReplyParses`, for datagrams of
every length and content: the matcher is unfolded per request kind (`RequestKinds`)
and any two unfoldings are contradictory unless they are of one kind or first,
extra and step1 heartbeats of one number. `OwnRepliesPass`: every shape of reply the
server sends to a request passes the filter of that request, for every set of numbers.

`UdpExchangeProofs`. `ExchangeTypes`, `NeverPoisoned`, `AlwaysQuietBetweenCalls`,
`TimeoutsAreOwn`. The invariant adds to the types `HandOver`, who may still set the
deadline at each line (a stoppable callback belongs to a living context, a running one
to a dead one, neither outlives the wait for `finished`), and `Deadlines`, what the
deadline is while only the owner has set it. `ExchangeNeverStuck` adds that a blocked
write or read always has a deadline no later than the call's own, and that if its
context has ended the deadline is past already or the callback that will make it so has
started: a cancellation is not lost between any two lines of `Exchange`.

`SupervisorProofs`, for every set of adapters and without an assumption.
`PortAlwaysFree`, `CancelledStaysQuiet`, `PauseAlwaysFollows` (the doubling with its
cap is the README's list of pauses, one rung per failure) and `LoopIsAWorker`: every
step of the loop, those of its session included, is one of `WorkerContract` or
invisible to the tray. `CancelledLoopLeaves`: from wherever a cancellation meets it,
the loop takes at most four steps of its own, which with the countdown of a session is
what `CancelReturns` rests on.

`TrayAppProofs`, for every set of states a worker reports. The invariant is a
conjunction of the properties with the three facts they rest on: `OneEnd`, that
`cancel` tells of a worker until its end is handled and that end is announced once;
`WishIsUsers`, that `desired` is never set when the user does not want a connection,
because every exit takes it back; `Asleep`, that a worker in a suspended machine has
been cancelled. Without `OneEnd` a stale announcement could clear `cancel` under a
second worker; without `WishIsUsers` a resume could undo a logout. `ExitStaysUnderway`
is an invariant of its own over it: once the application exits, its worker has been
told to stop and stays told, and an open window without a worker has its close queued,
whatever is clicked, resumed or closed meanwhile; that is what `ExitEnds` rests on
besides fairness.

`StartupTaskProofs` assume that `Toggles` are not called `"refresh"` or `"command"`.
Three invariants, one resting on the other: `Inv`, that whoever may still take
the task away was asked to, and that the Run value goes only after the task is
registered (`StartAlwaysSurvives`); `Guarded`, that the busy flag says exactly whether
a goroutine of the tray is at work and that nothing is while the menu offers a click
(`BusyAlwaysGuards`, `ClicksMeanOpposite`); `Truth`, what an operation that has met
no failure and no other knows of the task and the value at each of its calls
(`MenuTellsTruthAlways`). `ItemStaysOnItsWay` needs no assumption about early menus:
a set flag always has an operation at work behind it, and each operation only comes
nearer to its end, in eight steps at most; `ItemComesBack` rests on it.

`ConfigLoadProofs`, under `InputsAssumption`: every table of names, hints and virtual
adapters, whether or not it is consistent. `ScanInv` says what
`best`, `bestScore` and `ambiguous` tell of the addresses in front of `i`; its content is
that an address equal to the best in name and number is no rival, and that a better
one clears an ambiguity among worse ones. `SelectInv` and `CfgInv` carry the result
through the keys that follow. `PacketsSoundAlways` is arithmetic over the password's
length: the digest made with ROR takes at most 16 bytes, and everything after it moves
with it and leaves the random bytes room.

`InstanceLogProofs`, under `SizesAssumption`, for any number of processes.
`OneWriterAlways` rests on handles: whoever uses the log got the mutex when nobody held
one, and has kept it. `LogsBoundedAlways` needs it: the size a writer counts is
the file's only while the file is its own. `NewestAlwaysKept`, for every number of
lines, speaks of sequences without induction over them: the whole lines are increasing
numbers (`Rising`), and with each of them every later one up to the last is there too
(`Reaching`). Both hold of the old file followed by the new one, so they survive an
append, a rename, which only moves the border, and a removal of the old file, which
drops a prefix. `KeptInv` adds that a file with bytes holds a line and that a rotation
which is about to remove or rename has such a file: it never empties both.

Only model-checked: the liveness (`CancelEnds`, `CancelInterrupts`, `LeavesLostAdapter`,
`ExitEnds`, `ItemComesBack`, and `CancelReturns` within `ImplementsWorker`), because
fairness speaks of `ENABLED`, which is out of the prover's reach. For all of them but
`LeavesLostAdapter` the part without fairness is proved above: a countdown
(`CancelledCountsDown`, `CancelledLoopLeaves`, `ItemStaysOnItsWay`) or the invariant
that whatever has to happen next is under way (`ExchangeNeverStuck`,
`ExitStaysUnderway`).

## Not modelled

- The values of MD5, XOR, ROR, Checksum and CRC. No decision reads them, and
  `crypto_test.go` fixes vectors; which bytes each covers, and that they are final
  when it is taken, is in `PacketLayout`.
- The TOML decoder (`github.com/BurntSushi/toml`), a library: a file decodes or does not.
- The Win32 calls and PowerShell themselves: a call succeeds, fails, or is cut short.
  Opening the configuration or the log folder touches no state of the tray;
  `writeStartupValue` has no caller.
- Interface pinning (`IP_UNICAST_IF`) beyond its failure, which is one way `Open` fails.
- The stub for other systems, build scripts and CI: no logic to check.

## Plan

Done, in the order of what matters most: the matcher; the session over it and
`RunnerContract` above; the transport's hand-over of the deadline; the Supervisor over
`RunnerContract`; `WorkerContract` between the Supervisor and the tray; the startup
item; configuration and adapter choice with the packets' layout; instance and log; the
safety properties of each as theorems.

Left:

1. `ExchangeContract`: what one `Exchange` promises, `UdpExchange` shown to implement it,
   and `Write`, `Receive`, `Timeout`, `Interrupt` of `DrcomSession` taken from it.
   Until then the two are matched by reading (see *UdpExchange* above).
2. The digests as functions on bytes, checked against the test vectors' definitions.
