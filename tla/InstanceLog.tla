---------------------------- MODULE InstanceLog -----------------------------
(***************************************************************************)
(* The processes of drcom-tray on one desktop, the named mutex that lets   *)
(* one of them run, and the log that one writes and rotates.  run() of     *)
(* main.go acquires the mutex before it opens the log; its deferred calls  *)
(* close the log before they release the mutex.  Every call of the file    *)
(* system may fail (a viewer may have the file open, the disk may be       *)
(* full), and a process may be killed between any two of them.             *)
(***************************************************************************)
EXTENDS Integers, Sequences

CONSTANTS
  Processes,
  Limit,     \* bytes of a log file; MaxLogBytes
  LineSizes, \* bytes of a line
  MaxLines   \* bound: lines written

ASSUME SizesAssumption ==
  Limit \in Nat /\ MaxLines \in Nat /\ LineSizes \subseteq 1..Limit

VARIABLES
  main,     \* where run() is: "gone", "start", "open", "run", "closing", "release"
  handles,  \* processes that hold a handle of the mutex, its creator or not
  file,     \* the RotatingWriter's file: "nil", "open", or "broken" after a Close that failed
  writer,   \* where Write is, under the writer's lock: "idle", "remove", "rename", "reopen",
            \* "line"
  size,     \* the RotatingWriter's size
  line,     \* bytes of the line Write has been given
  log, old, \* tray.log and tray.log.old: whether they are there, their bytes and lines
  written   \* history: lines written so far; they are numbered from 1

writers == <<file, writer, size, line>>
disk == <<log, old>>
vars == <<main, handles, writers, disk, written>>

Part == 0  \* what a failed write left, instead of a line's number

Absent == [there |-> FALSE, bytes |-> 0, lines |-> << >>]
Empty == [there |-> TRUE, bytes |-> 0, lines |-> << >>]

Init ==
  /\ main = [p \in Processes |-> "gone"] /\ handles = {}
  /\ file = [p \in Processes |-> "nil"] /\ writer = [p \in Processes |-> "idle"]
  /\ size = [p \in Processes |-> 0] /\ line = [p \in Processes |-> 0]
  /\ log = Absent /\ old = Absent /\ written = 0

Goto(p, place) == main' = [main EXCEPT ![p] = place]

-----------------------------------------------------------------------------
(* run() and AcquireInstance.                                               *)

Start(p) ==
  /\ main[p] = "gone" /\ Goto(p, "start")
  /\ UNCHANGED <<handles, writers, disk, written>>

\* CreateMutex fails, or gives a handle of the mutex and tells whether another
\* handle of it existed: then run returns, and its deferred call closes this one.
Acquire(p) ==
  /\ main[p] = "start"
  /\ \/ Goto(p, "gone") /\ UNCHANGED handles
     \/ /\ handles' = handles \cup {p}
        /\ Goto(p, IF handles = {} THEN "open" ELSE "release")
  /\ UNCHANGED <<writers, disk, written>>

\* Mutant: the size of what is there already is not asked for.
OpenWithoutStat(p) ==
  /\ main[p] = "open"
  /\ \/ Goto(p, "release") /\ UNCHANGED <<file, size, log>>
     \/ /\ Goto(p, "run") /\ log' = [log EXCEPT !.there = TRUE]
        /\ file' = [file EXCEPT ![p] = "open"] /\ size' = [size EXCEPT ![p] = 0]
  /\ UNCHANGED <<handles, writer, line, old, written>>

\* logging.Open appends to the log it finds.
Open(p) ==
  /\ main[p] = "open"
  /\ \/ Goto(p, "release") /\ log' \in {log, [log EXCEPT !.there = TRUE]} /\ UNCHANGED <<file, size>>
     \/ /\ Goto(p, "run") /\ log' = [log EXCEPT !.there = TRUE]
        /\ file' = [file EXCEPT ![p] = "open"]
        /\ size' = [size EXCEPT ![p] = log.bytes]
  /\ UNCHANGED <<handles, writer, line, old, written>>

\* Mutant: the deferred calls in the other order.
ReturnReleasing(p) ==
  /\ main[p] = "run" /\ Goto(p, "closing") /\ handles' = handles \ {p}
  /\ UNCHANGED <<writers, disk, written>>

\* App.Run has returned; other goroutines may still log.
Return(p) ==
  /\ main[p] = "run" /\ Goto(p, "closing")
  /\ UNCHANGED <<handles, writers, disk, written>>

\* RotatingWriter.Close waits for a Write that is under way.
Close(p) ==
  /\ main[p] = "closing" /\ writer[p] = "idle" /\ Goto(p, "release")
  /\ file' = [file EXCEPT ![p] = "nil"]
  /\ UNCHANGED <<handles, writer, size, line, disk, written>>

Ended(p) ==
  /\ Goto(p, "gone") /\ handles' = handles \ {p}
  /\ file' = [file EXCEPT ![p] = "nil"] /\ writer' = [writer EXCEPT ![p] = "idle"]
  /\ size' = [size EXCEPT ![p] = 0] /\ line' = [line EXCEPT ![p] = 0]
  /\ UNCHANGED <<disk, written>>

\* The handle is closed, and the process ends.
Release(p) == main[p] = "release" /\ Ended(p)

\* Windows closes what a killed process had open.
Killed(p) == main[p] # "gone" /\ Ended(p)

-----------------------------------------------------------------------------
(* RotatingWriter.Write: one line; a rotation takes four calls.             *)

Rotates(p, n) == size[p] > 0 /\ size[p] + n > Limit

\* n bytes are added to the file, the line of this number or a part of one.
Put(p, n, number) ==
  /\ log' = [log EXCEPT !.bytes = @ + n, !.lines = Append(@, number)]
  /\ size' = [size EXCEPT ![p] = size[p] + n]

\* The line is written, or a failing write leaves some of it, or nothing.
PutLine(p, n) ==
  \/ Put(p, n, written + 1) /\ written' = written + 1
  \/ (\E part \in 1..n - 1 : Put(p, part, Part)) /\ UNCHANGED written
  \/ UNCHANGED <<log, size, written>>

Running(p) == main[p] \in {"run", "closing"}

\* Write, where no rotation is due.
Write(p) ==
  /\ Running(p) /\ file[p] = "open" /\ writer[p] = "idle" /\ written < MaxLines
  /\ \E n \in LineSizes : ~ Rotates(p, n) /\ PutLine(p, n)
  /\ UNCHANGED <<main, handles, file, writer, line, old>>

\* A rotation begins with Close; after a failure no later Write gets past it.
Rotate(p) ==
  /\ Running(p) /\ file[p] = "open" /\ writer[p] = "idle" /\ written < MaxLines
  /\ \E n \in LineSizes :
       /\ Rotates(p, n)
       /\ \/ file' = [file EXCEPT ![p] = "broken"] /\ UNCHANGED <<writer, line>>
          \/ /\ file' = [file EXCEPT ![p] = "nil"]
             /\ writer' = [writer EXCEPT ![p] = "remove"] /\ line' = [line EXCEPT ![p] = n]
  /\ UNCHANGED <<main, handles, size, disk, written>>

\* On to the next call, or Write returns its error and leaves the file nil.
Then(p, next) == writer' = [writer EXCEPT ![p] = next] /\ UNCHANGED line
GiveUp(p) == writer' = [writer EXCEPT ![p] = "idle"] /\ line' = [line EXCEPT ![p] = 0]

Remove(p) ==
  /\ writer[p] = "remove"
  /\ \/ Then(p, "rename") /\ old' = Absent
     \/ old.there /\ GiveUp(p) /\ UNCHANGED old
  /\ UNCHANGED <<main, handles, file, size, log, written>>

Rename(p) ==
  /\ writer[p] = "rename"
  /\ \/ log.there /\ Then(p, "reopen") /\ old' = log /\ log' = Absent
     \/ GiveUp(p) /\ UNCHANGED disk
  /\ UNCHANGED <<main, handles, file, size, written>>

\* Mutant: the new file is written from the old one's size on.
ReopenKeepsSize(p) ==
  /\ writer[p] = "reopen"
  /\ \/ /\ Then(p, "line") /\ file' = [file EXCEPT ![p] = "open"]
        /\ log' = [log EXCEPT !.there = TRUE] /\ UNCHANGED size
     \/ GiveUp(p) /\ UNCHANGED <<file, size, log>>
  /\ UNCHANGED <<main, handles, old, written>>

Reopen(p) ==
  /\ writer[p] = "reopen"
  /\ \/ /\ Then(p, "line") /\ file' = [file EXCEPT ![p] = "open"]
        /\ size' = [size EXCEPT ![p] = 0] /\ log' = [log EXCEPT !.there = TRUE]
     \/ GiveUp(p) /\ UNCHANGED <<file, size, log>>
  /\ UNCHANGED <<main, handles, old, written>>

\* The line the rotation was made for.
WriteLine(p) ==
  /\ writer[p] = "line" /\ PutLine(p, line[p])
  /\ writer' = [writer EXCEPT ![p] = "idle"] /\ line' = [line EXCEPT ![p] = 0]
  /\ UNCHANGED <<main, handles, file, old>>

Run(p) == Start(p) \/ Acquire(p) \/ Open(p) \/ Return(p) \/ Close(p) \/ Release(p) \/ Killed(p)

Log(p) == Write(p) \/ Rotate(p) \/ Remove(p) \/ Rename(p) \/ Reopen(p) \/ WriteLine(p)

Next == \E p \in Processes : Run(p) \/ Log(p)

Spec == Init /\ [][Next]_vars

-----------------------------------------------------------------------------
\* From the open to the last call of a Write.
Uses(p) == main[p] \in {"open", "run", "closing"}

\* "AcquireInstance must precede opening/rotating the shared log file": no
\* process opens, rotates, writes or closes the log while another is between
\* its open and its close, whatever is killed in between (lifecycle_windows.go).
OneWriter == \A p, q \in Processes : Uses(p) /\ Uses(q) => p = q

\* These lines, in this order, are the last ones of so many.
Newest(lines, last) ==
  LET Kept == {lines[k] : k \in 1..Len(lines)} \ {Part}
  IN /\ \A j, k \in 1..Len(lines) :
          j < k /\ lines[j] # Part /\ lines[k] # Part => lines[j] < lines[k]
     /\ \A n \in Kept : n \in 1..last /\ n..last \subseteq Kept

\* The lines on disk are the last ones written, without a gap, after any
\* failure and any crash of a rotation; only parts of lines that could not be
\* written push the last one out (RotatingWriter.Write).
NewestKept ==
  LET lines == old.lines \o log.lines
  IN Newest(lines, written) /\ (written > 0 => lines # << >>)

\* Neither file outgrows the limit: the size the writer counts is that of the
\* file, over restarts, failed writes and failed rotations (USER_GUIDE.md:51).
LogsBounded == log.bytes <= Limit /\ old.bytes <= Limit
=============================================================================
