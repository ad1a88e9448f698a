------------------------- MODULE InstanceLogProofs --------------------------
(***************************************************************************)
(* One process uses the log at a time, and the log stays within its limit  *)
(* and holds its newest lines without a gap, for every number of           *)
(* processes, every limit, every set of line sizes and every length.       *)
(***************************************************************************)
EXTENDS InstanceLog, TLAPS, SequenceTheorems

Places == {"gone", "start", "open", "run", "closing", "release"}

\* Who uses the log got the mutex when there was no other handle of it, and
\* has kept its handle: whoever came later has found that one.
Inv ==
  /\ main \in [Processes -> Places]
  /\ \A p \in Processes : Uses(p) => p \in handles
  /\ OneWriter

LEMMA InvInit == Init => Inv
BY DEF Init, Inv, OneWriter, Uses, Places

\* The steps of a Write, and what it leaves alone.
LEMMA LogKeeps == ASSUME NEW p \in Processes, Log(p) PROVE UNCHANGED <<main, handles>>
BY DEF Log, Write, Rotate, Remove, Rename, Reopen, WriteLine

LEMMA RunStep == ASSUME Inv, NEW p \in Processes, Run(p) PROVE Inv'
<1> USE DEF Inv, OneWriter, Uses, Goto, Places
<1>1. CASE Start(p) BY <1>1 DEF Start
<1>2. CASE Acquire(p)
  <2>1. CASE main' = [main EXCEPT ![p] = "open"]
    <3>1. handles = {} /\ handles' = {p} BY <1>2, <2>1 DEF Acquire
    <3>2. \A q \in Processes : ~ Uses(q) BY <3>1
    <3>3. QED BY <2>1, <3>1, <3>2
  <2>2. CASE main' \in {[main EXCEPT ![p] = "gone"], [main EXCEPT ![p] = "release"]}
    <3>1. handles \subseteq handles' BY <1>2, <2>2 DEF Acquire
    <3>2. QED BY <2>2, <3>1
  <2>3. QED BY <1>2, <2>1, <2>2 DEF Acquire
<1>3. CASE Open(p)
  <2>1. main[p] = "open" /\ handles' = handles BY <1>3 DEF Open
  <2>2. main' \in {[main EXCEPT ![p] = "release"], [main EXCEPT ![p] = "run"]}
    BY <1>3 DEF Open
  <2>3. QED BY <2>1, <2>2
<1>4. CASE Return(p) BY <1>4 DEF Return
<1>5. CASE Close(p) BY <1>5 DEF Close
<1>6. CASE Ended(p) BY <1>6 DEF Ended
<1>7. QED BY <1>1, <1>2, <1>3, <1>4, <1>5, <1>6 DEF Run, Release, Killed

\* The mutex protects the log: whatever processes start, fail, end or are
\* killed, no two of them are between opening and closing it.
THEOREM OneWriterAlways == Spec => []OneWriter
<1>1. ASSUME Inv, [Next]_vars PROVE Inv'
  <2>1. CASE UNCHANGED <<main, handles>> BY <1>1, <2>1 DEF Inv, OneWriter, Uses
  <2>2. CASE \E p \in Processes : Run(p) BY <1>1, <2>2, RunStep
  <2>3. Next => (\E p \in Processes : Run(p)) \/ UNCHANGED <<main, handles>>
    BY LogKeeps DEF Next
  <2>4. QED BY <1>1, <2>1, <2>2, <2>3 DEF vars
<1>2. Inv => OneWriter BY DEF Inv
<1>3. QED BY InvInit, <1>1, <1>2, PTL DEF Spec

(***************************************************************************)
(* The limit.  The writer's size is the file's as long as the file is its  *)
(* own, which is what OneWriter is for.                                    *)
(***************************************************************************)
File == [there : BOOLEAN, bytes : 0..Limit, lines : Seq(Nat)]

FilesInv ==
  /\ log \in File /\ old \in File /\ written \in Nat
  /\ file \in [Processes -> {"nil", "open", "broken"}]
  /\ writer \in [Processes -> {"idle", "remove", "rename", "reopen", "line"}]
  /\ size \in [Processes -> Nat] /\ line \in [Processes -> 0..Limit]

WriterInv(p) ==
  /\ file[p] # "nil" \/ writer[p] # "idle" => Running(p)
  /\ file[p] = "open" => size[p] = log.bytes
  /\ writer[p] = "reopen" => log.bytes = 0
  /\ writer[p] = "line" => file[p] = "open" /\ size[p] = 0
  /\ writer[p] \in {"remove", "rename", "reopen"} => file[p] = "nil"
  /\ writer[p] # "idle" => line[p] \in 1..Limit

LimitInv == FilesInv /\ \A p \in Processes : WriterInv(p)

LEMMA LimitInit == Init => LimitInv
<1> SUFFICES ASSUME Init PROVE LimitInv OBVIOUS
<1>1. Absent \in File BY SizesAssumption DEF Absent, File
<1>2. FilesInv BY <1>1, SizesAssumption DEF Init, FilesInv
<1>3. \A p \in Processes : WriterInv(p) BY DEF Init, WriterInv, Absent
<1>4. QED BY <1>2, <1>3 DEF LimitInv

\* A process that writes is alone: the others have no file and no Write.
LEMMA Alone ==
  ASSUME Inv, LimitInv, NEW p \in Processes, Uses(p), NEW q \in Processes, q # p
  PROVE  file[q] = "nil" /\ writer[q] = "idle"
BY DEF Inv, OneWriter, LimitInv, FilesInv, WriterInv, Uses, Running

\* The file is created if it is not there.
LEMMA ThereOrNot ==
  ASSUME NEW f \in File, NEW g \in {f, [f EXCEPT !.there = TRUE]}
  PROVE  g \in File /\ g.bytes = f.bytes
<1>1. CASE g = f BY <1>1
<1>2. CASE g = [f EXCEPT !.there = TRUE]
  <2>1. g = [there |-> TRUE, bytes |-> f.bytes, lines |-> f.lines] BY <1>2 DEF File
  <2>2. f.bytes \in 0..Limit /\ f.lines \in Seq(Nat) BY DEF File
  <2>3. TRUE \in BOOLEAN OBVIOUS
  <2>4. QED BY <2>1, <2>2, <2>3 DEF File
<1>3. QED BY <1>1, <1>2

\* A line, or what is left of it, where it fits.
LEMMA Fits ==
  ASSUME LimitInv, NEW p \in Processes, NEW n \in 1..Limit, size[p] = log.bytes,
         size[p] + n <= Limit, PutLine(p, n)
  PROVE  /\ log' \in File /\ written' \in Nat /\ size' \in [Processes -> Nat]
         /\ size'[p] = log'.bytes
         /\ \A q \in Processes \ {p} : size'[q] = size[q]
<1>1. log \in File /\ written \in Nat /\ size \in [Processes -> Nat] BY DEF LimitInv, FilesInv
<1>2. ASSUME NEW k \in 0..n, NEW number \in Nat, Put(p, k, number)
      PROVE  /\ log' \in File /\ size' \in [Processes -> Nat]
             /\ size'[p] = log'.bytes
             /\ \A q \in Processes \ {p} : size'[q] = size[q]
  <2>1. log.bytes + k \in 0..Limit BY <1>1, <1>2, SizesAssumption DEF File
  <2>2. Append(log.lines, number) \in Seq(Nat) BY <1>1 DEF File
  <2>3. log' \in File BY <1>1, <1>2, <2>1, <2>2 DEF Put, File
  <2>4. log'.bytes = log.bytes + k BY <1>1, <1>2 DEF Put, File
  <2>5. size' = [size EXCEPT ![p] = size[p] + k] BY <1>2 DEF Put
  <2>6. size[p] + k \in Nat BY <1>1
  <2>7. QED BY <1>1, <2>3, <2>4, <2>5, <2>6
<1>3. CASE Put(p, n, written + 1) /\ written' = written + 1 BY <1>1, <1>2, <1>3
<1>4. CASE (\E part \in 1..n - 1 : Put(p, part, Part)) /\ UNCHANGED written
  <2>1. PICK part \in 1..n - 1 : Put(p, part, Part) BY <1>4
  <2>2. part \in 0..n /\ Part \in Nat BY DEF Part
  <2>3. QED BY <1>1, <1>2, <1>4, <2>1, <2>2
<1>5. CASE UNCHANGED <<log, size, written>> BY <1>1, <1>5
<1>6. QED BY <1>3, <1>4, <1>5 DEF PutLine

\* Steps of run(): only opening and closing touch the writer's variables.
LEMMA LimitRun ==
  ASSUME Inv, LimitInv, NEW p \in Processes, Run(p) PROVE LimitInv'
<1> USE DEF LimitInv, FilesInv, WriterInv, Running, Goto, writers, disk
<1>1. main \in [Processes -> Places] BY DEF Inv
<1>2. CASE Start(p) BY <1>1, <1>2 DEF Start
<1>3. CASE Acquire(p)
  <2>1. main[p] = "start" /\ UNCHANGED <<writers, disk, written>> BY <1>3 DEF Acquire
  <2>2. PICK place : main' = [main EXCEPT ![p] = place] BY <1>3 DEF Acquire
  <2>3. QED BY <1>1, <2>1, <2>2
<1>4. CASE Open(p)
  <2>1. main[p] = "open" /\ file[p] = "nil" /\ writer[p] = "idle" BY <1>4 DEF Open
  <2>2. \A q \in Processes : file[q] = "nil" /\ writer[q] = "idle"
    BY <2>1, Alone DEF Uses
  <2>3. /\ log' \in {log, [log EXCEPT !.there = TRUE]}
        /\ UNCHANGED <<writer, line, old, written>>
    BY <1>4 DEF Open
  <2>4. log' \in File /\ log'.bytes = log.bytes BY <2>3, ThereOrNot
  <2>5. CASE Goto(p, "release") /\ UNCHANGED <<file, size>>
    BY <1>1, <2>2, <2>3, <2>4, <2>5
  <2>6. CASE /\ Goto(p, "run") /\ file' = [file EXCEPT ![p] = "open"]
             /\ size' = [size EXCEPT ![p] = log.bytes]
    <3>1. log.bytes \in Nat BY DEF File
    <3>2. FilesInv' BY <2>3, <2>4, <2>6, <3>1
    <3>3. \A q \in Processes : WriterInv(q)' BY <1>1, <2>2, <2>3, <2>4, <2>6
    <3>4. QED BY <3>2, <3>3
  <2>7. QED BY <1>4, <2>5, <2>6 DEF Open
<1>5. CASE Return(p) BY <1>1, <1>5 DEF Return
<1>6. CASE Close(p) BY <1>1, <1>6 DEF Close
<1>7. CASE Ended(p)
  <2>1. 0 \in Nat /\ 0 \in 0..Limit BY SizesAssumption
  <2>2. QED BY <1>1, <1>7, <2>1 DEF Ended
<1>8. QED BY <1>2, <1>3, <1>4, <1>5, <1>6, <1>7 DEF Run, Release, Killed

\* Steps of Write.
LEMMA LimitLog ==
  ASSUME Inv, LimitInv, NEW p \in Processes, Log(p) PROVE LimitInv'
<1>0. /\ main \in [Processes -> Places] /\ main' = main /\ FilesInv /\ WriterInv(p)
  BY LogKeeps DEF Inv, LimitInv
\* The others have nothing in hand, and keep nothing in hand.
<1>1. ASSUME /\ Uses(p)
             /\ \A q \in Processes \ {p} : file'[q] = file[q] /\ writer'[q] = writer[q]
      PROVE  \A q \in Processes \ {p} : WriterInv(q)'
  BY <1>1, Alone DEF WriterInv
<1>2. Uses(p) BY <1>0 DEF Log, Write, Rotate, Remove, Rename, Reopen, WriteLine, WriterInv,
                           Running, Uses
<1> USE DEF Running
<1>3. CASE Write(p)
  <2>1. PICK n \in LineSizes : ~ Rotates(p, n) /\ PutLine(p, n) BY <1>3 DEF Write
  <2>2. file[p] = "open" /\ UNCHANGED <<main, file, writer, line, old>> BY <1>3 DEF Write
  <2>3. size[p] = log.bytes /\ n \in 1..Limit BY <1>0, <2>2, SizesAssumption DEF WriterInv
  <2>4. size[p] \in Nat BY <1>0 DEF FilesInv
  <2>5. size[p] + n <= Limit BY <2>1, <2>3, <2>4, SizesAssumption DEF Rotates
  <2>6. /\ log' \in File /\ written' \in Nat /\ size' \in [Processes -> Nat]
        /\ size'[p] = log'.bytes
    BY <2>1, <2>3, <2>5, Fits
  <2>7. WriterInv(p)' BY <1>0, <1>3, <2>2, <2>6 DEF WriterInv, Write
  <2>8. FilesInv' BY <1>0, <2>2, <2>6 DEF FilesInv
  <2>9. QED BY <1>1, <1>2, <2>2, <2>7, <2>8 DEF LimitInv
<1>4. CASE Rotate(p)
  <2>1. PICK n \in LineSizes :
          \/ file' = [file EXCEPT ![p] = "broken"] /\ UNCHANGED <<writer, line>>
          \/ /\ file' = [file EXCEPT ![p] = "nil"]
             /\ writer' = [writer EXCEPT ![p] = "remove"] /\ line' = [line EXCEPT ![p] = n]
    BY <1>4 DEF Rotate
  <2>2. UNCHANGED <<size, disk, written>> /\ Running(p) /\ writer[p] = "idle" BY <1>4 DEF Rotate
  <2>3. n \in 0..Limit /\ n \in 1..Limit BY SizesAssumption
  <2>4. FilesInv' BY <1>0, <2>1, <2>2, <2>3 DEF FilesInv, disk
  <2>5. WriterInv(p)' BY <1>0, <2>1, <2>2, <2>3 DEF FilesInv, WriterInv
  <2>6. \A q \in Processes \ {p} : file'[q] = file[q] /\ writer'[q] = writer[q]
    BY <1>0, <2>1 DEF FilesInv
  <2>7. QED BY <1>1, <1>2, <2>4, <2>5, <2>6 DEF LimitInv
<1>5. CASE Remove(p)
  <2>1. Absent \in File BY SizesAssumption DEF Absent, File
  <2>2. 0 \in 0..Limit BY SizesAssumption
  <2>3. UNCHANGED <<main, file, size, log, written>> /\ writer[p] = "remove" BY <1>5 DEF Remove
  <2>4. old' \in File /\ (Then(p, "rename") \/ GiveUp(p))
    BY <1>0, <1>5, <2>1 DEF Remove, FilesInv
  <2>5. FilesInv' BY <1>0, <2>2, <2>3, <2>4 DEF FilesInv, Then, GiveUp
  <2>6. WriterInv(p)' BY <1>0, <2>3, <2>4 DEF FilesInv, WriterInv, Then, GiveUp
  <2>7. \A q \in Processes \ {p} : file'[q] = file[q] /\ writer'[q] = writer[q]
    BY <1>0, <2>3, <2>4 DEF FilesInv, Then, GiveUp
  <2>8. QED BY <1>1, <1>2, <2>5, <2>6, <2>7 DEF LimitInv
<1>6. CASE Rename(p)
  <2>1. Absent \in File /\ Absent.bytes = 0 BY SizesAssumption DEF Absent, File
  <2>2. 0 \in 0..Limit BY SizesAssumption
  <2>3. UNCHANGED <<main, file, size, written>> /\ writer[p] = "rename" BY <1>6 DEF Rename
  <2>4. \/ Then(p, "reopen") /\ old' = log /\ log' = Absent
        \/ GiveUp(p) /\ UNCHANGED disk
    BY <1>6 DEF Rename
  <2>5. FilesInv' BY <1>0, <2>1, <2>2, <2>3, <2>4 DEF FilesInv, Then, GiveUp, disk
  <2>6. file[p] # "open" => WriterInv(p)'
    BY <1>0, <2>1, <2>3, <2>4 DEF FilesInv, WriterInv, Then, GiveUp, disk
  <2>7. file[p] # "open" BY <1>0, <2>3 DEF WriterInv
  <2>8. \A q \in Processes \ {p} : file'[q] = file[q] /\ writer'[q] = writer[q]
    BY <1>0, <2>3, <2>4 DEF FilesInv, Then, GiveUp
  <2>9. QED BY <1>1, <1>2, <2>5, <2>6, <2>7, <2>8 DEF LimitInv
<1>7. CASE Reopen(p)
  <2>1. 0 \in 0..Limit /\ 0 \in Nat BY SizesAssumption
  <2>2. UNCHANGED <<main, old, written>> /\ writer[p] = "reopen" BY <1>7 DEF Reopen
  <2>3. \/ /\ Then(p, "line") /\ file' = [file EXCEPT ![p] = "open"]
           /\ size' = [size EXCEPT ![p] = 0] /\ log' = [log EXCEPT !.there = TRUE]
        \/ GiveUp(p) /\ UNCHANGED <<file, size, log>>
    BY <1>7 DEF Reopen
  <2>4. log' \in File /\ log'.bytes = log.bytes /\ log.bytes = 0
    BY <1>0, <2>2, <2>3, ThereOrNot DEF FilesInv, WriterInv
  <2>5. FilesInv' BY <1>0, <2>1, <2>2, <2>3, <2>4 DEF FilesInv, Then, GiveUp
  <2>6. WriterInv(p)' BY <1>0, <2>2, <2>3, <2>4 DEF FilesInv, WriterInv, Then, GiveUp
  <2>7. \A q \in Processes \ {p} : file'[q] = file[q] /\ writer'[q] = writer[q]
    BY <1>0, <2>3 DEF FilesInv, Then, GiveUp
  <2>8. QED BY <1>1, <1>2, <2>5, <2>6, <2>7 DEF LimitInv
<1>8. CASE WriteLine(p)
  <2>1. /\ writer[p] = "line" /\ PutLine(p, line[p]) /\ UNCHANGED <<main, file, old>>
        /\ writer' = [writer EXCEPT ![p] = "idle"] /\ line' = [line EXCEPT ![p] = 0]
    BY <1>8 DEF WriteLine
  <2>2. file[p] = "open" /\ size[p] = 0 /\ size[p] = log.bytes BY <1>0, <2>1 DEF WriterInv
  <2>3. line[p] \in 1..Limit BY <1>0, <2>1 DEF WriterInv
  <2>4. /\ log' \in File /\ written' \in Nat /\ size' \in [Processes -> Nat]
        /\ size'[p] = log'.bytes
    BY <2>1, <2>2, <2>3, SizesAssumption, Fits
  <2>5. 0 \in 0..Limit BY SizesAssumption
  <2>6. FilesInv' BY <1>0, <2>1, <2>4, <2>5 DEF FilesInv
  <2>7. WriterInv(p)' BY <1>0, <2>1, <2>2, <2>4 DEF FilesInv, WriterInv
  <2>8. \A q \in Processes \ {p} : file'[q] = file[q] /\ writer'[q] = writer[q]
    BY <1>0, <2>1 DEF FilesInv
  <2>9. QED BY <1>1, <1>2, <2>6, <2>7, <2>8 DEF LimitInv
<1>9. QED BY <1>3, <1>4, <1>5, <1>6, <1>7, <1>8 DEF Log

LEMMA InvNext == ASSUME Inv, LimitInv, [Next]_vars PROVE Inv' /\ LimitInv'
<1>1. CASE UNCHANGED vars
  BY <1>1 DEF vars, writers, disk, Inv, OneWriter, Uses, LimitInv, FilesInv, WriterInv, Running
<1>2. ASSUME NEW p \in Processes, Run(p) PROVE Inv' /\ LimitInv'
  BY <1>2, RunStep, LimitRun
<1>3. ASSUME NEW p \in Processes, Log(p) PROVE Inv' /\ LimitInv'
  <2>1. LimitInv' BY <1>3, LimitLog
  <2>2. Inv' BY <1>3, LogKeeps DEF Inv, OneWriter, Uses
  <2>3. QED BY <2>1, <2>2
<1>4. QED BY <1>1, <1>2, <1>3 DEF Next

\* Neither file outgrows the limit, whatever fails and whatever is killed:
\* the size a writer counts is the file's, over restarts and rotations.
THEOREM LogsBoundedAlways == Spec => []LogsBounded
<1>1. LimitInv => LogsBounded BY SizesAssumption DEF LimitInv, FilesInv, File, LogsBounded
<1>2. QED BY InvInit, LimitInit, InvNext, <1>1, PTL DEF Spec

(***************************************************************************)
(* The newest lines.  A line that is added extends the run of lines, one   *)
(* that is dropped from the front leaves the rest of it.                   *)
(***************************************************************************)
Rising(s, len) ==
  \A j, k \in 1..len : j < k /\ s[j] # Part /\ s[k] # Part => s[j] < s[k]

Reaching(s, len, last) ==
  \A k \in 1..len : s[k] # Part =>
    s[k] \in 1..last /\ \A n \in s[k]..last : \E j \in 1..len : s[j] = n

LEMMA NewestMeans ==
  ASSUME NEW s \in Seq(Nat), NEW last \in Nat
  PROVE  Newest(s, last) <=> Rising(s, Len(s)) /\ Reaching(s, Len(s), last)
<1> DEFINE len == Len(s)
           Kept == {s[k] : k \in 1..len} \ {Part}
<1>1. Newest(s, last) <=>
        Rising(s, len) /\ \A n \in Kept : n \in 1..last /\ n..last \subseteq Kept
  BY DEF Newest, Rising
<1> HIDE DEF len
<1>2. ASSUME NEW n \in 1..last
      PROVE  n..last \subseteq Kept <=> \A m \in n..last : \E j \in 1..len : s[j] = m
  <2>1. \A m \in n..last : m # Part BY DEF Part
  <2>2. QED BY <2>1
<1>3. (\A n \in Kept : n \in 1..last /\ n..last \subseteq Kept) <=> Reaching(s, len, last)
  <2>1. ASSUME \A n \in Kept : n \in 1..last /\ n..last \subseteq Kept
        PROVE  Reaching(s, len, last)
    BY <1>2, <2>1 DEF Reaching
  <2>2. ASSUME Reaching(s, len, last)
        PROVE  \A n \in Kept : n \in 1..last /\ n..last \subseteq Kept
    <3>1. SUFFICES ASSUME NEW n \in Kept PROVE n \in 1..last /\ n..last \subseteq Kept
      OBVIOUS
    <3>2. PICK k \in 1..len : s[k] = n /\ n # Part OBVIOUS
    <3>3. n \in 1..last /\ \A m \in n..last : \E j \in 1..len : s[j] = m
      BY <2>2, <3>2 DEF Reaching
    <3>4. QED BY <1>2, <3>3
  <2>3. QED BY <2>1, <2>2
<1>4. QED BY <1>1, <1>3 DEF len

\* t is s and one more.
LEMMA RunGrows ==
  ASSUME NEW s, NEW len \in Nat, NEW last \in Nat, NEW t, \A k \in 1..len : t[k] = s[k],
         Rising(s, len), Reaching(s, len, last)
  PROVE  /\ t[len + 1] = last + 1 => Rising(t, len + 1) /\ Reaching(t, len + 1, last + 1)
         /\ t[len + 1] = Part => Rising(t, len + 1) /\ Reaching(t, len + 1, last)
<1>1. \A k \in 1..len + 1 : k \in 1..len \/ k = len + 1 OBVIOUS
<1>2. 1..len \subseteq 1..len + 1 /\ len + 1 \in 1..len + 1 OBVIOUS
<1>3. ASSUME t[len + 1] = last + 1
      PROVE  Rising(t, len + 1) /\ Reaching(t, len + 1, last + 1)
  <2>1. Rising(t, len + 1)
    <3> SUFFICES ASSUME NEW j \in 1..len + 1, NEW k \in 1..len + 1, j < k,
                        t[j] # Part, t[k] # Part
                 PROVE  t[j] < t[k]
      BY DEF Rising
    <3>1. j \in 1..len /\ t[j] = s[j] OBVIOUS
    <3>2. t[j] \in 1..last BY <3>1 DEF Reaching
    <3>3. CASE k \in 1..len BY <3>1, <3>3 DEF Rising
    <3>4. CASE k = len + 1 BY <1>3, <3>2, <3>4
    <3>5. QED BY <1>1, <3>3, <3>4
  <2>2. ASSUME NEW k \in 1..len + 1, t[k] # Part
        PROVE  t[k] \in 1..last + 1 /\
               \A n \in t[k]..last + 1 : \E j \in 1..len + 1 : t[j] = n
    <3>1. CASE k = len + 1
      <4>1. \A n \in t[k]..last + 1 : n = t[len + 1] BY <1>3, <3>1
      <4>2. QED BY <1>2, <1>3, <3>1, <4>1
    <3>2. CASE k \in 1..len
      <4>1. t[k] \in 1..last /\ \A n \in t[k]..last : \E j \in 1..len : s[j] = n
        BY <2>2, <3>2 DEF Reaching
      <4>2. \A n \in t[k]..last + 1 : n \in t[k]..last \/ n = t[len + 1] BY <1>3, <4>1
      <4>3. \A n \in t[k]..last : \E j \in 1..len + 1 : t[j] = n BY <1>2, <4>1
      <4>4. t[k] \in 1..last + 1 BY <4>1
      <4>5. QED BY <1>2, <4>2, <4>3, <4>4
    <3>3. QED BY <1>1, <3>1, <3>2
  <2>3. QED BY <2>1, <2>2 DEF Reaching
<1>4. ASSUME t[len + 1] = Part
      PROVE  Rising(t, len + 1) /\ Reaching(t, len + 1, last)
  <2>1. Rising(t, len + 1) BY <1>1, <1>4 DEF Rising
  <2>2. Reaching(t, len + 1, last) BY <1>1, <1>2, <1>4 DEF Reaching
  <2>3. QED BY <2>1, <2>2
<1>5. QED BY <1>3, <1>4

\* t is the end of u.
LEMMA RunRest ==
  ASSUME NEW u, NEW skip \in Nat, NEW t, NEW len \in Nat, NEW last \in Nat,
         \A k \in 1..len : t[k] = u[skip + k],
         Rising(u, skip + len), Reaching(u, skip + len, last)
  PROVE  Rising(t, len) /\ Reaching(t, len, last)
<1>1. \A k \in 1..len : skip + k \in 1..skip + len OBVIOUS
<1>2. Rising(t, len)
  <2> SUFFICES ASSUME NEW j \in 1..len, NEW k \in 1..len, j < k, t[j] # Part, t[k] # Part
               PROVE  t[j] < t[k]
    BY DEF Rising
  <2>1. skip + j < skip + k OBVIOUS
  <2>2. QED BY <1>1, <2>1 DEF Rising
<1>3. ASSUME NEW k \in 1..len, t[k] # Part
      PROVE  t[k] \in 1..last /\ \A n \in t[k]..last : \E j \in 1..len : t[j] = n
  <2>1. t[k] \in 1..last /\ \A n \in t[k]..last : \E j \in 1..skip + len : u[j] = n
    BY <1>1, <1>3 DEF Reaching
  <2>2. ASSUME NEW n \in t[k]..last PROVE \E j \in 1..len : t[j] = n
    <3>1. PICK i \in 1..skip + len : u[i] = n BY <2>1
    <3>2. n # Part BY <2>1 DEF Part
    <3>3. ASSUME i <= skip PROVE FALSE
      <4>1. i < skip + k BY <3>3
      <4>2. n < t[k] BY <1>1, <1>3, <3>1, <3>2, <4>1 DEF Rising
      <4>3. QED BY <2>1, <4>2
    <3>4. i - skip \in 1..len /\ skip + (i - skip) = i BY <3>3
    <3>5. t[i - skip] = n BY <3>1, <3>4
    <3>6. QED BY <3>4, <3>5
  <2>3. QED BY <2>1, <2>2
<1>4. QED BY <1>2, <1>3 DEF Reaching

LEMMA NewestAppend ==
  ASSUME NEW s \in Seq(Nat), NEW last \in Nat, Newest(s, last)
  PROVE  Newest(Append(s, last + 1), last + 1) /\ Newest(Append(s, Part), last)
<1>1. Len(s) \in Nat /\ Rising(s, Len(s)) /\ Reaching(s, Len(s), last)
  BY NewestMeans, LenProperties
<1>2. ASSUME NEW e \in Nat
      PROVE  /\ Append(s, e) \in Seq(Nat) /\ Len(Append(s, e)) = Len(s) + 1
             /\ \A k \in 1..Len(s) : Append(s, e)[k] = s[k]
             /\ Append(s, e)[Len(s) + 1] = e
  BY AppendProperties
<1>3. Part \in Nat /\ last + 1 \in Nat BY DEF Part
<1>4. Newest(Append(s, last + 1), last + 1)
  <2> DEFINE t == Append(s, last + 1)
  <2>1. /\ t \in Seq(Nat) /\ Len(t) = Len(s) + 1 /\ t[Len(s) + 1] = last + 1
        /\ \A k \in 1..Len(s) : t[k] = s[k]
    BY <1>2, <1>3
  <2> HIDE DEF t
  <2>2. Rising(t, Len(s) + 1) /\ Reaching(t, Len(s) + 1, last + 1) BY <1>1, <2>1, RunGrows
  <2>3. QED BY <1>3, <2>1, <2>2, NewestMeans DEF t
<1>5. Newest(Append(s, Part), last)
  <2> DEFINE t == Append(s, Part)
  <2>1. /\ t \in Seq(Nat) /\ Len(t) = Len(s) + 1 /\ t[Len(s) + 1] = Part
        /\ \A k \in 1..Len(s) : t[k] = s[k]
    BY <1>2, <1>3
  <2> HIDE DEF t
  <2>2. Rising(t, Len(s) + 1) /\ Reaching(t, Len(s) + 1, last) BY <1>1, <2>1, RunGrows
  <2>3. QED BY <2>1, <2>2, NewestMeans DEF t
<1>6. QED BY <1>4, <1>5

LEMMA NewestRest ==
  ASSUME NEW s \in Seq(Nat), NEW t \in Seq(Nat), NEW last \in Nat, Newest(s \o t, last)
  PROVE  Newest(t, last)
<1> DEFINE u == s \o t
<1>1. /\ u \in Seq(Nat) /\ Len(u) = Len(s) + Len(t) /\ Len(s) \in Nat /\ Len(t) \in Nat
  BY ConcatProperties, LenProperties
<1>2. \A k \in 1..Len(t) : t[k] = u[Len(s) + k]
  <2>1. SUFFICES ASSUME NEW k \in 1..Len(t) PROVE t[k] = u[Len(s) + k] OBVIOUS
  <2>2. /\ Len(s) + k \in 1..Len(s) + Len(t) /\ ~ Len(s) + k <= Len(s)
        /\ (Len(s) + k) - Len(s) = k
    BY <1>1
  <2>3. \A i \in 1..Len(s) + Len(t) : u[i] = IF i <= Len(s) THEN s[i] ELSE t[i - Len(s)]
    BY ConcatProperties
  <2>4. QED BY <2>2, <2>3
<1>3. Rising(u, Len(s) + Len(t)) /\ Reaching(u, Len(s) + Len(t), last) BY <1>1, NewestMeans
<1> HIDE DEF u
<1>4. QED BY <1>1, <1>2, <1>3, RunRest, NewestMeans

\* A file that holds bytes holds lines, so a rotation, which begins with such a
\* file, always leaves lines behind: those it is about to move, or has moved.
KeptInv ==
  /\ NewestKept
  /\ log.bytes > 0 => log.lines # << >>
  /\ \A p \in Processes : writer[p] \in {"remove", "rename"} => log.lines # << >>

\* What a step may do to the lines.
Untouched == UNCHANGED written /\ old'.lines = old.lines /\ log'.lines = log.lines
Added == /\ old'.lines = old.lines
         /\ \/ log'.lines = Append(log.lines, written + 1) /\ written' = written + 1
            \/ log'.lines = Append(log.lines, Part) /\ UNCHANGED written
Forgotten == UNCHANGED written /\ log.lines # << >> /\ old'.lines = << >> /\ log'.lines = log.lines
Moved == UNCHANGED written /\ log.lines # << >> /\ old'.lines = log.lines /\ log'.lines = << >>

LEMMA LinesMove ==
  ASSUME FilesInv, NewestKept, Untouched \/ Added \/ Forgotten \/ Moved
  PROVE  NewestKept'
<1> DEFINE lines == old.lines \o log.lines
<1>1. /\ old.lines \in Seq(Nat) /\ log.lines \in Seq(Nat) /\ written \in Nat
      /\ Newest(lines, written) /\ lines \in Seq(Nat)
  BY ConcatProperties DEF FilesInv, File, NewestKept
<1>2. CASE Untouched BY <1>2 DEF Untouched, NewestKept
<1>3. CASE Added
  <2>1. \A e \in Nat : old.lines \o Append(log.lines, e) = Append(lines, e)
    <3>1. SUFFICES ASSUME NEW e \in Nat PROVE old.lines \o Append(log.lines, e) = Append(lines, e)
      OBVIOUS
    <3>2. Append(log.lines, e) = log.lines \o <<e>> /\ Append(lines, e) = lines \o <<e>>
      BY <1>1, AppendIsConcat
    <3>3. <<e>> \in Seq(Nat) OBVIOUS
    <3>4. \A x, y, z \in Seq(Nat) : (x \o y) \o z = x \o (y \o z) BY ConcatAssociative
    <3>5. lines \o <<e>> = old.lines \o (log.lines \o <<e>>) BY <1>1, <3>3, <3>4
    <3>6. QED BY <3>2, <3>5
  <2>2. \A e \in Nat : Append(lines, e) # << >> BY <1>1, AppendProperties
  <2>3. Newest(Append(lines, written + 1), written + 1) /\ Newest(Append(lines, Part), written)
    BY <1>1, NewestAppend
  <2>4. Part \in Nat /\ written + 1 \in Nat BY <1>1 DEF Part
  <2> HIDE DEF lines
  <2>5. \E e \in Nat : /\ old'.lines \o log'.lines = Append(lines, e)
                      /\ Newest(Append(lines, e), written')
    BY <1>3, <2>1, <2>3, <2>4 DEF Added
  <2>6. QED BY <2>2, <2>5 DEF NewestKept
<1>4. CASE Forgotten \/ Moved
  <2>1. Newest(log.lines, written) BY <1>1, NewestRest
  <2>2. << >> \o log.lines = log.lines /\ log.lines \o << >> = log.lines
    BY <1>1, ConcatEmptySeq
  <2>3. /\ old'.lines \o log'.lines = log.lines /\ log.lines # << >> /\ written' = written
    BY <1>4, <2>2 DEF Forgotten, Moved
  <2>4. QED BY <2>1, <2>3 DEF NewestKept
<1>5. QED BY <1>2, <1>3, <1>4

\* The file is created if it is not there: its lines are the same.
LEMMA SameLines ==
  ASSUME NEW f \in File, NEW g \in {f, [f EXCEPT !.there = TRUE]}
  PROVE  g.lines = f.lines /\ g.bytes = f.bytes
BY DEF File
LEMMA KeptRun ==
  ASSUME Inv, LimitInv, KeptInv, NEW p \in Processes, Run(p) PROVE KeptInv'
<1> USE DEF disk, writers
<1>1. CASE Open(p)
  <2>1. log' \in {log, [log EXCEPT !.there = TRUE]} /\ UNCHANGED <<writer, old, written>>
    BY <1>1 DEF Open
  <2>2. log'.lines = log.lines /\ log'.bytes = log.bytes
    BY <2>1, SameLines DEF LimitInv, FilesInv
  <2>3. QED BY <2>1, <2>2 DEF KeptInv, NewestKept
<1>2. CASE Start(p) \/ Acquire(p) \/ Return(p) \/ Close(p) \/ Ended(p)
  <2>1. UNCHANGED <<log, old, written>>
    BY <1>2 DEF Start, Acquire, Return, Close, Ended
  <2>2. \A q \in Processes : writer'[q] \in {writer[q], "idle"}
    <3>1. writer \in [Processes -> {"idle", "remove", "rename", "reopen", "line"}]
      BY DEF LimitInv, FilesInv
    <3>2. UNCHANGED writer \/ writer' = [writer EXCEPT ![p] = "idle"]
      BY <1>2 DEF Start, Acquire, Return, Close, Ended
    <3>3. QED BY <3>1, <3>2
  <2>3. QED BY <2>1, <2>2 DEF KeptInv, NewestKept
<1>3. QED BY <1>1, <1>2 DEF Run, Release, Killed

\* A line, or what is left of it, is a line more.
LEMMA PutAdds ==
  ASSUME FilesInv, NEW p \in Processes, NEW n \in 1..Limit, PutLine(p, n), UNCHANGED old
  PROVE  /\ Untouched \/ Added
         /\ log'.lines = << >> => log.lines = << >> /\ UNCHANGED log
<1>1. /\ log \in File /\ log.lines \in Seq(Nat) BY DEF FilesInv, File
<1>2. ASSUME NEW k, NEW number \in Nat, Put(p, k, number)
      PROVE  log'.lines = Append(log.lines, number) /\ log'.lines # << >>
  <2>1. log'.lines = Append(log.lines, number) BY <1>1, <1>2 DEF Put, File
  <2>2. QED BY <1>1, <2>1, AppendProperties
<1>3. CASE Put(p, n, written + 1) /\ written' = written + 1
  <2>1. written + 1 \in Nat BY DEF FilesInv
  <2>2. QED BY <1>2, <1>3, <2>1 DEF Added
<1>4. CASE (\E part \in 1..n - 1 : Put(p, part, Part)) /\ UNCHANGED written
  <2>1. Part \in Nat BY DEF Part
  <2>2. QED BY <1>2, <1>4, <2>1 DEF Added
<1>5. CASE UNCHANGED <<log, size, written>> BY <1>5 DEF Untouched
<1>6. QED BY <1>3, <1>4, <1>5 DEF PutLine

LEMMA KeptLog ==
  ASSUME Inv, LimitInv, KeptInv, NEW p \in Processes, Log(p) PROVE KeptInv'
<1> DEFINE Busy(q) == writer[q] \in {"remove", "rename"}
<1>0. /\ FilesInv /\ WriterInv(p) /\ NewestKept
      /\ log.bytes > 0 => log.lines # << >>
      /\ \A q \in Processes : Busy(q) => log.lines # << >>
      /\ writer \in [Processes -> {"idle", "remove", "rename", "reopen", "line"}]
  BY DEF LimitInv, FilesInv, KeptInv
\* The others are idle.
<1>1. Uses(p) BY <1>0 DEF Log, Write, Rotate, Remove, Rename, Reopen, WriteLine, WriterInv,
                           Running, Uses
<1>2. ASSUME /\ Untouched \/ Added \/ Forgotten \/ Moved
             /\ log'.bytes > 0 => log'.lines # << >>
             /\ Busy(p)' => log'.lines # << >>
             /\ \A q \in Processes \ {p} : writer'[q] = writer[q]
      PROVE  KeptInv'
  <2>1. NewestKept' BY <1>0, <1>2, LinesMove
  <2>2. \A q \in Processes \ {p} : ~ Busy(q)' BY <1>1, <1>2, Alone
  <2>3. QED BY <1>2, <2>1, <2>2 DEF KeptInv
<1>3. CASE Write(p)
  <2>1. PICK n \in LineSizes : PutLine(p, n) BY <1>3 DEF Write
  <2>2. writer[p] = "idle" /\ UNCHANGED <<writer, old>> /\ n \in 1..Limit
    BY <1>3, SizesAssumption DEF Write
  <2>3. QED BY <1>0, <1>2, <2>1, <2>2, PutAdds
<1>4. CASE Rotate(p)
  <2>1. /\ file[p] = "open" /\ size[p] > 0 /\ UNCHANGED <<log, old, written>>
        /\ \/ UNCHANGED writer
           \/ writer' = [writer EXCEPT ![p] = "remove"]
    BY <1>4 DEF Rotate, Rotates, disk
  <2>2. log.lines # << >> BY <1>0, <2>1 DEF WriterInv
  <2>3. \A q \in Processes \ {p} : writer'[q] = writer[q] BY <1>0, <2>1
  <2>4. QED BY <1>0, <1>2, <2>1, <2>2, <2>3 DEF Untouched
<1>5. CASE Remove(p)
  <2>1. /\ writer[p] = "remove" /\ UNCHANGED <<log, written>>
        /\ old' = Absent \/ UNCHANGED old
        /\ \E place \in {"rename", "idle"} : writer' = [writer EXCEPT ![p] = place]
    BY <1>5 DEF Remove, Then, GiveUp
  <2>2. log.lines # << >> BY <1>0, <2>1
  <2>3. Forgotten \/ Untouched BY <2>1, <2>2 DEF Forgotten, Untouched, Absent
  <2>4. \A q \in Processes \ {p} : writer'[q] = writer[q] BY <1>0, <2>1
  <2>5. QED BY <1>0, <1>2, <2>1, <2>2, <2>3, <2>4
<1>6. CASE Rename(p)
  <2>1. /\ writer[p] = "rename" /\ UNCHANGED written
        /\ \/ /\ writer' = [writer EXCEPT ![p] = "reopen"]
              /\ old' = log /\ log' = Absent
           \/ writer' = [writer EXCEPT ![p] = "idle"] /\ UNCHANGED <<log, old>>
    BY <1>6 DEF Rename, Then, GiveUp, disk
  <2>2. log.lines # << >> BY <1>0, <2>1
  <2>3. Moved \/ Untouched BY <2>1, <2>2 DEF Moved, Untouched, Absent
  <2>4. \A q \in Processes \ {p} : writer'[q] = writer[q] BY <1>0, <2>1
  <2>5. ~ Busy(p)' BY <1>0, <2>1
  <2>6. log'.bytes > 0 => log'.lines # << >> BY <1>0, <2>1 DEF Absent
  <2>7. QED BY <1>2, <2>3, <2>4, <2>5, <2>6
<1>7. CASE Reopen(p)
  <2>1. /\ writer[p] = "reopen" /\ UNCHANGED <<old, written>>
        /\ log' \in {log, [log EXCEPT !.there = TRUE]}
        /\ \E place \in {"line", "idle"} : writer' = [writer EXCEPT ![p] = place]
    BY <1>7 DEF Reopen, Then, GiveUp
  <2>2. log'.lines = log.lines /\ log'.bytes = log.bytes
    BY <1>0, <2>1, SameLines DEF FilesInv
  <2>3. Untouched BY <2>1, <2>2 DEF Untouched
  <2>4. \A q \in Processes \ {p} : writer'[q] = writer[q] BY <1>0, <2>1
  <2>5. ~ Busy(p)' BY <1>0, <2>1
  <2>6. QED BY <1>0, <1>2, <2>2, <2>3, <2>4, <2>5
<1>8. CASE WriteLine(p)
  <2>1. /\ writer[p] = "line" /\ PutLine(p, line[p]) /\ UNCHANGED old
        /\ writer' = [writer EXCEPT ![p] = "idle"]
    BY <1>8 DEF WriteLine
  <2>2. line[p] \in 1..Limit BY <1>0, <2>1 DEF WriterInv
  <2>3. \A q \in Processes \ {p} : writer'[q] = writer[q] BY <1>0, <2>1
  <2>4. ~ Busy(p)' BY <1>0, <2>1
  <2>5. QED BY <1>0, <1>2, <2>1, <2>2, <2>3, <2>4, PutAdds
<1>9. QED BY <1>3, <1>4, <1>5, <1>6, <1>7, <1>8 DEF Log

\* The log always holds the newest lines in order and without a gap: whatever
\* calls of a rotation fail and wherever a process is killed, only the oldest
\* lines are lost, and a rotation never empties both files at once
\* (RotatingWriter.Write).
THEOREM NewestAlwaysKept == Spec => []NewestKept
<1>1. Init => KeptInv
  <2> SUFFICES ASSUME Init PROVE KeptInv OBVIOUS
  <2>1. old.lines = << >> /\ log.lines = << >> /\ log.bytes = 0 /\ written = 0
    BY DEF Init, Absent
  <2>2. << >> \o << >> = << >> /\ << >> \in Seq(Nat) /\ Len(<< >>) = 0 BY ConcatEmptySeq, EmptySeq
  <2>3. Newest(<< >>, 0) BY <2>2 DEF Newest
  <2>4. NewestKept BY <2>1, <2>2, <2>3 DEF NewestKept
  <2>5. \A p \in Processes : writer[p] = "idle" BY DEF Init
  <2>6. QED BY <2>1, <2>4, <2>5 DEF KeptInv
<1>2. ASSUME Inv, LimitInv, KeptInv, [Next]_vars PROVE KeptInv'
  <2>1. CASE UNCHANGED vars BY <1>2, <2>1 DEF vars, writers, disk, KeptInv, NewestKept
  <2>2. QED BY <1>2, <2>1, KeptRun, KeptLog DEF Next
<1>3. KeptInv => NewestKept BY DEF KeptInv
<1>4. QED BY InvInit, LimitInit, InvNext, <1>1, <1>2, <1>3, PTL DEF Spec
=============================================================================
