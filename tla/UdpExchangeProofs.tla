-------------------------- MODULE UdpExchangeProofs --------------------------
(***************************************************************************)
(* Theorems about UdpExchange: the hand-over of the socket's deadline      *)
(* between the owner and the callback, for every time-out and every        *)
(* context deadline, and without end.                                      *)
(***************************************************************************)
EXTENDS UdpExchange, TLAPS

\* Who may still set the deadline.  A callback that can be stopped belongs to
\* a living context, one that runs to a dead one, and neither outlives "wait".
HandOver ==
  /\ registered => pc \in {"write", "read", "stop"} /\ ~ done
  /\ callbacks = 1 => pc \in {"write", "read", "stop", "wait"} /\ done /\ ~ registered
  /\ pc \in {"write", "read", "stop"} /\ ~ done => registered

\* What the deadline is, as long as only the owner has set it.
Deadlines ==
  /\ pc = "idle" => deadline = Never
  /\ pc = "register" => deadline = Earlier(own, limit)
  /\ pc \in {"write", "read"} /\ ~ done => deadline = Earlier(own, limit)

\* What the arithmetic below needs of TypeOK.
Typed ==
  /\ pc \in {"idle", "arm", "register", "write", "read", "stop", "wait", "clear"}
  /\ deadline \in Int /\ own \in Int /\ limit \in Int /\ now \in 0..Horizon
  /\ callbacks \in 0..1

IInv == Typed /\ HandOver /\ Deadlines /\ TimeoutIsOwn

USE TimeoutAssumption, LimitsAssumption, HorizonAssumption DEF Never, Past

LEMMA Invariant == Spec => []IInv
<1>1. Init => IInv
  BY DEF Init, IInv, Typed, HandOver, Deadlines, TimeoutIsOwn
<1>2. IInv /\ [Next]_vars => IInv'
  <2> SUFFICES ASSUME IInv, [Next]_vars PROVE IInv'
    OBVIOUS
  <2> USE DEF IInv, Typed, HandOver, Deadlines, TimeoutIsOwn
  <2>1. CASE Enter
    BY <2>1 DEF Enter, ctx, callback
  <2>2. CASE Prepare
    BY <2>2 DEF Prepare, Arm, Register, Earlier, ctx, callback
  <2>3. CASE Write
    BY <2>3 DEF Write, ctx, callback
  <2>4. CASE WriteFails
    BY <2>4 DEF WriteFails, ctx, callback
  <2>5. CASE ReadTimesOut
    BY <2>5 DEF ReadTimesOut, CtxOver, Earlier, ctx, callback
  <2>6. CASE ReadEnds
    BY <2>6 DEF ReadEnds, ctx, callback
  <2>7. CASE Stop
    BY <2>7 DEF Stop, ctx
  <2>8. CASE Finished
    BY <2>8 DEF Finished, ctx, callback
  <2>9. CASE Clear
    BY <2>9 DEF Clear, ctx, callback
  <2>10. CASE Callback
    BY <2>10 DEF Callback, call, ctx
  <2>11. CASE ContextEnds
    BY <2>11 DEF ContextEnds, call
  <2>12. CASE NewContext
    BY <2>12 DEF NewContext, call, callback
  <2>13. CASE Tick
    BY <2>13 DEF Tick, call, ctx, callback
  <2>14. CASE UNCHANGED vars
    BY <2>14 DEF vars, call, ctx, callback
  <2>15. QED
    BY <2>1, <2>2, <2>3, <2>4, <2>5, <2>6, <2>7, <2>8, <2>9, <2>10, <2>11, <2>12, <2>13, <2>14
    DEF Next, Owner
<1>3. QED
  BY <1>1, <1>2, PTL DEF Spec

\* A cancelled exchange never poisons a later one, in any order of the owner,
\* the callback and the context (the deferred function of Exchange).
THEOREM NeverPoisoned == Spec => []NotPoisoned
<1>1. IInv => NotPoisoned
  BY DEF IInv, Typed, HandOver, Deadlines, NotPoisoned
<1>2. QED
  BY <1>1, Invariant, PTL

\* Between calls the socket has no deadline and nobody left to set one.
THEOREM AlwaysQuietBetweenCalls == Spec => []QuietBetweenCalls
<1>1. IInv => QuietBetweenCalls
  BY DEF IInv, Typed, HandOver, Deadlines, QuietBetweenCalls
<1>2. QED
  BY <1>1, Invariant, PTL

\* ErrTimeout always means the full time-out of this call.
THEOREM TimeoutsAreOwn == Spec => []TimeoutIsOwn
<1>1. IInv => TimeoutIsOwn
  BY DEF IInv
<1>2. QED
  BY <1>1, Invariant, PTL

\* The types, for every time-out and every context deadline; that there is
\* never more than one callback rests on the hand-over (Exchange).
THEOREM ExchangeTypes == Spec => []TypeOK
<1> DEFINE Flags == /\ done \in BOOLEAN /\ registered \in BOOLEAN
                    /\ result \in {"none", "reply", "refused", "timeout", "canceled", "unavailable"}
<1>1. Init => Flags
  <2> HIDE TimeoutAssumption, LimitsAssumption, HorizonAssumption DEF Never, Past
  <2> SUFFICES ASSUME Init PROVE Flags OBVIOUS
  <2>1. done = FALSE /\ registered = FALSE /\ result = "none" BY DEF Init
  <2>2. QED BY <2>1
<1>2. Flags /\ [Next]_vars => Flags'
  <2> HIDE TimeoutAssumption, LimitsAssumption, HorizonAssumption DEF Never, Past
  <2> SUFFICES ASSUME Flags, [Next]_vars PROVE Flags' OBVIOUS
  <2>1. CASE Enter BY <2>1 DEF Enter, ctx, callback
  <2>2. CASE Prepare BY <2>2 DEF Prepare, Arm, Register, ctx, callback
  <2>3. CASE Write \/ WriteFails BY <2>3 DEF Write, WriteFails, ctx, callback
  <2>4. CASE ReadTimesOut \/ ReadEnds BY <2>4 DEF ReadTimesOut, ReadEnds, ctx, callback
  <2>5. CASE Stop \/ Finished \/ Clear BY <2>5 DEF Stop, Finished, Clear, ctx, callback
  <2>6. CASE Callback \/ ContextEnds BY <2>6 DEF Callback, ContextEnds, call, ctx
  <2>7. CASE NewContext \/ Tick BY <2>7 DEF NewContext, Tick, call, ctx, callback
  <2>8. CASE UNCHANGED vars BY <2>8 DEF vars, call, ctx, callback
  <2>9. QED
    BY <2>1, <2>2, <2>3, <2>4, <2>5, <2>6, <2>7, <2>8 DEF Next, Owner
<1>3. IInv /\ Flags => TypeOK BY DEF IInv, Typed, TypeOK
<1>4. QED BY <1>1, <1>2, <1>3, Invariant, PTL DEF Spec
-----------------------------------------------------------------------------
\* What makes an exchange end.  A blocked write or read has a deadline no later
\* than this call's own, and if its context has ended, the deadline has been
\* moved already or the callback that will move it is there.
NeverStuck ==
  pc \in {"write", "read"} =>
    /\ deadline <= own
    /\ done => deadline = Past \/ callbacks = 1

\* Wherever in Exchange the context ends, before or after the callback is
\* registered, the cancellation is not lost; and no callback, of this call or an
\* earlier one, ever puts off the deadline.  This is what CancelInterrupts rests
\* on besides fairness (Exchange, context.AfterFunc).
THEOREM ExchangeNeverStuck == Spec => []NeverStuck
<1> DEFINE Armed == pc = "register" => deadline <= own
           SInv == own >= 0 /\ Armed /\ NeverStuck
<1>1. Init => SInv
  BY DEF Init, NeverStuck
<1>2. IInv /\ SInv /\ [Next]_vars => SInv'
  <2> SUFFICES ASSUME IInv, SInv, [Next]_vars PROVE SInv'
    OBVIOUS
  <2> USE DEF IInv, Typed, HandOver, NeverStuck
  <2>1. CASE Enter
    BY <2>1 DEF Enter, ctx, callback
  <2>2. CASE Prepare
    BY <2>2 DEF Prepare, Arm, Register, Earlier, ctx, callback
  <2>3. CASE Write
    BY <2>3 DEF Write, ctx, callback
  <2>4. CASE WriteFails \/ ReadTimesOut \/ ReadEnds
    BY <2>4 DEF WriteFails, ReadTimesOut, ReadEnds
  <2>5. CASE Stop \/ Finished \/ Clear
    BY <2>5 DEF Stop, Finished, Clear
  <2>6. CASE Callback
    <3>1. callbacks = 1 /\ deadline' = Past /\ UNCHANGED <<pc, own, done>>
      BY <2>6 DEF Callback, call, ctx
    <3>2. Past <= own
      OBVIOUS
    <3>3. QED
      BY <3>1, <3>2
  <2>7. CASE ContextEnds
    BY <2>7 DEF ContextEnds, call
  <2>8. CASE NewContext
    BY <2>8 DEF NewContext, call, callback
  <2>9. CASE Tick
    BY <2>9 DEF Tick, call, ctx, callback
  <2>10. CASE UNCHANGED vars
    BY <2>10 DEF vars, call, ctx, callback
  <2>11. QED
    BY <2>1, <2>2, <2>3, <2>4, <2>5, <2>6, <2>7, <2>8, <2>9, <2>10 DEF Next, Owner
<1>3. SInv => NeverStuck
  OBVIOUS
<1>4. QED
  BY <1>1, <1>2, <1>3, Invariant, PTL DEF Spec
=============================================================================
