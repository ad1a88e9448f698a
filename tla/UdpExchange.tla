---------------------------- MODULE UdpExchange ----------------------------
(***************************************************************************)
(* One socket, used by a sequence of Transport.Exchange calls: the owner   *)
(* of the socket, the goroutine context.AfterFunc starts when the context  *)
(* ends, and the deadline of the socket, which both of them set.           *)
(* DrcomSession takes an exchange as this module delivers it: with a       *)
(* deadline of its own and a context that interrupts it.                   *)
(***************************************************************************)
EXTENDS Integers

CONSTANTS
  Timeout,  \* Transport.timeout
  Limits,   \* time a context with a deadline still has
  Horizon   \* bound of the model: the clock stops there

Never == 1000  \* time.Time{}: no deadline
Past == -1     \* time.Now(), set by the callback: blocked calls fail at once

ASSUME TimeoutAssumption == Timeout \in 1..Never
ASSUME LimitsAssumption == Limits \subseteq 1..Never
ASSUME HorizonAssumption == Horizon \in 1..Never

VARIABLES
  pc,         \* "idle" between calls, else the next line of Exchange: "arm",
              \* "register", "write", "read", "stop", "wait", "clear"
  deadline,   \* the socket's
  own,        \* when the time-out of this call is over
  result,     \* the outcome of the last call
  done,       \* ctx.Err() # nil
  limit,      \* ctx.Deadline(), or Never
  registered, \* AfterFunc's callback may still be stopped
  callbacks,  \* callback goroutines that have not finished
  now

Earlier(s, t) == IF t < s THEN t ELSE s

call == <<pc, own, result>>
ctx == <<done, limit>>
callback == <<registered, callbacks>>
vars == <<call, deadline, ctx, callback, now>>

Init ==
  /\ pc = "idle" /\ deadline = Never /\ own = 0 /\ result = "none"
  /\ done = FALSE /\ limit = Never /\ registered = FALSE /\ callbacks = 0
  /\ now = 0

-----------------------------------------------------------------------------
(* Exchange.                                                                *)

Enter ==
  /\ pc = "idle"
  /\ IF done THEN result' = "canceled" /\ UNCHANGED <<pc, own>>
             ELSE pc' = "arm" /\ own' = now + Timeout /\ result' = "none"
  /\ UNCHANGED <<deadline, ctx, callback, now>>

Arm == deadline' = Earlier(own, limit) /\ UNCHANGED callback

\* On a context that is done already the callback starts at once.
Register ==
  /\ \/ done /\ registered' = FALSE /\ callbacks' = callbacks + 1
     \/ ~ done /\ registered' = TRUE /\ UNCHANGED callbacks
  /\ UNCHANGED deadline

\* Mutant: the callback is registered before the deadline is set.
PrepareSwapped ==
  /\ \/ pc = "arm"      /\ pc' = "register" /\ Register
     \/ pc = "register" /\ pc' = "write"    /\ Arm
  /\ UNCHANGED <<own, result, ctx, now>>

Prepare ==
  /\ \/ pc = "arm"      /\ pc' = "register" /\ Arm
     \/ pc = "register" /\ pc' = "write"    /\ Register
  /\ UNCHANGED <<own, result, ctx, now>>

Write ==
  /\ pc = "write" /\ deadline # Past /\ pc' = "read"
  /\ UNCHANGED <<own, result, deadline, ctx, callback, now>>

\* A send fails for its own reasons, or on a deadline; only ctx.Err() is asked.
WriteFails ==
  /\ pc = "write" /\ pc' = "stop"
  /\ result' = IF done THEN "canceled" ELSE "unavailable"
  /\ UNCHANGED <<own, deadline, ctx, callback, now>>

\* Mutant: the context's deadline is left to ctx.Err().
ReadTimesOutEitherWay ==
  /\ pc = "read" /\ deadline <= now /\ pc' = "stop"
  /\ result' = IF done THEN "canceled" ELSE "timeout"
  /\ UNCHANGED <<own, deadline, ctx, callback, now>>

\* To the read, a context has ended when it is done, or when its deadline has
\* passed and its own timer is only late.
CtxOver == done \/ limit <= now

\* The read ends on the deadline: the context's error, if it has ended, else
\* ErrTimeout.
ReadTimesOut ==
  /\ pc = "read" /\ deadline <= now /\ pc' = "stop"
  /\ result' = IF CtxOver THEN "canceled" ELSE "timeout"
  /\ UNCHANGED <<own, deadline, ctx, callback, now>>

\* A datagram that matches or is a refusal, or another error of the socket,
\* which gives way to a context that has ended just as the deadline does.
\* Datagrams that do not match leave the call where it is.
ReadEnds ==
  /\ pc = "read" /\ deadline # Past /\ pc' = "stop"
  /\ result' \in {"reply", "refused", IF CtxOver THEN "canceled" ELSE "unavailable"}
  /\ UNCHANGED <<own, deadline, ctx, callback, now>>

\* Mutant: a callback that has started is not waited for.
StopOnly ==
  /\ pc = "stop" /\ pc' = "clear" /\ registered' = FALSE
  /\ UNCHANGED <<own, result, deadline, ctx, callbacks, now>>

\* stop() of the deferred function: too late if the callback has started.
Stop ==
  /\ pc = "stop"
  /\ pc' = IF registered THEN "clear" ELSE "wait"
  /\ registered' = FALSE
  /\ UNCHANGED <<own, result, deadline, ctx, callbacks, now>>

\* <-finished
Finished ==
  /\ pc = "wait" /\ callbacks = 0 /\ pc' = "clear"
  /\ UNCHANGED <<own, result, deadline, ctx, callback, now>>

Clear ==
  /\ pc = "clear" /\ pc' = "idle" /\ deadline' = Never
  /\ UNCHANGED <<own, result, ctx, callback, now>>

Owner ==
  \/ Prepare \/ Write \/ WriteFails \/ ReadTimesOut \/ ReadEnds
  \/ Stop \/ Finished \/ Clear

-----------------------------------------------------------------------------
(* The callback, the context and the clock.                                 *)

Callback ==
  /\ callbacks > 0 /\ callbacks' = callbacks - 1 /\ deadline' = Past
  /\ UNCHANGED <<call, ctx, registered, now>>

\* The context is cancelled, or the timer of its deadline fires, sooner or
\* later after it.
ContextEnds ==
  /\ ~ done /\ done' = TRUE
  /\ registered' = FALSE
  /\ callbacks' = IF registered THEN callbacks + 1 ELSE callbacks
  /\ UNCHANGED <<call, deadline, limit, now>>

\* The owner goes on with another context: the logout's, which has a deadline,
\* or, after a reconnect, the next session's.
NewContext ==
  /\ pc = "idle" /\ done' = FALSE
  /\ limit' \in {Never} \cup {now + d : d \in Limits}
  /\ UNCHANGED <<call, deadline, callback, now>>

Tick ==
  /\ now < Horizon /\ now' = now + 1
  /\ UNCHANGED <<call, deadline, ctx, callback>>

Next == Enter \/ Owner \/ Callback \/ ContextEnds \/ NewContext \/ Tick

Spec == Init /\ [][Next]_vars

\* Both goroutines run; a write or read on a past deadline fails.  The clock is
\* not asked to advance.
FairSpec ==
  /\ Spec /\ WF_vars(Callback)
  /\ WF_vars(Prepare \/ Write \/ ReadTimesOut \/ Stop \/ Finished \/ Clear)
  /\ WF_vars(deadline = Past /\ WriteFails)

-----------------------------------------------------------------------------
\* The types of the variables; Exchange has at most one callback goroutine.
TypeOK ==
  /\ pc \in {"idle", "arm", "register", "write", "read", "stop", "wait", "clear"}
  /\ deadline \in Int /\ own \in Int /\ limit \in Int /\ now \in 0..Horizon
  /\ result \in {"none", "reply", "refused", "timeout", "canceled", "unavailable"}
  /\ done \in BOOLEAN /\ registered \in BOOLEAN /\ callbacks \in 0..1

\* Cancelling one exchange never poisons the next: as long as its own context
\* lives, a call has its own deadline, whatever the callback of an earlier one
\* did or is still about to do (the deferred function).
NotPoisoned ==
  pc \in {"write", "read"} /\ ~ done => deadline = Earlier(own, limit) /\ callbacks = 0

\* Nobody touches the socket between calls: Runner.Close finds it without a
\* pending callback, and the next owner without an old deadline.
QuietBetweenCalls == pc = "idle" => deadline = Never /\ callbacks = 0 /\ ~ registered

\* ErrTimeout, the error that is retried, means that the call had its full
\* time-out: neither a cancelled context nor one whose deadline has passed
\* before its timer fired is taken for a silent server (Exchange's error path).
TimeoutIsOwn == result = "timeout" => own <= now

\* A context that ends interrupts the exchange it is in without the help of
\* the time-out, wherever in the call it ends.
CancelInterrupts == done /\ pc # "idle" ~> pc = "idle"
=============================================================================
