--------------------------- MODULE WorkerContract ---------------------------
(***************************************************************************)
(* What Supervisor.Run promises to the tray that starts it in a goroutine: *)
(* it reports states until it returns, returns on its own for a reason     *)
(* that will not be retried only, and returns after its context is done.   *)
(* Supervisor implements it; the worker of TrayApp is this contract.       *)
(***************************************************************************)

CONSTANT Reports  \* the states OnState may be called with

VARIABLES
  reported,   \* the last of them
  outcome,    \* "none" while Run runs, then "permanent" or "canceled"
  cancelled   \* the context is done

vars == <<reported, outcome, cancelled>>

Running == outcome = "none"

Report == Running /\ reported' \in Reports /\ UNCHANGED outcome

\* A permanent error may be returned although the context is done.
Return ==
  /\ Running /\ UNCHANGED reported
  /\ \/ outcome' = "permanent"
     \/ cancelled /\ outcome' = "canceled"

Cancel == ~ cancelled /\ cancelled' = TRUE /\ UNCHANGED <<reported, outcome>>

Init == outcome = "none" /\ cancelled = FALSE

Next == ((Report \/ Return) /\ UNCHANGED cancelled) \/ Cancel

Spec == Init /\ [][Next]_vars

CancelReturns == cancelled ~> ~ Running
=============================================================================
