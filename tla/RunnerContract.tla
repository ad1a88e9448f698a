--------------------------- MODULE RunnerContract ---------------------------
(***************************************************************************)
(* What Runner.Run promises to its owner, the network abstracted away: the *)
(* states it reports, in which order, and how it ends.  Supervisor is      *)
(* modelled over this contract and DrcomSession implements it.             *)
(***************************************************************************)

VARIABLES
  phase,      \* "idle" before Run, then "login", "established", "leaving",
              \* "logout" and "ended", when it has returned
  state,      \* the last state reported through OnState
  result,     \* the error Run returns
  cancelled   \* the context is done

vars == <<phase, state, result, cancelled>>

Phases == {"idle", "login", "established", "leaving", "logout", "ended"}
Transient == {"refused", "unavailable"}

\* Run reports LoginChallenge before it sends anything.
Start ==
  /\ phase' = "login" /\ state' = "LoginChallenge" /\ result' = "none"

Started == phase = "login" /\ state = "LoginChallenge" /\ result = "none"

\* The challenge is answered; then the login is.
Challenged ==
  /\ phase = "login" /\ state = "LoginChallenge"
  /\ state' = "LoggingIn" /\ UNCHANGED <<phase, result>>

LoggedIn ==
  /\ phase = "login" /\ state = "LoggingIn"
  /\ phase' = "established" /\ UNCHANGED <<state, result>>

\* Login fails and Run returns at once.  Only the login packet can be rejected.
LoginFails ==
  /\ phase = "login"
  /\ phase' = "ended" /\ state' = "Failed"
  /\ \/ result' \in Transient
     \/ cancelled /\ result' = "canceled"
     \/ state = "LoggingIn" /\ result' = "rejected"

\* A round of heartbeats succeeds or fails; a pause ends with the context.
RoundDone ==
  /\ phase = "established"
  /\ state' = "Online" /\ UNCHANGED <<phase, result>>

RoundFails ==
  /\ phase = "established"
  /\ phase' = "leaving" /\ state' = "Failed"
  /\ \/ result' \in Transient
     \/ cancelled /\ result' = "canceled"

PauseEnds ==
  /\ phase = "established" /\ state = "Online" /\ cancelled
  /\ phase' = "leaving" /\ result' = "canceled" /\ UNCHANGED state

\* The deferred logout, only of a cancelled session, and its outcome.
Deferred ==
  /\ phase = "leaving"
  /\ IF cancelled THEN phase' = "logout" /\ state' = "LoggingOut"
                  ELSE phase' = "ended" /\ UNCHANGED state
  /\ UNCHANGED result

LogoutEnds ==
  /\ phase = "logout"
  /\ phase' = "ended" /\ state' \in {"LoggingOut", "Stopped"} /\ UNCHANGED result

\* The steps that end a run, which a cancelled one must take sooner or later.
Ending == LoginFails \/ RoundFails \/ PauseEnds \/ Deferred \/ LogoutEnds

Quiet == Challenged \/ LoggedIn \/ Ending
Step == Quiet \/ RoundDone

Cancel == ~ cancelled /\ cancelled' = TRUE /\ UNCHANGED <<phase, state, result>>

Init == Started /\ cancelled = FALSE
Next == (Step /\ UNCHANGED cancelled) \/ Cancel

Spec == Init /\ [][Next]_vars
=============================================================================
