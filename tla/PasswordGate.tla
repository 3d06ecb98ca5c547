---------------------------- MODULE PasswordGate ----------------------------
(***************************************************************************)
(* The gate in front of protected pastes and files                         *)
(* (components/PasswordGate.tsx): the states of its form, and the timer    *)
(* that lets a visitor try again after too many attempts.  The unlock      *)
(* pages that render it are in PastePages and FilePages.                   *)
(***************************************************************************)

VARIABLES
    gate,       \* state.status
    cooling     \* cooldownTimer is set

gateVars == <<gate, cooling>>

GateStatuses == {"idle", "loading", "error", "rate_limited"}

IsFormEnabled(status) == status \in {"idle", "error"}

\* eventForStatus; "ok" stands for response.ok and "failed" for every other
\* status and for no answer at all.
EventForStatus ==
    [ok |-> "SUCCESS", unauthorized |-> "UNAUTHORIZED", limited |-> "RATE_LIMITED",
     missing |-> "NOT_FOUND", gone |-> "GONE", failed |-> "ERROR"]

\* The events that answer a request, and the status each leads to.
StatusAfter ==
    [SUCCESS |-> "idle", UNAUTHORIZED |-> "error", RATE_LIMITED |-> "rate_limited",
     NOT_FOUND |-> "error", GONE |-> "error", ERROR |-> "error"]

\* nextState: an event that does not fit the status is ignored.
NextState(current, event) ==
    IF event = "SUBMIT" /\ IsFormEnabled(current) THEN "loading"
    ELSE IF event = "COOLDOWN_ELAPSED" /\ current = "rate_limited" THEN "idle"
    ELSE IF event \in DOMAIN StatusAfter /\ current = "loading" THEN StatusAfter[event]
    ELSE current

Dispatch(event) == gate' = NextState(gate, event)

GateTypeOK == gate \in GateStatuses /\ cooling \in BOOLEAN

GateInit == gate = "idle" /\ cooling = FALSE

\* The gate mounts, or unmounts: then its timer is cleared.
GateReset == gate' = "idle" /\ cooling' = FALSE

\* Mutant: the timer is never started.
GateAnswerNoTimer(status) ==
    /\ Dispatch(EventForStatus[status])
    /\ UNCHANGED cooling

\* handleRateLimited starts the timer after dispatching.
GateAnswer(status) ==
    /\ Dispatch(EventForStatus[status])
    /\ cooling' = (cooling \/ status = "limited")

GateCooled ==
    /\ cooling
    /\ cooling' = FALSE
    /\ Dispatch("COOLDOWN_ELAPSED")
=============================================================================
