---------------------------- MODULE AdminSession ----------------------------
(***************************************************************************)
(* The session of the hidden admin page (components/AdminDashboard.tsx):   *)
(* the token typed at the gate, the token kept in sessionStorage, and the  *)
(* token the server was started with.  The page shows the gate while no    *)
(* token is stored and the dashboard while one is; every admin request     *)
(* carries the token its closure captured.                                 *)
(***************************************************************************)
EXTENDS Naturals

CONSTANTS
    Tokens,     \* tokens an operator may give the server, or an admin may type
    None,       \* nothing stored, nothing typed
    Off         \* the server was started without ADMIN_TOKEN

ASSUME SessionAssumption == None \notin Tokens /\ Off \notin Tokens /\ None # Off

VARIABLES
    serverToken,    \* the ADMIN_TOKEN of the running server, or Off
    past,           \* the values it had before: each is used once (the bound on restarts)
    stored,         \* sessionStorage[darkcopy_admin_token], or None
    gate,           \* the request of the gate: "idle", "asking" or its answer
    typed           \* the token in the gate's input

sessionVars == <<serverToken, past, stored, gate, typed>>

\* What apiFetch makes of an answer: "ok", the status of an APIError, or
\* "failed" for everything else (no answer, an unreadable one, a 5xx).
Statuses == {"ok", "401", "404", "failed"}

\* The statuses on which the dashboard gives its token up.
Unauthorized == {"401", "404"}

\* requireToken, before every admin handler.
Verdict(t) ==
    IF serverToken = Off THEN "404" ELSE IF t = serverToken THEN "ok" ELSE "401"

SessionTypeOK ==
    /\ serverToken \in Tokens \union {Off}
    /\ past \subseteq Tokens \union {Off}
    /\ stored \in Tokens \union {None}
    /\ gate \in {"idle", "asking"} \union Statuses
    /\ typed \in Tokens \union {None}

SessionInit ==
    /\ serverToken \in Tokens
    /\ past = {}
    /\ stored = None
    /\ gate = "idle"
    /\ typed = None

SetStoredToken(t) == stored' = t

ClearStoredToken == stored' = None

GateShown == stored = None

\* handleSubmit: an empty token, or a request under way, returns early.
SubmitToken(t) ==
    /\ GateShown
    /\ gate = "idle"
    /\ gate' = "asking"
    /\ typed' = t
    /\ UNCHANGED <<serverToken, past, stored>>

\* getAdminStats(trimmed) comes back.
GateAnswered ==
    /\ gate = "asking"
    /\ gate' \in {Verdict(typed), "failed"}
    /\ UNCHANGED <<serverToken, past, stored, typed>>

\* Only a token the server has accepted is stored; the dashboard replaces the gate.
TokenAccepted ==
    /\ gate = "ok"
    /\ SetStoredToken(typed)
    /\ gate' = "idle"
    /\ typed' = None
    /\ UNCHANGED <<serverToken, past>>

\* Every other outcome leaves the gate where it is, with an error.
TokenRefused ==
    /\ gate \in Statuses \ {"ok"}
    /\ gate' = "idle"
    /\ UNCHANGED <<serverToken, past, stored, typed>>

\* The server restarts with a token it has not had yet, or without one.
RestartServer ==
    /\ \E t \in (Tokens \union {Off}) \ (past \union {serverToken}) :
           serverToken' = t
    /\ past' = past \union {serverToken}
    /\ UNCHANGED <<stored, gate, typed>>

GateStep ==
    \/ \E t \in Tokens : SubmitToken(t)
    \/ GateAnswered
    \/ TokenRefused
=============================================================================
