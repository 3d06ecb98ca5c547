---------------------------- MODULE AdminPanels -----------------------------
(***************************************************************************)
(* The two panels of the admin page that talk to the server on their own:  *)
(* the settings form (components/AdminSettingsForm.tsx) and the backup     *)
(* section (AdminBackupSection in components/AdminDashboard.tsx).  A panel  *)
(* mounts when its tab is opened and unmounts when another one is, or when *)
(* the session ends; its calls go on, and only their refusals still count. *)
(***************************************************************************)
EXTENDS AdminSession, Sequences, SequencesExt

CONSTANTS
    Limits,     \* values of the numbers and switches of the settings
    Unfit,      \* those Validate refuses
    Options,    \* expiry options an administrator may enter
    Blank,      \* the option "+ Add Option" inserts: its label is empty
    MaxOptions, \* options of a list (a bound of the model)
    Names,      \* snapshot files
    CallIds,    \* calls that may be in flight (a bound)
    MaxEvents   \* clicks, edits and what happens outside (a bound)

ASSUME PanelsAssumption ==
    /\ Unfit \subseteq Limits
    /\ Blank \in Options
    /\ MaxOptions \in Nat /\ MaxEvents \in Nat
    /\ CallIds \subseteq Nat
    /\ None \notin Names

Settings == [limit : Limits, options : SeqOf(Options, MaxOptions)]

NoSettings == [limit |-> None, options |-> <<>>]

\* settings.Validate
Valid(s) == s.limit \notin Unfit /\ s.options # <<>> /\ Blank \notin ToSet(s.options)

VARIABLES
    row,            \* the server's settings
    snapshots,      \* the snapshot files of the server
    ran,            \* history: the modes of the restores run since the mount
    panel,          \* the mounted panel: "none", "settings" or "backups"
    form, loading, saving, saved,                       \* AdminSettingsForm
    backups, listing, creating, restoring, uploading,   \* AdminBackupSection
    wipeFirst, message,
    calls,          \* requests of the panels, mounted or not
    events

serverVars == <<row, snapshots, ran>>
formVars == <<form, loading, saving, saved>>
backupVars == <<backups, listing, creating, restoring, uploading, wipeFirst, message>>
vars == <<sessionVars, serverVars, panel, formVars, backupVars, calls, events>>

\* A call keeps what its closure captured: the token, the settings sent, the
\* snapshot, the mode.  "own" is dropped when its panel unmounts.
Call(op, settings, name, wipe) ==
    [op |-> op, settings |-> settings, name |-> name, wipe |-> wipe, token |-> stored,
     found |-> {}, status |-> "sent", own |-> TRUE]

NoCall == [op |-> "none", settings |-> NoSettings, name |-> None, wipe |-> FALSE,
           token |-> None, found |-> {}, status |-> "sent", own |-> FALSE]

CallSlot(i) == calls[i] = NoCall /\ \A j \in CallIds : j < i => calls[j] # NoCall

Send(call) == \E i \in CallIds : CallSlot(i) /\ calls' = [calls EXCEPT ![i] = call]

Done(i) == calls' = [calls EXCEPT ![i] = NoCall]

-----------------------------------------------------------------------------
(* Mounting a panel *)

\* The load of the settings form is cancelled with it; other calls go on.
Disowned(remaining) ==
    [i \in CallIds |-> IF remaining[i].op = "load" THEN NoCall
                       ELSE [remaining[i] EXCEPT !.own = FALSE]]

InitialForm(mounted) ==
    /\ form' = NoSettings
    /\ loading' = mounted
    /\ saving' = FALSE
    /\ saved' = FALSE

InitialBackups(mounted) ==
    /\ backups' = {}
    /\ listing' = mounted
    /\ creating' = FALSE
    /\ restoring' = None
    /\ uploading' = FALSE
    /\ wipeFirst' = FALSE
    /\ message' = "none"

\* The panel of the new tab mounts, and its effect loads what it shows.
OpenPanel(p) ==
    /\ stored # None
    /\ p # panel
    /\ panel' = p
    /\ InitialForm(p = "settings")
    /\ InitialBackups(p = "backups")
    /\ ran' = {}
    /\ LET left == Disowned(calls)
           load == Call(IF p = "settings" THEN "load" ELSE "list", NoSettings, None, FALSE)
       IN  IF p = "none" THEN calls' = left
           ELSE \E i \in CallIds : /\ left[i] = NoCall
                                   /\ \A j \in CallIds : j < i => left[j] # NoCall
                                   /\ calls' = [left EXCEPT ![i] = load]
    /\ UNCHANGED <<sessionVars, row, snapshots>>

\* onUnauthorized, and the LOGOUT button
EndSession(remaining) ==
    /\ ClearStoredToken
    /\ panel' = "none"
    /\ InitialForm(FALSE)
    /\ InitialBackups(FALSE)
    /\ ran' = {}
    /\ calls' = Disowned(remaining)
    /\ UNCHANGED <<serverToken, past, gate, typed, row, snapshots>>

ClickLogout == stored # None /\ EndSession(calls)

-----------------------------------------------------------------------------
(* ExpiryListEditor *)

UpdateOption(options, i, o) == [options EXCEPT ![i] = o]

RemoveOption(options, i) == RemoveAt(options, i)

AddOption(options) == Append(options, Blank)

EditedOptions(options) ==
    {UpdateOption(options, i, o) : i \in DOMAIN options, o \in Options \ {Blank}}
        \union {RemoveOption(options, i) : i \in DOMAIN options}
        \union {AddOption(options)}

-----------------------------------------------------------------------------
(* The settings form *)

\* Mutant: the form is not disabled while it is saved.
FormEnabledAlways == panel = "settings" /\ ~loading /\ form # NoSettings

\* Its inputs and its button exist once the settings are loaded and are
\* disabled while they are saved.
FormEnabled == panel = "settings" /\ ~loading /\ form # NoSettings /\ ~saving

Patch(s) ==
    /\ FormEnabled
    /\ form' = s
    /\ UNCHANGED <<sessionVars, serverVars, panel, loading, saving, saved, backupVars, calls>>

EditLimit == \E l \in Limits : l # form.limit /\ Patch([form EXCEPT !.limit = l])

EditOptions ==
    \E o \in EditedOptions(form.options) :
        Len(o) <= MaxOptions /\ Patch([form EXCEPT !.options = o])

HandleSave ==
    /\ FormEnabled
    /\ saving' = TRUE
    /\ saved' = FALSE
    /\ Send(Call("save", form, None, FALSE))
    /\ UNCHANGED <<sessionVars, serverVars, panel, form, loading, backupVars>>

-----------------------------------------------------------------------------
(* The backup section *)

\* Mutant: the button is not off while the list loads.
HandleCreateWhileLoading ==
    /\ panel = "backups"
    /\ ~creating
    /\ creating' = TRUE
    /\ message' = "none"
    /\ Send(Call("create", NoSettings, None, FALSE))
    /\ UNCHANGED <<sessionVars, serverVars, panel, formVars, backups, listing, restoring,
                   uploading, wipeFirst>>

\* "+ CREATE SNAPSHOT NOW" is off while creating or loading; "CREATE FIRST
\* SNAPSHOT" only exists when the (empty) list is there.
HandleCreateSnapshot ==
    /\ panel = "backups"
    /\ ~creating /\ ~listing
    /\ creating' = TRUE
    /\ message' = "none"
    /\ Send(Call("create", NoSettings, None, FALSE))
    /\ UNCHANGED <<sessionVars, serverVars, panel, formVars, backups, listing, restoring,
                   uploading, wipeFirst>>

ToggleWipeFirst ==
    /\ panel = "backups"
    /\ wipeFirst' = ~wipeFirst
    /\ UNCHANGED <<sessionVars, serverVars, panel, formVars, backups, listing, creating,
                   restoring, uploading, message, calls>>

\* RESTORE is off for the snapshot that is being restored, and for no other.
HandleRestoreSnapshot(n) ==
    /\ panel = "backups"
    /\ ~listing /\ n \in backups
    /\ restoring # n
    /\ restoring' = n
    /\ message' = "none"
    /\ Send(Call("restore", NoSettings, n, wipeFirst))
    /\ UNCHANGED <<sessionVars, serverVars, panel, formVars, backups, listing, creating,
                   uploading, wipeFirst>>

HandleUploadRestore ==
    /\ panel = "backups"
    /\ ~uploading
    /\ uploading' = TRUE
    /\ message' = "none"
    /\ Send(Call("upload", NoSettings, None, wipeFirst))
    /\ UNCHANGED <<sessionVars, serverVars, panel, formVars, backups, listing, creating,
                   restoring, wipeFirst>>

-----------------------------------------------------------------------------
(* What the calls do at the server *)

Mode(wipe) == IF wipe THEN "clean" ELSE "merge"

Answered(i, s) == calls' = [calls EXCEPT ![i].status = s]

Run(i) == ran' = IF calls[i].own THEN ran \union {Mode(calls[i].wipe)} ELSE ran

LoadAnswered(i) ==
    /\ calls[i].op = "load"
    /\ calls' = [calls EXCEPT ![i].status = "ok", ![i].settings = row]
    /\ UNCHANGED serverVars

ListAnswered(i) ==
    /\ calls[i].op \in {"list", "relist"}
    /\ calls' = [calls EXCEPT ![i].status = "ok", ![i].found = snapshots]
    /\ UNCHANGED serverVars

CreateAnswered(i) ==
    /\ calls[i].op = "create"
    /\ \E n \in Names \ snapshots : snapshots' = snapshots \union {n}
    /\ Answered(i, "ok")
    /\ UNCHANGED <<row, ran>>

\* PUT replaces the whole settings, or refuses them.
SaveCarriedOut(i) ==
    /\ calls[i].op = "save"
    /\ IF Valid(calls[i].settings)
       THEN /\ row' = calls[i].settings
            /\ Answered(i, "stored")
       ELSE Answered(i, "400") /\ UNCHANGED row
    /\ UNCHANGED <<snapshots, ran>>

\* It answers with the settings of that moment, which may be another admin's.
SaveAnswered(i) ==
    /\ calls[i].status = "stored"
    /\ calls' = [calls EXCEPT ![i].status = "ok", ![i].settings = row]
    /\ UNCHANGED <<sessionVars, serverVars, panel, formVars, backupVars>>

\* A snapshot that is not there any more is answered "404", too.
RestoreAnswered(i) ==
    /\ calls[i].op = "restore"
    /\ IF calls[i].name \in snapshots
       THEN Answered(i, "ok") /\ Run(i)
       ELSE Answered(i, "404") /\ UNCHANGED ran
    /\ UNCHANGED <<row, snapshots>>

UploadAnswered(i) ==
    /\ calls[i].op = "upload"
    /\ \/ Answered(i, "ok") /\ Run(i)
       \/ Answered(i, "400") /\ UNCHANGED ran
    /\ UNCHANGED <<row, snapshots>>

CallAnswered(i) ==
    /\ calls[i].op # "none"
    /\ calls[i].status = "sent"
    /\ IF Verdict(calls[i].token) = "ok"
       THEN \/ LoadAnswered(i) \/ ListAnswered(i) \/ CreateAnswered(i) \/ SaveCarriedOut(i)
            \/ RestoreAnswered(i) \/ UploadAnswered(i)
       ELSE Answered(i, Verdict(calls[i].token)) /\ UNCHANGED serverVars
    /\ UNCHANGED <<sessionVars, panel, formVars, backupVars>>

-----------------------------------------------------------------------------
(* What their answers do to the panel that sent them *)

\* A network failure may come at any time; a lost answer is one.
Arrivals(i) ==
    IF calls[i].status \in {"sent", "stored"} THEN {"failed"} ELSE {calls[i].status, "failed"}

\* Every call ends the session on 401 and 404, whichever session it came from.
RefusalLands(i, s) ==
    /\ calls[i].op # "none"
    /\ s \in Unauthorized
    /\ EndSession([calls EXCEPT ![i] = NoCall])

LoadLands(i, s) ==
    /\ calls[i].op = "load"
    /\ s \notin Unauthorized
    /\ form' = IF s = "ok" THEN calls[i].settings ELSE form
    /\ loading' = FALSE
    /\ Done(i)
    /\ UNCHANGED <<saving, saved, backupVars>>

SaveLands(i, s) ==
    /\ calls[i].op = "save"
    /\ s \notin Unauthorized
    /\ IF s = "ok"
       THEN form' = calls[i].settings /\ saved' = TRUE
       ELSE UNCHANGED <<form, saved>>
    /\ saving' = FALSE
    /\ Done(i)
    /\ UNCHANGED <<loading, backupVars>>

ListLands(i, s) ==
    /\ calls[i].op \in {"list", "relist"}
    /\ s \notin Unauthorized
    /\ backups' = IF s = "ok" THEN calls[i].found ELSE backups
    /\ listing' = FALSE
    /\ creating' = IF calls[i].op = "relist" THEN FALSE ELSE creating
    /\ Done(i)
    /\ UNCHANGED <<formVars, restoring, uploading, wipeFirst, message>>

CreateFails(i, s) ==
    /\ calls[i].op = "create"
    /\ s \notin Unauthorized \union {"ok"}
    /\ creating' = FALSE
    /\ Done(i)
    /\ UNCHANGED <<formVars, backups, listing, restoring, uploading, wipeFirst, message>>

\* Mutant: the message names the mode that is switched on when the answer comes.
RestoreLandsCurrentMode(i, s) ==
    /\ calls[i].op = "restore"
    /\ s \notin Unauthorized
    /\ message' = IF s = "ok" THEN Mode(wipeFirst) ELSE message
    /\ restoring' = None
    /\ Done(i)
    /\ UNCHANGED <<formVars, backups, listing, creating, uploading, wipeFirst>>

\* Mutant: setRestoring(false) instead of setRestoring(null).
RestoreLandsFalse(i, s) ==
    /\ calls[i].op = "restore"
    /\ s \notin Unauthorized
    /\ message' = IF s = "ok" THEN Mode(calls[i].wipe) ELSE message
    /\ restoring' = FALSE
    /\ Done(i)
    /\ UNCHANGED <<formVars, backups, listing, creating, uploading, wipeFirst>>

RestoreLands(i, s) ==
    /\ calls[i].op = "restore"
    /\ s \notin Unauthorized
    /\ message' = IF s = "ok" THEN Mode(calls[i].wipe) ELSE message
    /\ restoring' = None
    /\ Done(i)
    /\ UNCHANGED <<formVars, backups, listing, creating, uploading, wipeFirst>>

UploadLands(i, s) ==
    /\ calls[i].op = "upload"
    /\ s \notin Unauthorized
    /\ message' = IF s = "ok" THEN Mode(calls[i].wipe) ELSE message
    /\ uploading' = FALSE
    /\ Done(i)
    /\ UNCHANGED <<formVars, backups, listing, creating, restoring, wipeFirst>>

\* A created snapshot is followed by a new listing, mounted or not.
CreateLands(i, s) ==
    /\ calls[i].op = "create"
    /\ s = "ok"
    /\ calls' = [calls EXCEPT ![i].op = "relist", ![i].status = "sent"]
    /\ IF calls[i].own
       THEN message' = "created" /\ listing' = TRUE
       ELSE UNCHANGED <<message, listing>>
    /\ UNCHANGED <<sessionVars, serverVars, panel, formVars, backups, creating, restoring,
                   uploading, wipeFirst>>

LandsHere(i, s) ==
    /\ calls[i].own
    /\ \/ LoadLands(i, s) \/ SaveLands(i, s)
       \/ ListLands(i, s) \/ CreateFails(i, s)
       \/ RestoreLands(i, s) \/ UploadLands(i, s)
    /\ UNCHANGED <<sessionVars, serverVars, panel>>

LandsNowhere(i, s) ==
    /\ calls[i].op # "none" /\ ~calls[i].own
    /\ s \notin Unauthorized
    /\ ~(calls[i].op = "create" /\ s = "ok")
    /\ Done(i)
    /\ UNCHANGED <<sessionVars, serverVars, panel, formVars, backupVars>>

CallLands(i) ==
    \E s \in Arrivals(i) :
        \/ RefusalLands(i, s) \/ LandsHere(i, s) \/ CreateLands(i, s) \/ LandsNowhere(i, s)

-----------------------------------------------------------------------------
(* The session and the world outside *)

Login ==
    /\ TokenAccepted
    /\ UNCHANGED <<serverVars, panel, formVars, backupVars, calls>>

AtTheGate == GateStep /\ UNCHANGED <<serverVars, panel, formVars, backupVars, calls>>

Restart == RestartServer /\ UNCHANGED <<serverVars, panel, formVars, backupVars, calls>>

OtherAdminSaves(s) ==
    /\ Valid(s) /\ s # row
    /\ row' = s
    /\ UNCHANGED <<sessionVars, snapshots, ran, panel, formVars, backupVars, calls>>

\* Snapshot files belong to the operator, who may remove them.
SnapshotRemoved(n) ==
    /\ n \in snapshots
    /\ snapshots' = snapshots \ {n}
    /\ UNCHANGED <<sessionVars, row, ran, panel, formVars, backupVars, calls>>

Init ==
    /\ SessionInit
    /\ row \in Settings /\ Valid(row)
    /\ snapshots \in SUBSET Names
    /\ ran = {}
    /\ panel = "none"
    /\ form = NoSettings /\ loading = FALSE /\ saving = FALSE /\ saved = FALSE
    /\ backups = {} /\ listing = FALSE /\ creating = FALSE
    /\ restoring = None /\ uploading = FALSE /\ wipeFirst = FALSE /\ message = "none"
    /\ calls = [i \in CallIds |-> NoCall]
    /\ events = 0

AdminStep ==
    \/ ClickLogout
    \/ \E p \in {"none", "settings", "backups"} : OpenPanel(p)
    \/ EditLimit \/ EditOptions \/ HandleSave
    \/ HandleCreateSnapshot \/ ToggleWipeFirst \/ HandleUploadRestore
    \/ \E n \in Names : HandleRestoreSnapshot(n)

OutsideStep ==
    \/ Restart
    \/ \E s \in Settings : OtherAdminSaves(s)
    \/ \E n \in Names : SnapshotRemoved(n)

SystemStep ==
    \/ AtTheGate \/ Login
    \/ \E i \in CallIds : CallAnswered(i) \/ SaveAnswered(i) \/ CallLands(i)

Next ==
    \/ (AdminStep \/ OutsideStep) /\ events < MaxEvents /\ events' = events + 1
    \/ SystemStep /\ UNCHANGED events

Spec == Init /\ [][Next]_vars

-----------------------------------------------------------------------------
(* Properties *)

CallRecord ==
    [op : {"none", "load", "save", "list", "relist", "create", "restore", "upload"},
     settings : Settings \union {NoSettings}, name : Names \union {None}, wipe : BOOLEAN,
     token : Tokens \union {None}, found : SUBSET Names,
     status : {"sent", "stored", "400"} \union Statuses, own : BOOLEAN]

PanelsTypeOK ==
    /\ row \in Settings
    /\ snapshots \subseteq Names
    /\ ran \subseteq {"clean", "merge"}
    /\ panel \in {"none", "settings", "backups"}
    /\ form \in Settings \union {NoSettings}
    /\ {loading, saving, saved, listing, creating, uploading, wipeFirst} \subseteq BOOLEAN
    /\ backups \subseteq Names
    /\ restoring \in Names \union {None}
    /\ message \in {"none", "created", "clean", "merge"}
    /\ calls \in [CallIds -> CallRecord]
    /\ events \in 0..MaxEvents

TypeOK == SessionTypeOK /\ PanelsTypeOK

Own(i, ops) == calls[i].own /\ calls[i].op \in ops

\* Within one mount of a panel, a form that waits has a call behind it that will
\* release it, and a save, a snapshot, an upload or a listing is not submitted
\* while one is under way.  Restores take no such turns (OneRestoreEach), nor does
\* a panel that is opened again with what it sent before (OneSaveEver).
OneSubmitAtATime ==
    /\ saving <=> \E i \in CallIds : Own(i, {"save"})
    /\ creating <=> \E i \in CallIds : Own(i, {"create"}) \/ Own(i, {"relist"})
    /\ uploading <=> \E i \in CallIds : Own(i, {"upload"})
    /\ listing <=> \E i \in CallIds : Own(i, {"list", "relist"})
    /\ restoring # None => \E i \in CallIds : Own(i, {"restore"}) /\ calls[i].name = restoring
    /\ \A i, j \in CallIds, op \in {"load", "save", "upload"} :
           Own(i, {op}) /\ Own(j, {op}) => i = j
    /\ \A i, j \in CallIds :
           Own(i, {"list", "relist", "create"}) /\ Own(j, {"list", "relist", "create"}) => i = j

\* Nothing an administrator enters is overwritten by an answer: until a save
\* is answered the form still holds exactly what was sent.
EditsSurviveTheSave ==
    \A i \in CallIds :
        Own(i, {"save"}) /\ calls[i].status = "sent" => calls[i].settings = form

\* The message after a restore names a mode a restore of this mount ran in: the
\* switch may have been turned while the server was working.
MessageNamesTheModeRun == message \in {"clean", "merge"} => message \in ran

\* The documentation of the API client says when a token is refused: 401, or
\* 404 "when the admin API is disabled server-side" (lib/api.ts:302).  So a
\* session whose token the server still takes ends by the LOGOUT button only.
SessionEndsForCause ==
    [][stored # None /\ stored' = None /\ serverToken = stored => ClickLogout]_vars

-----------------------------------------------------------------------------
(* Not kept by the code *)

\* A snapshot is not restored twice at a time.  restoringFilename holds one name:
\* restoring another snapshot frees the button of the first.
OneRestoreEach ==
    \A i, j \in CallIds :
        Own(i, {"restore"}) /\ Own(j, {"restore"}) /\ calls[i].name = calls[j].name => i = j

\* One save is under way at a time, those of a form that was left included.  A form
\* that is opened again knows nothing of them.
OneSaveEver ==
    \A i, j \in CallIds : calls[i].op = "save" /\ calls[j].op = "save" => i = j

-----------------------------------------------------------------------------
(* The inductive invariant behind the first three *)

\* The form loads before it is edited, and never while it is saved.
LoadsOK ==
    /\ loading <=> \E i \in CallIds : Own(i, {"load"})
    /\ \A i, j \in CallIds : Own(i, {"load"}) => ~Own(j, {"save"})

\* The restore behind an answer on its way has run, in the mode it was sent with;
\* what is stored and not yet answered is a save.
RunsOK ==
    \A i \in CallIds :
        /\ Own(i, {"restore", "upload"}) /\ calls[i].status = "ok" => Mode(calls[i].wipe) \in ran
        /\ calls[i].status = "stored" => calls[i].op = "save"

\* What every reachable state satisfies, and every step preserves: the types, the
\* properties above, and what the calls under way know of the panel.
IInv == TypeOK /\ OneSubmitAtATime /\ EditsSurviveTheSave /\ MessageNamesTheModeRun
            /\ LoadsOK /\ RunsOK
=============================================================================
