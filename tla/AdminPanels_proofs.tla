--------------------------- MODULE AdminPanels_proofs --------------------------
(***************************************************************************)
(* Proofs about AdminPanels, for every set of settings, expiry options,    *)
(* snapshots and calls and every number of events.  The steps that leave   *)
(* the panel and its calls alone are one case (Aside), so are the answers  *)
(* of the server (Answers) and the ends of a session (EndSession).         *)
(***************************************************************************)
EXTENDS AdminPanels, TLAPS, SequenceTheorems

\* What the editor of the expiry options makes of a list is a list of options.
LEMMA EditsAreLists ==
    ASSUME NEW options \in Seq(Options), NEW edited \in EditedOptions(options)
    PROVE  edited \in Seq(Options)
<1>1. CASE edited = AddOption(options)
  BY <1>1, PanelsAssumption DEF AddOption
<1>2. ASSUME NEW i \in DOMAIN options, NEW o \in Options, edited = UpdateOption(options, i, o)
      PROVE  edited \in Seq(Options)
  BY <1>2, ExceptSeq DEF UpdateOption
<1>3. ASSUME NEW i \in DOMAIN options, edited = RemoveOption(options, i)
      PROVE  edited \in Seq(Options)
  <2>1. i \in 1..Len(options) /\ Len(options) \in Nat
    OBVIOUS
  <2>2. SubSeq(options, 1, i - 1) \in Seq(Options)
    BY <2>1, SubSeqProperties
  <2>3. SubSeq(options, i + 1, Len(options)) \in Seq(Options)
    BY <2>1, SubSeqProperties
  <2> QED
    BY <1>3, <2>2, <2>3, ConcatProperties DEF RemoveOption, RemoveAt
<1> QED
  BY <1>1, <1>2, <1>3 DEF EditedOptions

\* SeqOf is Seq up to a length.
LEMMA BoundedLists ==
    /\ \A o \in SeqOf(Options, MaxOptions) : o \in Seq(Options)
    /\ \A o \in Seq(Options) : Len(o) <= MaxOptions => o \in SeqOf(Options, MaxOptions)
<1>1. ASSUME NEW o \in SeqOf(Options, MaxOptions) PROVE o \in Seq(Options)
  <2>1. PICK m \in 0..MaxOptions : o \in [1..m -> Options]
    BY DEF SeqOf
  <2> QED
    BY <2>1, PanelsAssumption
<1>2. ASSUME NEW o \in Seq(Options), Len(o) <= MaxOptions PROVE o \in SeqOf(Options, MaxOptions)
  <2>1. Len(o) \in 0..MaxOptions /\ o \in [1..Len(o) -> Options]
    BY <1>2, PanelsAssumption
  <2> QED
    BY <2>1 DEF SeqOf
<1> QED
  BY <1>1, <1>2

\* The types of the server, of the panel, and of the calls.
ServerTypes ==
    /\ row \in Settings
    /\ snapshots \subseteq Names
    /\ ran \subseteq {"clean", "merge"}

PanelTypes ==
    /\ panel \in {"none", "settings", "backups"}
    /\ form \in Settings \union {NoSettings}
    /\ loading \in BOOLEAN /\ saving \in BOOLEAN /\ saved \in BOOLEAN
    /\ listing \in BOOLEAN /\ creating \in BOOLEAN /\ uploading \in BOOLEAN /\ wipeFirst \in BOOLEAN
    /\ backups \subseteq Names
    /\ restoring \in Names \union {None}
    /\ message \in {"none", "created", "clean", "merge"}

CallTypes == calls \in [CallIds -> CallRecord]

Types == SessionTypeOK /\ ServerTypes /\ PanelTypes /\ CallTypes

\* An edited form is a form.
LEMMA PatchesAreSettings ==
    ASSUME Types, EditLimit \/ EditOptions
    PROVE  \E s \in Settings : Patch(s)
<1>1. form \in Settings
  BY DEF EditLimit, EditOptions, Patch, FormEnabled, Types, PanelTypes
<1>2. CASE EditLimit
  <2>1. PICK l \in Limits : Patch([form EXCEPT !.limit = l])
    BY <1>2 DEF EditLimit
  <2>2. [form EXCEPT !.limit = l] \in Settings
    BY <1>1 DEF Settings
  <2> QED
    BY <2>1, <2>2
<1>3. CASE EditOptions
  <2>1. PICK o \in EditedOptions(form.options) :
            Len(o) <= MaxOptions /\ Patch([form EXCEPT !.options = o])
    BY <1>3 DEF EditOptions
  <2>2. form.options \in Seq(Options)
    BY <1>1, BoundedLists DEF Settings
  <2>3. o \in SeqOf(Options, MaxOptions)
    BY <2>1, <2>2, EditsAreLists, BoundedLists
  <2>4. [form EXCEPT !.options = o] \in Settings
    BY <1>1, <2>3 DEF Settings
  <2> QED
    BY <2>1, <2>4
<1> QED
  BY <1>2, <1>3

\* The steps that leave the panel and its calls alone.
Aside == UNCHANGED <<ran, panel, formVars, backupVars, calls>>

\* What an answer does: the call keeps what it asked for, and a restore that is
\* answered "ok" has run.
Answers(i) ==
    /\ \E c \in CallRecord :
           /\ calls' = [calls EXCEPT ![i] = c]
           /\ c.op = calls[i].op /\ c.own = calls[i].own
           /\ c.name = calls[i].name /\ c.wipe = calls[i].wipe
           /\ c.status # "sent" /\ (c.status = "stored" => c.op = "save")
           /\ c.op \in {"restore", "upload"} /\ c.own /\ c.status = "ok" => Mode(c.wipe) \in ran'
    /\ ran \subseteq ran'
    /\ UNCHANGED <<panel, formVars, backupVars>>

\* What may come back: the answer, or a failure.
Landings == {"400"} \union Statuses

\* The calls a session leaves when it ends.
Remainders == {calls} \union {[calls EXCEPT ![i] = NoCall] : i \in CallIds}

\* The steps of the page, one by one.
StepCases ==
    \/ \E remaining \in Remainders : EndSession(remaining)
    \/ \E p \in {"none", "settings", "backups"} : OpenPanel(p)
    \/ \E s \in Settings : Patch(s)
    \/ HandleSave \/ HandleCreateSnapshot \/ ToggleWipeFirst \/ HandleUploadRestore
    \/ \E n \in Names : HandleRestoreSnapshot(n)
    \/ \E i \in CallIds : Answers(i)
    \/ \E i \in CallIds, s \in Landings :
        \/ /\ LoadLands(i, s) \/ SaveLands(i, s) \/ ListLands(i, s) \/ CreateFails(i, s)
              \/ RestoreLands(i, s) \/ UploadLands(i, s)
           /\ calls[i].own /\ (s = "ok" => calls[i].status = "ok")
           /\ UNCHANGED <<sessionVars, serverVars, panel>>
        \/ CreateLands(i, s) \/ LandsNowhere(i, s)
    \/ Aside

\* A changed call is a call.
LEMMA CallFacts ==
    /\ NoCall \in CallRecord
    /\ \A c \in CallRecord, s \in {"sent", "stored"} \union Landings : [c EXCEPT !.status = s] \in CallRecord
    /\ \A c \in CallRecord, t \in Settings : [c EXCEPT !.status = "ok", !.settings = t] \in CallRecord
    /\ \A c \in CallRecord : [c EXCEPT !.own = FALSE] \in CallRecord
    /\ \A c \in CallRecord : [c EXCEPT !.op = "relist", !.status = "sent"] \in CallRecord
    /\ \A c \in CallRecord, f \in SUBSET Names : [c EXCEPT !.status = "ok", !.found = f] \in CallRecord
  BY ZenonT(40) DEF CallRecord, NoCall, Landings, Statuses

\* A call that is made is a call.
LEMMA MadeCalls ==
    ASSUME Types, NEW op \in {"load", "save", "list", "create", "restore", "upload"},
           NEW t \in Settings \union {NoSettings}, NEW n \in Names \union {None}, NEW w \in BOOLEAN
    PROVE  /\ Call(op, t, n, w) \in CallRecord
           /\ Send(Call(op, t, n, w)) => CallTypes'
<1>1. Call(op, t, n, w) \in CallRecord
  BY DEF Call, CallRecord, Types, SessionTypeOK
<1>2. ASSUME NEW c \in CallRecord, Send(c) PROVE CallTypes'
  BY <1>2 DEF Send, Types, CallTypes
<1> QED
  BY <1>1, <1>2

\* A panel that unmounts owns no call any more; its calls are what they were.
LEMMA Unmounted ==
    ASSUME Types, NEW remaining \in Remainders
    PROVE  /\ Disowned(remaining) \in [CallIds -> CallRecord]
           /\ \A i \in CallIds : ~Disowned(remaining)[i].own
           /\ \A i \in CallIds : Disowned(remaining)[i].status = "stored" =>
                  /\ calls[i].status = "stored"
                  /\ Disowned(remaining)[i].op = calls[i].op
<1>1. remaining \in [CallIds -> CallRecord]
  BY CallFacts DEF Remainders, Types, CallTypes
<1>2. \A i \in CallIds : remaining[i] = calls[i] \/ remaining[i] = NoCall
  BY DEF Remainders, Types, CallTypes
<1>3. ASSUME NEW i \in CallIds
      PROVE  /\ Disowned(remaining)[i] \in CallRecord
             /\ ~Disowned(remaining)[i].own
             /\ Disowned(remaining)[i].status = "stored" =>
                    /\ calls[i].status = "stored"
                    /\ Disowned(remaining)[i].op = calls[i].op
  <2>1. CASE remaining[i].op = "load"
    BY <2>1, CallFacts DEF Disowned, NoCall
  <2>2. CASE remaining[i].op # "load"
    <3>1. Disowned(remaining)[i] = [remaining[i] EXCEPT !.own = FALSE]
      BY <2>2 DEF Disowned
    <3>2. remaining[i] \in CallRecord
      BY <1>1
    <3>3. [remaining[i] EXCEPT !.own = FALSE] \in CallRecord
      BY <3>2, CallFacts
    <3>4. Disowned(remaining)[i].own = FALSE /\ Disowned(remaining)[i].status = remaining[i].status
          /\ Disowned(remaining)[i].op = remaining[i].op
      BY <3>1, <3>2 DEF CallRecord
    <3>5. remaining[i].status = "stored" => remaining[i] = calls[i]
      BY <1>2 DEF NoCall
    <3> QED
      BY <3>1, <3>3, <3>4, <3>5
  <2> QED
    BY <2>1, <2>2
<1>4. Disowned(remaining) \in [CallIds -> CallRecord]
  BY <1>3 DEF Disowned
<1> QED
  BY <1>3, <1>4

\* The calls after a panel has been opened: one of its own, unless it has none to make.
LEMMA Opened ==
    ASSUME Types, NEW p \in {"none", "settings", "backups"}, OpenPanel(p)
    PROVE  /\ calls' \in [CallIds -> CallRecord]
           /\ p = "none" => \A i \in CallIds : ~calls'[i].own
           /\ p # "none" =>
                  \E i \in CallIds :
                      /\ calls'[i].op = IF p = "settings" THEN "load" ELSE "list"
                      /\ calls'[i].own /\ calls'[i].status = "sent"
                      /\ \A j \in CallIds : j # i => ~calls'[j].own
           /\ \A i \in CallIds : calls'[i].status = "stored" =>
                  calls[i].status = "stored" /\ calls'[i].op = calls[i].op
<1>1. calls \in Remainders
  BY DEF Remainders
<1>2. CASE p = "none"
  <2>1. calls' = Disowned(calls)
    BY <1>2 DEF OpenPanel
  <2> QED
    BY <1>1, <1>2, <2>1, Unmounted
<1>3. CASE p # "none"
  <2> DEFINE load == Call(IF p = "settings" THEN "load" ELSE "list", NoSettings, None, FALSE)
  <2>1. PICK i \in CallIds : calls' = [Disowned(calls) EXCEPT ![i] = load]
    BY <1>3 DEF OpenPanel
  <2>2. load \in CallRecord
    BY MadeCalls
  <2>3. load.own /\ load.status = "sent" /\ load.op = IF p = "settings" THEN "load" ELSE "list"
    BY DEF Call
  <2> HIDE DEF load
  <2>4. Disowned(calls) \in [CallIds -> CallRecord]
    BY <1>1, Unmounted
  <2>5. calls' \in [CallIds -> CallRecord] /\ calls'[i] = load
        /\ \A j \in CallIds : j # i => calls'[j] = Disowned(calls)[j]
    BY <2>1, <2>2, <2>4
  <2> QED
    BY <1>1, <1>3, <2>3, <2>5, Unmounted
<1> QED
  BY <1>2, <1>3

\* Every answer of the server is one of Answers.
LEMMA AnswersAreAnswers ==
    ASSUME Types, RunsOK, NEW i \in CallIds, CallAnswered(i) \/ SaveAnswered(i)
    PROVE  Answers(i)
<1>0. calls[i] \in CallRecord
  BY DEF Types, CallTypes
<1>1. CASE SaveAnswered(i)
  <2>1. [calls[i] EXCEPT !.status = "ok", !.settings = row] \in CallRecord
    BY <1>0, CallFacts DEF Types, ServerTypes
  <2>2. calls[i].op = "save"
    BY <1>1 DEF SaveAnswered, RunsOK
  <2> DEFINE c == [calls[i] EXCEPT !.status = "ok", !.settings = row]
  <2>3. c.op = calls[i].op /\ c.own = calls[i].own /\ c.name = calls[i].name /\ c.wipe = calls[i].wipe
        /\ c.status = "ok"
    BY <1>0 DEF CallRecord
  <2>4. calls' = [calls EXCEPT ![i] = c] /\ ran' = ran /\ UNCHANGED <<panel, formVars, backupVars>>
    BY <1>1 DEF SaveAnswered, serverVars
  <2> HIDE DEF c
  <2> QED
    BY <2>1, <2>2, <2>3, <2>4 DEF c, Answers
<1>2. CASE CallAnswered(i)
  <2>1. UNCHANGED <<panel, formVars, backupVars>> /\ calls[i].status = "sent"
    BY <1>2 DEF CallAnswered
  <2>2. CASE LoadAnswered(i)
    <3>1. [calls[i] EXCEPT !.status = "ok", !.settings = row] \in CallRecord
      BY <1>0, CallFacts DEF Types, ServerTypes
    <3> DEFINE c == [calls[i] EXCEPT !.status = "ok", !.settings = row]
    <3>2. c.op = calls[i].op /\ c.own = calls[i].own /\ c.name = calls[i].name /\ c.wipe = calls[i].wipe
          /\ c.status = "ok"
      BY <1>0 DEF CallRecord
    <3>3. calls' = [calls EXCEPT ![i] = c] /\ ran' = ran /\ calls[i].op = "load"
      BY <2>2 DEF LoadAnswered, serverVars
    <3> HIDE DEF c
    <3> QED
      BY <2>1, <3>1, <3>2, <3>3 DEF c, Answers
  <2>3. CASE ListAnswered(i)
    <3>1. [calls[i] EXCEPT !.status = "ok", !.found = snapshots] \in CallRecord
      BY <1>0, CallFacts DEF Types, ServerTypes
    <3> DEFINE c == [calls[i] EXCEPT !.status = "ok", !.found = snapshots]
    <3>2. c.op = calls[i].op /\ c.own = calls[i].own /\ c.name = calls[i].name /\ c.wipe = calls[i].wipe
          /\ c.status = "ok"
      BY <1>0 DEF CallRecord
    <3>3. calls' = [calls EXCEPT ![i] = c] /\ ran' = ran /\ calls[i].op \in {"list", "relist"}
      BY <2>3 DEF ListAnswered, serverVars
    <3> HIDE DEF c
    <3> QED
      BY <2>1, <3>1, <3>2, <3>3 DEF c, Answers
  <2>4. ASSUME NEW s \in {"stored"} \union Landings, Answered(i, s), ran \subseteq ran',
               s = "stored" => calls[i].op = "save",
               calls[i].op \in {"restore", "upload"} /\ calls[i].own /\ s = "ok" => Mode(calls[i].wipe) \in ran'
        PROVE  Answers(i)
    <3>1. [calls[i] EXCEPT !.status = s] \in CallRecord
      BY <1>0, CallFacts
    <3>2. s # "sent"
      BY DEF Landings, Statuses
    <3> QED
      BY ZenonT(40), <1>0, <2>1, <2>4, <3>1, <3>2 DEF Answered, Answers, CallRecord
  <2>5. CASE CreateAnswered(i)
    BY <2>4, <2>5 DEF CreateAnswered, Landings, Statuses
  <2>6. CASE SaveCarriedOut(i)
    BY <2>4, <2>6 DEF SaveCarriedOut, Landings, Statuses
  <2>7. CASE RestoreAnswered(i)
    BY <2>4, <2>7 DEF RestoreAnswered, Run, Landings, Statuses
  <2>8. CASE UploadAnswered(i)
    BY <2>4, <2>8 DEF UploadAnswered, Run, Landings, Statuses
  <2>9. CASE Verdict(calls[i].token) # "ok" /\ Answered(i, Verdict(calls[i].token)) /\ UNCHANGED serverVars
    <3>1. Verdict(calls[i].token) \in {"404", "401"}
      BY <2>9 DEF Verdict
    <3> QED
      BY <2>4, <2>9, <3>1 DEF serverVars, Landings, Statuses
  <2> QED
    BY <1>2, <2>2, <2>3, <2>5, <2>6, <2>7, <2>8, <2>9 DEF CallAnswered
<1> QED
  BY <1>1, <1>2

\* Every step is one of StepCases.
LEMMA Steps == ASSUME Types, RunsOK, [Next]_vars PROVE StepCases
<1>1. CASE ClickLogout
  BY <1>1 DEF ClickLogout, Remainders, StepCases
<1>2. CASE EditLimit \/ EditOptions
  BY <1>2, PatchesAreSettings DEF StepCases
<1>3. ASSUME NEW i \in CallIds, CallAnswered(i) \/ SaveAnswered(i) PROVE StepCases
  BY <1>3, AnswersAreAnswers DEF StepCases
<1>4. ASSUME NEW i \in CallIds, CallLands(i) PROVE StepCases
  <2>1. PICK s \in Arrivals(i) :
            RefusalLands(i, s) \/ LandsHere(i, s) \/ CreateLands(i, s) \/ LandsNowhere(i, s)
    BY <1>4 DEF CallLands
  <2>2. s \in Landings /\ (s = "ok" => calls[i].status = "ok")
    BY DEF Arrivals, Landings, Statuses, Types, CallTypes, CallRecord
  <2>3. CASE RefusalLands(i, s)
    BY <2>3 DEF RefusalLands, Remainders, StepCases
  <2>4. CASE LandsHere(i, s)
    BY <2>2, <2>4 DEF LandsHere, StepCases
  <2>5. CASE CreateLands(i, s) \/ LandsNowhere(i, s)
    BY <2>2, <2>5 DEF StepCases
  <2> QED
    BY <2>1, <2>3, <2>4, <2>5
<1>5. CASE AtTheGate \/ Login \/ Restart
  BY <1>5 DEF AtTheGate, Login, Restart, Aside, StepCases, serverVars
<1>6. CASE OutsideStep
  BY <1>6 DEF OutsideStep, Restart, OtherAdminSaves, SnapshotRemoved, Aside, StepCases, serverVars
<1>7. CASE UNCHANGED vars
  BY <1>7 DEF vars, serverVars, Aside, StepCases
<1> QED
  BY <1>1, <1>2, <1>3, <1>4, <1>5, <1>6, <1>7 DEF Next, AdminStep, SystemStep, StepCases

\* Next preserves the types of the panel.
LEMMA PanelTypesStep ==
    ASSUME Types, StepCases
    PROVE  PanelTypes'
<1>1. ASSUME NEW remaining \in Remainders, EndSession(remaining) PROVE PanelTypes'
  BY <1>1, PanelsAssumption DEF EndSession, ClearStoredToken, Disowned, NoCall, InitialForm,
     InitialBackups, Types, PanelTypes, CallTypes, CallRecord
<1>2. ASSUME NEW p \in {"none", "settings", "backups"}, OpenPanel(p) PROVE PanelTypes'
  BY <1>2, PanelsAssumption DEF OpenPanel, Disowned, Call, NoCall, sessionVars, InitialForm,
     InitialBackups, Types, PanelTypes, CallTypes, CallRecord
<1>3. ASSUME NEW s \in Settings, Patch(s) PROVE PanelTypes'
  BY <1>3, PanelsAssumption DEF Patch, FormEnabled, formVars, backupVars, serverVars, sessionVars, Types,
     PanelTypes, CallTypes, CallRecord
<1>4. CASE HandleSave
  BY <1>4, PanelsAssumption DEF HandleSave, FormEnabled, Send, Call, NoCall, CallSlot, formVars,
     backupVars, serverVars, sessionVars, Types, PanelTypes, CallTypes, CallRecord
<1>5. CASE HandleCreateSnapshot
  BY <1>5, PanelsAssumption DEF HandleCreateSnapshot, Send, Call, NoCall, CallSlot, formVars, backupVars,
     serverVars, sessionVars, Types, PanelTypes, CallTypes, CallRecord
<1>6. CASE ToggleWipeFirst
  BY <1>6, PanelsAssumption DEF ToggleWipeFirst, formVars, backupVars, serverVars, sessionVars, Types,
     PanelTypes, CallTypes, CallRecord
<1>7. CASE HandleUploadRestore
  BY <1>7, PanelsAssumption DEF HandleUploadRestore, Send, Call, NoCall, CallSlot, formVars, backupVars,
     serverVars, sessionVars, Types, PanelTypes, CallTypes, CallRecord
<1>8. ASSUME NEW n \in Names, HandleRestoreSnapshot(n) PROVE PanelTypes'
  BY <1>8, PanelsAssumption DEF HandleRestoreSnapshot, Send, Call, NoCall, CallSlot, formVars,
     backupVars, serverVars, sessionVars, Types, PanelTypes, CallTypes, CallRecord
<1>9. ASSUME NEW i \in CallIds, Answers(i) PROVE PanelTypes'
  BY <1>9, PanelsAssumption DEF Answers, formVars, backupVars, Types, PanelTypes, CallTypes, CallRecord
<1>10. ASSUME NEW i \in CallIds, NEW s \in Landings, LoadLands(i, s), calls[i].own, s = "ok" => calls[i].status = "ok", UNCHANGED <<sessionVars, serverVars, panel>>
       PROVE  PanelTypes'
  BY ZenonT(40), <1>10, PanelsAssumption DEF LoadLands, Done, NoCall, formVars, backupVars, serverVars, sessionVars,
     Types, PanelTypes, CallTypes, CallRecord
<1>11. ASSUME NEW i \in CallIds, NEW s \in Landings, SaveLands(i, s), calls[i].own, s = "ok" => calls[i].status = "ok", UNCHANGED <<sessionVars, serverVars, panel>>
       PROVE  PanelTypes'
  BY ZenonT(40), <1>11, PanelsAssumption DEF SaveLands, Done, NoCall, formVars, backupVars, serverVars, sessionVars,
     Types, PanelTypes, CallTypes, CallRecord
<1>12. ASSUME NEW i \in CallIds, NEW s \in Landings, ListLands(i, s), calls[i].own, s = "ok" => calls[i].status = "ok", UNCHANGED <<sessionVars, serverVars, panel>>
       PROVE  PanelTypes'
  BY ZenonT(40), <1>12, PanelsAssumption DEF ListLands, Done, NoCall, formVars, backupVars, serverVars, sessionVars,
     Types, PanelTypes, CallTypes, CallRecord
<1>13. ASSUME NEW i \in CallIds, NEW s \in Landings, CreateFails(i, s), calls[i].own, s = "ok" => calls[i].status = "ok", UNCHANGED <<sessionVars, serverVars, panel>>
       PROVE  PanelTypes'
  BY ZenonT(40), <1>13, PanelsAssumption DEF CreateFails, Done, NoCall, formVars, backupVars, serverVars,
     sessionVars, Types, PanelTypes, CallTypes, CallRecord
<1>14. ASSUME NEW i \in CallIds, NEW s \in Landings, RestoreLands(i, s), calls[i].own, s = "ok" => calls[i].status = "ok", UNCHANGED <<sessionVars, serverVars, panel>>
       PROVE  PanelTypes'
  BY <1>14, PanelsAssumption DEF RestoreLands, Done, NoCall, formVars, backupVars, serverVars,
     sessionVars, Types, PanelTypes, CallTypes, CallRecord, Mode
<1>15. ASSUME NEW i \in CallIds, NEW s \in Landings, UploadLands(i, s), calls[i].own, s = "ok" => calls[i].status = "ok", UNCHANGED <<sessionVars, serverVars, panel>>
       PROVE  PanelTypes'
  BY <1>15, PanelsAssumption DEF UploadLands, Done, NoCall, formVars, backupVars, serverVars,
     sessionVars, Types, PanelTypes, CallTypes, CallRecord, Mode
<1>16. ASSUME NEW i \in CallIds, NEW s \in Landings, CreateLands(i, s) PROVE PanelTypes'
  BY ZenonT(40), <1>16, PanelsAssumption DEF CreateLands, formVars, backupVars, serverVars, sessionVars, Types,
     PanelTypes, CallTypes, CallRecord
<1>17. ASSUME NEW i \in CallIds, NEW s \in Landings, LandsNowhere(i, s) PROVE PanelTypes'
  BY <1>17, PanelsAssumption DEF LandsNowhere, Done, NoCall, formVars, backupVars, serverVars,
     sessionVars, Types, PanelTypes, CallTypes, CallRecord
<1>18. CASE Aside
  BY <1>18, PanelsAssumption DEF Aside, formVars, backupVars, Types, PanelTypes, CallTypes, CallRecord
<1> QED
  BY <1>1, <1>2, <1>3, <1>4, <1>5, <1>6, <1>7, <1>8, <1>9, <1>10, <1>11, <1>12, <1>13, <1>14, <1>15,
     <1>16, <1>17, <1>18 DEF StepCases

\* Next preserves the types of the calls.
LEMMA CallTypesStep ==
    ASSUME Types, StepCases
    PROVE  CallTypes'
<1>1. ASSUME NEW remaining \in Remainders, EndSession(remaining) PROVE CallTypes'
  BY <1>1, Unmounted DEF EndSession, CallTypes
<1>2. ASSUME NEW p \in {"none", "settings", "backups"}, OpenPanel(p) PROVE CallTypes'
  BY <1>2, Opened DEF CallTypes
<1>3. ASSUME NEW s \in Settings, Patch(s) PROVE CallTypes'
  BY <1>3, CallFacts DEF Patch, FormEnabled, formVars, backupVars, serverVars, sessionVars, Types,
     CallTypes
<1>4. CASE HandleSave
  BY <1>4, MadeCalls DEF HandleSave, FormEnabled, Types, PanelTypes
<1>5. CASE HandleCreateSnapshot
  BY <1>5, MadeCalls DEF HandleCreateSnapshot, FormEnabled, Types, PanelTypes
<1>6. CASE ToggleWipeFirst
  BY <1>6, CallFacts DEF ToggleWipeFirst, formVars, backupVars, serverVars, sessionVars, Types,
     CallTypes
<1>7. CASE HandleUploadRestore
  BY <1>7, MadeCalls DEF HandleUploadRestore, FormEnabled, Types, PanelTypes
<1>8. ASSUME NEW n \in Names, HandleRestoreSnapshot(n) PROVE CallTypes'
  BY <1>8, MadeCalls DEF HandleRestoreSnapshot, FormEnabled, Types, PanelTypes
<1>9. ASSUME NEW i \in CallIds, Answers(i) PROVE CallTypes'
  BY <1>9, CallFacts DEF Answers, formVars, backupVars, Types, CallTypes
<1>10. ASSUME NEW i \in CallIds, NEW s \in Landings, LoadLands(i, s), calls[i].own, s = "ok" => calls[i].status = "ok", UNCHANGED <<sessionVars, serverVars, panel>>
       PROVE  CallTypes'
  BY <1>10, CallFacts DEF LoadLands, Done, NoCall, formVars, backupVars, serverVars, sessionVars, Types,
     CallTypes
<1>11. ASSUME NEW i \in CallIds, NEW s \in Landings, SaveLands(i, s), calls[i].own, s = "ok" => calls[i].status = "ok", UNCHANGED <<sessionVars, serverVars, panel>>
       PROVE  CallTypes'
  BY <1>11, CallFacts DEF SaveLands, Done, NoCall, formVars, backupVars, serverVars, sessionVars, Types,
     CallTypes
<1>12. ASSUME NEW i \in CallIds, NEW s \in Landings, ListLands(i, s), calls[i].own, s = "ok" => calls[i].status = "ok", UNCHANGED <<sessionVars, serverVars, panel>>
       PROVE  CallTypes'
  BY <1>12, CallFacts DEF ListLands, Done, NoCall, formVars, backupVars, serverVars, sessionVars, Types,
     CallTypes
<1>13. ASSUME NEW i \in CallIds, NEW s \in Landings, CreateFails(i, s), calls[i].own, s = "ok" => calls[i].status = "ok", UNCHANGED <<sessionVars, serverVars, panel>>
       PROVE  CallTypes'
  BY <1>13, CallFacts DEF CreateFails, Done, NoCall, formVars, backupVars, serverVars, sessionVars,
     Types, CallTypes
<1>14. ASSUME NEW i \in CallIds, NEW s \in Landings, RestoreLands(i, s), calls[i].own, s = "ok" => calls[i].status = "ok", UNCHANGED <<sessionVars, serverVars, panel>>
       PROVE  CallTypes'
  BY <1>14, CallFacts DEF RestoreLands, Done, NoCall, formVars, backupVars, serverVars, sessionVars,
     Types, CallTypes
<1>15. ASSUME NEW i \in CallIds, NEW s \in Landings, UploadLands(i, s), calls[i].own, s = "ok" => calls[i].status = "ok", UNCHANGED <<sessionVars, serverVars, panel>>
       PROVE  CallTypes'
  BY <1>15, CallFacts DEF UploadLands, Done, NoCall, formVars, backupVars, serverVars, sessionVars,
     Types, CallTypes
<1>16. ASSUME NEW i \in CallIds, NEW s \in Landings, CreateLands(i, s) PROVE CallTypes'
  BY <1>16, CallFacts DEF CreateLands, formVars, backupVars, serverVars, sessionVars, Types, CallTypes
<1>17. ASSUME NEW i \in CallIds, NEW s \in Landings, LandsNowhere(i, s) PROVE CallTypes'
  BY <1>17, CallFacts DEF LandsNowhere, Done, NoCall, formVars, backupVars, serverVars, sessionVars,
     Types, CallTypes
<1>18. CASE Aside
  BY <1>18, CallFacts DEF Aside, formVars, backupVars, Types, CallTypes
<1> QED
  BY <1>1, <1>2, <1>3, <1>4, <1>5, <1>6, <1>7, <1>8, <1>9, <1>10, <1>11, <1>12, <1>13, <1>14, <1>15,
     <1>16, <1>17, <1>18 DEF StepCases

\* Next preserves what the controls wait for.
LEMMA SubmitsStep ==
    ASSUME Types, OneSubmitAtATime, StepCases
    PROVE  OneSubmitAtATime'
<1>1. ASSUME NEW remaining \in Remainders, EndSession(remaining) PROVE OneSubmitAtATime'
  <2>1. \A i \in CallIds : ~calls'[i].own
    BY <1>1, Unmounted DEF EndSession
  <2> QED
    BY <1>1, <2>1 DEF EndSession, InitialForm, InitialBackups, OneSubmitAtATime, Own
<1>2. ASSUME NEW p \in {"none", "settings", "backups"}, OpenPanel(p) PROVE OneSubmitAtATime'
  <2>1. saving' = FALSE /\ creating' = FALSE /\ uploading' = FALSE /\ restoring' = None /\ listing' = (p = "backups")
    BY <1>2 DEF OpenPanel, InitialForm, InitialBackups
  <2>2. CASE p = "none"
    BY <1>2, <2>1, <2>2, Opened DEF OneSubmitAtATime, Own
  <2>3. CASE p # "none"
    <3>1. PICK i \in CallIds :
              /\ calls'[i].op = IF p = "settings" THEN "load" ELSE "list"
              /\ calls'[i].own
              /\ \A j \in CallIds : j # i => ~calls'[j].own
      BY <1>2, <2>3, Opened
    <3>2. CASE p = "settings"
      BY <2>1, <3>1, <3>2 DEF OneSubmitAtATime, Own
    <3>3. CASE p = "backups"
      BY ZenonT(40), <2>1, <3>1, <3>3 DEF OneSubmitAtATime, Own
    <3> QED
      BY <2>3, <3>2, <3>3
  <2> QED
    BY <2>2, <2>3
<1>3. ASSUME NEW s \in Settings, Patch(s) PROVE OneSubmitAtATime'
  BY <1>3 DEF Patch, FormEnabled, formVars, backupVars, serverVars, sessionVars, Types, CallTypes,
     CallRecord, OneSubmitAtATime, Own
<1>4. CASE HandleSave
  BY <1>4 DEF HandleSave, FormEnabled, Send, Call, NoCall, CallSlot, formVars, backupVars, serverVars,
     sessionVars, Types, CallTypes, CallRecord, OneSubmitAtATime, Own
<1>5. CASE HandleCreateSnapshot
  BY <1>5 DEF HandleCreateSnapshot, Send, Call, NoCall, CallSlot, formVars, backupVars, serverVars,
     sessionVars, Types, CallTypes, CallRecord, OneSubmitAtATime, Own
<1>6. CASE ToggleWipeFirst
  BY <1>6 DEF ToggleWipeFirst, formVars, backupVars, serverVars, sessionVars, Types, CallTypes,
     CallRecord, OneSubmitAtATime, Own
<1>7. CASE HandleUploadRestore
  BY <1>7 DEF HandleUploadRestore, Send, Call, NoCall, CallSlot, formVars, backupVars, serverVars,
     sessionVars, Types, CallTypes, CallRecord, OneSubmitAtATime, Own
<1>8. ASSUME NEW n \in Names, HandleRestoreSnapshot(n) PROVE OneSubmitAtATime'
  BY <1>8 DEF HandleRestoreSnapshot, Send, Call, NoCall, CallSlot, formVars, backupVars, serverVars,
     sessionVars, Types, CallTypes, CallRecord, OneSubmitAtATime, Own
<1>9. ASSUME NEW i \in CallIds, Answers(i) PROVE OneSubmitAtATime'
  BY <1>9 DEF Answers, formVars, backupVars, Types, CallTypes, CallRecord, OneSubmitAtATime, Own
<1>10. ASSUME NEW i \in CallIds, NEW s \in Landings, LoadLands(i, s), calls[i].own, s = "ok" => calls[i].status = "ok", UNCHANGED <<sessionVars, serverVars, panel>>
       PROVE  OneSubmitAtATime'
  BY <1>10 DEF LoadLands, Done, NoCall, formVars, backupVars, serverVars, sessionVars, Types, CallTypes,
     CallRecord, OneSubmitAtATime, Own
<1>11. ASSUME NEW i \in CallIds, NEW s \in Landings, SaveLands(i, s), calls[i].own, s = "ok" => calls[i].status = "ok", UNCHANGED <<sessionVars, serverVars, panel>>
       PROVE  OneSubmitAtATime'
  BY <1>11 DEF SaveLands, Done, NoCall, formVars, backupVars, serverVars, sessionVars, Types, CallTypes,
     CallRecord, OneSubmitAtATime, Own
<1>12. ASSUME NEW i \in CallIds, NEW s \in Landings, ListLands(i, s), calls[i].own, s = "ok" => calls[i].status = "ok", UNCHANGED <<sessionVars, serverVars, panel>>
       PROVE  OneSubmitAtATime'
  BY <1>12 DEF ListLands, Done, NoCall, formVars, backupVars, serverVars, sessionVars, Types, CallTypes,
     CallRecord, OneSubmitAtATime, Own
<1>13. ASSUME NEW i \in CallIds, NEW s \in Landings, CreateFails(i, s), calls[i].own, s = "ok" => calls[i].status = "ok", UNCHANGED <<sessionVars, serverVars, panel>>
       PROVE  OneSubmitAtATime'
  BY <1>13 DEF CreateFails, Done, NoCall, formVars, backupVars, serverVars, sessionVars, Types,
     CallTypes, CallRecord, OneSubmitAtATime, Own
<1>14. ASSUME NEW i \in CallIds, NEW s \in Landings, RestoreLands(i, s), calls[i].own, s = "ok" => calls[i].status = "ok", UNCHANGED <<sessionVars, serverVars, panel>>
       PROVE  OneSubmitAtATime'
  BY <1>14 DEF RestoreLands, Done, NoCall, formVars, backupVars, serverVars, sessionVars, Types,
     CallTypes, CallRecord, OneSubmitAtATime, Own
<1>15. ASSUME NEW i \in CallIds, NEW s \in Landings, UploadLands(i, s), calls[i].own, s = "ok" => calls[i].status = "ok", UNCHANGED <<sessionVars, serverVars, panel>>
       PROVE  OneSubmitAtATime'
  BY <1>15 DEF UploadLands, Done, NoCall, formVars, backupVars, serverVars, sessionVars, Types,
     CallTypes, CallRecord, OneSubmitAtATime, Own
<1>16. ASSUME NEW i \in CallIds, NEW s \in Landings, CreateLands(i, s) PROVE OneSubmitAtATime'
  BY SMTT(30), <1>16 DEF CreateLands, formVars, backupVars, serverVars, sessionVars, Types, CallTypes, CallRecord,
     OneSubmitAtATime, Own
<1>17. ASSUME NEW i \in CallIds, NEW s \in Landings, LandsNowhere(i, s) PROVE OneSubmitAtATime'
  BY <1>17 DEF LandsNowhere, Done, NoCall, formVars, backupVars, serverVars, sessionVars, Types,
     CallTypes, CallRecord, OneSubmitAtATime, Own
<1>18. CASE Aside
  BY <1>18 DEF Aside, formVars, backupVars, Types, CallTypes, CallRecord, OneSubmitAtATime, Own
<1> QED
  BY <1>1, <1>2, <1>3, <1>4, <1>5, <1>6, <1>7, <1>8, <1>9, <1>10, <1>11, <1>12, <1>13, <1>14, <1>15,
     <1>16, <1>17, <1>18 DEF StepCases

\* Next preserves what a loading form waits for.
LEMMA LoadsStep ==
    ASSUME Types, OneSubmitAtATime, LoadsOK, StepCases
    PROVE  LoadsOK'
<1>1. ASSUME NEW remaining \in Remainders, EndSession(remaining) PROVE LoadsOK'
  <2>1. \A i \in CallIds : ~calls'[i].own
    BY <1>1, Unmounted DEF EndSession
  <2> QED
    BY <1>1, <2>1 DEF EndSession, InitialForm, InitialBackups, LoadsOK, Own
<1>2. ASSUME NEW p \in {"none", "settings", "backups"}, OpenPanel(p) PROVE LoadsOK'
  BY <1>2, Opened DEF OpenPanel, InitialForm, InitialBackups, LoadsOK, Own
<1>3. ASSUME NEW s \in Settings, Patch(s) PROVE LoadsOK'
  BY <1>3 DEF Patch, FormEnabled, formVars, backupVars, serverVars, sessionVars, Types, CallTypes,
     CallRecord, OneSubmitAtATime, Own, LoadsOK
<1>4. CASE HandleSave
  BY <1>4 DEF HandleSave, FormEnabled, Send, Call, NoCall, CallSlot, formVars, backupVars, serverVars,
     sessionVars, Types, CallTypes, CallRecord, OneSubmitAtATime, Own, LoadsOK
<1>5. CASE HandleCreateSnapshot
  BY <1>5 DEF HandleCreateSnapshot, Send, Call, NoCall, CallSlot, formVars, backupVars, serverVars,
     sessionVars, Types, CallTypes, CallRecord, OneSubmitAtATime, Own, LoadsOK
<1>6. CASE ToggleWipeFirst
  BY <1>6 DEF ToggleWipeFirst, formVars, backupVars, serverVars, sessionVars, Types, CallTypes,
     CallRecord, OneSubmitAtATime, Own, LoadsOK
<1>7. CASE HandleUploadRestore
  BY <1>7 DEF HandleUploadRestore, Send, Call, NoCall, CallSlot, formVars, backupVars, serverVars,
     sessionVars, Types, CallTypes, CallRecord, OneSubmitAtATime, Own, LoadsOK
<1>8. ASSUME NEW n \in Names, HandleRestoreSnapshot(n) PROVE LoadsOK'
  BY <1>8 DEF HandleRestoreSnapshot, Send, Call, NoCall, CallSlot, formVars, backupVars, serverVars,
     sessionVars, Types, CallTypes, CallRecord, OneSubmitAtATime, Own, LoadsOK
<1>9. ASSUME NEW i \in CallIds, Answers(i) PROVE LoadsOK'
  BY <1>9 DEF Answers, formVars, backupVars, Types, CallTypes, CallRecord, OneSubmitAtATime, Own,
     LoadsOK
<1>10. ASSUME NEW i \in CallIds, NEW s \in Landings, LoadLands(i, s), calls[i].own, s = "ok" => calls[i].status = "ok", UNCHANGED <<sessionVars, serverVars, panel>>
       PROVE  LoadsOK'
  BY <1>10 DEF LoadLands, Done, NoCall, formVars, backupVars, serverVars, sessionVars, Types, CallTypes,
     CallRecord, OneSubmitAtATime, Own, LoadsOK
<1>11. ASSUME NEW i \in CallIds, NEW s \in Landings, SaveLands(i, s), calls[i].own, s = "ok" => calls[i].status = "ok", UNCHANGED <<sessionVars, serverVars, panel>>
       PROVE  LoadsOK'
  BY <1>11 DEF SaveLands, Done, NoCall, formVars, backupVars, serverVars, sessionVars, Types, CallTypes,
     CallRecord, OneSubmitAtATime, Own, LoadsOK
<1>12. ASSUME NEW i \in CallIds, NEW s \in Landings, ListLands(i, s), calls[i].own, s = "ok" => calls[i].status = "ok", UNCHANGED <<sessionVars, serverVars, panel>>
       PROVE  LoadsOK'
  BY <1>12 DEF ListLands, Done, NoCall, formVars, backupVars, serverVars, sessionVars, Types, CallTypes,
     CallRecord, OneSubmitAtATime, Own, LoadsOK
<1>13. ASSUME NEW i \in CallIds, NEW s \in Landings, CreateFails(i, s), calls[i].own, s = "ok" => calls[i].status = "ok", UNCHANGED <<sessionVars, serverVars, panel>>
       PROVE  LoadsOK'
  BY <1>13 DEF CreateFails, Done, NoCall, formVars, backupVars, serverVars, sessionVars, Types,
     CallTypes, CallRecord, OneSubmitAtATime, Own, LoadsOK
<1>14. ASSUME NEW i \in CallIds, NEW s \in Landings, RestoreLands(i, s), calls[i].own, s = "ok" => calls[i].status = "ok", UNCHANGED <<sessionVars, serverVars, panel>>
       PROVE  LoadsOK'
  BY <1>14 DEF RestoreLands, Done, NoCall, formVars, backupVars, serverVars, sessionVars, Types,
     CallTypes, CallRecord, OneSubmitAtATime, Own, LoadsOK
<1>15. ASSUME NEW i \in CallIds, NEW s \in Landings, UploadLands(i, s), calls[i].own, s = "ok" => calls[i].status = "ok", UNCHANGED <<sessionVars, serverVars, panel>>
       PROVE  LoadsOK'
  BY <1>15 DEF UploadLands, Done, NoCall, formVars, backupVars, serverVars, sessionVars, Types,
     CallTypes, CallRecord, OneSubmitAtATime, Own, LoadsOK
<1>16. ASSUME NEW i \in CallIds, NEW s \in Landings, CreateLands(i, s) PROVE LoadsOK'
  BY <1>16 DEF CreateLands, formVars, backupVars, serverVars, sessionVars, Types, CallTypes, CallRecord,
     OneSubmitAtATime, Own, LoadsOK
<1>17. ASSUME NEW i \in CallIds, NEW s \in Landings, LandsNowhere(i, s) PROVE LoadsOK'
  BY <1>17 DEF LandsNowhere, Done, NoCall, formVars, backupVars, serverVars, sessionVars, Types,
     CallTypes, CallRecord, OneSubmitAtATime, Own, LoadsOK
<1>18. CASE Aside
  BY <1>18 DEF Aside, formVars, backupVars, Types, CallTypes, CallRecord, OneSubmitAtATime, Own, LoadsOK
<1> QED
  BY <1>1, <1>2, <1>3, <1>4, <1>5, <1>6, <1>7, <1>8, <1>9, <1>10, <1>11, <1>12, <1>13, <1>14, <1>15,
     <1>16, <1>17, <1>18 DEF StepCases

\* Next preserves what a save holds.
LEMMA EditsStep ==
    ASSUME Types, OneSubmitAtATime, LoadsOK, EditsSurviveTheSave, StepCases
    PROVE  EditsSurviveTheSave'
<1>1. ASSUME NEW remaining \in Remainders, EndSession(remaining) PROVE EditsSurviveTheSave'
  <2>1. \A i \in CallIds : ~calls'[i].own
    BY <1>1, Unmounted DEF EndSession
  <2> QED
    BY <1>1, <2>1 DEF EndSession, InitialForm, InitialBackups, EditsSurviveTheSave, Own
<1>2. ASSUME NEW p \in {"none", "settings", "backups"}, OpenPanel(p) PROVE EditsSurviveTheSave'
  BY <1>2, Opened DEF OpenPanel, InitialForm, InitialBackups, EditsSurviveTheSave, Own
<1>3. ASSUME NEW s \in Settings, Patch(s) PROVE EditsSurviveTheSave'
  BY <1>3 DEF Patch, FormEnabled, formVars, backupVars, serverVars, sessionVars, Types, CallTypes,
     CallRecord, OneSubmitAtATime, Own, LoadsOK, EditsSurviveTheSave
<1>4. CASE HandleSave
  BY <1>4 DEF HandleSave, FormEnabled, Send, Call, NoCall, CallSlot, formVars, backupVars, serverVars,
     sessionVars, Types, CallTypes, CallRecord, OneSubmitAtATime, Own, LoadsOK, EditsSurviveTheSave
<1>5. CASE HandleCreateSnapshot
  BY <1>5 DEF HandleCreateSnapshot, Send, Call, NoCall, CallSlot, formVars, backupVars, serverVars,
     sessionVars, Types, CallTypes, CallRecord, OneSubmitAtATime, Own, LoadsOK, EditsSurviveTheSave
<1>6. CASE ToggleWipeFirst
  BY <1>6 DEF ToggleWipeFirst, formVars, backupVars, serverVars, sessionVars, Types, CallTypes,
     CallRecord, OneSubmitAtATime, Own, LoadsOK, EditsSurviveTheSave
<1>7. CASE HandleUploadRestore
  BY <1>7 DEF HandleUploadRestore, Send, Call, NoCall, CallSlot, formVars, backupVars, serverVars,
     sessionVars, Types, CallTypes, CallRecord, OneSubmitAtATime, Own, LoadsOK, EditsSurviveTheSave
<1>8. ASSUME NEW n \in Names, HandleRestoreSnapshot(n) PROVE EditsSurviveTheSave'
  BY <1>8 DEF HandleRestoreSnapshot, Send, Call, NoCall, CallSlot, formVars, backupVars, serverVars,
     sessionVars, Types, CallTypes, CallRecord, OneSubmitAtATime, Own, LoadsOK, EditsSurviveTheSave
<1>9. ASSUME NEW i \in CallIds, Answers(i) PROVE EditsSurviveTheSave'
  BY <1>9 DEF Answers, formVars, backupVars, Types, CallTypes, CallRecord, OneSubmitAtATime, Own,
     LoadsOK, EditsSurviveTheSave
<1>10. ASSUME NEW i \in CallIds, NEW s \in Landings, LoadLands(i, s), calls[i].own, s = "ok" => calls[i].status = "ok", UNCHANGED <<sessionVars, serverVars, panel>>
       PROVE  EditsSurviveTheSave'
  BY <1>10 DEF LoadLands, Done, NoCall, formVars, backupVars, serverVars, sessionVars, Types, CallTypes,
     CallRecord, OneSubmitAtATime, Own, LoadsOK, EditsSurviveTheSave
<1>11. ASSUME NEW i \in CallIds, NEW s \in Landings, SaveLands(i, s), calls[i].own, s = "ok" => calls[i].status = "ok", UNCHANGED <<sessionVars, serverVars, panel>>
       PROVE  EditsSurviveTheSave'
  BY <1>11 DEF SaveLands, Done, NoCall, formVars, backupVars, serverVars, sessionVars, Types, CallTypes,
     CallRecord, OneSubmitAtATime, Own, LoadsOK, EditsSurviveTheSave
<1>12. ASSUME NEW i \in CallIds, NEW s \in Landings, ListLands(i, s), calls[i].own, s = "ok" => calls[i].status = "ok", UNCHANGED <<sessionVars, serverVars, panel>>
       PROVE  EditsSurviveTheSave'
  BY <1>12 DEF ListLands, Done, NoCall, formVars, backupVars, serverVars, sessionVars, Types, CallTypes,
     CallRecord, OneSubmitAtATime, Own, LoadsOK, EditsSurviveTheSave
<1>13. ASSUME NEW i \in CallIds, NEW s \in Landings, CreateFails(i, s), calls[i].own, s = "ok" => calls[i].status = "ok", UNCHANGED <<sessionVars, serverVars, panel>>
       PROVE  EditsSurviveTheSave'
  BY <1>13 DEF CreateFails, Done, NoCall, formVars, backupVars, serverVars, sessionVars, Types,
     CallTypes, CallRecord, OneSubmitAtATime, Own, LoadsOK, EditsSurviveTheSave
<1>14. ASSUME NEW i \in CallIds, NEW s \in Landings, RestoreLands(i, s), calls[i].own, s = "ok" => calls[i].status = "ok", UNCHANGED <<sessionVars, serverVars, panel>>
       PROVE  EditsSurviveTheSave'
  BY <1>14 DEF RestoreLands, Done, NoCall, formVars, backupVars, serverVars, sessionVars, Types,
     CallTypes, CallRecord, OneSubmitAtATime, Own, LoadsOK, EditsSurviveTheSave
<1>15. ASSUME NEW i \in CallIds, NEW s \in Landings, UploadLands(i, s), calls[i].own, s = "ok" => calls[i].status = "ok", UNCHANGED <<sessionVars, serverVars, panel>>
       PROVE  EditsSurviveTheSave'
  BY <1>15 DEF UploadLands, Done, NoCall, formVars, backupVars, serverVars, sessionVars, Types,
     CallTypes, CallRecord, OneSubmitAtATime, Own, LoadsOK, EditsSurviveTheSave
<1>16. ASSUME NEW i \in CallIds, NEW s \in Landings, CreateLands(i, s) PROVE EditsSurviveTheSave'
  BY <1>16 DEF CreateLands, formVars, backupVars, serverVars, sessionVars, Types, CallTypes, CallRecord,
     OneSubmitAtATime, Own, LoadsOK, EditsSurviveTheSave
<1>17. ASSUME NEW i \in CallIds, NEW s \in Landings, LandsNowhere(i, s) PROVE EditsSurviveTheSave'
  BY <1>17 DEF LandsNowhere, Done, NoCall, formVars, backupVars, serverVars, sessionVars, Types,
     CallTypes, CallRecord, OneSubmitAtATime, Own, LoadsOK, EditsSurviveTheSave
<1>18. CASE Aside
  BY <1>18 DEF Aside, formVars, backupVars, Types, CallTypes, CallRecord, OneSubmitAtATime, Own, LoadsOK,
     EditsSurviveTheSave
<1> QED
  BY <1>1, <1>2, <1>3, <1>4, <1>5, <1>6, <1>7, <1>8, <1>9, <1>10, <1>11, <1>12, <1>13, <1>14, <1>15,
     <1>16, <1>17, <1>18 DEF StepCases

\* Next preserves what is known of the restores.
LEMMA RunsStep ==
    ASSUME Types, RunsOK, StepCases
    PROVE  RunsOK'
<1>1. ASSUME NEW remaining \in Remainders, EndSession(remaining) PROVE RunsOK'
  <2>1. calls' = Disowned(remaining)
    BY <1>1 DEF EndSession
  <2> QED
    BY <2>1, Unmounted DEF RunsOK, Own
<1>2. ASSUME NEW p \in {"none", "settings", "backups"}, OpenPanel(p) PROVE RunsOK'
  BY <1>2, Opened DEF RunsOK, Own
<1>3. ASSUME NEW s \in Settings, Patch(s) PROVE RunsOK'
  BY <1>3 DEF Patch, FormEnabled, formVars, backupVars, serverVars, sessionVars, Types, CallTypes,
     CallRecord, Own, RunsOK
<1>4. CASE HandleSave
  BY <1>4 DEF HandleSave, FormEnabled, Send, Call, NoCall, CallSlot, formVars, backupVars, serverVars,
     sessionVars, Types, CallTypes, CallRecord, Own, RunsOK
<1>5. CASE HandleCreateSnapshot
  BY <1>5 DEF HandleCreateSnapshot, Send, Call, NoCall, CallSlot, formVars, backupVars, serverVars,
     sessionVars, Types, CallTypes, CallRecord, Own, RunsOK
<1>6. CASE ToggleWipeFirst
  BY <1>6 DEF ToggleWipeFirst, formVars, backupVars, serverVars, sessionVars, Types, CallTypes,
     CallRecord, Own, RunsOK
<1>7. CASE HandleUploadRestore
  BY <1>7 DEF HandleUploadRestore, Send, Call, NoCall, CallSlot, formVars, backupVars, serverVars,
     sessionVars, Types, CallTypes, CallRecord, Own, RunsOK
<1>8. ASSUME NEW n \in Names, HandleRestoreSnapshot(n) PROVE RunsOK'
  BY <1>8 DEF HandleRestoreSnapshot, Send, Call, NoCall, CallSlot, formVars, backupVars, serverVars,
     sessionVars, Types, CallTypes, CallRecord, Own, RunsOK
<1>9. ASSUME NEW i \in CallIds, Answers(i) PROVE RunsOK'
  BY <1>9 DEF Answers, formVars, backupVars, Types, CallTypes, CallRecord, Own, RunsOK
<1>10. ASSUME NEW i \in CallIds, NEW s \in Landings, LoadLands(i, s), calls[i].own, s = "ok" => calls[i].status = "ok", UNCHANGED <<sessionVars, serverVars, panel>>
       PROVE  RunsOK'
  BY <1>10 DEF LoadLands, Done, NoCall, formVars, backupVars, serverVars, sessionVars, Types, CallTypes,
     CallRecord, Own, RunsOK
<1>11. ASSUME NEW i \in CallIds, NEW s \in Landings, SaveLands(i, s), calls[i].own, s = "ok" => calls[i].status = "ok", UNCHANGED <<sessionVars, serverVars, panel>>
       PROVE  RunsOK'
  BY <1>11 DEF SaveLands, Done, NoCall, formVars, backupVars, serverVars, sessionVars, Types, CallTypes,
     CallRecord, Own, RunsOK
<1>12. ASSUME NEW i \in CallIds, NEW s \in Landings, ListLands(i, s), calls[i].own, s = "ok" => calls[i].status = "ok", UNCHANGED <<sessionVars, serverVars, panel>>
       PROVE  RunsOK'
  BY <1>12 DEF ListLands, Done, NoCall, formVars, backupVars, serverVars, sessionVars, Types, CallTypes,
     CallRecord, Own, RunsOK
<1>13. ASSUME NEW i \in CallIds, NEW s \in Landings, CreateFails(i, s), calls[i].own, s = "ok" => calls[i].status = "ok", UNCHANGED <<sessionVars, serverVars, panel>>
       PROVE  RunsOK'
  BY <1>13 DEF CreateFails, Done, NoCall, formVars, backupVars, serverVars, sessionVars, Types,
     CallTypes, CallRecord, Own, RunsOK
<1>14. ASSUME NEW i \in CallIds, NEW s \in Landings, RestoreLands(i, s), calls[i].own, s = "ok" => calls[i].status = "ok", UNCHANGED <<sessionVars, serverVars, panel>>
       PROVE  RunsOK'
  BY <1>14 DEF RestoreLands, Done, NoCall, formVars, backupVars, serverVars, sessionVars, Types,
     CallTypes, CallRecord, Own, RunsOK
<1>15. ASSUME NEW i \in CallIds, NEW s \in Landings, UploadLands(i, s), calls[i].own, s = "ok" => calls[i].status = "ok", UNCHANGED <<sessionVars, serverVars, panel>>
       PROVE  RunsOK'
  BY <1>15 DEF UploadLands, Done, NoCall, formVars, backupVars, serverVars, sessionVars, Types,
     CallTypes, CallRecord, Own, RunsOK
<1>16. ASSUME NEW i \in CallIds, NEW s \in Landings, CreateLands(i, s) PROVE RunsOK'
  BY <1>16 DEF CreateLands, formVars, backupVars, serverVars, sessionVars, Types, CallTypes, CallRecord,
     Own, RunsOK
<1>17. ASSUME NEW i \in CallIds, NEW s \in Landings, LandsNowhere(i, s) PROVE RunsOK'
  BY <1>17 DEF LandsNowhere, Done, NoCall, formVars, backupVars, serverVars, sessionVars, Types,
     CallTypes, CallRecord, Own, RunsOK
<1>18. CASE Aside
  BY <1>18 DEF Aside, formVars, backupVars, Types, CallTypes, CallRecord, Own, RunsOK
<1> QED
  BY <1>1, <1>2, <1>3, <1>4, <1>5, <1>6, <1>7, <1>8, <1>9, <1>10, <1>11, <1>12, <1>13, <1>14, <1>15,
     <1>16, <1>17, <1>18 DEF StepCases

\* Next preserves what the message says.
LEMMA MessageStep ==
    ASSUME Types, RunsOK, MessageNamesTheModeRun, StepCases
    PROVE  MessageNamesTheModeRun'
<1>1. ASSUME NEW remaining \in Remainders, EndSession(remaining) PROVE MessageNamesTheModeRun'
  BY <1>1 DEF EndSession, ClearStoredToken, Disowned, NoCall, InitialForm, InitialBackups, Types,
     CallTypes, CallRecord, Own, RunsOK, MessageNamesTheModeRun, Mode
<1>2. ASSUME NEW p \in {"none", "settings", "backups"}, OpenPanel(p) PROVE MessageNamesTheModeRun'
  BY <1>2 DEF OpenPanel, Disowned, Call, NoCall, sessionVars, InitialForm, InitialBackups, Types,
     CallTypes, CallRecord, Own, RunsOK, MessageNamesTheModeRun, Mode
<1>3. ASSUME NEW s \in Settings, Patch(s) PROVE MessageNamesTheModeRun'
  BY <1>3 DEF Patch, FormEnabled, formVars, backupVars, serverVars, sessionVars, Types, CallTypes,
     CallRecord, Own, RunsOK, MessageNamesTheModeRun, Mode
<1>4. CASE HandleSave
  BY <1>4 DEF HandleSave, FormEnabled, Send, Call, NoCall, CallSlot, formVars, backupVars, serverVars,
     sessionVars, Types, CallTypes, CallRecord, Own, RunsOK, MessageNamesTheModeRun, Mode
<1>5. CASE HandleCreateSnapshot
  BY <1>5 DEF HandleCreateSnapshot, Send, Call, NoCall, CallSlot, formVars, backupVars, serverVars,
     sessionVars, Types, CallTypes, CallRecord, Own, RunsOK, MessageNamesTheModeRun, Mode
<1>6. CASE ToggleWipeFirst
  BY <1>6 DEF ToggleWipeFirst, formVars, backupVars, serverVars, sessionVars, Types, CallTypes,
     CallRecord, Own, RunsOK, MessageNamesTheModeRun, Mode
<1>7. CASE HandleUploadRestore
  BY <1>7 DEF HandleUploadRestore, Send, Call, NoCall, CallSlot, formVars, backupVars, serverVars,
     sessionVars, Types, CallTypes, CallRecord, Own, RunsOK, MessageNamesTheModeRun, Mode
<1>8. ASSUME NEW n \in Names, HandleRestoreSnapshot(n) PROVE MessageNamesTheModeRun'
  BY <1>8 DEF HandleRestoreSnapshot, Send, Call, NoCall, CallSlot, formVars, backupVars, serverVars,
     sessionVars, Types, CallTypes, CallRecord, Own, RunsOK, MessageNamesTheModeRun, Mode
<1>9. ASSUME NEW i \in CallIds, Answers(i) PROVE MessageNamesTheModeRun'
  BY <1>9 DEF Answers, formVars, backupVars, Types, CallTypes, CallRecord, Own, RunsOK,
     MessageNamesTheModeRun, Mode
<1>10. ASSUME NEW i \in CallIds, NEW s \in Landings, LoadLands(i, s), calls[i].own, s = "ok" => calls[i].status = "ok", UNCHANGED <<sessionVars, serverVars, panel>>
       PROVE  MessageNamesTheModeRun'
  BY <1>10 DEF LoadLands, Done, NoCall, formVars, backupVars, serverVars, sessionVars, Types, CallTypes,
     CallRecord, Own, RunsOK, MessageNamesTheModeRun, Mode
<1>11. ASSUME NEW i \in CallIds, NEW s \in Landings, SaveLands(i, s), calls[i].own, s = "ok" => calls[i].status = "ok", UNCHANGED <<sessionVars, serverVars, panel>>
       PROVE  MessageNamesTheModeRun'
  BY <1>11 DEF SaveLands, Done, NoCall, formVars, backupVars, serverVars, sessionVars, Types, CallTypes,
     CallRecord, Own, RunsOK, MessageNamesTheModeRun, Mode
<1>12. ASSUME NEW i \in CallIds, NEW s \in Landings, ListLands(i, s), calls[i].own, s = "ok" => calls[i].status = "ok", UNCHANGED <<sessionVars, serverVars, panel>>
       PROVE  MessageNamesTheModeRun'
  BY <1>12 DEF ListLands, Done, NoCall, formVars, backupVars, serverVars, sessionVars, Types, CallTypes,
     CallRecord, Own, RunsOK, MessageNamesTheModeRun, Mode
<1>13. ASSUME NEW i \in CallIds, NEW s \in Landings, CreateFails(i, s), calls[i].own, s = "ok" => calls[i].status = "ok", UNCHANGED <<sessionVars, serverVars, panel>>
       PROVE  MessageNamesTheModeRun'
  BY <1>13 DEF CreateFails, Done, NoCall, formVars, backupVars, serverVars, sessionVars, Types,
     CallTypes, CallRecord, Own, RunsOK, MessageNamesTheModeRun, Mode
<1>14. ASSUME NEW i \in CallIds, NEW s \in Landings, RestoreLands(i, s), calls[i].own, s = "ok" => calls[i].status = "ok", UNCHANGED <<sessionVars, serverVars, panel>>
       PROVE  MessageNamesTheModeRun'
  BY <1>14 DEF RestoreLands, Done, NoCall, formVars, backupVars, serverVars, sessionVars, Types,
     CallTypes, CallRecord, Own, RunsOK, MessageNamesTheModeRun, Mode
<1>15. ASSUME NEW i \in CallIds, NEW s \in Landings, UploadLands(i, s), calls[i].own, s = "ok" => calls[i].status = "ok", UNCHANGED <<sessionVars, serverVars, panel>>
       PROVE  MessageNamesTheModeRun'
  BY <1>15 DEF UploadLands, Done, NoCall, formVars, backupVars, serverVars, sessionVars, Types,
     CallTypes, CallRecord, Own, RunsOK, MessageNamesTheModeRun, Mode
<1>16. ASSUME NEW i \in CallIds, NEW s \in Landings, CreateLands(i, s) PROVE MessageNamesTheModeRun'
  BY <1>16 DEF CreateLands, formVars, backupVars, serverVars, sessionVars, Types, CallTypes, CallRecord,
     Own, RunsOK, MessageNamesTheModeRun, Mode
<1>17. ASSUME NEW i \in CallIds, NEW s \in Landings, LandsNowhere(i, s)
       PROVE  MessageNamesTheModeRun'
  BY <1>17 DEF LandsNowhere, Done, NoCall, formVars, backupVars, serverVars, sessionVars, Types,
     CallTypes, CallRecord, Own, RunsOK, MessageNamesTheModeRun, Mode
<1>18. CASE Aside
  BY <1>18 DEF Aside, formVars, backupVars, Types, CallTypes, CallRecord, Own, RunsOK,
     MessageNamesTheModeRun, Mode
<1> QED
  BY <1>1, <1>2, <1>3, <1>4, <1>5, <1>6, <1>7, <1>8, <1>9, <1>10, <1>11, <1>12, <1>13, <1>14, <1>15,
     <1>16, <1>17, <1>18 DEF StepCases

\* Next preserves the types of the server and of the session.
LEMMA ServerTypesStep == ASSUME Types, [Next]_vars PROVE ServerTypes'
<1>1. ASSUME NEW remaining, EndSession(remaining) PROVE ServerTypes'
  BY <1>1 DEF EndSession, Types, ServerTypes
<1>2. ASSUME NEW p \in {"none", "settings", "backups"}, OpenPanel(p) PROVE ServerTypes'
  BY <1>2 DEF OpenPanel, Types, ServerTypes
<1>3. CASE UNCHANGED serverVars
  BY <1>3 DEF serverVars, Types, ServerTypes
<1>4. CASE AdminStep
  BY <1>1, <1>2, <1>3, <1>4 DEF AdminStep, ClickLogout, EditLimit, EditOptions, Patch, HandleSave,
     HandleCreateSnapshot, ToggleWipeFirst, HandleUploadRestore, HandleRestoreSnapshot
<1>5. CASE OutsideStep
  BY <1>3, <1>5 DEF OutsideStep, Restart, OtherAdminSaves, SnapshotRemoved, Types, ServerTypes
<1>6. ASSUME NEW i \in CallIds, CallAnswered(i) PROVE ServerTypes'
  <2>1. calls[i].settings \in Settings \union {NoSettings} /\ Mode(calls[i].wipe) \in {"clean", "merge"}
    BY DEF Types, CallTypes, CallRecord, Mode
  <2>2. SaveCarriedOut(i) => ServerTypes'
    BY <2>1 DEF SaveCarriedOut, Valid, NoSettings, Types, ServerTypes
  <2>3. RestoreAnswered(i) \/ UploadAnswered(i) => ServerTypes'
    BY <2>1 DEF RestoreAnswered, UploadAnswered, Run, Types, ServerTypes
  <2>4. CreateAnswered(i) => ServerTypes'
    BY DEF CreateAnswered, Types, ServerTypes
  <2> QED
    BY <1>3, <1>6, <2>2, <2>3, <2>4 DEF CallAnswered, LoadAnswered, ListAnswered
<1>7. ASSUME NEW i \in CallIds, CallLands(i) PROVE ServerTypes'
  BY <1>1, <1>3, <1>7 DEF CallLands, RefusalLands, LandsHere, CreateLands, LandsNowhere
<1> QED
  BY <1>3, <1>4, <1>5, <1>6, <1>7 DEF Next, SystemStep, AtTheGate, Login, SaveAnswered, vars

\* So it does the types of the session.
LEMMA SessionTypesStep == ASSUME Types, [Next]_vars PROVE SessionTypeOK'
<1>1. CASE UNCHANGED sessionVars
  BY <1>1 DEF sessionVars, Types, SessionTypeOK
<1>2. ASSUME NEW remaining, EndSession(remaining) PROVE SessionTypeOK'
  BY <1>2 DEF EndSession, ClearStoredToken, Types, SessionTypeOK
<1>3. CASE AdminStep
  BY <1>1, <1>2, <1>3 DEF AdminStep, ClickLogout, OpenPanel, EditLimit, EditOptions, Patch, HandleSave,
     HandleCreateSnapshot, ToggleWipeFirst, HandleUploadRestore, HandleRestoreSnapshot
<1>4. CASE Restart
  BY <1>4 DEF Restart, RestartServer, Types, SessionTypeOK
<1>5. CASE OutsideStep
  BY <1>1, <1>4, <1>5 DEF OutsideStep, OtherAdminSaves, SnapshotRemoved
<1>6. CASE GateStep \/ TokenAccepted
  <2>1. \A t : Verdict(t) \in Statuses
    BY DEF Verdict, Statuses
  <2> QED
    BY <1>6, <2>1 DEF GateStep, SubmitToken, GateAnswered, TokenRefused, TokenAccepted, SetStoredToken,
       Statuses, Types, SessionTypeOK
<1>7. ASSUME NEW i \in CallIds, CallAnswered(i) \/ SaveAnswered(i) \/ CallLands(i)
      PROVE  SessionTypeOK'
  BY <1>1, <1>2, <1>7 DEF CallAnswered, SaveAnswered, CallLands, RefusalLands, LandsHere, CreateLands, LandsNowhere
<1> QED
  BY <1>1, <1>3, <1>5, <1>6, <1>7 DEF Next, SystemStep, AtTheGate, Login, vars

\* The inductive invariant of the panels.
THEOREM Invariance == Spec => []IInv
<1> DEFINE Parts == /\ Types /\ events \in 0..MaxEvents
                    /\ OneSubmitAtATime /\ EditsSurviveTheSave /\ MessageNamesTheModeRun /\ LoadsOK /\ RunsOK
<1>1. IInv <=> Parts
  <2>1. PanelsTypeOK <=> ServerTypes /\ PanelTypes /\ CallTypes /\ events \in 0..MaxEvents
    BY DEF PanelsTypeOK, ServerTypes, PanelTypes, CallTypes
  <2> QED
    BY <2>1 DEF IInv, TypeOK, Types
<1>2. Init => Parts
  <2> SUFFICES ASSUME Init PROVE Parts
    OBVIOUS
  <2>1. SessionTypeOK
    BY DEF Init, SessionInit, SessionTypeOK
  <2>2. ServerTypes /\ PanelTypes
    BY DEF Init, ServerTypes, PanelTypes
  <2>3. \A i \in CallIds : calls[i] = NoCall
    BY DEF Init
  <2>4. CallTypes /\ events \in 0..MaxEvents
    <3>1. NoCall \in CallRecord
      BY CallFacts
    <3>2. calls = [i \in CallIds |-> NoCall] /\ events = 0
      BY DEF Init
    <3>3. CallTypes
      BY <3>1, <3>2 DEF CallTypes
    <3> QED
      BY <3>2, <3>3, PanelsAssumption
  <2>5. OneSubmitAtATime /\ EditsSurviveTheSave /\ MessageNamesTheModeRun /\ LoadsOK /\ RunsOK
    BY <2>3 DEF Init, NoCall, OneSubmitAtATime, EditsSurviveTheSave, MessageNamesTheModeRun, LoadsOK, RunsOK, Own
  <2> QED
    BY <2>1, <2>2, <2>4, <2>5 DEF Types
<1>3. Parts /\ [Next]_vars => Parts'
  <2> SUFFICES ASSUME Parts, [Next]_vars PROVE Parts'
    OBVIOUS
  <2>1. StepCases
    BY Steps
  <2>2. Types'
    BY <2>1, SessionTypesStep, ServerTypesStep, PanelTypesStep, CallTypesStep DEF Types
  <2>3. events' \in 0..MaxEvents
    BY PanelsAssumption DEF Next, vars
  <2>4. OneSubmitAtATime' /\ LoadsOK' /\ EditsSurviveTheSave'
    BY <2>1, SubmitsStep, LoadsStep, EditsStep
  <2>5. RunsOK' /\ MessageNamesTheModeRun'
    BY <2>1, RunsStep, MessageStep
  <2> QED
    BY <2>2, <2>3, <2>4, <2>5
<1> HIDE DEF Parts
<1>4. Spec => []Parts
  BY <1>2, <1>3, PTL DEF Spec
<1> QED
  BY <1>1, <1>4, PTL

\* While a panel stays open, every control that is off has its request under way,
\* and there is one save, one snapshot, one upload and one listing at a time;
\* restores, and what a panel closed before had sent, are not among them
\* (AdminSettingsForm, AdminBackupSection).
THEOREM ControlsTakeTurns == Spec => []OneSubmitAtATime
<1>1. IInv => OneSubmitAtATime
  BY DEF IInv
<1> QED
  BY <1>1, Invariance, PTL

\* No edit is made to a form that is being saved, whatever the answers' order.
THEOREM NoEditIsLost == Spec => []EditsSurviveTheSave
<1>1. IInv => EditsSurviveTheSave
  BY DEF IInv
<1> QED
  BY <1>1, Invariance, PTL

\* The message after a restore names a mode in which one ran.
THEOREM MessageIsTrue == Spec => []MessageNamesTheModeRun
<1>1. IInv => MessageNamesTheModeRun
  BY DEF IInv
<1> QED
  BY <1>1, Invariance, PTL
=============================================================================
