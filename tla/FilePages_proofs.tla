---------------------------- MODULE FilePages_proofs ---------------------------
(***************************************************************************)
(* Proofs about FilePages, for every set of files, slugs and calls and     *)
(* every number of events.  One lemma per part of IInv, one step per       *)
(* action.                                                                 *)
(***************************************************************************)
EXTENDS FilePages, TLAPS

\* The gate's own step is typed, is not left waiting by an answer, and waits for
\* its cooldown only with the timer set.
LEMMA GateAnswers ==
    ASSUME GateTypeOK, NEW s \in DOMAIN EventForStatus, GateAnswer(s)
    PROVE  /\ GateTypeOK'
           /\ gate' # "loading"
           /\ (gate = "rate_limited" => cooling) => (gate' = "rate_limited" => cooling')
<1>1. CASE gate # "loading"
  BY <1>1 DEF GateAnswer, Dispatch, NextState, EventForStatus, StatusAfter, GateTypeOK, GateStatuses, IsFormEnabled
<1>2. CASE gate = "loading"
  <2>1. EventForStatus[s] \in DOMAIN StatusAfter
    BY DEF EventForStatus, StatusAfter
  <2>2. gate' = StatusAfter[EventForStatus[s]]
    BY <1>2, <2>1 DEF GateAnswer, Dispatch, NextState, IsFormEnabled, StatusAfter
  <2>3. gate' \in {"idle", "error", "rate_limited"} /\ (gate' = "rate_limited" => s = "limited")
    BY <2>2 DEF EventForStatus, StatusAfter
  <2> QED
    BY <2>3 DEF GateAnswer, GateTypeOK, GateStatuses
<1> QED
  BY <1>1, <1>2

\* Submitting the form switches it off; the end of the cooldown switches it on.
LEMMA GateMoves ==
    ASSUME GateTypeOK
    PROVE  /\ IsFormEnabled(gate) /\ Dispatch("SUBMIT") => gate' = "loading"
           /\ GateCooled => GateTypeOK' /\ gate' # "rate_limited" /\ (gate' = "loading" => gate = "loading")
  BY DEF GateCooled, Dispatch, NextState, StatusAfter, GateTypeOK, GateStatuses, IsFormEnabled

\* What a step does to the calls, without the detail of the fields.
LEMMA CallFacts ==
    ASSUME calls \in [CallIds -> CallRecord]
    PROVE  /\ NoCall \in CallRecord
           /\ \A c \in CallRecord : Send(c) => calls' \in [CallIds -> CallRecord]
           /\ \A i \in CallIds : Done(i) => calls' \in [CallIds -> CallRecord]
           /\ \A i \in CallIds, s \in DOMAIN EventForStatus :
                  Answered(i, s) => calls' \in [CallIds -> CallRecord]
<1>1. NoCall \in CallRecord
  BY DEF NoCall, CallRecord
<1>2. \A c \in CallRecord : Send(c) => calls' \in [CallIds -> CallRecord]
  BY DEF Send
<1>3. \A i \in CallIds : Done(i) => calls' \in [CallIds -> CallRecord]
  BY <1>1 DEF Done
<1>4. ASSUME NEW i \in CallIds, NEW s \in DOMAIN EventForStatus, Answered(i, s)
      PROVE  calls' \in [CallIds -> CallRecord]
  <2>1. [calls[i] EXCEPT !.status = s] \in CallRecord
    BY DEF CallRecord
  <2> QED
    BY <1>4, <2>1 DEF Answered
<1> QED
  BY <1>1, <1>2, <1>3, <1>4

\* The types of the server, of the tab, and of the calls.
ServerTypes ==
    /\ objects \in [Slugs -> Files \union {None}]
    /\ rows \in [Slugs -> [file : Files, guarded : BOOLEAN] \union {NoRow}]
    /\ drawn \subseteq Slugs

TabTypes ==
    /\ page \in [at : {"home", "upload", "loading", "file", "unlock", "error"},
                slug : Slugs \union {None}]
    /\ direct \in BOOLEAN
    /\ uploader \in [file : Files \union {None}, guarded : BOOLEAN, asked : BOOLEAN,
                     status : {"idle", "uploading", "success", "error"},
                     url : Slugs \union {None}]

CallTypes == calls \in [CallIds -> CallRecord]

Types == ServerTypes /\ TabTypes /\ GateTypeOK /\ CallTypes

\* The steps of the tab and of the server, one by one.
StepCases ==
    \/ FollowLink \/ OpenAddress \/ FileViewPage
    \/ \E f \in Files : SelectFile(f)
    \/ ChooseVisibility \/ HandleUpload \/ ResetForAnother
    \/ \E right \in BOOLEAN : SubmitPassword(right)
    \/ CooldownElapsed
    \/ \E i \in CallIds :
        \/ (PresignAnswered(i) \/ PutAnswered(i) \/ RegisterAnswered(i) \/ PostAnswered(i)
                \/ UnlockAnswered(i)) /\ UNCHANGED tabVars
        \/ /\ \/ calls[i].status = "ok" /\ (PresignLands(i) \/ PutLands(i) \/ UploadLands(i))
              \/ UploadFails(i)
           /\ UNCHANGED <<serverVars, page, direct, gateVars>>
        \/ \E s \in DOMAIN EventForStatus :
               UnlockLands(i, s) /\ UNCHANGED <<serverVars, page, direct>>
    \/ \E s \in Slugs : Vanish(s)
    \/ UNCHANGED vars

\* Every step is one of StepCases.
LEMMA Steps == ASSUME Types, [Next]_vars PROVE StepCases
<1>1. ASSUME NEW i \in CallIds, CallLands(i) PROVE StepCases
  <2>1. PICK s \in Arrivals(i) :
            \/ s = "ok" /\ (PresignLands(i) \/ PutLands(i) \/ UploadLands(i)) /\ UNCHANGED gateVars
            \/ s # "ok" /\ UploadFails(i) /\ UNCHANGED gateVars
            \/ UnlockLands(i, s)
    BY <1>1 DEF CallLands
  <2>2. s \in DOMAIN EventForStatus /\ (s = "ok" => calls[i].status = "ok")
    BY DEF Arrivals, EventForStatus, Types, CallTypes, CallRecord
  <2>3. UNCHANGED <<serverVars, page, direct>>
    BY <1>1 DEF CallLands
  <2>4. CASE UnlockLands(i, s)
    BY <2>2, <2>3, <2>4 DEF StepCases
  <2>5. CASE /\ \/ calls[i].status = "ok" /\ (PresignLands(i) \/ PutLands(i) \/ UploadLands(i))
                \/ UploadFails(i)
             /\ UNCHANGED <<serverVars, page, direct, gateVars>>
    BY <2>5 DEF StepCases
  <2> QED
    BY <2>1, <2>2, <2>3, <2>4, <2>5
<1>2. ASSUME NEW i \in CallIds, CallAnswered(i) PROVE StepCases
  BY <1>2 DEF CallAnswered, StepCases
<1> QED
  BY <1>1, <1>2 DEF Next, VisitorStep, SystemStep, StepCases

\* Next preserves the types of the server.
LEMMA ServerTypesStep ==
    ASSUME Types, SlugsOK, UploadsOK, StepCases
    PROVE  ServerTypes'
<1>1. CASE FollowLink
  BY <1>1, FilesAssumption DEF FollowLink, Enter, Unmount, Page, InitialUploader, NoCall, GateReset,
     serverVars, Types, ServerTypes, CallTypes, CallRecord
<1>2. CASE OpenAddress
  BY <1>2, FilesAssumption DEF OpenAddress, Enter, Page, InitialUploader, NoCall, GateReset, serverVars,
     Types, ServerTypes, CallTypes, CallRecord
<1>3. CASE FileViewPage
  BY <1>3, FilesAssumption DEF FileViewPage, serverVars, gateVars, Types, ServerTypes, CallTypes,
     CallRecord
<1>4. ASSUME NEW f \in Files, SelectFile(f) PROVE ServerTypes'
  BY <1>4, FilesAssumption DEF SelectFile, FormShown, IsUploading, serverVars, gateVars, Types,
     ServerTypes, CallTypes, CallRecord
<1>5. CASE ChooseVisibility
  BY <1>5, FilesAssumption DEF ChooseVisibility, FormShown, serverVars, gateVars, Types, ServerTypes,
     CallTypes, CallRecord
<1>6. CASE HandleUpload
  BY <1>6, FilesAssumption DEF HandleUpload, FormShown, IsUploading, Send, NoCall, serverVars, gateVars,
     Types, ServerTypes, CallTypes, CallRecord
<1>7. CASE ResetForAnother
  BY <1>7, FilesAssumption DEF ResetForAnother, FormShown, serverVars, gateVars, Types, ServerTypes,
     CallTypes, CallRecord
<1>8. ASSUME NEW right \in BOOLEAN, SubmitPassword(right) PROVE ServerTypes'
  BY <1>8, FilesAssumption DEF SubmitPassword, Send, NoCall, serverVars, Types, ServerTypes, CallTypes,
     CallRecord
<1>9. CASE CooldownElapsed
  BY <1>9, FilesAssumption DEF CooldownElapsed, GateCooled, serverVars, Types, ServerTypes, CallTypes,
     CallRecord
<1>10. ASSUME NEW i \in CallIds, PresignAnswered(i), UNCHANGED tabVars PROVE ServerTypes'
  BY <1>10, FilesAssumption DEF PresignAnswered, Draw, tabVars, gateVars, Types, ServerTypes, CallTypes,
     CallRecord
<1>11. ASSUME NEW i \in CallIds, PutAnswered(i), UNCHANGED tabVars PROVE ServerTypes'
  BY <1>11, FilesAssumption DEF PutAnswered, Answered, tabVars, gateVars, Types, ServerTypes, CallTypes,
     CallRecord
<1>12. ASSUME NEW i \in CallIds, RegisterAnswered(i), UNCHANGED tabVars PROVE ServerTypes'
  <2>1. calls[i].slug \in Slugs /\ calls[i].file \in Files
    BY <1>12 DEF RegisterAnswered, Types, ServerTypes, SlugsOK, HasSlug, UploadsOK, Chain
  <2>2. RowOf(i) \in [file : Files, guarded : BOOLEAN]
    BY <2>1 DEF RowOf, Types, CallTypes, CallRecord
  <2> QED
    BY <1>12, <2>1, <2>2 DEF RegisterAnswered, Types, ServerTypes
<1>13. ASSUME NEW i \in CallIds, PostAnswered(i), UNCHANGED tabVars PROVE ServerTypes'
  <2>1. RowOf(i) \in [file : Files, guarded : BOOLEAN] /\ calls[i].file \in Files
    BY <1>13 DEF PostAnswered, RowOf, UploadsOK, Chain, Types, CallTypes, CallRecord
  <2>2. PICK s \in Slugs : /\ Draw(s)
                         /\ objects' = [objects EXCEPT ![s] = calls[i].file]
                         /\ rows' = [rows EXCEPT ![s] = RowOf(i)]
    BY <1>13 DEF PostAnswered
  <2>3. objects' \in [Slugs -> Files \union {None}]
    BY <2>1, <2>2 DEF Types, ServerTypes
  <2>4. rows' \in [Slugs -> [file : Files, guarded : BOOLEAN] \union {NoRow}]
    BY <2>1, <2>2 DEF Types, ServerTypes
  <2> QED
    BY <2>2, <2>3, <2>4 DEF Draw, Types, ServerTypes
<1>14. ASSUME NEW i \in CallIds, UnlockAnswered(i), UNCHANGED tabVars PROVE ServerTypes'
  BY <1>14, FilesAssumption DEF UnlockAnswered, Answered, serverVars, tabVars, gateVars, Types,
     ServerTypes, CallTypes, CallRecord
<1>15. ASSUME NEW i \in CallIds, calls[i].status = "ok", PresignLands(i), UNCHANGED <<serverVars, page, direct, gateVars>>
       PROVE  ServerTypes'
  BY <1>15, FilesAssumption DEF PresignLands, GoesOn, serverVars, gateVars, Types, ServerTypes,
     CallTypes, CallRecord
<1>16. ASSUME NEW i \in CallIds, calls[i].status = "ok", PutLands(i), UNCHANGED <<serverVars, page, direct, gateVars>>
       PROVE  ServerTypes'
  BY <1>16, FilesAssumption DEF PutLands, GoesOn, serverVars, gateVars, Types, ServerTypes, CallTypes,
     CallRecord
<1>17. ASSUME NEW i \in CallIds, calls[i].status = "ok", UploadLands(i), UNCHANGED <<serverVars, page, direct, gateVars>>
       PROVE  ServerTypes'
  BY <1>17, FilesAssumption DEF UploadLands, OnSuccess, Done, NoCall, serverVars, gateVars, Types,
     ServerTypes, CallTypes, CallRecord
<1>18. ASSUME NEW i \in CallIds, UploadFails(i), UNCHANGED <<serverVars, page, direct, gateVars>>
       PROVE  ServerTypes'
  BY <1>18, FilesAssumption DEF UploadFails, OnError, Done, NoCall, serverVars, gateVars, Types,
     ServerTypes, CallTypes, CallRecord
<1>19. ASSUME NEW i \in CallIds, NEW s \in DOMAIN EventForStatus, UnlockLands(i, s), UNCHANGED <<serverVars, page, direct>>
       PROVE  ServerTypes'
  BY <1>19, FilesAssumption DEF UnlockLands, Done, NoCall, serverVars, gateVars, Types, ServerTypes,
     CallTypes, CallRecord
<1>20. ASSUME NEW s \in Slugs, Vanish(s) PROVE ServerTypes'
  BY <1>20, FilesAssumption DEF Vanish, NoRow, tabVars, gateVars, Types, ServerTypes, CallTypes,
     CallRecord
<1>21. CASE UNCHANGED vars
  BY <1>21, FilesAssumption DEF vars, serverVars, tabVars, gateVars, Types, ServerTypes, CallTypes,
     CallRecord
<1> QED
  BY <1>1, <1>2, <1>3, <1>4, <1>5, <1>6, <1>7, <1>8, <1>9, <1>10, <1>11, <1>12, <1>13, <1>14, <1>15,
     <1>16, <1>17, <1>18, <1>19, <1>20, <1>21 DEF StepCases

\* Next preserves the types of the tab.
LEMMA TabTypesStep ==
    ASSUME Types, StepCases
    PROVE  TabTypes'
<1>1. CASE FollowLink
  <2>1. PICK p : /\ p \in {Page("home", None), Page("upload", None)} \union {Page("loading", s) : s \in Slugs}
                /\ Enter(p, Unmount(calls))
    BY <1>1 DEF FollowLink
  <2>2. p \in [at : {"home", "upload", "loading", "file", "unlock", "error"}, slug : Slugs \union {None}]
    BY <2>1 DEF Page
  <2>3. uploader' = InitialUploader /\ direct' \in BOOLEAN /\ page' = p
    BY <2>1 DEF Enter
  <2> QED
    BY <2>2, <2>3 DEF InitialUploader, TabTypes
<1>2. CASE OpenAddress
  BY <1>2, FilesAssumption DEF OpenAddress, Enter, Page, InitialUploader, NoCall, GateReset, serverVars,
     Types, TabTypes, CallTypes, CallRecord
<1>3. CASE FileViewPage
  BY <1>3, FilesAssumption DEF FileViewPage, serverVars, gateVars, Types, TabTypes, CallTypes,
     CallRecord
<1>4. ASSUME NEW f \in Files, SelectFile(f) PROVE TabTypes'
  BY <1>4, FilesAssumption DEF SelectFile, FormShown, IsUploading, serverVars, gateVars, Types, TabTypes,
     CallTypes, CallRecord
<1>5. CASE ChooseVisibility
  BY <1>5, FilesAssumption DEF ChooseVisibility, FormShown, serverVars, gateVars, Types, TabTypes,
     CallTypes, CallRecord
<1>6. CASE HandleUpload
  BY <1>6, FilesAssumption DEF HandleUpload, FormShown, IsUploading, Send, NoCall, serverVars, gateVars,
     Types, TabTypes, CallTypes, CallRecord
<1>7. CASE ResetForAnother
  BY <1>7, FilesAssumption DEF ResetForAnother, FormShown, serverVars, gateVars, Types, TabTypes,
     CallTypes, CallRecord
<1>8. ASSUME NEW right \in BOOLEAN, SubmitPassword(right) PROVE TabTypes'
  BY <1>8, FilesAssumption DEF SubmitPassword, Send, NoCall, serverVars, Types, TabTypes, CallTypes,
     CallRecord
<1>9. CASE CooldownElapsed
  BY <1>9, FilesAssumption DEF CooldownElapsed, GateCooled, serverVars, Types, TabTypes, CallTypes,
     CallRecord
<1>10. ASSUME NEW i \in CallIds, PresignAnswered(i), UNCHANGED tabVars PROVE TabTypes'
  BY <1>10, FilesAssumption DEF PresignAnswered, Draw, tabVars, gateVars, Types, TabTypes, CallTypes,
     CallRecord
<1>11. ASSUME NEW i \in CallIds, PutAnswered(i), UNCHANGED tabVars PROVE TabTypes'
  BY <1>11, FilesAssumption DEF PutAnswered, Answered, tabVars, gateVars, Types, TabTypes, CallTypes,
     CallRecord
<1>12. ASSUME NEW i \in CallIds, RegisterAnswered(i), UNCHANGED tabVars PROVE TabTypes'
  BY <1>12, FilesAssumption DEF RegisterAnswered, RowOf, Answered, tabVars, gateVars, Types, TabTypes,
     CallTypes, CallRecord
<1>13. ASSUME NEW i \in CallIds, PostAnswered(i), UNCHANGED tabVars PROVE TabTypes'
  BY <1>13, FilesAssumption DEF PostAnswered, RowOf, Draw, tabVars, gateVars, Types, TabTypes, CallTypes,
     CallRecord
<1>14. ASSUME NEW i \in CallIds, UnlockAnswered(i), UNCHANGED tabVars PROVE TabTypes'
  BY <1>14, FilesAssumption DEF UnlockAnswered, Answered, serverVars, tabVars, gateVars, Types, TabTypes,
     CallTypes, CallRecord
<1>15. ASSUME NEW i \in CallIds, calls[i].status = "ok", PresignLands(i), UNCHANGED <<serverVars, page, direct, gateVars>>
       PROVE  TabTypes'
  BY <1>15, FilesAssumption DEF PresignLands, GoesOn, serverVars, gateVars, Types, TabTypes, CallTypes,
     CallRecord
<1>16. ASSUME NEW i \in CallIds, calls[i].status = "ok", PutLands(i), UNCHANGED <<serverVars, page, direct, gateVars>>
       PROVE  TabTypes'
  BY <1>16, FilesAssumption DEF PutLands, GoesOn, serverVars, gateVars, Types, TabTypes, CallTypes,
     CallRecord
<1>17. ASSUME NEW i \in CallIds, calls[i].status = "ok", UploadLands(i), UNCHANGED <<serverVars, page, direct, gateVars>>
       PROVE  TabTypes'
  BY <1>17, FilesAssumption DEF UploadLands, OnSuccess, Done, NoCall, serverVars, gateVars, Types,
     TabTypes, CallTypes, CallRecord
<1>18. ASSUME NEW i \in CallIds, UploadFails(i), UNCHANGED <<serverVars, page, direct, gateVars>>
       PROVE  TabTypes'
  BY <1>18, FilesAssumption DEF UploadFails, OnError, Done, NoCall, serverVars, gateVars, Types,
     TabTypes, CallTypes, CallRecord
<1>19. ASSUME NEW i \in CallIds, NEW s \in DOMAIN EventForStatus, UnlockLands(i, s), UNCHANGED <<serverVars, page, direct>>
       PROVE  TabTypes'
  BY <1>19, FilesAssumption DEF UnlockLands, Done, NoCall, serverVars, gateVars, Types, TabTypes,
     CallTypes, CallRecord
<1>20. ASSUME NEW s \in Slugs, Vanish(s) PROVE TabTypes'
  BY <1>20, FilesAssumption DEF Vanish, NoRow, tabVars, gateVars, Types, TabTypes, CallTypes, CallRecord
<1>21. CASE UNCHANGED vars
  BY <1>21, FilesAssumption DEF vars, serverVars, tabVars, gateVars, Types, TabTypes, CallTypes,
     CallRecord
<1> QED
  BY <1>1, <1>2, <1>3, <1>4, <1>5, <1>6, <1>7, <1>8, <1>9, <1>10, <1>11, <1>12, <1>13, <1>14, <1>15,
     <1>16, <1>17, <1>18, <1>19, <1>20, <1>21 DEF StepCases

\* Next preserves the types of the gate.
LEMMA GateTypesStep ==
    ASSUME Types, StepCases
    PROVE  GateTypeOK'
<1>1. CASE FollowLink
  BY <1>1, FilesAssumption, GateAnswers, GateMoves DEF FollowLink, Enter, Unmount, Page, InitialUploader,
     NoCall, GateReset, serverVars, Types, GateTypeOK, GateStatuses
<1>2. CASE OpenAddress
  BY <1>2, FilesAssumption, GateAnswers, GateMoves DEF OpenAddress, Enter, Page, InitialUploader, NoCall,
     GateReset, serverVars, Types, GateTypeOK, GateStatuses
<1>3. CASE FileViewPage
  BY <1>3, FilesAssumption, GateAnswers, GateMoves DEF FileViewPage, serverVars, gateVars, Types,
     GateTypeOK, GateStatuses
<1>4. ASSUME NEW f \in Files, SelectFile(f) PROVE GateTypeOK'
  BY <1>4, FilesAssumption, GateAnswers, GateMoves DEF SelectFile, FormShown, IsUploading, serverVars,
     gateVars, Types, GateTypeOK, GateStatuses
<1>5. CASE ChooseVisibility
  BY <1>5, FilesAssumption, GateAnswers, GateMoves DEF ChooseVisibility, FormShown, serverVars, gateVars,
     Types, GateTypeOK, GateStatuses
<1>6. CASE HandleUpload
  BY <1>6, FilesAssumption, GateAnswers, GateMoves DEF HandleUpload, FormShown, IsUploading, Send,
     NoCall, serverVars, gateVars, Types, GateTypeOK, GateStatuses
<1>7. CASE ResetForAnother
  BY <1>7, FilesAssumption, GateAnswers, GateMoves DEF ResetForAnother, FormShown, serverVars, gateVars,
     Types, GateTypeOK, GateStatuses
<1>8. ASSUME NEW right \in BOOLEAN, SubmitPassword(right) PROVE GateTypeOK'
  BY <1>8, FilesAssumption, GateAnswers, GateMoves DEF SubmitPassword, Send, NoCall, serverVars, Types,
     GateTypeOK, GateStatuses
<1>9. CASE CooldownElapsed
  BY <1>9, FilesAssumption, GateAnswers, GateMoves DEF CooldownElapsed, GateCooled, serverVars, Types,
     GateTypeOK, GateStatuses
<1>10. ASSUME NEW i \in CallIds, PresignAnswered(i), UNCHANGED tabVars PROVE GateTypeOK'
  BY <1>10, FilesAssumption, GateAnswers, GateMoves DEF PresignAnswered, Draw, tabVars, gateVars, Types,
     GateTypeOK, GateStatuses
<1>11. ASSUME NEW i \in CallIds, PutAnswered(i), UNCHANGED tabVars PROVE GateTypeOK'
  BY <1>11, FilesAssumption, GateAnswers, GateMoves DEF PutAnswered, Answered, tabVars, gateVars, Types,
     GateTypeOK, GateStatuses
<1>12. ASSUME NEW i \in CallIds, RegisterAnswered(i), UNCHANGED tabVars PROVE GateTypeOK'
  BY <1>12, FilesAssumption, GateAnswers, GateMoves DEF RegisterAnswered, RowOf, Answered, tabVars,
     gateVars, Types, GateTypeOK, GateStatuses
<1>13. ASSUME NEW i \in CallIds, PostAnswered(i), UNCHANGED tabVars PROVE GateTypeOK'
  BY <1>13, FilesAssumption, GateAnswers, GateMoves DEF PostAnswered, RowOf, Draw, tabVars, gateVars,
     Types, GateTypeOK, GateStatuses
<1>14. ASSUME NEW i \in CallIds, UnlockAnswered(i), UNCHANGED tabVars PROVE GateTypeOK'
  BY <1>14, FilesAssumption, GateAnswers, GateMoves DEF UnlockAnswered, Answered, serverVars, tabVars,
     gateVars, Types, GateTypeOK, GateStatuses
<1>15. ASSUME NEW i \in CallIds, calls[i].status = "ok", PresignLands(i), UNCHANGED <<serverVars, page, direct, gateVars>>
       PROVE  GateTypeOK'
  BY <1>15, FilesAssumption, GateAnswers, GateMoves DEF PresignLands, GoesOn, serverVars, gateVars,
     Types, GateTypeOK, GateStatuses
<1>16. ASSUME NEW i \in CallIds, calls[i].status = "ok", PutLands(i), UNCHANGED <<serverVars, page, direct, gateVars>>
       PROVE  GateTypeOK'
  BY <1>16, FilesAssumption, GateAnswers, GateMoves DEF PutLands, GoesOn, serverVars, gateVars, Types,
     GateTypeOK, GateStatuses
<1>17. ASSUME NEW i \in CallIds, calls[i].status = "ok", UploadLands(i), UNCHANGED <<serverVars, page, direct, gateVars>>
       PROVE  GateTypeOK'
  BY <1>17, FilesAssumption, GateAnswers, GateMoves DEF UploadLands, OnSuccess, Done, NoCall, serverVars,
     gateVars, Types, GateTypeOK, GateStatuses
<1>18. ASSUME NEW i \in CallIds, UploadFails(i), UNCHANGED <<serverVars, page, direct, gateVars>>
       PROVE  GateTypeOK'
  BY <1>18, FilesAssumption, GateAnswers, GateMoves DEF UploadFails, OnError, Done, NoCall, serverVars,
     gateVars, Types, GateTypeOK, GateStatuses
<1>19. ASSUME NEW i \in CallIds, NEW s \in DOMAIN EventForStatus, UnlockLands(i, s), UNCHANGED <<serverVars, page, direct>>
       PROVE  GateTypeOK'
  BY <1>19, FilesAssumption, GateAnswers, GateMoves DEF UnlockLands, Done, NoCall, serverVars, gateVars,
     Types, GateTypeOK, GateStatuses
<1>20. ASSUME NEW s \in Slugs, Vanish(s) PROVE GateTypeOK'
  BY <1>20, FilesAssumption, GateAnswers, GateMoves DEF Vanish, NoRow, tabVars, gateVars, Types,
     GateTypeOK, GateStatuses
<1>21. CASE UNCHANGED vars
  BY <1>21, FilesAssumption, GateAnswers, GateMoves DEF vars, serverVars, tabVars, gateVars, Types,
     GateTypeOK, GateStatuses
<1> QED
  BY <1>1, <1>2, <1>3, <1>4, <1>5, <1>6, <1>7, <1>8, <1>9, <1>10, <1>11, <1>12, <1>13, <1>14, <1>15,
     <1>16, <1>17, <1>18, <1>19, <1>20, <1>21 DEF StepCases

\* Next preserves the types of the calls.
LEMMA CallTypesStep ==
    ASSUME Types, SlugsOK, StepCases
    PROVE  CallTypes'
<1>1. CASE FollowLink
  <2>1. ASSUME NEW j \in CallIds PROVE [calls[j] EXCEPT !.own = FALSE] \in CallRecord
    BY DEF Types, CallTypes, CallRecord
  <2>2. Unmount(calls) \in [CallIds -> CallRecord]
    BY <2>1, CallFacts DEF Unmount, Types, CallTypes
  <2> QED
    BY <1>1, <2>2 DEF FollowLink, Enter, CallTypes
<1>2. CASE OpenAddress
  <2>1. [j \in CallIds |-> NoCall] \in [CallIds -> CallRecord]
    BY CallFacts DEF Types, CallTypes
  <2> QED
    BY <1>2, <2>1 DEF OpenAddress, Enter, CallTypes
<1>3. CASE FileViewPage
  BY <1>3, FilesAssumption, CallFacts DEF FileViewPage, serverVars, gateVars, Types, CallTypes
<1>4. ASSUME NEW f \in Files, SelectFile(f) PROVE CallTypes'
  BY <1>4, FilesAssumption, CallFacts DEF SelectFile, FormShown, IsUploading, serverVars, gateVars,
     Types, CallTypes
<1>5. CASE ChooseVisibility
  BY <1>5, FilesAssumption, CallFacts DEF ChooseVisibility, FormShown, serverVars, gateVars, Types,
     CallTypes
<1>6. CASE HandleUpload
  <2> DEFINE c == [NoCall EXCEPT !.op = IF direct THEN "presign" ELSE "post", !.own = TRUE,
                                 !.file = uploader.file, !.guarded = uploader.guarded]
  <2>1. c \in CallRecord
    BY DEF NoCall, CallRecord, EventForStatus, Types, TabTypes
  <2>2. Send(c)
    BY <1>6 DEF HandleUpload
  <2> QED
    BY <2>1, <2>2, CallFacts DEF Types, CallTypes
<1>7. CASE ResetForAnother
  BY <1>7, FilesAssumption, CallFacts DEF ResetForAnother, FormShown, serverVars, gateVars, Types,
     CallTypes
<1>8. ASSUME NEW right \in BOOLEAN, SubmitPassword(right) PROVE CallTypes'
  <2> DEFINE c == [NoCall EXCEPT !.op = "unlock", !.slug = page.slug, !.right = right, !.own = TRUE]
  <2>1. c \in CallRecord
    BY DEF NoCall, CallRecord, EventForStatus, Types, TabTypes
  <2>2. Send(c)
    BY <1>8 DEF SubmitPassword
  <2> QED
    BY <2>1, <2>2, CallFacts DEF Types, CallTypes
<1>9. CASE CooldownElapsed
  BY <1>9, FilesAssumption, CallFacts DEF CooldownElapsed, GateCooled, serverVars, Types, CallTypes
<1>10. ASSUME NEW i \in CallIds, PresignAnswered(i), UNCHANGED tabVars PROVE CallTypes'
  <2>1. PICK s \in Slugs : calls' = [calls EXCEPT ![i].slug = s, ![i].status = "ok"]
    BY <1>10 DEF PresignAnswered
  <2>2. [calls[i] EXCEPT !.slug = s, !.status = "ok"] \in CallRecord
    BY DEF Types, CallTypes, CallRecord, EventForStatus
  <2> QED
    BY <2>1, <2>2 DEF Types, CallTypes
<1>11. ASSUME NEW i \in CallIds, PutAnswered(i), UNCHANGED tabVars PROVE CallTypes'
  BY <1>11, CallFacts DEF PutAnswered, Types, CallTypes, EventForStatus
<1>12. ASSUME NEW i \in CallIds, RegisterAnswered(i), UNCHANGED tabVars PROVE CallTypes'
  BY <1>12, CallFacts DEF RegisterAnswered, Types, CallTypes, EventForStatus
<1>13. ASSUME NEW i \in CallIds, PostAnswered(i), UNCHANGED tabVars PROVE CallTypes'
  <2>1. PICK s \in Slugs : calls' = [calls EXCEPT ![i].slug = s, ![i].status = "ok"]
    BY <1>13 DEF PostAnswered
  <2>2. [calls[i] EXCEPT !.slug = s, !.status = "ok"] \in CallRecord
    BY DEF Types, CallTypes, CallRecord, EventForStatus
  <2> QED
    BY <2>1, <2>2 DEF Types, CallTypes
<1>14. ASSUME NEW i \in CallIds, UnlockAnswered(i), UNCHANGED tabVars PROVE CallTypes'
  <2>1. PICK s \in {"limited", "missing", "gone", "ok", "unauthorized"} : Answered(i, s)
    BY <1>14 DEF UnlockAnswered
  <2>2. s \in DOMAIN EventForStatus
    BY DEF EventForStatus
  <2> QED
    BY <2>1, <2>2, CallFacts DEF Types, CallTypes
<1>15. ASSUME NEW i \in CallIds, calls[i].status = "ok", PresignLands(i), UNCHANGED <<serverVars, page, direct, gateVars>>
       PROVE  CallTypes'
  <2>1. [calls[i] EXCEPT !.op = "put", !.status = "sent"] \in CallRecord
    BY DEF Types, CallTypes, CallRecord
  <2> QED
    BY <1>15, <2>1 DEF PresignLands, GoesOn, Types, CallTypes
<1>16. ASSUME NEW i \in CallIds, calls[i].status = "ok", PutLands(i), UNCHANGED <<serverVars, page, direct, gateVars>>
       PROVE  CallTypes'
  <2>1. [calls[i] EXCEPT !.op = "register", !.status = "sent"] \in CallRecord
    BY DEF Types, CallTypes, CallRecord
  <2> QED
    BY <1>16, <2>1 DEF PutLands, GoesOn, Types, CallTypes
<1>17. ASSUME NEW i \in CallIds, calls[i].status = "ok", UploadLands(i), UNCHANGED <<serverVars, page, direct, gateVars>>
       PROVE  CallTypes'
  BY <1>17, FilesAssumption, CallFacts DEF UploadLands, OnSuccess, Done, NoCall, serverVars, gateVars,
     Types, CallTypes
<1>18. ASSUME NEW i \in CallIds, UploadFails(i), UNCHANGED <<serverVars, page, direct, gateVars>>
       PROVE  CallTypes'
  BY <1>18, FilesAssumption, CallFacts DEF UploadFails, OnError, Done, NoCall, serverVars, gateVars,
     Types, CallTypes
<1>19. ASSUME NEW i \in CallIds, NEW s \in DOMAIN EventForStatus, UnlockLands(i, s), UNCHANGED <<serverVars, page, direct>>
       PROVE  CallTypes'
  BY <1>19, FilesAssumption, CallFacts DEF UnlockLands, Done, NoCall, serverVars, gateVars, Types,
     CallTypes
<1>20. ASSUME NEW s \in Slugs, Vanish(s) PROVE CallTypes'
  BY <1>20, FilesAssumption, CallFacts DEF Vanish, NoRow, tabVars, gateVars, Types, CallTypes
<1>21. CASE UNCHANGED vars
  BY <1>21, FilesAssumption, CallFacts DEF vars, serverVars, tabVars, gateVars, Types, CallTypes
<1> QED
  BY <1>1, <1>2, <1>3, <1>4, <1>5, <1>6, <1>7, <1>8, <1>9, <1>10, <1>11, <1>12, <1>13, <1>14, <1>15,
     <1>16, <1>17, <1>18, <1>19, <1>20, <1>21 DEF StepCases

\* The two halves of OneUploadAtATime: the upload form, and the gate.
UploaderWaits ==
    /\ page.at = "upload" /\ IsUploading <=> \E i \in CallIds : OwnUpload(i)
    /\ \A i, j \in CallIds : OwnUpload(i) /\ OwnUpload(j) => i = j

GateWaits ==
    /\ gate = "loading" => \E i \in CallIds : calls[i].own /\ calls[i].op = "unlock"
    /\ gate = "rate_limited" => cooling

\* Next preserves what the upload form waits for.
LEMMA UploaderWaitsStep ==
    ASSUME Types, UploaderWaits, StepCases
    PROVE  UploaderWaits'
<1>1. CASE FollowLink
  BY <1>1, FilesAssumption DEF FollowLink, Enter, Unmount, Page, InitialUploader, NoCall, GateReset,
     serverVars, Types, TabTypes, CallTypes, CallRecord, UploaderWaits, OwnUpload, Chain, IsUploading
<1>2. CASE OpenAddress
  BY <1>2, FilesAssumption DEF OpenAddress, Enter, Page, InitialUploader, NoCall, GateReset, serverVars,
     Types, TabTypes, CallTypes, CallRecord, UploaderWaits, OwnUpload, Chain, IsUploading
<1>3. CASE FileViewPage
  BY <1>3, FilesAssumption DEF FileViewPage, serverVars, gateVars, Types, TabTypes, CallTypes,
     CallRecord, UploaderWaits, OwnUpload, Chain, IsUploading
<1>4. ASSUME NEW f \in Files, SelectFile(f) PROVE UploaderWaits'
  BY <1>4, FilesAssumption DEF SelectFile, FormShown, IsUploading, serverVars, gateVars, Types, TabTypes,
     CallTypes, CallRecord, UploaderWaits, OwnUpload, Chain
<1>5. CASE ChooseVisibility
  BY <1>5, FilesAssumption DEF ChooseVisibility, FormShown, serverVars, gateVars, Types, TabTypes,
     CallTypes, CallRecord, UploaderWaits, OwnUpload, Chain, IsUploading
<1>6. CASE HandleUpload
  BY <1>6, FilesAssumption DEF HandleUpload, FormShown, IsUploading, Send, NoCall, serverVars, gateVars,
     Types, TabTypes, CallTypes, CallRecord, UploaderWaits, OwnUpload, Chain
<1>7. CASE ResetForAnother
  BY <1>7, FilesAssumption DEF ResetForAnother, FormShown, serverVars, gateVars, Types, TabTypes,
     CallTypes, CallRecord, UploaderWaits, OwnUpload, Chain, IsUploading
<1>8. ASSUME NEW right \in BOOLEAN, SubmitPassword(right) PROVE UploaderWaits'
  BY <1>8, FilesAssumption DEF SubmitPassword, Send, NoCall, serverVars, Types, TabTypes, CallTypes,
     CallRecord, UploaderWaits, OwnUpload, Chain, IsUploading
<1>9. CASE CooldownElapsed
  BY <1>9, FilesAssumption DEF CooldownElapsed, GateCooled, serverVars, Types, TabTypes, CallTypes,
     CallRecord, UploaderWaits, OwnUpload, Chain, IsUploading
<1>10. ASSUME NEW i \in CallIds, PresignAnswered(i), UNCHANGED tabVars PROVE UploaderWaits'
  BY <1>10, FilesAssumption DEF PresignAnswered, Draw, tabVars, gateVars, Types, TabTypes, CallTypes,
     CallRecord, UploaderWaits, OwnUpload, Chain, IsUploading
<1>11. ASSUME NEW i \in CallIds, PutAnswered(i), UNCHANGED tabVars PROVE UploaderWaits'
  BY <1>11, FilesAssumption DEF PutAnswered, Answered, tabVars, gateVars, Types, TabTypes, CallTypes,
     CallRecord, UploaderWaits, OwnUpload, Chain, IsUploading
<1>12. ASSUME NEW i \in CallIds, RegisterAnswered(i), UNCHANGED tabVars PROVE UploaderWaits'
  BY <1>12, FilesAssumption DEF RegisterAnswered, RowOf, Answered, tabVars, gateVars, Types, TabTypes,
     CallTypes, CallRecord, UploaderWaits, OwnUpload, Chain, IsUploading
<1>13. ASSUME NEW i \in CallIds, PostAnswered(i), UNCHANGED tabVars PROVE UploaderWaits'
  BY <1>13, FilesAssumption DEF PostAnswered, RowOf, Draw, tabVars, gateVars, Types, TabTypes, CallTypes,
     CallRecord, UploaderWaits, OwnUpload, Chain, IsUploading
<1>14. ASSUME NEW i \in CallIds, UnlockAnswered(i), UNCHANGED tabVars PROVE UploaderWaits'
  BY <1>14, FilesAssumption DEF UnlockAnswered, Answered, serverVars, tabVars, gateVars, Types, TabTypes,
     CallTypes, CallRecord, UploaderWaits, OwnUpload, Chain, IsUploading
<1>15. ASSUME NEW i \in CallIds, calls[i].status = "ok", PresignLands(i), UNCHANGED <<serverVars, page, direct, gateVars>>
       PROVE  UploaderWaits'
  BY <1>15, FilesAssumption DEF PresignLands, GoesOn, serverVars, gateVars, Types, TabTypes, CallTypes,
     CallRecord, UploaderWaits, OwnUpload, Chain, IsUploading
<1>16. ASSUME NEW i \in CallIds, calls[i].status = "ok", PutLands(i), UNCHANGED <<serverVars, page, direct, gateVars>>
       PROVE  UploaderWaits'
  BY <1>16, FilesAssumption DEF PutLands, GoesOn, serverVars, gateVars, Types, TabTypes, CallTypes,
     CallRecord, UploaderWaits, OwnUpload, Chain, IsUploading
<1>17. ASSUME NEW i \in CallIds, calls[i].status = "ok", UploadLands(i), UNCHANGED <<serverVars, page, direct, gateVars>>
       PROVE  UploaderWaits'
  BY <1>17, FilesAssumption DEF UploadLands, OnSuccess, Done, NoCall, serverVars, gateVars, Types,
     TabTypes, CallTypes, CallRecord, UploaderWaits, OwnUpload, Chain, IsUploading
<1>18. ASSUME NEW i \in CallIds, UploadFails(i), UNCHANGED <<serverVars, page, direct, gateVars>>
       PROVE  UploaderWaits'
  BY <1>18, FilesAssumption DEF UploadFails, OnError, Done, NoCall, serverVars, gateVars, Types,
     TabTypes, CallTypes, CallRecord, UploaderWaits, OwnUpload, Chain, IsUploading
<1>19. ASSUME NEW i \in CallIds, NEW s \in DOMAIN EventForStatus, UnlockLands(i, s), UNCHANGED <<serverVars, page, direct>>
       PROVE  UploaderWaits'
  BY <1>19, FilesAssumption DEF UnlockLands, Done, NoCall, serverVars, gateVars, Types, TabTypes,
     CallTypes, CallRecord, UploaderWaits, OwnUpload, Chain, IsUploading
<1>20. ASSUME NEW s \in Slugs, Vanish(s) PROVE UploaderWaits'
  BY <1>20, FilesAssumption DEF Vanish, NoRow, tabVars, gateVars, Types, TabTypes, CallTypes, CallRecord,
     UploaderWaits, OwnUpload, Chain, IsUploading
<1>21. CASE UNCHANGED vars
  BY <1>21, FilesAssumption DEF vars, serverVars, tabVars, gateVars, Types, TabTypes, CallTypes,
     CallRecord, UploaderWaits, OwnUpload, Chain, IsUploading
<1> QED
  BY <1>1, <1>2, <1>3, <1>4, <1>5, <1>6, <1>7, <1>8, <1>9, <1>10, <1>11, <1>12, <1>13, <1>14, <1>15,
     <1>16, <1>17, <1>18, <1>19, <1>20, <1>21 DEF StepCases

\* Next preserves what the gate waits for.
LEMMA GateWaitsStep ==
    ASSUME Types, GateWaits, StepCases
    PROVE  GateWaits'
<1>1. CASE FollowLink
  BY <1>1, FilesAssumption, GateAnswers, GateMoves DEF FollowLink, Enter, Unmount, Page, InitialUploader,
     NoCall, GateReset, serverVars, Types, CallTypes, CallRecord, GateWaits
<1>2. CASE OpenAddress
  BY <1>2, FilesAssumption, GateAnswers, GateMoves DEF OpenAddress, Enter, Page, InitialUploader, NoCall,
     GateReset, serverVars, Types, CallTypes, CallRecord, GateWaits
<1>3. CASE FileViewPage
  BY <1>3, FilesAssumption, GateAnswers, GateMoves DEF FileViewPage, serverVars, gateVars, Types,
     CallTypes, CallRecord, GateWaits
<1>4. ASSUME NEW f \in Files, SelectFile(f) PROVE GateWaits'
  BY <1>4, FilesAssumption, GateAnswers, GateMoves DEF SelectFile, FormShown, IsUploading, serverVars,
     gateVars, Types, CallTypes, CallRecord, GateWaits
<1>5. CASE ChooseVisibility
  BY <1>5, FilesAssumption, GateAnswers, GateMoves DEF ChooseVisibility, FormShown, serverVars, gateVars,
     Types, CallTypes, CallRecord, GateWaits
<1>6. CASE HandleUpload
  BY <1>6, FilesAssumption, GateAnswers, GateMoves DEF HandleUpload, FormShown, IsUploading, Send,
     NoCall, serverVars, gateVars, Types, CallTypes, CallRecord, GateWaits
<1>7. CASE ResetForAnother
  BY <1>7, FilesAssumption, GateAnswers, GateMoves DEF ResetForAnother, FormShown, serverVars, gateVars,
     Types, CallTypes, CallRecord, GateWaits
<1>8. ASSUME NEW right \in BOOLEAN, SubmitPassword(right) PROVE GateWaits'
  BY <1>8, FilesAssumption, GateAnswers, GateMoves DEF SubmitPassword, Send, NoCall, serverVars, Types,
     CallTypes, CallRecord, GateWaits
<1>9. CASE CooldownElapsed
  BY <1>9, FilesAssumption, GateAnswers, GateMoves DEF CooldownElapsed, GateCooled, serverVars, Types,
     CallTypes, CallRecord, GateWaits
<1>10. ASSUME NEW i \in CallIds, PresignAnswered(i), UNCHANGED tabVars PROVE GateWaits'
  BY <1>10, FilesAssumption, GateAnswers, GateMoves DEF PresignAnswered, Draw, tabVars, gateVars, Types,
     CallTypes, CallRecord, GateWaits
<1>11. ASSUME NEW i \in CallIds, PutAnswered(i), UNCHANGED tabVars PROVE GateWaits'
  BY <1>11, FilesAssumption, GateAnswers, GateMoves DEF PutAnswered, Answered, tabVars, gateVars, Types,
     CallTypes, CallRecord, GateWaits
<1>12. ASSUME NEW i \in CallIds, RegisterAnswered(i), UNCHANGED tabVars PROVE GateWaits'
  BY <1>12, FilesAssumption, GateAnswers, GateMoves DEF RegisterAnswered, RowOf, Answered, tabVars,
     gateVars, Types, CallTypes, CallRecord, GateWaits
<1>13. ASSUME NEW i \in CallIds, PostAnswered(i), UNCHANGED tabVars PROVE GateWaits'
  BY <1>13, FilesAssumption, GateAnswers, GateMoves DEF PostAnswered, RowOf, Draw, tabVars, gateVars,
     Types, CallTypes, CallRecord, GateWaits
<1>14. ASSUME NEW i \in CallIds, UnlockAnswered(i), UNCHANGED tabVars PROVE GateWaits'
  BY <1>14, FilesAssumption, GateAnswers, GateMoves DEF UnlockAnswered, Answered, serverVars, tabVars,
     gateVars, Types, CallTypes, CallRecord, GateWaits
<1>15. ASSUME NEW i \in CallIds, calls[i].status = "ok", PresignLands(i), UNCHANGED <<serverVars, page, direct, gateVars>>
       PROVE  GateWaits'
  BY <1>15, FilesAssumption, GateAnswers, GateMoves DEF PresignLands, GoesOn, serverVars, gateVars,
     Types, CallTypes, CallRecord, GateWaits
<1>16. ASSUME NEW i \in CallIds, calls[i].status = "ok", PutLands(i), UNCHANGED <<serverVars, page, direct, gateVars>>
       PROVE  GateWaits'
  BY <1>16, FilesAssumption, GateAnswers, GateMoves DEF PutLands, GoesOn, serverVars, gateVars, Types,
     CallTypes, CallRecord, GateWaits
<1>17. ASSUME NEW i \in CallIds, calls[i].status = "ok", UploadLands(i), UNCHANGED <<serverVars, page, direct, gateVars>>
       PROVE  GateWaits'
  BY <1>17, FilesAssumption, GateAnswers, GateMoves DEF UploadLands, OnSuccess, Done, NoCall, serverVars,
     gateVars, Types, CallTypes, CallRecord, GateWaits
<1>18. ASSUME NEW i \in CallIds, UploadFails(i), UNCHANGED <<serverVars, page, direct, gateVars>>
       PROVE  GateWaits'
  BY <1>18, FilesAssumption, GateAnswers, GateMoves DEF UploadFails, OnError, Done, NoCall, serverVars,
     gateVars, Types, CallTypes, CallRecord, GateWaits
<1>19. ASSUME NEW i \in CallIds, NEW s \in DOMAIN EventForStatus, UnlockLands(i, s), UNCHANGED <<serverVars, page, direct>>
       PROVE  GateWaits'
  BY <1>19, FilesAssumption, GateAnswers, GateMoves DEF UnlockLands, Done, NoCall, serverVars, gateVars,
     Types, CallTypes, CallRecord, GateWaits
<1>20. ASSUME NEW s \in Slugs, Vanish(s) PROVE GateWaits'
  BY <1>20, FilesAssumption, GateAnswers, GateMoves DEF Vanish, NoRow, tabVars, gateVars, Types,
     CallTypes, CallRecord, GateWaits
<1>21. CASE UNCHANGED vars
  BY <1>21, FilesAssumption, GateAnswers, GateMoves DEF vars, serverVars, tabVars, gateVars, Types,
     CallTypes, CallRecord, GateWaits
<1> QED
  BY <1>1, <1>2, <1>3, <1>4, <1>5, <1>6, <1>7, <1>8, <1>9, <1>10, <1>11, <1>12, <1>13, <1>14, <1>15,
     <1>16, <1>17, <1>18, <1>19, <1>20, <1>21 DEF StepCases

\* Next preserves that a slug belongs to one upload.
LEMMA SlugsStep ==
    ASSUME Types, UploaderWaits, SlugsOK, UrlLeadsToTheFile, StepCases
    PROVE  SlugsOK'
<1>1. CASE FollowLink
  BY <1>1, FilesAssumption DEF FollowLink, Enter, Unmount, Page, InitialUploader, NoCall, GateReset,
     serverVars, Types, ServerTypes, TabTypes, CallTypes, CallRecord, UploaderWaits, OwnUpload, Chain,
     IsUploading, SlugsOK, HasSlug
<1>2. CASE OpenAddress
  BY <1>2, FilesAssumption DEF OpenAddress, Enter, Page, InitialUploader, NoCall, GateReset, serverVars,
     Types, ServerTypes, TabTypes, CallTypes, CallRecord, UploaderWaits, OwnUpload, Chain, IsUploading,
     SlugsOK, HasSlug
<1>3. CASE FileViewPage
  BY <1>3, FilesAssumption DEF FileViewPage, serverVars, gateVars, Types, ServerTypes, TabTypes,
     CallTypes, CallRecord, UploaderWaits, OwnUpload, Chain, IsUploading, SlugsOK, HasSlug
<1>4. ASSUME NEW f \in Files, SelectFile(f) PROVE SlugsOK'
  BY <1>4, FilesAssumption DEF SelectFile, FormShown, IsUploading, serverVars, gateVars, Types,
     ServerTypes, TabTypes, CallTypes, CallRecord, UploaderWaits, OwnUpload, Chain, SlugsOK, HasSlug
<1>5. CASE ChooseVisibility
  BY <1>5, FilesAssumption DEF ChooseVisibility, FormShown, serverVars, gateVars, Types, ServerTypes,
     TabTypes, CallTypes, CallRecord, UploaderWaits, OwnUpload, Chain, IsUploading, SlugsOK, HasSlug
<1>6. CASE HandleUpload
  BY <1>6, FilesAssumption DEF HandleUpload, FormShown, IsUploading, Send, NoCall, serverVars, gateVars,
     Types, ServerTypes, TabTypes, CallTypes, CallRecord, UploaderWaits, OwnUpload, Chain, SlugsOK,
     HasSlug
<1>7. CASE ResetForAnother
  BY <1>7, FilesAssumption DEF ResetForAnother, FormShown, serverVars, gateVars, Types, ServerTypes,
     TabTypes, CallTypes, CallRecord, UploaderWaits, OwnUpload, Chain, IsUploading, SlugsOK, HasSlug
<1>8. ASSUME NEW right \in BOOLEAN, SubmitPassword(right) PROVE SlugsOK'
  BY <1>8, FilesAssumption DEF SubmitPassword, Send, NoCall, serverVars, Types, ServerTypes, TabTypes,
     CallTypes, CallRecord, UploaderWaits, OwnUpload, Chain, IsUploading, SlugsOK, HasSlug
<1>9. CASE CooldownElapsed
  BY <1>9, FilesAssumption DEF CooldownElapsed, GateCooled, serverVars, Types, ServerTypes, TabTypes,
     CallTypes, CallRecord, UploaderWaits, OwnUpload, Chain, IsUploading, SlugsOK, HasSlug
<1>10. ASSUME NEW i \in CallIds, PresignAnswered(i), UNCHANGED tabVars PROVE SlugsOK'
  <2>1. PICK s \in Slugs : /\ s \notin drawn /\ drawn' = drawn \union {s}
                         /\ calls' = [calls EXCEPT ![i].slug = s, ![i].status = "ok"]
    BY <1>10 DEF PresignAnswered, Draw
  <2>2. uploader.status = "success" => uploader.url \in drawn
    BY DEF UrlLeadsToTheFile
  <2>3. uploader' = uploader
    BY <1>10 DEF tabVars
  <2>4. \A j \in CallIds : j # i => calls'[j] = calls[j]
    BY <2>1 DEF Types, CallTypes
  <2>5. calls'[i].slug = s
    BY <2>1 DEF Types, CallTypes, CallRecord
  <2>6. \A j \in CallIds : j # i /\ HasSlug(j)' => HasSlug(j)
    BY <2>4 DEF HasSlug
  <2>7. ASSUME NEW j \in CallIds, j # i, HasSlug(j)'
        PROVE  /\ calls'[j].slug \in drawn /\ calls'[j].slug # s
               /\ uploader.status = "success" => calls'[j].slug # uploader.url
    <3>1. HasSlug(j)
      BY <2>6, <2>7
    <3>2. calls[j].slug \in drawn /\ (uploader.status = "success" => calls[j].slug # uploader.url)
      BY <3>1 DEF SlugsOK
    <3> QED
      BY <2>1, <2>4, <2>7, <3>2
  <2>8. ASSUME NEW j \in CallIds, NEW k \in CallIds, j # i, k # i,
               HasSlug(j)', HasSlug(k)', calls'[k].slug = calls'[j].slug
        PROVE  j = k
    <3>1. HasSlug(j) /\ HasSlug(k)
      BY <2>6, <2>8
    <3> QED
      BY <2>4, <2>8, <3>1 DEF SlugsOK
  <2>9. ASSUME NEW j \in CallIds, HasSlug(j)' PROVE calls'[j].slug \in drawn'
    <3>1. CASE j = i
      BY <2>1, <2>5, <3>1
    <3>2. CASE j # i
      <4>1. drawn \subseteq drawn'
        BY <2>1
      <4> QED
        BY <2>7, <2>9, <3>2, <4>1
    <3> QED
      BY <3>1, <3>2
  <2>10. ASSUME NEW j \in CallIds, HasSlug(j)', uploader'.status = "success"
         PROVE  calls'[j].slug # uploader'.url
    BY <2>1, <2>2, <2>3, <2>5, <2>7, <2>10
  <2>11. ASSUME NEW j \in CallIds, NEW k \in CallIds, HasSlug(j)', HasSlug(k)', calls'[k].slug = calls'[j].slug
         PROVE  j = k
    BY <2>5, <2>7, <2>8, <2>11
  <2> QED
    BY <2>9, <2>10, <2>11 DEF SlugsOK
<1>11. ASSUME NEW i \in CallIds, PutAnswered(i), UNCHANGED tabVars PROVE SlugsOK'
  BY <1>11, FilesAssumption DEF PutAnswered, Answered, tabVars, gateVars, Types, ServerTypes, TabTypes,
     CallTypes, CallRecord, UploaderWaits, OwnUpload, Chain, IsUploading, SlugsOK, HasSlug
<1>12. ASSUME NEW i \in CallIds, RegisterAnswered(i), UNCHANGED tabVars PROVE SlugsOK'
  BY <1>12, FilesAssumption DEF RegisterAnswered, RowOf, Answered, tabVars, gateVars, Types, ServerTypes,
     TabTypes, CallTypes, CallRecord, UploaderWaits, OwnUpload, Chain, IsUploading, SlugsOK, HasSlug
<1>13. ASSUME NEW i \in CallIds, PostAnswered(i), UNCHANGED tabVars PROVE SlugsOK'
  <2>1. PICK s \in Slugs : /\ s \notin drawn /\ drawn' = drawn \union {s}
                         /\ calls' = [calls EXCEPT ![i].slug = s, ![i].status = "ok"]
    BY <1>13 DEF PostAnswered, Draw
  <2>2. uploader.status = "success" => uploader.url \in drawn
    BY DEF UrlLeadsToTheFile
  <2>3. uploader' = uploader
    BY <1>13 DEF tabVars
  <2>4. \A j \in CallIds : j # i => calls'[j] = calls[j]
    BY <2>1 DEF Types, CallTypes
  <2>5. calls'[i].slug = s
    BY <2>1 DEF Types, CallTypes, CallRecord
  <2>6. \A j \in CallIds : j # i /\ HasSlug(j)' => HasSlug(j)
    BY <2>4 DEF HasSlug
  <2>7. ASSUME NEW j \in CallIds, j # i, HasSlug(j)'
        PROVE  /\ calls'[j].slug \in drawn /\ calls'[j].slug # s
               /\ uploader.status = "success" => calls'[j].slug # uploader.url
    <3>1. HasSlug(j)
      BY <2>6, <2>7
    <3>2. calls[j].slug \in drawn /\ (uploader.status = "success" => calls[j].slug # uploader.url)
      BY <3>1 DEF SlugsOK
    <3> QED
      BY <2>1, <2>4, <2>7, <3>2
  <2>8. ASSUME NEW j \in CallIds, NEW k \in CallIds, j # i, k # i,
               HasSlug(j)', HasSlug(k)', calls'[k].slug = calls'[j].slug
        PROVE  j = k
    <3>1. HasSlug(j) /\ HasSlug(k)
      BY <2>6, <2>8
    <3> QED
      BY <2>4, <2>8, <3>1 DEF SlugsOK
  <2>9. ASSUME NEW j \in CallIds, HasSlug(j)' PROVE calls'[j].slug \in drawn'
    <3>1. CASE j = i
      BY <2>1, <2>5, <3>1
    <3>2. CASE j # i
      <4>1. drawn \subseteq drawn'
        BY <2>1
      <4> QED
        BY <2>7, <2>9, <3>2, <4>1
    <3> QED
      BY <3>1, <3>2
  <2>10. ASSUME NEW j \in CallIds, HasSlug(j)', uploader'.status = "success"
         PROVE  calls'[j].slug # uploader'.url
    BY <2>1, <2>2, <2>3, <2>5, <2>7, <2>10
  <2>11. ASSUME NEW j \in CallIds, NEW k \in CallIds, HasSlug(j)', HasSlug(k)', calls'[k].slug = calls'[j].slug
         PROVE  j = k
    BY <2>5, <2>7, <2>8, <2>11
  <2> QED
    BY <2>9, <2>10, <2>11 DEF SlugsOK
<1>14. ASSUME NEW i \in CallIds, UnlockAnswered(i), UNCHANGED tabVars PROVE SlugsOK'
  BY <1>14, FilesAssumption DEF UnlockAnswered, Answered, serverVars, tabVars, gateVars, Types,
     ServerTypes, TabTypes, CallTypes, CallRecord, UploaderWaits, OwnUpload, Chain, IsUploading, SlugsOK,
     HasSlug
<1>15. ASSUME NEW i \in CallIds, calls[i].status = "ok", PresignLands(i), UNCHANGED <<serverVars, page, direct, gateVars>>
       PROVE  SlugsOK'
  BY <1>15, FilesAssumption DEF PresignLands, GoesOn, serverVars, gateVars, Types, ServerTypes, TabTypes,
     CallTypes, CallRecord, UploaderWaits, OwnUpload, Chain, IsUploading, SlugsOK, HasSlug
<1>16. ASSUME NEW i \in CallIds, calls[i].status = "ok", PutLands(i), UNCHANGED <<serverVars, page, direct, gateVars>>
       PROVE  SlugsOK'
  BY <1>16, FilesAssumption DEF PutLands, GoesOn, serverVars, gateVars, Types, ServerTypes, TabTypes,
     CallTypes, CallRecord, UploaderWaits, OwnUpload, Chain, IsUploading, SlugsOK, HasSlug
<1>17. ASSUME NEW i \in CallIds, calls[i].status = "ok", UploadLands(i), UNCHANGED <<serverVars, page, direct, gateVars>>
       PROVE  SlugsOK'
  BY <1>17, FilesAssumption DEF UploadLands, OnSuccess, Done, NoCall, serverVars, gateVars, Types,
     ServerTypes, TabTypes, CallTypes, CallRecord, UploaderWaits, OwnUpload, Chain, IsUploading, SlugsOK,
     HasSlug
<1>18. ASSUME NEW i \in CallIds, UploadFails(i), UNCHANGED <<serverVars, page, direct, gateVars>>
       PROVE  SlugsOK'
  BY <1>18, FilesAssumption DEF UploadFails, OnError, Done, NoCall, serverVars, gateVars, Types,
     ServerTypes, TabTypes, CallTypes, CallRecord, UploaderWaits, OwnUpload, Chain, IsUploading, SlugsOK,
     HasSlug
<1>19. ASSUME NEW i \in CallIds, NEW s \in DOMAIN EventForStatus, UnlockLands(i, s), UNCHANGED <<serverVars, page, direct>>
       PROVE  SlugsOK'
  BY <1>19, FilesAssumption DEF UnlockLands, Done, NoCall, serverVars, gateVars, Types, ServerTypes,
     TabTypes, CallTypes, CallRecord, UploaderWaits, OwnUpload, Chain, IsUploading, SlugsOK, HasSlug
<1>20. ASSUME NEW s \in Slugs, Vanish(s) PROVE SlugsOK'
  BY <1>20, FilesAssumption DEF Vanish, NoRow, tabVars, gateVars, Types, ServerTypes, TabTypes,
     CallTypes, CallRecord, UploaderWaits, OwnUpload, Chain, IsUploading, SlugsOK, HasSlug
<1>21. CASE UNCHANGED vars
  BY <1>21, FilesAssumption DEF vars, serverVars, tabVars, gateVars, Types, ServerTypes, TabTypes,
     CallTypes, CallRecord, UploaderWaits, OwnUpload, Chain, IsUploading, SlugsOK, HasSlug
<1> QED
  BY <1>1, <1>2, <1>3, <1>4, <1>5, <1>6, <1>7, <1>8, <1>9, <1>10, <1>11, <1>12, <1>13, <1>14, <1>15,
     <1>16, <1>17, <1>18, <1>19, <1>20, <1>21 DEF StepCases

\* Next preserves what an upload under way knows.
LEMMA UploadsStep ==
    ASSUME Types, UploaderWaits, SlugsOK, UploadsOK, StepCases
    PROVE  UploadsOK'
<1>1. CASE FollowLink
  BY <1>1, FilesAssumption DEF FollowLink, Enter, Unmount, Page, InitialUploader, NoCall, GateReset,
     serverVars, Types, ServerTypes, TabTypes, CallTypes, CallRecord, UploaderWaits, OwnUpload, Chain,
     IsUploading, SlugsOK, HasSlug, UploadsOK, Registered
<1>2. CASE OpenAddress
  <2>1. \A j \in CallIds : calls'[j] = NoCall
    BY <1>2 DEF OpenAddress, Enter
  <2> QED
    BY <2>1 DEF NoCall, UploadsOK, OwnUpload, Registered, Chain
<1>3. CASE FileViewPage
  BY <1>3, FilesAssumption DEF FileViewPage, serverVars, gateVars, Types, ServerTypes, TabTypes,
     CallTypes, CallRecord, UploaderWaits, OwnUpload, Chain, IsUploading, SlugsOK, HasSlug, UploadsOK,
     Registered
<1>4. ASSUME NEW f \in Files, SelectFile(f) PROVE UploadsOK'
  BY <1>4, FilesAssumption DEF SelectFile, FormShown, IsUploading, serverVars, gateVars, Types,
     ServerTypes, TabTypes, CallTypes, CallRecord, UploaderWaits, OwnUpload, Chain, SlugsOK, HasSlug,
     UploadsOK, Registered
<1>5. CASE ChooseVisibility
  BY <1>5, FilesAssumption DEF ChooseVisibility, FormShown, serverVars, gateVars, Types, ServerTypes,
     TabTypes, CallTypes, CallRecord, UploaderWaits, OwnUpload, Chain, IsUploading, SlugsOK, HasSlug,
     UploadsOK, Registered
<1>6. CASE HandleUpload
  BY <1>6, FilesAssumption DEF HandleUpload, FormShown, IsUploading, Send, NoCall, serverVars, gateVars,
     Types, ServerTypes, TabTypes, CallTypes, CallRecord, UploaderWaits, OwnUpload, Chain, SlugsOK,
     HasSlug, UploadsOK, Registered
<1>7. CASE ResetForAnother
  BY <1>7, FilesAssumption DEF ResetForAnother, FormShown, serverVars, gateVars, Types, ServerTypes,
     TabTypes, CallTypes, CallRecord, UploaderWaits, OwnUpload, Chain, IsUploading, SlugsOK, HasSlug,
     UploadsOK, Registered
<1>8. ASSUME NEW right \in BOOLEAN, SubmitPassword(right) PROVE UploadsOK'
  BY <1>8, FilesAssumption DEF SubmitPassword, Send, NoCall, serverVars, Types, ServerTypes, TabTypes,
     CallTypes, CallRecord, UploaderWaits, OwnUpload, Chain, IsUploading, SlugsOK, HasSlug, UploadsOK,
     Registered
<1>9. CASE CooldownElapsed
  BY <1>9, FilesAssumption DEF CooldownElapsed, GateCooled, serverVars, Types, ServerTypes, TabTypes,
     CallTypes, CallRecord, UploaderWaits, OwnUpload, Chain, IsUploading, SlugsOK, HasSlug, UploadsOK,
     Registered
<1>10. ASSUME NEW i \in CallIds, PresignAnswered(i), UNCHANGED tabVars PROVE UploadsOK'
  BY <1>10, FilesAssumption DEF PresignAnswered, Draw, tabVars, gateVars, Types, ServerTypes, TabTypes,
     CallTypes, CallRecord, UploaderWaits, OwnUpload, Chain, IsUploading, SlugsOK, HasSlug, UploadsOK,
     Registered
<1>11. ASSUME NEW i \in CallIds, PutAnswered(i), UNCHANGED tabVars PROVE UploadsOK'
  BY <1>11, FilesAssumption DEF PutAnswered, Answered, tabVars, gateVars, Types, ServerTypes, TabTypes,
     CallTypes, CallRecord, UploaderWaits, OwnUpload, Chain, IsUploading, SlugsOK, HasSlug, UploadsOK,
     Registered
<1>12. ASSUME NEW i \in CallIds, RegisterAnswered(i), UNCHANGED tabVars PROVE UploadsOK'
  BY <1>12, FilesAssumption DEF RegisterAnswered, RowOf, Answered, tabVars, gateVars, Types, ServerTypes,
     TabTypes, CallTypes, CallRecord, UploaderWaits, OwnUpload, Chain, IsUploading, SlugsOK, HasSlug,
     UploadsOK, Registered
<1>13. ASSUME NEW i \in CallIds, PostAnswered(i), UNCHANGED tabVars PROVE UploadsOK'
  BY <1>13, FilesAssumption DEF PostAnswered, RowOf, Draw, tabVars, gateVars, Types, ServerTypes,
     TabTypes, CallTypes, CallRecord, UploaderWaits, OwnUpload, Chain, IsUploading, SlugsOK, HasSlug,
     UploadsOK, Registered
<1>14. ASSUME NEW i \in CallIds, UnlockAnswered(i), UNCHANGED tabVars PROVE UploadsOK'
  BY <1>14, FilesAssumption DEF UnlockAnswered, Answered, serverVars, tabVars, gateVars, Types,
     ServerTypes, TabTypes, CallTypes, CallRecord, UploaderWaits, OwnUpload, Chain, IsUploading, SlugsOK,
     HasSlug, UploadsOK, Registered
<1>15. ASSUME NEW i \in CallIds, calls[i].status = "ok", PresignLands(i), UNCHANGED <<serverVars, page, direct, gateVars>>
       PROVE  UploadsOK'
  BY <1>15, FilesAssumption DEF PresignLands, GoesOn, serverVars, gateVars, Types, ServerTypes, TabTypes,
     CallTypes, CallRecord, UploaderWaits, OwnUpload, Chain, IsUploading, SlugsOK, HasSlug, UploadsOK,
     Registered
<1>16. ASSUME NEW i \in CallIds, calls[i].status = "ok", PutLands(i), UNCHANGED <<serverVars, page, direct, gateVars>>
       PROVE  UploadsOK'
  BY <1>16, FilesAssumption DEF PutLands, GoesOn, serverVars, gateVars, Types, ServerTypes, TabTypes,
     CallTypes, CallRecord, UploaderWaits, OwnUpload, Chain, IsUploading, SlugsOK, HasSlug, UploadsOK,
     Registered
<1>17. ASSUME NEW i \in CallIds, calls[i].status = "ok", UploadLands(i), UNCHANGED <<serverVars, page, direct, gateVars>>
       PROVE  UploadsOK'
  BY <1>17, FilesAssumption DEF UploadLands, OnSuccess, Done, NoCall, serverVars, gateVars, Types,
     ServerTypes, TabTypes, CallTypes, CallRecord, UploaderWaits, OwnUpload, Chain, IsUploading, SlugsOK,
     HasSlug, UploadsOK, Registered
<1>18. ASSUME NEW i \in CallIds, UploadFails(i), UNCHANGED <<serverVars, page, direct, gateVars>>
       PROVE  UploadsOK'
  BY <1>18, FilesAssumption DEF UploadFails, OnError, Done, NoCall, serverVars, gateVars, Types,
     ServerTypes, TabTypes, CallTypes, CallRecord, UploaderWaits, OwnUpload, Chain, IsUploading, SlugsOK,
     HasSlug, UploadsOK, Registered
<1>19. ASSUME NEW i \in CallIds, NEW s \in DOMAIN EventForStatus, UnlockLands(i, s), UNCHANGED <<serverVars, page, direct>>
       PROVE  UploadsOK'
  BY <1>19, FilesAssumption DEF UnlockLands, Done, NoCall, serverVars, gateVars, Types, ServerTypes,
     TabTypes, CallTypes, CallRecord, UploaderWaits, OwnUpload, Chain, IsUploading, SlugsOK, HasSlug,
     UploadsOK, Registered
<1>20. ASSUME NEW s \in Slugs, Vanish(s) PROVE UploadsOK'
  BY <1>20, FilesAssumption DEF Vanish, NoRow, tabVars, gateVars, Types, ServerTypes, TabTypes,
     CallTypes, CallRecord, UploaderWaits, OwnUpload, Chain, IsUploading, SlugsOK, HasSlug, UploadsOK,
     Registered
<1>21. CASE UNCHANGED vars
  BY <1>21, FilesAssumption DEF vars, serverVars, tabVars, gateVars, Types, ServerTypes, TabTypes,
     CallTypes, CallRecord, UploaderWaits, OwnUpload, Chain, IsUploading, SlugsOK, HasSlug, UploadsOK,
     Registered
<1> QED
  BY <1>1, <1>2, <1>3, <1>4, <1>5, <1>6, <1>7, <1>8, <1>9, <1>10, <1>11, <1>12, <1>13, <1>14, <1>15,
     <1>16, <1>17, <1>18, <1>19, <1>20, <1>21 DEF StepCases

\* Next preserves what the URL on screen leads to.
LEMMA UrlStep ==
    ASSUME Types, UploaderWaits, SlugsOK, UploadsOK, UrlLeadsToTheFile, StepCases
    PROVE  UrlLeadsToTheFile'
<1>1. CASE FollowLink
  BY <1>1, FilesAssumption DEF FollowLink, Enter, Unmount, Page, InitialUploader, NoCall, GateReset,
     serverVars, Types, ServerTypes, TabTypes, CallTypes, CallRecord, UploaderWaits, OwnUpload, Chain,
     IsUploading, SlugsOK, HasSlug, UploadsOK, Registered, UrlLeadsToTheFile
<1>2. CASE OpenAddress
  BY <1>2, FilesAssumption DEF OpenAddress, Enter, Page, InitialUploader, NoCall, GateReset, serverVars,
     Types, ServerTypes, TabTypes, CallTypes, CallRecord, UploaderWaits, OwnUpload, Chain, IsUploading,
     SlugsOK, HasSlug, UploadsOK, Registered, UrlLeadsToTheFile
<1>3. CASE FileViewPage
  BY <1>3, FilesAssumption DEF FileViewPage, serverVars, gateVars, Types, ServerTypes, TabTypes,
     CallTypes, CallRecord, UploaderWaits, OwnUpload, Chain, IsUploading, SlugsOK, HasSlug, UploadsOK,
     Registered, UrlLeadsToTheFile
<1>4. ASSUME NEW f \in Files, SelectFile(f) PROVE UrlLeadsToTheFile'
  BY <1>4, FilesAssumption DEF SelectFile, FormShown, IsUploading, serverVars, gateVars, Types,
     ServerTypes, TabTypes, CallTypes, CallRecord, UploaderWaits, OwnUpload, Chain, SlugsOK, HasSlug,
     UploadsOK, Registered, UrlLeadsToTheFile
<1>5. CASE ChooseVisibility
  BY <1>5, FilesAssumption DEF ChooseVisibility, FormShown, serverVars, gateVars, Types, ServerTypes,
     TabTypes, CallTypes, CallRecord, UploaderWaits, OwnUpload, Chain, IsUploading, SlugsOK, HasSlug,
     UploadsOK, Registered, UrlLeadsToTheFile
<1>6. CASE HandleUpload
  BY <1>6, FilesAssumption DEF HandleUpload, FormShown, IsUploading, Send, NoCall, serverVars, gateVars,
     Types, ServerTypes, TabTypes, CallTypes, CallRecord, UploaderWaits, OwnUpload, Chain, SlugsOK,
     HasSlug, UploadsOK, Registered, UrlLeadsToTheFile
<1>7. CASE ResetForAnother
  BY <1>7, FilesAssumption DEF ResetForAnother, FormShown, serverVars, gateVars, Types, ServerTypes,
     TabTypes, CallTypes, CallRecord, UploaderWaits, OwnUpload, Chain, IsUploading, SlugsOK, HasSlug,
     UploadsOK, Registered, UrlLeadsToTheFile
<1>8. ASSUME NEW right \in BOOLEAN, SubmitPassword(right) PROVE UrlLeadsToTheFile'
  BY <1>8, FilesAssumption DEF SubmitPassword, Send, NoCall, serverVars, Types, ServerTypes, TabTypes,
     CallTypes, CallRecord, UploaderWaits, OwnUpload, Chain, IsUploading, SlugsOK, HasSlug, UploadsOK,
     Registered, UrlLeadsToTheFile
<1>9. CASE CooldownElapsed
  BY <1>9, FilesAssumption DEF CooldownElapsed, GateCooled, serverVars, Types, ServerTypes, TabTypes,
     CallTypes, CallRecord, UploaderWaits, OwnUpload, Chain, IsUploading, SlugsOK, HasSlug, UploadsOK,
     Registered, UrlLeadsToTheFile
<1>10. ASSUME NEW i \in CallIds, PresignAnswered(i), UNCHANGED tabVars PROVE UrlLeadsToTheFile'
  BY <1>10, FilesAssumption DEF PresignAnswered, Draw, tabVars, gateVars, Types, ServerTypes, TabTypes,
     CallTypes, CallRecord, UploaderWaits, OwnUpload, Chain, IsUploading, SlugsOK, HasSlug, UploadsOK,
     Registered, UrlLeadsToTheFile
<1>11. ASSUME NEW i \in CallIds, PutAnswered(i), UNCHANGED tabVars PROVE UrlLeadsToTheFile'
  BY <1>11, FilesAssumption DEF PutAnswered, Answered, tabVars, gateVars, Types, ServerTypes, TabTypes,
     CallTypes, CallRecord, UploaderWaits, OwnUpload, Chain, IsUploading, SlugsOK, HasSlug, UploadsOK,
     Registered, UrlLeadsToTheFile
<1>12. ASSUME NEW i \in CallIds, RegisterAnswered(i), UNCHANGED tabVars PROVE UrlLeadsToTheFile'
  BY <1>12, FilesAssumption DEF RegisterAnswered, RowOf, Answered, tabVars, gateVars, Types, ServerTypes,
     TabTypes, CallTypes, CallRecord, UploaderWaits, OwnUpload, Chain, IsUploading, SlugsOK, HasSlug,
     UploadsOK, Registered, UrlLeadsToTheFile
<1>13. ASSUME NEW i \in CallIds, PostAnswered(i), UNCHANGED tabVars PROVE UrlLeadsToTheFile'
  BY <1>13, FilesAssumption DEF PostAnswered, RowOf, Draw, tabVars, gateVars, Types, ServerTypes,
     TabTypes, CallTypes, CallRecord, UploaderWaits, OwnUpload, Chain, IsUploading, SlugsOK, HasSlug,
     UploadsOK, Registered, UrlLeadsToTheFile
<1>14. ASSUME NEW i \in CallIds, UnlockAnswered(i), UNCHANGED tabVars PROVE UrlLeadsToTheFile'
  BY <1>14, FilesAssumption DEF UnlockAnswered, Answered, serverVars, tabVars, gateVars, Types,
     ServerTypes, TabTypes, CallTypes, CallRecord, UploaderWaits, OwnUpload, Chain, IsUploading, SlugsOK,
     HasSlug, UploadsOK, Registered, UrlLeadsToTheFile
<1>15. ASSUME NEW i \in CallIds, calls[i].status = "ok", PresignLands(i), UNCHANGED <<serverVars, page, direct, gateVars>>
       PROVE  UrlLeadsToTheFile'
  BY <1>15, FilesAssumption DEF PresignLands, GoesOn, serverVars, gateVars, Types, ServerTypes, TabTypes,
     CallTypes, CallRecord, UploaderWaits, OwnUpload, Chain, IsUploading, SlugsOK, HasSlug, UploadsOK,
     Registered, UrlLeadsToTheFile
<1>16. ASSUME NEW i \in CallIds, calls[i].status = "ok", PutLands(i), UNCHANGED <<serverVars, page, direct, gateVars>>
       PROVE  UrlLeadsToTheFile'
  BY <1>16, FilesAssumption DEF PutLands, GoesOn, serverVars, gateVars, Types, ServerTypes, TabTypes,
     CallTypes, CallRecord, UploaderWaits, OwnUpload, Chain, IsUploading, SlugsOK, HasSlug, UploadsOK,
     Registered, UrlLeadsToTheFile
<1>17. ASSUME NEW i \in CallIds, calls[i].status = "ok", UploadLands(i), UNCHANGED <<serverVars, page, direct, gateVars>>
       PROVE  UrlLeadsToTheFile'
  <2>1. CASE calls[i].own
    <3>1. uploader'.status = "success" /\ uploader'.url = calls[i].slug
          /\ uploader'.file = uploader.file /\ uploader'.asked = uploader.asked
      BY <1>17, <2>1 DEF UploadLands, OnSuccess, Types, TabTypes
    <3>2. calls[i].file = uploader.file /\ calls[i].guarded = uploader.asked /\ Registered(i) /\ HasSlug(i)
      BY <1>17, <2>1 DEF UploadLands, UploadsOK, OwnUpload, Chain, Registered, HasSlug
    <3>3. rows' = rows /\ objects' = objects /\ drawn' = drawn
      BY <1>17 DEF serverVars
    <3>4. calls[i].slug \in drawn
      BY <3>2 DEF SlugsOK
    <3>5. /\ rows[calls[i].slug] \in {NoRow, [file |-> uploader.file, guarded |-> uploader.asked]}
          /\ objects[calls[i].slug] = rows[calls[i].slug].file
      BY <3>2 DEF UploadsOK
    <3> QED
      BY <3>1, <3>3, <3>4, <3>5 DEF UrlLeadsToTheFile
  <2>2. CASE ~calls[i].own
    BY <1>17, <2>2 DEF UploadLands, OnSuccess, serverVars, UrlLeadsToTheFile
  <2> QED
    BY <2>1, <2>2
<1>18. ASSUME NEW i \in CallIds, UploadFails(i), UNCHANGED <<serverVars, page, direct, gateVars>>
       PROVE  UrlLeadsToTheFile'
  BY <1>18, FilesAssumption DEF UploadFails, OnError, Done, NoCall, serverVars, gateVars, Types,
     ServerTypes, TabTypes, CallTypes, CallRecord, UploaderWaits, OwnUpload, Chain, IsUploading, SlugsOK,
     HasSlug, UploadsOK, Registered, UrlLeadsToTheFile
<1>19. ASSUME NEW i \in CallIds, NEW s \in DOMAIN EventForStatus, UnlockLands(i, s), UNCHANGED <<serverVars, page, direct>>
       PROVE  UrlLeadsToTheFile'
  BY <1>19, FilesAssumption DEF UnlockLands, Done, NoCall, serverVars, gateVars, Types, ServerTypes,
     TabTypes, CallTypes, CallRecord, UploaderWaits, OwnUpload, Chain, IsUploading, SlugsOK, HasSlug,
     UploadsOK, Registered, UrlLeadsToTheFile
<1>20. ASSUME NEW s \in Slugs, Vanish(s) PROVE UrlLeadsToTheFile'
  BY <1>20, FilesAssumption DEF Vanish, NoRow, tabVars, gateVars, Types, ServerTypes, TabTypes,
     CallTypes, CallRecord, UploaderWaits, OwnUpload, Chain, IsUploading, SlugsOK, HasSlug, UploadsOK,
     Registered, UrlLeadsToTheFile
<1>21. CASE UNCHANGED vars
  BY <1>21, FilesAssumption DEF vars, serverVars, tabVars, gateVars, Types, ServerTypes, TabTypes,
     CallTypes, CallRecord, UploaderWaits, OwnUpload, Chain, IsUploading, SlugsOK, HasSlug, UploadsOK,
     Registered, UrlLeadsToTheFile
<1> QED
  BY <1>1, <1>2, <1>3, <1>4, <1>5, <1>6, <1>7, <1>8, <1>9, <1>10, <1>11, <1>12, <1>13, <1>14, <1>15,
     <1>16, <1>17, <1>18, <1>19, <1>20, <1>21 DEF StepCases

\* The inductive invariant of the file pages: the server's files, the upload and
\* the gate, and the slugs of the uploads under way.
THEOREM Invariance == Spec => []IInv
<1>1. IInv <=> /\ Types /\ events \in 0..MaxEvents
               /\ UploaderWaits /\ GateWaits /\ UrlLeadsToTheFile /\ SlugsOK /\ UploadsOK
  BY DEF IInv, TypeOK, Types, ServerTypes, TabTypes, CallTypes, OneUploadAtATime, UploaderWaits, GateWaits
<1>2. Init => IInv
  <2> SUFFICES ASSUME Init PROVE IInv
    OBVIOUS
  <2>1. Types /\ events \in 0..MaxEvents
    <3>1. ServerTypes /\ TabTypes /\ GateTypeOK
      BY DEF Init, ServerTypes, TabTypes, Page, InitialUploader, GateInit, GateTypeOK, GateStatuses
    <3>2. NoCall \in CallRecord
      BY DEF NoCall, CallRecord
    <3>3. CallTypes /\ events \in 0..MaxEvents
      BY <3>2, FilesAssumption DEF Init, CallTypes
    <3> QED
      BY <3>1, <3>3 DEF Types
  <2>2. \A i \in CallIds : calls[i] = NoCall
    BY DEF Init
  <2>3. UploaderWaits /\ GateWaits /\ UrlLeadsToTheFile /\ SlugsOK /\ UploadsOK
    BY <2>2 DEF Init, NoCall, InitialUploader, GateInit, UploaderWaits, IsUploading, OwnUpload, Chain, GateWaits,
       UrlLeadsToTheFile, SlugsOK, HasSlug, UploadsOK, Registered
  <2> QED
    BY <1>1, <2>1, <2>3
<1>3. IInv /\ [Next]_vars => IInv'
  <2> SUFFICES ASSUME IInv, [Next]_vars PROVE IInv'
    OBVIOUS
  <2>1. StepCases
    BY <1>1, Steps
  <2>2. Types'
    BY <1>1, <2>1, ServerTypesStep, TabTypesStep, GateTypesStep, CallTypesStep DEF Types
  <2>3. events' \in 0..MaxEvents
    BY <1>1, FilesAssumption DEF Next, vars
  <2>4. UploaderWaits' /\ GateWaits'
    BY <1>1, <2>1, UploaderWaitsStep, GateWaitsStep
  <2>5. UrlLeadsToTheFile' /\ SlugsOK' /\ UploadsOK'
    BY <1>1, <2>1, UrlStep, SlugsStep, UploadsStep
  <2>6. IInv' <=> /\ Types' /\ (events \in 0..MaxEvents)'
                  /\ UploaderWaits' /\ GateWaits' /\ UrlLeadsToTheFile' /\ SlugsOK' /\ UploadsOK'
    BY DEF IInv, TypeOK, Types, ServerTypes, TabTypes, CallTypes, OneUploadAtATime, UploaderWaits, GateWaits
  <2> QED
    BY <2>2, <2>3, <2>4, <2>5, <2>6
<1> QED
  BY <1>2, <1>3, PTL DEF Spec

\* The form is off for exactly as long as a request of its own chain is under
\* way, whatever fails (FileUploader), and the gate never waits for nothing.
THEOREM UploadsTakeTurns == Spec => []OneUploadAtATime
<1>1. IInv => OneUploadAtATime
  BY DEF IInv
<1> QED
  BY <1>1, Invariance, PTL

\* The URL on screen leads to the selected file, with the visibility chosen when
\* the upload was started, however many uploads other pages left behind.
THEOREM UrlIsTrue == Spec => []UrlLeadsToTheFile
<1>1. IInv => UrlLeadsToTheFile
  BY DEF IInv
<1> QED
  BY <1>1, Invariance, PTL
=============================================================================
