-------------------------- MODULE AdminConsole_proofs -------------------------
(***************************************************************************)
(* Proofs about AdminConsole, for every set of pastes, files, reports,     *)
(* queries and calls, every page size and every number of events.  The     *)
(* steps that leave the dashboard alone are one case (Aside), so are the   *)
(* answers of the server to calls (Answers) and the ends of a session      *)
(* (EndSession).                                                           *)
(***************************************************************************)
EXTENDS AdminConsole, TLAPS, FiniteSetTheorems

USE DEF sessionVars, serverVars, dashboardVars, listVars, reportVars, statsVars, busyVars

-----------------------------------------------------------------------------
(* Requests, answers and calls *)

\* What the server says to a token is one of the statuses.
LEMMA VerdictIsAStatus == \A t : Verdict(t) \in {"ok", "401", "404"}
  BY DEF Verdict

\* A part of the content of the server is finite, and so is a part of that.
LEMMA ContentIsFinite ==
    ASSUME NEW k \in Kinds, NEW S \in SUBSET Content(k)
    PROVE  IsFiniteSet(S) /\ Cardinality(S) \in Nat /\ S \subseteq Slugs
<1>1. IsFiniteSet(Content(k)) /\ Content(k) \subseteq Slugs
  BY ConsoleAssumption DEF Content, Slugs
<1> QED
  BY <1>1, FS_Subset, FS_CardinalityType

\* What the server answers to the statistics.
LEMMA StatsAreStats ==
    ASSUME NEW f \in StatsRecord
    PROVE  GetAdminStats(f) \in StatsRecord
<1> DEFINE c == [k \in Kinds |-> Count(k)]
<1>1. \A k \in Kinds : Count(k) \in Nat
  BY ContentIsFinite DEF Count
<1>2. c \in [Kinds -> Nat]
  BY <1>1
<1> HIDE DEF c
<1>3. [f EXCEPT !.status = "ok", !.counts = c] \in StatsRecord
  BY <1>2 DEF StatsRecord, Statuses
<1>4. [f EXCEPT !.status = Verdict(f.token)] \in StatsRecord
  BY VerdictIsAStatus DEF StatsRecord, Statuses
<1> QED
  BY <1>3, <1>4 DEF GetAdminStats, Answer, c

\* What the server answers to a list, which stays the list that was asked for.
LEMMA ListsAreLists ==
    ASSUME NEW k \in Kinds, NEW f \in ListRecord
    PROVE  /\ GetAdminList(k, f) \in ListRecord
           /\ GetAdminList(k, f).page = f.page
           /\ GetAdminList(k, f).query = f.query
<1> DEFINE found == Content(k) \intersect there \intersect Hits[f.query]
           items == PageOf(found, f.page)
           n == Cardinality(found)
<1>1. found \in SUBSET Content(k)
  OBVIOUS
<1>2. n \in Nat /\ found \subseteq Slugs
  BY <1>1, ContentIsFinite
<1>3. items \in SUBSET Slugs
  BY <1>2 DEF PageOf
<1> HIDE DEF items, n
<1>4. /\ [f EXCEPT !.status = "ok", !.items = items, !.total = n] \in ListRecord
      /\ [f EXCEPT !.status = "ok", !.items = items, !.total = n].page = f.page
      /\ [f EXCEPT !.status = "ok", !.items = items, !.total = n].query = f.query
  BY <1>2, <1>3 DEF ListRecord, Statuses
<1>5. /\ [f EXCEPT !.status = Verdict(f.token)] \in ListRecord
      /\ [f EXCEPT !.status = Verdict(f.token)].page = f.page
      /\ [f EXCEPT !.status = Verdict(f.token)].query = f.query
  BY VerdictIsAStatus DEF ListRecord, Statuses
<1>6. \/ GetAdminList(k, f) = [f EXCEPT !.status = "ok", !.items = items, !.total = n]
      \/ GetAdminList(k, f) = [f EXCEPT !.status = Verdict(f.token)]
  BY DEF GetAdminList, Answer, items, n
<1> QED
  BY <1>4, <1>5, <1>6

\* What the server answers to the reports.
LEMMA ReportsAreReports ==
    ASSUME ServerTypeOK, NEW f \in ReportsRecord
    PROVE  GetAdminReports(f) \in ReportsRecord
<1>1. [f EXCEPT !.status = "ok", !.reports = filed] \in ReportsRecord
  BY DEF ReportsRecord, ServerTypeOK, Statuses
<1>2. [f EXCEPT !.status = Verdict(f.token)] \in ReportsRecord
  BY VerdictIsAStatus DEF ReportsRecord, Statuses
<1> QED
  BY <1>1, <1>2 DEF GetAdminReports, Answer

\* What an effect sends asks for what it was given.
LEMMA RequestFacts ==
    ASSUME NEW t \in Tokens \union {None}, NEW p \in Nat, NEW q \in Queries
    PROVE  /\ StatsRequest(t) \in StatsRecord
           /\ ListRequest(t, p, q) \in ListRecord
           /\ ListRequest(t, p, q).page = p /\ ListRequest(t, p, q).query = q
           /\ ReportsRequest(t) \in ReportsRecord
  BY DEF StatsRequest, StatsRecord, NoStats, ListRequest, ListRecord, ReportsRequest, ReportsRecord

ReportOps == {"content", "drop"} \union Marks

\* A changed call is a call, and keeps what the change does not name.
LEMMA CallFacts ==
    /\ NoCall \in CallRecord /\ ~NoCall.own
    /\ \A c \in CallRecord, s \in Statuses :
           /\ [c EXCEPT !.status = s] \in CallRecord
           /\ [c EXCEPT !.status = s].own = c.own /\ [c EXCEPT !.status = s].op = c.op
           /\ [c EXCEPT !.status = s].slug = c.slug /\ [c EXCEPT !.status = s].report = c.report
    /\ \A c \in CallRecord :
           [c EXCEPT !.own = FALSE] \in CallRecord /\ ~[c EXCEPT !.own = FALSE].own
    /\ \A c \in CallRecord :
           /\ [c EXCEPT !.op = "dropAfter", !.status = "sent"] \in CallRecord
           /\ [c EXCEPT !.op = "dropAfter", !.status = "sent"].own = c.own
           /\ [c EXCEPT !.op = "dropAfter", !.status = "sent"].op = "dropAfter"
           /\ [c EXCEPT !.op = "dropAfter", !.status = "sent"].report = c.report
  BY DEF CallRecord, NoCall, Statuses

\* A call that is made is a call of the dashboard on screen.
LEMMA MadeCalls ==
    ASSUME SessionTypeOK, NEW op \in {"delete", "purge"} \union ReportOps,
           NEW s \in Slugs \union {None}, NEW r \in Reports \union {None}
    PROVE  /\ Call(op, s, r) \in CallRecord
           /\ Call(op, s, r).own /\ Call(op, s, r).op = op
           /\ Call(op, s, r).slug = s /\ Call(op, s, r).report = r
  BY DEF Call, CallRecord, SessionTypeOK, ReportOps

\* Sending a call takes a free number and no other call's.
LEMMA Sent ==
    ASSUME CallTypeOK, NEW c \in CallRecord, Send(c)
    PROVE  /\ CallTypeOK'
           /\ \E i \in CallIds : calls'[i] = c
           /\ \A j \in CallIds : calls[j].own => calls'[j] = calls[j]
<1>1. PICK i \in CallIds : calls[i] = NoCall /\ calls' = [calls EXCEPT ![i] = c]
  BY DEF Send
<1>2. ~calls[i].own
  BY <1>1, CallFacts
<1> QED
  BY <1>1, <1>2 DEF CallTypeOK

-----------------------------------------------------------------------------
(* The steps *)

\* The statuses that leave the session as it is.
Kept == {"ok", "failed"}

\* The steps that leave the dashboard and its calls alone.
Aside ==
    /\ SessionTypeOK' /\ ServerTypeOK'
    /\ UNCHANGED <<dashboardVars, calls>>

\* The calls a session leaves when it ends.
Remainders == {calls} \union {[calls EXCEPT ![i] = NoCall] : i \in CallIds}

EndSession(remaining) ==
    Logout(remaining) /\ UNCHANGED <<serverToken, past, gate, typed, serverVars>>

\* The server answers a call, which stays the call it was.
Answers(i) ==
    /\ \E s \in Statuses : Ends(i, s)
    /\ ServerTypeOK'
    /\ UNCHANGED <<sessionVars, dashboardVars>>

\* The steps of the page, one by one.
StepCases ==
    \/ \E remaining \in Remainders : EndSession(remaining)
    \/ Login \/ Aside \/ ClickReload \/ HandlePurge
    \/ \E t \in Tabs : SelectTab(t)
    \/ \E k \in Kinds :
           \/ Debounce(k)
           \/ \E q \in Queries : TypeSearch(k, q)
           \/ \E p \in Nat : TurnPage(k, p)
           \/ \E s \in Slugs : HandleDelete(k, s)
           \/ \E f \in listFetch[k] :
                  ListAnswered(k, f) \/ \E s \in Kept : ListLands(k, f, s)
    \/ \E r \in Reports, op \in ReportOps, s \in Slugs \union {None} :
           HandleReport(r, Call(op, s, r))
    \/ \E f \in statsFetch : StatsAnswered(f) \/ \E s \in Kept : StatsLand(f, s)
    \/ \E f \in reportsFetch : ReportsAnswered(f) \/ \E s \in Kept : ReportsLand(f, s)
    \/ \E i \in CallIds : Answers(i)
    \/ \E i \in CallIds, s \in Statuses :
           \/ DeleteLands(i, s) \/ ContentLands(i, s) \/ ContentFails(i, s)
           \/ ReportCallLands(i, s) \/ PurgeLands(i, s) \/ LandsNowhere(i, s)

\* The steps of the gate, restarts and removals by others leave the dashboard alone.
LEMMA AsideSteps ==
    ASSUME TypeOK, AtTheGate \/ Restart \/ \E s \in Slugs : Vanish(s)
    PROVE  Aside
<1>1. CASE AtTheGate
  BY <1>1, VerdictIsAStatus
     DEF AtTheGate, GateStep, SubmitToken, GateAnswered, TokenRefused, Aside, TypeOK, SessionTypeOK,
         ServerTypeOK, Statuses
<1>2. CASE Restart
  BY <1>2 DEF Restart, RestartServer, Aside, TypeOK, SessionTypeOK, ServerTypeOK
<1>3. ASSUME NEW s \in Slugs, Vanish(s) PROVE Aside
  BY <1>3 DEF Vanish, Aside, TypeOK, SessionTypeOK, ServerTypeOK
<1> QED
  BY <1>1, <1>2, <1>3

\* Whatever the server does with a call, it ends with a status.
LEMMA AnswerSteps ==
    ASSUME TypeOK, NEW i \in CallIds, CallAnswered(i)
    PROVE  Answers(i)
<1>1. CASE DeleteContentCarriedOut(i)
  BY <1>1 DEF CallAnswered, DeleteContentCarriedOut, Answers, TypeOK, ServerTypeOK, Statuses
<1>2. CASE ReportCallCarriedOut(i)
  BY <1>2 DEF CallAnswered, ReportCallCarriedOut, Answers, TypeOK, ServerTypeOK, Statuses
<1>3. CASE PurgeCarriedOut(i)
  BY <1>3 DEF CallAnswered, PurgeCarriedOut, Answers, TypeOK, ServerTypeOK, Statuses
<1>4. CASE Ends(i, Verdict(calls[i].token)) /\ UNCHANGED serverVars
  BY <1>4, VerdictIsAStatus DEF CallAnswered, Answers, TypeOK, ServerTypeOK, Statuses
<1> QED
  BY <1>1, <1>2, <1>3, <1>4 DEF CallAnswered

\* An answer that comes back is one of the statuses.
LEMMA ArrivalsAreStatuses ==
    /\ \A f \in StatsRecord : Arrivals(f) \subseteq Statuses
    /\ \A f \in ListRecord : Arrivals(f) \subseteq Statuses
    /\ \A f \in ReportsRecord : Arrivals(f) \subseteq Statuses
    /\ \A c \in CallRecord : Arrivals(c) \subseteq Statuses
  BY DEF Arrivals, StatsRecord, ListRecord, ReportsRecord, CallRecord, Statuses

\* What an effect brings ends the session or leaves it as it is.
LEMMA EffectSteps ==
    ASSUME TypeOK, StatsEffect \/ PastesEffect \/ FilesEffect \/ ReportsEffect
    PROVE  StepCases
<1>1. calls \in Remainders
  BY DEF Remainders
<1>2. ASSUME NEW s, RefusalLands(s) PROVE StepCases
  BY <1>1, <1>2 DEF RefusalLands, EndSession, StepCases
<1>3. CASE StatsEffect
  <2>1. PICK f \in statsFetch : StatsAnswered(f) \/ \E s \in Arrivals(f) : StatsLand(f, s)
    BY <1>3 DEF StatsEffect
  <2>2. ASSUME NEW s, StatsLand(f, s) PROVE RefusalLands(s) \/ s \in Kept
    BY <2>2 DEF StatsLand, Kept
  <2> QED
    BY <1>2, <2>1, <2>2 DEF StepCases
<1>4. ASSUME NEW k \in Kinds, ListEffect(k) PROVE StepCases
  <2>1. PICK f \in listFetch[k] : ListAnswered(k, f) \/ \E s \in Arrivals(f) : ListLands(k, f, s)
    BY <1>4 DEF ListEffect
  <2>2. ASSUME NEW s, ListLands(k, f, s) PROVE RefusalLands(s) \/ s \in Kept
    BY <2>2 DEF ListLands, Kept
  <2> QED
    BY <1>2, <2>1, <2>2 DEF StepCases
<1>5. CASE ReportsEffect
  <2>1. PICK f \in reportsFetch : ReportsAnswered(f) \/ \E s \in Arrivals(f) : ReportsLand(f, s)
    BY <1>5 DEF ReportsEffect
  <2>2. ASSUME NEW s, ReportsLand(f, s) PROVE RefusalLands(s) \/ s \in Kept
    BY <2>2 DEF ReportsLand, Kept
  <2> QED
    BY <1>2, <2>1, <2>2 DEF StepCases
<1> QED
  BY <1>3, <1>4, <1>5 DEF PastesEffect, FilesEffect, Kinds

\* What a call brings.
LEMMA LandingSteps ==
    ASSUME TypeOK, NEW i \in CallIds, CallLands(i)
    PROVE  StepCases
<1>1. PICK s \in Arrivals(calls[i]) :
          \/ DeleteLands(i, s) \/ ContentLands(i, s) \/ ContentFails(i, s)
          \/ ReportCallLands(i, s) \/ PurgeLands(i, s) \/ PurgeRefused(i, s)
          \/ LandsNowhere(i, s)
  BY DEF CallLands
<1>2. s \in Statuses
  BY ArrivalsAreStatuses DEF TypeOK, CallTypeOK
<1>3. CASE PurgeRefused(i, s)
  <2>1. [calls EXCEPT ![i] = NoCall] \in Remainders
    BY DEF Remainders
  <2> QED
    BY <1>3, <2>1 DEF PurgeRefused, EndSession, StepCases
<1> QED
  BY <1>1, <1>2, <1>3 DEF StepCases

\* The panels' steps, with the page, the report and the slug they are about.
LEMMA PanelSteps ==
    ASSUME TypeOK, PastePanel \/ FilePanel \/ ReportsPanel \/ HandleDeletePaste \/ HandleDeleteFile
    PROVE  StepCases
<1>1. ASSUME NEW k \in Kinds, ListPanel(k) PROVE StepCases
  <2>1. ASSUME NEW p, TurnPage(k, p) PROVE p \in Nat
    BY <2>1 DEF TurnPage, TypeOK, ListTypeOK
  <2> QED
    BY <1>1, <2>1 DEF ListPanel, StepCases
<1>2. CASE ReportsPanel
  <2>1. PICK r \in Reports : \/ \E m \in Marks : HandleReportStatus(r, m)
                             \/ HandleDeleteReportedContent(r)
                             \/ HandleDeleteReport(r)
    BY <1>2 DEF ReportsPanel
  <2>2. Target[r] \in Slugs
    BY ConsoleAssumption
  <2>3. \E op \in ReportOps, s \in Slugs \union {None} : HandleReport(r, Call(op, s, r))
    BY <2>1, <2>2 DEF HandleReportStatus, HandleDeleteReportedContent, HandleDeleteReport, ReportOps
  <2> QED
    BY <2>3 DEF StepCases
<1>3. CASE HandleDeletePaste \/ HandleDeleteFile
  BY <1>3 DEF HandleDeletePaste, HandleDeleteFile, Slugs, Kinds, StepCases
<1> QED
  BY <1>1, <1>2, <1>3 DEF PastePanel, FilePanel, Kinds

\* Every step of the page is one of the cases.
LEMMA Steps == ASSUME TypeOK, Next PROVE StepCases
<1>1. CASE AdminStep
  <2>1. CASE ClickLogout
    <3>1. calls \in Remainders
      BY DEF Remainders
    <3> QED
      BY <2>1, <3>1 DEF ClickLogout, EndSession, StepCases
  <2> QED
    BY <1>1, <2>1, PanelSteps DEF AdminStep, StepCases
<1>2. CASE OutsideStep
  BY <1>2, AsideSteps DEF OutsideStep, StepCases
<1>3. CASE SystemStep
  BY <1>3, AsideSteps, AnswerSteps, EffectSteps, LandingSteps DEF SystemStep, StepCases
<1> QED
  BY <1>1, <1>2, <1>3 DEF Next

-----------------------------------------------------------------------------
(* Types *)

\* The session and the server.
LEMMA SessionStep ==
    ASSUME TypeOK, StepCases
    PROVE  SessionTypeOK' /\ ServerTypeOK'
<1>1. ASSUME NEW remaining \in Remainders, EndSession(remaining) PROVE SessionTypeOK' /\ ServerTypeOK'
  BY <1>1 DEF EndSession, Logout, InitialDashboard, InitialLists, Cleanup, TypeOK, SessionTypeOK,
     ServerTypeOK, ClearStoredToken
<1>2. CASE Login
  BY <1>2 DEF Login, Mount, InitialDashboard, InitialLists, Cleanup, TypeOK, SessionTypeOK, ServerTypeOK,
     TokenAccepted, SetStoredToken
<1>3. CASE Aside
  BY <1>3 DEF Aside
<1>4. CASE ClickReload
  BY <1>4 DEF ClickReload, Reload, RunListEffect, Cleanup, TypeOK, SessionTypeOK, ServerTypeOK
<1>5. ASSUME NEW t \in Tabs, SelectTab(t) PROVE SessionTypeOK' /\ ServerTypeOK'
  BY <1>5 DEF SelectTab, Cleanup, TypeOK, SessionTypeOK, ServerTypeOK
<1>6. ASSUME NEW k \in Kinds, NEW q \in Queries, TypeSearch(k, q) PROVE SessionTypeOK' /\ ServerTypeOK'
  BY <1>6 DEF TypeSearch, TypeOK, SessionTypeOK, ServerTypeOK
<1>7. ASSUME NEW k \in Kinds, NEW p \in Nat, TurnPage(k, p) PROVE SessionTypeOK' /\ ServerTypeOK'
  BY <1>7 DEF TurnPage, RunListEffect, Cleanup, TypeOK, SessionTypeOK, ServerTypeOK
<1>8. ASSUME NEW k \in Kinds, Debounce(k) PROVE SessionTypeOK' /\ ServerTypeOK'
  BY <1>8 DEF Debounce, RunListEffect, Cleanup, TypeOK, SessionTypeOK, ServerTypeOK
<1>9. ASSUME NEW k \in Kinds, NEW s \in Slugs, HandleDelete(k, s) PROVE SessionTypeOK' /\ ServerTypeOK'
  BY <1>9 DEF HandleDelete, TypeOK, SessionTypeOK, ServerTypeOK
<1>10. ASSUME NEW r \in Reports, NEW op \in ReportOps, NEW s \in Slugs \union {None}, HandleReport(r, Call(op, s, r)) PROVE SessionTypeOK' /\ ServerTypeOK'
  BY <1>10 DEF HandleReport, TypeOK, SessionTypeOK, ServerTypeOK
<1>11. CASE HandlePurge
  BY <1>11 DEF HandlePurge, TypeOK, SessionTypeOK, ServerTypeOK
<1>12. ASSUME NEW f \in statsFetch, StatsAnswered(f) PROVE SessionTypeOK' /\ ServerTypeOK'
  BY <1>12 DEF StatsAnswered, TypeOK, SessionTypeOK, ServerTypeOK
<1>13. ASSUME NEW k \in Kinds, NEW f \in listFetch[k], ListAnswered(k, f) PROVE SessionTypeOK' /\ ServerTypeOK'
  BY <1>13 DEF ListAnswered, TypeOK, SessionTypeOK, ServerTypeOK
<1>14. ASSUME NEW f \in reportsFetch, ReportsAnswered(f) PROVE SessionTypeOK' /\ ServerTypeOK'
  BY <1>14 DEF ReportsAnswered, TypeOK, SessionTypeOK, ServerTypeOK
<1>15. ASSUME NEW f \in statsFetch, NEW s \in Kept, StatsLand(f, s) PROVE SessionTypeOK' /\ ServerTypeOK'
  BY <1>15 DEF StatsLand, RefusalLands, Unauthorized, Kept, TypeOK, SessionTypeOK, ServerTypeOK
<1>16. ASSUME NEW k \in Kinds, NEW f \in listFetch[k], NEW s \in Kept, ListLands(k, f, s) PROVE SessionTypeOK' /\ ServerTypeOK'
  BY <1>16 DEF ListLands, RefusalLands, Unauthorized, Kept, TypeOK, SessionTypeOK, ServerTypeOK
<1>17. ASSUME NEW f \in reportsFetch, NEW s \in Kept, ReportsLand(f, s) PROVE SessionTypeOK' /\ ServerTypeOK'
  BY <1>17 DEF ReportsLand, RefusalLands, Unauthorized, Kept, TypeOK, SessionTypeOK, ServerTypeOK
<1>18. ASSUME NEW i \in CallIds, Answers(i) PROVE SessionTypeOK' /\ ServerTypeOK'
  BY <1>18 DEF Answers, TypeOK, SessionTypeOK
<1>19. ASSUME NEW i \in CallIds, NEW s \in Statuses, DeleteLands(i, s) PROVE SessionTypeOK' /\ ServerTypeOK'
  BY <1>19 DEF DeleteLands, RemoveRow, KeepRows, TypeOK, SessionTypeOK, ServerTypeOK
<1>20. ASSUME NEW i \in CallIds, NEW s \in Statuses, ContentLands(i, s) PROVE SessionTypeOK' /\ ServerTypeOK'
  BY <1>20 DEF ContentLands, RemoveRow, KeepRows, TypeOK, SessionTypeOK, ServerTypeOK
<1>21. ASSUME NEW i \in CallIds, NEW s \in Statuses, ContentFails(i, s) PROVE SessionTypeOK' /\ ServerTypeOK'
  BY <1>21 DEF ContentFails, TypeOK, SessionTypeOK, ServerTypeOK
<1>22. ASSUME NEW i \in CallIds, NEW s \in Statuses, ReportCallLands(i, s) PROVE SessionTypeOK' /\ ServerTypeOK'
  BY <1>22 DEF ReportCallLands, TypeOK, SessionTypeOK, ServerTypeOK
<1>23. ASSUME NEW i \in CallIds, NEW s \in Statuses, PurgeLands(i, s) PROVE SessionTypeOK' /\ ServerTypeOK'
  BY <1>23 DEF PurgeLands, Reload, RunListEffect, Cleanup, TypeOK, SessionTypeOK, ServerTypeOK
<1>24. ASSUME NEW i \in CallIds, NEW s \in Statuses, LandsNowhere(i, s) PROVE SessionTypeOK' /\ ServerTypeOK'
  BY <1>24 DEF LandsNowhere, TypeOK, SessionTypeOK, ServerTypeOK
<1> QED
  BY <1>1, <1>2, <1>3, <1>4, <1>5, <1>6, <1>7, <1>8, <1>9, <1>10, <1>11, <1>12, <1>13, <1>14, <1>15,
     <1>16, <1>17, <1>18, <1>19, <1>20, <1>21, <1>22, <1>23, <1>24 DEF StepCases

\* What calls become: answered, done with, or sent.
LEMMA Ended ==
    ASSUME CallTypeOK, NEW i \in CallIds, NEW s \in Statuses, Ends(i, s)
    PROVE  /\ CallTypeOK'
           /\ \A j \in CallIds : /\ calls'[j].own = calls[j].own /\ calls'[j].op = calls[j].op
                                 /\ calls'[j].slug = calls[j].slug
                                 /\ calls'[j].report = calls[j].report
<1> DEFINE c == [calls[i] EXCEPT !.status = s]
<1>1. calls[i] \in CallRecord
  BY DEF CallTypeOK
<1>2. /\ c \in CallRecord /\ c.own = calls[i].own /\ c.op = calls[i].op
      /\ c.slug = calls[i].slug /\ c.report = calls[i].report
  BY <1>1, CallFacts
<1>3. calls' = [calls EXCEPT ![i] = c]
  BY DEF Ends
<1> HIDE DEF c
<1> QED
  BY <1>2, <1>3 DEF CallTypeOK

\* The number of a call that is done with is free again.
LEMMA DoneWith ==
    ASSUME CallTypeOK, NEW i \in CallIds, Done(i)
    PROVE  /\ CallTypeOK'
           /\ \A j \in CallIds : j # i => calls'[j] = calls[j]
  BY CallFacts DEF Done, CallTypeOK

\* The deletion of reported content goes on with the deletion of the report.
LEMMA ContentDone ==
    ASSUME CallTypeOK, NEW i \in CallIds, NEW s \in Statuses, ContentLands(i, s)
    PROVE  /\ CallTypeOK'
           /\ \A j \in CallIds : j # i => calls'[j] = calls[j]
           /\ calls'[i].own = calls[i].own /\ calls'[i].report = calls[i].report
           /\ calls'[i].op = "dropAfter" /\ calls[i].op = "content"
<1> DEFINE c == [calls[i] EXCEPT !.op = "dropAfter", !.status = "sent"]
<1>1. calls[i] \in CallRecord
  BY DEF CallTypeOK
<1>2. c \in CallRecord /\ c.own = calls[i].own /\ c.report = calls[i].report /\ c.op = "dropAfter"
  BY <1>1, CallFacts
<1>3. calls' = [calls EXCEPT ![i] = c] /\ calls[i].op = "content"
  BY DEF ContentLands
<1> HIDE DEF c
<1> QED
  BY <1>2, <1>3 DEF CallTypeOK

\* Calls.
LEMMA CallStep ==
    ASSUME TypeOK, StepCases
    PROVE  CallTypeOK'
<1>1. ASSUME NEW remaining \in Remainders, EndSession(remaining) PROVE CallTypeOK'
  <2>1. remaining \in [CallIds -> CallRecord]
    BY CallFacts DEF Remainders, TypeOK, CallTypeOK
  <2>2. \A j \in CallIds : [remaining[j] EXCEPT !.own = FALSE] \in CallRecord
    BY <2>1, CallFacts
  <2> QED
    BY <1>1, <2>2 DEF EndSession, Logout, CallTypeOK
<1>2. CASE Login
  BY <1>2 DEF Login, Mount, InitialDashboard, InitialLists, Cleanup, TypeOK, CallTypeOK
<1>3. CASE Aside
  BY <1>3 DEF Aside, TypeOK, CallTypeOK
<1>4. CASE ClickReload
  BY <1>4 DEF ClickReload, Reload, RunListEffect, Cleanup, TypeOK, CallTypeOK
<1>5. ASSUME NEW t \in Tabs, SelectTab(t) PROVE CallTypeOK'
  BY <1>5 DEF SelectTab, Cleanup, TypeOK, CallTypeOK
<1>6. ASSUME NEW k \in Kinds, NEW q \in Queries, TypeSearch(k, q) PROVE CallTypeOK'
  BY <1>6 DEF TypeSearch, TypeOK, CallTypeOK
<1>7. ASSUME NEW k \in Kinds, NEW p \in Nat, TurnPage(k, p) PROVE CallTypeOK'
  BY <1>7 DEF TurnPage, RunListEffect, Cleanup, TypeOK, CallTypeOK
<1>8. ASSUME NEW k \in Kinds, Debounce(k) PROVE CallTypeOK'
  BY <1>8 DEF Debounce, RunListEffect, Cleanup, TypeOK, CallTypeOK
<1>9. ASSUME NEW k \in Kinds, NEW s \in Slugs, HandleDelete(k, s) PROVE CallTypeOK'
  <2>1. Call("delete", s, None) \in CallRecord
    BY <1>9, MadeCalls DEF TypeOK, ReportOps
  <2> QED
    BY <1>9, <2>1, Sent DEF HandleDelete, TypeOK
<1>10. ASSUME NEW r \in Reports, NEW op \in ReportOps, NEW s \in Slugs \union {None}, HandleReport(r, Call(op, s, r)) PROVE CallTypeOK'
  <2>1. Call(op, s, r) \in CallRecord
    BY <1>10, MadeCalls DEF TypeOK, ReportOps
  <2> QED
    BY <1>10, <2>1, Sent DEF HandleReport, TypeOK
<1>11. CASE HandlePurge
  <2>1. Call("purge", None, None) \in CallRecord
    BY <1>11, MadeCalls DEF TypeOK, ReportOps
  <2> QED
    BY <1>11, <2>1, Sent DEF HandlePurge, TypeOK
<1>12. ASSUME NEW f \in statsFetch, StatsAnswered(f) PROVE CallTypeOK'
  BY <1>12 DEF StatsAnswered, TypeOK, CallTypeOK
<1>13. ASSUME NEW k \in Kinds, NEW f \in listFetch[k], ListAnswered(k, f) PROVE CallTypeOK'
  BY <1>13 DEF ListAnswered, TypeOK, CallTypeOK
<1>14. ASSUME NEW f \in reportsFetch, ReportsAnswered(f) PROVE CallTypeOK'
  BY <1>14 DEF ReportsAnswered, TypeOK, CallTypeOK
<1>15. ASSUME NEW f \in statsFetch, NEW s \in Kept, StatsLand(f, s) PROVE CallTypeOK'
  BY <1>15 DEF StatsLand, RefusalLands, Unauthorized, Kept, TypeOK, CallTypeOK
<1>16. ASSUME NEW k \in Kinds, NEW f \in listFetch[k], NEW s \in Kept, ListLands(k, f, s) PROVE CallTypeOK'
  BY <1>16 DEF ListLands, RefusalLands, Unauthorized, Kept, TypeOK, CallTypeOK
<1>17. ASSUME NEW f \in reportsFetch, NEW s \in Kept, ReportsLand(f, s) PROVE CallTypeOK'
  BY <1>17 DEF ReportsLand, RefusalLands, Unauthorized, Kept, TypeOK, CallTypeOK
<1>18. ASSUME NEW i \in CallIds, Answers(i) PROVE CallTypeOK'
  BY <1>18, Ended DEF Answers, TypeOK
<1>19. ASSUME NEW i \in CallIds, NEW s \in Statuses, DeleteLands(i, s) PROVE CallTypeOK'
  BY <1>19, DoneWith DEF DeleteLands, TypeOK
<1>20. ASSUME NEW i \in CallIds, NEW s \in Statuses, ContentLands(i, s) PROVE CallTypeOK'
  BY <1>20, ContentDone DEF TypeOK
<1>21. ASSUME NEW i \in CallIds, NEW s \in Statuses, ContentFails(i, s) PROVE CallTypeOK'
  BY <1>21, DoneWith DEF ContentFails, TypeOK
<1>22. ASSUME NEW i \in CallIds, NEW s \in Statuses, ReportCallLands(i, s) PROVE CallTypeOK'
  BY <1>22, DoneWith DEF ReportCallLands, TypeOK
<1>23. ASSUME NEW i \in CallIds, NEW s \in Statuses, PurgeLands(i, s) PROVE CallTypeOK'
  BY <1>23, DoneWith DEF PurgeLands, TypeOK
<1>24. ASSUME NEW i \in CallIds, NEW s \in Statuses, LandsNowhere(i, s) PROVE CallTypeOK'
  BY <1>24, DoneWith DEF LandsNowhere, TypeOK
<1> QED
  BY <1>1, <1>2, <1>3, <1>4, <1>5, <1>6, <1>7, <1>8, <1>9, <1>10, <1>11, <1>12, <1>13, <1>14, <1>15,
     <1>16, <1>17, <1>18, <1>19, <1>20, <1>21, <1>22, <1>23, <1>24 DEF StepCases

\* The tab and the kind of a list are names.
LEMMA NameFacts ==
    /\ Kinds \subseteq Tabs /\ "overview" \in Tabs /\ "reports" \in Tabs /\ "reports" \notin Kinds
    /\ \A s : KindOf(s) \in Kinds
    /\ NoStats \in [Kinds -> Nat]
    /\ NotLoaded \in (Nat \X Queries) \union {NotLoaded}
  BY DEF Tabs, Kinds, KindOf, NoStats

\* A row that leaves its list.
LEMMA RowRemoved ==
    ASSUME PanelTypeOK, ListTypeOK, NEW s, RemoveRow(s) \/ KeepRows
    PROVE  rows' \in [Kinds -> SUBSET Slugs] /\ stats' \in [Kinds -> Nat]
<1>1. CASE RemoveRow(s)
  <2>1. KindOf(s) \in Kinds
    BY NameFacts
  <2>2. rows' \in [Kinds -> SUBSET Slugs]
    BY <1>1, <2>1 DEF RemoveRow, ListTypeOK
  <2>3. stats' \in [Kinds -> Nat]
    BY <1>1, <2>1 DEF RemoveRow, PanelTypeOK
  <2> QED
    BY <2>2, <2>3
<1>2. CASE KeepRows
  BY <1>2 DEF KeepRows, PanelTypeOK, ListTypeOK
<1> QED
  BY <1>1, <1>2

\* The panels and what they are busy with.
LEMMA PanelStep ==
    ASSUME TypeOK, StepCases
    PROVE  PanelTypeOK'
<1>1. ASSUME NEW remaining \in Remainders, EndSession(remaining) PROVE PanelTypeOK'
  BY <1>1, NameFacts DEF EndSession, Logout, InitialDashboard, InitialLists, Cleanup, TypeOK,
     PanelTypeOK
<1>2. CASE Login
  BY <1>2, NameFacts DEF Login, Mount, InitialDashboard, InitialLists, Cleanup, TypeOK, PanelTypeOK
<1>3. CASE Aside
  BY <1>3, NameFacts DEF Aside, TypeOK, PanelTypeOK
<1>4. CASE ClickReload
  BY <1>4, NameFacts DEF ClickReload, Reload, RunListEffect, Cleanup, TypeOK, PanelTypeOK
<1>5. ASSUME NEW t \in Tabs, SelectTab(t) PROVE PanelTypeOK'
  BY <1>5, NameFacts DEF SelectTab, Cleanup, TypeOK, PanelTypeOK
<1>6. ASSUME NEW k \in Kinds, NEW q \in Queries, TypeSearch(k, q) PROVE PanelTypeOK'
  BY <1>6, NameFacts DEF TypeSearch, TypeOK, PanelTypeOK
<1>7. ASSUME NEW k \in Kinds, NEW p \in Nat, TurnPage(k, p) PROVE PanelTypeOK'
  BY <1>7, NameFacts DEF TurnPage, RunListEffect, Cleanup, TypeOK, PanelTypeOK
<1>8. ASSUME NEW k \in Kinds, Debounce(k) PROVE PanelTypeOK'
  BY <1>8, NameFacts DEF Debounce, RunListEffect, Cleanup, TypeOK, PanelTypeOK
<1>9. ASSUME NEW k \in Kinds, NEW s \in Slugs, HandleDelete(k, s) PROVE PanelTypeOK'
  BY <1>9, NameFacts DEF HandleDelete, TypeOK, PanelTypeOK
<1>10. ASSUME NEW r \in Reports, NEW op \in ReportOps, NEW s \in Slugs \union {None}, HandleReport(r, Call(op, s, r)) PROVE PanelTypeOK'
  BY <1>10, NameFacts DEF HandleReport, TypeOK, PanelTypeOK
<1>11. CASE HandlePurge
  BY <1>11, NameFacts DEF HandlePurge, TypeOK, PanelTypeOK
<1>12. ASSUME NEW f \in statsFetch, StatsAnswered(f) PROVE PanelTypeOK'
  BY <1>12, NameFacts DEF StatsAnswered, TypeOK, PanelTypeOK
<1>13. ASSUME NEW k \in Kinds, NEW f \in listFetch[k], ListAnswered(k, f) PROVE PanelTypeOK'
  BY <1>13, NameFacts DEF ListAnswered, TypeOK, PanelTypeOK
<1>14. ASSUME NEW f \in reportsFetch, ReportsAnswered(f) PROVE PanelTypeOK'
  BY <1>14, NameFacts DEF ReportsAnswered, TypeOK, PanelTypeOK
<1>15. ASSUME NEW f \in statsFetch, NEW s \in Kept, StatsLand(f, s) PROVE PanelTypeOK'
  BY <1>15, NameFacts DEF StatsLand, RefusalLands, Unauthorized, Kept, TypeOK, PanelTypeOK, FetchTypeOK,
     StatsRecord
<1>16. ASSUME NEW k \in Kinds, NEW f \in listFetch[k], NEW s \in Kept, ListLands(k, f, s) PROVE PanelTypeOK'
  BY <1>16, NameFacts DEF ListLands, RefusalLands, Unauthorized, Kept, TypeOK, PanelTypeOK
<1>17. ASSUME NEW f \in reportsFetch, NEW s \in Kept, ReportsLand(f, s) PROVE PanelTypeOK'
  BY <1>17, NameFacts DEF ReportsLand, RefusalLands, Unauthorized, Kept, TypeOK, PanelTypeOK,
     FetchTypeOK, ReportsRecord
<1>18. ASSUME NEW i \in CallIds, Answers(i) PROVE PanelTypeOK'
  BY <1>18, NameFacts DEF Answers, TypeOK, PanelTypeOK
<1>19. ASSUME NEW i \in CallIds, NEW s \in Statuses, DeleteLands(i, s) PROVE PanelTypeOK'
  BY <1>19, RowRemoved DEF DeleteLands, TypeOK, PanelTypeOK
<1>20. ASSUME NEW i \in CallIds, NEW s \in Statuses, ContentLands(i, s) PROVE PanelTypeOK'
  BY <1>20, RowRemoved DEF ContentLands, TypeOK, PanelTypeOK
<1>21. ASSUME NEW i \in CallIds, NEW s \in Statuses, ContentFails(i, s) PROVE PanelTypeOK'
  BY <1>21, NameFacts DEF ContentFails, TypeOK, PanelTypeOK
<1>22. ASSUME NEW i \in CallIds, NEW s \in Statuses, ReportCallLands(i, s) PROVE PanelTypeOK'
  BY <1>22, NameFacts DEF ReportCallLands, TypeOK, PanelTypeOK
<1>23. ASSUME NEW i \in CallIds, NEW s \in Statuses, PurgeLands(i, s) PROVE PanelTypeOK'
  BY <1>23, NameFacts DEF PurgeLands, Reload, RunListEffect, Cleanup, TypeOK, PanelTypeOK
<1>24. ASSUME NEW i \in CallIds, NEW s \in Statuses, LandsNowhere(i, s) PROVE PanelTypeOK'
  BY <1>24, NameFacts DEF LandsNowhere, TypeOK, PanelTypeOK
<1> QED
  BY <1>1, <1>2, <1>3, <1>4, <1>5, <1>6, <1>7, <1>8, <1>9, <1>10, <1>11, <1>12, <1>13, <1>14, <1>15,
     <1>16, <1>17, <1>18, <1>19, <1>20, <1>21, <1>22, <1>23, <1>24 DEF StepCases

\* The lists of a dashboard that has just been mounted, or of none.
LEMMA FreshLists ==
    ASSUME InitialLists
    PROVE  /\ ListTypeOK'
           /\ listFetch' = [k \in Kinds |-> {}]
           /\ listing' = [k \in Kinds |-> FALSE]
<1>1. NoQuery \in Queries
  BY ConsoleAssumption
<1>2. shownFor' \in [Kinds -> (Nat \X Queries) \union {NotLoaded}]
  BY DEF InitialLists
<1> QED
  BY <1>1, <1>2 DEF InitialLists, ListTypeOK, Cleanup

\* The lists.
LEMMA ListStep ==
    ASSUME TypeOK, StepCases
    PROVE  ListTypeOK'
<1>1. ASSUME NEW remaining \in Remainders, EndSession(remaining) PROVE ListTypeOK'
  BY <1>1, FreshLists DEF EndSession, Logout, InitialDashboard
<1>2. CASE Login
  BY <1>2, FreshLists DEF Login, Mount, InitialDashboard
<1>3. CASE Aside
  BY <1>3, NameFacts DEF Aside, TypeOK, ListTypeOK
<1>4. CASE ClickReload
  BY <1>4, NameFacts DEF ClickReload, Reload, RunListEffect, Cleanup, TypeOK, ListTypeOK
<1>5. ASSUME NEW t \in Tabs, SelectTab(t) PROVE ListTypeOK'
  BY <1>5, NameFacts DEF SelectTab, Cleanup, TypeOK, ListTypeOK
<1>6. ASSUME NEW k \in Kinds, NEW q \in Queries, TypeSearch(k, q) PROVE ListTypeOK'
  BY <1>6, NameFacts DEF TypeSearch, TypeOK, ListTypeOK
<1>7. ASSUME NEW k \in Kinds, NEW p \in Nat, TurnPage(k, p) PROVE ListTypeOK'
  BY <1>7, NameFacts DEF TurnPage, RunListEffect, Cleanup, TypeOK, ListTypeOK
<1>8. ASSUME NEW k \in Kinds, Debounce(k) PROVE ListTypeOK'
  BY <1>8, NameFacts DEF Debounce, RunListEffect, Cleanup, TypeOK, ListTypeOK
<1>9. ASSUME NEW k \in Kinds, NEW s \in Slugs, HandleDelete(k, s) PROVE ListTypeOK'
  BY <1>9, NameFacts DEF HandleDelete, TypeOK, ListTypeOK
<1>10. ASSUME NEW r \in Reports, NEW op \in ReportOps, NEW s \in Slugs \union {None}, HandleReport(r, Call(op, s, r)) PROVE ListTypeOK'
  BY <1>10, NameFacts DEF HandleReport, TypeOK, ListTypeOK
<1>11. CASE HandlePurge
  BY <1>11, NameFacts DEF HandlePurge, TypeOK, ListTypeOK
<1>12. ASSUME NEW f \in statsFetch, StatsAnswered(f) PROVE ListTypeOK'
  BY <1>12, NameFacts DEF StatsAnswered, TypeOK, ListTypeOK
<1>13. ASSUME NEW k \in Kinds, NEW f \in listFetch[k], ListAnswered(k, f) PROVE ListTypeOK'
  BY <1>13, NameFacts DEF ListAnswered, TypeOK, ListTypeOK
<1>14. ASSUME NEW f \in reportsFetch, ReportsAnswered(f) PROVE ListTypeOK'
  BY <1>14, NameFacts DEF ReportsAnswered, TypeOK, ListTypeOK
<1>15. ASSUME NEW f \in statsFetch, NEW s \in Kept, StatsLand(f, s) PROVE ListTypeOK'
  BY <1>15, NameFacts DEF StatsLand, RefusalLands, Unauthorized, Kept, TypeOK, ListTypeOK
<1>16. ASSUME NEW k \in Kinds, NEW f \in listFetch[k], NEW s \in Kept, ListLands(k, f, s) PROVE ListTypeOK'
  <2>1. f \in ListRecord /\ s \in {"ok", "failed"}
    BY <1>16 DEF TypeOK, FetchTypeOK, Kept
  <2>2. f.items \in SUBSET Slugs /\ f.total \in Nat /\ <<f.page, f.query>> \in Nat \X Queries
    BY <2>1 DEF ListRecord
  <2>3. shownFor' \in [Kinds -> (Nat \X Queries) \union {NotLoaded}]
    BY <1>16, <2>1, <2>2 DEF ListLands, RefusalLands, Unauthorized, TypeOK, ListTypeOK
  <2> QED
    BY <1>16, <2>1, <2>2, <2>3 DEF ListLands, RefusalLands, Unauthorized, TypeOK, ListTypeOK
<1>17. ASSUME NEW f \in reportsFetch, NEW s \in Kept, ReportsLand(f, s) PROVE ListTypeOK'
  BY <1>17, NameFacts DEF ReportsLand, RefusalLands, Unauthorized, Kept, TypeOK, ListTypeOK
<1>18. ASSUME NEW i \in CallIds, Answers(i) PROVE ListTypeOK'
  BY <1>18, NameFacts DEF Answers, TypeOK, ListTypeOK
<1>19. ASSUME NEW i \in CallIds, NEW s \in Statuses, DeleteLands(i, s) PROVE ListTypeOK'
  BY <1>19, RowRemoved DEF DeleteLands, TypeOK, ListTypeOK
<1>20. ASSUME NEW i \in CallIds, NEW s \in Statuses, ContentLands(i, s) PROVE ListTypeOK'
  BY <1>20, RowRemoved DEF ContentLands, TypeOK, ListTypeOK
<1>21. ASSUME NEW i \in CallIds, NEW s \in Statuses, ContentFails(i, s) PROVE ListTypeOK'
  BY <1>21, NameFacts DEF ContentFails, TypeOK, ListTypeOK
<1>22. ASSUME NEW i \in CallIds, NEW s \in Statuses, ReportCallLands(i, s) PROVE ListTypeOK'
  BY <1>22, NameFacts DEF ReportCallLands, TypeOK, ListTypeOK
<1>23. ASSUME NEW i \in CallIds, NEW s \in Statuses, PurgeLands(i, s) PROVE ListTypeOK'
  BY <1>23, NameFacts DEF PurgeLands, Reload, RunListEffect, Cleanup, TypeOK, ListTypeOK
<1>24. ASSUME NEW i \in CallIds, NEW s \in Statuses, LandsNowhere(i, s) PROVE ListTypeOK'
  BY <1>24, NameFacts DEF LandsNowhere, TypeOK, ListTypeOK
<1> QED
  BY <1>1, <1>2, <1>3, <1>4, <1>5, <1>6, <1>7, <1>8, <1>9, <1>10, <1>11, <1>12, <1>13, <1>14, <1>15,
     <1>16, <1>17, <1>18, <1>19, <1>20, <1>21, <1>22, <1>23, <1>24 DEF StepCases

\* The effect of the statistics, and that of the open tab, run again.
LEMMA Reloaded ==
    ASSUME TypeOK, Reload
    PROVE  /\ FetchTypeOK'
           /\ loading' = TRUE /\ statsFetch' # {}
           /\ tab \in Kinds =>
                  /\ listFetch' = [listFetch EXCEPT ![tab] =
                                      {ListRequest(stored, page[tab], debounced[tab])}]
                  /\ listing' = [listing EXCEPT ![tab] = TRUE]
           /\ tab \notin Kinds => UNCHANGED <<listFetch, listing>>
           /\ tab = "reports" => reportsFetch' # {}
           /\ tab # "reports" => UNCHANGED <<reportsFetch, loadingReports>>
<1>1. stored \in Tokens \union {None}
  BY DEF TypeOK, SessionTypeOK
<1>2. StatsRequest(stored) \in StatsRecord /\ ReportsRequest(stored) \in ReportsRecord
  BY <1>1 DEF StatsRequest, StatsRecord, NoStats, ReportsRequest, ReportsRecord
<1>3. ASSUME tab \in Kinds PROVE ListRequest(stored, page[tab], debounced[tab]) \in ListRecord
  BY <1>1, <1>3, RequestFacts DEF TypeOK, ListTypeOK
<1>4. statsFetch' = {StatsRequest(stored)} /\ loading' = TRUE
  BY DEF Reload, Cleanup
<1>5. tab \in Kinds => /\ listFetch' = [listFetch EXCEPT ![tab] =
                                            {ListRequest(stored, page[tab], debounced[tab])}]
                       /\ listing' = [listing EXCEPT ![tab] = TRUE]
  BY DEF Reload, RunListEffect, Cleanup
<1>6. tab \notin Kinds => UNCHANGED <<listFetch, listing>>
  BY DEF Reload
<1>7. /\ tab = "reports" => reportsFetch' = {ReportsRequest(stored)}
      /\ tab # "reports" => UNCHANGED <<reportsFetch, loadingReports>>
  BY DEF Reload, Cleanup
<1>8. listFetch' \in [Kinds -> SUBSET ListRecord]
  BY <1>3, <1>5, <1>6 DEF TypeOK, FetchTypeOK
<1>9. statsFetch' \subseteq StatsRecord /\ reportsFetch' \subseteq ReportsRecord
  BY <1>2, <1>4, <1>7 DEF TypeOK, FetchTypeOK
<1> QED
  BY <1>4, <1>5, <1>6, <1>7, <1>8, <1>9 DEF FetchTypeOK

\* The list effect of the tab that is opened runs, that of the tab that is left is cleaned up.
LEMMA TabSelected ==
    ASSUME TypeOK, NEW t \in Tabs, SelectTab(t)
    PROVE  /\ FetchTypeOK'
           /\ tab' = t /\ t # tab
           /\ \A k \in Kinds :
                  /\ k = t => /\ listFetch'[k] = listFetch[k]
                                    \union {ListRequest(stored, page[k], debounced[k])}
                              /\ listing'[k]
                  /\ k # t => listFetch'[k] = IF k = tab THEN {} ELSE listFetch[k]
           /\ t = "reports" => reportsFetch' # {}
<1> DEFINE cleaned == [k \in Kinds |-> IF k = tab THEN {} ELSE listFetch[k]]
<1>1. stored \in Tokens \union {None}
  BY DEF TypeOK, SessionTypeOK
<1>2. ASSUME t \in Kinds PROVE ListRequest(stored, page[t], debounced[t]) \in ListRecord
  BY <1>1, <1>2, RequestFacts DEF TypeOK, ListTypeOK
<1>3. ReportsRequest(stored) \in ReportsRecord
  BY <1>1 DEF ReportsRequest, ReportsRecord
<1>4. cleaned \in [Kinds -> SUBSET ListRecord]
  BY DEF TypeOK, FetchTypeOK
<1>5. tab' = t /\ t # tab /\ statsFetch' = statsFetch
  BY DEF SelectTab
<1>6. /\ t \in Kinds => /\ listFetch' = [cleaned EXCEPT
                                ![t] = @ \union {ListRequest(stored, page[t], debounced[t])}]
                        /\ listing' = [listing EXCEPT ![t] = TRUE]
      /\ t \notin Kinds => listFetch' = cleaned
  BY DEF SelectTab, Cleanup
<1>7. \/ reportsFetch' = reportsFetch \union {ReportsRequest(stored)}
      \/ t # "reports" /\ reportsFetch' \subseteq reportsFetch
  BY DEF SelectTab, Cleanup
<1> HIDE DEF cleaned
<1>8. listFetch' \in [Kinds -> SUBSET ListRecord]
  BY <1>2, <1>4, <1>6
<1>9. FetchTypeOK'
  BY <1>3, <1>5, <1>7, <1>8 DEF TypeOK, FetchTypeOK
<1>10. ASSUME NEW k \in Kinds
       PROVE  /\ k = t => /\ listFetch'[k] = listFetch[k]
                                 \union {ListRequest(stored, page[k], debounced[k])}
                           /\ listing'[k]
              /\ k # t => listFetch'[k] = IF k = tab THEN {} ELSE listFetch[k]
  <2>1. cleaned[k] = IF k = tab THEN {} ELSE listFetch[k]
    BY DEF cleaned
  <2>2. listing \in [Kinds -> BOOLEAN]
    BY DEF TypeOK, ListTypeOK
  <2> QED
    BY <1>4, <1>5, <1>6, <2>1, <2>2
<1> QED
  BY <1>5, <1>7, <1>9, <1>10

\* A list effect runs for a page and a query.
LEMMA ListRuns ==
    ASSUME TypeOK, NEW k \in Kinds, NEW p \in Nat, NEW q \in Queries,
           RunListEffect(k, {ListRequest(stored, p, q)})
    PROVE  /\ listFetch' \in [Kinds -> SUBSET ListRecord]
           /\ \A j \in Kinds : j # k => listFetch'[j] = listFetch[j] /\ listing'[j] = listing[j]
           /\ \E f \in ListRecord : listFetch'[k] = {f} /\ f.page = p /\ f.query = q
           /\ listing'[k]
<1> DEFINE f == ListRequest(stored, p, q)
<1>1. stored \in Tokens \union {None}
  BY DEF TypeOK, SessionTypeOK
<1>2. f \in ListRecord /\ f.page = p /\ f.query = q
  BY <1>1, RequestFacts
<1>3. listFetch' = [listFetch EXCEPT ![k] = {f}] /\ listing' = [listing EXCEPT ![k] = TRUE]
  BY DEF RunListEffect
<1> HIDE DEF f
<1> QED
  BY <1>2, <1>3 DEF TypeOK, FetchTypeOK, ListTypeOK

\* Whatever page was open when the typing ended, the search starts at the first page.
LEMMA Debounced ==
    ASSUME TypeOK, NEW k \in Kinds, Debounce(k)
    PROVE  /\ tab = k => RunListEffect(k, {ListRequest(stored, 0, search[k])})
           /\ tab # k => UNCHANGED <<listFetch, listing>>
<1>1. CASE tab = k /\ page[k] = 0
  BY <1>1 DEF Debounce, Cleanup
<1>2. CASE tab = k /\ page[k] # 0
  BY <1>2 DEF Debounce, Cleanup
<1>3. CASE tab # k
  BY <1>3 DEF Debounce
<1> QED
  BY <1>1, <1>2, <1>3

\* The fetches of the effects.
LEMMA FetchStep ==
    ASSUME TypeOK, StepCases
    PROVE  FetchTypeOK'
<1>1. ASSUME NEW remaining \in Remainders, EndSession(remaining) PROVE FetchTypeOK'
  BY <1>1 DEF EndSession, Logout, InitialDashboard, InitialLists, Cleanup, TypeOK, FetchTypeOK
<1>2. CASE Login
  <2>1. StatsRequest(typed) \in StatsRecord
    BY DEF TypeOK, SessionTypeOK, StatsRequest, StatsRecord, NoStats
  <2>2. statsFetch' = {StatsRequest(typed)} /\ reportsFetch' = {} /\ listFetch' = [k \in Kinds |-> {}]
    BY <1>2 DEF Login, Mount, InitialDashboard, InitialLists, Cleanup
  <2> QED
    BY <2>1, <2>2 DEF FetchTypeOK
<1>3. CASE Aside
  BY <1>3 DEF Aside, TypeOK, FetchTypeOK
<1>4. CASE ClickReload
  BY <1>4, Reloaded DEF ClickReload
<1>5. ASSUME NEW t \in Tabs, SelectTab(t) PROVE FetchTypeOK'
  BY <1>5, TabSelected
<1>6. ASSUME NEW k \in Kinds, NEW q \in Queries, TypeSearch(k, q) PROVE FetchTypeOK'
  BY <1>6 DEF TypeSearch, TypeOK, FetchTypeOK
<1>7. ASSUME NEW k \in Kinds, NEW p \in Nat, TurnPage(k, p) PROVE FetchTypeOK'
  <2>1. debounced[k] \in Queries
    BY DEF TypeOK, ListTypeOK
  <2>2. RunListEffect(k, {ListRequest(stored, p, debounced[k])})
    BY <1>7 DEF TurnPage, Cleanup
  <2>3. listFetch' \in [Kinds -> SUBSET ListRecord]
    BY <2>1, <2>2, ListRuns
  <2> QED
    BY <1>7, <2>3 DEF TurnPage, TypeOK, FetchTypeOK
<1>8. ASSUME NEW k \in Kinds, Debounce(k) PROVE FetchTypeOK'
  <2>1. search[k] \in Queries
    BY DEF TypeOK, ListTypeOK
  <2>2. CASE tab = k
    <3>1. listFetch' \in [Kinds -> SUBSET ListRecord]
      BY <1>8, <2>1, <2>2, Debounced, ListRuns
    <3> QED
      BY <1>8, <3>1 DEF Debounce, TypeOK, FetchTypeOK
  <2>3. CASE tab # k
    BY <1>8, <2>3, Debounced DEF Debounce, TypeOK, FetchTypeOK
  <2> QED
    BY <2>2, <2>3
<1>9. ASSUME NEW k \in Kinds, NEW s \in Slugs, HandleDelete(k, s) PROVE FetchTypeOK'
  BY <1>9 DEF HandleDelete, TypeOK, FetchTypeOK
<1>10. ASSUME NEW r \in Reports, NEW op \in ReportOps, NEW s \in Slugs \union {None}, HandleReport(r, Call(op, s, r)) PROVE FetchTypeOK'
  BY <1>10 DEF HandleReport, TypeOK, FetchTypeOK
<1>11. CASE HandlePurge
  BY <1>11 DEF HandlePurge, TypeOK, FetchTypeOK
<1>12. ASSUME NEW f \in statsFetch, StatsAnswered(f) PROVE FetchTypeOK'
  BY <1>12, StatsAreStats DEF StatsAnswered, TypeOK, FetchTypeOK
<1>13. ASSUME NEW k \in Kinds, NEW f \in listFetch[k], ListAnswered(k, f) PROVE FetchTypeOK'
  <2>1. GetAdminList(k, f) \in ListRecord
    BY ListsAreLists DEF TypeOK, FetchTypeOK
  <2> QED
    BY <1>13, <2>1 DEF ListAnswered, TypeOK, FetchTypeOK
<1>14. ASSUME NEW f \in reportsFetch, ReportsAnswered(f) PROVE FetchTypeOK'
  BY <1>14, ReportsAreReports DEF ReportsAnswered, TypeOK, FetchTypeOK
<1>15. ASSUME NEW f \in statsFetch, NEW s \in Kept, StatsLand(f, s) PROVE FetchTypeOK'
  BY <1>15 DEF StatsLand, RefusalLands, Unauthorized, Kept, TypeOK, FetchTypeOK
<1>16. ASSUME NEW k \in Kinds, NEW f \in listFetch[k], NEW s \in Kept, ListLands(k, f, s) PROVE FetchTypeOK'
  BY <1>16 DEF ListLands, RefusalLands, Unauthorized, Kept, TypeOK, FetchTypeOK
<1>17. ASSUME NEW f \in reportsFetch, NEW s \in Kept, ReportsLand(f, s) PROVE FetchTypeOK'
  BY <1>17 DEF ReportsLand, RefusalLands, Unauthorized, Kept, TypeOK, FetchTypeOK
<1>18. ASSUME NEW i \in CallIds, Answers(i) PROVE FetchTypeOK'
  BY <1>18 DEF Answers, TypeOK, FetchTypeOK
<1>19. ASSUME NEW i \in CallIds, NEW s \in Statuses, DeleteLands(i, s) PROVE FetchTypeOK'
  BY <1>19 DEF DeleteLands, RemoveRow, KeepRows, TypeOK, FetchTypeOK
<1>20. ASSUME NEW i \in CallIds, NEW s \in Statuses, ContentLands(i, s) PROVE FetchTypeOK'
  BY <1>20 DEF ContentLands, RemoveRow, KeepRows, TypeOK, FetchTypeOK
<1>21. ASSUME NEW i \in CallIds, NEW s \in Statuses, ContentFails(i, s) PROVE FetchTypeOK'
  BY <1>21 DEF ContentFails, TypeOK, FetchTypeOK
<1>22. ASSUME NEW i \in CallIds, NEW s \in Statuses, ReportCallLands(i, s) PROVE FetchTypeOK'
  BY <1>22 DEF ReportCallLands, TypeOK, FetchTypeOK
<1>23. ASSUME NEW i \in CallIds, NEW s \in Statuses, PurgeLands(i, s) PROVE FetchTypeOK'
  BY <1>23, Reloaded DEF PurgeLands, TypeOK, FetchTypeOK
<1>24. ASSUME NEW i \in CallIds, NEW s \in Statuses, LandsNowhere(i, s) PROVE FetchTypeOK'
  BY <1>24 DEF LandsNowhere, TypeOK, FetchTypeOK
<1> QED
  BY <1>1, <1>2, <1>3, <1>4, <1>5, <1>6, <1>7, <1>8, <1>9, <1>10, <1>11, <1>12, <1>13, <1>14, <1>15,
     <1>16, <1>17, <1>18, <1>19, <1>20, <1>21, <1>22, <1>23, <1>24 DEF StepCases

\* The types are kept.
LEMMA TypeStep == ASSUME TypeOK, Next PROVE TypeOK'
<1>1. StepCases
  BY Steps
<1>2. events' \in 0..MaxEvents
  BY ConsoleAssumption DEF Next, TypeOK
<1> QED
  BY <1>1, <1>2, SessionStep, CallStep, PanelStep, ListStep, FetchStep DEF TypeOK

-----------------------------------------------------------------------------
(* Spinners and busy buttons *)

\* WaitingIsForSomething: what shows "LOADING...".
Spinners ==
    /\ loading => statsFetch # {}
    /\ \A k \in Kinds : tab = k /\ listing[k] => listFetch[k] # {}
    /\ tab = "reports" /\ loadingReports => reportsFetch # {}

\* WaitingIsForSomething: what is disabled as busy.
Buttons ==
    /\ busySlug # None =>
           \E i \in CallIds : calls[i].own /\ calls[i].op = "delete" /\ calls[i].slug = busySlug
    /\ busyReport # None =>
           \E i \in CallIds : /\ calls[i].own
                              /\ calls[i].op \in {"content", "drop", "dropAfter"} \union Marks
                              /\ calls[i].report = busyReport
    /\ purging => \E i \in CallIds : calls[i].own /\ calls[i].op = "purge"

\* The two halves of the property.
LEMMA Halves == WaitingIsForSomething <=> Spinners /\ Buttons
  BY DEF WaitingIsForSomething, OwnCall, Spinners, Buttons

\* A reload leaves no spinner without its fetch.
LEMMA ReloadSpins ==
    ASSUME TypeOK, Reload, tab' = tab
    PROVE  Spinners'
<1>1. loading' => statsFetch' # {}
  BY Reloaded
<1>2. ASSUME NEW k \in Kinds, tab' = k PROVE listFetch'[k] # {}
  <2>1. listFetch' = [listFetch EXCEPT ![k] = {ListRequest(stored, page[k], debounced[k])}]
    BY <1>2, Reloaded
  <2> QED
    BY <2>1 DEF TypeOK, FetchTypeOK
<1>3. tab' = "reports" => reportsFetch' # {}
  BY Reloaded
<1> QED
  BY <1>1, <1>2, <1>3 DEF Spinners

\* A spinner turns only while a fetch of its own is under way.
LEMMA SpinnersStep ==
    ASSUME TypeOK, Spinners, StepCases
    PROVE  Spinners'
<1>1. ASSUME NEW remaining \in Remainders, EndSession(remaining) PROVE Spinners'
  BY <1>1, NameFacts, FreshLists DEF EndSession, Logout, InitialDashboard, Cleanup, Spinners
<1>2. CASE Login
  BY <1>2, NameFacts, FreshLists DEF Login, Mount, InitialDashboard, Cleanup, Spinners
<1>3. CASE Aside
  BY <1>3, NameFacts DEF Aside, Spinners
<1>4. CASE ClickReload
  <2>1. Reload /\ tab' = tab
    BY <1>4 DEF ClickReload
  <2> QED
    BY <2>1, ReloadSpins
<1>5. ASSUME NEW t \in Tabs, SelectTab(t) PROVE Spinners'
  <2>1. loading' = loading /\ statsFetch' = statsFetch
    BY <1>5 DEF SelectTab
  <2>2. \A k \in Kinds : tab' = k => listFetch'[k] # {}
    BY <1>5, TabSelected
  <2>3. tab' = "reports" => reportsFetch' # {}
    BY <1>5, TabSelected
  <2> QED
    BY <2>1, <2>2, <2>3 DEF Spinners
<1>6. ASSUME NEW k \in Kinds, NEW q \in Queries, TypeSearch(k, q) PROVE Spinners'
  BY <1>6, NameFacts DEF TypeSearch, Spinners
<1>7. ASSUME NEW k \in Kinds, NEW p \in Nat, TurnPage(k, p) PROVE Spinners'
  <2>1. debounced[k] \in Queries
    BY DEF TypeOK, ListTypeOK
  <2>2. RunListEffect(k, {ListRequest(stored, p, debounced[k])})
    BY <1>7 DEF TurnPage, Cleanup
  <2>3. /\ \A j \in Kinds : j # k => listFetch'[j] = listFetch[j] /\ listing'[j] = listing[j]
        /\ listFetch'[k] # {}
    BY ZenonT(40), <2>1, <2>2, ListRuns
  <2> QED
    BY <1>7, <2>3 DEF TurnPage, Spinners
<1>8. ASSUME NEW k \in Kinds, Debounce(k) PROVE Spinners'
  <2>1. search[k] \in Queries
    BY DEF TypeOK, ListTypeOK
  <2>2. CASE tab = k
    <3>1. /\ \A j \in Kinds : j # k => listFetch'[j] = listFetch[j] /\ listing'[j] = listing[j]
          /\ listFetch'[k] # {}
      BY ZenonT(40), <1>8, <2>1, <2>2, Debounced, ListRuns
    <3> QED
      BY <1>8, <3>1 DEF Debounce, Spinners
  <2>3. CASE tab # k
    BY <1>8, <2>3, Debounced DEF Debounce, Spinners
  <2> QED
    BY <2>2, <2>3
<1>9. ASSUME NEW k \in Kinds, NEW s \in Slugs, HandleDelete(k, s) PROVE Spinners'
  BY <1>9, NameFacts DEF HandleDelete, Spinners
<1>10. ASSUME NEW r \in Reports, NEW op \in ReportOps, NEW s \in Slugs \union {None}, HandleReport(r, Call(op, s, r)) PROVE Spinners'
  BY <1>10, NameFacts DEF HandleReport, Spinners
<1>11. CASE HandlePurge
  BY <1>11, NameFacts DEF HandlePurge, Spinners
<1>12. ASSUME NEW f \in statsFetch, StatsAnswered(f) PROVE Spinners'
  BY <1>12, NameFacts DEF StatsAnswered, Spinners
<1>13. ASSUME NEW k \in Kinds, NEW f \in listFetch[k], ListAnswered(k, f) PROVE Spinners'
  BY <1>13, NameFacts DEF ListAnswered, Spinners, TypeOK, FetchTypeOK
<1>14. ASSUME NEW f \in reportsFetch, ReportsAnswered(f) PROVE Spinners'
  BY <1>14, NameFacts DEF ReportsAnswered, Spinners
<1>15. ASSUME NEW f \in statsFetch, NEW s \in Kept, StatsLand(f, s) PROVE Spinners'
  BY <1>15, NameFacts DEF StatsLand, RefusalLands, Unauthorized, Kept, Spinners
<1>16. ASSUME NEW k \in Kinds, NEW f \in listFetch[k], NEW s \in Kept, ListLands(k, f, s) PROVE Spinners'
  BY <1>16, NameFacts DEF ListLands, RefusalLands, Unauthorized, Kept, Spinners, TypeOK, FetchTypeOK,
     ListTypeOK
<1>17. ASSUME NEW f \in reportsFetch, NEW s \in Kept, ReportsLand(f, s) PROVE Spinners'
  BY <1>17, NameFacts DEF ReportsLand, RefusalLands, Unauthorized, Kept, Spinners
<1>18. ASSUME NEW i \in CallIds, Answers(i) PROVE Spinners'
  BY <1>18, NameFacts DEF Answers, Spinners
<1>19. ASSUME NEW i \in CallIds, NEW s \in Statuses, DeleteLands(i, s) PROVE Spinners'
  BY <1>19, NameFacts DEF DeleteLands, RemoveRow, KeepRows, Spinners
<1>20. ASSUME NEW i \in CallIds, NEW s \in Statuses, ContentLands(i, s) PROVE Spinners'
  BY <1>20, NameFacts DEF ContentLands, RemoveRow, KeepRows, Spinners
<1>21. ASSUME NEW i \in CallIds, NEW s \in Statuses, ContentFails(i, s) PROVE Spinners'
  BY <1>21, NameFacts DEF ContentFails, Spinners
<1>22. ASSUME NEW i \in CallIds, NEW s \in Statuses, ReportCallLands(i, s) PROVE Spinners'
  BY <1>22, NameFacts DEF ReportCallLands, Spinners
<1>23. ASSUME NEW i \in CallIds, NEW s \in Statuses, PurgeLands(i, s) PROVE Spinners'
  <2>1. CASE s = "ok"
    <3>1. Reload /\ tab' = tab
      BY <1>23, <2>1 DEF PurgeLands
    <3> QED
      BY <3>1, ReloadSpins
  <2>2. CASE s # "ok"
    BY <1>23, <2>2 DEF PurgeLands, Spinners
  <2> QED
    BY <2>1, <2>2
<1>24. ASSUME NEW i \in CallIds, NEW s \in Statuses, LandsNowhere(i, s) PROVE Spinners'
  BY <1>24, NameFacts DEF LandsNowhere, Spinners
<1> QED
  BY <1>1, <1>2, <1>3, <1>4, <1>5, <1>6, <1>7, <1>8, <1>9, <1>10, <1>11, <1>12, <1>13, <1>14, <1>15,
     <1>16, <1>17, <1>18, <1>19, <1>20, <1>21, <1>22, <1>23, <1>24 DEF StepCases

\* A busy button has a call of its own behind it.
LEMMA ButtonsStep ==
    ASSUME TypeOK, Buttons, StepCases
    PROVE  Buttons'
<1>1. ASSUME NEW remaining \in Remainders, EndSession(remaining) PROVE Buttons'
  BY <1>1 DEF EndSession, Logout, InitialDashboard, InitialLists, Cleanup, Buttons
<1>2. CASE Login
  BY <1>2 DEF Login, Mount, InitialDashboard, InitialLists, Cleanup, Buttons
<1>3. CASE Aside
  BY <1>3 DEF Aside, Buttons
<1>4. CASE ClickReload
  BY <1>4 DEF ClickReload, Reload, RunListEffect, Cleanup, Buttons
<1>5. ASSUME NEW t \in Tabs, SelectTab(t) PROVE Buttons'
  BY <1>5 DEF SelectTab, Cleanup, Buttons
<1>6. ASSUME NEW k \in Kinds, NEW q \in Queries, TypeSearch(k, q) PROVE Buttons'
  BY <1>6 DEF TypeSearch, Buttons
<1>7. ASSUME NEW k \in Kinds, NEW p \in Nat, TurnPage(k, p) PROVE Buttons'
  BY <1>7 DEF TurnPage, RunListEffect, Cleanup, Buttons
<1>8. ASSUME NEW k \in Kinds, Debounce(k) PROVE Buttons'
  BY <1>8 DEF Debounce, RunListEffect, Cleanup, Buttons
<1>9. ASSUME NEW k \in Kinds, NEW s \in Slugs, HandleDelete(k, s) PROVE Buttons'
  <2>1. /\ Call("delete", s, None) \in CallRecord
        /\ Call("delete", s, None).own /\ Call("delete", s, None).op = "delete"
        /\ Call("delete", s, None).slug = s
    BY MadeCalls DEF TypeOK
  <2>2. Send(Call("delete", s, None)) /\ busySlug' = s /\ UNCHANGED <<busyReport, purging>>
    BY <1>9 DEF HandleDelete
  <2>3. /\ \E i \in CallIds : calls'[i].own /\ calls'[i].op = "delete" /\ calls'[i].slug = s
        /\ \A j \in CallIds : calls[j].own => calls'[j] = calls[j]
    BY <2>1, <2>2, Sent DEF TypeOK
  <2> QED
    BY <2>2, <2>3 DEF Buttons
<1>10. ASSUME NEW r \in Reports, NEW op \in ReportOps, NEW s \in Slugs \union {None}, HandleReport(r, Call(op, s, r)) PROVE Buttons'
  <2>1. /\ Call(op, s, r) \in CallRecord
        /\ Call(op, s, r).own /\ Call(op, s, r).op = op /\ Call(op, s, r).report = r
    BY MadeCalls DEF TypeOK
  <2>2. Send(Call(op, s, r)) /\ busyReport' = r /\ UNCHANGED <<busySlug, purging>>
    BY <1>10 DEF HandleReport
  <2>3. /\ \E i \in CallIds : calls'[i].own /\ calls'[i].op = op /\ calls'[i].report = r
        /\ \A j \in CallIds : calls[j].own => calls'[j] = calls[j]
    BY <2>1, <2>2, Sent DEF TypeOK
  <2> QED
    BY <2>2, <2>3 DEF Buttons, ReportOps
<1>11. CASE HandlePurge
  <2>1. /\ Call("purge", None, None) \in CallRecord
        /\ Call("purge", None, None).own /\ Call("purge", None, None).op = "purge"
    BY MadeCalls DEF TypeOK
  <2>2. Send(Call("purge", None, None)) /\ UNCHANGED <<busySlug, busyReport>>
    BY <1>11 DEF HandlePurge
  <2>3. /\ \E i \in CallIds : calls'[i].own /\ calls'[i].op = "purge"
        /\ \A j \in CallIds : calls[j].own => calls'[j] = calls[j]
    BY <2>1, <2>2, Sent DEF TypeOK
  <2> QED
    BY <2>2, <2>3 DEF Buttons
<1>12. ASSUME NEW f \in statsFetch, StatsAnswered(f) PROVE Buttons'
  BY <1>12 DEF StatsAnswered, Buttons
<1>13. ASSUME NEW k \in Kinds, NEW f \in listFetch[k], ListAnswered(k, f) PROVE Buttons'
  BY <1>13 DEF ListAnswered, Buttons
<1>14. ASSUME NEW f \in reportsFetch, ReportsAnswered(f) PROVE Buttons'
  BY <1>14 DEF ReportsAnswered, Buttons
<1>15. ASSUME NEW f \in statsFetch, NEW s \in Kept, StatsLand(f, s) PROVE Buttons'
  BY <1>15 DEF StatsLand, RefusalLands, Unauthorized, Kept, Buttons
<1>16. ASSUME NEW k \in Kinds, NEW f \in listFetch[k], NEW s \in Kept, ListLands(k, f, s) PROVE Buttons'
  BY <1>16 DEF ListLands, RefusalLands, Unauthorized, Kept, Buttons
<1>17. ASSUME NEW f \in reportsFetch, NEW s \in Kept, ReportsLand(f, s) PROVE Buttons'
  BY <1>17 DEF ReportsLand, RefusalLands, Unauthorized, Kept, Buttons
<1>18. ASSUME NEW i \in CallIds, Answers(i) PROVE Buttons'
  <2>1. \A j \in CallIds : /\ calls'[j].own = calls[j].own /\ calls'[j].op = calls[j].op
                           /\ calls'[j].slug = calls[j].slug /\ calls'[j].report = calls[j].report
    BY <1>18, Ended DEF Answers, TypeOK
  <2> QED
    BY <1>18, <2>1 DEF Answers, Buttons
<1>19. ASSUME NEW i \in CallIds, NEW s \in Statuses, DeleteLands(i, s) PROVE Buttons'
  <2>1. \A j \in CallIds : j # i => calls'[j] = calls[j]
    BY <1>19, DoneWith DEF DeleteLands, TypeOK
  <2> QED
    BY <1>19, <2>1 DEF DeleteLands, Buttons, Marks
<1>20. ASSUME NEW i \in CallIds, NEW s \in Statuses, ContentLands(i, s) PROVE Buttons'
  <2>1. /\ \A j \in CallIds : j # i => calls'[j] = calls[j]
        /\ calls'[i].own = calls[i].own /\ calls'[i].report = calls[i].report
        /\ calls'[i].op = "dropAfter" /\ calls[i].op = "content"
    BY <1>20, ContentDone DEF TypeOK
  <2> QED
    BY ZenonT(40), <1>20, <2>1 DEF ContentLands, Buttons
<1>21. ASSUME NEW i \in CallIds, NEW s \in Statuses, ContentFails(i, s) PROVE Buttons'
  <2>1. \A j \in CallIds : j # i => calls'[j] = calls[j]
    BY <1>21, DoneWith DEF ContentFails, TypeOK
  <2> QED
    BY <1>21, <2>1 DEF ContentFails, Buttons, Marks
<1>22. ASSUME NEW i \in CallIds, NEW s \in Statuses, ReportCallLands(i, s) PROVE Buttons'
  <2>1. \A j \in CallIds : j # i => calls'[j] = calls[j]
    BY <1>22, DoneWith DEF ReportCallLands, TypeOK
  <2> QED
    BY <1>22, <2>1 DEF ReportCallLands, Buttons, Marks
<1>23. ASSUME NEW i \in CallIds, NEW s \in Statuses, PurgeLands(i, s) PROVE Buttons'
  <2>1. \A j \in CallIds : j # i => calls'[j] = calls[j]
    BY <1>23, DoneWith DEF PurgeLands, TypeOK
  <2> QED
    BY <1>23, <2>1 DEF PurgeLands, Buttons, Marks
<1>24. ASSUME NEW i \in CallIds, NEW s \in Statuses, LandsNowhere(i, s) PROVE Buttons'
  <2>1. \A j \in CallIds : j # i => calls'[j] = calls[j]
    BY <1>24, DoneWith DEF LandsNowhere, TypeOK
  <2> QED
    BY <1>24, <2>1 DEF LandsNowhere, Buttons, Marks
<1> QED
  BY <1>1, <1>2, <1>3, <1>4, <1>5, <1>6, <1>7, <1>8, <1>9, <1>10, <1>11, <1>12, <1>13, <1>14, <1>15,
     <1>16, <1>17, <1>18, <1>19, <1>20, <1>21, <1>22, <1>23, <1>24 DEF StepCases

-----------------------------------------------------------------------------
(* What the lists show *)

\* A reload asks for what is on screen.
LEMMA ReloadBelongs ==
    ASSUME TypeOK, FetchesBelong, Reload, UNCHANGED <<tab, page, debounced>>
    PROVE  FetchesBelong'
<1>1. CASE tab \in Kinds
  <2>1. listFetch' = [listFetch EXCEPT ![tab] = {ListRequest(stored, page[tab], debounced[tab])}]
    BY <1>1, Reloaded
  <2> QED
    BY <1>1, <2>1 DEF FetchesBelong, ListRequest, TypeOK, FetchTypeOK
<1>2. CASE tab \notin Kinds
  BY <1>2, Reloaded DEF FetchesBelong
<1> QED
  BY <1>1, <1>2

\* The fetches under way are those of the list on screen.
LEMMA BelongStep ==
    ASSUME TypeOK, FetchesBelong, StepCases
    PROVE  FetchesBelong'
<1>1. ASSUME NEW remaining \in Remainders, EndSession(remaining) PROVE FetchesBelong'
  BY <1>1, FreshLists DEF EndSession, Logout, InitialDashboard, FetchesBelong
<1>2. CASE Login
  BY <1>2, FreshLists DEF Login, Mount, InitialDashboard, FetchesBelong
<1>3. CASE Aside
  BY <1>3 DEF Aside, FetchesBelong
<1>4. CASE ClickReload
  <2>1. Reload /\ UNCHANGED <<tab, page, debounced>>
    BY <1>4 DEF ClickReload
  <2> QED
    BY <2>1, ReloadBelongs
<1>5. ASSUME NEW t \in Tabs, SelectTab(t) PROVE FetchesBelong'
  <2>1. ASSUME NEW k \in Kinds
        PROVE  /\ tab' # k => listFetch'[k] = {}
               /\ \A f \in listFetch'[k] : f.page = page[k] /\ f.query = debounced[k]
    <3>1. CASE k = t
      <4>1. listFetch[k] = {}
        BY <1>5, <3>1, TabSelected DEF FetchesBelong
      <4>2. listFetch'[k] = {ListRequest(stored, page[k], debounced[k])}
        BY <1>5, <3>1, <4>1, TabSelected
      <4>3. tab' = k
        BY <1>5, <3>1, TabSelected
      <4> QED
        BY <4>2, <4>3 DEF ListRequest
    <3>2. CASE k # t
      BY <1>5, <3>2, TabSelected DEF FetchesBelong
    <3> QED
      BY <3>1, <3>2
  <2>2. UNCHANGED <<page, debounced>>
    BY <1>5 DEF SelectTab
  <2> QED
    BY <2>1, <2>2 DEF FetchesBelong
<1>6. ASSUME NEW k \in Kinds, NEW q \in Queries, TypeSearch(k, q) PROVE FetchesBelong'
  BY <1>6 DEF TypeSearch, FetchesBelong
<1>7. ASSUME NEW k \in Kinds, NEW p \in Nat, TurnPage(k, p) PROVE FetchesBelong'
  <2>1. debounced[k] \in Queries
    BY DEF TypeOK, ListTypeOK
  <2>2. RunListEffect(k, {ListRequest(stored, p, debounced[k])})
    BY <1>7 DEF TurnPage, Cleanup
  <2>3. /\ \A j \in Kinds : j # k => listFetch'[j] = listFetch[j]
        /\ \A f \in listFetch'[k] : f.page = p /\ f.query = debounced[k]
    BY <2>1, <2>2, ListRuns
  <2>4. /\ page' = [page EXCEPT ![k] = p] /\ debounced' = debounced /\ tab' = tab /\ tab = k
    BY <1>7 DEF TurnPage, ListShown, PanelShown
  <2> QED
    BY <2>3, <2>4 DEF FetchesBelong, TypeOK, ListTypeOK
<1>8. ASSUME NEW k \in Kinds, Debounce(k) PROVE FetchesBelong'
  <2>1. search[k] \in Queries
    BY DEF TypeOK, ListTypeOK
  <2>2. /\ page' = [page EXCEPT ![k] = 0] /\ debounced' = [debounced EXCEPT ![k] = search[k]]
        /\ tab' = tab
    BY <1>8 DEF Debounce
  <2>3. CASE tab = k
    <3>1. /\ \A j \in Kinds : j # k => listFetch'[j] = listFetch[j]
          /\ \A f \in listFetch'[k] : f.page = 0 /\ f.query = search[k]
      <4>1. RunListEffect(k, {ListRequest(stored, 0, search[k])})
        BY <1>8, <2>3, Debounced
      <4> QED
        BY <2>1, <4>1, ListRuns
    <3> QED
      BY <2>2, <2>3, <3>1 DEF FetchesBelong, TypeOK, ListTypeOK
  <2>4. CASE tab # k
    BY <1>8, <2>2, <2>4, Debounced DEF FetchesBelong, TypeOK, ListTypeOK
  <2> QED
    BY <2>3, <2>4
<1>9. ASSUME NEW k \in Kinds, NEW s \in Slugs, HandleDelete(k, s) PROVE FetchesBelong'
  BY <1>9 DEF HandleDelete, FetchesBelong
<1>10. ASSUME NEW r \in Reports, NEW op \in ReportOps, NEW s \in Slugs \union {None}, HandleReport(r, Call(op, s, r)) PROVE FetchesBelong'
  BY <1>10 DEF HandleReport, FetchesBelong
<1>11. CASE HandlePurge
  BY <1>11 DEF HandlePurge, FetchesBelong
<1>12. ASSUME NEW f \in statsFetch, StatsAnswered(f) PROVE FetchesBelong'
  BY <1>12 DEF StatsAnswered, FetchesBelong
<1>13. ASSUME NEW k \in Kinds, NEW f \in listFetch[k], ListAnswered(k, f) PROVE FetchesBelong'
  <2>1. f \in ListRecord /\ listFetch \in [Kinds -> SUBSET ListRecord]
    BY DEF TypeOK, FetchTypeOK
  <2>2. GetAdminList(k, f).page = f.page /\ GetAdminList(k, f).query = f.query
    BY <2>1, ListsAreLists
  <2>3. listFetch' = [listFetch EXCEPT ![k] = (listFetch[k] \ {f}) \union {GetAdminList(k, f)}]
        /\ UNCHANGED <<tab, page, debounced>>
    BY <1>13 DEF ListAnswered
  <2>4. tab = k
    BY DEF FetchesBelong
  <2> QED
    BY <2>1, <2>2, <2>3, <2>4 DEF FetchesBelong
<1>14. ASSUME NEW f \in reportsFetch, ReportsAnswered(f) PROVE FetchesBelong'
  BY <1>14 DEF ReportsAnswered, FetchesBelong
<1>15. ASSUME NEW f \in statsFetch, NEW s \in Kept, StatsLand(f, s) PROVE FetchesBelong'
  BY <1>15 DEF StatsLand, RefusalLands, Unauthorized, Kept, FetchesBelong
<1>16. ASSUME NEW k \in Kinds, NEW f \in listFetch[k], NEW s \in Kept, ListLands(k, f, s) PROVE FetchesBelong'
  BY <1>16 DEF ListLands, RefusalLands, Unauthorized, Kept, FetchesBelong, TypeOK, FetchTypeOK
<1>17. ASSUME NEW f \in reportsFetch, NEW s \in Kept, ReportsLand(f, s) PROVE FetchesBelong'
  BY <1>17 DEF ReportsLand, RefusalLands, Unauthorized, Kept, FetchesBelong
<1>18. ASSUME NEW i \in CallIds, Answers(i) PROVE FetchesBelong'
  BY <1>18 DEF Answers, FetchesBelong
<1>19. ASSUME NEW i \in CallIds, NEW s \in Statuses, DeleteLands(i, s) PROVE FetchesBelong'
  BY <1>19 DEF DeleteLands, RemoveRow, KeepRows, FetchesBelong
<1>20. ASSUME NEW i \in CallIds, NEW s \in Statuses, ContentLands(i, s) PROVE FetchesBelong'
  BY <1>20 DEF ContentLands, RemoveRow, KeepRows, FetchesBelong
<1>21. ASSUME NEW i \in CallIds, NEW s \in Statuses, ContentFails(i, s) PROVE FetchesBelong'
  BY <1>21 DEF ContentFails, FetchesBelong
<1>22. ASSUME NEW i \in CallIds, NEW s \in Statuses, ReportCallLands(i, s) PROVE FetchesBelong'
  BY <1>22 DEF ReportCallLands, FetchesBelong
<1>23. ASSUME NEW i \in CallIds, NEW s \in Statuses, PurgeLands(i, s) PROVE FetchesBelong'
  <2>1. UNCHANGED <<tab, page, debounced>>
    BY <1>23 DEF PurgeLands
  <2>2. CASE s = "ok"
    BY <1>23, <2>1, <2>2, ReloadBelongs DEF PurgeLands
  <2>3. CASE s # "ok"
    BY <1>23, <2>1, <2>3 DEF PurgeLands, FetchesBelong
  <2> QED
    BY <2>2, <2>3
<1>24. ASSUME NEW i \in CallIds, NEW s \in Statuses, LandsNowhere(i, s) PROVE FetchesBelong'
  BY <1>24 DEF LandsNowhere, FetchesBelong
<1> QED
  BY <1>1, <1>2, <1>3, <1>4, <1>5, <1>6, <1>7, <1>8, <1>9, <1>10, <1>11, <1>12, <1>13, <1>14, <1>15,
     <1>16, <1>17, <1>18, <1>19, <1>20, <1>21, <1>22, <1>23, <1>24 DEF StepCases

\* A list that is reloaded is loading.
LEMMA ReloadShows ==
    ASSUME TypeOK, RowsMatchControls, Reload, UNCHANGED <<tab, page, debounced, shownFor, missed>>
    PROVE  RowsMatchControls'
<1>1. CASE tab \in Kinds
  <2>1. listing' = [listing EXCEPT ![tab] = TRUE]
    BY <1>1, Reloaded
  <2> QED
    BY <1>1, <2>1 DEF RowsMatchControls, TypeOK, ListTypeOK
<1>2. CASE tab \notin Kinds
  BY <1>2, Reloaded DEF RowsMatchControls
<1> QED
  BY <1>1, <1>2

\* The rows on screen are those of the page and the search on screen.
LEMMA RowsStep ==
    ASSUME TypeOK, FetchesBelong, RowsMatchControls, StepCases
    PROVE  RowsMatchControls'
<1>1. ASSUME NEW remaining \in Remainders, EndSession(remaining) PROVE RowsMatchControls'
  BY <1>1, NameFacts DEF EndSession, Logout, InitialDashboard, RowsMatchControls, Kinds
<1>2. CASE Login
  BY <1>2, NameFacts DEF Login, Mount, InitialDashboard, RowsMatchControls, Kinds
<1>3. CASE Aside
  BY <1>3 DEF Aside, RowsMatchControls
<1>4. CASE ClickReload
  <2>1. Reload /\ UNCHANGED <<tab, page, debounced, shownFor, missed>>
    BY <1>4 DEF ClickReload
  <2> QED
    BY <2>1, ReloadShows
<1>5. ASSUME NEW t \in Tabs, SelectTab(t) PROVE RowsMatchControls'
  <2>1. \A k \in Kinds : tab' = k => listing'[k]
    BY <1>5, TabSelected
  <2> QED
    BY <2>1 DEF RowsMatchControls
<1>6. ASSUME NEW k \in Kinds, NEW q \in Queries, TypeSearch(k, q) PROVE RowsMatchControls'
  BY <1>6 DEF TypeSearch, RowsMatchControls
<1>7. ASSUME NEW k \in Kinds, NEW p \in Nat, TurnPage(k, p) PROVE RowsMatchControls'
  <2>1. debounced[k] \in Queries
    BY DEF TypeOK, ListTypeOK
  <2>2. RunListEffect(k, {ListRequest(stored, p, debounced[k])})
    BY <1>7 DEF TurnPage, Cleanup
  <2>3. listing'[k] /\ \A j \in Kinds : j # k => listing'[j] = listing[j]
    BY <2>1, <2>2, ListRuns
  <2>4. tab' = k
    BY <1>7 DEF TurnPage, ListShown, PanelShown
  <2> QED
    BY <2>3, <2>4 DEF RowsMatchControls
<1>8. ASSUME NEW k \in Kinds, Debounce(k) PROVE RowsMatchControls'
  <2>1. search[k] \in Queries
    BY DEF TypeOK, ListTypeOK
  <2>2. CASE tab = k
    <3>1. listing'[k] /\ tab' = k
      BY <1>8, <2>1, <2>2, Debounced, ListRuns DEF Debounce
    <3> QED
      BY <3>1 DEF RowsMatchControls
  <2>3. CASE tab # k
    BY <1>8, <2>3, Debounced DEF Debounce, RowsMatchControls, TypeOK, ListTypeOK
  <2> QED
    BY <2>2, <2>3
<1>9. ASSUME NEW k \in Kinds, NEW s \in Slugs, HandleDelete(k, s) PROVE RowsMatchControls'
  BY <1>9 DEF HandleDelete, RowsMatchControls
<1>10. ASSUME NEW r \in Reports, NEW op \in ReportOps, NEW s \in Slugs \union {None}, HandleReport(r, Call(op, s, r)) PROVE RowsMatchControls'
  BY <1>10 DEF HandleReport, RowsMatchControls
<1>11. CASE HandlePurge
  BY <1>11 DEF HandlePurge, RowsMatchControls
<1>12. ASSUME NEW f \in statsFetch, StatsAnswered(f) PROVE RowsMatchControls'
  BY <1>12 DEF StatsAnswered, RowsMatchControls
<1>13. ASSUME NEW k \in Kinds, NEW f \in listFetch[k], ListAnswered(k, f) PROVE RowsMatchControls'
  BY <1>13 DEF ListAnswered, RowsMatchControls
<1>14. ASSUME NEW f \in reportsFetch, ReportsAnswered(f) PROVE RowsMatchControls'
  BY <1>14 DEF ReportsAnswered, RowsMatchControls
<1>15. ASSUME NEW f \in statsFetch, NEW s \in Kept, StatsLand(f, s) PROVE RowsMatchControls'
  BY <1>15 DEF StatsLand, RefusalLands, Unauthorized, Kept, RowsMatchControls
<1>16. ASSUME NEW k \in Kinds, NEW f \in listFetch[k], NEW s \in Kept, ListLands(k, f, s) PROVE RowsMatchControls'
  <2>1. tab = k /\ f.page = page[k] /\ f.query = debounced[k]
    BY DEF FetchesBelong
  <2>2. UNCHANGED <<tab, page, debounced>>
        /\ (shownFor'[k] = <<f.page, f.query>> \/ missed'[k] = TRUE)
    BY <1>16 DEF ListLands, RefusalLands, Unauthorized, Kept, TypeOK, ListTypeOK
  <2> QED
    BY <2>1, <2>2 DEF RowsMatchControls
<1>17. ASSUME NEW f \in reportsFetch, NEW s \in Kept, ReportsLand(f, s) PROVE RowsMatchControls'
  BY <1>17 DEF ReportsLand, RefusalLands, Unauthorized, Kept, RowsMatchControls
<1>18. ASSUME NEW i \in CallIds, Answers(i) PROVE RowsMatchControls'
  BY <1>18 DEF Answers, RowsMatchControls
<1>19. ASSUME NEW i \in CallIds, NEW s \in Statuses, DeleteLands(i, s) PROVE RowsMatchControls'
  BY <1>19 DEF DeleteLands, RemoveRow, KeepRows, RowsMatchControls
<1>20. ASSUME NEW i \in CallIds, NEW s \in Statuses, ContentLands(i, s) PROVE RowsMatchControls'
  BY <1>20 DEF ContentLands, RemoveRow, KeepRows, RowsMatchControls
<1>21. ASSUME NEW i \in CallIds, NEW s \in Statuses, ContentFails(i, s) PROVE RowsMatchControls'
  BY <1>21 DEF ContentFails, RowsMatchControls
<1>22. ASSUME NEW i \in CallIds, NEW s \in Statuses, ReportCallLands(i, s) PROVE RowsMatchControls'
  BY <1>22 DEF ReportCallLands, RowsMatchControls
<1>23. ASSUME NEW i \in CallIds, NEW s \in Statuses, PurgeLands(i, s) PROVE RowsMatchControls'
  <2>1. UNCHANGED <<tab, page, debounced, shownFor, missed>>
    BY <1>23 DEF PurgeLands
  <2>2. CASE s = "ok"
    BY <1>23, <2>1, <2>2, ReloadShows DEF PurgeLands
  <2>3. CASE s # "ok"
    BY <1>23, <2>1, <2>3 DEF PurgeLands, RowsMatchControls
  <2> QED
    BY <2>2, <2>3
<1>24. ASSUME NEW i \in CallIds, NEW s \in Statuses, LandsNowhere(i, s) PROVE RowsMatchControls'
  BY <1>24 DEF LandsNowhere, RowsMatchControls
<1> QED
  BY <1>1, <1>2, <1>3, <1>4, <1>5, <1>6, <1>7, <1>8, <1>9, <1>10, <1>11, <1>12, <1>13, <1>14, <1>15,
     <1>16, <1>17, <1>18, <1>19, <1>20, <1>21, <1>22, <1>23, <1>24 DEF StepCases

-----------------------------------------------------------------------------
(* The theorems *)

\* The page opens at the gate, with nothing under way.
LEMMA InitIInv == Init => IInv
<1> SUFFICES ASSUME Init PROVE IInv
  OBVIOUS
<1>1. TypeOK
  <2>1. SessionTypeOK /\ ServerTypeOK
    BY DEF Init, SessionInit, SessionTypeOK, ServerTypeOK, Marks
  <2>2. PanelTypeOK
    BY NameFacts DEF Init, PanelTypeOK
  <2>3. NoQuery \in Queries
    BY ConsoleAssumption
  <2>4. shownFor \in [Kinds -> (Nat \X Queries) \union {NotLoaded}]
    BY DEF Init
  <2>5. ListTypeOK
    BY <2>3, <2>4 DEF Init, ListTypeOK
  <2>6. FetchTypeOK /\ CallTypeOK
    BY CallFacts DEF Init, FetchTypeOK, CallTypeOK
  <2>7. events \in 0..MaxEvents
    BY ConsoleAssumption DEF Init
  <2> QED
    BY <2>1, <2>2, <2>5, <2>6, <2>7 DEF TypeOK
<1>2. Spinners /\ Buttons
  BY NameFacts DEF Init, Spinners, Buttons
<1>3. FetchesBelong /\ RowsMatchControls
  BY DEF Init, FetchesBelong, RowsMatchControls, Kinds
<1> QED
  BY <1>1, <1>2, <1>3, Halves DEF IInv

\* The invariant is inductive.
LEMMA NextIInv == IInv /\ [Next]_vars => IInv'
<1> SUFFICES ASSUME IInv, [Next]_vars PROVE IInv'
  OBVIOUS
<1>1. TypeOK /\ Spinners /\ Buttons /\ FetchesBelong /\ RowsMatchControls
  BY Halves DEF IInv
<1>2. CASE Next
  <2>1. StepCases /\ TypeOK'
    BY <1>1, <1>2, Steps, TypeStep
  <2>2. Spinners' /\ Buttons'
    BY <1>1, <2>1, SpinnersStep, ButtonsStep
  <2>3. FetchesBelong' /\ RowsMatchControls'
    BY <1>1, <2>1, BelongStep, RowsStep
  <2>4. WaitingIsForSomething'
    BY <2>2 DEF WaitingIsForSomething, OwnCall, Spinners, Buttons
  <2> QED
    BY <2>1, <2>3, <2>4 DEF IInv
<1>3. CASE UNCHANGED vars
  <2>1. TypeOK'
    BY <1>1, <1>3 DEF vars, TypeOK, SessionTypeOK, ServerTypeOK, PanelTypeOK, ListTypeOK,
                      FetchTypeOK, CallTypeOK
  <2>2. WaitingIsForSomething'
    BY <1>1, <1>3, Halves DEF vars, WaitingIsForSomething, OwnCall
  <2>3. FetchesBelong' /\ RowsMatchControls'
    BY <1>1, <1>3 DEF vars, FetchesBelong, RowsMatchControls
  <2> QED
    BY <2>1, <2>2, <2>3 DEF IInv
<1> QED
  BY <1>2, <1>3

\* The dashboard, its fetches and its calls always satisfy IInv.
THEOREM Invariance == Spec => []IInv
  BY InitIInv, NextIInv, PTL DEF Spec

\* Type correctness (the state of Dashboard, its fetches and its calls).
THEOREM TypeCorrect == Spec => []TypeOK
<1>1. IInv => TypeOK
  BY DEF IInv
<1> QED
  BY <1>1, Invariance, PTL

\* Nothing on the dashboard waits for an answer that will not come: every spinner
\* has a fetch that still counts, every disabled button a call of its own.
THEOREM NothingWaitsInVain == Spec => []WaitingIsForSomething
<1>1. IInv => WaitingIsForSomething
  BY DEF IInv
<1> QED
  BY <1>1, Invariance, PTL

\* Whatever answers arrive in whatever order, a list on screen whose last fetch
\* did not fail shows the page and the (debounced) search in effect.
THEOREM RowsAreThoseAskedFor == Spec => []RowsMatchControls
<1>1. IInv => RowsMatchControls
  BY DEF IInv
<1> QED
  BY <1>1, Invariance, PTL
===============================================================================
