---------------------------- MODULE AdminConsole ----------------------------
(***************************************************************************)
(* The dashboard of the admin page (components/AdminDashboard.tsx): the    *)
(* statistics, the paged and searched lists of pastes and files, the       *)
(* reports, and the deletions and purges of one administrator, beside a    *)
(* server whose content others change.                                     *)
(*                                                                         *)
(* An effect's fetch belongs to the render that started it: the cleanup of *)
(* the effect marks it cancelled and everything it brings is dropped, so   *)
(* only fetches that still count are kept (Cleanup).  The calls of event   *)
(* handlers are never cancelled: they outlive their dashboard, whose state *)
(* they then no longer reach, and some of them still end the session.      *)
(***************************************************************************)
EXTENDS AdminSession, FiniteSets

CONSTANTS
    Pastes, Files,  \* slugs, as numbers: the newest content has the smallest
    Reports,        \* reports filed so far
    Target,         \* a report: the slug it is about
    Queries, Hits,  \* what may be searched for: a query, the slugs it finds
    NoQuery,        \* the empty search box, which finds everything
    PageSize,
    CallIds,        \* how many calls of handlers may be in flight (a bound)
    MaxEvents       \* clicks, edits, removals by others and restarts (a bound)

Kinds == {"pastes", "files"}
Tabs == Kinds \union {"overview", "reports"}
Slugs == Pastes \union Files
Content(k) == IF k = "pastes" THEN Pastes ELSE Files

ASSUME ConsoleAssumption ==
    /\ Pastes \subseteq Nat /\ Files \subseteq Nat
    /\ IsFiniteSet(Pastes) /\ IsFiniteSet(Files)
    /\ Pastes \intersect Files = {}
    /\ Target \in [Reports -> Slugs]
    /\ NoQuery \in Queries
    /\ Hits \in [Queries -> SUBSET Slugs] /\ Hits[NoQuery] = Slugs
    /\ PageSize \in Nat \ {0}
    /\ CallIds \subseteq Nat
    /\ MaxEvents \in Nat
    /\ None \notin Slugs /\ None \notin Reports

Marks == {"pending", "reviewed", "dismissed"}

VARIABLES
    there,          \* the server's content
    filed,          \* the server's reports: their status, or "gone"
    tab, stats, loading, purging,
    rows, total, listing,       \* a list: its items, the server's total, loading it
    page, search, debounced,    \* a list: page, search box, the search in effect
    shownFor,       \* history: page and query of the fetch the rows came with
    missed,         \* history: the last fetch of the list failed
    reports, loadingReports,
    busySlug, busyReport,
    statsFetch, listFetch, reportsFetch,    \* fetches of effects that count
    calls,          \* calls of handlers
    events

serverVars == <<there, filed>>
listVars == <<rows, total, listing, page, search, debounced, shownFor, missed,
              listFetch>>
reportVars == <<reports, loadingReports, reportsFetch>>
statsVars == <<stats, loading, statsFetch>>
busyVars == <<busySlug, busyReport, purging>>
dashboardVars == <<tab, listVars, reportVars, statsVars, busyVars>>
vars == <<sessionVars, serverVars, dashboardVars, calls, events>>

NoStats == [k \in Kinds |-> 0]
NotLoaded == <<0, None>>
NoCall == [op |-> "none", slug |-> None, report |-> None, token |-> None,
           status |-> "sent", own |-> FALSE]

-----------------------------------------------------------------------------
(* The API, as the server answers it *)

Count(k) == Cardinality(Content(k) \intersect there)

\* The p-th page of S in listing order.
PageOf(S, p) == {s \in S : Cardinality({r \in S : r < s}) \div PageSize = p}

\* What the server says to the request f.
Answer(f, granted) ==
    IF Verdict(f.token) = "ok" THEN granted ELSE [f EXCEPT !.status = Verdict(f.token)]

\* What arrives of a request's answer: a network failure may come at any time.
Arrivals(request) ==
    IF request.status = "sent" THEN {"failed"} ELSE {request.status, "failed"}

\* GET /admin/stats
GetAdminStats(f) ==
    Answer(f, [f EXCEPT !.status = "ok", !.counts = [k \in Kinds |-> Count(k)]])

\* GET /admin/pastes, with limit, offset and q
GetAdminList(k, f) ==
    LET found == Content(k) \intersect there \intersect Hits[f.query]
    IN  Answer(f, [f EXCEPT !.status = "ok", !.items = PageOf(found, f.page),
                            !.total = Cardinality(found)])

\* GET /admin/reports
GetAdminReports(f) == Answer(f, [f EXCEPT !.status = "ok", !.reports = filed])

StatsRequest(t) == [token |-> t, status |-> "sent", counts |-> NoStats]
ListRequest(t, p, q) ==
    [token |-> t, page |-> p, query |-> q, status |-> "sent", items |-> {}, total |-> 0]
ReportsRequest(t) ==
    [token |-> t, status |-> "sent", reports |-> [r \in Reports |-> "gone"]]

-----------------------------------------------------------------------------
(* Mounting, effects and their cleanup *)

\* Mutant: effects without a cleanup.
CleanupNothing(fetches) == fetches

\* cancelled = true: what the fetches of an effect bring is dropped.
Cleanup(fetches) == {}

\* useState's initial values, after a mount and, for want of a dashboard, before it.
InitialLists ==
    /\ rows' = [k \in Kinds |-> {}]
    /\ total' = [k \in Kinds |-> 0]
    /\ listing' = [k \in Kinds |-> FALSE]
    /\ page' = [k \in Kinds |-> 0]
    /\ search' = [k \in Kinds |-> NoQuery]
    /\ debounced' = [k \in Kinds |-> NoQuery]
    /\ shownFor' = [k \in Kinds |-> NotLoaded]
    /\ missed' = [k \in Kinds |-> FALSE]
    /\ listFetch' = [k \in Kinds |-> Cleanup(listFetch[k])]

InitialDashboard ==
    /\ tab' = "overview"
    /\ stats' = NoStats
    /\ purging' = FALSE
    /\ InitialLists
    /\ reports' = [r \in Reports |-> "gone"]
    /\ loadingReports' = FALSE
    /\ reportsFetch' = Cleanup(reportsFetch)
    /\ busySlug' = None
    /\ busyReport' = None

Mount(t) ==
    /\ InitialDashboard
    /\ loading' = TRUE
    /\ statsFetch' = Cleanup(statsFetch) \union {StatsRequest(t)}

\* onLogout: the token goes, the dashboard unmounts, its calls remain.
Logout(remaining) ==
    /\ ClearStoredToken
    /\ InitialDashboard
    /\ loading' = FALSE
    /\ statsFetch' = Cleanup(statsFetch)
    /\ calls' = [i \in CallIds |-> [remaining[i] EXCEPT !.own = FALSE]]

\* The list effect of kind k runs for the given page and query.
RunListEffect(k, requests) ==
    /\ listFetch' = [listFetch EXCEPT ![k] = requests]
    /\ listing' = [listing EXCEPT ![k] = TRUE]

\* reloadKey changes: the effects of the statistics and of the open tab run again.
Reload ==
    /\ loading' = TRUE
    /\ statsFetch' = Cleanup(statsFetch) \union {StatsRequest(stored)}
    /\ IF tab \in Kinds
       THEN RunListEffect(tab, Cleanup(listFetch[tab])
                \union {ListRequest(stored, page[tab], debounced[tab])})
       ELSE UNCHANGED <<listFetch, listing>>
    /\ IF tab = "reports"
       THEN /\ reportsFetch' = Cleanup(reportsFetch) \union {ReportsRequest(stored)}
            /\ loadingReports' = TRUE
       ELSE UNCHANGED <<reportsFetch, loadingReports>>

Init ==
    /\ SessionInit
    /\ there = Slugs
    /\ filed \in [Reports -> {"pending"}]
    /\ tab = "overview" /\ stats = NoStats /\ loading = FALSE
    /\ purging = FALSE
    /\ rows = [k \in Kinds |-> {}]
    /\ total = [k \in Kinds |-> 0]
    /\ listing = [k \in Kinds |-> FALSE]
    /\ page = [k \in Kinds |-> 0]
    /\ search = [k \in Kinds |-> NoQuery]
    /\ debounced = [k \in Kinds |-> NoQuery]
    /\ shownFor = [k \in Kinds |-> NotLoaded]
    /\ missed = [k \in Kinds |-> FALSE]
    /\ reports = [r \in Reports |-> "gone"]
    /\ loadingReports = FALSE
    /\ busySlug = None /\ busyReport = None
    /\ statsFetch = {} /\ listFetch = [k \in Kinds |-> {}] /\ reportsFetch = {}
    /\ calls = [i \in CallIds |-> NoCall]
    /\ events = 0

-----------------------------------------------------------------------------
(* The gate, seen from the dashboard *)

Login == TokenAccepted /\ Mount(typed) /\ UNCHANGED <<serverVars, calls>>

AtTheGate == GateStep /\ UNCHANGED <<serverVars, dashboardVars, calls>>

Restart == RestartServer /\ UNCHANGED <<serverVars, dashboardVars, calls>>

\* An item expires, or another administrator removes it.
Vanish(s) ==
    /\ s \in there
    /\ there' = there \ {s}
    /\ UNCHANGED <<sessionVars, filed, dashboardVars, calls>>

-----------------------------------------------------------------------------
(* The bar above the tabs, and the tabs *)

DashboardShown == stored # None

\* The buttons of the top bar; RELOAD and PURGE are off while the statistics load.
ClickLogout ==
    /\ DashboardShown
    /\ Logout(calls)
    /\ UNCHANGED <<serverToken, past, gate, typed, serverVars>>

ClickReload ==
    /\ DashboardShown
    /\ ~loading
    /\ Reload
    /\ UNCHANGED <<sessionVars, serverVars, tab, stats, rows, total, page, search,
                   debounced, shownFor, missed, reports, busyVars, calls>>

\* The effect of the old tab is cleaned up, that of the new one runs.
SelectTab(t) ==
    /\ DashboardShown
    /\ t # tab
    /\ tab' = t
    /\ LET cleaned == [k \in Kinds |-> IF k = tab THEN Cleanup(listFetch[k]) ELSE listFetch[k]]
       IN  IF t \in Kinds
           THEN /\ listFetch' = [cleaned EXCEPT
                        ![t] = @ \union {ListRequest(stored, page[t], debounced[t])}]
                /\ listing' = [listing EXCEPT ![t] = TRUE]
           ELSE listFetch' = cleaned /\ UNCHANGED listing
    /\ IF t = "reports"
       THEN /\ reportsFetch' = reportsFetch \union {ReportsRequest(stored)}
            /\ loadingReports' = TRUE
       ELSE /\ reportsFetch' = IF tab = "reports" THEN Cleanup(reportsFetch) ELSE reportsFetch
            /\ UNCHANGED loadingReports
    /\ UNCHANGED <<sessionVars, serverVars, stats, loading, statsFetch, rows, total,
                   page, search, debounced, shownFor, missed, reports, busyVars, calls>>

-----------------------------------------------------------------------------
(* What effects fetch *)

StatsAnswered(f) ==
    /\ f.status = "sent"
    /\ statsFetch' = (statsFetch \ {f}) \union {GetAdminStats(f)}
    /\ UNCHANGED <<sessionVars, serverVars, tab, stats, loading, listVars,
                   reportVars, busyVars, calls>>

ListAnswered(k, f) ==
    /\ f.status = "sent"
    /\ listFetch' = [listFetch EXCEPT ![k] = (@ \ {f}) \union {GetAdminList(k, f)}]
    /\ UNCHANGED <<sessionVars, serverVars, tab, statsVars, rows, total, listing,
                   page, search, debounced, shownFor, missed, reportVars, busyVars, calls>>

ReportsAnswered(f) ==
    /\ f.status = "sent"
    /\ reportsFetch' = (reportsFetch \ {f}) \union {GetAdminReports(f)}
    /\ UNCHANGED <<sessionVars, serverVars, tab, statsVars, listVars, reports,
                   loadingReports, busyVars, calls>>

\* A refused fetch of the dashboard on screen ends its session.
RefusalLands(status) ==
    /\ status \in Unauthorized
    /\ Logout(calls)
    /\ UNCHANGED <<serverToken, past, gate, typed, serverVars>>

StatsLand(f, status) ==
    \/ RefusalLands(status)
    \/ /\ status \in {"ok", "failed"}
       /\ statsFetch' = statsFetch \ {f}
       /\ stats' = IF status = "ok" THEN f.counts ELSE stats
       /\ loading' = FALSE
       /\ UNCHANGED <<sessionVars, serverVars, tab, listVars, reportVars, busyVars, calls>>

\* Mutant: a failed fetch leaves "LOADING..." on the screen.
ListLandsStillLoading(k, f, status) ==
    \/ RefusalLands(status)
    \/ /\ status \in {"ok", "failed"}
       /\ listFetch' = [listFetch EXCEPT ![k] = @ \ {f}]
       /\ listing' = [listing EXCEPT ![k] = status = "failed"]
       /\ missed' = [missed EXCEPT ![k] = status = "failed"]
       /\ IF status = "ok"
          THEN /\ rows' = [rows EXCEPT ![k] = f.items]
               /\ total' = [total EXCEPT ![k] = f.total]
               /\ shownFor' = [shownFor EXCEPT ![k] = <<f.page, f.query>>]
          ELSE UNCHANGED <<rows, total, shownFor>>
       /\ UNCHANGED <<sessionVars, serverVars, tab, statsVars, page, search, debounced,
                      reportVars, busyVars, calls>>

\* A failed fetch leaves the rows of an earlier page or search on the screen.
ListLands(k, f, status) ==
    \/ RefusalLands(status)
    \/ /\ status \in {"ok", "failed"}
       /\ listFetch' = [listFetch EXCEPT ![k] = @ \ {f}]
       /\ listing' = [listing EXCEPT ![k] = FALSE]
       /\ missed' = [missed EXCEPT ![k] = status = "failed"]
       /\ IF status = "ok"
          THEN /\ rows' = [rows EXCEPT ![k] = f.items]
               /\ total' = [total EXCEPT ![k] = f.total]
               /\ shownFor' = [shownFor EXCEPT ![k] = <<f.page, f.query>>]
          ELSE UNCHANGED <<rows, total, shownFor>>
       /\ UNCHANGED <<sessionVars, serverVars, tab, statsVars, page, search, debounced,
                      reportVars, busyVars, calls>>

ReportsLand(f, status) ==
    \/ RefusalLands(status)
    \/ /\ status \in {"ok", "failed"}
       /\ reportsFetch' = reportsFetch \ {f}
       /\ loadingReports' = FALSE
       /\ reports' = IF status = "ok" THEN f.reports ELSE reports
       /\ UNCHANGED <<sessionVars, serverVars, tab, statsVars, listVars, busyVars, calls>>

StatsEffect ==
    \E f \in statsFetch : StatsAnswered(f) \/ \E s \in Arrivals(f) : StatsLand(f, s)

ListEffect(k) ==
    \E f \in listFetch[k] : ListAnswered(k, f) \/ \E s \in Arrivals(f) : ListLands(k, f, s)

PastesEffect == ListEffect("pastes")

FilesEffect == ListEffect("files")

ReportsEffect ==
    \E f \in reportsFetch : ReportsAnswered(f) \/ \E s \in Arrivals(f) : ReportsLand(f, s)

-----------------------------------------------------------------------------
(* Searching and paging a list *)

\* The panel of a list replaces "LOADING..." once the statistics are there.
PanelShown(k) == DashboardShown /\ tab = k /\ ~loading

\* The list and its page buttons replace "LOADING PASTES..." once the list is there.
ListShown(k) == PanelShown(k) /\ ~listing[k]

TypeSearch(k, q) ==
    /\ PanelShown(k)
    /\ q # search[k]
    /\ search' = [search EXCEPT ![k] = q]
    /\ UNCHANGED <<sessionVars, serverVars, tab, statsVars, rows, total, listing,
                   page, debounced, shownFor, missed, listFetch, reportVars, busyVars, calls>>

\* 300 ms without typing.  The effect of the open list runs for the old page and
\* the new query; then the page is reset, which runs it again.
Debounce(k) ==
    /\ DashboardShown
    /\ debounced[k] # search[k]
    /\ debounced' = [debounced EXCEPT ![k] = search[k]]
    /\ page' = [page EXCEPT ![k] = 0]
    /\ IF tab = k
       THEN LET first == Cleanup(listFetch[k]) \union {ListRequest(stored, page[k], search[k])}
            IN  RunListEffect(k, IF page[k] = 0 THEN first
                    ELSE Cleanup(first) \union {ListRequest(stored, 0, search[k])})
       ELSE UNCHANGED <<listFetch, listing>>
    /\ UNCHANGED <<sessionVars, serverVars, tab, statsVars, rows, total, search,
                   shownFor, missed, reportVars, busyVars, calls>>

\* The buttons exist only when the server has more than a page.
TurnPage(k, p) ==
    /\ ListShown(k)
    /\ total[k] > PageSize
    /\ \/ p = page[k] - 1 /\ page[k] # 0
       \/ p = page[k] + 1 /\ (page[k] + 1) * PageSize < total[k]
    /\ page' = [page EXCEPT ![k] = p]
    /\ RunListEffect(k, Cleanup(listFetch[k]) \union {ListRequest(stored, p, debounced[k])})
    /\ UNCHANGED <<sessionVars, serverVars, tab, statsVars, rows, total, search,
                   debounced, shownFor, missed, reportVars, busyVars, calls>>

-----------------------------------------------------------------------------
(* Calls of handlers *)

Call(op, slug, report) ==
    [op |-> op, slug |-> slug, report |-> report, token |-> stored, status |-> "sent",
     own |-> TRUE]

\* A click sends a request; the calls under way are numbered from the lowest free number.
Send(call) ==
    \E i \in CallIds :
        /\ calls[i] = NoCall
        /\ \A j \in CallIds : j < i => calls[j] # NoCall
        /\ calls' = [calls EXCEPT ![i] = call]

\* ListSection: DELETE is off for the slug that is being deleted.
DeleteOffered(k, s) == ListShown(k) /\ s \in rows[k] /\ busySlug # s

HandleDelete(k, s) ==
    /\ DeleteOffered(k, s)
    /\ busySlug' = s
    /\ Send(Call("delete", s, None))
    /\ UNCHANGED <<sessionVars, serverVars, tab, statsVars, listVars, reportVars,
                   busyReport, purging>>

\* ReportsTableSection: the buttons of the report that is busy are off.
ReportOffered(r) ==
    /\ DashboardShown
    /\ tab = "reports"
    /\ ~loading /\ ~loadingReports
    /\ reports[r] # "gone"
    /\ busyReport # r

HandleReport(r, call) ==
    /\ ReportOffered(r)
    /\ busyReport' = r
    /\ Send(call)
    /\ UNCHANGED <<sessionVars, serverVars, tab, statsVars, listVars, reportVars,
                   busySlug, purging>>

HandleReportStatus(r, m) == reports[r] # m /\ HandleReport(r, Call(m, None, r))

HandleDeleteReportedContent(r) == HandleReport(r, Call("content", Target[r], r))

HandleDeleteReport(r) == HandleReport(r, Call("drop", None, r))

HandlePurge ==
    /\ DashboardShown
    /\ ~loading /\ ~purging
    /\ purging' = TRUE
    /\ Send(Call("purge", None, None))
    /\ UNCHANGED <<sessionVars, serverVars, tab, statsVars, listVars, reportVars, busySlug,
                   busyReport>>

-----------------------------------------------------------------------------
(* What calls do at the server *)

Ends(i, s) == calls' = [calls EXCEPT ![i].status = s]

\* DELETE /admin/pastes/{slug} and DELETE /admin/files/{slug}
DeleteContentCarriedOut(i) ==
    /\ calls[i].op \in {"delete", "content"}
    /\ there' = there \ {calls[i].slug}
    /\ Ends(i, IF calls[i].slug \in there THEN "ok" ELSE "404")
    /\ UNCHANGED filed

\* PATCH /admin/reports/{id} and DELETE /admin/reports/{id}
ReportCallCarriedOut(i) ==
    LET r == calls[i].report
        m == IF calls[i].op \in Marks THEN calls[i].op ELSE "gone"
    IN  /\ calls[i].op \in Marks \union {"drop", "dropAfter"}
        /\ filed' = [filed EXCEPT ![r] = IF @ = "gone" THEN "gone" ELSE m]
        /\ Ends(i, IF filed[r] = "gone" THEN "404" ELSE "ok")
        /\ UNCHANGED there

\* POST /admin/purge-expired: some of the content has expired.
PurgeCarriedOut(i) ==
    /\ calls[i].op = "purge"
    /\ \E kept \in SUBSET there : there' = kept
    /\ Ends(i, "ok")
    /\ UNCHANGED filed

CallAnswered(i) ==
    /\ calls[i].op # "none"
    /\ calls[i].status = "sent"
    /\ \/ /\ Verdict(calls[i].token) = "ok"
          /\ DeleteContentCarriedOut(i) \/ ReportCallCarriedOut(i) \/ PurgeCarriedOut(i)
       \/ /\ Verdict(calls[i].token) # "ok"
          /\ Ends(i, Verdict(calls[i].token))
          /\ UNCHANGED serverVars
    /\ UNCHANGED <<sessionVars, dashboardVars>>

-----------------------------------------------------------------------------
(* What their answers do to the dashboard that sent them *)

Done(i) == calls' = [calls EXCEPT ![i] = NoCall]

KindOf(s) == IF s \in Pastes THEN "pastes" ELSE "files"

\* Mutant: the count is not kept from going below zero.
RemoveRowUncapped(s) ==
    /\ rows' = [rows EXCEPT ![KindOf(s)] = @ \ {s}]
    /\ stats' = [stats EXCEPT ![KindOf(s)] = @ - 1]

\* The item leaves the list, and the statistics count one less.
RemoveRow(s) ==
    /\ rows' = [rows EXCEPT ![KindOf(s)] = @ \ {s}]
    /\ stats' = [stats EXCEPT ![KindOf(s)] = IF @ = 0 THEN 0 ELSE @ - 1]

KeepRows == UNCHANGED <<rows, stats>>

DeleteLands(i, s) ==
    /\ calls[i].own
    /\ calls[i].op = "delete"
    /\ IF s = "ok"
       THEN RemoveRow(calls[i].slug)
       ELSE KeepRows
    /\ busySlug' = None
    /\ Done(i)
    /\ UNCHANGED <<sessionVars, serverVars, tab, loading, statsFetch, total, listing, page, search,
                   debounced, shownFor, missed, listFetch, reportVars, busyReport, purging>>

\* "Not found" counts as deleted: either way the report is deleted next, whether
\* or not the dashboard is still there.
ContentLands(i, s) ==
    /\ calls[i].op = "content"
    /\ s \in {"ok", "404"}
    /\ calls' = [calls EXCEPT ![i].op = "dropAfter", ![i].status = "sent"]
    /\ IF calls[i].own /\ s = "ok" THEN RemoveRow(calls[i].slug) ELSE KeepRows
    /\ UNCHANGED <<sessionVars, serverVars, tab, loading, statsFetch, total, listing,
                   page, search, debounced, shownFor, missed, listFetch, reportVars, busyVars>>

ContentFails(i, s) ==
    /\ calls[i].own
    /\ calls[i].op = "content"
    /\ s \in {"401", "failed"}
    /\ busyReport' = None
    /\ Done(i)
    /\ UNCHANGED <<sessionVars, serverVars, tab, statsVars, listVars, reportVars, busySlug,
                   purging>>

\* What the deletion of the report after its content comes to is ignored.
ReportCallLands(i, s) ==
    LET r == calls[i].report
        op == calls[i].op
    IN  /\ calls[i].own
        /\ op \in Marks \union {"drop", "dropAfter"}
        /\ IF op # "dropAfter" /\ s # "ok"
           THEN UNCHANGED reports
           ELSE reports' = [reports EXCEPT ![r] =
                    IF op \in Marks /\ @ # "gone" THEN op ELSE "gone"]
        /\ busyReport' = None
        /\ Done(i)
        /\ UNCHANGED <<sessionVars, serverVars, tab, statsVars, listVars, loadingReports,
                       reportsFetch, busySlug, purging>>

PurgeLands(i, s) ==
    /\ calls[i].own
    /\ calls[i].op = "purge"
    /\ s \in {"ok", "failed"}
    /\ purging' = FALSE
    /\ IF s = "ok"
       THEN Reload
       ELSE UNCHANGED <<loading, statsFetch, listFetch, listing, reportsFetch, loadingReports>>
    /\ Done(i)
    /\ UNCHANGED <<sessionVars, serverVars, tab, stats, rows, total, page, search, debounced,
                   shownFor, missed, reports, busySlug, busyReport>>

\* handlePurge ends the session that is open, also when its own was another one.
PurgeRefused(i, s) ==
    /\ calls[i].op = "purge"
    /\ s \in Unauthorized
    /\ Logout([calls EXCEPT ![i] = NoCall])
    /\ UNCHANGED <<serverToken, past, gate, typed, serverVars>>

\* The dashboard has unmounted: its setters do nothing any more.
LandsNowhere(i, s) ==
    /\ calls[i].op # "none" /\ ~calls[i].own
    /\ ~(calls[i].op = "content" /\ s \in {"ok", "404"})
    /\ ~(calls[i].op = "purge" /\ s \in Unauthorized)
    /\ Done(i)
    /\ UNCHANGED <<sessionVars, serverVars, dashboardVars>>

CallLands(i) ==
    \E s \in Arrivals(calls[i]) :
        \/ DeleteLands(i, s)
        \/ ContentLands(i, s) \/ ContentFails(i, s)
        \/ ReportCallLands(i, s)
        \/ PurgeLands(i, s) \/ PurgeRefused(i, s)
        \/ LandsNowhere(i, s)

-----------------------------------------------------------------------------
ListPanel(k) ==
    \/ \E q \in Queries : TypeSearch(k, q)
    \/ \E p \in {page[k] - 1, page[k] + 1} : TurnPage(k, p)

PastePanel == ListPanel("pastes")

FilePanel == ListPanel("files")

HandleDeletePaste == \E s \in Pastes : HandleDelete("pastes", s)

HandleDeleteFile == \E s \in Files : HandleDelete("files", s)

ReportsPanel ==
    \E r \in Reports :
        \/ \E m \in Marks : HandleReportStatus(r, m)
        \/ HandleDeleteReportedContent(r)
        \/ HandleDeleteReport(r)

AdminStep ==
    \/ ClickLogout \/ ClickReload \/ HandlePurge
    \/ \E t \in Tabs : SelectTab(t)
    \/ PastePanel \/ FilePanel \/ ReportsPanel
    \/ HandleDeletePaste \/ HandleDeleteFile

OutsideStep == Restart \/ \E s \in Slugs : Vanish(s)

SystemStep ==
    \/ AtTheGate \/ Login
    \/ StatsEffect \/ PastesEffect \/ FilesEffect \/ ReportsEffect
    \/ \E k \in Kinds : Debounce(k)
    \/ \E i \in CallIds : CallAnswered(i) \/ CallLands(i)

Next ==
    \/ (AdminStep \/ OutsideStep) /\ events < MaxEvents /\ events' = events + 1
    \/ SystemStep /\ UNCHANGED events

Spec == Init /\ [][Next]_vars

-----------------------------------------------------------------------------
(* Properties *)

CallRecord ==
    [op : {"none", "delete", "content", "drop", "dropAfter", "purge"} \union Marks,
     slug : Slugs \union {None}, report : Reports \union {None},
     token : Tokens \union {None}, status : {"sent"} \union Statuses, own : BOOLEAN]

StatsRecord ==
    [token : Tokens \union {None}, status : {"sent"} \union Statuses, counts : [Kinds -> Nat]]

ListRecord ==
    [token : Tokens \union {None}, page : Nat, query : Queries,
     status : {"sent"} \union Statuses, items : SUBSET Slugs, total : Nat]

ReportsRecord ==
    [token : Tokens \union {None}, status : {"sent"} \union Statuses,
     reports : [Reports -> Marks \union {"gone"}]]

ServerTypeOK ==
    /\ there \subseteq Slugs
    /\ filed \in [Reports -> Marks \union {"gone"}]

PanelTypeOK ==
    /\ tab \in Tabs
    /\ stats \in [Kinds -> Nat]
    /\ loading \in BOOLEAN /\ purging \in BOOLEAN /\ loadingReports \in BOOLEAN
    /\ reports \in [Reports -> Marks \union {"gone"}]
    /\ busySlug \in Slugs \union {None} /\ busyReport \in Reports \union {None}

ListTypeOK ==
    /\ rows \in [Kinds -> SUBSET Slugs]
    /\ total \in [Kinds -> Nat] /\ page \in [Kinds -> Nat]
    /\ listing \in [Kinds -> BOOLEAN]
    /\ search \in [Kinds -> Queries] /\ debounced \in [Kinds -> Queries]
    /\ shownFor \in [Kinds -> (Nat \X Queries) \union {NotLoaded}]
    /\ missed \in [Kinds -> BOOLEAN]

FetchTypeOK ==
    /\ statsFetch \subseteq StatsRecord
    /\ listFetch \in [Kinds -> SUBSET ListRecord]
    /\ reportsFetch \subseteq ReportsRecord

CallTypeOK == calls \in [CallIds -> CallRecord]

TypeOK ==
    /\ SessionTypeOK /\ ServerTypeOK
    /\ PanelTypeOK /\ ListTypeOK
    /\ FetchTypeOK /\ CallTypeOK
    /\ events \in 0..MaxEvents

\* A call of the dashboard on screen, about this slug or this report.
OwnCall(ops, slug, report) ==
    \E i \in CallIds : /\ calls[i].own
                       /\ calls[i].op \in ops
                       /\ calls[i].slug = slug \/ slug = None
                       /\ calls[i].report = report \/ report = None

\* Whatever shows "LOADING..." or is disabled as busy has a request of its own
\* behind it whose answer will end that: a spinner whose fetch was cancelled by
\* a newer one is never left turning, a button never stays off.
WaitingIsForSomething ==
    /\ loading => statsFetch # {}
    /\ \A k \in Kinds : tab = k /\ listing[k] => listFetch[k] # {}
    /\ tab = "reports" /\ loadingReports => reportsFetch # {}
    /\ busySlug # None => OwnCall({"delete"}, busySlug, None)
    /\ busyReport # None =>
           OwnCall({"content", "drop", "dropAfter"} \union Marks, None, busyReport)
    /\ purging => OwnCall({"purge"}, None, None)

\* The rows on screen came with an answer to the page and the (debounced) search
\* in effect, in whatever order the answers to earlier pages, searches and reloads
\* arrive, unless the last fetch of the list failed: then the code keeps the rows
\* it had, below the number of the new page.
RowsMatchControls ==
    \A k \in Kinds :
        tab = k /\ ~listing[k] /\ ~missed[k] => shownFor[k] = <<page[k], debounced[k]>>

-----------------------------------------------------------------------------
(* The inductive invariant the proofs of AdminConsole_proofs rest on *)

\* A list that is not on screen has nothing under way, and what is under way for
\* the one on screen asks for the page and the search in effect.
FetchesBelong ==
    \A k \in Kinds :
        /\ tab # k => listFetch[k] = {}
        /\ \A f \in listFetch[k] : f.page = page[k] /\ f.query = debounced[k]

IInv == TypeOK /\ WaitingIsForSomething /\ FetchesBelong /\ RowsMatchControls
=============================================================================
