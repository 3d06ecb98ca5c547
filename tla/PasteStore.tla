------------------------------ MODULE PasteStore ------------------------------
(***************************************************************************)
(* The life of a paste across PostgreSQL (primary and read replica), the   *)
(* Redis cache and tombstones of db.PasteRepo, and the concurrent request  *)
(* handlers, burn goroutines and expiry sweeps that touch them.            *)
(*                                                                         *)
(* Every step below is one call of the code to Redis or PostgreSQL, with   *)
(* the local computation up to the next one: requests interleave between   *)
(* any two of them.  Time is abstracted: a Redis key may vanish at any     *)
(* moment (its TTL ran out) and a paste may expire at any moment.          *)
(*                                                                         *)
(* A paste stands for one row of the table, with the slug, burn flag and   *)
(* visibility it is created with; two pastes may have the same slug, one   *)
(* after the other.  A request is used once, as a goroutine of net/http.   *)
(***************************************************************************)
EXTENDS Naturals, Sequences, FiniteSets

CONSTANTS
    Slugs,
    Pastes,       \* every paste that may exist
    NoPaste,
    SlugOf,       \* the slug a paste is created with
    Burns,        \* pastes with burn_after_read
    Protected,    \* pastes with visibility password_protected
    Listed,       \* pastes with visibility public
    Requests,     \* request goroutines
    Instances,    \* server processes
    Home,         \* the process a request runs in
    NoList,
    Ops,          \* the kinds of request explored
    HasReplica,   \* DATABASE_READ_URL names a replica
    Faults        \* subset of {"redis", "db", "crash"}

ReadOps == {"view", "peek", "raw", "unlock", "fork"}
CreateOps == {"create", "generate"}
AllOps == ReadOps \cup CreateOps \cup {"list", "remove"}
Row == Pastes \cup {NoPaste}

ASSUME StoreAssumption ==
    /\ Slugs # {}
    /\ SlugOf \in [Pastes -> Slugs]
    /\ Burns \subseteq Pastes
    /\ Protected \subseteq Pastes
    /\ Listed \subseteq Pastes \ Protected
    /\ Home \in [Requests -> Instances]
    /\ IsFiniteSet(Requests)
    /\ NoPaste \notin Pastes
    /\ \A S \in SUBSET Pastes : S # NoList
    /\ Ops \subseteq AllOps
    /\ HasReplica \in BOOLEAN
    /\ Faults \subseteq {"redis", "db", "crash"}

VARIABLES
    primary,      \* the row of a slug in the write pool's database
    replica,      \* the row of a slug as the read replica has it
    wal,          \* row changes the replica has not applied yet, oldest first
    cache,        \* Redis paste:cache:<slug>
    tombstone,    \* slugs with a Redis paste:tombstone:<slug>
    recent,       \* Redis paste:recent, the cached public listing
    views,        \* Redis paste:views, the buffered view counts
    born,         \* pastes whose row was inserted, now or earlier
    expired,      \* pastes past their expires_at
    op, at, new,  \* a request: its kind, its slug, the paste it creates
    pc,           \* its next call
    got, checked, page, out,  \* its paste, the paste whose password it proved,
                  \* its listing, its response
    del,          \* the deletion by slug a request launched or performs
    sweep,        \* per process, the expired rows a cleanup cycle still handles
    before        \* history: pastes that had expired, or whose deletion had
                  \* completed, when the request started

stores == <<primary, replica, wal, cache, tombstone, recent, views, born, expired>>
asked  == <<op, at, new>>
local  == <<asked, got, checked, page, out>>
vars   == <<stores, local, pc, del, sweep, before>>

-----------------------------------------------------------------------------
(* The two databases *)

ReadRow(s) == IF HasReplica THEN replica[s] ELSE primary[s]

Live == {p \in Pastes : primary[SlugOf[p]] = p}

Write(s, row) ==
    /\ primary' = [primary EXCEPT ![s] = row]
    /\ wal' = IF HasReplica THEN Append(wal, [slug |-> s, row |-> row]) ELSE wal
    /\ UNCHANGED replica

\* The replica replays the next change of the primary's log.
Replicate ==
    /\ wal # <<>>
    /\ replica' = [replica EXCEPT ![Head(wal).slug] = Head(wal).row]
    /\ wal' = Tail(wal)
    /\ UNCHANGED <<primary, cache, tombstone, recent, views, born, expired,
                   local, pc, del, sweep, before>>

RedisMayFail == "redis" \in Faults
DbMayFail == "db" \in Faults

-----------------------------------------------------------------------------
(* A deletion by slug under way, and the history a request starts with *)

Deleting == {"forget", "mark", "drop"}
Busy(r) == del[r] \in Deleting

DeletedFor(p) == /\ p \in born \ Live
                 /\ \A r \in Requests : at[r] = SlugOf[p] => ~Busy(r)

GoneSoFar == [expired |-> expired, deleted |-> {p \in Pastes : DeletedFor(p)}]

Start(r, o, s, first) ==
    /\ pc[r] = "idle"
    /\ o \in Ops
    /\ op' = [op EXCEPT ![r] = o]
    /\ at' = [at EXCEPT ![r] = s]
    /\ pc' = [pc EXCEPT ![r] = first]
    /\ before' = [before EXCEPT ![r] = GoneSoFar]

StartRead(r, s) ==
    /\ \E o \in ReadOps : Start(r, o, s, "exists")
    /\ UNCHANGED <<stores, new, got, checked, page, out, del, sweep>>

\* A create names its slug ("create") or has one generated ("generate"); a
\* new paste is a new row, so no other request creates the same one.
StartCreate(r, p) ==
    /\ p \notin born
    /\ \A q \in Requests : new[q] # p
    /\ \/ Start(r, "create", SlugOf[p], "exists")
       \/ Start(r, "generate", SlugOf[p], "probe")
    /\ new' = [new EXCEPT ![r] = p]
    /\ UNCHANGED <<stores, got, checked, page, out, del, sweep>>

\* The admin's DeletePaste is the deletion itself; nothing follows it.
StartRemove(r, s) ==
    /\ Start(r, "remove", s, "done")
    /\ del' = [del EXCEPT ![r] = "forget"]
    /\ UNCHANGED <<stores, new, got, checked, page, out, sweep>>

StartList(r) ==
    /\ \E s \in Slugs : Start(r, "list", s, "recent")
    /\ UNCHANGED <<stores, new, got, checked, page, out, del, sweep>>

Goto(r, l) == pc' = [pc EXCEPT ![r] = l]

Finish(r, o) == /\ Goto(r, "done")
                /\ out' = [out EXCEPT ![r] = o]

-----------------------------------------------------------------------------
(* PasteRepo.GetBySlug, called by every read and by the availability check  *)
(* of a custom slug.  A Redis error is treated as a miss.                   *)

\* Any error of the lookup tells a create that the slug is free.
NotFound(r) == IF op[r] = "create"
               THEN Goto(r, "insert") /\ UNCHANGED out
               ELSE Finish(r, "missing")

CheckTombstone(r) ==
    /\ pc[r] = "exists"
    /\ \/ at[r] \in tombstone /\ NotFound(r)
       \/ /\ at[r] \notin tombstone \/ RedisMayFail
          /\ Goto(r, "get")
          /\ UNCHANGED out
    /\ UNCHANGED <<stores, asked, got, checked, page, del, sweep, before>>

CacheGet(r) ==
    /\ pc[r] = "get"
    /\ \/ /\ cache[at[r]] # NoPaste
          /\ got' = [got EXCEPT ![r] = cache[at[r]]]
          /\ Goto(r, "ret")
       \/ /\ cache[at[r]] = NoPaste \/ RedisMayFail
          /\ Goto(r, "select")
          /\ UNCHANGED got
    /\ UNCHANGED <<stores, asked, checked, page, out, del, sweep, before>>

SelectRow(r) ==
    /\ pc[r] = "select"
    /\ \/ /\ ReadRow(at[r]) # NoPaste
          /\ got' = [got EXCEPT ![r] = ReadRow(at[r])]
          /\ Goto(r, IF ReadRow(at[r]) \in expired THEN "ret" ELSE "recheck")
          /\ UNCHANGED out
       \/ /\ ReadRow(at[r]) = NoPaste \/ DbMayFail
          /\ NotFound(r)
          /\ UNCHANGED got
    /\ UNCHANGED <<stores, asked, checked, page, del, sweep, before>>

RecheckTombstone(r) ==
    /\ pc[r] = "recheck"
    /\ \/ at[r] \in tombstone /\ Goto(r, "ret")
       \/ (at[r] \notin tombstone \/ RedisMayFail) /\ Goto(r, "set")
    /\ UNCHANGED <<stores, local, del, sweep, before>>

CacheSet(r) ==
    /\ pc[r] = "set"
    /\ \/ cache' = [cache EXCEPT ![at[r]] = got[r]]
       \/ RedisMayFail /\ UNCHANGED cache
    /\ Goto(r, "ret")
    /\ UNCHANGED <<primary, replica, wal, tombstone, recent, views, born, expired,
                   local, del, sweep, before>>

-----------------------------------------------------------------------------
(* paste.Service and the handlers, once the lookup has returned a paste *)

\* Mutant: no second deletion for a slug that is already marked deleted.
LaunchBurnUnlessMarked(r) ==
    del' = IF got[r] \in Burns /\ at[r] \notin tombstone
           THEN [del EXCEPT ![r] = "forget"] ELSE del

\* Service.GetBySlug launches the deletion of a burn paste unless skip_burn.
LaunchBurn(r) == del' = IF got[r] \in Burns
                        THEN [del EXCEPT ![r] = "forget"] ELSE del

AtReturn(r, ops) == pc[r] = "ret" /\ op[r] \in ops

\* The availability check of a custom slug found a paste, expired or not.
ReturnTaken(r) ==
    /\ AtReturn(r, {"create"})
    /\ Finish(r, "taken")
    /\ UNCHANGED <<stores, asked, got, checked, page, del, sweep, before>>

ReturnExpired(r) ==
    /\ AtReturn(r, ReadOps)
    /\ got[r] \in expired
    /\ Finish(r, "expired")
    /\ UNCHANGED <<stores, asked, got, checked, page, del, sweep, before>>

\* Mutant: the service leaves expiry to the sweep.
ReturnOpenUnchecked(r) ==
    /\ AtReturn(r, {"view", "raw"})
    /\ LaunchBurn(r)
    /\ IF got[r] \in Protected THEN Finish(r, "denied")
       ELSE /\ Goto(r, IF op[r] = "view" THEN "count" ELSE "reply")
            /\ UNCHANGED out
    /\ UNCHANGED <<stores, asked, got, checked, page, sweep, before>>

\* HandleView and HandleRaw: the service burns before the handler looks at
\* the visibility; raw replies at once, view counts the view first.
ReturnOpen(r) ==
    /\ AtReturn(r, {"view", "raw"})
    /\ got[r] \notin expired
    /\ LaunchBurn(r)
    /\ IF got[r] \in Protected THEN Finish(r, "denied")
       ELSE /\ Goto(r, IF op[r] = "view" THEN "count" ELSE "reply")
            /\ UNCHANGED out
    /\ UNCHANGED <<stores, asked, got, checked, page, sweep, before>>

\* HandleView with peek=true: no burn, and no content of a burn paste.
ReturnPeek(r) ==
    /\ AtReturn(r, {"peek"})
    /\ got[r] \notin expired
    /\ IF got[r] \in Protected THEN Finish(r, "denied")
       ELSE IF got[r] \in Burns THEN Finish(r, "hidden")
       ELSE Goto(r, "count") /\ UNCHANGED out
    /\ UNCHANGED <<stores, asked, got, checked, page, del, sweep, before>>

\* HandleFork hands out the content of the paste as the draft of a new one:
\* no burn, no question about the visibility.
ReturnFork(r) ==
    /\ AtReturn(r, {"fork"})
    /\ got[r] \notin expired
    /\ Finish(r, "content")
    /\ UNCHANGED <<stores, asked, got, checked, page, del, sweep, before>>

\* HandleUnlock, first lookup (ValidatePassword): a paste with no password
\* is granted; otherwise the given password is right or wrong for this paste.
ReturnValidate(r) ==
    /\ AtReturn(r, {"unlock"})
    /\ checked[r] = NoPaste
    /\ got[r] \notin expired
    /\ \/ /\ checked' = [checked EXCEPT ![r] = got[r]]
          /\ Goto(r, "count")
          /\ UNCHANGED out
       \/ /\ got[r] \in Protected
          /\ Finish(r, "denied")
          /\ UNCHANGED checked
    /\ UNCHANGED <<stores, asked, got, page, del, sweep, before>>

\* HandleUnlock, second lookup, the one that burns and whose paste is shown.
ReturnUnlocked(r) ==
    /\ AtReturn(r, {"unlock"})
    /\ checked[r] # NoPaste
    /\ got[r] \notin expired
    /\ LaunchBurn(r)
    /\ Goto(r, "reply")
    /\ UNCHANGED <<stores, local, sweep, before>>

\* Mutant: only the first lookup of an unlock counts a view.
CountUnlockOnly(r) ==
    /\ pc[r] = "count"
    /\ views' = IF op[r] = "unlock" THEN [views EXCEPT ![at[r]] = @ + 1] ELSE views
    /\ IF op[r] = "unlock"
       THEN Goto(r, "exists") /\ got' = [got EXCEPT ![r] = NoPaste]
       ELSE Goto(r, "reply") /\ UNCHANGED got
    /\ UNCHANGED <<primary, replica, wal, cache, tombstone, recent, born, expired,
                   asked, checked, page, out, del, sweep, before>>

\* IncrementViews on the Redis buffer; its error is ignored.  A view then
\* replies; an unlock looks the paste up a second time.
CountView(r) ==
    /\ pc[r] = "count"
    /\ \/ views' = [views EXCEPT ![at[r]] = @ + 1]
       \/ RedisMayFail /\ UNCHANGED views
    /\ IF op[r] = "unlock"
       THEN Goto(r, "exists") /\ got' = [got EXCEPT ![r] = NoPaste]
       ELSE Goto(r, "reply") /\ UNCHANGED got
    /\ UNCHANGED <<primary, replica, wal, cache, tombstone, recent, born, expired,
                   asked, checked, page, out, del, sweep, before>>

Reply(r) ==
    /\ pc[r] = "reply"
    /\ Finish(r, "content")
    /\ UNCHANGED <<stores, asked, got, checked, page, del, sweep, before>>

-----------------------------------------------------------------------------
(* Creation and listing *)

\* GenerateSlug asks the read pool whether the random slug exists.  A taken
\* one is drawn again: here the request ends, and another one draws.
ProbeSlug(r) ==
    /\ pc[r] = "probe"
    /\ \/ ReadRow(at[r]) = NoPaste /\ Goto(r, "insert") /\ UNCHANGED out
       \/ (ReadRow(at[r]) # NoPaste \/ DbMayFail) /\ Finish(r, "taken")
    /\ UNCHANGED <<stores, asked, got, checked, page, del, sweep, before>>

\* Mutant: INSERT ... ON CONFLICT (slug) DO UPDATE.
InsertRowUpsert(r) ==
    /\ pc[r] = "insert"
    /\ Write(at[r], new[r])
    /\ born' = born \cup {new[r]}
    /\ Goto(r, "relist")
    /\ UNCHANGED <<cache, tombstone, recent, views, expired, local, del, sweep, before>>

\* The UNIQUE constraint on slug decides.  An error may hide a row that was
\* inserted: its author is told that the creation failed.
InsertRow(r) ==
    /\ pc[r] = "insert"
    /\ primary[at[r]] = NoPaste
    /\ Write(at[r], new[r])
    /\ born' = born \cup {new[r]}
    /\ \/ Goto(r, "relist") /\ UNCHANGED out
       \/ DbMayFail /\ Finish(r, "refused")
    /\ UNCHANGED <<cache, tombstone, recent, views, expired, asked, got, checked, page,
                   del, sweep, before>>

\* A row that was inserted, and said to be, invalidates paste:recent.
ForgetRecent(r) ==
    /\ pc[r] = "relist"
    /\ \/ recent' = NoList
       \/ RedisMayFail /\ UNCHANGED recent
    /\ Finish(r, "created")
    /\ UNCHANGED <<primary, replica, wal, cache, tombstone, views, born, expired,
                   asked, got, checked, page, del, sweep, before>>

InsertRefused(r) ==
    /\ pc[r] = "insert"
    /\ primary[at[r]] # NoPaste \/ DbMayFail
    /\ Finish(r, "refused")
    /\ UNCHANGED <<stores, asked, got, checked, page, del, sweep, before>>

\* ListPublicRecent: the cached list, or a query of the read pool whose
\* result is cached for 60 s.
ListCached(r) ==
    /\ pc[r] = "recent"
    /\ \/ recent # NoList /\ Finish(r, "listed")
       \/ (recent = NoList \/ RedisMayFail) /\ Goto(r, "query") /\ UNCHANGED out
    /\ UNCHANGED <<stores, asked, got, checked, page, del, sweep, before>>

PublicRows == {p \in Listed \ expired : ReadRow(SlugOf[p]) = p}

ListQuery(r) ==
    /\ pc[r] = "query"
    /\ \/ page' = [page EXCEPT ![r] = PublicRows] /\ Goto(r, "keep") /\ UNCHANGED out
       \/ DbMayFail /\ Finish(r, "missing") /\ UNCHANGED page
    /\ UNCHANGED <<stores, asked, got, checked, del, sweep, before>>

ListKeep(r) ==
    /\ pc[r] = "keep"
    /\ \/ recent' = page[r]
       \/ RedisMayFail /\ UNCHANGED recent
    /\ Finish(r, "listed")
    /\ UNCHANGED <<primary, replica, wal, cache, tombstone, views, born, expired,
                   asked, got, checked, page, del, sweep, before>>

-----------------------------------------------------------------------------
(* DeletePasteBySlug, run by a burn goroutine or an admin request *)

DelTo(r, l) == del' = [del EXCEPT ![r] = l]

ForgetCache(r) ==
    /\ del[r] = "forget"
    /\ \/ cache' = [cache EXCEPT ![at[r]] = NoPaste]
       \/ RedisMayFail /\ UNCHANGED cache
    /\ DelTo(r, "mark")
    /\ UNCHANGED <<primary, replica, wal, tombstone, recent, views, born, expired,
                   local, pc, sweep, before>>

SetTombstone(r) ==
    /\ del[r] = "mark"
    /\ \/ tombstone' = tombstone \cup {at[r]}
       \/ RedisMayFail /\ UNCHANGED tombstone
    /\ DelTo(r, "drop")
    /\ UNCHANGED <<primary, replica, wal, cache, recent, views, born, expired,
                   local, pc, sweep, before>>

\* DELETE ... WHERE slug: whatever row has the slug now.  An error may hide a
\* deletion that was executed.
DropRow(r) ==
    /\ del[r] = "drop"
    /\ IF primary[at[r]] # NoPaste THEN Write(at[r], NoPaste)
       ELSE UNCHANGED <<primary, replica, wal>>
    /\ DelTo(r, "done") \/ (DbMayFail /\ DelTo(r, "failed"))
    /\ UNCHANGED <<cache, tombstone, recent, views, born, expired,
                   local, pc, sweep, before>>

DropRowFails(r) ==
    /\ del[r] = "drop"
    /\ DbMayFail
    /\ DelTo(r, "failed")
    /\ UNCHANGED <<stores, local, pc, sweep, before>>

-----------------------------------------------------------------------------
(* A cleanup cycle of expiry.Manager over pastes, in process i.  A batch is  *)
(* any set of expired rows the read pool lists (LIMIT without ORDER BY).     *)

Idle == [todo |-> {}, cur |-> NoPaste]

SweepList(i) ==
    /\ sweep[i] = Idle
    /\ \E batch \in SUBSET {p \in expired : ReadRow(SlugOf[p]) = p} :
          /\ batch # {}
          /\ sweep' = [sweep EXCEPT ![i].todo = batch]
    /\ UNCHANGED <<stores, local, pc, del, before>>

\* Mutant: the slug lookup of a row that is gone ends the cycle with an error.
SweepForgetLive(i, p) ==
    /\ sweep[i].cur = NoPaste
    /\ p \in sweep[i].todo \cap Live
    /\ sweep' = [sweep EXCEPT ![i] = [todo |-> @.todo \ {p}, cur |-> p]]
    /\ cache' = [cache EXCEPT ![SlugOf[p]] = NoPaste]
    /\ UNCHANGED <<primary, replica, wal, tombstone, recent, views, born, expired,
                   local, pc, del, before>>

\* ExpiryStore.DeletePaste looks the slug up by id and drops its cache entry.
SweepForget(i, p) ==
    /\ sweep[i].cur = NoPaste
    /\ p \in sweep[i].todo
    /\ sweep' = [sweep EXCEPT ![i] = [todo |-> @.todo \ {p}, cur |-> p]]
    /\ IF p \in Live
       THEN \/ cache' = [cache EXCEPT ![SlugOf[p]] = NoPaste]
            \/ RedisMayFail /\ UNCHANGED cache
       ELSE UNCHANGED cache
    /\ UNCHANGED <<primary, replica, wal, tombstone, recent, views, born, expired,
                   local, pc, del, before>>

\* Mutant: DELETE ... WHERE slug.
SweepDropBySlug(i) ==
    /\ sweep[i].cur # NoPaste
    /\ sweep' = [sweep EXCEPT ![i].cur = NoPaste]
    /\ Write(SlugOf[sweep[i].cur], NoPaste)
    /\ UNCHANGED <<cache, tombstone, recent, views, born, expired,
                   local, pc, del, before>>

\* DELETE ... WHERE id: this row or none.
SweepDrop(i) ==
    /\ sweep[i].cur # NoPaste
    /\ sweep' = [sweep EXCEPT ![i].cur = NoPaste]
    /\ \/ IF sweep[i].cur \in Live THEN Write(SlugOf[sweep[i].cur], NoPaste)
          ELSE UNCHANGED <<primary, replica, wal>>
       \/ DbMayFail /\ UNCHANGED <<primary, replica, wal>>
    /\ UNCHANGED <<cache, tombstone, recent, views, born, expired,
                   local, pc, del, before>>

-----------------------------------------------------------------------------
(* The environment: time and process crashes *)

ExpirePaste(p) ==
    /\ p \in born \ expired
    /\ expired' = expired \cup {p}
    /\ UNCHANGED <<primary, replica, wal, cache, tombstone, recent, views, born,
                   local, pc, del, sweep, before>>

\* Mutants: a key that is set without a TTL.
CacheForever(s) == FALSE /\ UNCHANGED vars
TombstoneForever(s) == FALSE /\ UNCHANGED vars

CacheTTL(s) ==
    /\ cache[s] # NoPaste
    /\ cache' = [cache EXCEPT ![s] = NoPaste]
    /\ UNCHANGED <<primary, replica, wal, tombstone, recent, views, born, expired,
                   local, pc, del, sweep, before>>

TombstoneTTL(s) ==
    /\ s \in tombstone
    /\ tombstone' = tombstone \ {s}
    /\ UNCHANGED <<primary, replica, wal, cache, recent, views, born, expired,
                   local, pc, del, sweep, before>>

RecentTTL ==
    /\ recent # NoList
    /\ recent' = NoList
    /\ UNCHANGED <<primary, replica, wal, cache, tombstone, views, born, expired,
                   local, pc, del, sweep, before>>

\* A process dies with its requests, its burn goroutines and its sweep.
Crash(i) ==
    /\ "crash" \in Faults
    /\ \/ sweep[i] # Idle
       \/ \E r \in Requests : Home[r] = i /\ (pc[r] \notin {"idle", "done", "dead"} \/ Busy(r))
    /\ pc' = [r \in Requests |-> IF Home[r] = i /\ pc[r] \notin {"idle", "done"}
                                 THEN "dead" ELSE pc[r]]
    /\ del' = [r \in Requests |-> IF Home[r] = i /\ Busy(r) THEN "lost" ELSE del[r]]
    /\ sweep' = [sweep EXCEPT ![i] = Idle]
    /\ UNCHANGED <<stores, local, before>>

-----------------------------------------------------------------------------
(* The specification *)

\* A server (re)started over a database that may hold rows, with a cold
\* cache and a replica that has caught up.
Init ==
    /\ primary \in {f \in [Slugs -> Row] : \A s \in Slugs : f[s] # NoPaste => SlugOf[f[s]] = s}
    /\ replica = primary
    /\ wal = <<>>
    /\ cache = [s \in Slugs |-> NoPaste]
    /\ tombstone = {}
    /\ recent = NoList
    /\ views = [s \in Slugs |-> 0]
    /\ born = Live
    /\ expired = {}
    /\ op = [r \in Requests |-> "none"]
    /\ pc = [r \in Requests |-> "idle"]
    /\ at = [r \in Requests |-> CHOOSE s \in Slugs : TRUE]
    /\ new = [r \in Requests |-> NoPaste]
    /\ got = [r \in Requests |-> NoPaste]
    /\ checked = [r \in Requests |-> NoPaste]
    /\ page = [r \in Requests |-> NoList]
    /\ out = [r \in Requests |-> "none"]
    /\ del = [r \in Requests |-> "none"]
    /\ sweep = [i \in Instances |-> Idle]
    /\ before = [r \in Requests |-> [expired |-> {}, deleted |-> {}]]

Lookup(r) == \/ CheckTombstone(r) \/ CacheGet(r) \/ SelectRow(r)
             \/ RecheckTombstone(r) \/ CacheSet(r)

Return(r) == \/ ReturnTaken(r) \/ ReturnExpired(r) \/ ReturnOpen(r) \/ ReturnPeek(r)
             \/ ReturnFork(r) \/ ReturnValidate(r) \/ ReturnUnlocked(r)

Create(r) == ProbeSlug(r) \/ InsertRow(r) \/ ForgetRecent(r) \/ InsertRefused(r)

List(r) == ListCached(r) \/ ListQuery(r) \/ ListKeep(r)

Request(r) == Lookup(r) \/ Return(r) \/ CountView(r) \/ Reply(r) \/ Create(r) \/ List(r)

Delete(r) == ForgetCache(r) \/ SetTombstone(r) \/ DropRow(r) \/ DropRowFails(r)

Sweep(i) == SweepList(i) \/ SweepDrop(i) \/ \E p \in Pastes : SweepForget(i, p)

Arrive(r) == \/ \E s \in Slugs : StartRead(r, s) \/ StartRemove(r, s)
             \/ \E p \in Pastes : StartCreate(r, p)
             \/ StartList(r)

Age == \/ \E p \in Pastes : ExpirePaste(p)
       \/ \E s \in Slugs : CacheTTL(s) \/ TombstoneTTL(s)
       \/ RecentTTL

Next == \/ \E r \in Requests : Arrive(r) \/ Request(r) \/ Delete(r)
        \/ \E i \in Instances : Sweep(i) \/ Crash(i)
        \/ Replicate
        \/ Age

Spec == Init /\ [][Next]_vars

\* Every goroutine that is running, the replication stream and the Redis
\* TTLs make progress; arrivals, expiry and faults are not owed to anyone.
Fairness ==
    /\ \A r \in Requests : WF_vars(Request(r)) /\ WF_vars(Delete(r))
    /\ \A i \in Instances : WF_vars(Sweep(i))
    /\ WF_vars(Replicate)
    /\ \A s \in Slugs : WF_vars(CacheTTL(s)) /\ WF_vars(TombstoneTTL(s))
    /\ WF_vars(RecentTTL)

FairSpec == Spec /\ Fairness

-----------------------------------------------------------------------------
(* Properties *)

Locations == {"idle", "exists", "get", "select", "recheck", "set", "ret", "count",
              "reply", "probe", "insert", "relist", "recent", "query", "keep", "done", "dead"}
Responses == {"none", "missing", "expired", "denied", "hidden", "content", "taken",
              "created", "refused", "listed"}

Change == [slug : Slugs, row : Row]
Cycle == [todo : SUBSET Pastes, cur : Row]
Past == [expired : SUBSET Pastes, deleted : SUBSET Pastes]
Lists == {NoList} \cup SUBSET Pastes
Kinds == AllOps \cup {"none"}
Deletions == Deleting \cup {"none", "done", "failed", "lost"}

\* Every variable has its type (PasteRepo's stores and a handler's locals).
TypeOK ==
    /\ primary \in [Slugs -> Row]
    /\ replica \in [Slugs -> Row]
    /\ wal \in Seq(Change)
    /\ cache \in [Slugs -> Row]
    /\ tombstone \in SUBSET Slugs
    /\ recent \in Lists
    /\ views \in [Slugs -> Nat]
    /\ born \in SUBSET Pastes
    /\ expired \in SUBSET Pastes
    /\ op \in [Requests -> Kinds]
    /\ at \in [Requests -> Slugs]
    /\ new \in [Requests -> Row]
    /\ pc \in [Requests -> Locations]
    /\ got \in [Requests -> Row]
    /\ checked \in [Requests -> Row]
    /\ page \in [Requests -> Lists]
    /\ out \in [Requests -> Responses]
    /\ del \in [Requests -> Deletions]
    /\ sweep \in [Instances -> Cycle]
    /\ before \in [Requests -> Past]

\* The requests whose lookup launches the deletion of a burn paste.
Consuming == {"view", "raw", "unlock"}

\* The reader was given the paste to read: by any route but fork, which hands
\* the content of any paste out as the draft of a new one (ReturnFork).
Shown(r) == out[r] = "content" /\ op[r] # "fork"
Copied(r) == out[r] = "content" /\ op[r] = "fork"

\* Whoever was shown a burn paste, by any route but fork, has triggered its
\* deletion (so a peek never shows one), and once that deletion has run the
\* row is gone for good: neither the two lookups of an unlock, nor the cache,
\* nor a re-creation of the slug brings it back (Service.GetBySlug's burn and
\* DeletePasteBySlug).  A fork is left out because Service.Fork burns nothing:
\* see ContentBurns.
BurnSettled ==
    \A r \in Requests :
        Shown(r) /\ got[r] \in Burns =>
            /\ del[r] # "none"
            /\ del[r] = "done" => got[r] \notin Live

\* A request that starts after a paste has expired is never shown it, even
\* when the sweep removed the row without a tombstone and a slow reader put
\* the record back into the cache (the service's own expiry check).
ExpiredNeverServed ==
    \A r \in Requests : out[r] = "content" => got[r] \notin before[r].expired

\* The view buffer of a slug has counted every reply HandleView and
\* HandleUnlock gave for it, burn pastes and crashes included.
ViewsCoverReplies ==
    RedisMayFail \/
    \A s \in Slugs :
        views[s] >= Cardinality({r \in Requests : /\ at[r] = s
                                                  /\ out[r] = "content"
                                                  /\ op[r] \in {"view", "peek", "unlock"}})

\* A row disappears only when its paste has expired, or by a deletion of its
\* slug that an admin asked for or that a view, raw view or unlock of a burn
\* paste launched: peeks, forks, failed unlocks and lookups that find nothing
\* cost nobody a paste, and the sweep never takes a newer paste that re-uses
\* the slug of an expired one.  A view that is denied (401) for want of the
\* password is such a cause, as it launches the deletion all the same, and the
\* deletion goes by slug: the paste it takes may be a later one.
RowLossHasCause ==
    [][\A p \in Live \ Live' :
          \/ p \in expired
          \/ \E r \in Requests : /\ del[r] = "drop"
                                 /\ at[r] = SlugOf[p]
                                 /\ \/ op[r] = "remove"
                                    \/ op[r] \in Consuming /\ got[r] \in Burns]_vars

\* Once the deletion a reader launched has run, the paste leaves the replica
\* and the cache too and never comes back, whatever the cache raced with:
\* a re-cached record lives at most as long as its TTL.
BurnEventuallyForgotten ==
    \A r \in Requests, p \in Burns :
        (del[r] = "done" /\ got[r] = p) ~>
            [](p \notin Live /\ replica[SlugOf[p]] # p /\ cache[SlugOf[p]] # p)

\* A created paste becomes readable (its row reaches the read pool, no
\* tombstone or cached predecessor hides it), unless it is gone before.
CreatedBecomesReadable ==
    \A p \in Pastes :
        (p \in Live) ~> \/ p \notin Live
                        \/ /\ ReadRow(SlugOf[p]) = p
                           /\ SlugOf[p] \notin tombstone
                           /\ cache[SlugOf[p]] \in {NoPaste, p}

\* An expired paste's row is removed by the sweep in the end, even when the
\* replica still lists rows that are already gone.
ExpiredEventuallySwept == \A p \in Pastes : (p \in expired) ~> (p \notin Live)

-----------------------------------------------------------------------------
(* What the comments and the docs say, and the code does not keep *)

\* "prevent re-caching stale data" (GetBySlug): a request that starts after
\* the deletion of a paste has completed is not shown the paste.
DeletedStaysDeleted ==
    \A r \in Requests : out[r] = "content" => got[r] \notin before[r].deleted

\* "delete the paste after returning it" (Service.GetBySlug): the deletion a
\* burn launches removes the paste that was read and no other.
BurnTakesOwnPaste ==
    [][\A p \in Live \ Live' : \A r \in Requests :
          del[r] = "drop" /\ del'[r] = "done" /\ op[r] \in Consuming => got[r] = p]_vars

\* "Delete paste after first view." (the API docs on burn_after_read): whoever
\* was given the content of a burn paste, by whatever route, has launched its
\* deletion.  A fork has not.
ContentBurns ==
    \A r \in Requests : out[r] = "content" /\ got[r] \in Burns => del[r] # "none"

\* "the paste is deleted immediately after retrieval" (Service.GetBySlug): a
\* burn paste is shown to one reader only.
BurnShownOnce ==
    \A q, r \in Requests :
        Shown(q) /\ Shown(r) /\ got[q] = got[r] /\ got[q] \in Burns => q = r

-----------------------------------------------------------------------------
(* The inductive invariant the proofs of PasteStore_proofs rest on *)

Stored(p, s) == p # NoPaste => p \in born /\ SlugOf[p] = s

\* Every copy of a row is of a paste that was inserted, under its own slug.
RowsOK ==
    /\ \A s \in Slugs : Stored(primary[s], s) /\ Stored(replica[s], s) /\ Stored(cache[s], s)
    /\ \A k \in 1..Len(wal) : Stored(wal[k].row, wal[k].slug)
    /\ \A r \in Requests : Stored(got[r], at[r]) /\ Stored(checked[r], at[r])

\* A create owns a paste of its slug, which is not a row before its INSERT.
CreatesOK ==
    \A r \in Requests :
        /\ new[r] # NoPaste => SlugOf[new[r]] = at[r]
        /\ op[r] \in CreateOps => new[r] # NoPaste
        /\ pc[r] \in {"insert", "probe", "relist"} => op[r] \in CreateOps
        /\ new[r] # NoPaste /\ new[r] \in born => pc[r] \in {"relist", "done", "dead"}
        /\ \A q \in Requests : new[q] = new[r] /\ new[r] # NoPaste => q = r

\* Where a request stands determines what it has fetched, answered and burned.
FlowOK ==
    \A r \in Requests :
        /\ pc[r] = "idle" => /\ op[r] = "none" /\ del[r] = "none"
                             /\ new[r] = NoPaste /\ got[r] = NoPaste /\ checked[r] = NoPaste
        /\ pc[r] \in {"recheck", "set", "ret", "reply"} => got[r] # NoPaste
        /\ pc[r] = "count" => got[r] # NoPaste /\ op[r] \in {"view", "peek", "unlock"}
        /\ pc[r] = "reply" => op[r] \in ReadOps /\ op[r] # "fork"
        /\ out[r] # "none" => pc[r] = "done"
        /\ out[r] = "content" => got[r] # NoPaste /\ op[r] \in ReadOps
        /\ del[r] # "none" /\ op[r] # "remove" =>
              /\ op[r] \in Consuming /\ got[r] \in Burns
              /\ pc[r] \in {"count", "reply", "done", "dead"}
              /\ pc[r] = "count" => op[r] = "view"
        /\ op[r] = "remove" => pc[r] = "done" /\ out[r] = "none"

\* A request about to show a burn paste has launched its deletion; a peek
\* shows none.
BurnsOK ==
    \A r \in Requests :
        /\ op[r] = "peek" /\ (pc[r] \in {"count", "reply"} \/ out[r] = "content") =>
              got[r] \notin Burns
        /\ op[r] \in Consuming /\ got[r] \in Burns =>
              /\ pc[r] = "reply" \/ (pc[r] = "count" /\ op[r] = "view") => del[r] # "none"
              /\ out[r] = "content" => del[r] # "none"
        /\ del[r] = "done" /\ op[r] \in Consuming => got[r] \notin Live

\* A request about to show a paste found it unexpired after it had started.
ExpiryOK ==
    \A r \in Requests :
        /\ before[r].expired \subseteq expired
        /\ \/ pc[r] = "reply"
           \/ pc[r] = "count" /\ op[r] # "unlock"
           \/ out[r] = "content"
           => got[r] \notin before[r].expired

\* A cleanup cycle only holds expired pastes.
SweepOK == \A i \in Instances : /\ sweep[i].todo \subseteq expired
                                /\ sweep[i].cur \in expired \cup {NoPaste}

\* A request that is counted and will or did reply: an unlock is counted by its first
\* lookup and stays so through the second one, unless it dies.
Counted(r) ==
    /\ op[r] \in {"view", "peek", "unlock"}
    /\ \/ pc[r] = "reply"
       \/ out[r] = "content"
       \/ op[r] = "unlock" /\ checked[r] # NoPaste /\ pc[r] \notin {"count", "dead"}

\* The buffer of a slug has counted every such request.
ViewsOK ==
    RedisMayFail \/
    \A s \in Slugs : views[s] >= Cardinality({r \in Requests : at[r] = s /\ Counted(r)})

IInv == TypeOK /\ CreatesOK /\ RowsOK /\ FlowOK /\ BurnsOK /\ ExpiryOK /\ SweepOK /\ ViewsOK

-----------------------------------------------------------------------------
(* The contract the store implements *)

Spent == {s \in Slugs : \E r \in Requests : del[r] # "none" /\ at[r] = s}
Seen == [r \in Requests |-> IF Shown(r) THEN got[r] ELSE NoPaste]
Drafted == [r \in Requests |-> IF Copied(r) THEN got[r] ELSE NoPaste]

Contract == INSTANCE PasteContract WITH
    live <- Live,
    gone <- born \ Live,
    lapsed <- expired,
    spent <- Spent,
    seen <- Seen,
    copied <- Drafted

\* Every behaviour of the store is one of the contract.
ImplementsContract == Contract!Spec
=============================================================================
