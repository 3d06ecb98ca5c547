-------------------------- MODULE PasteStore_proofs --------------------------
(***************************************************************************)
(* Proofs about PasteStore, for every set of slugs, pastes, requests and   *)
(* processes: the inductive invariant IInv, the safety properties that     *)
(* follow from it, and the refinement of PasteContract.  One lemma per     *)
(* part of IInv shows that Next preserves it; each with a step per action. *)
(***************************************************************************)
EXTENDS PasteStore, TLAPS, FiniteSetTheorems

USE DEF stores, local, asked

-----------------------------------------------------------------------------
(* Types *)

\* The locations, responses and deletion states the actions write are of their types.
LEMMA Names ==
    /\ "exists" \in Locations /\ "get" \in Locations /\ "select" \in Locations
    /\ "recheck" \in Locations /\ "set" \in Locations /\ "ret" \in Locations
    /\ "count" \in Locations /\ "reply" \in Locations /\ "probe" \in Locations
    /\ "insert" \in Locations /\ "relist" \in Locations /\ "recent" \in Locations /\ "query" \in Locations
    /\ "keep" \in Locations /\ "done" \in Locations /\ "dead" \in Locations
    /\ "missing" \in Responses /\ "expired" \in Responses /\ "denied" \in Responses
    /\ "hidden" \in Responses /\ "content" \in Responses /\ "taken" \in Responses
    /\ "created" \in Responses /\ "refused" \in Responses /\ "listed" \in Responses
    /\ "forget" \in Deletions /\ "mark" \in Deletions /\ "drop" \in Deletions
    /\ "done" \in Deletions /\ "failed" \in Deletions /\ "lost" \in Deletions
    /\ \A o \in AllOps : o \in Kinds
    /\ \A o \in ReadOps : o \in Kinds
    /\ "create" \in Kinds /\ "generate" \in Kinds /\ "list" \in Kinds /\ "remove" \in Kinds
  BY DEF Locations, Responses, Deletions, Deleting, Kinds, AllOps, ReadOps, CreateOps

\* A write to the primary keeps the rows and the log the replica replays well typed.
LEMMA WriteType ==
    ASSUME TypeOK, NEW s \in Slugs, NEW row \in Row, Write(s, row)
    PROVE  /\ primary' \in [Slugs -> Row]
           /\ replica' \in [Slugs -> Row]
           /\ wal' \in Seq(Change)
<1>1. [slug |-> s, row |-> row] \in Change
  BY DEF Change
<1>2. Append(wal, [slug |-> s, row |-> row]) \in Seq(Change)
  BY <1>1 DEF TypeOK
<1>3. wal' \in Seq(Change)
  BY <1>2 DEF Write, TypeOK
<1>4. primary' \in [Slugs -> Row] /\ replica' \in [Slugs -> Row]
  BY DEF Write, TypeOK
<1> QED
  BY <1>3, <1>4

\* What the actions read from the stores or start from has the type it is stored under.
LEMMA RowTypes ==
    ASSUME TypeOK
    PROVE  /\ NoPaste \in Row
           /\ Pastes \subseteq Row
           /\ \A s \in Slugs : cache[s] \in Row /\ ReadRow(s) \in Row
           /\ NoList \in Lists
           /\ PublicRows \in Lists
           /\ GoneSoFar \in Past
           /\ Idle \in Cycle
<1>1. NoPaste \in Row /\ Pastes \subseteq Row /\ NoList \in Lists
  BY DEF Row, Lists
<1>2. \A s \in Slugs : cache[s] \in Row /\ ReadRow(s) \in Row
  BY DEF TypeOK, ReadRow
<1>3. PublicRows \in Lists
  BY StoreAssumption DEF PublicRows, Lists
<1>4. GoneSoFar \in Past
  BY DEF TypeOK, GoneSoFar, Past
<1>5. Idle \in Cycle
  BY <1>1 DEF Idle, Cycle
<1> QED
  BY <1>1, <1>2, <1>3, <1>4, <1>5

\* Every action of requests, deletions, sweeps, replication and time keeps the types;
\* CreatesOK tells that an INSERT has a paste to insert.
LEMMA TypeStep == ASSUME TypeOK, CreatesOK, Next PROVE TypeOK'
<1> USE Names DEF Goto, Finish, DelTo
<1>1. ASSUME NEW r \in Requests, Arrive(r) PROVE TypeOK'
  <2>1. ASSUME NEW s \in Slugs, StartRead(r, s) PROVE TypeOK'
    BY <2>1, RowTypes DEF StartRead, Start, TypeOK
  <2>2. ASSUME NEW s \in Slugs, StartRemove(r, s) PROVE TypeOK'
    BY <2>2, RowTypes DEF StartRemove, Start, TypeOK
  <2>3. ASSUME NEW p \in Pastes, StartCreate(r, p) PROVE TypeOK'
    <3>1. SlugOf[p] \in Slugs /\ p \in Row
      BY RowTypes, StoreAssumption
    <3>2. CASE Start(r, "create", SlugOf[p], "exists")
      BY <2>3, <3>1, <3>2, RowTypes DEF StartCreate, Start, TypeOK
    <3>3. CASE Start(r, "generate", SlugOf[p], "probe")
      BY <2>3, <3>1, <3>3, RowTypes DEF StartCreate, Start, TypeOK
    <3> QED
      BY <2>3, <3>2, <3>3 DEF StartCreate
  <2>4. ASSUME StartList(r) PROVE TypeOK'
    BY <2>4, RowTypes DEF StartList, Start, TypeOK
  <2> QED
    BY <1>1, <2>1, <2>2, <2>3, <2>4 DEF Arrive
<1>2. ASSUME NEW r \in Requests, Lookup(r) PROVE TypeOK'
  <2>0. at[r] \in Slugs
    BY DEF TypeOK
  <2>1. CASE CheckTombstone(r)
    <3>1. pc' \in [Requests -> Locations]
      BY ZenonT(40), <2>1 DEF CheckTombstone, NotFound, TypeOK
    <3>2. out' \in [Requests -> Responses]
      BY <2>1 DEF CheckTombstone, NotFound, TypeOK
    <3> QED
      BY <2>1, <3>1, <3>2 DEF CheckTombstone, NotFound, TypeOK
  <2>2. CASE CacheGet(r)
    <3>1. pc' \in [Requests -> Locations]
      BY <2>2, <2>0, RowTypes DEF CacheGet, TypeOK
    <3>2. got' \in [Requests -> Row]
      BY <2>2, <2>0, RowTypes DEF CacheGet, TypeOK
    <3> QED
      BY <2>2, <3>1, <3>2 DEF CacheGet, TypeOK
  <2>3. CASE SelectRow(r)
    <3>1. pc' \in [Requests -> Locations]
      BY ZenonT(40), <2>3, <2>0, RowTypes DEF SelectRow, NotFound, TypeOK
    <3>0. got' = [got EXCEPT ![r] = ReadRow(at[r])] \/ got' = got
      BY <2>3 DEF SelectRow
    <3>2. got' \in [Requests -> Row]
      BY <2>0, <3>0, RowTypes DEF TypeOK
    <3>3. out' \in [Requests -> Responses]
      BY ZenonT(40), <2>3, <2>0, RowTypes DEF SelectRow, NotFound, TypeOK
    <3> QED
      BY <2>3, <3>1, <3>2, <3>3 DEF SelectRow, NotFound, TypeOK
  <2>4. CASE RecheckTombstone(r)
    BY ZenonT(40), <2>4 DEF RecheckTombstone, TypeOK
  <2>5. CASE CacheSet(r)
    <3>1. pc' \in [Requests -> Locations]
      BY <2>5, <2>0, RowTypes DEF CacheSet, TypeOK
    <3>2. cache' \in [Slugs -> Row]
      BY <2>5, <2>0, RowTypes DEF CacheSet, TypeOK
    <3> QED
      BY <2>5, <3>1, <3>2 DEF CacheSet, TypeOK
  <2> QED
    BY <1>2, <2>1, <2>2, <2>3, <2>4, <2>5 DEF Lookup
<1>3. ASSUME NEW r \in Requests, Return(r) PROVE TypeOK'
  <2>1. CASE ReturnTaken(r)
    <3>1. pc' \in [Requests -> Locations]
      BY <2>1 DEF ReturnTaken, TypeOK
    <3>2. out' \in [Requests -> Responses]
      BY <2>1 DEF ReturnTaken, TypeOK
    <3> QED
      BY <2>1, <3>1, <3>2 DEF ReturnTaken, TypeOK
  <2>2. CASE ReturnExpired(r)
    <3>1. pc' \in [Requests -> Locations]
      BY <2>2 DEF ReturnExpired, TypeOK
    <3>2. out' \in [Requests -> Responses]
      BY <2>2 DEF ReturnExpired, TypeOK
    <3> QED
      BY <2>2, <3>1, <3>2 DEF ReturnExpired, TypeOK
  <2>3. CASE ReturnOpen(r)
    <3>1. del' \in [Requests -> Deletions]
      BY <2>3 DEF ReturnOpen, LaunchBurn, TypeOK
    <3>2. pc' \in [Requests -> Locations]
      BY <2>3 DEF ReturnOpen, TypeOK
    <3>3. out' \in [Requests -> Responses]
      BY <2>3 DEF ReturnOpen, TypeOK
    <3> QED
      BY <2>3, <3>1, <3>2, <3>3 DEF ReturnOpen, TypeOK
  <2>4. CASE ReturnPeek(r)
    <3>1. pc' \in [Requests -> Locations]
      BY <2>4 DEF ReturnPeek, TypeOK
    <3>2. out' \in [Requests -> Responses]
      BY ZenonT(40), <2>4 DEF ReturnPeek, TypeOK
    <3> QED
      BY <2>4, <3>1, <3>2 DEF ReturnPeek, TypeOK
  <2>5. CASE ReturnFork(r)
    <3>1. pc' \in [Requests -> Locations]
      BY <2>5 DEF ReturnFork, TypeOK
    <3>2. out' \in [Requests -> Responses]
      BY <2>5 DEF ReturnFork, TypeOK
    <3> QED
      BY <2>5, <3>1, <3>2 DEF ReturnFork, TypeOK
  <2>6. CASE ReturnValidate(r)
    <3>1. pc' \in [Requests -> Locations]
      BY <2>6 DEF ReturnValidate, TypeOK
    <3>2. out' \in [Requests -> Responses]
      BY <2>6 DEF ReturnValidate, TypeOK
    <3>3. checked' \in [Requests -> Row]
      BY <2>6 DEF ReturnValidate, TypeOK
    <3> QED
      BY <2>6, <3>1, <3>2, <3>3 DEF ReturnValidate, TypeOK
  <2>7. CASE ReturnUnlocked(r)
    <3>1. pc' \in [Requests -> Locations]
      BY <2>7 DEF ReturnUnlocked, LaunchBurn, TypeOK
    <3>2. del' \in [Requests -> Deletions]
      BY <2>7 DEF ReturnUnlocked, LaunchBurn, TypeOK
    <3> QED
      BY <2>7, <3>1, <3>2 DEF ReturnUnlocked, LaunchBurn, TypeOK
  <2> QED
    BY <1>3, <2>1, <2>2, <2>3, <2>4, <2>5, <2>6, <2>7 DEF Return
<1>4. ASSUME NEW r \in Requests, CountView(r) PROVE TypeOK'
  <2>1. views' \in [Slugs -> Nat]
    <3>1. CASE views' = [views EXCEPT ![at[r]] = @ + 1]
      BY <3>1 DEF TypeOK
    <3>2. CASE UNCHANGED views
      BY <3>2 DEF TypeOK
    <3> QED
      BY <1>4, <3>1, <3>2 DEF CountView
  <2>2. got' \in [Requests -> Row]
    BY <1>4, RowTypes DEF CountView, TypeOK
  <2> QED
    BY <1>4, <2>1, <2>2 DEF CountView, TypeOK
<1>5. ASSUME NEW r \in Requests, Reply(r) PROVE TypeOK'
  BY <1>5 DEF Reply, TypeOK
<1>6. ASSUME NEW r \in Requests, Create(r) PROVE TypeOK'
  <2>1. CASE ProbeSlug(r)
    <3>1. pc' \in [Requests -> Locations]
      BY <2>1 DEF ProbeSlug, TypeOK
    <3>2. out' \in [Requests -> Responses]
      BY <2>1 DEF ProbeSlug, TypeOK
    <3> QED
      BY <2>1, <3>1, <3>2 DEF ProbeSlug, TypeOK
  <2>2. CASE InsertRow(r)
    <3>1. new[r] \in Pastes
      BY <2>2 DEF InsertRow, CreatesOK, TypeOK, Row
    <3>2. at[r] \in Slugs /\ new[r] \in Row
      BY DEF TypeOK
    <3>3. primary' \in [Slugs -> Row] /\ replica' \in [Slugs -> Row] /\ wal' \in Seq(Change)
      BY <2>2, <3>2, WriteType DEF InsertRow
    <3>4. pc' \in [Requests -> Locations]
      BY <2>2 DEF InsertRow, TypeOK
    <3>5. out' \in [Requests -> Responses]
      BY <2>2 DEF InsertRow, TypeOK
    <3> QED
      BY <2>2, <3>1, <3>3, <3>4, <3>5 DEF InsertRow, TypeOK
  <2>4. CASE ForgetRecent(r)
    <3>1. recent' \in Lists
      BY <2>4, RowTypes DEF ForgetRecent, TypeOK
    <3>2. pc' \in [Requests -> Locations] /\ out' \in [Requests -> Responses]
      BY <2>4 DEF ForgetRecent, TypeOK
    <3> QED
      BY <2>4, <3>1, <3>2 DEF ForgetRecent, TypeOK
  <2>3. CASE InsertRefused(r)
    <3>1. pc' \in [Requests -> Locations]
      BY <2>3 DEF InsertRefused, TypeOK
    <3>2. out' \in [Requests -> Responses]
      BY <2>3 DEF InsertRefused, TypeOK
    <3> QED
      BY <2>3, <3>1, <3>2 DEF InsertRefused, TypeOK
  <2> QED
    BY <1>6, <2>1, <2>2, <2>3, <2>4 DEF Create
<1>7. ASSUME NEW r \in Requests, List(r) PROVE TypeOK'
  <2>1. CASE ListCached(r)
    <3>1. pc' \in [Requests -> Locations]
      BY ZenonT(40), <2>1 DEF ListCached, TypeOK
    <3>2. out' \in [Requests -> Responses]
      BY <2>1 DEF ListCached, TypeOK
    <3> QED
      BY <2>1, <3>1, <3>2 DEF ListCached, TypeOK
  <2>2. CASE ListQuery(r)
    <3>1. pc' \in [Requests -> Locations]
      BY ZenonT(40), <2>2 DEF ListQuery, TypeOK
    <3>2. out' \in [Requests -> Responses]
      BY <2>2 DEF ListQuery, TypeOK
    <3>3. page' \in [Requests -> Lists]
      BY <2>2, RowTypes DEF ListQuery, TypeOK
    <3> QED
      BY <2>2, <3>1, <3>2, <3>3 DEF ListQuery, TypeOK
  <2>3. CASE ListKeep(r)
    <3>1. pc' \in [Requests -> Locations]
      BY <2>3 DEF ListKeep, TypeOK
    <3>2. out' \in [Requests -> Responses]
      BY <2>3 DEF ListKeep, TypeOK
    <3>3. recent' \in Lists
      BY <2>3, RowTypes DEF ListKeep, TypeOK
    <3> QED
      BY <2>3, <3>1, <3>2, <3>3 DEF ListKeep, TypeOK
  <2> QED
    BY <1>7, <2>1, <2>2, <2>3 DEF List
<1>8. ASSUME NEW r \in Requests, Delete(r) PROVE TypeOK'
  <2>1. CASE ForgetCache(r)
    <3>1. del' \in [Requests -> Deletions]
      BY <2>1, RowTypes DEF ForgetCache, TypeOK
    <3>2. cache' \in [Slugs -> Row]
      BY <2>1, RowTypes DEF ForgetCache, TypeOK
    <3> QED
      BY <2>1, <3>1, <3>2 DEF ForgetCache, TypeOK
  <2>2. CASE SetTombstone(r)
    <3>1. tombstone' \in SUBSET Slugs
      BY <2>2 DEF SetTombstone, TypeOK
    <3>2. del' \in [Requests -> Deletions]
      BY <2>2 DEF SetTombstone, TypeOK
    <3> QED
      BY <2>2, <3>1, <3>2 DEF SetTombstone, TypeOK
  <2>3. CASE DropRow(r)
    <3>1. at[r] \in Slugs /\ NoPaste \in Row
      BY RowTypes DEF TypeOK
    <3>2. primary' \in [Slugs -> Row] /\ replica' \in [Slugs -> Row] /\ wal' \in Seq(Change)
      BY <2>3, <3>1, WriteType DEF DropRow, TypeOK
    <3> QED
      BY <2>3, <3>2 DEF DropRow, TypeOK
  <2>4. CASE DropRowFails(r)
    BY <2>4 DEF DropRowFails, TypeOK
  <2> QED
    BY <1>8, <2>1, <2>2, <2>3, <2>4 DEF Delete
<1>9. ASSUME NEW i \in Instances, Sweep(i) PROVE TypeOK'
  <2>1. CASE SweepList(i)
    <3>1. PICK batch \in SUBSET expired : sweep' = [sweep EXCEPT ![i].todo = batch]
      BY <2>1 DEF SweepList
    <3>2. sweep' \in [Instances -> Cycle]
      BY <3>1 DEF TypeOK, Cycle
    <3> QED
      BY <2>1, <3>2 DEF SweepList, TypeOK
  <2>2. CASE SweepDrop(i)
    <3>1. sweep[i].cur \in Live => SlugOf[sweep[i].cur] \in Slugs
      BY StoreAssumption DEF Live
    <3>2. primary' \in [Slugs -> Row] /\ replica' \in [Slugs -> Row] /\ wal' \in Seq(Change)
      BY <2>2, <3>1, WriteType, RowTypes DEF SweepDrop, TypeOK
    <3>3. sweep' \in [Instances -> Cycle]
      BY <2>2, RowTypes DEF SweepDrop, TypeOK, Cycle
    <3> QED
      BY <2>2, <3>2, <3>3 DEF SweepDrop, TypeOK
  <2>3. ASSUME NEW p \in Pastes, SweepForget(i, p) PROVE TypeOK'
    <3>1. sweep' \in [Instances -> Cycle]
      BY <2>3, RowTypes DEF SweepForget, TypeOK, Cycle
    <3>2. cache' \in [Slugs -> Row]
      BY <2>3, RowTypes DEF SweepForget, TypeOK
    <3> QED
      BY <2>3, <3>1, <3>2 DEF SweepForget, TypeOK
  <2> QED
    BY <1>9, <2>1, <2>2, <2>3 DEF Sweep
<1>10. ASSUME NEW i \in Instances, Crash(i) PROVE TypeOK'
  <2>1. pc' \in [Requests -> Locations] /\ del' \in [Requests -> Deletions]
    BY <1>10 DEF Crash, TypeOK
  <2> QED
    BY <1>10, <2>1, RowTypes DEF Crash, TypeOK
<1>11. ASSUME Replicate PROVE TypeOK'
  <2>1. Head(wal) \in Change /\ Tail(wal) \in Seq(Change)
    BY <1>11 DEF Replicate, TypeOK
  <2>2. replica' \in [Slugs -> Row]
    BY <1>11, <2>1 DEF Replicate, TypeOK, Change
  <2> QED
    BY <1>11, <2>1, <2>2 DEF Replicate, TypeOK
<1>12. ASSUME Age PROVE TypeOK'
  <2>1. ASSUME NEW p \in Pastes, ExpirePaste(p) PROVE TypeOK'
    BY <2>1 DEF ExpirePaste, TypeOK
  <2>2. ASSUME NEW s \in Slugs, CacheTTL(s) PROVE TypeOK'
    BY <2>2, RowTypes DEF CacheTTL, TypeOK
  <2>4. ASSUME NEW s \in Slugs, TombstoneTTL(s) PROVE TypeOK'
    BY <2>4 DEF TombstoneTTL, TypeOK
  <2>3. CASE RecentTTL
    BY <2>3, RowTypes DEF RecentTTL, TypeOK
  <2> QED
    BY <1>12, <2>1, <2>2, <2>3, <2>4 DEF Age
<1> QED
  BY <1>1, <1>2, <1>3, <1>4, <1>5, <1>6, <1>7, <1>8, <1>9, <1>10, <1>11, <1>12
     DEF Next, Request

-----------------------------------------------------------------------------
(* Creates, rows, the flow of a handler, burns, expiry, sweeps *)

\* A request that only moves on to its next call leaves every create as it was.
LEMMA CreatesFrame ==
    ASSUME TypeOK, CreatesOK, UNCHANGED <<op, at, new, born>>,
           NEW r \in Requests, NEW l, Goto(r, l),
           pc[r] \notin {"relist", "done", "dead"},
           l \in {"insert", "probe", "relist"} => op[r] \in CreateOps
    PROVE  CreatesOK'
  BY DEF TypeOK, CreatesOK, Goto

\* No action makes two creates share a paste, or a create forget the one it inserts.
LEMMA CreatesStep == ASSUME TypeOK, CreatesOK, FlowOK, Next PROVE CreatesOK'
<1> USE DEF Goto, Finish, DelTo
<1>1. ASSUME NEW r \in Requests, Arrive(r) PROVE CreatesOK'
  <2>1. ASSUME NEW s \in Slugs, StartRead(r, s) PROVE CreatesOK'
    <3>1. new[r] = NoPaste
      BY <2>1 DEF StartRead, Start, FlowOK
    <3> QED
      BY <2>1, <3>1 DEF StartRead, Start, ReadOps, CreateOps, TypeOK, CreatesOK
  <2>2. ASSUME NEW s \in Slugs, StartRemove(r, s) PROVE CreatesOK'
    <3>1. new[r] = NoPaste
      BY <2>2 DEF StartRemove, Start, FlowOK
    <3> QED
      BY <2>2, <3>1 DEF StartRemove, Start, CreateOps, TypeOK, CreatesOK
  <2>3. ASSUME NEW p \in Pastes, StartCreate(r, p) PROVE CreatesOK'
    <3>1. new[r] = NoPaste
      BY <2>3 DEF StartCreate, Start, FlowOK
    <3>2. p # NoPaste /\ p \notin born
      BY <2>3, StoreAssumption DEF StartCreate
    <3>3. CASE Start(r, "create", SlugOf[p], "exists")
      BY <2>3, <3>1, <3>2, <3>3 DEF StartCreate, Start, CreateOps, TypeOK, CreatesOK
    <3>4. CASE Start(r, "generate", SlugOf[p], "probe")
      BY <2>3, <3>1, <3>2, <3>4 DEF StartCreate, Start, CreateOps, TypeOK, CreatesOK
    <3> QED
      BY <2>3, <3>3, <3>4 DEF StartCreate
  <2>4. CASE StartList(r)
    <3>1. new[r] = NoPaste
      BY <2>4 DEF StartList, Start, FlowOK
    <3> QED
      BY <2>4, <3>1 DEF StartList, Start, CreateOps, TypeOK, CreatesOK
  <2> QED
    BY <1>1, <2>1, <2>2, <2>3, <2>4 DEF Arrive
<1>2. ASSUME NEW r \in Requests, Lookup(r) PROVE CreatesOK'
  <2>1. CASE CheckTombstone(r)
    <3>1. \E l : Goto(r, l) /\ (l \in {"insert", "probe", "relist"} => op[r] \in CreateOps)
      BY <2>1 DEF CheckTombstone, NotFound, CreateOps
    <3> QED
      BY <2>1, <3>1, CreatesFrame DEF CheckTombstone
  <2>2. CASE CacheGet(r)
    BY ZenonT(40), <2>2 DEF CacheGet, TypeOK, CreatesOK
  <2>3. CASE SelectRow(r)
    <3>1. \E l : Goto(r, l) /\ (l \in {"insert", "probe", "relist"} => op[r] \in CreateOps)
      BY <2>3 DEF SelectRow, NotFound, CreateOps
    <3> QED
      BY <2>3, <3>1, CreatesFrame DEF SelectRow
  <2>4. CASE RecheckTombstone(r)
    BY <2>4 DEF RecheckTombstone, TypeOK, CreatesOK
  <2>5. CASE CacheSet(r)
    BY <2>5 DEF CacheSet, TypeOK, CreatesOK
  <2> QED
    BY <1>2, <2>1, <2>2, <2>3, <2>4, <2>5 DEF Lookup
<1>3. ASSUME NEW r \in Requests, Return(r) PROVE CreatesOK'
  <2>1. CASE ReturnTaken(r)
    BY <2>1 DEF ReturnTaken, TypeOK, CreatesOK
  <2>2. CASE ReturnExpired(r)
    BY <2>2 DEF ReturnExpired, TypeOK, CreatesOK
  <2>3. CASE ReturnOpen(r)
    <3>1. \E l : Goto(r, l) /\ l \notin {"insert", "probe", "relist"}
      BY <2>3 DEF ReturnOpen
    <3> QED
      BY <2>3, <3>1, CreatesFrame DEF ReturnOpen, AtReturn
  <2>4. CASE ReturnPeek(r)
    <3>1. \E l : Goto(r, l) /\ l \notin {"insert", "probe", "relist"}
      BY <2>4 DEF ReturnPeek
    <3> QED
      BY <2>4, <3>1, CreatesFrame DEF ReturnPeek, AtReturn
  <2>5. CASE ReturnFork(r)
    BY <2>5 DEF ReturnFork, TypeOK, CreatesOK
  <2>6. CASE ReturnValidate(r)
    <3>1. \E l : Goto(r, l) /\ l \notin {"insert", "probe", "relist"}
      BY <2>6 DEF ReturnValidate
    <3> QED
      BY <2>6, <3>1, CreatesFrame DEF ReturnValidate, AtReturn
  <2>7. CASE ReturnUnlocked(r)
    <3>1. Goto(r, "reply") /\ pc[r] \notin {"relist", "done", "dead"}
      BY <2>7 DEF ReturnUnlocked, AtReturn
    <3> QED
      BY <2>7, <3>1, CreatesFrame DEF ReturnUnlocked
  <2> QED
    BY <1>3, <2>1, <2>2, <2>3, <2>4, <2>5, <2>6, <2>7 DEF Return
<1>4. ASSUME NEW r \in Requests, CountView(r) PROVE CreatesOK'
  BY ZenonT(40), <1>4 DEF CountView, TypeOK, CreatesOK
<1>5. ASSUME NEW r \in Requests, Reply(r) PROVE CreatesOK'
  BY <1>5 DEF Reply, TypeOK, CreatesOK
<1>6. ASSUME NEW r \in Requests, Create(r) PROVE CreatesOK'
  <2>1. CASE ProbeSlug(r)
    BY <2>1 DEF ProbeSlug, TypeOK, CreatesOK
  <2>2. CASE InsertRow(r)
    BY ZenonT(40), <2>2 DEF InsertRow, Write, TypeOK, CreatesOK
  <2>4. CASE ForgetRecent(r)
    BY <2>4 DEF ForgetRecent, TypeOK, CreatesOK
  <2>3. CASE InsertRefused(r)
    BY <2>3 DEF InsertRefused, TypeOK, CreatesOK
  <2> QED
    BY <1>6, <2>1, <2>2, <2>3, <2>4 DEF Create
<1>7. ASSUME NEW r \in Requests, List(r) PROVE CreatesOK'
  <2>1. CASE ListCached(r)
    BY <2>1 DEF ListCached, TypeOK, CreatesOK
  <2>2. CASE ListQuery(r)
    BY <2>2 DEF ListQuery, TypeOK, CreatesOK
  <2>3. CASE ListKeep(r)
    BY <2>3 DEF ListKeep, TypeOK, CreatesOK
  <2> QED
    BY <1>7, <2>1, <2>2, <2>3 DEF List
<1>8. ASSUME NEW r \in Requests, Delete(r) PROVE CreatesOK'
  <2>1. CASE ForgetCache(r)
    BY <2>1 DEF ForgetCache, TypeOK, CreatesOK
  <2>2. CASE SetTombstone(r)
    BY <2>2 DEF SetTombstone, TypeOK, CreatesOK
  <2>3. CASE DropRow(r)
    BY <2>3 DEF DropRow, Write, TypeOK, CreatesOK
  <2>4. CASE DropRowFails(r)
    BY <2>4 DEF DropRowFails, TypeOK, CreatesOK
  <2> QED
    BY <1>8, <2>1, <2>2, <2>3, <2>4 DEF Delete
<1>9. ASSUME NEW i \in Instances, Sweep(i) PROVE CreatesOK'
  <2>1. CASE SweepList(i)
    BY <2>1 DEF SweepList, TypeOK, CreatesOK
  <2>2. CASE SweepDrop(i)
    BY <2>2 DEF SweepDrop, Write, TypeOK, CreatesOK
  <2>3. ASSUME NEW p \in Pastes, SweepForget(i, p) PROVE CreatesOK'
    BY <2>3 DEF SweepForget, TypeOK, CreatesOK
  <2> QED
    BY <1>9, <2>1, <2>2, <2>3 DEF Sweep
<1>10. ASSUME NEW i \in Instances, Crash(i) PROVE CreatesOK'
  BY <1>10 DEF Crash, TypeOK, CreatesOK
<1>11. CASE Replicate
  BY <1>11 DEF Replicate, TypeOK, CreatesOK
<1>12. CASE Age
  BY <1>12 DEF Age, ExpirePaste, CacheTTL, TombstoneTTL, RecentTTL, TypeOK, CreatesOK
<1> QED
  BY <1>1, <1>2, <1>3, <1>4, <1>5, <1>6, <1>7, <1>8, <1>9, <1>10, <1>11, <1>12
     DEF Next, Request

\* A row written under its own slug reaches the primary and the log, and nothing else.
LEMMA WriteRows ==
    ASSUME TypeOK, RowsOK, NEW s \in Slugs, NEW row \in Row, Write(s, row),
           born \subseteq born', row # NoPaste => row \in born' /\ SlugOf[row] = s,
           UNCHANGED <<cache, got, checked, at>>
    PROVE  RowsOK'
<1> DEFINE e == [slug |-> s, row |-> row]
<1>1. (\A k \in 1..Len(wal) : Stored(wal[k].row, wal[k].slug))'
  <2>1. CASE wal' = wal
    BY <2>1 DEF TypeOK, RowsOK, Stored
  <2>2. CASE wal' = Append(wal, e)
    <3>1. ASSUME NEW k \in 1..Len(wal') PROVE wal'[k] = IF k \in 1..Len(wal) THEN wal[k] ELSE e
      BY <2>2, <3>1 DEF TypeOK
    <3>2. ASSUME NEW k \in 1..Len(wal') PROVE Stored(wal[k].row, wal[k].slug)'
      <4>1. CASE k \in 1..Len(wal)
        BY <3>1, <4>1 DEF RowsOK, Stored
      <4>2. CASE k \notin 1..Len(wal)
        BY <3>1, <4>2 DEF Stored
      <4> QED
        BY <4>1, <4>2
    <3> QED
      BY <3>2
  <2> QED
    BY <2>1, <2>2 DEF Write
<1>2. \A t \in Slugs : Stored(primary[t], t)' /\ Stored(replica[t], t)' /\ Stored(cache[t], t)'
  BY DEF Write, TypeOK, RowsOK, Stored
<1>3. \A r \in Requests : Stored(got[r], at[r])' /\ Stored(checked[r], at[r])'
  BY DEF RowsOK, Stored
<1> QED
  BY <1>1, <1>2, <1>3 DEF RowsOK

\* Replication, re-caching and lookups only copy rows under their own slug.
LEMMA RowsStep == ASSUME TypeOK, CreatesOK, RowsOK, FlowOK, Next PROVE RowsOK'
<1> USE DEF Goto, Finish, DelTo
<1>1. ASSUME NEW r \in Requests, Arrive(r) PROVE RowsOK'
  <2>1. ASSUME NEW s \in Slugs, StartRead(r, s) PROVE RowsOK'
    <3>1. got[r] = NoPaste /\ checked[r] = NoPaste
      BY <2>1 DEF StartRead, Start, FlowOK
    <3>2. at' \in [Requests -> Slugs] /\ \A q \in Requests : q # r => at'[q] = at[q]
      BY <2>1, StoreAssumption DEF StartRead, Start, TypeOK
    <3> QED
      BY <2>1, <3>1, <3>2 DEF StartRead, Start, TypeOK, RowsOK, Stored
  <2>2. ASSUME NEW s \in Slugs, StartRemove(r, s) PROVE RowsOK'
    <3>1. got[r] = NoPaste /\ checked[r] = NoPaste
      BY <2>2 DEF StartRemove, Start, FlowOK
    <3>2. at' \in [Requests -> Slugs] /\ \A q \in Requests : q # r => at'[q] = at[q]
      BY <2>2, StoreAssumption DEF StartRemove, Start, TypeOK
    <3> QED
      BY <2>2, <3>1, <3>2 DEF StartRemove, Start, TypeOK, RowsOK, Stored
  <2>3. ASSUME NEW p \in Pastes, StartCreate(r, p) PROVE RowsOK'
    <3>1. got[r] = NoPaste /\ checked[r] = NoPaste
      BY <2>3 DEF StartCreate, Start, FlowOK
    <3>2. at' \in [Requests -> Slugs] /\ \A q \in Requests : q # r => at'[q] = at[q]
      BY ZenonT(40), <2>3, StoreAssumption DEF StartCreate, Start, TypeOK
    <3> QED
      BY <2>3, <3>1, <3>2 DEF StartCreate, Start, TypeOK, RowsOK, Stored
  <2>4. CASE StartList(r)
    <3>1. got[r] = NoPaste /\ checked[r] = NoPaste
      BY <2>4 DEF StartList, Start, FlowOK
    <3>2. at' \in [Requests -> Slugs] /\ \A q \in Requests : q # r => at'[q] = at[q]
      BY <2>4, StoreAssumption DEF StartList, Start, TypeOK
    <3> QED
      BY <2>4, <3>1, <3>2 DEF StartList, Start, TypeOK, RowsOK, Stored
  <2> QED
    BY <1>1, <2>1, <2>2, <2>3, <2>4 DEF Arrive
<1>2. ASSUME NEW r \in Requests, Lookup(r) PROVE RowsOK'
  <2>1. CASE CheckTombstone(r)
    BY <2>1 DEF CheckTombstone, NotFound, TypeOK, RowsOK, Stored
  <2>2. CASE CacheGet(r)
    <3>1. got' = [got EXCEPT ![r] = cache[at[r]]] \/ got' = got
      BY <2>2 DEF CacheGet
    <3>2. at[r] \in Slugs
      BY DEF TypeOK
    <3>3. \A q \in Requests : got'[q] = got[q] \/ (q = r /\ got'[q] = cache[at[r]])
      BY <3>1 DEF TypeOK
    <3>4. \A q \in Requests : Stored(got'[q], at[q])
      BY <3>2, <3>3 DEF RowsOK
    <3> QED
      BY <2>2, <3>4 DEF CacheGet, RowsOK, Stored
  <2>3. CASE SelectRow(r)
    <3>1. got' = [got EXCEPT ![r] = ReadRow(at[r])] \/ got' = got
      BY <2>3 DEF SelectRow
    <3>2. at[r] \in Slugs
      BY DEF TypeOK
    <3>3. \A q \in Requests : got'[q] = got[q] \/ (q = r /\ got'[q] = ReadRow(at[r]))
      BY <3>1 DEF TypeOK
    <3>4. \A q \in Requests : Stored(got'[q], at[q])
      BY <3>2, <3>3 DEF RowsOK, ReadRow
    <3> QED
      BY <2>3, <3>4 DEF SelectRow, RowsOK, Stored
  <2>4. CASE RecheckTombstone(r)
    BY <2>4 DEF RecheckTombstone, TypeOK, RowsOK, Stored
  <2>5. CASE CacheSet(r)
    <3>1. \A s \in Slugs : cache'[s] = cache[s] \/ (s = at[r] /\ cache'[s] = got[r])
      BY <2>5 DEF CacheSet, TypeOK
    <3>2. \A s \in Slugs : Stored(cache'[s], s)
      BY <3>1 DEF RowsOK
    <3> QED
      BY <2>5, <3>2 DEF CacheSet, RowsOK, Stored
  <2> QED
    BY <1>2, <2>1, <2>2, <2>3, <2>4, <2>5 DEF Lookup
<1>3. ASSUME NEW r \in Requests, Return(r) PROVE RowsOK'
  <2>1. CASE ReturnTaken(r)
    BY <2>1 DEF ReturnTaken, TypeOK, RowsOK, Stored
  <2>2. CASE ReturnExpired(r)
    BY <2>2 DEF ReturnExpired, TypeOK, RowsOK, Stored
  <2>3. CASE ReturnOpen(r)
    BY <2>3 DEF ReturnOpen, LaunchBurn, TypeOK, RowsOK, Stored
  <2>4. CASE ReturnPeek(r)
    BY <2>4 DEF ReturnPeek, TypeOK, RowsOK, Stored
  <2>5. CASE ReturnFork(r)
    BY <2>5 DEF ReturnFork, TypeOK, RowsOK, Stored
  <2>6. CASE ReturnValidate(r)
    BY ZenonT(40), <2>6 DEF ReturnValidate, TypeOK, RowsOK, Stored
  <2>7. CASE ReturnUnlocked(r)
    BY <2>7 DEF ReturnUnlocked, LaunchBurn, TypeOK, RowsOK, Stored
  <2> QED
    BY <1>3, <2>1, <2>2, <2>3, <2>4, <2>5, <2>6, <2>7 DEF Return
<1>4. ASSUME NEW r \in Requests, CountView(r) PROVE RowsOK'
  BY ZenonT(40), <1>4 DEF CountView, TypeOK, RowsOK, Stored
<1>5. ASSUME NEW r \in Requests, Reply(r) PROVE RowsOK'
  BY <1>5 DEF Reply, TypeOK, RowsOK, Stored
<1>6. ASSUME NEW r \in Requests, Create(r) PROVE RowsOK'
  <2>1. CASE ProbeSlug(r)
    BY <2>1 DEF ProbeSlug, TypeOK, RowsOK, Stored
  <2>2. CASE InsertRow(r)
    <3>1. at[r] \in Slugs /\ new[r] \in Row
      BY DEF TypeOK
    <3>2. new[r] \in born' /\ SlugOf[new[r]] = at[r]
      BY <2>2 DEF InsertRow, CreatesOK
    <3> QED
      BY <2>2, <3>1, <3>2, WriteRows DEF InsertRow
  <2>4. CASE ForgetRecent(r)
    BY <2>4 DEF ForgetRecent, TypeOK, RowsOK, Stored
  <2>3. CASE InsertRefused(r)
    BY <2>3 DEF InsertRefused, TypeOK, RowsOK, Stored
  <2> QED
    BY <1>6, <2>1, <2>2, <2>3, <2>4 DEF Create
<1>7. ASSUME NEW r \in Requests, List(r) PROVE RowsOK'
  <2>1. CASE ListCached(r)
    BY <2>1 DEF ListCached, TypeOK, RowsOK, Stored
  <2>2. CASE ListQuery(r)
    BY <2>2 DEF ListQuery, TypeOK, RowsOK, Stored
  <2>3. CASE ListKeep(r)
    BY <2>3 DEF ListKeep, TypeOK, RowsOK, Stored
  <2> QED
    BY <1>7, <2>1, <2>2, <2>3 DEF List
<1>8. ASSUME NEW r \in Requests, Delete(r) PROVE RowsOK'
  <2>1. CASE ForgetCache(r)
    BY SMTT(30), <2>1 DEF ForgetCache, TypeOK, RowsOK, Stored
  <2>2. CASE SetTombstone(r)
    BY <2>2 DEF SetTombstone, TypeOK, RowsOK, Stored
  <2>3. CASE DropRow(r)
    <3>1. at[r] \in Slugs /\ NoPaste \in Row
      BY DEF TypeOK, Row
    <3>2. CASE Write(at[r], NoPaste)
      BY <2>3, <3>1, <3>2, WriteRows DEF DropRow
    <3>3. CASE UNCHANGED <<primary, replica, wal>>
      BY <2>3, <3>3 DEF DropRow, RowsOK, Stored
    <3> QED
      BY <2>3, <3>2, <3>3 DEF DropRow
  <2>4. CASE DropRowFails(r)
    BY <2>4 DEF DropRowFails, TypeOK, RowsOK, Stored
  <2> QED
    BY <1>8, <2>1, <2>2, <2>3, <2>4 DEF Delete
<1>9. ASSUME NEW i \in Instances, Sweep(i) PROVE RowsOK'
  <2>1. CASE SweepList(i)
    BY <2>1 DEF SweepList, TypeOK, RowsOK, Stored
  <2>2. CASE SweepDrop(i)
    <3>1. ASSUME sweep[i].cur \in Live, Write(SlugOf[sweep[i].cur], NoPaste) PROVE RowsOK'
      <4>1. SlugOf[sweep[i].cur] \in Slugs /\ NoPaste \in Row
        BY <3>1, StoreAssumption DEF Live, Row
      <4> QED
        BY <2>2, <3>1, <4>1, WriteRows DEF SweepDrop
    <3>2. CASE UNCHANGED <<primary, replica, wal>>
      BY <2>2, <3>2 DEF SweepDrop, Write, RowsOK, Stored
    <3> QED
      BY <2>2, <3>1, <3>2 DEF SweepDrop
  <2>3. ASSUME NEW p \in Pastes, SweepForget(i, p) PROVE RowsOK'
    BY <2>3 DEF SweepForget, TypeOK, RowsOK, Stored
  <2> QED
    BY <1>9, <2>1, <2>2, <2>3 DEF Sweep
<1>10. ASSUME NEW i \in Instances, Crash(i) PROVE RowsOK'
  BY <1>10 DEF Crash, TypeOK, RowsOK, Stored
<1>11. CASE Replicate
  BY <1>11 DEF Replicate, TypeOK, RowsOK, Stored
<1>12. CASE Age
  <2>1. cache' = cache \/ \E s \in Slugs : cache' = [cache EXCEPT ![s] = NoPaste]
    BY <1>12 DEF Age, ExpirePaste, CacheTTL, TombstoneTTL, RecentTTL
  <2>2. UNCHANGED <<primary, replica, wal, born, at, got, checked>>
    BY <1>12 DEF Age, ExpirePaste, CacheTTL, TombstoneTTL, RecentTTL
  <2> QED
    BY <2>1, <2>2 DEF TypeOK, RowsOK, Stored
<1> QED
  BY <1>1, <1>2, <1>3, <1>4, <1>5, <1>6, <1>7, <1>8, <1>9, <1>10, <1>11, <1>12
     DEF Next, Request

\* The order of the calls of a handler: what it has when it stands at each of them.
LEMMA FlowStep == ASSUME TypeOK, CreatesOK, FlowOK, Next PROVE FlowOK'
<1> USE DEF Goto, Finish, DelTo
<1>1. ASSUME NEW r \in Requests, Arrive(r) PROVE FlowOK'
  <2>1. ASSUME NEW s \in Slugs, StartRead(r, s) PROVE FlowOK'
    BY <2>1 DEF StartRead, Start, ReadOps, CreateOps, TypeOK, FlowOK
  <2>2. ASSUME NEW s \in Slugs, StartRemove(r, s) PROVE FlowOK'
    BY <2>2 DEF StartRemove, Start, CreateOps, TypeOK, FlowOK
  <2>3. ASSUME NEW p \in Pastes, StartCreate(r, p) PROVE FlowOK'
    BY <2>3 DEF StartCreate, Start, CreateOps, TypeOK, FlowOK
  <2>4. CASE StartList(r)
    BY <2>4 DEF StartList, Start, CreateOps, TypeOK, FlowOK
  <2> QED
    BY <1>1, <2>1, <2>2, <2>3, <2>4 DEF Arrive
<1>2. ASSUME NEW r \in Requests, Lookup(r) PROVE FlowOK'
  <2>1. CASE CheckTombstone(r)
    BY <2>1 DEF CheckTombstone, NotFound, TypeOK, FlowOK
  <2>2. CASE CacheGet(r)
    BY <2>2 DEF CacheGet, TypeOK, FlowOK
  <2>3. CASE SelectRow(r)
    BY <2>3 DEF SelectRow, NotFound, TypeOK, FlowOK
  <2>4. CASE RecheckTombstone(r)
    BY <2>4 DEF RecheckTombstone, TypeOK, FlowOK
  <2>5. CASE CacheSet(r)
    BY <2>5 DEF CacheSet, TypeOK, FlowOK
  <2> QED
    BY <1>2, <2>1, <2>2, <2>3, <2>4, <2>5 DEF Lookup
<1>3. ASSUME NEW r \in Requests, Return(r) PROVE FlowOK'
  <2>1. CASE ReturnTaken(r)
    BY <2>1 DEF ReturnTaken, AtReturn, ReadOps, Consuming, TypeOK, FlowOK
  <2>2. CASE ReturnExpired(r)
    BY <2>2 DEF ReturnExpired, AtReturn, ReadOps, Consuming, TypeOK, FlowOK
  <2>3. CASE ReturnOpen(r)
    <3>0. (del' = [del EXCEPT ![r] = "forget"] /\ got[r] \in Burns) \/ del' = del
      BY <2>3 DEF ReturnOpen, LaunchBurn
    <3>1. CASE got[r] \in Protected
      BY <2>3, <3>0, <3>1 DEF ReturnOpen, AtReturn, ReadOps, Consuming, TypeOK, FlowOK
    <3>2. CASE got[r] \notin Protected
      BY <2>3, <3>0, <3>2 DEF ReturnOpen, AtReturn, ReadOps, Consuming, TypeOK, FlowOK
    <3> QED
      BY <3>1, <3>2
  <2>4. CASE ReturnPeek(r)
    BY <2>4 DEF ReturnPeek, AtReturn, ReadOps, Consuming, TypeOK, FlowOK
  <2>5. CASE ReturnFork(r)
    BY <2>5 DEF ReturnFork, AtReturn, ReadOps, Consuming, TypeOK, FlowOK
  <2>6. CASE ReturnValidate(r)
    BY <2>6 DEF ReturnValidate, AtReturn, ReadOps, Consuming, TypeOK, FlowOK
  <2>7. CASE ReturnUnlocked(r)
    <3>0. (del' = [del EXCEPT ![r] = "forget"] /\ got[r] \in Burns) \/ del' = del
      BY <2>7 DEF ReturnUnlocked, LaunchBurn
    <3> QED
      BY <2>7, <3>0 DEF ReturnUnlocked, AtReturn, ReadOps, Consuming, TypeOK, FlowOK
  <2> QED
    BY <1>3, <2>1, <2>2, <2>3, <2>4, <2>5, <2>6, <2>7 DEF Return
<1>4. ASSUME NEW r \in Requests, CountView(r) PROVE FlowOK'
  BY <1>4 DEF CountView, ReadOps, TypeOK, FlowOK
<1>5. ASSUME NEW r \in Requests, Reply(r) PROVE FlowOK'
  BY <1>5 DEF Reply, TypeOK, FlowOK
<1>6. ASSUME NEW r \in Requests, Create(r) PROVE FlowOK'
  <2>1. CASE ProbeSlug(r)
    BY <2>1 DEF ProbeSlug, TypeOK, FlowOK
  <2>2. CASE InsertRow(r)
    BY <2>2 DEF InsertRow, Write, TypeOK, FlowOK
  <2>4. CASE ForgetRecent(r)
    BY <2>4 DEF ForgetRecent, TypeOK, FlowOK
  <2>3. CASE InsertRefused(r)
    BY <2>3 DEF InsertRefused, TypeOK, FlowOK
  <2> QED
    BY <1>6, <2>1, <2>2, <2>3, <2>4 DEF Create
<1>7. ASSUME NEW r \in Requests, List(r) PROVE FlowOK'
  <2>1. CASE ListCached(r)
    BY <2>1 DEF ListCached, TypeOK, FlowOK
  <2>2. CASE ListQuery(r)
    BY <2>2 DEF ListQuery, TypeOK, FlowOK
  <2>3. CASE ListKeep(r)
    BY <2>3 DEF ListKeep, TypeOK, FlowOK
  <2> QED
    BY <1>7, <2>1, <2>2, <2>3 DEF List
<1>8. ASSUME NEW r \in Requests, Delete(r) PROVE FlowOK'
  <2>1. CASE ForgetCache(r)
    BY <2>1 DEF ForgetCache, TypeOK, FlowOK
  <2>2. CASE SetTombstone(r)
    BY <2>2 DEF SetTombstone, TypeOK, FlowOK
  <2>3. CASE DropRow(r)
    BY <2>3 DEF DropRow, Write, TypeOK, FlowOK
  <2>4. CASE DropRowFails(r)
    BY <2>4 DEF DropRowFails, TypeOK, FlowOK
  <2> QED
    BY <1>8, <2>1, <2>2, <2>3, <2>4 DEF Delete
<1>9. ASSUME NEW i \in Instances, Sweep(i) PROVE FlowOK'
  <2>1. CASE SweepList(i)
    BY <2>1 DEF SweepList, TypeOK, FlowOK
  <2>2. CASE SweepDrop(i)
    BY <2>2 DEF SweepDrop, Write, TypeOK, FlowOK
  <2>3. ASSUME NEW p \in Pastes, SweepForget(i, p) PROVE FlowOK'
    BY <2>3 DEF SweepForget, TypeOK, FlowOK
  <2> QED
    BY <1>9, <2>1, <2>2, <2>3 DEF Sweep
<1>10. ASSUME NEW i \in Instances, Crash(i) PROVE FlowOK'
  BY <1>10 DEF Crash, Busy, Deleting, TypeOK, FlowOK
<1>11. CASE Replicate
  BY <1>11 DEF Replicate, TypeOK, FlowOK
<1>12. CASE Age
  BY <1>12 DEF Age, ExpirePaste, CacheTTL, TombstoneTTL, RecentTTL, TypeOK, FlowOK
<1> QED
  BY <1>1, <1>2, <1>3, <1>4, <1>5, <1>6, <1>7, <1>8, <1>9, <1>10, <1>11, <1>12
     DEF Next, Request

\* A reader of a burn paste launches the deletion before it replies, and the row of a
\* finished deletion is never inserted again.
LEMMA BurnsStep == ASSUME TypeOK, CreatesOK, RowsOK, FlowOK, BurnsOK, Next PROVE BurnsOK'
<1> USE DEF Goto, Finish, DelTo
<1>1. ASSUME NEW r \in Requests, Arrive(r) PROVE BurnsOK'
  <2>1. ASSUME NEW s \in Slugs, StartRead(r, s) PROVE BurnsOK'
    BY <2>1 DEF StartRead, Start, ReadOps, CreateOps, TypeOK, FlowOK, BurnsOK, Live
  <2>2. ASSUME NEW s \in Slugs, StartRemove(r, s) PROVE BurnsOK'
    BY <2>2 DEF StartRemove, Start, CreateOps, TypeOK, FlowOK, BurnsOK, Live
  <2>3. ASSUME NEW p \in Pastes, StartCreate(r, p) PROVE BurnsOK'
    <3>1. CASE Start(r, "create", SlugOf[p], "exists")
      BY <2>3, <3>1 DEF StartCreate, Start, Live, Consuming, TypeOK, FlowOK, BurnsOK
    <3>2. CASE Start(r, "generate", SlugOf[p], "probe")
      BY <2>3, <3>2 DEF StartCreate, Start, Live, Consuming, TypeOK, FlowOK, BurnsOK
    <3> QED
      BY <2>3, <3>1, <3>2 DEF StartCreate
  <2>4. CASE StartList(r)
    BY <2>4 DEF StartList, Start, CreateOps, TypeOK, FlowOK, BurnsOK, Live
  <2> QED
    BY <1>1, <2>1, <2>2, <2>3, <2>4 DEF Arrive
<1>2. ASSUME NEW r \in Requests, Lookup(r) PROVE BurnsOK'
  <2>1. CASE CheckTombstone(r)
    BY <2>1 DEF CheckTombstone, NotFound, TypeOK, FlowOK, BurnsOK, Live
  <2>2. CASE CacheGet(r)
    BY ZenonT(40), <2>2 DEF CacheGet, TypeOK, FlowOK, BurnsOK, Live
  <2>3. CASE SelectRow(r)
    <3>1. pc[r] = "select" /\ (del[r] = "none" \/ op[r] = "remove")
      BY <2>3 DEF SelectRow, FlowOK
    <3>2. out[r] = "none"
      BY <3>1 DEF FlowOK
    <3>3. \A q \in Requests : q # r => pc'[q] = pc[q] /\ got'[q] = got[q] /\ out'[q] = out[q]
      BY <2>3 DEF SelectRow, NotFound, TypeOK
    <3>4. pc'[r] \in {"ret", "recheck", "insert", "done"} /\ out'[r] \in {"none", "missing"}
      BY <2>3, <3>2 DEF SelectRow, NotFound, TypeOK
    <3>5. UNCHANGED <<op, del, primary>>
      BY <2>3 DEF SelectRow
    <3> QED
      BY <3>1, <3>3, <3>4, <3>5 DEF BurnsOK, Live, Consuming
  <2>4. CASE RecheckTombstone(r)
    BY <2>4 DEF RecheckTombstone, TypeOK, FlowOK, BurnsOK, Live
  <2>5. CASE CacheSet(r)
    BY <2>5 DEF CacheSet, TypeOK, FlowOK, BurnsOK, Live
  <2> QED
    BY <1>2, <2>1, <2>2, <2>3, <2>4, <2>5 DEF Lookup
<1>3. ASSUME NEW r \in Requests, Return(r) PROVE BurnsOK'
  <2>1. CASE ReturnTaken(r)
    BY <2>1 DEF ReturnTaken, AtReturn, ReadOps, Consuming, TypeOK, FlowOK, BurnsOK, Live
  <2>2. CASE ReturnExpired(r)
    BY <2>2 DEF ReturnExpired, AtReturn, ReadOps, Consuming, TypeOK, FlowOK, BurnsOK, Live
  <2>3. CASE ReturnOpen(r)
    BY <2>3 DEF ReturnOpen, LaunchBurn, AtReturn, ReadOps, Consuming, TypeOK, FlowOK, BurnsOK, Live
  <2>4. CASE ReturnPeek(r)
    BY <2>4 DEF ReturnPeek, AtReturn, ReadOps, Consuming, TypeOK, FlowOK, BurnsOK, Live
  <2>5. CASE ReturnFork(r)
    BY <2>5 DEF ReturnFork, AtReturn, ReadOps, Consuming, TypeOK, FlowOK, BurnsOK, Live
  <2>6. CASE ReturnValidate(r)
    BY <2>6 DEF ReturnValidate, AtReturn, ReadOps, Consuming, TypeOK, FlowOK, BurnsOK, Live
  <2>7. CASE ReturnUnlocked(r)
    BY <2>7 DEF ReturnUnlocked, LaunchBurn, AtReturn, ReadOps, Consuming, TypeOK, FlowOK, BurnsOK, Live
  <2> QED
    BY <1>3, <2>1, <2>2, <2>3, <2>4, <2>5, <2>6, <2>7 DEF Return
<1>4. ASSUME NEW r \in Requests, CountView(r) PROVE BurnsOK'
  <2>1. CASE op[r] = "unlock"
    BY ZenonT(40), <1>4, <2>1 DEF CountView, TypeOK, FlowOK, BurnsOK, Live, Consuming
  <2>2. CASE op[r] # "unlock"
    BY <1>4, <2>2 DEF CountView, TypeOK, FlowOK, BurnsOK, Live, Consuming
  <2> QED
    BY <2>1, <2>2
<1>5. ASSUME NEW r \in Requests, Reply(r) PROVE BurnsOK'
  BY <1>5 DEF Reply, TypeOK, FlowOK, BurnsOK, Live
<1>6. ASSUME NEW r \in Requests, Create(r) PROVE BurnsOK'
  <2>1. CASE ProbeSlug(r)
    BY <2>1 DEF ProbeSlug, TypeOK, FlowOK, BurnsOK, Live
  <2>2. CASE InsertRow(r)
    <3>1. Live' \subseteq Live \cup {new[r]}
      BY <2>2 DEF InsertRow, Write, Live, TypeOK
    <3>2. new[r] \notin born
      BY <2>2 DEF InsertRow, CreatesOK
    <3>3. \A q \in Requests : del[q] = "done" /\ op[q] \in Consuming => got[q] \in born
      BY StoreAssumption DEF FlowOK, RowsOK, Stored, Consuming
    <3>4. UNCHANGED <<op, got, del>>
      BY <2>2 DEF InsertRow
    <3>5. /\ \A q \in Requests \ {r} : pc'[q] = pc[q] /\ out'[q] = out[q]
          /\ pc'[r] \in {"relist", "done"} /\ (out'[r] = "content" => out[r] = "content")
      BY <2>2 DEF InsertRow, TypeOK
    <3> QED
      BY <3>1, <3>2, <3>3, <3>4, <3>5 DEF BurnsOK, TypeOK
  <2>4. CASE ForgetRecent(r)
    BY <2>4 DEF ForgetRecent, TypeOK, FlowOK, BurnsOK, Live
  <2>3. CASE InsertRefused(r)
    BY <2>3 DEF InsertRefused, TypeOK, FlowOK, BurnsOK, Live
  <2> QED
    BY <1>6, <2>1, <2>2, <2>3, <2>4 DEF Create
<1>7. ASSUME NEW r \in Requests, List(r) PROVE BurnsOK'
  <2>1. CASE ListCached(r)
    BY <2>1 DEF ListCached, TypeOK, FlowOK, BurnsOK, Live
  <2>2. CASE ListQuery(r)
    BY <2>2 DEF ListQuery, TypeOK, FlowOK, BurnsOK, Live
  <2>3. CASE ListKeep(r)
    BY <2>3 DEF ListKeep, TypeOK, FlowOK, BurnsOK, Live
  <2> QED
    BY <1>7, <2>1, <2>2, <2>3 DEF List
<1>8. ASSUME NEW r \in Requests, Delete(r) PROVE BurnsOK'
  <2>1. CASE ForgetCache(r)
    BY <2>1 DEF ForgetCache, TypeOK, FlowOK, BurnsOK, Live
  <2>2. CASE SetTombstone(r)
    BY <2>2 DEF SetTombstone, TypeOK, FlowOK, BurnsOK, Live
  <2>3. CASE DropRow(r)
    <3>1. Live' \subseteq Live
      BY <2>3, StoreAssumption DEF DropRow, Write, Live, TypeOK
    <3>2. primary'[at[r]] = NoPaste
      BY <2>3 DEF DropRow, Write, TypeOK
    <3>3. op[r] \in Consuming => got[r] \in Pastes /\ SlugOf[got[r]] = at[r]
      BY <2>3, StoreAssumption DEF DropRow, FlowOK, RowsOK, Stored, Consuming
    <3>4. op[r] \in Consuming => got[r] \notin Live'
      BY <3>2, <3>3, StoreAssumption DEF Live
    <3>5. /\ UNCHANGED <<op, got, pc, out>>
          /\ \A q \in Requests : del'[q] = del[q] \/ (q = r /\ del'[q] \in {"done", "failed"})
      BY <2>3 DEF DropRow, TypeOK
    <3> QED
      BY <3>1, <3>4, <3>5 DEF BurnsOK
  <2>4. CASE DropRowFails(r)
    BY <2>4 DEF DropRowFails, TypeOK, FlowOK, BurnsOK, Live
  <2> QED
    BY <1>8, <2>1, <2>2, <2>3, <2>4 DEF Delete
<1>9. ASSUME NEW i \in Instances, Sweep(i) PROVE BurnsOK'
  <2>1. CASE SweepList(i)
    BY <2>1 DEF SweepList, TypeOK, FlowOK, BurnsOK, Live
  <2>2. CASE SweepDrop(i)
    <3>1. Live' \subseteq Live
      BY <2>2, StoreAssumption DEF SweepDrop, Write, Write, Live, TypeOK
    <3> QED
      BY <2>2, <3>1 DEF SweepDrop, Write, BurnsOK
  <2>3. ASSUME NEW p \in Pastes, SweepForget(i, p) PROVE BurnsOK'
    BY <2>3 DEF SweepForget, TypeOK, FlowOK, BurnsOK, Live
  <2> QED
    BY <1>9, <2>1, <2>2, <2>3 DEF Sweep
<1>10. ASSUME NEW i \in Instances, Crash(i) PROVE BurnsOK'
  BY <1>10 DEF Crash, Busy, Deleting, TypeOK, FlowOK, BurnsOK, Live
<1>11. CASE Replicate
  BY <1>11 DEF Replicate, TypeOK, FlowOK, BurnsOK, Live
<1>12. CASE Age
  BY <1>12 DEF Age, ExpirePaste, CacheTTL, TombstoneTTL, RecentTTL, TypeOK, FlowOK, BurnsOK, Live
<1> QED
  BY <1>1, <1>2, <1>3, <1>4, <1>5, <1>6, <1>7, <1>8, <1>9, <1>10, <1>11, <1>12
     DEF Next, Request

\* The service's expiry check comes after the request has started, on every path to a reply.
LEMMA ExpiryStep == ASSUME TypeOK, FlowOK, ExpiryOK, Next PROVE ExpiryOK'
<1> USE DEF Goto, Finish, DelTo
<1>1. ASSUME NEW r \in Requests, Arrive(r) PROVE ExpiryOK'
  <2>1. ASSUME NEW s \in Slugs, StartRead(r, s) PROVE ExpiryOK'
    BY <2>1 DEF StartRead, Start, ReadOps, CreateOps, GoneSoFar, TypeOK, FlowOK, ExpiryOK
  <2>2. ASSUME NEW s \in Slugs, StartRemove(r, s) PROVE ExpiryOK'
    BY <2>2 DEF StartRemove, Start, CreateOps, GoneSoFar, TypeOK, FlowOK, ExpiryOK
  <2>3. ASSUME NEW p \in Pastes, StartCreate(r, p) PROVE ExpiryOK'
    <3>1. CASE Start(r, "create", SlugOf[p], "exists")
      BY <2>3, <3>1 DEF StartCreate, Start, GoneSoFar, TypeOK, FlowOK, ExpiryOK
    <3>2. CASE Start(r, "generate", SlugOf[p], "probe")
      BY <2>3, <3>2 DEF StartCreate, Start, GoneSoFar, TypeOK, FlowOK, ExpiryOK
    <3> QED
      BY <2>3, <3>1, <3>2 DEF StartCreate
  <2>4. CASE StartList(r)
    BY <2>4 DEF StartList, Start, CreateOps, GoneSoFar, TypeOK, FlowOK, ExpiryOK
  <2> QED
    BY <1>1, <2>1, <2>2, <2>3, <2>4 DEF Arrive
<1>2. ASSUME NEW r \in Requests, Lookup(r) PROVE ExpiryOK'
  <2>1. CASE CheckTombstone(r)
    BY <2>1 DEF CheckTombstone, NotFound, TypeOK, FlowOK, ExpiryOK
  <2>2. CASE CacheGet(r)
    <3>1. pc[r] = "get" /\ out[r] = "none"
      BY <2>2 DEF CacheGet, FlowOK
    <3>2. pc'[r] \in {"ret", "select"} /\ UNCHANGED <<out, op, before, expired>>
      BY <2>2 DEF CacheGet, TypeOK
    <3>3. \A q \in Requests \ {r} : pc'[q] = pc[q] /\ got'[q] = got[q]
      BY <2>2 DEF CacheGet, TypeOK
    <3> QED
      BY <3>1, <3>2, <3>3 DEF ExpiryOK
  <2>3. CASE SelectRow(r)
    BY ZenonT(40), <2>3 DEF SelectRow, NotFound, TypeOK, FlowOK, ExpiryOK
  <2>4. CASE RecheckTombstone(r)
    BY <2>4 DEF RecheckTombstone, TypeOK, FlowOK, ExpiryOK
  <2>5. CASE CacheSet(r)
    BY <2>5 DEF CacheSet, TypeOK, FlowOK, ExpiryOK
  <2> QED
    BY <1>2, <2>1, <2>2, <2>3, <2>4, <2>5 DEF Lookup
<1>3. ASSUME NEW r \in Requests, Return(r) PROVE ExpiryOK'
  <2>1. CASE ReturnTaken(r)
    BY <2>1 DEF ReturnTaken, AtReturn, ReadOps, TypeOK, FlowOK, ExpiryOK
  <2>2. CASE ReturnExpired(r)
    BY <2>2 DEF ReturnExpired, AtReturn, ReadOps, TypeOK, FlowOK, ExpiryOK
  <2>3. CASE ReturnOpen(r)
    BY <2>3 DEF ReturnOpen, AtReturn, ReadOps, TypeOK, FlowOK, ExpiryOK
  <2>4. CASE ReturnPeek(r)
    BY <2>4 DEF ReturnPeek, AtReturn, ReadOps, TypeOK, FlowOK, ExpiryOK
  <2>5. CASE ReturnFork(r)
    BY <2>5 DEF ReturnFork, AtReturn, ReadOps, TypeOK, FlowOK, ExpiryOK
  <2>6. CASE ReturnValidate(r)
    BY <2>6 DEF ReturnValidate, AtReturn, ReadOps, TypeOK, FlowOK, ExpiryOK
  <2>7. CASE ReturnUnlocked(r)
    BY <2>7 DEF ReturnUnlocked, AtReturn, ReadOps, TypeOK, FlowOK, ExpiryOK
  <2> QED
    BY <1>3, <2>1, <2>2, <2>3, <2>4, <2>5, <2>6, <2>7 DEF Return
<1>4. ASSUME NEW r \in Requests, CountView(r) PROVE ExpiryOK'
  BY <1>4 DEF CountView, ReadOps, TypeOK, FlowOK, ExpiryOK
<1>5. ASSUME NEW r \in Requests, Reply(r) PROVE ExpiryOK'
  BY <1>5 DEF Reply, TypeOK, FlowOK, ExpiryOK
<1>6. ASSUME NEW r \in Requests, Create(r) PROVE ExpiryOK'
  <2>1. CASE ProbeSlug(r)
    BY <2>1 DEF ProbeSlug, TypeOK, FlowOK, ExpiryOK
  <2>2. CASE InsertRow(r)
    BY <2>2 DEF InsertRow, Write, TypeOK, FlowOK, ExpiryOK
  <2>4. CASE ForgetRecent(r)
    BY <2>4 DEF ForgetRecent, TypeOK, FlowOK, ExpiryOK
  <2>3. CASE InsertRefused(r)
    BY <2>3 DEF InsertRefused, TypeOK, FlowOK, ExpiryOK
  <2> QED
    BY <1>6, <2>1, <2>2, <2>3, <2>4 DEF Create
<1>7. ASSUME NEW r \in Requests, List(r) PROVE ExpiryOK'
  <2>1. CASE ListCached(r)
    BY <2>1 DEF ListCached, TypeOK, FlowOK, ExpiryOK
  <2>2. CASE ListQuery(r)
    BY <2>2 DEF ListQuery, TypeOK, FlowOK, ExpiryOK
  <2>3. CASE ListKeep(r)
    BY <2>3 DEF ListKeep, TypeOK, FlowOK, ExpiryOK
  <2> QED
    BY <1>7, <2>1, <2>2, <2>3 DEF List
<1>8. ASSUME NEW r \in Requests, Delete(r) PROVE ExpiryOK'
  <2>1. CASE ForgetCache(r)
    BY <2>1 DEF ForgetCache, TypeOK, FlowOK, ExpiryOK
  <2>2. CASE SetTombstone(r)
    BY <2>2 DEF SetTombstone, TypeOK, FlowOK, ExpiryOK
  <2>3. CASE DropRow(r)
    BY <2>3 DEF DropRow, Write, TypeOK, FlowOK, ExpiryOK
  <2>4. CASE DropRowFails(r)
    BY <2>4 DEF DropRowFails, TypeOK, FlowOK, ExpiryOK
  <2> QED
    BY <1>8, <2>1, <2>2, <2>3, <2>4 DEF Delete
<1>9. ASSUME NEW i \in Instances, Sweep(i) PROVE ExpiryOK'
  <2>1. CASE SweepList(i)
    BY <2>1 DEF SweepList, TypeOK, FlowOK, ExpiryOK
  <2>2. CASE SweepDrop(i)
    BY <2>2 DEF SweepDrop, Write, TypeOK, FlowOK, ExpiryOK
  <2>3. ASSUME NEW p \in Pastes, SweepForget(i, p) PROVE ExpiryOK'
    BY <2>3 DEF SweepForget, TypeOK, FlowOK, ExpiryOK
  <2> QED
    BY <1>9, <2>1, <2>2, <2>3 DEF Sweep
<1>10. ASSUME NEW i \in Instances, Crash(i) PROVE ExpiryOK'
  BY <1>10 DEF Crash, TypeOK, FlowOK, ExpiryOK
<1>11. CASE Replicate
  BY <1>11 DEF Replicate, TypeOK, FlowOK, ExpiryOK
<1>12. CASE Age
  BY <1>12 DEF Age, ExpirePaste, CacheTTL, TombstoneTTL, RecentTTL, TypeOK, FlowOK, ExpiryOK
<1> QED
  BY <1>1, <1>2, <1>3, <1>4, <1>5, <1>6, <1>7, <1>8, <1>9, <1>10, <1>11, <1>12
     DEF Next, Request

\* Only expired rows enter a cleanup cycle, and expiry is final.
LEMMA SweepStep == ASSUME TypeOK, SweepOK, Next PROVE SweepOK'
<1> USE DEF TypeOK, SweepOK, Cycle
<1>1. CASE UNCHANGED <<sweep, expired>>
  BY <1>1
<1>2. ASSUME NEW r \in Requests, Arrive(r) PROVE UNCHANGED <<sweep, expired>>
  BY <1>2 DEF Arrive, StartRead, StartRemove, StartCreate, StartList
<1>3. ASSUME NEW r \in Requests, Lookup(r) PROVE UNCHANGED <<sweep, expired>>
  BY <1>3 DEF Lookup, CheckTombstone, CacheGet, SelectRow, RecheckTombstone, CacheSet
<1>4. ASSUME NEW r \in Requests, Return(r) PROVE UNCHANGED <<sweep, expired>>
  BY <1>4 DEF Return, ReturnTaken, ReturnExpired, ReturnOpen, ReturnPeek, ReturnFork,
              ReturnValidate, ReturnUnlocked
<1>5. ASSUME NEW r \in Requests, CountView(r) \/ Reply(r) PROVE UNCHANGED <<sweep, expired>>
  BY <1>5 DEF CountView, Reply
<1>6. ASSUME NEW r \in Requests, Create(r) PROVE UNCHANGED <<sweep, expired>>
  BY <1>6 DEF Create, ProbeSlug, InsertRow, ForgetRecent, InsertRefused
<1>7. ASSUME NEW r \in Requests, List(r) PROVE UNCHANGED <<sweep, expired>>
  BY <1>7 DEF List, ListCached, ListQuery, ListKeep
<1>8. ASSUME NEW r \in Requests, Delete(r) PROVE UNCHANGED <<sweep, expired>>
  BY <1>8 DEF Delete, ForgetCache, SetTombstone, DropRow, DropRowFails
<1>9. ASSUME NEW i \in Instances, Sweep(i) PROVE SweepOK'
  <2>1. CASE SweepList(i)
    BY <2>1 DEF SweepList, Idle
  <2>2. CASE SweepDrop(i)
    BY <2>2 DEF SweepDrop
  <2>3. ASSUME NEW p \in Pastes, SweepForget(i, p) PROVE SweepOK'
    BY <2>3 DEF SweepForget
  <2> QED
    BY <1>9, <2>1, <2>2, <2>3 DEF Sweep
<1>10. ASSUME NEW i \in Instances, Crash(i) PROVE SweepOK'
  BY <1>10 DEF Crash, Idle
<1>11. CASE Replicate
  BY <1>1, <1>11 DEF Replicate
<1>12. CASE Age
  BY <1>12 DEF Age, ExpirePaste, CacheTTL, TombstoneTTL, RecentTTL
<1> QED
  BY <1>1, <1>2, <1>3, <1>4, <1>5, <1>6, <1>7, <1>8, <1>9, <1>10, <1>11, <1>12
     DEF Next, Request

-----------------------------------------------------------------------------
(* Views *)

\* Nobody but a request at CountView writes the buffer, and no other step makes a
\* request a counted one or moves one to another slug.
LEMMA OthersCountNothing ==
    ASSUME TypeOK, CreatesOK, FlowOK, Next, ~\E r \in Requests : CountView(r)
    PROVE  /\ views' = views
           /\ \A q \in Requests : Counted(q)' => Counted(q) /\ at'[q] = at[q]
<1> DEFINE Goal == /\ views' = views
                   /\ \A q \in Requests : Counted(q)' => Counted(q) /\ at'[q] = at[q]
<1> USE DEF Goto, Finish, DelTo
<1>1. ASSUME NEW r \in Requests, Arrive(r) PROVE Goal
  <2>1. ASSUME NEW s \in Slugs, StartRead(r, s) PROVE Goal
    BY <2>1 DEF StartRead, Start, ReadOps, TypeOK, FlowOK, Counted
  <2>2. ASSUME NEW s \in Slugs, StartRemove(r, s) PROVE Goal
    BY <2>2 DEF StartRemove, Start, TypeOK, FlowOK, Counted
  <2>3. ASSUME NEW p \in Pastes, StartCreate(r, p) PROVE Goal
    BY <2>3 DEF StartCreate, Start, TypeOK, FlowOK, Counted
  <2>4. CASE StartList(r)
    BY <2>4 DEF StartList, Start, TypeOK, FlowOK, Counted
  <2> QED
    BY <1>1, <2>1, <2>2, <2>3, <2>4 DEF Arrive
<1>2. ASSUME NEW r \in Requests, Lookup(r) PROVE Goal
  <2>1. CASE CheckTombstone(r)
    BY <2>1 DEF CheckTombstone, NotFound, TypeOK, FlowOK, Counted
  <2>2. CASE CacheGet(r)
    BY <2>2 DEF CacheGet, TypeOK, FlowOK, Counted
  <2>3. CASE SelectRow(r)
    BY <2>3 DEF SelectRow, NotFound, TypeOK, FlowOK, Counted
  <2>4. CASE RecheckTombstone(r)
    BY <2>4 DEF RecheckTombstone, TypeOK, FlowOK, Counted
  <2>5. CASE CacheSet(r)
    BY <2>5 DEF CacheSet, TypeOK, FlowOK, Counted
  <2> QED
    BY <1>2, <2>1, <2>2, <2>3, <2>4, <2>5 DEF Lookup
<1>3. ASSUME NEW r \in Requests, Return(r) PROVE Goal
  <2>1. CASE ReturnTaken(r)
    BY <2>1 DEF ReturnTaken, AtReturn, TypeOK, FlowOK, Counted
  <2>2. CASE ReturnExpired(r)
    BY <2>2 DEF ReturnExpired, AtReturn, TypeOK, FlowOK, Counted
  <2>3. CASE ReturnOpen(r)
    BY <2>3 DEF ReturnOpen, AtReturn, TypeOK, FlowOK, Counted
  <2>4. CASE ReturnPeek(r)
    BY <2>4 DEF ReturnPeek, AtReturn, TypeOK, FlowOK, Counted
  <2>5. CASE ReturnFork(r)
    BY <2>5 DEF ReturnFork, AtReturn, TypeOK, FlowOK, Counted
  <2>6. CASE ReturnValidate(r)
    BY <2>6 DEF ReturnValidate, AtReturn, TypeOK, FlowOK, Counted
  <2>7. CASE ReturnUnlocked(r)
    BY <2>7 DEF ReturnUnlocked, AtReturn, TypeOK, FlowOK, Counted
  <2> QED
    BY <1>3, <2>1, <2>2, <2>3, <2>4, <2>5, <2>6, <2>7 DEF Return
<1>4. ASSUME NEW r \in Requests, Reply(r) PROVE Goal
  BY <1>4 DEF Reply, TypeOK, FlowOK, Counted
<1>5. ASSUME NEW r \in Requests, Create(r) PROVE Goal
  <2>1. CASE ProbeSlug(r)
    BY <2>1 DEF ProbeSlug, CreatesOK, CreateOps, TypeOK, FlowOK, Counted
  <2>2. CASE InsertRow(r)
    BY <2>2 DEF InsertRow, CreatesOK, CreateOps, TypeOK, FlowOK, Counted
  <2>4. CASE ForgetRecent(r)
    BY <2>4 DEF ForgetRecent, CreatesOK, CreateOps, TypeOK, FlowOK, Counted
  <2>3. CASE InsertRefused(r)
    BY <2>3 DEF InsertRefused, CreatesOK, CreateOps, TypeOK, FlowOK, Counted
  <2> QED
    BY <1>5, <2>1, <2>2, <2>3, <2>4 DEF Create
<1>6. ASSUME NEW r \in Requests, List(r) PROVE Goal
  <2>1. CASE ListCached(r)
    BY <2>1 DEF ListCached, TypeOK, FlowOK, Counted
  <2>2. CASE ListQuery(r)
    BY <2>2 DEF ListQuery, TypeOK, FlowOK, Counted
  <2>3. CASE ListKeep(r)
    BY <2>3 DEF ListKeep, TypeOK, FlowOK, Counted
  <2> QED
    BY <1>6, <2>1, <2>2, <2>3 DEF List
<1>7. ASSUME NEW r \in Requests, Delete(r) PROVE Goal
  BY <1>7 DEF Delete, ForgetCache, SetTombstone, DropRow, DropRowFails, Counted
<1>8. ASSUME NEW i \in Instances, Sweep(i) PROVE Goal
  BY <1>8 DEF Sweep, SweepList, SweepDrop, SweepForget, Counted
<1>9. ASSUME NEW i \in Instances, Crash(i) PROVE Goal
  BY <1>9 DEF Crash, TypeOK, FlowOK, Counted
<1>10. CASE Replicate \/ Age
  BY <1>10 DEF Replicate, Age, ExpirePaste, CacheTTL, TombstoneTTL, RecentTTL, Counted
<1> QED
  BY <1>1, <1>2, <1>3, <1>4, <1>5, <1>6, <1>7, <1>8, <1>9, <1>10 DEF Next, Request

\* CountView makes one request a counted one and adds one to the buffer of its slug.
LEMMA CountViewCounts ==
    ASSUME TypeOK, FlowOK, ViewsOK, ~RedisMayFail, NEW r \in Requests, CountView(r)
    PROVE  ViewsOK'
<1> DEFINE C(s) == {q \in Requests : at[q] = s /\ Counted(q)}
           D(s) == {q \in Requests : at'[q] = s /\ Counted(q)'}
<1>1. views' = [views EXCEPT ![at[r]] = @ + 1] /\ at' = at /\ at[r] \in Slugs
  BY DEF CountView, TypeOK
<1>2. \A q \in Requests : q # r => (Counted(q)' <=> Counted(q))
  BY DEF CountView, Goto, TypeOK, FlowOK, Counted
<1>3. ASSUME NEW s \in Slugs PROVE views'[s] >= Cardinality(D(s))
  <2>1. IsFiniteSet(C(s)) /\ Cardinality(C(s)) \in Nat
    BY StoreAssumption, FS_Subset, FS_CardinalityType
  <2>2. views[s] \in Nat /\ views[s] >= Cardinality(C(s))
    BY DEF ViewsOK, TypeOK
  <2>3. CASE s = at[r]
    <3>1. D(s) \subseteq C(s) \cup {r}
      BY <1>1, <1>2
    <3>2. /\ IsFiniteSet(C(s) \cup {r})
          /\ Cardinality(C(s) \cup {r}) \in Nat
          /\ Cardinality(C(s) \cup {r}) <= Cardinality(C(s)) + 1
      <4> HIDE DEF C
      <4>1. /\ IsFiniteSet(C(s) \cup {r})
            /\ Cardinality(C(s) \cup {r}) =
                   IF r \in C(s) THEN Cardinality(C(s)) ELSE Cardinality(C(s)) + 1
        BY <2>1, FS_AddElement, Zenon
      <4> QED
        BY <2>1, <4>1
    <3>3. Cardinality(D(s)) <= Cardinality(C(s) \cup {r}) /\ Cardinality(D(s)) \in Nat
      BY <3>1, <3>2, FS_Subset, FS_CardinalityType
    <3>4. views'[s] = views[s] + 1
      BY <1>1, <2>3 DEF TypeOK
    <3> QED
      BY <2>1, <2>2, <3>2, <3>3, <3>4
  <2>4. CASE s # at[r]
    <3>1. D(s) = C(s)
      BY <1>1, <1>2, <2>4
    <3>2. views'[s] = views[s]
      BY <1>1, <2>4 DEF TypeOK
    <3> QED
      BY <2>2, <3>1, <3>2
  <2> QED
    BY <2>3, <2>4
<1> QED
  BY <1>3 DEF ViewsOK

\* Fewer requests to count, the same buffer: the other steps.
LEMMA ViewsKept ==
    ASSUME TypeOK, ViewsOK, views' = views,
           \A q \in Requests : Counted(q)' => Counted(q) /\ at'[q] = at[q]
    PROVE  ViewsOK'
<1> DEFINE C(s) == {q \in Requests : at[q] = s /\ Counted(q)}
           D(s) == {q \in Requests : at'[q] = s /\ Counted(q)'}
<1>1. SUFFICES ASSUME ~RedisMayFail, NEW s \in Slugs PROVE views'[s] >= Cardinality(D(s))
  BY DEF ViewsOK
<1>2. IsFiniteSet(C(s)) /\ Cardinality(C(s)) \in Nat
  BY StoreAssumption, FS_Subset, FS_CardinalityType
<1>3. D(s) \subseteq C(s)
  OBVIOUS
<1>4. Cardinality(D(s)) <= Cardinality(C(s)) /\ Cardinality(D(s)) \in Nat
  BY <1>2, <1>3, FS_Subset, FS_CardinalityType
<1>5. views[s] \in Nat /\ views[s] >= Cardinality(C(s))
  BY <1>1 DEF ViewsOK, TypeOK
<1> QED
  BY <1>2, <1>4, <1>5

\* The buffer counts before the handler replies (IncrementViews), and never counts back.
LEMMA ViewsStep == ASSUME TypeOK, CreatesOK, FlowOK, ViewsOK, Next PROVE ViewsOK'
<1>1. CASE RedisMayFail
  BY <1>1 DEF ViewsOK
<1>2. CASE ~RedisMayFail /\ \E r \in Requests : CountView(r)
  BY <1>2, CountViewCounts
<1>3. CASE ~\E r \in Requests : CountView(r)
  BY <1>3, OthersCountNothing, ViewsKept
<1> QED
  BY <1>1, <1>2, <1>3

-----------------------------------------------------------------------------
(* The theorems *)

\* A cold start over any database satisfies every part of the invariant.
LEMMA InitIInv == Init => IInv
<1> SUFFICES ASSUME Init PROVE IInv
  OBVIOUS
<1>1. TypeOK
  <2>1. (CHOOSE s \in Slugs : TRUE) \in Slugs
    BY StoreAssumption
  <2>2. <<>> \in Seq(Change)
    OBVIOUS
  <2>3. primary \in [Slugs -> Row] /\ replica \in [Slugs -> Row]
    BY DEF Init
  <2>4. cache \in [Slugs -> Row] /\ views \in [Slugs -> Nat] /\ born \in SUBSET Pastes
    BY DEF Init, Row, Live
  <2>5. at \in [Requests -> Slugs]
    BY <2>1 DEF Init
  <2>6. /\ op \in [Requests -> Kinds] /\ pc \in [Requests -> Locations]
        /\ out \in [Requests -> Responses] /\ del \in [Requests -> Deletions]
    BY DEF Init, Kinds, Locations, Responses, Deletions
  <2>7. new \in [Requests -> Row] /\ got \in [Requests -> Row] /\ checked \in [Requests -> Row]
    BY DEF Init, Row
  <2>8. page \in [Requests -> Lists] /\ recent \in Lists
    BY DEF Init, Lists
  <2>9. sweep \in [Instances -> Cycle] /\ before \in [Requests -> Past]
    BY DEF Init, Idle, Cycle, Past, Row
  <2> QED
    BY <2>2, <2>3, <2>4, <2>5, <2>6, <2>7, <2>8, <2>9 DEF Init, TypeOK
<1>2. CreatesOK
  BY DEF Init, CreatesOK, CreateOps
<1>3. RowsOK
  <2>1. \A s \in Slugs : Stored(primary[s], s) /\ primary[s] \in Row
    BY StoreAssumption DEF Init, Stored, Live, Row
  <2>2. \A k \in 1..Len(wal) : FALSE
    BY DEF Init
  <2> QED
    BY <2>1, <2>2 DEF Init, RowsOK, Stored
<1>4. FlowOK
  BY DEF Init, FlowOK
<1>5. BurnsOK
  BY DEF Init, BurnsOK
<1>6. ExpiryOK
  BY DEF Init, ExpiryOK
<1>7. SweepOK
  BY DEF Init, SweepOK, Idle
<1>8. ViewsOK
  <2>1. \A s \in Slugs : {r \in Requests : at[r] = s /\ Counted(r)} = {} /\ views[s] = 0
    BY DEF Init, Counted
  <2> QED
    BY <2>1, FS_EmptySet DEF ViewsOK
<1> QED
  BY <1>1, <1>2, <1>3, <1>4, <1>5, <1>6, <1>7, <1>8 DEF IInv

\* The invariant is inductive.
LEMMA NextIInv == IInv /\ [Next]_vars => IInv'
<1> SUFFICES ASSUME IInv, [Next]_vars PROVE IInv'
  OBVIOUS
<1>1. CASE Next
  BY <1>1, TypeStep, CreatesStep, RowsStep, FlowStep, BurnsStep, ExpiryStep, SweepStep, ViewsStep
     DEF IInv
<1>2. CASE UNCHANGED vars
  <2>1. ViewsOK'
    BY <1>2, ViewsKept DEF vars, IInv, Counted
  <2> QED
    BY <1>2, <2>1 DEF vars, IInv, TypeOK, CreatesOK, RowsOK, Stored, FlowOK, BurnsOK, ExpiryOK,
                      SweepOK, Live
<1> QED
  BY <1>1, <1>2

\* The stores, the handlers' locals and the histories always satisfy IInv.
THEOREM Invariance == Spec => []IInv
  BY InitIInv, NextIInv, PTL DEF Spec

\* Type correctness (every store and local of the paste handlers).
THEOREM TypeCorrect == Spec => []TypeOK
<1>1. IInv => TypeOK
  BY DEF IInv
<1> QED
  BY <1>1, Invariance, PTL

\* Whoever was shown a burn paste, by any route but fork, has launched its
\* deletion, and after that deletion the paste is gone for good
\* (Service.GetBySlug's burn).  Service.Fork burns nothing and is left out.
THEOREM BurnsSettle == Spec => []BurnSettled
<1>1. ASSUME IInv, NEW r \in Requests, Shown(r), got[r] \in Burns
      PROVE  del[r] # "none" /\ (del[r] = "done" => got[r] \notin Live)
  <2>1. op[r] \in Consuming
    BY <1>1 DEF IInv, FlowOK, BurnsOK, Shown, Consuming, ReadOps
  <2> QED
    BY <1>1, <2>1 DEF IInv, BurnsOK, Shown
<1>2. IInv => BurnSettled
  BY <1>1 DEF BurnSettled
<1> QED
  BY <1>2, Invariance, PTL

\* No cache, replica or re-cached record shows a paste to a request that
\* started after its expiry (the expiry checks of paste.Service).
THEOREM ExpiryHolds == Spec => []ExpiredNeverServed
<1>1. IInv => ExpiredNeverServed
  BY DEF IInv, ExpiryOK, ExpiredNeverServed
<1> QED
  BY <1>1, Invariance, PTL

\* The buffer of a slug has counted every reply HandleView and HandleUnlock gave
\* for it, as long as Redis does not fail: a crash loses replies, not counts.
THEOREM ViewsAreCounted == Spec => []ViewsCoverReplies
<1>1. ASSUME IInv PROVE ViewsCoverReplies
  <2> SUFFICES ASSUME ~RedisMayFail, NEW s \in Slugs
               PROVE  views[s] >= Cardinality({r \in Requests : /\ at[r] = s
                                                                /\ out[r] = "content"
                                                                /\ op[r] \in {"view", "peek", "unlock"}})
    BY DEF ViewsCoverReplies
  <2> DEFINE C == {r \in Requests : at[r] = s /\ Counted(r)}
             D == {r \in Requests : /\ at[r] = s
                                    /\ out[r] = "content"
                                    /\ op[r] \in {"view", "peek", "unlock"}}
  <2>1. IsFiniteSet(C) /\ Cardinality(C) \in Nat
    BY StoreAssumption, FS_Subset, FS_CardinalityType
  <2>2. D \subseteq C
    BY DEF Counted
  <2>3. Cardinality(D) <= Cardinality(C) /\ Cardinality(D) \in Nat
    BY <2>1, <2>2, FS_Subset, FS_CardinalityType
  <2>4. views[s] \in Nat /\ views[s] >= Cardinality(C)
    BY <1>1 DEF IInv, ViewsOK, TypeOK
  <2> QED
    BY <2>1, <2>3, <2>4
<1> QED
  BY <1>1, Invariance, PTL

\* Only an INSERT, a DELETE by slug and the sweep's DELETE write the primary.
LEMMA OnlyThreeWrite ==
    ASSUME Next
    PROVE  \/ UNCHANGED primary
           \/ \E r \in Requests : InsertRow(r) \/ DropRow(r)
           \/ \E i \in Instances : SweepDrop(i)
<1>1. ASSUME NEW r \in Requests, Arrive(r) PROVE UNCHANGED primary
  BY <1>1 DEF Arrive, StartRead, StartRemove, StartCreate, StartList
<1>2. ASSUME NEW r \in Requests, Lookup(r) PROVE UNCHANGED primary
  BY <1>2 DEF Lookup, CheckTombstone, CacheGet, SelectRow, RecheckTombstone, CacheSet
<1>3. ASSUME NEW r \in Requests, Return(r) PROVE UNCHANGED primary
  BY <1>3 DEF Return, ReturnTaken, ReturnExpired, ReturnOpen, ReturnPeek, ReturnFork,
              ReturnValidate, ReturnUnlocked
<1>4. ASSUME NEW r \in Requests, CountView(r) \/ Reply(r) \/ List(r) PROVE UNCHANGED primary
  BY <1>4 DEF CountView, Reply, List, ListCached, ListQuery, ListKeep
<1>5. ASSUME NEW r \in Requests, Create(r) PROVE InsertRow(r) \/ UNCHANGED primary
  BY <1>5 DEF Create, ProbeSlug, ForgetRecent, InsertRefused
<1>6. ASSUME NEW r \in Requests, Delete(r) PROVE DropRow(r) \/ UNCHANGED primary
  BY <1>6 DEF Delete, ForgetCache, SetTombstone, DropRowFails
<1>7. ASSUME NEW i \in Instances, Sweep(i) PROVE SweepDrop(i) \/ UNCHANGED primary
  BY <1>7 DEF Sweep, SweepList, SweepForget
<1>8. ASSUME Replicate \/ Age \/ \E i \in Instances : Crash(i) PROVE UNCHANGED primary
  BY <1>8 DEF Replicate, Age, ExpirePaste, CacheTTL, TombstoneTTL, RecentTTL, Crash
<1> QED
  BY <1>1, <1>2, <1>3, <1>4, <1>5, <1>6, <1>7, <1>8 DEF Next, Request

\* A row is deleted for a cause only: expiry, an admin, or a view, raw view or
\* unlock of a burn paste of that slug, a denied one included
\* (DeletePasteBySlug, ExpiryStore.DeletePaste).
THEOREM LossHasCause == Spec => RowLossHasCause
<1> DEFINE Cause(p) == \/ p \in expired
                       \/ \E r \in Requests : /\ del[r] = "drop"
                                              /\ at[r] = SlugOf[p]
                                              /\ \/ op[r] = "remove"
                                                 \/ op[r] \in Consuming /\ got[r] \in Burns
<1>1. ASSUME IInv, Next, NEW p \in Live \ Live' PROVE Cause(p)
  <2>1. p \in Pastes /\ primary[SlugOf[p]] = p /\ SlugOf[p] \in Slugs /\ p # NoPaste
    BY StoreAssumption DEF Live
  <2>2. primary'[SlugOf[p]] # p
    BY <2>1 DEF Live
  <2>3. primary \in [Slugs -> Row]
    BY <1>1 DEF IInv, TypeOK
  <2>4. ASSUME NEW r \in Requests, InsertRow(r) PROVE FALSE
    BY <2>1, <2>2, <2>4, <2>3 DEF InsertRow, Write
  <2>5. ASSUME NEW r \in Requests, DropRow(r) PROVE Cause(p)
    <3>1. primary' = [primary EXCEPT ![at[r]] = NoPaste] \/ primary' = primary
      BY <2>5 DEF DropRow, Write
    <3>2. at[r] = SlugOf[p] /\ del[r] = "drop"
      BY <2>1, <2>2, <2>5, <2>3, <3>1 DEF DropRow
    <3>3. op[r] # "remove" => op[r] \in Consuming /\ got[r] \in Burns
      BY <1>1, <3>2 DEF IInv, FlowOK
    <3> QED
      BY <3>2, <3>3
  <2>6. ASSUME NEW i \in Instances, SweepDrop(i) PROVE Cause(p)
    <3>1. \/ /\ sweep[i].cur \in Live
             /\ primary' = [primary EXCEPT ![SlugOf[sweep[i].cur]] = NoPaste]
          \/ primary' = primary
      BY <2>6 DEF SweepDrop, Write
    <3>2. sweep[i].cur = p
      BY <2>1, <2>2, <2>3, <3>1 DEF Live
    <3> QED
      BY <1>1, <2>1, <3>2 DEF IInv, SweepOK
  <2>7. \/ UNCHANGED primary
        \/ \E r \in Requests : InsertRow(r) \/ DropRow(r)
        \/ \E i \in Instances : SweepDrop(i)
    BY <1>1, OnlyThreeWrite
  <2> QED
    BY <2>2, <2>1, <2>4, <2>5, <2>6, <2>7
<1>2. IInv /\ [Next]_vars => [\A p \in Live \ Live' : Cause(p)]_vars
  BY <1>1
<1> QED
  BY <1>2, Invariance, PTL DEF Spec, RowLossHasCause

-----------------------------------------------------------------------------
(* The store implements its contract: an INSERT publishes, a launched deletion *)
(* gives up its slug, a DELETE of a row withdraws it, a reply shows it, and    *)
(* every other step is invisible.                                              *)

\* Who is not launching a deletion gives up no slug.
LEMMA SameSpent ==
    ASSUME \A q \in Requests : /\ (del'[q] # "none") <=> (del[q] # "none")
                               /\ del[q] # "none" => at'[q] = at[q]
    PROVE  Spent' = Spent
  BY DEF Spent

\* A request that was answered with the content of a paste.
Given(q) == out[q] = "content"

\* Who does not reply shows nothing.
LEMMA SameSeen ==
    ASSUME \A q \in Requests : /\ Given(q)' <=> Given(q)
                               /\ Given(q) => got'[q] = got[q] /\ op'[q] = op[q]
    PROVE  Seen' = Seen /\ Drafted' = Drafted
  BY DEF Seen, Drafted, Shown, Copied, Given

\* A step between the stores and the caches is invisible to the contract.
LEMMA Stutter ==
    ASSUME UNCHANGED <<primary, born, expired>>,
           \A q \in Requests : /\ (del'[q] # "none") <=> (del[q] # "none")
                               /\ del[q] # "none" => at'[q] = at[q],
           \A q \in Requests : /\ Given(q)' <=> Given(q)
                               /\ Given(q) => got'[q] = got[q] /\ op'[q] = op[q]
    PROVE  UNCHANGED Contract!vars
<1>1. Spent' = Spent
  BY SameSpent
<1>2. Seen' = Seen /\ Drafted' = Drafted
  BY SameSeen
<1>3. Live' = Live
  BY DEF Live
<1> QED
  BY <1>1, <1>2, <1>3 DEF Contract!vars

\* Launching a deletion gives up the slug, whoever holds the slug by then.
LEMMA Launch ==
    ASSUME UNCHANGED <<primary, born, expired>>,
           NEW r \in Requests, at'[r] \in Slugs, del'[r] # "none", del[r] # "none" => at'[r] = at[r],
           \A q \in Requests \ {r} : /\ (del'[q] # "none") <=> (del[q] # "none")
                                     /\ at'[q] = at[q],
           \A q \in Requests : /\ Given(q)' <=> Given(q)
                               /\ Given(q) => got'[q] = got[q] /\ op'[q] = op[q]
    PROVE  Contract!Next
<1>1. Spent' = Spent \cup {at'[r]}
  BY DEF Spent
<1>2. Seen' = Seen /\ Drafted' = Drafted
  BY SameSeen
<1>3. Live' = Live
  BY DEF Live
<1>4. Contract!GiveUp(at'[r])
  BY <1>1, <1>2, <1>3 DEF Contract!GiveUp
<1> QED
  BY <1>4 DEF Contract!Next

\* Deleting a row withdraws its paste when it has expired or its slug was given up.
LEMMA Withdrawn ==
    ASSUME TypeOK, RowsOK, UNCHANGED <<born, expired, Spent, Seen, Drafted>>,
           NEW s \in Slugs, primary[s] # NoPaste,
           primary' = [primary EXCEPT ![s] = NoPaste],
           primary[s] \in expired \/ s \in Spent
    PROVE  Contract!Next
<1> DEFINE p == primary[s]
<1>1. p \in Pastes /\ SlugOf[p] = s /\ p \in Live
  BY DEF TypeOK, Row, RowsOK, Stored, Live
<1>2. Live' = Live \ {p}
  BY <1>1, StoreAssumption DEF Live, TypeOK
<1>3. p \in born
  BY DEF RowsOK, Stored
<1>4. (born \ Live)' = (born \ Live) \cup {p}
  BY <1>1, <1>2, <1>3
<1>5. Contract!Withdraw(p)
  BY <1>1, <1>2, <1>4 DEF Contract!Withdraw
<1> QED
  BY <1>1, <1>5 DEF Contract!Next

\* Every step of the store is a step of the contract, or none.
LEMMA ContractStep == ASSUME IInv, Next PROVE [Contract!Next]_(Contract!vars)
<1> USE DEF Goto, Finish, DelTo, IInv
<1>1. ASSUME NEW r \in Requests, Arrive(r) PROVE [Contract!Next]_(Contract!vars)
  <2>1. ASSUME NEW s \in Slugs, StartRead(r, s) PROVE [Contract!Next]_(Contract!vars)
    BY <2>1, Stutter DEF StartRead, Start, ReadOps, CreateOps, TypeOK, FlowOK, Given
  <2>2. ASSUME NEW s \in Slugs, StartRemove(r, s) PROVE [Contract!Next]_(Contract!vars)
    <3> USE <2>2 DEF StartRemove, Start, AllOps, TypeOK, FlowOK, Given
    <3> QED
      BY Launch
  <2>3. ASSUME NEW p \in Pastes, StartCreate(r, p) PROVE [Contract!Next]_(Contract!vars)
    BY <2>3, Stutter DEF StartCreate, Start, AllOps, ReadOps, CreateOps, TypeOK, FlowOK, Given
  <2>4. CASE StartList(r)
    BY <2>4, Stutter DEF StartList, Start, AllOps, ReadOps, CreateOps, TypeOK, FlowOK, Given
  <2> QED
    BY <1>1, <2>1, <2>2, <2>3, <2>4 DEF Arrive
<1>2. ASSUME NEW r \in Requests, Lookup(r) PROVE [Contract!Next]_(Contract!vars)
  <2>1. CASE CheckTombstone(r)
    BY <2>1, Stutter DEF CheckTombstone, NotFound, TypeOK, FlowOK, Given
  <2>2. CASE CacheGet(r)
    BY <2>2, Stutter DEF CacheGet, TypeOK, FlowOK, Given
  <2>3. CASE SelectRow(r)
    BY SMTT(30), <2>3, Stutter DEF SelectRow, NotFound, TypeOK, FlowOK, Given
  <2>4. CASE RecheckTombstone(r)
    BY <2>4, Stutter DEF RecheckTombstone, TypeOK, FlowOK, Given
  <2>5. CASE CacheSet(r)
    BY <2>5, Stutter DEF CacheSet, TypeOK, FlowOK, Given
  <2> QED
    BY <1>2, <2>1, <2>2, <2>3, <2>4, <2>5 DEF Lookup
<1>3. ASSUME NEW r \in Requests, Return(r) PROVE [Contract!Next]_(Contract!vars)
  <2>1. CASE ReturnTaken(r)
    BY <2>1, Stutter DEF ReturnTaken, AtReturn, ReadOps, CreateOps, TypeOK, FlowOK, Given
  <2>2. CASE ReturnExpired(r)
    BY <2>2, Stutter DEF ReturnExpired, AtReturn, ReadOps, CreateOps, TypeOK, FlowOK, Given
  <2>3. CASE ReturnOpen(r)
    <3>1. \A q \in Requests : (Given(q)' <=> Given(q)) /\ got'[q] = got[q] /\ op'[q] = op[q] /\ at'[q] = at[q]
      BY <2>3 DEF ReturnOpen, AtReturn, TypeOK, FlowOK, Given
    <3>2. CASE got[r] \in Burns
      BY <2>3, <3>1, <3>2, Launch DEF ReturnOpen, LaunchBurn, AtReturn, TypeOK
    <3>3. CASE got[r] \notin Burns
      BY <2>3, <3>1, <3>3, Stutter DEF ReturnOpen, LaunchBurn, AtReturn, TypeOK
    <3> QED
      BY <3>2, <3>3
  <2>4. CASE ReturnPeek(r)
    BY <2>4, Stutter DEF ReturnPeek, AtReturn, ReadOps, CreateOps, TypeOK, FlowOK, Given
  <2>5. CASE ReturnFork(r)
    <3>1. /\ pc[r] = "ret" /\ op[r] = "fork" /\ out[r] = "none" /\ got[r] # NoPaste
          /\ out' = [out EXCEPT ![r] = "content"]
          /\ UNCHANGED <<op, got, at, del, primary, born, expired>>
      BY <2>5 DEF ReturnFork, AtReturn, FlowOK
    <3>2. got[r] \in born /\ got[r] \in Pastes
      BY <3>1 DEF TypeOK, RowsOK, Stored, Row
    <3>3. Spent' = Spent /\ Live' = Live
      BY <3>1 DEF Spent, Live
    <3>4. Drafted' = [Drafted EXCEPT ![r] = got[r]] /\ Drafted[r] = NoPaste /\ Seen' = Seen
      BY <3>1 DEF Seen, Drafted, Shown, Copied, TypeOK
    <3>5. Contract!Copy(r, got[r])
      BY <3>1, <3>2, <3>3, <3>4 DEF Contract!Copy
    <3> QED
      BY <3>2, <3>5 DEF Contract!Next
  <2>6. CASE ReturnValidate(r)
    BY <2>6, Stutter DEF ReturnValidate, AtReturn, ReadOps, CreateOps, TypeOK, FlowOK, Given
  <2>7. CASE ReturnUnlocked(r)
    <3>1. \A q \in Requests : (Given(q)' <=> Given(q)) /\ got'[q] = got[q] /\ op'[q] = op[q] /\ at'[q] = at[q]
      BY <2>7 DEF ReturnUnlocked, AtReturn, TypeOK, FlowOK, Given
    <3>2. CASE got[r] \in Burns
      BY <2>7, <3>1, <3>2, Launch DEF ReturnUnlocked, LaunchBurn, AtReturn, TypeOK
    <3>3. CASE got[r] \notin Burns
      BY <2>7, <3>1, <3>3, Stutter DEF ReturnUnlocked, LaunchBurn, AtReturn, TypeOK
    <3> QED
      BY <3>2, <3>3
  <2> QED
    BY <1>3, <2>1, <2>2, <2>3, <2>4, <2>5, <2>6, <2>7 DEF Return
<1>4. ASSUME NEW r \in Requests, CountView(r) PROVE [Contract!Next]_(Contract!vars)
  BY <1>4, Stutter DEF CountView, TypeOK, FlowOK, Given
<1>5. ASSUME NEW r \in Requests, Reply(r) PROVE [Contract!Next]_(Contract!vars)
  <2>1. /\ pc[r] = "reply" /\ op[r] \in ReadOps /\ op[r] # "fork" /\ out[r] = "none"
        /\ out' = [out EXCEPT ![r] = "content"] /\ UNCHANGED <<op, got, at, del, primary>>
    BY <1>5 DEF Reply, FlowOK
  <2>2. got[r] \in born /\ SlugOf[got[r]] = at[r] /\ got[r] \in Pastes
    BY <2>1 DEF TypeOK, FlowOK, RowsOK, Stored, Row
  <2>3. Spent' = Spent /\ Live' = Live
    BY <2>1 DEF Spent, Live
  <2>4. Seen' = [Seen EXCEPT ![r] = got[r]] /\ Seen[r] = NoPaste /\ Drafted' = Drafted
    BY <2>1 DEF Seen, Drafted, Shown, Copied, TypeOK
  <2>5. got[r] \in Burns => SlugOf[got[r]] \in Spent
    BY <2>1, <2>2 DEF BurnsOK, Spent, TypeOK, ReadOps, Consuming
  <2>6. Contract!Show(r, got[r])
    BY <1>5, <2>2, <2>3, <2>4, <2>5 DEF Reply, Contract!Show
  <2> QED
    BY <2>2, <2>6 DEF Contract!Next
<1>6. ASSUME NEW r \in Requests, Create(r) PROVE [Contract!Next]_(Contract!vars)
  <2>1. CASE ProbeSlug(r)
    BY <2>1, Stutter DEF ProbeSlug, TypeOK, FlowOK, Given
  <2>2. CASE InsertRow(r)
    <3>1. Spent' = Spent /\ Seen' = Seen /\ Drafted' = Drafted
      BY <2>2, SameSpent, SameSeen DEF InsertRow, TypeOK, FlowOK, Given
    <3>2. new[r] \in Pastes /\ SlugOf[new[r]] = at[r] /\ new[r] \notin born /\ at[r] \in Slugs
      <4>1. pc[r] = "insert"
        BY <2>2 DEF InsertRow
      <4>2. new[r] # NoPaste /\ SlugOf[new[r]] = at[r] /\ new[r] \notin born
        BY <4>1 DEF CreatesOK
      <4> QED
        BY <4>2 DEF TypeOK, Row
    <3>3. primary' = [primary EXCEPT ![at[r]] = new[r]] /\ primary[at[r]] = NoPaste
      BY <2>2 DEF InsertRow, Write
    <3>4. Live' = Live \cup {new[r]} /\ Live \subseteq born
      BY <3>2, <3>3, StoreAssumption DEF Live, TypeOK, RowsOK, Stored
    <3>5. \A q \in Live : SlugOf[q] # SlugOf[new[r]]
      BY <3>2, <3>3, StoreAssumption DEF Live
    <3>6. born' = born \cup {new[r]} /\ expired' = expired
      BY <2>2 DEF InsertRow
    <3>7. Contract!Publish(new[r])
      BY <3>1, <3>2, <3>4, <3>5, <3>6 DEF Contract!Publish
    <3> QED
      BY <3>2, <3>7 DEF Contract!Next
  <2>4. CASE ForgetRecent(r)
    BY <2>4, Stutter DEF ForgetRecent, TypeOK, FlowOK, Given
  <2>3. CASE InsertRefused(r)
    BY <2>3, Stutter DEF InsertRefused, TypeOK, FlowOK, Given
  <2> QED
    BY <1>6, <2>1, <2>2, <2>3, <2>4 DEF Create
<1>7. ASSUME NEW r \in Requests, List(r) PROVE [Contract!Next]_(Contract!vars)
  <2>1. CASE ListCached(r)
    BY <2>1, Stutter DEF ListCached, TypeOK, FlowOK, Given
  <2>2. CASE ListQuery(r)
    BY <2>2, Stutter DEF ListQuery, TypeOK, FlowOK, Given
  <2>3. CASE ListKeep(r)
    BY <2>3, Stutter DEF ListKeep, TypeOK, FlowOK, Given
  <2> QED
    BY <1>7, <2>1, <2>2, <2>3 DEF List
<1>8. ASSUME NEW r \in Requests, Delete(r) PROVE [Contract!Next]_(Contract!vars)
  <2>1. CASE ForgetCache(r)
    BY <2>1, Stutter DEF ForgetCache, TypeOK, FlowOK, Given
  <2>2. CASE SetTombstone(r)
    BY <2>2, Stutter DEF SetTombstone, TypeOK, FlowOK, Given
  <2>3. CASE DropRow(r)
    <3>1. Spent' = Spent /\ Seen' = Seen /\ Drafted' = Drafted /\ UNCHANGED <<born, expired>>
      BY <2>3, SameSpent, SameSeen DEF DropRow, TypeOK, Given
    <3>2. CASE primary[at[r]] = NoPaste
      BY <2>3, <3>1, <3>2 DEF DropRow, Live, Contract!vars
    <3>3. CASE primary[at[r]] # NoPaste
      <4>1. primary' = [primary EXCEPT ![at[r]] = NoPaste] /\ at[r] \in Spent /\ at[r] \in Slugs
        BY <2>3, <3>3 DEF DropRow, Write, Spent, TypeOK
      <4> QED
        BY <3>1, <3>3, <4>1, Withdrawn
    <3> QED
      BY <3>2, <3>3
  <2>4. CASE DropRowFails(r)
    BY <2>4, Stutter DEF DropRowFails, TypeOK, FlowOK, Given
  <2> QED
    BY <1>8, <2>1, <2>2, <2>3, <2>4 DEF Delete
<1>9. ASSUME NEW i \in Instances, Sweep(i) PROVE [Contract!Next]_(Contract!vars)
  <2>1. CASE SweepList(i)
    BY <2>1, Stutter DEF SweepList, TypeOK, FlowOK, Given
  <2>2. CASE SweepDrop(i)
    <3>1. Spent' = Spent /\ Seen' = Seen /\ Drafted' = Drafted /\ UNCHANGED <<born, expired>>
      BY <2>2, SameSpent, SameSeen DEF SweepDrop, Write, Given
    <3>2. CASE UNCHANGED primary
      BY <2>2, <3>1, <3>2 DEF SweepDrop, Write, Live, Contract!vars
    <3>3. CASE primary' # primary
      <4>1. sweep[i].cur \in Live /\ sweep[i].cur \in expired
        BY <2>2, <3>3, StoreAssumption DEF SweepDrop, Write, SweepOK
      <4>2. primary' = [primary EXCEPT ![SlugOf[sweep[i].cur]] = NoPaste]
        BY <2>2, <3>3 DEF SweepDrop, Write, Write
      <4>3. primary[SlugOf[sweep[i].cur]] = sweep[i].cur /\ SlugOf[sweep[i].cur] \in Slugs
        BY <4>1, StoreAssumption DEF Live
      <4> QED
        BY <3>1, <4>1, <4>2, <4>3, StoreAssumption, Withdrawn DEF Live
    <3> QED
      BY <3>2, <3>3
  <2>3. ASSUME NEW p \in Pastes, SweepForget(i, p) PROVE [Contract!Next]_(Contract!vars)
    BY <2>3, Stutter DEF SweepForget, TypeOK, FlowOK, Given
  <2> QED
    BY <1>9, <2>1, <2>2, <2>3 DEF Sweep
<1>10. ASSUME NEW i \in Instances, Crash(i) PROVE [Contract!Next]_(Contract!vars)
  BY <1>10, Stutter DEF Crash, Busy, Deleting, TypeOK, FlowOK, Given
<1>11. CASE Replicate
  BY <1>11, Stutter DEF Replicate, TypeOK, FlowOK, Given
<1>12. CASE Age
  <2>1. ASSUME NEW p \in Pastes, ExpirePaste(p) PROVE Contract!Next
    <3>1. Spent' = Spent /\ Seen' = Seen /\ Drafted' = Drafted /\ Live' = Live
      BY <2>1, SameSpent, SameSeen DEF ExpirePaste, Given, Live
    <3>2. Contract!Lapse(p)
      BY <2>1, <3>1 DEF ExpirePaste, Contract!Lapse
    <3> QED
      BY <3>2 DEF Contract!Next
  <2>2. ASSUME NEW s \in Slugs, CacheTTL(s) \/ TombstoneTTL(s) PROVE UNCHANGED Contract!vars
    BY <2>2, Stutter DEF CacheTTL, TombstoneTTL, Given
  <2>3. CASE RecentTTL
    BY <2>3, Stutter DEF RecentTTL, Given
  <2> QED
    BY <1>12, <2>1, <2>2, <2>3 DEF Age
<1> QED
  BY <1>1, <1>2, <1>3, <1>4, <1>5, <1>6, <1>7, <1>8, <1>9, <1>10, <1>11, <1>12
     DEF Next, Request

\* The store implements the contract: pastes are published once on a free
\* slug, withdrawn only when expired or given up, and a burn paste is shown
\* only after its slug was given up; a fork copies any of them and gives
\* nothing up.
THEOREM Implements == Spec => ImplementsContract
<1>1. Init => Contract!Init
  <2> SUFFICES ASSUME Init PROVE Contract!Init
    OBVIOUS
  <2>1. Live \subseteq Pastes /\ \A p, q \in Live : SlugOf[p] = SlugOf[q] => p = q
    BY DEF Live
  <2>2. Spent = {}
    BY DEF Init, Spent
  <2>3. Seen = [r \in Requests |-> NoPaste] /\ Drafted = [r \in Requests |-> NoPaste]
    BY DEF Init, Seen, Drafted, Shown, Copied
  <2> QED
    BY <2>1, <2>2, <2>3 DEF Init, Contract!Init
<1>2. IInv /\ [Next]_vars => [Contract!Next]_(Contract!vars)
  <2> SUFFICES ASSUME IInv, [Next]_vars PROVE [Contract!Next]_(Contract!vars)
    OBVIOUS
  <2>1. CASE Next
    BY <2>1, ContractStep
  <2>2. CASE UNCHANGED vars
    BY <2>2, Stutter DEF vars, Given
  <2> QED
    BY <2>1, <2>2
<1> QED
  BY <1>1, <1>2, Invariance, PTL DEF Spec, ImplementsContract, Contract!Spec
=============================================================================
