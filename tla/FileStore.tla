------------------------------- MODULE FileStore -------------------------------
(***************************************************************************)
(* Files: a row of table files and an object in the blob store for every   *)
(* storage key uploads/<slug>/<filename>, written by two calls and removed *)
(* by two calls.  Uploads (through the server, or by a presigned URL and a *)
(* registration), admin deletions, the scheduled cleanup under its Redis   *)
(* lock and the on-demand purge, which takes no lock, run side by side.    *)
(*                                                                         *)
(* The store is one provider, or several with failover (MultiS3Storage).   *)
(* Keys meet only in the limit of a batch, so one provider stands for the  *)
(* hashed one of every key.                                                *)
(* A row is a number: the ids of a key's successive rows.                  *)
(***************************************************************************)
EXTENDS Integers, FiniteSets

CONSTANTS
    Keys,        \* storage keys; a generated slug is fresh
    Providers,
    Primary,     \* the provider GetProviderIndex gives
    Requests,    \* goroutines that upload, register or delete
    Cleaners,    \* goroutines that run RunCleanup
    NoKey,
    Batch,       \* batchSize
    Faults,      \* subset of {"storage", "db", "redis", "lag"}
    MaxIds,      \* bound on the rows of a key
    MaxCrashes   \* bound on goroutines that die

ASSUME FileAssumption ==
    /\ Primary \in Providers
    /\ NoKey \notin Keys
    /\ Batch \in Nat \ {0}
    /\ Faults \subseteq {"storage", "db", "redis", "lag"}
    /\ MaxIds \in Nat
    /\ MaxCrashes \in Nat

VARIABLES
    origin,      \* how a key was generated, and whether its upload URL is good
    blobs,       \* the providers that hold the object
    row, ids,    \* the id of the key's row (0: none), the last id used
    expired,     \* the rows <<key, id>> past expires_at, deleted ones included
    at, key, tried,                          \* a request: next call, key, providers tried
    lock,                                    \* Redis lock:expiry_cleanup
    cl, locked, room, todo, item, removed,   \* a cleaner: next call, locals
    aim,         \* history: the expired rows when a purge began
    lapsed,      \* history: the lock ran out under a cycle
    faulted, crashes                         \* history

store == <<origin, blobs, row, ids, expired>>
requests == <<at, key, tried>>
cleaning == <<cl, locked, room, todo, item, removed, aim>>
vars == <<store, requests, lock, cleaning, lapsed, faulted, crashes>>

\* An expired row: its key and its id.
Items == Keys \X (Nat \ {0})
NoItem == <<NoKey, 0>>

\* Mutant: the query lists what has no expiry time, too.
DueAll == {<<k, row[k]>> : k \in {x \in Keys : row[x] # 0}}

Due == {<<k, row[k]>> : k \in {x \in Keys : <<x, row[x]>> \in expired}}

Init ==
    /\ origin = [k \in Keys |-> "free"]
    /\ blobs = [k \in Keys |-> {}]
    /\ row = [k \in Keys |-> 0]
    /\ ids = [k \in Keys |-> 0]
    /\ expired = {}
    /\ at = [q \in Requests |-> "idle"]
    /\ key = [q \in Requests |-> NoKey]
    /\ tried = [q \in Requests |-> {}]
    /\ lock = FALSE
    /\ cl = [c \in Cleaners |-> "idle"]
    /\ locked = [c \in Cleaners |-> FALSE]
    /\ room = [c \in Cleaners |-> 0]
    /\ todo = [c \in Cleaners |-> {}]
    /\ item = [c \in Cleaners |-> NoItem]
    /\ removed = [c \in Cleaners |-> FALSE]
    /\ aim = [c \in Cleaners |-> {}]
    /\ lapsed = FALSE
    /\ faulted = FALSE
    /\ crashes = 0

Fault(f) == f \in Faults /\ faulted' = TRUE

-----------------------------------------------------------------------------
(* The blob store *)

Put(k, p) == blobs' = [blobs EXCEPT ![k] = @ \cup {p}]

\* Delete at the primary, then at all others, whose errors are swallowed: ok
\* is the primary's answer.  A failed delete may have been executed.
DeleteBlob(k, ok) ==
    \/ ok /\ blobs' = [blobs EXCEPT ![k] = {}] /\ UNCHANGED faulted
    \/ /\ Fault("storage")
       /\ \E kept \in SUBSET blobs[k] :
             /\ ok => Primary \notin kept
             /\ blobs' = [blobs EXCEPT ![k] = kept]

\* Open and Head probe every provider.
Found(k) == blobs[k] # {}

\* The provider a direct download is sent to: the one GetProviderName
\* recorded in the row at the upload, without a look at the store.
DirectTarget(k) == Primary

-----------------------------------------------------------------------------
(* Uploads and registrations *)

Goto(q, l) == at' = [at EXCEPT ![q] = l]
Done(q) == /\ at' = [at EXCEPT ![q] = "idle"]
           /\ key' = [key EXCEPT ![q] = NoKey]
           /\ tried' = [tried EXCEPT ![q] = {}]

\* Upload: the slug is generated and the body is in a seekable temporary file.
Upload(q, k) ==
    /\ at[q] = "idle"
    /\ origin[k] = "free"
    /\ origin' = [origin EXCEPT ![k] = "proxied"]
    /\ Goto(q, "save")
    /\ key' = [key EXCEPT ![q] = k]
    /\ UNCHANGED <<blobs, row, ids, expired, tried, lock, cleaning, lapsed, faulted, crashes>>

\* Mutant: when every provider has failed, no error is returned.
SaveSilent(q, p) ==
    /\ at[q] = "save"
    /\ p \notin tried[q]
    /\ p # Primary => Primary \in tried[q]
    /\ \/ Put(key[q], p) /\ Goto(q, "insert") /\ UNCHANGED <<tried, faulted>>
       \/ /\ Fault("storage")
          /\ UNCHANGED blobs
          /\ tried' = [tried EXCEPT ![q] = @ \cup {p}]
          /\ IF tried[q] \cup {p} = Providers THEN Goto(q, "insert") ELSE UNCHANGED at
    /\ UNCHANGED <<key, origin, row, ids, expired, lock, cleaning, lapsed, crashes>>

\* One attempt of Save: the primary first, then the others.  A failed attempt
\* may have stored the object.
Save(q, p) ==
    /\ at[q] = "save"
    /\ p \notin tried[q]
    /\ p # Primary => Primary \in tried[q]
    /\ \/ Put(key[q], p) /\ Goto(q, "insert") /\ UNCHANGED <<key, tried, faulted>>
       \/ /\ Fault("storage")
          /\ Put(key[q], p) \/ UNCHANGED blobs
          /\ IF tried[q] \cup {p} = Providers
             THEN Done(q)
             ELSE tried' = [tried EXCEPT ![q] = @ \cup {p}] /\ UNCHANGED <<at, key>>
    /\ UNCHANGED <<origin, row, ids, expired, lock, cleaning, lapsed, crashes>>

\* PresignUploadURL; the URL is good for an hour.
Presign(k) ==
    /\ origin[k] = "free"
    /\ origin' = [origin EXCEPT ![k] = "signed"]
    /\ UNCHANGED <<blobs, row, ids, expired, requests, lock, cleaning, lapsed, faulted, crashes>>

ClientPut(k) ==
    /\ origin[k] = "signed"
    /\ Put(k, Primary)
    /\ UNCHANGED <<origin, row, ids, expired, requests, lock, cleaning, lapsed, faulted, crashes>>

UrlLapses(k) ==
    /\ origin[k] = "signed"
    /\ origin' = [origin EXCEPT ![k] = "closed"]
    /\ UNCHANGED <<blobs, row, ids, expired, requests, lock, cleaning, lapsed, faulted, crashes>>

\* RegisterUploadedFile up to Head, which finds the object; clients register
\* what they were given a URL for, late or again.
Register(q, k) ==
    /\ at[q] = "idle"
    /\ origin[k] \in {"signed", "closed"}
    /\ Found(k)
    /\ Goto(q, "insert")
    /\ key' = [key EXCEPT ![q] = k]
    /\ UNCHANGED <<store, tried, lock, cleaning, lapsed, faulted, crashes>>

NewRow(k) ==
    /\ row[k] = 0
    /\ ids[k] < MaxIds
    /\ ids' = [ids EXCEPT ![k] = @ + 1]
    /\ row' = [row EXCEPT ![k] = ids[k] + 1]

\* InsertFile; the slug is unique, so a second row is refused.  A failed
\* insert may have been executed.
InsertFile(q) ==
    /\ at[q] = "insert"
    /\ \/ NewRow(key[q]) /\ UNCHANGED faulted
       \/ row[key[q]] # 0 /\ UNCHANGED <<row, ids, faulted>>
       \/ /\ Fault("db")
          /\ NewRow(key[q]) \/ UNCHANGED <<row, ids>>
    /\ Done(q)
    /\ UNCHANGED <<origin, blobs, expired, lock, cleaning, lapsed, crashes>>

-----------------------------------------------------------------------------
(* Admin deletion: the row, then the blob on a best-effort basis *)

\* GetBySlug may read a record that is no longer in the table.
FindFile(q, k) ==
    /\ at[q] = "idle"
    /\ ids[k] # 0
    /\ Goto(q, "drop")
    /\ key' = [key EXCEPT ![q] = k]
    /\ UNCHANGED <<store, tried, lock, cleaning, lapsed, faulted, crashes>>

\* Mutant: the blob is forgotten.
DropRowOnly(q) ==
    /\ at[q] = "drop"
    /\ row' = [row EXCEPT ![key[q]] = 0]
    /\ Done(q)
    /\ UNCHANGED <<origin, blobs, ids, expired, lock, cleaning, lapsed, faulted, crashes>>

DropRow(q) ==
    /\ at[q] = "drop"
    /\ \/ /\ row[key[q]] # 0
          /\ row' = [row EXCEPT ![key[q]] = 0]
          /\ Goto(q, "erase")
          /\ UNCHANGED <<key, tried, faulted>>
       \/ row[key[q]] = 0 /\ Done(q) /\ UNCHANGED <<row, faulted>>
       \/ /\ Fault("db")
          /\ row' = [row EXCEPT ![key[q]] = 0] \/ UNCHANGED row
          /\ Done(q)
    /\ UNCHANGED <<origin, blobs, ids, expired, lock, cleaning, lapsed, crashes>>

EraseBlob(q) ==
    /\ at[q] = "erase"
    /\ \E ok \in BOOLEAN : DeleteBlob(key[q], ok)
    /\ Done(q)
    /\ UNCHANGED <<origin, row, ids, expired, lock, cleaning, lapsed, crashes>>

-----------------------------------------------------------------------------
(* Cleanup *)

GoClean(c, l) == cl' = [cl EXCEPT ![c] = l]

\* The start of RunCleanup.
Begin(c) ==
    /\ GoClean(c, "pastes")
    /\ removed' = [removed EXCEPT ![c] = FALSE]
    /\ UNCHANGED <<room, todo, item>>

\* Mutant: the cycle runs whether or not SETNX set the key.
AcquireAlways(c) ==
    /\ cl[c] = "idle"
    /\ lock' = TRUE
    /\ Begin(c)
    /\ locked' = [locked EXCEPT ![c] = TRUE]
    /\ UNCHANGED <<store, requests, aim, lapsed, faulted, crashes>>

\* runOnce: SETNX with a TTL; no cycle while the key is there, none after an
\* error, though the key may then be set.
Acquire(c) ==
    /\ cl[c] = "idle"
    /\ \/ /\ ~lock
          /\ lock' = TRUE
          /\ Begin(c)
          /\ locked' = [locked EXCEPT ![c] = TRUE]
          /\ UNCHANGED <<aim, faulted>>
       \/ Fault("redis") /\ lock' = TRUE /\ UNCHANGED cleaning
    /\ UNCHANGED <<store, requests, lapsed, crashes>>

\* PurgeExpired calls RunCleanup without the lock.
StartPurge(c) ==
    /\ cl[c] = "idle"
    /\ Begin(c)
    /\ aim' = [aim EXCEPT ![c] = Due]
    /\ UNCHANGED <<store, requests, lock, locked, lapsed, faulted, crashes>>

\* The goroutine is idle again.
Rest(c) ==
    /\ GoClean(c, "idle")
    /\ locked' = [locked EXCEPT ![c] = FALSE]
    /\ room' = [room EXCEPT ![c] = 0]
    /\ todo' = [todo EXCEPT ![c] = {}]
    /\ item' = [item EXCEPT ![c] = NoItem]
    /\ removed' = [removed EXCEPT ![c] = FALSE]
    /\ aim' = [aim EXCEPT ![c] = {}]

\* RunCleanup returns an error: the purge ends, a cycle releases the lock.
Abort(c) ==
    IF locked[c]
    THEN GoClean(c, "release") /\ UNCHANGED <<locked, room, todo, item, removed, aim>>
    ELSE Rest(c)

\* What a scheduled cycle has deleted is only logged.
Count(c, n) == removed' = [removed EXCEPT ![c] = @ \/ (~locked[c] /\ n > 0)]

\* The pastes of the batch, in one step: any number has expired by then, and
\* a full batch leaves no room for files.
CleanPastes(c) ==
    /\ cl[c] = "pastes"
    /\ \/ \E n \in 0..Batch, d \in 0..Batch :
             /\ d <= n
             /\ \/ d = n /\ UNCHANGED faulted
                \/ Fault("db")
             /\ Count(c, d)
             /\ room' = [room EXCEPT ![c] = Batch - n]
             /\ GoClean(c, IF n = Batch THEN "items" ELSE "files")
             /\ UNCHANGED <<locked, todo, item, aim>>
       \/ Fault("db") /\ Abort(c)
    /\ UNCHANGED <<store, requests, lock, lapsed, crashes>>

\* LIMIT without ORDER BY; a lagging replica lists rows that are gone and
\* not yet those that came late.
ListFiles(c) ==
    /\ cl[c] = "files"
    /\ \/ \E s \in SUBSET Due :
             /\ Cardinality(s) <= room[c]
             /\ Cardinality(s) = room[c] \/ s = Due
             /\ todo' = [todo EXCEPT ![c] = s]
             /\ GoClean(c, "items")
             /\ UNCHANGED <<locked, room, item, removed, aim, faulted>>
       \/ /\ Fault("lag")
          /\ \E s \in SUBSET expired :
                /\ Cardinality(s) <= room[c]
                /\ todo' = [todo EXCEPT ![c] = s]
          /\ GoClean(c, "items")
          /\ UNCHANGED <<locked, room, item, removed, aim>>
       \/ Fault("db") /\ Abort(c)
    /\ UNCHANGED <<store, requests, lock, lapsed, crashes>>

\* Blob first; an item whose blob is not deleted keeps its row.
CleanBlob(c, i) ==
    /\ cl[c] = "items"
    /\ i \in todo[c]
    /\ todo' = [todo EXCEPT ![c] = @ \ {i}]
    /\ \/ DeleteBlob(i[1], TRUE) /\ GoClean(c, "row") /\ item' = [item EXCEPT ![c] = i]
       \/ DeleteBlob(i[1], FALSE) /\ UNCHANGED <<cl, item>>
    /\ UNCHANGED <<origin, row, ids, expired, requests, lock, locked, room, removed, aim, lapsed, crashes>>

DropId(i) == row' = [k \in Keys |-> IF <<k, row[k]>> = i THEN 0 ELSE row[k]]

\* DELETE by id: no error, and one more removed, when the row is gone already.
CleanRow(c) ==
    /\ cl[c] = "row"
    /\ \/ /\ DropId(item[c])
          /\ Count(c, 1)
          /\ UNCHANGED faulted
       \/ /\ Fault("db")
          /\ DropId(item[c]) \/ UNCHANGED row
          /\ UNCHANGED removed
    /\ GoClean(c, "items")
    /\ item' = [item EXCEPT ![c] = NoItem]
    /\ UNCHANGED <<origin, blobs, ids, expired, requests, lock, locked, room, todo, aim, lapsed, crashes>>

\* Mutant: the purge is one cycle.
FinishOnce(c) ==
    /\ cl[c] = "items"
    /\ todo[c] = {}
    /\ Abort(c)
    /\ UNCHANGED <<store, requests, lock, lapsed, faulted, crashes>>

\* The end of RunCleanup: the purge goes on until a cycle removes nothing.
Finish(c) ==
    /\ cl[c] = "items"
    /\ todo[c] = {}
    /\ IF ~locked[c] /\ removed[c] THEN Begin(c) /\ UNCHANGED <<locked, aim>> ELSE Abort(c)
    /\ UNCHANGED <<store, requests, lock, lapsed, faulted, crashes>>

\* ReleaseLock deletes the key, whoever set it.
Release(c) ==
    /\ cl[c] = "release"
    /\ \/ lock' = FALSE /\ UNCHANGED faulted
       \/ Fault("redis") /\ UNCHANGED lock
    /\ Rest(c)
    /\ UNCHANGED <<store, requests, lapsed, crashes>>

-----------------------------------------------------------------------------
(* Time and crashes *)

Expire(k) ==
    /\ row[k] # 0
    /\ expired' = expired \cup {<<k, row[k]>>}
    /\ UNCHANGED <<origin, blobs, row, ids, requests, lock, cleaning, lapsed, faulted, crashes>>

\* Mutant: SETNX without a TTL.
LockStays == lock /\ UNCHANGED vars

\* The TTL of the lock, which may be shorter than a cycle.
LockLapses ==
    /\ lock
    /\ lock' = FALSE
    /\ lapsed' = (lapsed \/ \E c \in Cleaners : locked[c])
    /\ UNCHANGED <<store, requests, cleaning, faulted, crashes>>

\* A goroutine dies with its process, or with the context of its request.
Crash ==
    /\ crashes < MaxCrashes
    /\ crashes' = crashes + 1
    /\ \/ \E q \in Requests : at[q] # "idle" /\ Done(q) /\ UNCHANGED cleaning
       \/ \E c \in Cleaners : cl[c] # "idle" /\ Rest(c) /\ UNCHANGED requests
    /\ UNCHANGED <<store, lock, lapsed, faulted>>

-----------------------------------------------------------------------------

Request(q) == \/ \E k \in Keys : Upload(q, k) \/ Register(q, k) \/ FindFile(q, k)
              \/ \E p \in Providers : Save(q, p)
              \/ InsertFile(q) \/ DropRow(q) \/ EraseBlob(q)

Cycle(c) == \/ CleanPastes(c) \/ ListFiles(c)
            \/ \E i \in todo[c] : CleanBlob(c, i)
            \/ CleanRow(c) \/ Finish(c) \/ Release(c)

Client(k) == Presign(k) \/ ClientPut(k) \/ UrlLapses(k)

Next == \/ \E k \in Keys : Client(k) \/ Expire(k)
        \/ \E q \in Requests : Request(q)
        \/ \E c \in Cleaners : Acquire(c) \/ StartPurge(c) \/ Cycle(c)
        \/ LockLapses
        \/ Crash

Spec == Init /\ [][Next]_vars

\* A cycle that has begun goes on, the tickers of the processes start new
\* ones when the lock is free, and a key with a TTL goes in the end.
FairSpec ==
    /\ Spec
    /\ \A c \in Cleaners : WF_vars(Cycle(c))
    /\ WF_vars(\E c \in Cleaners : Acquire(c) /\ locked'[c])
    /\ WF_vars(LockLapses)

-----------------------------------------------------------------------------
(* Properties *)

StoreTypes ==
    /\ origin \in [Keys -> {"free", "proxied", "signed", "closed"}]
    /\ blobs \in [Keys -> SUBSET Providers]
    /\ row \in [Keys -> Nat]
    /\ ids \in [Keys -> Nat]
    /\ expired \subseteq Items
    /\ lock \in BOOLEAN
    /\ lapsed \in BOOLEAN
    /\ faulted \in BOOLEAN
    /\ crashes \in Nat

RequestTypes ==
    /\ at \in [Requests -> {"idle", "save", "insert", "drop", "erase"}]
    /\ key \in [Requests -> Keys \cup {NoKey}]
    /\ tried \in [Requests -> SUBSET Providers]
    /\ \A q \in Requests : key[q] = NoKey <=> at[q] = "idle"

CleanerTypes ==
    /\ cl \in [Cleaners -> {"idle", "pastes", "files", "items", "row", "release"}]
    /\ locked \in [Cleaners -> BOOLEAN]
    /\ room \in [Cleaners -> Nat]
    /\ todo \in [Cleaners -> SUBSET Items]
    /\ item \in [Cleaners -> Items \cup {NoItem}]
    /\ removed \in [Cleaners -> BOOLEAN]
    /\ aim \in [Cleaners -> SUBSET Items]

\* Types, and the positions of the goroutines.
TypeOK == StoreTypes /\ RequestTypes /\ CleanerTypes

\* A file that went through the server and has not expired can be opened, as
\* long as its row is there: no deletion, sweep, failover or crash leaves a
\* live row without its object (Upload saves before it inserts, DeleteFile
\* removes the row first, RunCleanup touches only what has expired).
UploadedIsServable ==
    \A k \in Keys :
        origin[k] = "proxied" /\ row[k] # 0 /\ <<k, row[k]>> \notin expired => Found(k)

\* Without failures and crashes, the object of such a file without a row is
\* that of an upload or a deletion under way: nothing is left behind.
NoOrphans ==
    ~faulted /\ crashes = 0 =>
        \A k \in Keys :
            origin[k] = "proxied" /\ Found(k) /\ row[k] = 0 =>
                \E q \in Requests : key[q] = k /\ at[q] \in {"insert", "erase"}

\* "TTL to avoid concurrency": at most one scheduled cycle runs, unless the
\* lock ran out under one.
OneCleanup ==
    ~lapsed => \A c, d \in Cleaners : locked[c] /\ locked[d] => c = d

\* "drains backlogs larger than a single batch": a purge that ends without a
\* failure has removed every file that had expired when it began.
PurgeDrains ==
    [][\A c \in Cleaners :
          cl[c] = "items" /\ cl'[c] = "idle" /\ ~faulted /\ crashes' = crashes =>
              \A i \in aim[c] : row[i[1]] # i[2]]_vars

\* From some time on, every cycle finds room for files: RunCleanup returns
\* before the files when the expired pastes fill the batch.
RoomInTheEnd == <>[](\A c \in Cleaners : cl[c] = "items" => room[c] # 0)

\* An expired file is removed in the end, a crash that leaves the lock set
\* included, unless a call fails or full batches of pastes go on expiring.
ExpiredFileGone ==
    RoomInTheEnd =>
        \A k \in Keys, n \in 1..MaxIds :
            (<<k, n>> \in expired) ~> (row[k] # n \/ faulted)

\* Not kept by the code: as long as every cycle finds a full batch of expired
\* pastes, none comes to the files.
FileGoneAnyway ==
    \A k \in Keys, n \in 1..MaxIds :
        (<<k, n>> \in expired) ~> (row[k] # n \/ faulted)

\* "report the name of the provider holding a specific storage key": a file
\* that can be served is found where direct downloads are sent.
DirectFindsFile ==
    \A k \in Keys :
        origin[k] = "proxied" /\ row[k] # 0 /\ <<k, row[k]>> \notin expired
            => DirectTarget(k) \in blobs[k]

-----------------------------------------------------------------------------
(* The inductive invariant *)

\* The live row of a key is its last; an uploaded key has at most one ever.
FilesOK ==
    /\ \A k \in Keys :
          /\ ids[k] <= MaxIds
          /\ row[k] # 0 => row[k] = ids[k]
          /\ origin[k] = "free" => ids[k] = 0 /\ ~Found(k)
          /\ origin[k] = "proxied" => ids[k] <= 1
    /\ \A i \in expired : i[2] <= ids[i[1]]

\* An upload owns its key until its row is inserted, and has saved the object
\* before; a deletion comes after the row.
RequestsOK ==
    \A q \in Requests :
        at[q] # "idle" =>
            /\ origin[key[q]] # "free"
            /\ at[q] = "save" => origin[key[q]] = "proxied"
            /\ at[q] \in {"drop", "erase"} => ids[key[q]] # 0
            /\ origin[key[q]] = "proxied" =>
                  /\ at[q] \in {"save", "insert"} =>
                        /\ ids[key[q]] = 0
                        /\ \A r \in Requests :
                              key[r] = key[q] /\ at[r] \in {"save", "insert"} => r = q
                  /\ at[q] = "insert" => Found(key[q])
                  /\ at[q] = "erase" => row[key[q]] = 0

\* A cleaner holds expired rows only.
CleanersOK ==
    \A c \in Cleaners :
        /\ todo[c] \subseteq expired
        /\ aim[c] \subseteq expired
        /\ cl[c] = "row" => item[c] \in expired

\* Without failures, the object of the row a cleaner deletes next is gone.
ItemsOK ==
    \A c \in Cleaners :
        cl[c] = "row" /\ ~faulted /\ origin[item[c][1]] = "proxied" => ~Found(item[c][1])

\* The lock is held while a scheduled cycle runs, unless it ran out.
LockOK ==
    \A c \in Cleaners :
        /\ locked[c] => cl[c] # "idle"
        /\ cl[c] = "release" => locked[c]
        /\ ~lapsed /\ locked[c] => lock

\* A purge that has listed no file, and removed nothing, has nothing left to do.
PurgeAt(c) ==
    /\ cl[c] = "files" => room[c] # 0
    /\ cl[c] = "items" /\ ~locked[c] /\ ~faulted /\ ~removed[c] /\ todo[c] = {} =>
          \A i \in aim[c] : row[i[1]] # i[2]

PurgeOK == \A c \in Cleaners : PurgeAt(c)

IInv ==
    /\ TypeOK
    /\ FilesOK /\ RequestsOK /\ CleanersOK /\ ItemsOK /\ LockOK /\ PurgeOK
    /\ UploadedIsServable /\ NoOrphans /\ OneCleanup

-----------------------------------------------------------------------------
(* The contract the files implement *)

\* The keys by way of upload, those with an object, the rows there have been,
\* those in the table, and the keys of admins' deletions that come to the row.
Uploaded == {k \in Keys : origin[k] = "proxied"}
Granted == {k \in Keys : origin[k] \in {"signed", "closed"}}
Stored == {k \in Keys : Found(k)}
Ever == {i \in Keys \X (1..MaxIds) : i[2] <= ids[i[1]]}
Listed == {i \in Ever : row[i[1]] = i[2]}
Doomed == {k \in Keys : \E q \in Requests : at[q] = "drop" /\ key[q] = k}

Contract == INSTANCE FileContract WITH
    Ids <- 1..MaxIds,
    uploaded <- Uploaded,
    granted <- Granted,
    objects <- Stored,
    live <- Listed,
    past <- Ever \ Listed,
    lapsed <- expired,
    doomed <- Doomed

\* Every behaviour of the file service, the admin and the expiry manager is
\* one of the contract: a row goes only when its file has expired or an admin
\* deletes it, and the object of an uploaded file not before that.
ImplementsFileContract == Contract!Spec
=============================================================================
