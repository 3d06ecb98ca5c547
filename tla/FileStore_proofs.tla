--------------------------- MODULE FileStore_proofs ---------------------------
(***************************************************************************)
(* Proofs about FileStore, for every set of keys, providers, requests and  *)
(* cleaners, every batch size and every combination of faults.  One lemma  *)
(* per part of IInv, one step per action.                                  *)
(***************************************************************************)
EXTENDS FileStore, TLAPS, FiniteSetTheorems

\* An item is a key and the id of a row.
LEMMA ItemFacts ==
    ASSUME StoreTypes
    PROVE  /\ \A i \in Items : i[1] \in Keys /\ i[2] \in Nat /\ i[2] # 0 /\ i = <<i[1], i[2]>>
           /\ \A k \in Keys : row[k] # 0 => <<k, row[k]>> \in Items
           /\ Due \subseteq expired
           /\ \A k \in Keys : <<k, row[k]>> \in expired => <<k, row[k]>> \in Due
<1>1. \A i \in Items : i[1] \in Keys /\ i[2] \in Nat /\ i[2] # 0 /\ i = <<i[1], i[2]>>
  BY DEF Items
<1>2. \A k \in Keys : row[k] # 0 => <<k, row[k]>> \in Items
  BY DEF Items, StoreTypes
<1>3. Due \subseteq expired /\ \A k \in Keys : <<k, row[k]>> \in expired => <<k, row[k]>> \in Due
  BY DEF Due
<1> QED
  BY <1>1, <1>2, <1>3

\* A request that is not idle has a key.
LEMMA KeyFact == ASSUME TypeOK, NEW q \in Requests, at[q] # "idle" PROVE key[q] \in Keys
  BY DEF TypeOK, RequestTypes

\* Deleting an object keeps the blob store typed.
LEMMA BlobTypes ==
    ASSUME StoreTypes, NEW k \in Keys, NEW ok \in BOOLEAN, DeleteBlob(k, ok)
    PROVE  blobs' \in [Keys -> SUBSET Providers] /\ faulted' \in BOOLEAN
<1>1. CASE blobs' = [blobs EXCEPT ![k] = {}] /\ faulted' = faulted
  BY <1>1 DEF StoreTypes
<1>2. CASE Fault("storage") /\ \E kept \in SUBSET blobs[k] : blobs' = [blobs EXCEPT ![k] = kept]
  BY <1>2 DEF Fault, StoreTypes
<1> QED
  BY <1>1, <1>2 DEF DeleteBlob

\* A new row keeps the table typed.
LEMMA NewRowTypes ==
    ASSUME StoreTypes, NEW k \in Keys, NewRow(k)
    PROVE  row' \in [Keys -> Nat] /\ ids' \in [Keys -> Nat]
  BY DEF NewRow, StoreTypes

\* A goroutine that rests is typed.
LEMMA RestTypes == ASSUME CleanerTypes, NEW c \in Cleaners, Rest(c) PROVE CleanerTypes'
<1>1. cl' \in [Cleaners -> {"idle", "pastes", "files", "items", "row", "release"}] /\ locked' \in [Cleaners -> BOOLEAN]
  BY DEF Rest, GoClean, CleanerTypes
<1>2. room' \in [Cleaners -> Nat] /\ removed' \in [Cleaners -> BOOLEAN]
  BY DEF Rest, CleanerTypes
<1>3. todo' \in [Cleaners -> SUBSET Items] /\ aim' \in [Cleaners -> SUBSET Items]
  BY DEF Rest, CleanerTypes
<1>4. item' \in [Cleaners -> Items \cup {NoItem}]
  BY DEF Rest, CleanerTypes
<1> QED
  BY <1>1, <1>2, <1>3, <1>4 DEF CleanerTypes

\* So is a cleaner that ends its cycle.
LEMMA AbortTypes == ASSUME CleanerTypes, NEW c \in Cleaners, Abort(c) PROVE CleanerTypes'
<1>1. CASE GoClean(c, "release") /\ UNCHANGED <<locked, room, todo, item, removed, aim>>
  BY <1>1 DEF GoClean, CleanerTypes
<1> QED
  BY <1>1, RestTypes DEF Abort

\* Next preserves the types of the stores.
LEMMA StoreTypesStep ==
    ASSUME TypeOK, [Next]_vars
    PROVE  StoreTypes'
<1>1. ASSUME NEW k \in Keys, Presign(k) PROVE StoreTypes'
  BY <1>1, FileAssumption, ItemFacts DEF Presign, TypeOK, StoreTypes, RequestTypes, store, requests, cleaning
<1>2. ASSUME NEW k \in Keys, ClientPut(k) PROVE StoreTypes'
  BY <1>2, FileAssumption, ItemFacts DEF ClientPut, Put, TypeOK, StoreTypes, RequestTypes, store, requests, cleaning
<1>3. ASSUME NEW k \in Keys, UrlLapses(k) PROVE StoreTypes'
  BY <1>3, FileAssumption, ItemFacts DEF UrlLapses, TypeOK, StoreTypes, RequestTypes, store, requests, cleaning
<1>4. ASSUME NEW k \in Keys, Expire(k) PROVE StoreTypes'
  BY <1>4, FileAssumption, ItemFacts DEF Expire, TypeOK, StoreTypes, RequestTypes, store, requests, cleaning
<1>5. ASSUME NEW q \in Requests, NEW k \in Keys, Upload(q, k) PROVE StoreTypes'
  BY <1>5, FileAssumption, ItemFacts DEF Upload, Goto, TypeOK, StoreTypes, RequestTypes, store, requests, cleaning
<1>6. ASSUME NEW q \in Requests, NEW k \in Keys, Register(q, k) PROVE StoreTypes'
  BY <1>6, FileAssumption, ItemFacts DEF Register, Goto, TypeOK, StoreTypes, RequestTypes, store, requests, cleaning
<1>7. ASSUME NEW q \in Requests, NEW k \in Keys, FindFile(q, k) PROVE StoreTypes'
  BY <1>7, FileAssumption, ItemFacts DEF FindFile, Goto, TypeOK, StoreTypes, RequestTypes, store, requests, cleaning
<1>8. ASSUME NEW q \in Requests, NEW p \in Providers, Save(q, p) PROVE StoreTypes'
  <2>1. key[q] \in Keys
    BY <1>8, KeyFact DEF Save
  <2>2. blobs' \in [Keys -> SUBSET Providers]
    BY <1>8, <2>1, FileAssumption DEF Save, Put, TypeOK, StoreTypes
  <2>3. faulted' \in BOOLEAN
    BY <1>8 DEF Save, Fault, TypeOK, StoreTypes
  <2> QED
    BY <1>8, <2>2, <2>3 DEF Save, TypeOK, StoreTypes
<1>9. ASSUME NEW q \in Requests, InsertFile(q) PROVE StoreTypes'
  <2>1. key[q] \in Keys
    BY <1>9, KeyFact DEF InsertFile
  <2>2. row' \in [Keys -> Nat] /\ ids' \in [Keys -> Nat]
    BY <1>9, <2>1, NewRowTypes DEF InsertFile, TypeOK, StoreTypes
  <2>3. faulted' \in BOOLEAN
    BY <1>9 DEF InsertFile, Fault, TypeOK, StoreTypes
  <2> QED
    BY <1>9, <2>2, <2>3 DEF InsertFile, TypeOK, StoreTypes
<1>10. ASSUME NEW q \in Requests, DropRow(q) PROVE StoreTypes'
  <2>1. key[q] \in Keys
    BY <1>10, KeyFact DEF DropRow
  <2>2. row' \in [Keys -> Nat]
    BY <1>10, <2>1 DEF DropRow, TypeOK, StoreTypes
  <2>3. faulted' \in BOOLEAN
    BY <1>10 DEF DropRow, Fault, TypeOK, StoreTypes
  <2> QED
    BY <1>10, <2>2, <2>3 DEF DropRow, TypeOK, StoreTypes
<1>11. ASSUME NEW q \in Requests, EraseBlob(q) PROVE StoreTypes'
  <2>1. key[q] \in Keys
    BY <1>11, KeyFact DEF EraseBlob
  <2>2. blobs' \in [Keys -> SUBSET Providers] /\ faulted' \in BOOLEAN
    BY <1>11, <2>1, BlobTypes DEF EraseBlob, TypeOK
  <2> QED
    BY <1>11, <2>2 DEF EraseBlob, TypeOK, StoreTypes
<1>12. ASSUME NEW c \in Cleaners, Acquire(c) PROVE StoreTypes'
  BY <1>12, FileAssumption, ItemFacts DEF Acquire, Begin, GoClean, Fault, TypeOK, StoreTypes, RequestTypes, store, requests, cleaning
<1>13. ASSUME NEW c \in Cleaners, StartPurge(c) PROVE StoreTypes'
  BY <1>13, FileAssumption, ItemFacts DEF StartPurge, Begin, GoClean, TypeOK, StoreTypes, RequestTypes, store, requests, cleaning
<1>14. ASSUME NEW c \in Cleaners, CleanPastes(c) PROVE StoreTypes'
  <2>1. faulted' \in BOOLEAN
    BY <1>14 DEF CleanPastes, Fault, TypeOK, StoreTypes
  <2> QED
    BY <1>14, <2>1 DEF CleanPastes, TypeOK, StoreTypes, store
<1>15. ASSUME NEW c \in Cleaners, ListFiles(c) PROVE StoreTypes'
  BY <1>15, FileAssumption, ItemFacts DEF ListFiles, GoClean, Fault, Abort, Rest, TypeOK, StoreTypes, RequestTypes, store, requests, cleaning
<1>16. ASSUME NEW c \in Cleaners, NEW i \in todo[c], CleanBlob(c, i) PROVE StoreTypes'
  <2>1. i[1] \in Keys
    BY ItemFacts DEF TypeOK, CleanerTypes
  <2>2. blobs' \in [Keys -> SUBSET Providers] /\ faulted' \in BOOLEAN
    BY <1>16, <2>1, BlobTypes DEF CleanBlob, TypeOK
  <2> QED
    BY <1>16, <2>2 DEF CleanBlob, TypeOK, StoreTypes
<1>17. ASSUME NEW c \in Cleaners, CleanRow(c) PROVE StoreTypes'
  <2>1. row' \in [Keys -> Nat]
    BY <1>17 DEF CleanRow, DropId, TypeOK, StoreTypes
  <2>2. faulted' \in BOOLEAN
    BY <1>17 DEF CleanRow, Fault, TypeOK, StoreTypes
  <2> QED
    BY <1>17, <2>1, <2>2 DEF CleanRow, TypeOK, StoreTypes
<1>18. ASSUME NEW c \in Cleaners, Finish(c) PROVE StoreTypes'
  BY <1>18, FileAssumption, ItemFacts DEF Finish, Begin, GoClean, Abort, Rest, TypeOK, StoreTypes, RequestTypes, store, requests, cleaning
<1>19. ASSUME NEW c \in Cleaners, Release(c) PROVE StoreTypes'
  BY <1>19, FileAssumption, ItemFacts DEF Release, Rest, GoClean, Fault, TypeOK, StoreTypes, RequestTypes, store, requests, cleaning
<1>20. CASE LockLapses
  BY <1>20, FileAssumption, ItemFacts DEF LockLapses, TypeOK, StoreTypes, RequestTypes, store, requests, cleaning
<1>21. CASE Crash
  BY <1>21, FileAssumption, ItemFacts DEF Crash, Done, Rest, GoClean, TypeOK, StoreTypes, RequestTypes, store, requests, cleaning
<1>22. CASE UNCHANGED vars
  BY <1>22 DEF vars, TypeOK, StoreTypes, RequestTypes, store, requests, cleaning
<1> QED
  BY <1>1, <1>2, <1>3, <1>4, <1>5, <1>6, <1>7, <1>8, <1>9, <1>10, <1>11, <1>12, <1>13, <1>14, <1>15, <1>16, <1>17, <1>18, <1>19, <1>20, <1>21, <1>22 DEF Next, Client, Request, Cycle

\* Next preserves the types of the requests.
LEMMA RequestTypesStep ==
    ASSUME TypeOK, [Next]_vars
    PROVE  RequestTypes'
<1>1. ASSUME NEW k \in Keys, Presign(k) PROVE RequestTypes'
  BY <1>1, FileAssumption DEF Presign, TypeOK, RequestTypes, store, requests, cleaning
<1>2. ASSUME NEW k \in Keys, ClientPut(k) PROVE RequestTypes'
  BY <1>2, FileAssumption DEF ClientPut, Put, TypeOK, RequestTypes, store, requests, cleaning
<1>3. ASSUME NEW k \in Keys, UrlLapses(k) PROVE RequestTypes'
  BY <1>3, FileAssumption DEF UrlLapses, TypeOK, RequestTypes, store, requests, cleaning
<1>4. ASSUME NEW k \in Keys, Expire(k) PROVE RequestTypes'
  BY <1>4, FileAssumption DEF Expire, TypeOK, RequestTypes, store, requests, cleaning
<1>5. ASSUME NEW q \in Requests, NEW k \in Keys, Upload(q, k) PROVE RequestTypes'
  BY <1>5, FileAssumption DEF Upload, Goto, TypeOK, RequestTypes, store, requests, cleaning
<1>6. ASSUME NEW q \in Requests, NEW k \in Keys, Register(q, k) PROVE RequestTypes'
  BY <1>6, FileAssumption DEF Register, Goto, TypeOK, RequestTypes, store, requests, cleaning
<1>7. ASSUME NEW q \in Requests, NEW k \in Keys, FindFile(q, k) PROVE RequestTypes'
  BY <1>7, FileAssumption DEF FindFile, Goto, TypeOK, RequestTypes, store, requests, cleaning
<1>8. ASSUME NEW q \in Requests, NEW p \in Providers, Save(q, p) PROVE RequestTypes'
  BY <1>8, FileAssumption DEF Save, Put, Goto, Done, Fault, TypeOK, RequestTypes, store, requests, cleaning
<1>9. ASSUME NEW q \in Requests, InsertFile(q) PROVE RequestTypes'
  BY <1>9, FileAssumption DEF InsertFile, NewRow, Done, Fault, TypeOK, RequestTypes, store, requests, cleaning
<1>10. ASSUME NEW q \in Requests, DropRow(q) PROVE RequestTypes'
  BY <1>10, FileAssumption DEF DropRow, Goto, Done, Fault, TypeOK, RequestTypes, store, requests, cleaning
<1>11. ASSUME NEW q \in Requests, EraseBlob(q) PROVE RequestTypes'
  BY <1>11, FileAssumption DEF EraseBlob, DeleteBlob, Done, Fault, TypeOK, RequestTypes, store, requests, cleaning
<1>12. ASSUME NEW c \in Cleaners, Acquire(c) PROVE RequestTypes'
  BY <1>12, FileAssumption DEF Acquire, Begin, GoClean, Fault, TypeOK, RequestTypes, store, requests, cleaning
<1>13. ASSUME NEW c \in Cleaners, StartPurge(c) PROVE RequestTypes'
  BY <1>13, FileAssumption DEF StartPurge, Begin, GoClean, TypeOK, RequestTypes, store, requests, cleaning
<1>14. ASSUME NEW c \in Cleaners, CleanPastes(c) PROVE RequestTypes'
  BY <1>14, FileAssumption DEF CleanPastes, GoClean, Count, Fault, Abort, Rest, TypeOK, RequestTypes, store, requests, cleaning
<1>15. ASSUME NEW c \in Cleaners, ListFiles(c) PROVE RequestTypes'
  BY <1>15, FileAssumption DEF ListFiles, GoClean, Fault, Abort, Rest, TypeOK, RequestTypes, store, requests, cleaning
<1>16. ASSUME NEW c \in Cleaners, NEW i \in todo[c], CleanBlob(c, i) PROVE RequestTypes'
  BY <1>16, FileAssumption DEF CleanBlob, GoClean, DeleteBlob, Fault, TypeOK, RequestTypes, store, requests, cleaning
<1>17. ASSUME NEW c \in Cleaners, CleanRow(c) PROVE RequestTypes'
  BY <1>17, FileAssumption DEF CleanRow, DropId, Count, GoClean, Fault, TypeOK, RequestTypes, store, requests, cleaning
<1>18. ASSUME NEW c \in Cleaners, Finish(c) PROVE RequestTypes'
  BY <1>18, FileAssumption DEF Finish, Begin, GoClean, Abort, Rest, TypeOK, RequestTypes, store, requests, cleaning
<1>19. ASSUME NEW c \in Cleaners, Release(c) PROVE RequestTypes'
  BY <1>19, FileAssumption DEF Release, Rest, GoClean, Fault, TypeOK, RequestTypes, store, requests, cleaning
<1>20. CASE LockLapses
  BY <1>20, FileAssumption DEF LockLapses, TypeOK, RequestTypes, store, requests, cleaning
<1>21. CASE Crash
  BY <1>21, FileAssumption DEF Crash, Done, Rest, GoClean, TypeOK, RequestTypes, store, requests, cleaning
<1>22. CASE UNCHANGED vars
  BY <1>22 DEF vars, TypeOK, RequestTypes, store, requests, cleaning
<1> QED
  BY <1>1, <1>2, <1>3, <1>4, <1>5, <1>6, <1>7, <1>8, <1>9, <1>10, <1>11, <1>12, <1>13, <1>14, <1>15, <1>16, <1>17, <1>18, <1>19, <1>20, <1>21, <1>22 DEF Next, Client, Request, Cycle

\* Next preserves the types of the cleaners.
LEMMA CleanerTypesStep ==
    ASSUME TypeOK, [Next]_vars
    PROVE  CleanerTypes'
<1>1. ASSUME NEW k \in Keys, Presign(k) PROVE CleanerTypes'
  BY <1>1, FileAssumption, ItemFacts DEF Presign, TypeOK, StoreTypes, CleanerTypes, store, requests, cleaning
<1>2. ASSUME NEW k \in Keys, ClientPut(k) PROVE CleanerTypes'
  BY <1>2, FileAssumption, ItemFacts DEF ClientPut, Put, TypeOK, StoreTypes, CleanerTypes, store, requests, cleaning
<1>3. ASSUME NEW k \in Keys, UrlLapses(k) PROVE CleanerTypes'
  BY <1>3, FileAssumption, ItemFacts DEF UrlLapses, TypeOK, StoreTypes, CleanerTypes, store, requests, cleaning
<1>4. ASSUME NEW k \in Keys, Expire(k) PROVE CleanerTypes'
  BY <1>4, FileAssumption, ItemFacts DEF Expire, TypeOK, StoreTypes, CleanerTypes, store, requests, cleaning
<1>5. ASSUME NEW q \in Requests, NEW k \in Keys, Upload(q, k) PROVE CleanerTypes'
  BY <1>5, FileAssumption, ItemFacts DEF Upload, Goto, TypeOK, StoreTypes, CleanerTypes, store, requests, cleaning
<1>6. ASSUME NEW q \in Requests, NEW k \in Keys, Register(q, k) PROVE CleanerTypes'
  BY <1>6, FileAssumption, ItemFacts DEF Register, Goto, TypeOK, StoreTypes, CleanerTypes, store, requests, cleaning
<1>7. ASSUME NEW q \in Requests, NEW k \in Keys, FindFile(q, k) PROVE CleanerTypes'
  BY <1>7, FileAssumption, ItemFacts DEF FindFile, Goto, TypeOK, StoreTypes, CleanerTypes, store, requests, cleaning
<1>8. ASSUME NEW q \in Requests, NEW p \in Providers, Save(q, p) PROVE CleanerTypes'
  BY <1>8, FileAssumption, ItemFacts DEF Save, Put, Goto, Done, Fault, TypeOK, StoreTypes, CleanerTypes, store, requests, cleaning
<1>9. ASSUME NEW q \in Requests, InsertFile(q) PROVE CleanerTypes'
  BY <1>9, FileAssumption, ItemFacts DEF InsertFile, NewRow, Done, Fault, TypeOK, StoreTypes, CleanerTypes, store, requests, cleaning
<1>10. ASSUME NEW q \in Requests, DropRow(q) PROVE CleanerTypes'
  BY <1>10, FileAssumption, ItemFacts DEF DropRow, Goto, Done, Fault, TypeOK, StoreTypes, CleanerTypes, store, requests, cleaning
<1>11. ASSUME NEW q \in Requests, EraseBlob(q) PROVE CleanerTypes'
  BY <1>11, FileAssumption, ItemFacts DEF EraseBlob, DeleteBlob, Done, Fault, TypeOK, StoreTypes, CleanerTypes, store, requests, cleaning
<1>12. ASSUME NEW c \in Cleaners, Acquire(c) PROVE CleanerTypes'
  BY <1>12, FileAssumption, ItemFacts DEF Acquire, Begin, GoClean, Fault, TypeOK, StoreTypes, CleanerTypes, store, requests, cleaning
<1>13. ASSUME NEW c \in Cleaners, StartPurge(c) PROVE CleanerTypes'
  BY <1>13, FileAssumption, ItemFacts DEF StartPurge, Begin, GoClean, TypeOK, StoreTypes, CleanerTypes, store, requests, cleaning
<1>14. ASSUME NEW c \in Cleaners, CleanPastes(c) PROVE CleanerTypes'
  <2>1. CASE Abort(c)
    BY <2>1, AbortTypes DEF TypeOK
  <2>2. ASSUME NEW n \in Nat, n <= Batch, NEW d \in Nat, Count(c, d), room' = [room EXCEPT ![c] = Batch - n],
               GoClean(c, "items") \/ GoClean(c, "files"), UNCHANGED <<locked, todo, item, aim>>
        PROVE  CleanerTypes'
    BY <2>2, FileAssumption DEF Count, GoClean, TypeOK, CleanerTypes
  <2> QED
    BY <1>14, <2>1, <2>2, FileAssumption DEF CleanPastes
<1>15. ASSUME NEW c \in Cleaners, ListFiles(c) PROVE CleanerTypes'
  <2>1. CASE Abort(c)
    BY <2>1, AbortTypes DEF TypeOK
  <2>2. ASSUME NEW s \in SUBSET Items, todo' = [todo EXCEPT ![c] = s], GoClean(c, "items"),
               UNCHANGED <<locked, room, item, removed, aim>>
        PROVE  CleanerTypes'
    BY <2>2 DEF GoClean, TypeOK, CleanerTypes
  <2>3. Due \subseteq Items /\ expired \subseteq Items
    BY ItemFacts DEF TypeOK, StoreTypes
  <2> QED
    BY <1>15, <2>1, <2>2, <2>3 DEF ListFiles
<1>16. ASSUME NEW c \in Cleaners, NEW i \in todo[c], CleanBlob(c, i) PROVE CleanerTypes'
  BY <1>16, FileAssumption, ItemFacts DEF CleanBlob, GoClean, DeleteBlob, Fault, TypeOK, StoreTypes, CleanerTypes, store, requests, cleaning
<1>17. ASSUME NEW c \in Cleaners, CleanRow(c) PROVE CleanerTypes'
  BY <1>17, FileAssumption, ItemFacts DEF CleanRow, DropId, Count, GoClean, Fault, TypeOK, StoreTypes, CleanerTypes, store, requests, cleaning
<1>18. ASSUME NEW c \in Cleaners, Finish(c) PROVE CleanerTypes'
  <2>1. CASE Abort(c)
    BY <2>1, AbortTypes DEF TypeOK
  <2>2. CASE Begin(c) /\ UNCHANGED <<locked, aim>>
    BY <2>2 DEF Begin, GoClean, TypeOK, CleanerTypes
  <2> QED
    BY <1>18, <2>1, <2>2 DEF Finish
<1>19. ASSUME NEW c \in Cleaners, Release(c) PROVE CleanerTypes'
  BY <1>19, FileAssumption, ItemFacts DEF Release, Rest, GoClean, Fault, TypeOK, StoreTypes, CleanerTypes, store, requests, cleaning
<1>20. CASE LockLapses
  BY <1>20, FileAssumption, ItemFacts DEF LockLapses, TypeOK, StoreTypes, CleanerTypes, store, requests, cleaning
<1>21. CASE Crash
  <2>1. CASE UNCHANGED cleaning
    BY <2>1 DEF cleaning, TypeOK, CleanerTypes
  <2> QED
    BY <1>21, <2>1, RestTypes DEF Crash, TypeOK
<1>22. CASE UNCHANGED vars
  BY <1>22 DEF vars, TypeOK, StoreTypes, CleanerTypes, store, requests, cleaning
<1> QED
  BY <1>1, <1>2, <1>3, <1>4, <1>5, <1>6, <1>7, <1>8, <1>9, <1>10, <1>11, <1>12, <1>13, <1>14, <1>15, <1>16, <1>17, <1>18, <1>19, <1>20, <1>21, <1>22 DEF Next, Client, Request, Cycle

\* Next preserves that the lock is held while a scheduled cycle runs.
LEMMA LockStep ==
    ASSUME TypeOK, LockOK, OneCleanup, [Next]_vars
    PROVE  LockOK' /\ OneCleanup'
<1>1. ASSUME NEW k \in Keys, Presign(k) PROVE LockOK' /\ OneCleanup'
  BY <1>1 DEF Presign, TypeOK, StoreTypes, CleanerTypes, LockOK, OneCleanup, store, requests, cleaning
<1>2. ASSUME NEW k \in Keys, ClientPut(k) PROVE LockOK' /\ OneCleanup'
  BY <1>2 DEF ClientPut, Put, TypeOK, StoreTypes, CleanerTypes, LockOK, OneCleanup, store, requests, cleaning
<1>3. ASSUME NEW k \in Keys, UrlLapses(k) PROVE LockOK' /\ OneCleanup'
  BY <1>3 DEF UrlLapses, TypeOK, StoreTypes, CleanerTypes, LockOK, OneCleanup, store, requests, cleaning
<1>4. ASSUME NEW k \in Keys, Expire(k) PROVE LockOK' /\ OneCleanup'
  BY <1>4 DEF Expire, TypeOK, StoreTypes, CleanerTypes, LockOK, OneCleanup, store, requests, cleaning
<1>5. ASSUME NEW q \in Requests, NEW k \in Keys, Upload(q, k) PROVE LockOK' /\ OneCleanup'
  BY <1>5 DEF Upload, Goto, TypeOK, StoreTypes, CleanerTypes, LockOK, OneCleanup, store, requests, cleaning
<1>6. ASSUME NEW q \in Requests, NEW k \in Keys, Register(q, k) PROVE LockOK' /\ OneCleanup'
  BY <1>6 DEF Register, Goto, TypeOK, StoreTypes, CleanerTypes, LockOK, OneCleanup, store, requests, cleaning
<1>7. ASSUME NEW q \in Requests, NEW k \in Keys, FindFile(q, k) PROVE LockOK' /\ OneCleanup'
  BY <1>7 DEF FindFile, Goto, TypeOK, StoreTypes, CleanerTypes, LockOK, OneCleanup, store, requests, cleaning
<1>8. ASSUME NEW q \in Requests, NEW p \in Providers, Save(q, p) PROVE LockOK' /\ OneCleanup'
  BY <1>8 DEF Save, Put, Goto, Done, Fault, TypeOK, StoreTypes, CleanerTypes, LockOK, OneCleanup, store, requests, cleaning
<1>9. ASSUME NEW q \in Requests, InsertFile(q) PROVE LockOK' /\ OneCleanup'
  BY <1>9 DEF InsertFile, NewRow, Done, Fault, TypeOK, StoreTypes, CleanerTypes, LockOK, OneCleanup, store, requests, cleaning
<1>10. ASSUME NEW q \in Requests, DropRow(q) PROVE LockOK' /\ OneCleanup'
  BY <1>10 DEF DropRow, Goto, Done, Fault, TypeOK, StoreTypes, CleanerTypes, LockOK, OneCleanup, store, requests, cleaning
<1>11. ASSUME NEW q \in Requests, EraseBlob(q) PROVE LockOK' /\ OneCleanup'
  BY <1>11 DEF EraseBlob, DeleteBlob, Done, Fault, TypeOK, StoreTypes, CleanerTypes, LockOK, OneCleanup, store, requests, cleaning
<1>12. ASSUME NEW c \in Cleaners, Acquire(c) PROVE LockOK' /\ OneCleanup'
  BY <1>12 DEF Acquire, Begin, GoClean, Fault, TypeOK, StoreTypes, CleanerTypes, LockOK, OneCleanup, store, requests, cleaning
<1>13. ASSUME NEW c \in Cleaners, StartPurge(c) PROVE LockOK' /\ OneCleanup'
  BY <1>13 DEF StartPurge, Begin, GoClean, TypeOK, StoreTypes, CleanerTypes, LockOK, OneCleanup, store, requests, cleaning
<1>14. ASSUME NEW c \in Cleaners, CleanPastes(c) PROVE LockOK' /\ OneCleanup'
  BY <1>14 DEF CleanPastes, GoClean, Count, Fault, Abort, Rest, TypeOK, StoreTypes, CleanerTypes, LockOK, OneCleanup, store, requests, cleaning
<1>15. ASSUME NEW c \in Cleaners, ListFiles(c) PROVE LockOK' /\ OneCleanup'
  BY <1>15 DEF ListFiles, GoClean, Fault, Abort, Rest, TypeOK, StoreTypes, CleanerTypes, LockOK, OneCleanup, store, requests, cleaning
<1>16. ASSUME NEW c \in Cleaners, NEW i \in todo[c], CleanBlob(c, i) PROVE LockOK' /\ OneCleanup'
  BY <1>16 DEF CleanBlob, GoClean, DeleteBlob, Fault, TypeOK, StoreTypes, CleanerTypes, LockOK, OneCleanup, store, requests, cleaning
<1>17. ASSUME NEW c \in Cleaners, CleanRow(c) PROVE LockOK' /\ OneCleanup'
  BY <1>17 DEF CleanRow, DropId, Count, GoClean, Fault, TypeOK, StoreTypes, CleanerTypes, LockOK, OneCleanup, store, requests, cleaning
<1>18. ASSUME NEW c \in Cleaners, Finish(c) PROVE LockOK' /\ OneCleanup'
  BY <1>18 DEF Finish, Begin, GoClean, Abort, Rest, TypeOK, StoreTypes, CleanerTypes, LockOK, OneCleanup, store, requests, cleaning
<1>19. ASSUME NEW c \in Cleaners, Release(c) PROVE LockOK' /\ OneCleanup'
  BY <1>19 DEF Release, Rest, GoClean, Fault, TypeOK, StoreTypes, CleanerTypes, LockOK, OneCleanup, store, requests, cleaning
<1>20. CASE LockLapses
  BY <1>20 DEF LockLapses, TypeOK, StoreTypes, CleanerTypes, LockOK, OneCleanup, store, requests, cleaning
<1>21. CASE Crash
  BY <1>21 DEF Crash, Done, Rest, GoClean, TypeOK, StoreTypes, CleanerTypes, LockOK, OneCleanup, store, requests, cleaning
<1>22. CASE UNCHANGED vars
  BY <1>22 DEF vars, TypeOK, StoreTypes, CleanerTypes, LockOK, OneCleanup, store, requests, cleaning
<1> QED
  BY <1>1, <1>2, <1>3, <1>4, <1>5, <1>6, <1>7, <1>8, <1>9, <1>10, <1>11, <1>12, <1>13, <1>14, <1>15, <1>16, <1>17, <1>18, <1>19, <1>20, <1>21, <1>22 DEF Next, Client, Request, Cycle

\* Next preserves the bookkeeping of a key and its rows.
LEMMA FilesStep ==
    ASSUME TypeOK, FilesOK, RequestsOK, [Next]_vars
    PROVE  FilesOK'
<1>1. ASSUME NEW k \in Keys, Presign(k) PROVE FilesOK'
  BY <1>1 DEF Presign, TypeOK, StoreTypes, RequestTypes, FilesOK, RequestsOK, Found, Items, store, requests, cleaning
<1>2. ASSUME NEW k \in Keys, ClientPut(k) PROVE FilesOK'
  BY <1>2 DEF ClientPut, Put, TypeOK, StoreTypes, RequestTypes, FilesOK, RequestsOK, Found, Items, store, requests, cleaning
<1>3. ASSUME NEW k \in Keys, UrlLapses(k) PROVE FilesOK'
  BY <1>3 DEF UrlLapses, TypeOK, StoreTypes, RequestTypes, FilesOK, RequestsOK, Found, Items, store, requests, cleaning
<1>4. ASSUME NEW k \in Keys, Expire(k) PROVE FilesOK'
  BY <1>4 DEF Expire, TypeOK, StoreTypes, RequestTypes, FilesOK, RequestsOK, Found, Items, store, requests, cleaning
<1>5. ASSUME NEW q \in Requests, NEW k \in Keys, Upload(q, k) PROVE FilesOK'
  BY <1>5 DEF Upload, Goto, TypeOK, StoreTypes, RequestTypes, FilesOK, RequestsOK, Found, Items, store, requests, cleaning
<1>6. ASSUME NEW q \in Requests, NEW k \in Keys, Register(q, k) PROVE FilesOK'
  BY <1>6 DEF Register, Goto, TypeOK, StoreTypes, RequestTypes, FilesOK, RequestsOK, Found, Items, store, requests, cleaning
<1>7. ASSUME NEW q \in Requests, NEW k \in Keys, FindFile(q, k) PROVE FilesOK'
  BY <1>7 DEF FindFile, Goto, TypeOK, StoreTypes, RequestTypes, FilesOK, RequestsOK, Found, Items, store, requests, cleaning
<1>8. ASSUME NEW q \in Requests, NEW p \in Providers, Save(q, p) PROVE FilesOK'
  BY <1>8 DEF Save, Put, Goto, Done, Fault, TypeOK, StoreTypes, RequestTypes, FilesOK, RequestsOK, Found, Items, store, requests, cleaning
<1>9. ASSUME NEW q \in Requests, InsertFile(q) PROVE FilesOK'
  <2> DEFINE k == key[q]
  <2>1. k \in Keys /\ UNCHANGED <<origin, blobs, expired>>
    BY <1>9, KeyFact DEF InsertFile
  <2>2. CASE UNCHANGED <<row, ids>>
    BY <2>1, <2>2 DEF FilesOK, Found
  <2>3. CASE NewRow(k)
    <3>1. ids[k] < MaxIds /\ ids' = [ids EXCEPT ![k] = ids[k] + 1] /\ row' = [row EXCEPT ![k] = ids[k] + 1]
      BY <2>3 DEF NewRow
    <3>2. origin[k] # "free" /\ (origin[k] = "proxied" => ids[k] = 0)
      BY <1>9 DEF InsertFile, RequestsOK
    <3>3. \A i \in expired : i[1] \in Keys /\ i[2] \in Nat
      BY ItemFacts DEF TypeOK, StoreTypes
    <3>4. \A x \in Keys : ids[x] \in Nat /\ ids'[x] = IF x = k THEN ids[k] + 1 ELSE ids[x]
      BY <2>1, <3>1 DEF TypeOK, StoreTypes
    <3>5. \A x \in Keys : row'[x] = IF x = k THEN ids[k] + 1 ELSE row[x]
      BY <2>1, <3>1 DEF TypeOK, StoreTypes
    <3>6. \A x \in Keys : ids'[x] <= MaxIds
      BY <3>1, <3>4, FileAssumption DEF FilesOK
    <3> QED
      BY <2>1, <3>2, <3>3, <3>4, <3>5, <3>6 DEF FilesOK, Found
  <2> QED
    BY <1>9, <2>2, <2>3 DEF InsertFile
<1>10. ASSUME NEW q \in Requests, DropRow(q) PROVE FilesOK'
  BY <1>10 DEF DropRow, Goto, Done, Fault, TypeOK, StoreTypes, RequestTypes, FilesOK, RequestsOK, Found, Items, store, requests, cleaning
<1>11. ASSUME NEW q \in Requests, EraseBlob(q) PROVE FilesOK'
  BY <1>11 DEF EraseBlob, DeleteBlob, Done, Fault, TypeOK, StoreTypes, RequestTypes, FilesOK, RequestsOK, Found, Items, store, requests, cleaning
<1>12. ASSUME NEW c \in Cleaners, Acquire(c) PROVE FilesOK'
  BY <1>12 DEF Acquire, Begin, GoClean, Fault, TypeOK, StoreTypes, RequestTypes, FilesOK, RequestsOK, Found, Items, store, requests, cleaning
<1>13. ASSUME NEW c \in Cleaners, StartPurge(c) PROVE FilesOK'
  BY <1>13 DEF StartPurge, Begin, GoClean, TypeOK, StoreTypes, RequestTypes, FilesOK, RequestsOK, Found, Items, store, requests, cleaning
<1>14. ASSUME NEW c \in Cleaners, CleanPastes(c) PROVE FilesOK'
  BY <1>14 DEF CleanPastes, GoClean, Count, Fault, Abort, Rest, TypeOK, StoreTypes, RequestTypes, FilesOK, RequestsOK, Found, Items, store, requests, cleaning
<1>15. ASSUME NEW c \in Cleaners, ListFiles(c) PROVE FilesOK'
  BY <1>15 DEF ListFiles, GoClean, Fault, Abort, Rest, TypeOK, StoreTypes, RequestTypes, FilesOK, RequestsOK, Found, Items, store, requests, cleaning
<1>16. ASSUME NEW c \in Cleaners, NEW i \in todo[c], CleanBlob(c, i) PROVE FilesOK'
  BY <1>16 DEF CleanBlob, GoClean, DeleteBlob, Fault, TypeOK, StoreTypes, RequestTypes, FilesOK, RequestsOK, Found, Items, store, requests, cleaning
<1>17. ASSUME NEW c \in Cleaners, CleanRow(c) PROVE FilesOK'
  BY <1>17 DEF CleanRow, DropId, Count, GoClean, Fault, TypeOK, StoreTypes, RequestTypes, FilesOK, RequestsOK, Found, Items, store, requests, cleaning
<1>18. ASSUME NEW c \in Cleaners, Finish(c) PROVE FilesOK'
  BY <1>18 DEF Finish, Begin, GoClean, Abort, Rest, TypeOK, StoreTypes, RequestTypes, FilesOK, RequestsOK, Found, Items, store, requests, cleaning
<1>19. ASSUME NEW c \in Cleaners, Release(c) PROVE FilesOK'
  BY <1>19 DEF Release, Rest, GoClean, Fault, TypeOK, StoreTypes, RequestTypes, FilesOK, RequestsOK, Found, Items, store, requests, cleaning
<1>20. CASE LockLapses
  BY <1>20 DEF LockLapses, TypeOK, StoreTypes, RequestTypes, FilesOK, RequestsOK, Found, Items, store, requests, cleaning
<1>21. CASE Crash
  BY <1>21 DEF Crash, Done, Rest, GoClean, TypeOK, StoreTypes, RequestTypes, FilesOK, RequestsOK, Found, Items, store, requests, cleaning
<1>22. CASE UNCHANGED vars
  BY <1>22 DEF vars, TypeOK, StoreTypes, RequestTypes, FilesOK, RequestsOK, Found, Items, store, requests, cleaning
<1> QED
  BY <1>1, <1>2, <1>3, <1>4, <1>5, <1>6, <1>7, <1>8, <1>9, <1>10, <1>11, <1>12, <1>13, <1>14, <1>15, <1>16, <1>17, <1>18, <1>19, <1>20, <1>21, <1>22 DEF Next, Client, Request, Cycle

\* Next preserves that an upload owns its key and has saved before it inserts.
LEMMA RequestsStep ==
    ASSUME TypeOK, FilesOK, RequestsOK, CleanersOK, [Next]_vars
    PROVE  RequestsOK'
<1>1. ASSUME NEW k \in Keys, Presign(k) PROVE RequestsOK'
  BY <1>1, FileAssumption, ItemFacts DEF Presign, TypeOK, StoreTypes, RequestTypes, FilesOK, RequestsOK, CleanersOK, Found, store, requests, cleaning
<1>2. ASSUME NEW k \in Keys, ClientPut(k) PROVE RequestsOK'
  BY <1>2, FileAssumption, ItemFacts DEF ClientPut, Put, TypeOK, StoreTypes, RequestTypes, FilesOK, RequestsOK, CleanersOK, Found, store, requests, cleaning
<1>3. ASSUME NEW k \in Keys, UrlLapses(k) PROVE RequestsOK'
  BY <1>3, FileAssumption, ItemFacts DEF UrlLapses, TypeOK, StoreTypes, RequestTypes, FilesOK, RequestsOK, CleanersOK, Found, store, requests, cleaning
<1>4. ASSUME NEW k \in Keys, Expire(k) PROVE RequestsOK'
  BY <1>4, FileAssumption, ItemFacts DEF Expire, TypeOK, StoreTypes, RequestTypes, FilesOK, RequestsOK, CleanersOK, Found, store, requests, cleaning
<1>5. ASSUME NEW q \in Requests, NEW k \in Keys, Upload(q, k) PROVE RequestsOK'
  BY <1>5, FileAssumption, ItemFacts DEF Upload, Goto, TypeOK, StoreTypes, RequestTypes, FilesOK, RequestsOK, CleanersOK, Found, store, requests, cleaning
<1>6. ASSUME NEW q \in Requests, NEW k \in Keys, Register(q, k) PROVE RequestsOK'
  BY <1>6, FileAssumption, ItemFacts DEF Register, Goto, TypeOK, StoreTypes, RequestTypes, FilesOK, RequestsOK, CleanersOK, Found, store, requests, cleaning
<1>7. ASSUME NEW q \in Requests, NEW k \in Keys, FindFile(q, k) PROVE RequestsOK'
  BY <1>7, FileAssumption, ItemFacts DEF FindFile, Goto, TypeOK, StoreTypes, RequestTypes, FilesOK, RequestsOK, CleanersOK, Found, store, requests, cleaning
<1>8. ASSUME NEW q \in Requests, NEW p \in Providers, Save(q, p) PROVE RequestsOK'
  <2>1. key[q] \in Keys /\ at[q] = "save" /\ origin[key[q]] = "proxied" /\ ids[key[q]] = 0
    BY <1>8, KeyFact DEF Save, RequestsOK
  <2>2. \A r \in Requests : key[r] = key[q] /\ at[r] \in {"save", "insert"} => r = q
    BY <1>8, <2>1 DEF RequestsOK
  <2>3. CASE Put(key[q], p) /\ Goto(q, "insert") /\ UNCHANGED <<key, tried, faulted>>
    <3>1. \A r \in Requests : at'[r] = (IF r = q THEN "insert" ELSE at[r]) /\ key'[r] = key[r]
      BY <2>3 DEF Goto, TypeOK, RequestTypes
    <3>2. \A k \in Keys : Found(k) => Found(k)'
      BY <2>3 DEF Put, Found, TypeOK, StoreTypes
    <3>3. Found(key[q])'
      BY <2>1, <2>3 DEF Put, Found, TypeOK, StoreTypes
    <3> QED
      BY <1>8, <2>1, <2>2, <3>1, <3>2, <3>3 DEF Save, RequestsOK, TypeOK, RequestTypes
  <2>4. CASE /\ Put(key[q], p) \/ UNCHANGED blobs
             /\ IF tried[q] \cup {p} = Providers
                THEN Done(q)
                ELSE tried' = [tried EXCEPT ![q] = tried[q] \cup {p}] /\ UNCHANGED <<at, key>>
    <3>1. \A r \in Requests : at'[r] = "idle" \/ (at'[r] = at[r] /\ key'[r] = key[r])
      BY <2>4 DEF Done, TypeOK, RequestTypes
    <3>2. \A k \in Keys : Found(k) => Found(k)'
      BY <2>4 DEF Put, Found, TypeOK, StoreTypes
    <3> QED
      BY <1>8, <3>1, <3>2 DEF Save, RequestsOK, TypeOK, RequestTypes
  <2>5. \/ Put(key[q], p) /\ Goto(q, "insert") /\ UNCHANGED <<key, tried, faulted>>
        \/ /\ Put(key[q], p) \/ UNCHANGED blobs
           /\ IF tried[q] \cup {p} = Providers
              THEN Done(q)
              ELSE tried' = [tried EXCEPT ![q] = tried[q] \cup {p}] /\ UNCHANGED <<at, key>>
    BY <1>8 DEF Save
  <2> QED
    BY <2>3, <2>4, <2>5
<1>9. ASSUME NEW q \in Requests, InsertFile(q) PROVE RequestsOK'
  BY <1>9, FileAssumption, ItemFacts DEF InsertFile, NewRow, Done, Fault, TypeOK, StoreTypes, RequestTypes, FilesOK, RequestsOK, CleanersOK, Found, store, requests, cleaning
<1>10. ASSUME NEW q \in Requests, DropRow(q) PROVE RequestsOK'
  BY <1>10, FileAssumption, ItemFacts DEF DropRow, Goto, Done, Fault, TypeOK, StoreTypes, RequestTypes, FilesOK, RequestsOK, CleanersOK, Found, store, requests, cleaning
<1>11. ASSUME NEW q \in Requests, EraseBlob(q) PROVE RequestsOK'
  BY <1>11, FileAssumption, ItemFacts DEF EraseBlob, DeleteBlob, Done, Fault, TypeOK, StoreTypes, RequestTypes, FilesOK, RequestsOK, CleanersOK, Found, store, requests, cleaning
<1>12. ASSUME NEW c \in Cleaners, Acquire(c) PROVE RequestsOK'
  BY <1>12, FileAssumption, ItemFacts DEF Acquire, Begin, GoClean, Fault, TypeOK, StoreTypes, RequestTypes, FilesOK, RequestsOK, CleanersOK, Found, store, requests, cleaning
<1>13. ASSUME NEW c \in Cleaners, StartPurge(c) PROVE RequestsOK'
  BY <1>13, FileAssumption, ItemFacts DEF StartPurge, Begin, GoClean, TypeOK, StoreTypes, RequestTypes, FilesOK, RequestsOK, CleanersOK, Found, store, requests, cleaning
<1>14. ASSUME NEW c \in Cleaners, CleanPastes(c) PROVE RequestsOK'
  BY <1>14, FileAssumption, ItemFacts DEF CleanPastes, GoClean, Count, Fault, Abort, Rest, TypeOK, StoreTypes, RequestTypes, FilesOK, RequestsOK, CleanersOK, Found, store, requests, cleaning
<1>15. ASSUME NEW c \in Cleaners, ListFiles(c) PROVE RequestsOK'
  BY <1>15, FileAssumption, ItemFacts DEF ListFiles, GoClean, Fault, Abort, Rest, TypeOK, StoreTypes, RequestTypes, FilesOK, RequestsOK, CleanersOK, Found, store, requests, cleaning
<1>16. ASSUME NEW c \in Cleaners, NEW i \in todo[c], CleanBlob(c, i) PROVE RequestsOK'
  BY <1>16, FileAssumption, ItemFacts DEF CleanBlob, GoClean, DeleteBlob, Fault, TypeOK, StoreTypes, RequestTypes, FilesOK, RequestsOK, CleanersOK, Found, store, requests, cleaning
<1>17. ASSUME NEW c \in Cleaners, CleanRow(c) PROVE RequestsOK'
  BY <1>17, FileAssumption, ItemFacts DEF CleanRow, DropId, Count, GoClean, Fault, TypeOK, StoreTypes, RequestTypes, FilesOK, RequestsOK, CleanersOK, Found, store, requests, cleaning
<1>18. ASSUME NEW c \in Cleaners, Finish(c) PROVE RequestsOK'
  BY <1>18, FileAssumption, ItemFacts DEF Finish, Begin, GoClean, Abort, Rest, TypeOK, StoreTypes, RequestTypes, FilesOK, RequestsOK, CleanersOK, Found, store, requests, cleaning
<1>19. ASSUME NEW c \in Cleaners, Release(c) PROVE RequestsOK'
  BY <1>19, FileAssumption, ItemFacts DEF Release, Rest, GoClean, Fault, TypeOK, StoreTypes, RequestTypes, FilesOK, RequestsOK, CleanersOK, Found, store, requests, cleaning
<1>20. CASE LockLapses
  BY <1>20, FileAssumption, ItemFacts DEF LockLapses, TypeOK, StoreTypes, RequestTypes, FilesOK, RequestsOK, CleanersOK, Found, store, requests, cleaning
<1>21. CASE Crash
  BY <1>21, FileAssumption, ItemFacts DEF Crash, Done, Rest, GoClean, TypeOK, StoreTypes, RequestTypes, FilesOK, RequestsOK, CleanersOK, Found, store, requests, cleaning
<1>22. CASE UNCHANGED vars
  BY <1>22 DEF vars, TypeOK, StoreTypes, RequestTypes, FilesOK, RequestsOK, CleanersOK, Found, store, requests, cleaning
<1> QED
  BY <1>1, <1>2, <1>3, <1>4, <1>5, <1>6, <1>7, <1>8, <1>9, <1>10, <1>11, <1>12, <1>13, <1>14, <1>15, <1>16, <1>17, <1>18, <1>19, <1>20, <1>21, <1>22 DEF Next, Client, Request, Cycle

\* Next preserves that a cleaner holds expired rows.
LEMMA CleanersStep ==
    ASSUME TypeOK, CleanersOK, [Next]_vars
    PROVE  CleanersOK'
<1>1. ASSUME NEW k \in Keys, Presign(k) PROVE CleanersOK'
  BY <1>1, ItemFacts DEF Presign, TypeOK, CleanerTypes, CleanersOK, store, requests, cleaning
<1>2. ASSUME NEW k \in Keys, ClientPut(k) PROVE CleanersOK'
  BY <1>2, ItemFacts DEF ClientPut, Put, TypeOK, CleanerTypes, CleanersOK, store, requests, cleaning
<1>3. ASSUME NEW k \in Keys, UrlLapses(k) PROVE CleanersOK'
  BY <1>3, ItemFacts DEF UrlLapses, TypeOK, CleanerTypes, CleanersOK, store, requests, cleaning
<1>4. ASSUME NEW k \in Keys, Expire(k) PROVE CleanersOK'
  BY <1>4, ItemFacts DEF Expire, TypeOK, CleanerTypes, CleanersOK, store, requests, cleaning
<1>5. ASSUME NEW q \in Requests, NEW k \in Keys, Upload(q, k) PROVE CleanersOK'
  BY <1>5, ItemFacts DEF Upload, Goto, TypeOK, CleanerTypes, CleanersOK, store, requests, cleaning
<1>6. ASSUME NEW q \in Requests, NEW k \in Keys, Register(q, k) PROVE CleanersOK'
  BY <1>6, ItemFacts DEF Register, Goto, TypeOK, CleanerTypes, CleanersOK, store, requests, cleaning
<1>7. ASSUME NEW q \in Requests, NEW k \in Keys, FindFile(q, k) PROVE CleanersOK'
  BY <1>7, ItemFacts DEF FindFile, Goto, TypeOK, CleanerTypes, CleanersOK, store, requests, cleaning
<1>8. ASSUME NEW q \in Requests, NEW p \in Providers, Save(q, p) PROVE CleanersOK'
  BY <1>8, ItemFacts DEF Save, Put, Goto, Done, Fault, TypeOK, CleanerTypes, CleanersOK, store, requests, cleaning
<1>9. ASSUME NEW q \in Requests, InsertFile(q) PROVE CleanersOK'
  BY <1>9, ItemFacts DEF InsertFile, NewRow, Done, Fault, TypeOK, CleanerTypes, CleanersOK, store, requests, cleaning
<1>10. ASSUME NEW q \in Requests, DropRow(q) PROVE CleanersOK'
  BY <1>10, ItemFacts DEF DropRow, Goto, Done, Fault, TypeOK, CleanerTypes, CleanersOK, store, requests, cleaning
<1>11. ASSUME NEW q \in Requests, EraseBlob(q) PROVE CleanersOK'
  BY <1>11, ItemFacts DEF EraseBlob, DeleteBlob, Done, Fault, TypeOK, CleanerTypes, CleanersOK, store, requests, cleaning
<1>12. ASSUME NEW c \in Cleaners, Acquire(c) PROVE CleanersOK'
  BY <1>12, ItemFacts DEF Acquire, Begin, GoClean, Fault, TypeOK, CleanerTypes, CleanersOK, store, requests, cleaning
<1>13. ASSUME NEW c \in Cleaners, StartPurge(c) PROVE CleanersOK'
  BY <1>13, ItemFacts DEF StartPurge, Begin, GoClean, TypeOK, CleanerTypes, CleanersOK, store, requests, cleaning
<1>14. ASSUME NEW c \in Cleaners, CleanPastes(c) PROVE CleanersOK'
  BY <1>14, ItemFacts DEF CleanPastes, GoClean, Count, Fault, Abort, Rest, TypeOK, CleanerTypes, CleanersOK, store, requests, cleaning
<1>15. ASSUME NEW c \in Cleaners, ListFiles(c) PROVE CleanersOK'
  BY <1>15, ItemFacts DEF ListFiles, GoClean, Fault, Abort, Rest, TypeOK, CleanerTypes, CleanersOK, store, requests, cleaning
<1>16. ASSUME NEW c \in Cleaners, NEW i \in todo[c], CleanBlob(c, i) PROVE CleanersOK'
  BY <1>16, ItemFacts DEF CleanBlob, GoClean, DeleteBlob, Fault, TypeOK, CleanerTypes, CleanersOK, store, requests, cleaning
<1>17. ASSUME NEW c \in Cleaners, CleanRow(c) PROVE CleanersOK'
  BY <1>17, ItemFacts DEF CleanRow, DropId, Count, GoClean, Fault, TypeOK, CleanerTypes, CleanersOK, store, requests, cleaning
<1>18. ASSUME NEW c \in Cleaners, Finish(c) PROVE CleanersOK'
  BY <1>18, ItemFacts DEF Finish, Begin, GoClean, Abort, Rest, TypeOK, CleanerTypes, CleanersOK, store, requests, cleaning
<1>19. ASSUME NEW c \in Cleaners, Release(c) PROVE CleanersOK'
  BY <1>19, ItemFacts DEF Release, Rest, GoClean, Fault, TypeOK, CleanerTypes, CleanersOK, store, requests, cleaning
<1>20. CASE LockLapses
  BY <1>20, ItemFacts DEF LockLapses, TypeOK, CleanerTypes, CleanersOK, store, requests, cleaning
<1>21. CASE Crash
  BY <1>21, ItemFacts DEF Crash, Done, Rest, GoClean, TypeOK, CleanerTypes, CleanersOK, store, requests, cleaning
<1>22. CASE UNCHANGED vars
  BY <1>22 DEF vars, TypeOK, CleanerTypes, CleanersOK, store, requests, cleaning
<1> QED
  BY <1>1, <1>2, <1>3, <1>4, <1>5, <1>6, <1>7, <1>8, <1>9, <1>10, <1>11, <1>12, <1>13, <1>14, <1>15, <1>16, <1>17, <1>18, <1>19, <1>20, <1>21, <1>22 DEF Next, Client, Request, Cycle

\* Next preserves that the object goes before the row.
LEMMA ItemsStep ==
    ASSUME TypeOK, FilesOK, RequestsOK, CleanersOK, ItemsOK, [Next]_vars
    PROVE  ItemsOK'
<1>1. ASSUME NEW k \in Keys, Presign(k) PROVE ItemsOK'
  BY <1>1, ItemFacts DEF Presign, TypeOK, StoreTypes, CleanerTypes, RequestTypes, FilesOK, RequestsOK, CleanersOK, ItemsOK, Found, store, requests, cleaning
<1>2. ASSUME NEW k \in Keys, ClientPut(k) PROVE ItemsOK'
  BY <1>2, ItemFacts DEF ClientPut, Put, TypeOK, StoreTypes, CleanerTypes, RequestTypes, FilesOK, RequestsOK, CleanersOK, ItemsOK, Found, store, requests, cleaning
<1>3. ASSUME NEW k \in Keys, UrlLapses(k) PROVE ItemsOK'
  BY <1>3, ItemFacts DEF UrlLapses, TypeOK, StoreTypes, CleanerTypes, RequestTypes, FilesOK, RequestsOK, CleanersOK, ItemsOK, Found, store, requests, cleaning
<1>4. ASSUME NEW k \in Keys, Expire(k) PROVE ItemsOK'
  BY <1>4, ItemFacts DEF Expire, TypeOK, StoreTypes, CleanerTypes, RequestTypes, FilesOK, RequestsOK, CleanersOK, ItemsOK, Found, store, requests, cleaning
<1>5. ASSUME NEW q \in Requests, NEW k \in Keys, Upload(q, k) PROVE ItemsOK'
  BY <1>5, ItemFacts DEF Upload, Goto, TypeOK, StoreTypes, CleanerTypes, RequestTypes, FilesOK, RequestsOK, CleanersOK, ItemsOK, Found, store, requests, cleaning
<1>6. ASSUME NEW q \in Requests, NEW k \in Keys, Register(q, k) PROVE ItemsOK'
  BY <1>6, ItemFacts DEF Register, Goto, TypeOK, StoreTypes, CleanerTypes, RequestTypes, FilesOK, RequestsOK, CleanersOK, ItemsOK, Found, store, requests, cleaning
<1>7. ASSUME NEW q \in Requests, NEW k \in Keys, FindFile(q, k) PROVE ItemsOK'
  BY <1>7, ItemFacts DEF FindFile, Goto, TypeOK, StoreTypes, CleanerTypes, RequestTypes, FilesOK, RequestsOK, CleanersOK, ItemsOK, Found, store, requests, cleaning
<1>8. ASSUME NEW q \in Requests, NEW p \in Providers, Save(q, p) PROVE ItemsOK'
  BY <1>8, ItemFacts DEF Save, Put, Goto, Done, Fault, TypeOK, StoreTypes, CleanerTypes, RequestTypes, FilesOK, RequestsOK, CleanersOK, ItemsOK, Found, store, requests, cleaning
<1>9. ASSUME NEW q \in Requests, InsertFile(q) PROVE ItemsOK'
  BY <1>9, ItemFacts DEF InsertFile, NewRow, Done, Fault, TypeOK, StoreTypes, CleanerTypes, RequestTypes, FilesOK, RequestsOK, CleanersOK, ItemsOK, Found, store, requests, cleaning
<1>10. ASSUME NEW q \in Requests, DropRow(q) PROVE ItemsOK'
  BY <1>10, ItemFacts DEF DropRow, Goto, Done, Fault, TypeOK, StoreTypes, CleanerTypes, RequestTypes, FilesOK, RequestsOK, CleanersOK, ItemsOK, Found, store, requests, cleaning
<1>11. ASSUME NEW q \in Requests, EraseBlob(q) PROVE ItemsOK'
  BY <1>11, ItemFacts DEF EraseBlob, DeleteBlob, Done, Fault, TypeOK, StoreTypes, CleanerTypes, RequestTypes, FilesOK, RequestsOK, CleanersOK, ItemsOK, Found, store, requests, cleaning
<1>12. ASSUME NEW c \in Cleaners, Acquire(c) PROVE ItemsOK'
  BY <1>12, ItemFacts DEF Acquire, Begin, GoClean, Fault, TypeOK, StoreTypes, CleanerTypes, RequestTypes, FilesOK, RequestsOK, CleanersOK, ItemsOK, Found, store, requests, cleaning
<1>13. ASSUME NEW c \in Cleaners, StartPurge(c) PROVE ItemsOK'
  BY <1>13, ItemFacts DEF StartPurge, Begin, GoClean, TypeOK, StoreTypes, CleanerTypes, RequestTypes, FilesOK, RequestsOK, CleanersOK, ItemsOK, Found, store, requests, cleaning
<1>14. ASSUME NEW c \in Cleaners, CleanPastes(c) PROVE ItemsOK'
  BY <1>14, ItemFacts DEF CleanPastes, GoClean, Count, Fault, Abort, Rest, TypeOK, StoreTypes, CleanerTypes, RequestTypes, FilesOK, RequestsOK, CleanersOK, ItemsOK, Found, store, requests, cleaning
<1>15. ASSUME NEW c \in Cleaners, ListFiles(c) PROVE ItemsOK'
  BY <1>15, ItemFacts DEF ListFiles, GoClean, Fault, Abort, Rest, TypeOK, StoreTypes, CleanerTypes, RequestTypes, FilesOK, RequestsOK, CleanersOK, ItemsOK, Found, store, requests, cleaning
<1>16. ASSUME NEW c \in Cleaners, NEW i \in todo[c], CleanBlob(c, i) PROVE ItemsOK'
  BY <1>16, ItemFacts DEF CleanBlob, GoClean, DeleteBlob, Fault, TypeOK, StoreTypes, CleanerTypes, RequestTypes, FilesOK, RequestsOK, CleanersOK, ItemsOK, Found, store, requests, cleaning
<1>17. ASSUME NEW c \in Cleaners, CleanRow(c) PROVE ItemsOK'
  BY <1>17, ItemFacts DEF CleanRow, DropId, Count, GoClean, Fault, TypeOK, StoreTypes, CleanerTypes, RequestTypes, FilesOK, RequestsOK, CleanersOK, ItemsOK, Found, store, requests, cleaning
<1>18. ASSUME NEW c \in Cleaners, Finish(c) PROVE ItemsOK'
  BY <1>18, ItemFacts DEF Finish, Begin, GoClean, Abort, Rest, TypeOK, StoreTypes, CleanerTypes, RequestTypes, FilesOK, RequestsOK, CleanersOK, ItemsOK, Found, store, requests, cleaning
<1>19. ASSUME NEW c \in Cleaners, Release(c) PROVE ItemsOK'
  BY <1>19, ItemFacts DEF Release, Rest, GoClean, Fault, TypeOK, StoreTypes, CleanerTypes, RequestTypes, FilesOK, RequestsOK, CleanersOK, ItemsOK, Found, store, requests, cleaning
<1>20. CASE LockLapses
  BY <1>20, ItemFacts DEF LockLapses, TypeOK, StoreTypes, CleanerTypes, RequestTypes, FilesOK, RequestsOK, CleanersOK, ItemsOK, Found, store, requests, cleaning
<1>21. CASE Crash
  BY <1>21, ItemFacts DEF Crash, Done, Rest, GoClean, TypeOK, StoreTypes, CleanerTypes, RequestTypes, FilesOK, RequestsOK, CleanersOK, ItemsOK, Found, store, requests, cleaning
<1>22. CASE UNCHANGED vars
  BY <1>22 DEF vars, TypeOK, StoreTypes, CleanerTypes, RequestTypes, FilesOK, RequestsOK, CleanersOK, ItemsOK, Found, store, requests, cleaning
<1> QED
  BY <1>1, <1>2, <1>3, <1>4, <1>5, <1>6, <1>7, <1>8, <1>9, <1>10, <1>11, <1>12, <1>13, <1>14, <1>15, <1>16, <1>17, <1>18, <1>19, <1>20, <1>21, <1>22 DEF Next, Client, Request, Cycle

\* Next preserves that uploaded files are servable.
LEMMA ServableStep ==
    ASSUME TypeOK, FilesOK, RequestsOK, CleanersOK, UploadedIsServable, [Next]_vars
    PROVE  UploadedIsServable'
<1>1. ASSUME NEW k \in Keys, Presign(k) PROVE UploadedIsServable'
  BY <1>1, ItemFacts DEF Presign, TypeOK, StoreTypes, RequestTypes, FilesOK, RequestsOK, CleanersOK, UploadedIsServable, Found, store, requests, cleaning
<1>2. ASSUME NEW k \in Keys, ClientPut(k) PROVE UploadedIsServable'
  BY <1>2, ItemFacts DEF ClientPut, Put, TypeOK, StoreTypes, RequestTypes, FilesOK, RequestsOK, CleanersOK, UploadedIsServable, Found, store, requests, cleaning
<1>3. ASSUME NEW k \in Keys, UrlLapses(k) PROVE UploadedIsServable'
  BY <1>3, ItemFacts DEF UrlLapses, TypeOK, StoreTypes, RequestTypes, FilesOK, RequestsOK, CleanersOK, UploadedIsServable, Found, store, requests, cleaning
<1>4. ASSUME NEW k \in Keys, Expire(k) PROVE UploadedIsServable'
  BY <1>4, ItemFacts DEF Expire, TypeOK, StoreTypes, RequestTypes, FilesOK, RequestsOK, CleanersOK, UploadedIsServable, Found, store, requests, cleaning
<1>5. ASSUME NEW q \in Requests, NEW k \in Keys, Upload(q, k) PROVE UploadedIsServable'
  BY <1>5, ItemFacts DEF Upload, Goto, TypeOK, StoreTypes, RequestTypes, FilesOK, RequestsOK, CleanersOK, UploadedIsServable, Found, store, requests, cleaning
<1>6. ASSUME NEW q \in Requests, NEW k \in Keys, Register(q, k) PROVE UploadedIsServable'
  BY <1>6, ItemFacts DEF Register, Goto, TypeOK, StoreTypes, RequestTypes, FilesOK, RequestsOK, CleanersOK, UploadedIsServable, Found, store, requests, cleaning
<1>7. ASSUME NEW q \in Requests, NEW k \in Keys, FindFile(q, k) PROVE UploadedIsServable'
  BY <1>7, ItemFacts DEF FindFile, Goto, TypeOK, StoreTypes, RequestTypes, FilesOK, RequestsOK, CleanersOK, UploadedIsServable, Found, store, requests, cleaning
<1>8. ASSUME NEW q \in Requests, NEW p \in Providers, Save(q, p) PROVE UploadedIsServable'
  BY <1>8, ItemFacts DEF Save, Put, Goto, Done, Fault, TypeOK, StoreTypes, RequestTypes, FilesOK, RequestsOK, CleanersOK, UploadedIsServable, Found, store, requests, cleaning
<1>9. ASSUME NEW q \in Requests, InsertFile(q) PROVE UploadedIsServable'
  BY <1>9, ItemFacts DEF InsertFile, NewRow, Done, Fault, TypeOK, StoreTypes, RequestTypes, FilesOK, RequestsOK, CleanersOK, UploadedIsServable, Found, store, requests, cleaning
<1>10. ASSUME NEW q \in Requests, DropRow(q) PROVE UploadedIsServable'
  BY <1>10, ItemFacts DEF DropRow, Goto, Done, Fault, TypeOK, StoreTypes, RequestTypes, FilesOK, RequestsOK, CleanersOK, UploadedIsServable, Found, store, requests, cleaning
<1>11. ASSUME NEW q \in Requests, EraseBlob(q) PROVE UploadedIsServable'
  BY <1>11, ItemFacts DEF EraseBlob, DeleteBlob, Done, Fault, TypeOK, StoreTypes, RequestTypes, FilesOK, RequestsOK, CleanersOK, UploadedIsServable, Found, store, requests, cleaning
<1>12. ASSUME NEW c \in Cleaners, Acquire(c) PROVE UploadedIsServable'
  BY <1>12, ItemFacts DEF Acquire, Begin, GoClean, Fault, TypeOK, StoreTypes, RequestTypes, FilesOK, RequestsOK, CleanersOK, UploadedIsServable, Found, store, requests, cleaning
<1>13. ASSUME NEW c \in Cleaners, StartPurge(c) PROVE UploadedIsServable'
  BY <1>13, ItemFacts DEF StartPurge, Begin, GoClean, TypeOK, StoreTypes, RequestTypes, FilesOK, RequestsOK, CleanersOK, UploadedIsServable, Found, store, requests, cleaning
<1>14. ASSUME NEW c \in Cleaners, CleanPastes(c) PROVE UploadedIsServable'
  BY <1>14, ItemFacts DEF CleanPastes, GoClean, Count, Fault, Abort, Rest, TypeOK, StoreTypes, RequestTypes, FilesOK, RequestsOK, CleanersOK, UploadedIsServable, Found, store, requests, cleaning
<1>15. ASSUME NEW c \in Cleaners, ListFiles(c) PROVE UploadedIsServable'
  BY <1>15, ItemFacts DEF ListFiles, GoClean, Fault, Abort, Rest, TypeOK, StoreTypes, RequestTypes, FilesOK, RequestsOK, CleanersOK, UploadedIsServable, Found, store, requests, cleaning
<1>16. ASSUME NEW c \in Cleaners, NEW i \in todo[c], CleanBlob(c, i) PROVE UploadedIsServable'
  <2>1. i \in Items /\ i \in expired
    BY <1>16 DEF TypeOK, CleanerTypes, CleanersOK
  <2>2. UNCHANGED <<origin, row, expired>> /\ \E kept \in SUBSET blobs[i[1]] : blobs' = [blobs EXCEPT ![i[1]] = kept]
    BY <1>16 DEF CleanBlob, DeleteBlob
  <2>3. ASSUME NEW k \in Keys, k # i[1] PROVE blobs'[k] = blobs[k]
    BY <2>2, <2>3 DEF TypeOK, StoreTypes
  <2>4. row[i[1]] = 0 \/ <<i[1], row[i[1]]>> \in expired \/ origin[i[1]] # "proxied"
    <3>1. i[1] \in Keys /\ i[2] # 0 /\ i[2] <= ids[i[1]] /\ i = <<i[1], i[2]>> /\ i[2] \in Nat
      BY <2>1, ItemFacts DEF TypeOK, FilesOK
    <3>2. origin[i[1]] = "proxied" /\ row[i[1]] # 0 => row[i[1]] = ids[i[1]] /\ ids[i[1]] <= 1
      BY <3>1 DEF FilesOK
    <3>3. ids[i[1]] \in Nat
      BY <3>1 DEF TypeOK, StoreTypes
    <3> QED
      BY <2>1, <3>1, <3>2, <3>3
  <2> QED
    BY <2>2, <2>3, <2>4 DEF UploadedIsServable, Found
<1>17. ASSUME NEW c \in Cleaners, CleanRow(c) PROVE UploadedIsServable'
  BY <1>17, ItemFacts DEF CleanRow, DropId, Count, GoClean, Fault, TypeOK, StoreTypes, RequestTypes, FilesOK, RequestsOK, CleanersOK, UploadedIsServable, Found, store, requests, cleaning
<1>18. ASSUME NEW c \in Cleaners, Finish(c) PROVE UploadedIsServable'
  BY <1>18, ItemFacts DEF Finish, Begin, GoClean, Abort, Rest, TypeOK, StoreTypes, RequestTypes, FilesOK, RequestsOK, CleanersOK, UploadedIsServable, Found, store, requests, cleaning
<1>19. ASSUME NEW c \in Cleaners, Release(c) PROVE UploadedIsServable'
  BY <1>19, ItemFacts DEF Release, Rest, GoClean, Fault, TypeOK, StoreTypes, RequestTypes, FilesOK, RequestsOK, CleanersOK, UploadedIsServable, Found, store, requests, cleaning
<1>20. CASE LockLapses
  BY <1>20, ItemFacts DEF LockLapses, TypeOK, StoreTypes, RequestTypes, FilesOK, RequestsOK, CleanersOK, UploadedIsServable, Found, store, requests, cleaning
<1>21. CASE Crash
  BY <1>21, ItemFacts DEF Crash, Done, Rest, GoClean, TypeOK, StoreTypes, RequestTypes, FilesOK, RequestsOK, CleanersOK, UploadedIsServable, Found, store, requests, cleaning
<1>22. CASE UNCHANGED vars
  BY <1>22 DEF vars, TypeOK, StoreTypes, RequestTypes, FilesOK, RequestsOK, CleanersOK, UploadedIsServable, Found, store, requests, cleaning
<1> QED
  BY <1>1, <1>2, <1>3, <1>4, <1>5, <1>6, <1>7, <1>8, <1>9, <1>10, <1>11, <1>12, <1>13, <1>14, <1>15, <1>16, <1>17, <1>18, <1>19, <1>20, <1>21, <1>22 DEF Next, Client, Request, Cycle

\* Next preserves that nothing is left behind without a failure.
LEMMA OrphansStep ==
    ASSUME TypeOK, FilesOK, RequestsOK, CleanersOK, ItemsOK, NoOrphans, [Next]_vars
    PROVE  NoOrphans'
<1>1. ASSUME NEW k \in Keys, Presign(k) PROVE NoOrphans'
  BY <1>1, FileAssumption, ItemFacts DEF Presign, TypeOK, StoreTypes, RequestTypes, FilesOK, RequestsOK, CleanersOK, ItemsOK, NoOrphans, Found, store, requests, cleaning
<1>2. ASSUME NEW k \in Keys, ClientPut(k) PROVE NoOrphans'
  BY <1>2, FileAssumption, ItemFacts DEF ClientPut, Put, TypeOK, StoreTypes, RequestTypes, FilesOK, RequestsOK, CleanersOK, ItemsOK, NoOrphans, Found, store, requests, cleaning
<1>3. ASSUME NEW k \in Keys, UrlLapses(k) PROVE NoOrphans'
  BY <1>3, FileAssumption, ItemFacts DEF UrlLapses, TypeOK, StoreTypes, RequestTypes, FilesOK, RequestsOK, CleanersOK, ItemsOK, NoOrphans, Found, store, requests, cleaning
<1>4. ASSUME NEW k \in Keys, Expire(k) PROVE NoOrphans'
  BY <1>4, FileAssumption, ItemFacts DEF Expire, TypeOK, StoreTypes, RequestTypes, FilesOK, RequestsOK, CleanersOK, ItemsOK, NoOrphans, Found, store, requests, cleaning
<1>5. ASSUME NEW q \in Requests, NEW k \in Keys, Upload(q, k) PROVE NoOrphans'
  BY <1>5, FileAssumption, ItemFacts DEF Upload, Goto, TypeOK, StoreTypes, RequestTypes, FilesOK, RequestsOK, CleanersOK, ItemsOK, NoOrphans, Found, store, requests, cleaning
<1>6. ASSUME NEW q \in Requests, NEW k \in Keys, Register(q, k) PROVE NoOrphans'
  BY <1>6, FileAssumption, ItemFacts DEF Register, Goto, TypeOK, StoreTypes, RequestTypes, FilesOK, RequestsOK, CleanersOK, ItemsOK, NoOrphans, Found, store, requests, cleaning
<1>7. ASSUME NEW q \in Requests, NEW k \in Keys, FindFile(q, k) PROVE NoOrphans'
  BY <1>7, FileAssumption, ItemFacts DEF FindFile, Goto, TypeOK, StoreTypes, RequestTypes, FilesOK, RequestsOK, CleanersOK, ItemsOK, NoOrphans, Found, store, requests, cleaning
<1>8. ASSUME NEW q \in Requests, NEW p \in Providers, Save(q, p) PROVE NoOrphans'
  BY <1>8, FileAssumption, ItemFacts DEF Save, Put, Goto, Done, Fault, TypeOK, StoreTypes, RequestTypes, FilesOK, RequestsOK, CleanersOK, ItemsOK, NoOrphans, Found, store, requests, cleaning
<1>9. ASSUME NEW q \in Requests, InsertFile(q) PROVE NoOrphans'
  BY <1>9, FileAssumption, ItemFacts DEF InsertFile, NewRow, Done, Fault, TypeOK, StoreTypes, RequestTypes, FilesOK, RequestsOK, CleanersOK, ItemsOK, NoOrphans, Found, store, requests, cleaning
<1>10. ASSUME NEW q \in Requests, DropRow(q) PROVE NoOrphans'
  BY <1>10, FileAssumption, ItemFacts DEF DropRow, Goto, Done, Fault, TypeOK, StoreTypes, RequestTypes, FilesOK, RequestsOK, CleanersOK, ItemsOK, NoOrphans, Found, store, requests, cleaning
<1>11. ASSUME NEW q \in Requests, EraseBlob(q) PROVE NoOrphans'
  BY <1>11, FileAssumption, ItemFacts DEF EraseBlob, DeleteBlob, Done, Fault, TypeOK, StoreTypes, RequestTypes, FilesOK, RequestsOK, CleanersOK, ItemsOK, NoOrphans, Found, store, requests, cleaning
<1>12. ASSUME NEW c \in Cleaners, Acquire(c) PROVE NoOrphans'
  BY <1>12, FileAssumption, ItemFacts DEF Acquire, Begin, GoClean, Fault, TypeOK, StoreTypes, RequestTypes, FilesOK, RequestsOK, CleanersOK, ItemsOK, NoOrphans, Found, store, requests, cleaning
<1>13. ASSUME NEW c \in Cleaners, StartPurge(c) PROVE NoOrphans'
  BY <1>13, FileAssumption, ItemFacts DEF StartPurge, Begin, GoClean, TypeOK, StoreTypes, RequestTypes, FilesOK, RequestsOK, CleanersOK, ItemsOK, NoOrphans, Found, store, requests, cleaning
<1>14. ASSUME NEW c \in Cleaners, CleanPastes(c) PROVE NoOrphans'
  BY <1>14, FileAssumption, ItemFacts DEF CleanPastes, GoClean, Count, Fault, Abort, Rest, TypeOK, StoreTypes, RequestTypes, FilesOK, RequestsOK, CleanersOK, ItemsOK, NoOrphans, Found, store, requests, cleaning
<1>15. ASSUME NEW c \in Cleaners, ListFiles(c) PROVE NoOrphans'
  BY <1>15, FileAssumption, ItemFacts DEF ListFiles, GoClean, Fault, Abort, Rest, TypeOK, StoreTypes, RequestTypes, FilesOK, RequestsOK, CleanersOK, ItemsOK, NoOrphans, Found, store, requests, cleaning
<1>16. ASSUME NEW c \in Cleaners, NEW i \in todo[c], CleanBlob(c, i) PROVE NoOrphans'
  BY <1>16, FileAssumption, ItemFacts DEF CleanBlob, GoClean, DeleteBlob, Fault, TypeOK, StoreTypes, RequestTypes, FilesOK, RequestsOK, CleanersOK, ItemsOK, NoOrphans, Found, store, requests, cleaning
<1>17. ASSUME NEW c \in Cleaners, CleanRow(c) PROVE NoOrphans'
  BY <1>17, FileAssumption, ItemFacts DEF CleanRow, DropId, Count, GoClean, Fault, TypeOK, StoreTypes, RequestTypes, FilesOK, RequestsOK, CleanersOK, ItemsOK, NoOrphans, Found, store, requests, cleaning
<1>18. ASSUME NEW c \in Cleaners, Finish(c) PROVE NoOrphans'
  BY <1>18, FileAssumption, ItemFacts DEF Finish, Begin, GoClean, Abort, Rest, TypeOK, StoreTypes, RequestTypes, FilesOK, RequestsOK, CleanersOK, ItemsOK, NoOrphans, Found, store, requests, cleaning
<1>19. ASSUME NEW c \in Cleaners, Release(c) PROVE NoOrphans'
  BY <1>19, FileAssumption, ItemFacts DEF Release, Rest, GoClean, Fault, TypeOK, StoreTypes, RequestTypes, FilesOK, RequestsOK, CleanersOK, ItemsOK, NoOrphans, Found, store, requests, cleaning
<1>20. CASE LockLapses
  BY <1>20, FileAssumption, ItemFacts DEF LockLapses, TypeOK, StoreTypes, RequestTypes, FilesOK, RequestsOK, CleanersOK, ItemsOK, NoOrphans, Found, store, requests, cleaning
<1>21. CASE Crash
  BY <1>21, FileAssumption, ItemFacts DEF Crash, Done, Rest, GoClean, TypeOK, StoreTypes, RequestTypes, FilesOK, RequestsOK, CleanersOK, ItemsOK, NoOrphans, Found, store, requests, cleaning
<1>22. CASE UNCHANGED vars
  BY <1>22 DEF vars, TypeOK, StoreTypes, RequestTypes, FilesOK, RequestsOK, CleanersOK, ItemsOK, NoOrphans, Found, store, requests, cleaning
<1> QED
  BY <1>1, <1>2, <1>3, <1>4, <1>5, <1>6, <1>7, <1>8, <1>9, <1>10, <1>11, <1>12, <1>13, <1>14, <1>15, <1>16, <1>17, <1>18, <1>19, <1>20, <1>21, <1>22 DEF Next, Client, Request, Cycle

\* Next preserves what a purge knows when it has nothing left.
LEMMA PurgeStep ==
    ASSUME TypeOK, FilesOK, CleanersOK, PurgeOK, [Next]_vars
    PROVE  PurgeOK'
<1>1. ASSUME NEW k \in Keys, Presign(k) PROVE PurgeOK'
  BY <1>1, FileAssumption, ItemFacts DEF Presign, TypeOK, StoreTypes, CleanerTypes, FilesOK, CleanersOK, PurgeOK, PurgeAt, store, requests, cleaning
<1>2. ASSUME NEW k \in Keys, ClientPut(k) PROVE PurgeOK'
  BY <1>2, FileAssumption, ItemFacts DEF ClientPut, Put, TypeOK, StoreTypes, CleanerTypes, FilesOK, CleanersOK, PurgeOK, PurgeAt, store, requests, cleaning
<1>3. ASSUME NEW k \in Keys, UrlLapses(k) PROVE PurgeOK'
  BY <1>3, FileAssumption, ItemFacts DEF UrlLapses, TypeOK, StoreTypes, CleanerTypes, FilesOK, CleanersOK, PurgeOK, PurgeAt, store, requests, cleaning
<1>4. ASSUME NEW k \in Keys, Expire(k) PROVE PurgeOK'
  BY <1>4, FileAssumption, ItemFacts DEF Expire, TypeOK, StoreTypes, CleanerTypes, FilesOK, CleanersOK, PurgeOK, PurgeAt, store, requests, cleaning
<1>5. ASSUME NEW q \in Requests, NEW k \in Keys, Upload(q, k) PROVE PurgeOK'
  BY <1>5, FileAssumption, ItemFacts DEF Upload, Goto, TypeOK, StoreTypes, CleanerTypes, FilesOK, CleanersOK, PurgeOK, PurgeAt, store, requests, cleaning
<1>6. ASSUME NEW q \in Requests, NEW k \in Keys, Register(q, k) PROVE PurgeOK'
  BY <1>6, FileAssumption, ItemFacts DEF Register, Goto, TypeOK, StoreTypes, CleanerTypes, FilesOK, CleanersOK, PurgeOK, PurgeAt, store, requests, cleaning
<1>7. ASSUME NEW q \in Requests, NEW k \in Keys, FindFile(q, k) PROVE PurgeOK'
  BY <1>7, FileAssumption, ItemFacts DEF FindFile, Goto, TypeOK, StoreTypes, CleanerTypes, FilesOK, CleanersOK, PurgeOK, PurgeAt, store, requests, cleaning
<1>8. ASSUME NEW q \in Requests, NEW p \in Providers, Save(q, p) PROVE PurgeOK'
  BY <1>8, FileAssumption, ItemFacts DEF Save, Put, Goto, Done, Fault, TypeOK, StoreTypes, CleanerTypes, FilesOK, CleanersOK, PurgeOK, PurgeAt, store, requests, cleaning
<1>9. ASSUME NEW q \in Requests, InsertFile(q) PROVE PurgeOK'
  BY <1>9, FileAssumption, ItemFacts DEF InsertFile, NewRow, Done, Fault, TypeOK, StoreTypes, CleanerTypes, FilesOK, CleanersOK, PurgeOK, PurgeAt, store, requests, cleaning
<1>10. ASSUME NEW q \in Requests, DropRow(q) PROVE PurgeOK'
  BY <1>10, FileAssumption, ItemFacts DEF DropRow, Goto, Done, Fault, TypeOK, StoreTypes, CleanerTypes, FilesOK, CleanersOK, PurgeOK, PurgeAt, store, requests, cleaning
<1>11. ASSUME NEW q \in Requests, EraseBlob(q) PROVE PurgeOK'
  BY <1>11, FileAssumption, ItemFacts DEF EraseBlob, DeleteBlob, Done, Fault, TypeOK, StoreTypes, CleanerTypes, FilesOK, CleanersOK, PurgeOK, PurgeAt, store, requests, cleaning
<1>12. ASSUME NEW c \in Cleaners, Acquire(c) PROVE PurgeOK'
  BY <1>12, FileAssumption, ItemFacts DEF Acquire, Begin, GoClean, Fault, TypeOK, StoreTypes, CleanerTypes, FilesOK, CleanersOK, PurgeOK, PurgeAt, store, requests, cleaning
<1>13. ASSUME NEW c \in Cleaners, StartPurge(c) PROVE PurgeOK'
  BY <1>13, FileAssumption, ItemFacts DEF StartPurge, Begin, GoClean, TypeOK, StoreTypes, CleanerTypes, FilesOK, CleanersOK, PurgeOK, PurgeAt, store, requests, cleaning
<1>14. ASSUME NEW c \in Cleaners, CleanPastes(c) PROVE PurgeOK'
  <2>1. ASSUME NEW d \in Cleaners, d # c PROVE PurgeAt(d)'
    BY <1>14, <2>1 DEF CleanPastes, Count, Fault, Abort, Rest, GoClean, store, TypeOK, CleanerTypes, PurgeOK, PurgeAt
  <2>2. PurgeAt(c)'
    <3>1. Batch \in Nat /\ Batch > 0
      BY FileAssumption
    <3>2. CASE Abort(c)
      BY <3>2 DEF Abort, Rest, GoClean, TypeOK, CleanerTypes, PurgeAt
    <3>3. ASSUME NEW n \in 0..Batch, NEW d \in 0..n, (d = n /\ UNCHANGED faulted) \/ faulted' = TRUE, Count(c, d),
                 room' = [room EXCEPT ![c] = Batch - n], GoClean(c, IF n = Batch THEN "items" ELSE "files"),
                 UNCHANGED locked
          PROVE  PurgeAt(c)'
      <4>1. CASE n = Batch
        BY <3>1, <3>3, <4>1 DEF Count, GoClean, TypeOK, CleanerTypes, PurgeAt
      <4>2. CASE n # Batch
        BY <3>1, <3>3, <4>2 DEF GoClean, TypeOK, CleanerTypes, PurgeAt
      <4> QED
        BY <4>1, <4>2
    <3>4. ASSUME NEW n \in 0..Batch, NEW d \in 0..Batch, d <= n PROVE d \in 0..n
      BY <3>1, <3>4
    <3> QED
      BY <1>14, <3>2, <3>3, <3>4 DEF CleanPastes, Fault
  <2> QED
    BY <2>1, <2>2 DEF PurgeOK
<1>15. ASSUME NEW c \in Cleaners, ListFiles(c) PROVE PurgeOK'
  <2>1. ASSUME NEW d \in Cleaners, d # c PROVE PurgeAt(d)'
    BY <1>15, <2>1 DEF ListFiles, Fault, Abort, Rest, GoClean, store, TypeOK, CleanerTypes, PurgeOK, PurgeAt
  <2>2. PurgeAt(c)'
    <3>1. room[c] # 0 /\ cl[c] = "files"
      BY <1>15 DEF ListFiles, PurgeOK, PurgeAt
    <3>2. CASE Abort(c)
      BY <3>2 DEF Abort, Rest, GoClean, TypeOK, CleanerTypes, PurgeAt
    <3>3. CASE faulted' = TRUE /\ GoClean(c, "items")
      BY <3>3 DEF GoClean, TypeOK, CleanerTypes, PurgeAt
    <3>4. ASSUME NEW s \in SUBSET Due, Cardinality(s) = room[c] \/ s = Due,
                 todo' = [todo EXCEPT ![c] = s], GoClean(c, "items"), UNCHANGED <<row, aim>>
          PROVE  PurgeAt(c)'
      <4>1. todo'[c] = s /\ cl'[c] = "items" /\ aim'[c] = aim[c] /\ row' = row
        BY <3>4 DEF GoClean, TypeOK, CleanerTypes
      <4>2. s = {} => Due = {}
        BY <3>1, <3>4, FS_EmptySet
      <4>3. \A i \in aim[c] : i \in expired /\ i \in Items
        BY DEF CleanersOK, TypeOK, CleanerTypes
      <4>4. Due = {} => \A i \in aim[c] : row[i[1]] # i[2]
        BY <4>3, ItemFacts DEF TypeOK
      <4> QED
        BY <4>1, <4>2, <4>4 DEF PurgeAt
    <3> QED
      BY <1>15, <3>2, <3>3, <3>4 DEF ListFiles, Fault, store
  <2> QED
    BY <2>1, <2>2 DEF PurgeOK
<1>16. ASSUME NEW c \in Cleaners, NEW i \in todo[c], CleanBlob(c, i) PROVE PurgeOK'
  BY <1>16, FileAssumption, ItemFacts DEF CleanBlob, GoClean, DeleteBlob, Fault, TypeOK, StoreTypes, CleanerTypes, FilesOK, CleanersOK, PurgeOK, PurgeAt, store, requests, cleaning
<1>17. ASSUME NEW c \in Cleaners, CleanRow(c) PROVE PurgeOK'
  <2>1. \A i \in Items : row[i[1]] # i[2] => row'[i[1]] # i[2]
    BY <1>17, ItemFacts DEF CleanRow, DropId, TypeOK, StoreTypes
  <2>2. \A d \in Cleaners : aim[d] \subseteq Items
    BY DEF TypeOK, CleanerTypes
  <2>3. ASSUME NEW d \in Cleaners, d # c PROVE PurgeAt(d)'
    BY <1>17, <2>1, <2>2, <2>3 DEF CleanRow, Count, Fault, GoClean, TypeOK, CleanerTypes, PurgeOK, PurgeAt
  <2>4. PurgeAt(c)'
    <3>1. cl'[c] = "items" /\ locked'[c] = locked[c]
      BY <1>17 DEF CleanRow, GoClean, TypeOK, CleanerTypes
    <3>2. faulted' = TRUE \/ removed'[c] = (removed[c] \/ ~locked[c])
      BY <1>17 DEF CleanRow, Count, Fault, TypeOK, CleanerTypes
    <3> QED
      BY <3>1, <3>2 DEF PurgeAt, TypeOK, CleanerTypes
  <2> QED
    BY <2>3, <2>4 DEF PurgeOK
<1>18. ASSUME NEW c \in Cleaners, Finish(c) PROVE PurgeOK'
  BY <1>18, FileAssumption, ItemFacts DEF Finish, Begin, GoClean, Abort, Rest, TypeOK, StoreTypes, CleanerTypes, FilesOK, CleanersOK, PurgeOK, PurgeAt, store, requests, cleaning
<1>19. ASSUME NEW c \in Cleaners, Release(c) PROVE PurgeOK'
  BY <1>19, FileAssumption, ItemFacts DEF Release, Rest, GoClean, Fault, TypeOK, StoreTypes, CleanerTypes, FilesOK, CleanersOK, PurgeOK, PurgeAt, store, requests, cleaning
<1>20. CASE LockLapses
  BY <1>20, FileAssumption, ItemFacts DEF LockLapses, TypeOK, StoreTypes, CleanerTypes, FilesOK, CleanersOK, PurgeOK, PurgeAt, store, requests, cleaning
<1>21. CASE Crash
  BY <1>21, FileAssumption, ItemFacts DEF Crash, Done, Rest, GoClean, TypeOK, StoreTypes, CleanerTypes, FilesOK, CleanersOK, PurgeOK, PurgeAt, store, requests, cleaning
<1>22. CASE UNCHANGED vars
  BY <1>22 DEF vars, TypeOK, StoreTypes, CleanerTypes, FilesOK, CleanersOK, PurgeOK, PurgeAt, store, requests, cleaning
<1> QED
  BY <1>1, <1>2, <1>3, <1>4, <1>5, <1>6, <1>7, <1>8, <1>9, <1>10, <1>11, <1>12, <1>13, <1>14, <1>15, <1>16, <1>17, <1>18, <1>19, <1>20, <1>21, <1>22 DEF Next, Client, Request, Cycle

\* The inductive invariant of the files: the rows and objects of a key, who
\* works on them, and the lock.
THEOREM Invariance == Spec => []IInv
<1>1. Init => IInv
  <2> SUFFICES ASSUME Init PROVE IInv
    OBVIOUS
  <2>1. StoreTypes
    <3>1. row \in [Keys -> Nat] /\ ids \in [Keys -> Nat] /\ blobs \in [Keys -> SUBSET Providers]
      BY DEF Init
    <3> QED
      BY <3>1 DEF Init, StoreTypes
  <2>2. RequestTypes
    BY DEF Init, RequestTypes
  <2>3. CleanerTypes
    BY DEF Init, CleanerTypes
  <2>4. FilesOK /\ RequestsOK /\ CleanersOK
    BY FileAssumption DEF Init, FilesOK, RequestsOK, CleanersOK, Found
  <2>5. ItemsOK /\ LockOK /\ OneCleanup
    BY DEF Init, ItemsOK, LockOK, OneCleanup
  <2>6. PurgeOK /\ UploadedIsServable /\ NoOrphans
    BY DEF Init, PurgeOK, PurgeAt, UploadedIsServable, NoOrphans, Found
  <2> QED
    BY <2>1, <2>2, <2>3, <2>4, <2>5, <2>6 DEF IInv, TypeOK
<1>2. IInv /\ [Next]_vars => IInv'
  BY StoreTypesStep, RequestTypesStep, CleanerTypesStep, LockStep, FilesStep, RequestsStep, CleanersStep,
     ItemsStep, ServableStep, OrphansStep, PurgeStep DEF IInv, TypeOK
<1> QED
  BY <1>1, <1>2, PTL DEF Spec

\* A file that went through the server can be opened until it expires or its
\* row goes, whatever fails or dies in between (Upload, DeleteFile, RunCleanup).
THEOREM UploadsAreServable == Spec => []UploadedIsServable
<1>1. IInv => UploadedIsServable
  BY DEF IInv
<1> QED
  BY <1>1, Invariance, PTL

\* While nothing fails, no object of such a file is left without a row.
THEOREM NothingLeftBehind == Spec => []NoOrphans
<1>1. IInv => NoOrphans
  BY DEF IInv
<1> QED
  BY <1>1, Invariance, PTL

\* At most one scheduled cycle runs while the lock outlives the cycles
\* (runOnce, AcquireLock, ReleaseLock without an owner).
THEOREM OneCycle == Spec => []OneCleanup
<1>1. IInv => OneCleanup
  BY DEF IInv
<1> QED
  BY <1>1, Invariance, PTL

\* A purge that ends has removed all files that had expired when it began
\* (PurgeExpired loops until a cycle removes nothing).
THEOREM PurgesDrain == Spec => PurgeDrains
<1> DEFINE Drains == \A c \in Cleaners :
          cl[c] = "items" /\ cl'[c] = "idle" /\ ~faulted /\ crashes' = crashes =>
              \A i \in aim[c] : row[i[1]] # i[2]
<1>1. ASSUME IInv, Next, NEW c \in Cleaners, cl[c] = "items", cl'[c] = "idle", ~faulted, crashes' = crashes
      PROVE  \A i \in aim[c] : row[i[1]] # i[2]
  <2>1. Finish(c)
    <3>1. ASSUME NEW k \in Keys, Client(k) \/ Expire(k) PROVE FALSE
      BY <1>1, <3>1 DEF Client, Presign, ClientPut, UrlLapses, Expire, cleaning
    <3>2. ASSUME NEW q \in Requests, Request(q) PROVE FALSE
      BY <1>1, <3>2 DEF Request, Upload, Register, FindFile, Save, InsertFile, DropRow, EraseBlob, cleaning
    <3>3. ASSUME NEW d \in Cleaners, Acquire(d) \/ StartPurge(d) PROVE FALSE
      BY <1>1, <3>3 DEF Acquire, StartPurge, Begin, GoClean, cleaning, IInv, TypeOK, CleanerTypes
    <3>4. ASSUME NEW d \in Cleaners, d # c, Cycle(d) PROVE FALSE
      BY <1>1, <3>4 DEF Cycle, CleanPastes, ListFiles, CleanBlob, CleanRow, Finish, Release, Begin, Abort,
         Rest, GoClean, IInv, TypeOK, CleanerTypes
    <3>5. CASE Cycle(c)
      BY <1>1, <3>5 DEF Cycle, CleanPastes, ListFiles, CleanBlob, CleanRow, Release, GoClean, IInv, TypeOK,
         CleanerTypes
    <3>6. CASE LockLapses
      BY <1>1, <3>6 DEF LockLapses, cleaning
    <3>7. CASE Crash
      BY <1>1, <3>7 DEF Crash, IInv, TypeOK, StoreTypes
    <3> QED
      BY <1>1, <3>1, <3>2, <3>3, <3>4, <3>5, <3>6, <3>7 DEF Next
  <2>2. todo[c] = {} /\ ~locked[c] /\ ~removed[c]
    BY <1>1, <2>1 DEF Finish, Begin, Abort, GoClean, IInv, TypeOK, CleanerTypes
  <2> QED
    BY <1>1, <2>2 DEF IInv, PurgeOK, PurgeAt
<1>2. IInv /\ [Next]_vars => [Drains]_vars
  BY <1>1
<1> QED
  BY <1>2, Invariance, PTL DEF Spec, PurgeDrains

-----------------------------------------------------------------------------
(* The contract *)

\* The files in the table, as keys and ids.
LEMMA ListedFacts ==
    ASSUME TypeOK, FilesOK
    PROVE  /\ \A i \in Ever : i[1] \in Keys /\ i[2] \in 1..MaxIds /\ i[2] <= ids[i[1]] /\ i = <<i[1], i[2]>>
           /\ \A i \in Listed : i \in Ever /\ i[2] = row[i[1]] /\ row[i[1]] # 0
           /\ \A k \in Keys : row[k] # 0 => <<k, row[k]>> \in Listed
<1>1. \A i \in Ever : i[1] \in Keys /\ i[2] \in 1..MaxIds /\ i[2] <= ids[i[1]] /\ i = <<i[1], i[2]>>
  BY DEF Ever
<1>2. \A i \in Listed : i \in Ever /\ i[2] = row[i[1]] /\ row[i[1]] # 0
  BY <1>1 DEF Listed
<1>3. ASSUME NEW k \in Keys, row[k] # 0 PROVE <<k, row[k]>> \in Listed
  <2>1. row[k] = ids[k] /\ ids[k] \in 1..MaxIds
    BY <1>3, FileAssumption DEF TypeOK, StoreTypes, FilesOK
  <2> QED
    BY <2>1 DEF Listed, Ever
<1> QED
  BY <1>1, <1>2, <1>3

\* Only the lookup of an admin's deletion dooms a key.
LEMMA DoomedShrinks ==
    ASSUME \A q \in Requests : at'[q] = "drop" => at[q] = "drop" /\ key'[q] = key[q]
    PROVE  Doomed' \in SUBSET Doomed
  BY DEF Doomed

\* The keys doomed are those of the requests about to drop a row.
LEMMA DoomedSame ==
    ASSUME \A q \in Requests : /\ (at'[q] = "drop") <=> (at[q] = "drop")
                               /\ at[q] = "drop" => key'[q] = key[q]
    PROVE  Doomed' = Doomed
  BY DEF Doomed

\* A step that leaves the table and the presence of the objects alone is
\* invisible to the contract, unless it ends deletions.
LEMMA Quiet ==
    ASSUME UNCHANGED <<row, ids, expired, Uploaded, Granted, Stored>>, Doomed' \in SUBSET Doomed
    PROVE  Contract!Next
<1>1. UNCHANGED <<Listed, Ever>>
  BY DEF Listed, Ever
<1>2. Contract!Relent
  BY <1>1 DEF Contract!Relent
<1> QED
  BY <1>2 DEF Contract!Next

\* Generating a key claims it.
LEMMA Claimed ==
    ASSUME TypeOK, NEW k \in Keys, origin[k] = "free",
           NEW o \in {"proxied", "signed"}, origin' = [origin EXCEPT ![k] = o],
           UNCHANGED <<blobs, row, ids, expired, Doomed>>
    PROVE  Contract!Next
<1>1. UNCHANGED <<Listed, Ever, Stored>>
  BY DEF Listed, Ever, Stored, Found
<1>2. k \notin Uploaded \cup Granted
  BY DEF Uploaded, Granted
<1>3. CASE o = "proxied"
  <2>1. Uploaded' = Uploaded \cup {k} /\ Granted' = Granted
    BY <1>3 DEF Uploaded, Granted, TypeOK, StoreTypes
  <2> QED
    BY <1>1, <1>2, <2>1 DEF Contract!Claim, Contract!Next
<1>4. CASE o = "signed"
  <2>1. Granted' = Granted \cup {k} /\ Uploaded' = Uploaded
    BY <1>4 DEF Uploaded, Granted, TypeOK, StoreTypes
  <2> QED
    BY <1>1, <1>2, <2>1 DEF Contract!Claim, Contract!Next
<1> QED
  BY <1>3, <1>4

\* An object is stored by the upload that owns the key, or with a URL.
LEMMA ObjectStored ==
    ASSUME TypeOK, NEW k \in Keys, NEW p \in Providers, Put(k, p),
           origin[k] # "free", origin[k] = "proxied" => ids[k] = 0,
           UNCHANGED <<origin, row, ids, expired, Doomed>>
    PROVE  Contract!Next
<1>1. UNCHANGED <<Listed, Ever, Uploaded, Granted>>
  BY DEF Listed, Ever, Uploaded, Granted
<1>2. k \in Uploaded \cup Granted
  BY DEF Uploaded, Granted, TypeOK, StoreTypes
<1>3. Stored' = Stored \cup {k}
  BY DEF Stored, Found, Put, TypeOK, StoreTypes
<1>4. ASSUME k \in Uploaded, NEW i \in Ever PROVE i[1] # k
  BY <1>4 DEF Uploaded, Ever
<1>5. Contract!Store(k)
  BY <1>1, <1>2, <1>3, <1>4 DEF Contract!Store, Listed
<1> QED
  BY <1>5 DEF Contract!Next

\* A row is published: the first of an uploaded key, whose object is there,
\* or one of a key with a URL.
LEMMA Published ==
    ASSUME TypeOK, FilesOK, NEW k \in Keys, NewRow(k), origin[k] # "free",
           origin[k] = "proxied" => ids[k] = 0 /\ Found(k),
           UNCHANGED <<origin, blobs, expired, Doomed>>
    PROVE  Contract!Next
<1> DEFINE i == <<k, ids[k] + 1>>
<1>1. UNCHANGED <<Uploaded, Granted, Stored>>
  BY DEF Uploaded, Granted, Stored, Found
<1>2. i \in Keys \X (1..MaxIds) /\ i \notin Ever
  BY FileAssumption DEF NewRow, Ever, TypeOK, StoreTypes
<1>3. Ever' = Ever \cup {i}
  BY <1>2 DEF NewRow, Ever, TypeOK, StoreTypes
<1>4. \A j \in Listed : j[1] # k
  BY ListedFacts DEF NewRow
<1>5. Listed' = Listed \cup {i}
  <2>1. i \in Listed'
    BY <1>2, <1>3 DEF NewRow, Listed, TypeOK, StoreTypes
  <2>2. ASSUME NEW j \in Ever PROVE j \in Listed' <=> j \in Listed
    <3>1. CASE j[1] = k
      BY <1>3, <1>4, <2>2, <3>1, ListedFacts DEF NewRow, Listed, TypeOK, StoreTypes
    <3>2. CASE j[1] # k
      BY <1>3, <2>2, <3>2, ListedFacts DEF NewRow, Listed, TypeOK, StoreTypes
    <3> QED
      BY <3>1, <3>2
  <2>3. Listed' \subseteq Ever' /\ Listed \subseteq Ever
    BY DEF Listed
  <2> QED
    BY <1>3, <2>1, <2>2, <2>3
<1>6. (Ever \ Listed)' = Ever \ Listed
  BY <1>2, <1>3, <1>5
<1>7. ASSUME k \in Uploaded PROVE k \in Stored /\ \A j \in Ever : j[1] # k
  BY <1>7 DEF Uploaded, Stored, Ever
<1>8. k \in Uploaded \/ k \in Granted
  BY DEF Uploaded, Granted, TypeOK, StoreTypes
<1>9. Contract!Publish(i)
  BY <1>1, <1>2, <1>4, <1>5, <1>6, <1>7, <1>8 DEF Contract!Publish, Listed
<1> QED
  BY <1>2, <1>9 DEF Contract!Next

\* A row that goes withdraws its file, for a cause.
LEMMA Withdrawn ==
    ASSUME TypeOK, FilesOK, NEW k \in Keys, row[k] # 0, row' = [row EXCEPT ![k] = 0],
           <<k, row[k]>> \in expired \/ k \in Doomed,
           UNCHANGED <<origin, blobs, ids, expired>>, Doomed' \in SUBSET Doomed
    PROVE  Contract!Next
<1> DEFINE i == <<k, row[k]>>
<1>1. UNCHANGED <<Uploaded, Granted, Stored, Ever>>
  BY DEF Uploaded, Granted, Stored, Found, Ever
<1>2. i \in Listed /\ i \in Keys \X (1..MaxIds) /\ Listed \subseteq Ever
  BY ListedFacts
<1>3. Listed' = Listed \ {i}
  <2>1. ASSUME NEW j \in Ever PROVE j \in Listed' <=> j \in Listed /\ j # i
    <3>1. CASE j[1] = k
      BY <1>1, <2>1, <3>1, ListedFacts DEF Listed, TypeOK, StoreTypes
    <3>2. CASE j[1] # k
      BY <1>1, <2>1, <3>2, ListedFacts DEF Listed, TypeOK, StoreTypes
    <3> QED
      BY <3>1, <3>2
  <2>2. Listed' \subseteq Ever
    BY <1>1 DEF Listed
  <2> QED
    BY <1>2, <2>1, <2>2
<1>4. (Ever \ Listed)' = (Ever \ Listed) \cup {i}
  BY <1>1, <1>2, <1>3
<1>5. Contract!Withdraw(i)
  BY <1>1, <1>2, <1>3, <1>4 DEF Contract!Withdraw
<1> QED
  BY <1>2, <1>5 DEF Contract!Next

\* An object of an uploaded file goes from the providers, from the last one
\* only when its file is not live or has expired.
LEMMA Erased ==
    ASSUME TypeOK, NEW k \in Keys, NEW ok \in BOOLEAN, DeleteBlob(k, ok),
           origin[k] = "proxied" /\ row[k] # 0 => <<k, row[k]>> \in expired,
           UNCHANGED <<origin, row, ids, expired, Doomed>>
    PROVE  Contract!Next
<1>1. PICK kept \in SUBSET blobs[k] : blobs' = [blobs EXCEPT ![k] = kept]
  BY DEF DeleteBlob
<1>2. UNCHANGED <<Uploaded, Granted, Listed, Ever>>
  BY DEF Uploaded, Granted, Listed, Ever
<1>3. CASE kept # {} \/ ~Found(k)
  <2>1. Stored' = Stored
    BY <1>1, <1>3 DEF Stored, Found, TypeOK, StoreTypes
  <2> QED
    BY <1>2, <2>1, Quiet
<1>4. CASE kept = {} /\ Found(k)
  <2>1. Stored' = Stored \ {k} /\ k \in Stored
    BY <1>1, <1>4 DEF Stored, Found, TypeOK, StoreTypes
  <2>2. ASSUME k \in Uploaded, NEW i \in Listed, i[1] = k PROVE i \in expired
    <3>1. i = <<k, row[k]>> /\ row[k] # 0
      BY <2>2 DEF Listed, Ever
    <3> QED
      BY <2>2, <3>1 DEF Uploaded
  <2>3. Contract!Erase(k)
    BY <1>2, <2>1, <2>2 DEF Contract!Erase
  <2> QED
    BY <2>3 DEF Contract!Next
<1> QED
  BY <1>3, <1>4

\* The live row of an uploaded key is the only one it ever had: if an expired
\* item of the key is known, it is that row.
LEMMA ItemIsLast ==
    ASSUME TypeOK, FilesOK, NEW i \in expired, origin[i[1]] = "proxied", row[i[1]] # 0
    PROVE  <<i[1], row[i[1]]>> \in expired
<1>1. i[1] \in Keys /\ i[2] \in Nat /\ i[2] # 0 /\ i[2] <= ids[i[1]] /\ i = <<i[1], i[2]>>
  BY ItemFacts DEF TypeOK, StoreTypes, FilesOK
<1>2. row[i[1]] = ids[i[1]] /\ ids[i[1]] <= 1 /\ ids[i[1]] \in Nat
  BY <1>1 DEF FilesOK, TypeOK, StoreTypes
<1> QED
  BY <1>1, <1>2

\* Every step of the file service is a step of the contract, or none.
LEMMA ContractStep == ASSUME IInv, [Next]_vars PROVE [Contract!Next]_(Contract!vars)
<1> USE DEF IInv
<1>1. ASSUME NEW k \in Keys, Client(k) \/ Expire(k) PROVE Contract!Next
  <2>1. CASE Presign(k)
    BY <2>1, Claimed, DoomedSame DEF Presign, requests
  <2>2. CASE ClientPut(k)
    BY <2>2, ObjectStored, DoomedSame, FileAssumption DEF ClientPut, requests
  <2>3. CASE UrlLapses(k)
    <3>1. UNCHANGED <<Uploaded, Granted>>
      BY <2>3 DEF UrlLapses, Uploaded, Granted, TypeOK, StoreTypes
    <3>2. UNCHANGED <<Stored, Doomed>>
      BY <2>3, DoomedSame DEF UrlLapses, Stored, Found, requests
    <3> QED
      BY <2>3, <3>1, <3>2, Quiet DEF UrlLapses
  <2>4. CASE Expire(k)
    <3>1. UNCHANGED <<Uploaded, Granted, Stored, Doomed, Ever, Listed>>
      BY <2>4, DoomedSame DEF Expire, Uploaded, Granted, Stored, Found, Ever, Listed, requests
    <3>2. <<k, row[k]>> \in Listed /\ <<k, row[k]>> \in Keys \X (1..MaxIds)
      BY <2>4, ListedFacts DEF Expire
    <3>3. Contract!Lapse(<<k, row[k]>>)
      BY <2>4, <3>1, <3>2 DEF Expire, Contract!Lapse
    <3> QED
      BY <3>2, <3>3 DEF Contract!Next
  <2> QED
    BY <1>1, <2>1, <2>2, <2>3, <2>4 DEF Client
<1>2. ASSUME NEW q \in Requests, Request(q) PROVE Contract!Next
  <2>1. ASSUME NEW k \in Keys, Upload(q, k) PROVE Contract!Next
    <3>1. Doomed' = Doomed
      BY <2>1, DoomedSame DEF Upload, Goto, TypeOK, RequestTypes
    <3> QED
      BY <2>1, <3>1, Claimed DEF Upload
  <2>2. ASSUME NEW k \in Keys, Register(q, k) PROVE Contract!Next
    <3>1. Doomed' = Doomed
      BY <2>2, DoomedSame DEF Register, Goto, TypeOK, RequestTypes
    <3> QED
      BY <2>2, <3>1, Quiet DEF Register, store, Uploaded, Granted, Stored, Found
  <2>3. ASSUME NEW k \in Keys, FindFile(q, k) PROVE Contract!Next
    <3>1. Doomed' = Doomed \cup {k}
      BY <2>3 DEF FindFile, Goto, Doomed, TypeOK, RequestTypes
    <3>2. UNCHANGED <<Uploaded, Granted, Stored, Ever, Listed, expired>>
      BY <2>3 DEF FindFile, store, Uploaded, Granted, Stored, Found, Ever, Listed
    <3>3. <<k, ids[k]>> \in Ever /\ Listed \subseteq Ever
      BY <2>3, FileAssumption DEF FindFile, Ever, Listed, TypeOK, StoreTypes, FilesOK
    <3>4. Contract!Doom(k)
      BY <3>1, <3>2, <3>3 DEF Contract!Doom
    <3> QED
      BY <3>4 DEF Contract!Next
  <2>4. ASSUME NEW p \in Providers, Save(q, p) PROVE Contract!Next
    <3>1. key[q] \in Keys /\ origin[key[q]] = "proxied" /\ ids[key[q]] = 0
      BY <2>4, KeyFact DEF Save, RequestsOK
    <3>2. Doomed' = Doomed
      BY <2>4, DoomedSame DEF Save, Goto, Done, TypeOK, RequestTypes
    <3>3. UNCHANGED <<origin, row, ids, expired>> /\ (Put(key[q], p) \/ UNCHANGED blobs)
      BY <2>4 DEF Save
    <3>4. CASE Put(key[q], p)
      BY <3>1, <3>2, <3>3, <3>4, ObjectStored
    <3>5. CASE UNCHANGED blobs
      BY <3>2, <3>3, <3>5, Quiet DEF Uploaded, Granted, Stored, Found
    <3> QED
      BY <3>3, <3>4, <3>5
  <2>5. CASE InsertFile(q)
    <3>1. /\ key[q] \in Keys /\ origin[key[q]] # "free"
          /\ origin[key[q]] = "proxied" => ids[key[q]] = 0 /\ Found(key[q])
      BY <2>5, KeyFact DEF InsertFile, RequestsOK
    <3>2. Doomed' = Doomed
      BY <2>5, DoomedSame DEF InsertFile, Done, TypeOK, RequestTypes
    <3>3. UNCHANGED <<origin, blobs, expired>> /\ (NewRow(key[q]) \/ UNCHANGED <<row, ids>>)
      BY <2>5 DEF InsertFile
    <3>4. CASE NewRow(key[q])
      BY <3>1, <3>2, <3>3, <3>4, Published
    <3>5. CASE UNCHANGED <<row, ids>>
      BY <3>2, <3>3, <3>5, Quiet DEF Uploaded, Granted, Stored, Found
    <3> QED
      BY <3>3, <3>4, <3>5
  <2>6. CASE DropRow(q)
    <3>1. key[q] \in Keys /\ key[q] \in Doomed
      BY <2>6, KeyFact DEF DropRow, Doomed
    <3>2. Doomed' \in SUBSET Doomed
      BY <2>6, DoomedShrinks DEF DropRow, Goto, Done, TypeOK, RequestTypes
    <3>3. /\ UNCHANGED <<origin, blobs, ids, expired>>
          /\ row' = [row EXCEPT ![key[q]] = 0] \/ UNCHANGED row
      BY <2>6 DEF DropRow
    <3>4. CASE row[key[q]] # 0 /\ row' = [row EXCEPT ![key[q]] = 0]
      BY <3>1, <3>2, <3>3, <3>4, Withdrawn
    <3>5. CASE row[key[q]] = 0 \/ UNCHANGED row
      <4>1. row' = row
        BY <3>1, <3>3, <3>5 DEF TypeOK, StoreTypes
      <4> QED
        BY <3>2, <3>3, <4>1, Quiet DEF Uploaded, Granted, Stored, Found
    <3> QED
      BY <3>3, <3>4, <3>5
  <2>7. CASE EraseBlob(q)
    <3>1. key[q] \in Keys /\ (origin[key[q]] = "proxied" => row[key[q]] = 0)
      BY <2>7, KeyFact DEF EraseBlob, RequestsOK
    <3>2. Doomed' = Doomed
      BY <2>7, DoomedSame DEF EraseBlob, Done, TypeOK, RequestTypes
    <3> QED
      BY <2>7, <3>1, <3>2, Erased DEF EraseBlob
  <2> QED
    BY <1>2, <2>1, <2>2, <2>3, <2>4, <2>5, <2>6, <2>7 DEF Request
<1>3. ASSUME NEW c \in Cleaners, Acquire(c) \/ StartPurge(c) \/ Cycle(c) PROVE Contract!Next
  <2>1. ASSUME UNCHANGED <<store, requests>> PROVE Contract!Next
    BY <2>1, Quiet, DoomedSame DEF store, requests, Uploaded, Granted, Stored, Found
  <2>2. ASSUME NEW i \in todo[c], CleanBlob(c, i) PROVE Contract!Next
    <3>1. i \in expired /\ i[1] \in Keys
      BY ItemFacts DEF CleanersOK, TypeOK, StoreTypes
    <3>2. origin[i[1]] = "proxied" /\ row[i[1]] # 0 => <<i[1], row[i[1]]>> \in expired
      BY <3>1, ItemIsLast
    <3>3. Doomed' = Doomed
      BY <2>2, DoomedSame DEF CleanBlob, requests
    <3>4. \E ok \in BOOLEAN : DeleteBlob(i[1], ok)
      BY <2>2 DEF CleanBlob
    <3>5. UNCHANGED <<origin, row, ids, expired>>
      BY <2>2 DEF CleanBlob
    <3> QED
      BY <3>1, <3>2, <3>3, <3>4, <3>5, Erased
  <2>3. CASE CleanRow(c)
    <3> DEFINE i == item[c]
    <3>1. i \in expired /\ i[1] \in Keys /\ i[2] # 0 /\ i = <<i[1], i[2]>>
      BY <2>3, ItemFacts DEF CleanRow, CleanersOK, TypeOK, StoreTypes
    <3>2. UNCHANGED <<origin, blobs, ids, expired>> /\ Doomed' = Doomed
      BY <2>3, DoomedSame DEF CleanRow, requests
    <3>3. CASE row[i[1]] = i[2] /\ DropId(i)
      <4>1. row' = [row EXCEPT ![i[1]] = 0]
        <5> HIDE DEF i
        <5>1. \A k \in Keys : <<k, row[k]>> = i <=> k = i[1]
          BY <3>1, <3>3
        <5>2. row' = [k \in Keys |-> IF k = i[1] THEN 0 ELSE row[k]]
          BY <3>3, <5>1 DEF DropId
        <5> QED
          BY <5>2 DEF TypeOK, StoreTypes
      <4> QED
        BY <3>1, <3>2, <3>3, <4>1, Withdrawn
    <3>4. CASE row[i[1]] # i[2] \/ UNCHANGED row
      <4>1. row' = row
        BY <2>3, <3>1, <3>4 DEF CleanRow, DropId, TypeOK, StoreTypes
      <4> QED
        BY <3>2, <4>1, Quiet DEF Uploaded, Granted, Stored, Found
    <3> QED
      BY <2>3, <3>3, <3>4 DEF CleanRow
  <2>4. CASE Acquire(c) \/ StartPurge(c)
    BY <2>1, <2>4 DEF Acquire, StartPurge
  <2>5. CASE CleanPastes(c) \/ ListFiles(c) \/ Finish(c) \/ Release(c)
    BY <2>1, <2>5 DEF CleanPastes, ListFiles, Finish, Release
  <2> QED
    BY <1>3, <2>2, <2>3, <2>4, <2>5 DEF Cycle
<1>4. CASE LockLapses
  BY <1>4, Quiet, DoomedSame DEF LockLapses, store, requests, Uploaded, Granted, Stored, Found
<1>5. CASE Crash
  <2>1. Doomed' \in SUBSET Doomed
    BY <1>5, DoomedShrinks DEF Crash, Done, requests, TypeOK, RequestTypes
  <2> QED
    BY <1>5, <2>1, Quiet DEF Crash, store, Uploaded, Granted, Stored, Found
<1>6. CASE UNCHANGED vars
  BY <1>6, Quiet, DoomedSame DEF vars, store, requests, Uploaded, Granted, Stored, Found
<1> QED
  BY <1>1, <1>2, <1>3, <1>4, <1>5, <1>6 DEF Next

\* The file service, the admin's deletions and the expiry manager implement the
\* contract: a row goes only for a cause, an uploaded key has one file, and its
\* object is not erased while the file can be asked for.
THEOREM Implements == Spec => ImplementsFileContract
<1>1. Init => Contract!Init
  <2> SUFFICES ASSUME Init PROVE Contract!Init
    OBVIOUS
  <2>1. Uploaded = {} /\ Granted = {} /\ Stored = {}
    BY DEF Init, Uploaded, Granted, Stored, Found
  <2>2. Ever = {}
    BY DEF Init, Ever
  <2>3. Listed = {} /\ Doomed = {}
    BY <2>2 DEF Init, Listed, Doomed
  <2> QED
    BY <2>1, <2>2, <2>3 DEF Init, Contract!Init
<1>2. IInv /\ [Next]_vars => [Contract!Next]_(Contract!vars)
  BY ContractStep
<1> QED
  BY <1>1, <1>2, Invariance, PTL DEF Spec, ImplementsFileContract, Contract!Spec
=============================================================================
