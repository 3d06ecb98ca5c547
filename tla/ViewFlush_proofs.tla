--------------------------- MODULE ViewFlush_proofs ---------------------------
(***************************************************************************)
(* Proofs about ViewFlush, for every set of slugs and of server processes, *)
(* every bound and every combination of faults: a process adds a view at   *)
(* most once, and until the flushers of two processes meet no view is      *)
(* counted twice, none is dropped before a call fails, and a cycle deletes *)
(* only what it read.                                                      *)
(***************************************************************************)
EXTENDS ViewFlush, TLAPS

USE DEF histories

Locations == {"tick", "read", "commit", "clear"}

\* What a flusher's transaction does to the row and to the count of what it added.
LEMMA AddStep ==
    ASSUME TypeOK, NEW i \in Instances, Add(i)
    PROVE  /\ column' \in [Slugs -> Nat \cup {NoRow}]
           /\ added' \in [Instances -> Hash]
           /\ \A s \in Slugs : InRow(s)' <= InRow(s) + batch[i][s]
           /\ \A s \in Slugs : added'[i][s] = added[i][s] + batch[i][s]
           /\ \A j \in Instances \ {i} : added'[j] = added[j]
<1>1. ASSUME NEW s \in Slugs
      PROVE  column[s] \in Nat \cup {NoRow} /\ batch[i][s] \in Nat /\ added[i][s] \in Nat
  BY DEF TypeOK, Hash
<1>2. column' \in [Slugs -> Nat \cup {NoRow}]
  BY <1>1 DEF Add
<1>3. ASSUME NEW s \in Slugs PROVE InRow(s)' <= InRow(s) + batch[i][s]
  BY <1>1, FlushAssumption DEF Add, InRow
<1>4. [s \in Slugs |-> added[i][s] + batch[i][s]] \in Hash
  BY <1>1 DEF Hash
<1>5. added' = [added EXCEPT ![i] = [s \in Slugs |-> added[i][s] + batch[i][s]]]
  BY DEF Add
<1>6. added' \in [Instances -> Hash] /\ added'[i] = [s \in Slugs |-> added[i][s] + batch[i][s]]
  BY <1>4, <1>5 DEF TypeOK
<1>7. \A j \in Instances \ {i} : added'[j] = added[j]
  BY <1>5 DEF TypeOK
<1> QED
  BY <1>2, <1>3, <1>6, <1>7

\* The hashes and the flushers start well typed and stay so.
LEMMA TypeStep == ASSUME TypeOK, Next PROVE TypeOK'
<1>1. Empty \in Hash
  BY DEF Empty, Hash
<1>2. ASSUME NEW s \in Slugs, IncrementViews(s) PROVE TypeOK'
  BY <1>2 DEF IncrementViews, TypeOK, Hash
<1>3. ASSUME NEW s \in Slugs, DeleteRow(s) \/ InsertRow(s) PROVE TypeOK'
  <2>1. column' \in [Slugs -> Nat \cup {NoRow}]
    BY <1>3 DEF DeleteRow, InsertRow, TypeOK
  <2>2. disturbed' \in BOOLEAN /\ UNCHANGED <<hits, buf, flush, pc, batch, overlapped, added>>
    BY <1>3 DEF DeleteRow, InsertRow, Fault, TypeOK
  <2> QED
    BY <2>1, <2>2 DEF TypeOK
<1>4. ASSUME NEW i \in Instances, Rename(i) PROVE TypeOK'
  BY <1>1, <1>4 DEF Rename, Meet, Goto, Fault, TypeOK
<1>5. ASSUME NEW i \in Instances, Read(i) PROVE TypeOK'
  BY <1>5 DEF Read, Goto, Fault, TypeOK
<1>6. ASSUME NEW i \in Instances, Commit(i) PROVE TypeOK'
  <2>1. column' \in [Slugs -> Nat \cup {NoRow}] /\ added' \in [Instances -> Hash]
    BY <1>6, AddStep DEF Commit, TypeOK
  <2>2. pc' \in [Instances -> Locations] /\ disturbed' \in BOOLEAN
    BY <1>6 DEF Commit, Goto, Fault, TypeOK, Locations
  <2> QED
    BY <1>6, <2>1, <2>2 DEF Commit, TypeOK, Locations
<1>7. ASSUME NEW i \in Instances, Clear(i) \/ Crash(i) PROVE TypeOK'
  BY <1>1, <1>7 DEF Clear, Crash, Goto, Fault, TypeOK
<1> QED
  BY <1>2, <1>3, <1>4, <1>5, <1>6, <1>7 DEF Next, Flush

\* The sums the invariant compares are sums of natural numbers.
LEMMA Numbers ==
    ASSUME TypeOK, NEW i \in Instances, NEW s \in Slugs
    PROVE  /\ InRow(s) \in Nat /\ buf[s] \in Nat /\ flush[s] \in Nat /\ hits[s] \in Nat
           /\ batch[i][s] \in Nat /\ added[i][s] \in Nat /\ Coming(i, s) \in Nat
  BY DEF TypeOK, Hash, InRow, Coming

\* What one process has added, and may still add, is moved out of the buffer once,
\* whatever the other processes do to the flush key meanwhile.
LEMMA AddedStep == ASSUME TypeOK, AddedOK, Next PROVE AddedOK'
<1> SUFFICES ASSUME NEW i \in Instances, NEW s \in Slugs
             PROVE  (added[i][s] + buf[s] + Coming(i, s) <= hits[s])'
  BY DEF AddedOK
<1> DEFINE Goal == (added[i][s] + buf[s] + Coming(i, s) <= hits[s])'
<1>1. /\ buf[s] \in Nat /\ flush[s] \in Nat /\ batch[i][s] \in Nat /\ hits[s] \in Nat
      /\ added[i][s] \in Nat /\ Coming(i, s) \in Nat
      /\ added[i][s] + buf[s] + Coming(i, s) <= hits[s]
  BY Numbers DEF AddedOK
<1>2. ASSUME NEW t \in Slugs, IncrementViews(t) PROVE Goal
  <2>1. added' = added /\ Coming(i, s)' = Coming(i, s)
    BY <1>2 DEF IncrementViews, Coming
  <2>2. \/ buf'[s] = buf[s] + 1 /\ hits'[s] = hits[s] + 1
        \/ buf'[s] = buf[s] /\ hits'[s] = hits[s]
    BY <1>2 DEF IncrementViews, TypeOK, Hash
  <2> QED
    BY <1>1, <2>1, <2>2
<1>3. ASSUME NEW t \in Slugs, DeleteRow(t) \/ InsertRow(t) PROVE Goal
  BY <1>1, <1>3 DEF DeleteRow, InsertRow, Coming
<1>4. ASSUME NEW j \in Instances, Rename(j) PROVE Goal
  <2>1. added' = added /\ hits' = hits /\ buf'[s] = 0 /\ flush'[s] = buf[s] /\ batch' = batch
    BY <1>4 DEF Rename, Empty
  <2>2. Coming(i, s)' \in {0, buf[s], Coming(i, s)}
    BY <1>4, <2>1 DEF Rename, Goto, Coming, TypeOK
  <2> QED
    BY <1>1, <2>1, <2>2
<1>5. ASSUME NEW j \in Instances, Read(j) PROVE Goal
  <2>1. added' = added /\ hits' = hits /\ buf' = buf
    BY <1>5 DEF Read
  <2>2. Coming(i, s)' \in {0, Coming(i, s)}
    BY <1>5 DEF Read, Goto, Coming, TypeOK
  <2> QED
    BY <1>1, <2>1, <2>2
<1>6. ASSUME NEW j \in Instances, Commit(j) PROVE Goal
  <2>1. hits' = hits /\ buf' = buf /\ flush' = flush /\ batch' = batch
    BY <1>6 DEF Commit
  <2>2. CASE i = j
    <3>1. Coming(i, s) = batch[i][s] /\ Coming(i, s)' = 0
      BY <1>6, <2>2 DEF Commit, Goto, Coming, TypeOK
    <3>2. added'[i][s] = added[i][s] + batch[i][s] \/ added'[i][s] = added[i][s]
      BY <1>6, <2>2, AddStep DEF Commit
    <3> QED
      BY <1>1, <2>1, <3>1, <3>2
  <2>3. CASE i # j
    <3>1. Coming(i, s)' = Coming(i, s)
      BY <1>6, <2>1, <2>3 DEF Commit, Goto, Coming, TypeOK
    <3>2. added'[i] = added[i]
      BY <1>6, <2>3, AddStep DEF Commit
    <3> QED
      BY <1>1, <2>1, <3>1, <3>2
  <2> QED
    BY <2>2, <2>3
<1>7. ASSUME NEW j \in Instances, Clear(j) \/ Crash(j) PROVE Goal
  <2>1. added' = added /\ hits' = hits /\ buf' = buf /\ batch' = batch
    BY <1>7 DEF Clear, Crash
  <2>2. flush'[s] = flush[s] \/ flush'[s] = 0
    BY <1>7 DEF Clear, Crash, Empty
  <2>3. Coming(i, s)' \in {0, Coming(i, s)}
    BY <1>7, <2>1, <2>2 DEF Clear, Crash, Goto, Coming, TypeOK
  <2> QED
    BY <1>1, <2>1, <2>3
<1> QED
  BY <1>2, <1>3, <1>4, <1>5, <1>6, <1>7 DEF Next, Flush

\* That two flushers have met is never forgotten.
LEMMA MetForGood == ASSUME TypeOK, Next, ~overlapped' PROVE ~overlapped
<1>1. ASSUME NEW s \in Slugs, IncrementViews(s) \/ DeleteRow(s) \/ InsertRow(s) PROVE ~overlapped
  BY <1>1 DEF IncrementViews, DeleteRow, InsertRow
<1>2. ASSUME NEW i \in Instances, Rename(i) PROVE ~overlapped
  BY <1>2 DEF Rename, Meet
<1>3. ASSUME NEW i \in Instances, Read(i) \/ Commit(i) \/ Clear(i) \/ Crash(i) PROVE ~overlapped
  BY <1>3 DEF Read, Commit, Clear, Crash
<1> QED
  BY <1>1, <1>2, <1>3 DEF Next, Flush

\* A flusher enters a cycle only at its RENAME, where it notes whom it meets.
LEMMA AloneStep == ASSUME TypeOK, AloneOK, Next PROVE AloneOK'
<1> SUFFICES ASSUME ~overlapped' PROVE \A i, j \in Instances : InCycle(i)' /\ InCycle(j)' => i = j
  BY DEF AloneOK
<1>1. \A i, j \in Instances : InCycle(i) /\ InCycle(j) => i = j
  BY MetForGood DEF AloneOK
<1>2. ASSUME NEW s \in Slugs, IncrementViews(s) \/ DeleteRow(s) \/ InsertRow(s)
      PROVE  \A i, j \in Instances : InCycle(i)' /\ InCycle(j)' => i = j
  BY <1>1, <1>2 DEF IncrementViews, DeleteRow, InsertRow, InCycle
<1>3. ASSUME NEW k \in Instances, Rename(k)
      PROVE  \A i, j \in Instances : InCycle(i)' /\ InCycle(j)' => i = j
  <2>1. \A j \in Instances \ {k} : ~InCycle(j)
    BY <1>3 DEF Rename, Meet
  <2>2. \A j \in Instances \ {k} : ~InCycle(j)'
    BY <1>3, <2>1 DEF Rename, Goto, InCycle, TypeOK
  <2> QED
    BY <2>2
<1>4. ASSUME NEW k \in Instances, Read(k) \/ Commit(k) \/ Clear(k) \/ Crash(k)
      PROVE  \A i, j \in Instances : InCycle(i)' /\ InCycle(j)' => i = j
  <2>1. \A i \in Instances : InCycle(i)' => InCycle(i)
    BY <1>4 DEF Read, Commit, Clear, Crash, Goto, InCycle, TypeOK
  <2> QED
    BY <1>1, <2>1
<1> QED
  BY <1>2, <1>3, <1>4 DEF Next, Flush

\* Until two flushers meet, the others stand at their tick while one is in a cycle.
LEMMA OthersTick ==
    ASSUME AloneOK, ~overlapped, NEW j \in Instances, InCycle(j)
    PROVE  \A i \in Instances \ {j} : pc[i] = "tick"
  BY DEF AloneOK, InCycle

\* Until two flushers meet, a count moves from the buffer to the row at most once.
LEMMA CountsStep == ASSUME IInv, Next PROVE CountsOK'
<1> SUFFICES ASSUME ~overlapped', NEW i \in Instances, NEW s \in Slugs
             PROVE  (InRow(s) + buf[s] + Coming(i, s) <= hits[s])'
  BY DEF CountsOK
<1> DEFINE Goal == (InRow(s) + buf[s] + Coming(i, s) <= hits[s])'
<1>0. TypeOK /\ AloneOK /\ CountsOK /\ ~overlapped
  BY MetForGood DEF IInv
<1>1. /\ InRow(s) \in Nat /\ buf[s] \in Nat /\ hits[s] \in Nat /\ Coming(i, s) \in Nat
      /\ InRow(s) + buf[s] + Coming(i, s) <= hits[s]
  BY <1>0, Numbers DEF CountsOK
<1>2. ASSUME NEW t \in Slugs, IncrementViews(t) PROVE Goal
  <2>1. InRow(s)' = InRow(s) /\ Coming(i, s)' = Coming(i, s)
    BY <1>2 DEF IncrementViews, InRow, Coming
  <2>2. \/ buf'[s] = buf[s] + 1 /\ hits'[s] = hits[s] + 1
        \/ buf'[s] = buf[s] /\ hits'[s] = hits[s]
    BY <1>0, <1>2 DEF IncrementViews, TypeOK, Hash
  <2> QED
    BY <1>1, <2>1, <2>2
<1>3. ASSUME NEW t \in Slugs, DeleteRow(t) \/ InsertRow(t) PROVE Goal
  <2>1. InRow(s)' = InRow(s) \/ InRow(s)' = 0
    BY <1>0, <1>3 DEF DeleteRow, InsertRow, InRow, TypeOK
  <2>2. Coming(i, s)' = Coming(i, s) /\ buf' = buf /\ hits' = hits
    BY <1>3 DEF DeleteRow, InsertRow, Coming
  <2> QED
    BY <1>1, <2>1, <2>2
<1>4. ASSUME NEW j \in Instances, Rename(j) PROVE Goal
  <2>1. InRow(s)' = InRow(s) /\ hits' = hits /\ buf'[s] = 0 /\ flush'[s] = buf[s]
    BY <1>4 DEF Rename, InRow, Empty
  <2>2. pc'[i] \in {"read", "tick"}
    BY <1>0, <1>4 DEF Rename, Meet, Goto, InCycle, TypeOK
  <2>3. Coming(i, s)' \in {0, buf[s]}
    BY <2>1, <2>2 DEF Coming
  <2> QED
    BY <1>1, <2>1, <2>3
<1>5. ASSUME NEW j \in Instances, Read(j) PROVE Goal
  <2>1. InRow(s)' = InRow(s) /\ hits' = hits /\ buf' = buf
    BY <1>5 DEF Read, InRow
  <2>2. Coming(i, s)' \in {0, Coming(i, s)}
    BY <1>0, <1>5 DEF Read, Goto, Coming, TypeOK
  <2> QED
    BY <1>1, <2>1, <2>2
<1>6. ASSUME NEW j \in Instances, Commit(j) PROVE Goal
  <2>1. /\ InRow(s) + buf[s] + Coming(j, s) <= hits[s] /\ Coming(j, s) = batch[j][s]
        /\ batch[j][s] \in Nat /\ hits' = hits /\ buf' = buf
    BY <1>0, <1>6, Numbers DEF Commit, Coming, CountsOK
  <2>2. Coming(i, s)' = 0
    <3>1. pc'[i] \in {"tick", "clear"}
      BY <1>0, <1>6, OthersTick DEF Commit, Goto, InCycle, TypeOK
    <3> QED
      BY <3>1 DEF Coming
  <2>3. InRow(s)' <= InRow(s) + batch[j][s]
    <3>1. CASE Add(j)
      BY <1>0, <3>1, AddStep
    <3>2. CASE UNCHANGED column
      BY <1>1, <2>1, <3>2 DEF InRow
    <3> QED
      BY <1>6, <3>1, <3>2 DEF Commit
  <2>4. InRow(s)' \in Nat
    BY <1>0, TypeStep DEF TypeOK, InRow
  <2> QED
    BY <1>1, <2>1, <2>2, <2>3, <2>4
<1>7. ASSUME NEW j \in Instances, Clear(j) \/ Crash(j) PROVE Goal
  <2>1. InRow(s)' = InRow(s) /\ hits' = hits /\ buf' = buf
    BY <1>7 DEF Clear, Crash, InRow
  <2>2. pc'[i] = "tick"
    BY <1>0, <1>7, OthersTick DEF Clear, Crash, Goto, InCycle, TypeOK
  <2>3. Coming(i, s)' = 0
    BY <2>2 DEF Coming
  <2> QED
    BY <1>1, <2>1, <2>3
<1> QED
  BY <1>2, <1>3, <1>4, <1>5, <1>6, <1>7 DEF Next, Flush

\* Until two flushers meet, nobody replaces the flush key between HGETALL and DEL.
LEMMA BatchStep == ASSUME IInv, Next PROVE BatchOK'
<1> SUFFICES ASSUME ~overlapped' PROVE \A i \in Instances : pc'[i] \in {"commit", "clear"} => flush' = batch'[i]
  BY DEF BatchOK
<1>0. TypeOK /\ AloneOK /\ ~overlapped /\ \A i \in Instances : pc[i] \in {"commit", "clear"} => flush = batch[i]
  BY MetForGood DEF IInv, BatchOK
<1>1. ASSUME NEW t \in Slugs, IncrementViews(t) \/ DeleteRow(t) \/ InsertRow(t)
      PROVE  \A i \in Instances : pc'[i] \in {"commit", "clear"} => flush' = batch'[i]
  BY <1>0, <1>1 DEF IncrementViews, DeleteRow, InsertRow
<1>2. ASSUME NEW j \in Instances, Rename(j)
      PROVE  \A i \in Instances : pc'[i] \in {"commit", "clear"} => flush' = batch'[i]
  <2>1. \A i \in Instances : pc'[i] \in {"read", "tick"}
    BY <1>0, <1>2 DEF Rename, Meet, Goto, InCycle, TypeOK
  <2> QED
    BY <2>1
<1>3. ASSUME NEW j \in Instances, Read(j)
      PROVE  \A i \in Instances : pc'[i] \in {"commit", "clear"} => flush' = batch'[i]
  BY <1>0, <1>3, OthersTick DEF Read, Goto, InCycle, TypeOK
<1>4. ASSUME NEW j \in Instances, Commit(j)
      PROVE  \A i \in Instances : pc'[i] \in {"commit", "clear"} => flush' = batch'[i]
  BY <1>0, <1>4 DEF Commit, Goto, TypeOK
<1>5. ASSUME NEW j \in Instances, Clear(j) \/ Crash(j)
      PROVE  \A i \in Instances : pc'[i] \in {"commit", "clear"} => flush' = batch'[i]
  BY <1>0, <1>5, OthersTick DEF Clear, Crash, Goto, InCycle, TypeOK
<1> QED
  BY <1>1, <1>2, <1>3, <1>4, <1>5 DEF Next, Flush

\* The invariant holds at the start, with nothing counted.
LEMMA InitIInv == Init => IInv
<1> SUFFICES ASSUME Init PROVE IInv
  OBVIOUS
<1>1. TypeOK
  BY DEF Init, Empty, Hash, TypeOK
<1>2. \A i \in Instances, s \in Slugs :
         InRow(s) = 0 /\ buf[s] = 0 /\ hits[s] = 0 /\ Coming(i, s) = 0 /\ added[i][s] = 0
  BY DEF Init, Empty, InRow, Coming
<1>3. CountsOK /\ AddedOK
  BY <1>2 DEF CountsOK, AddedOK
<1>4. AloneOK /\ BatchOK
  BY DEF Init, AloneOK, InCycle, BatchOK
<1> QED
  BY <1>1, <1>3, <1>4 DEF IInv

\* Every step of a flusher, of a request or of a fault keeps it.
LEMMA NextIInv == IInv /\ [Next]_vars => IInv'
<1> SUFFICES ASSUME IInv, [Next]_vars PROVE IInv'
  OBVIOUS
<1>1. CASE Next
  BY <1>1, TypeStep, AddedStep, AloneStep, CountsStep, BatchStep DEF IInv
<1>2. CASE UNCHANGED vars
  BY <1>2 DEF vars, IInv, TypeOK, AddedOK, AloneOK, InCycle, CountsOK, InRow, Coming, BatchOK
<1> QED
  BY <1>1, <1>2

\* The hashes, the cycles and the histories of any number of flushers.
THEOREM Invariance == Spec => []IInv
  BY InitIInv, NextIInv, PTL DEF Spec

\* A process adds a view to a row at most once, whichever call of its cycles
\* fails and whatever the flushers of other processes do (flushViews).
THEOREM EachAddsOnce == Spec => []AddsOnce
<1>1. IInv => AddsOnce
  <2> SUFFICES ASSUME IInv, NEW i \in Instances, NEW s \in Slugs PROVE added[i][s] <= hits[s]
    BY DEF AddsOnce
  <2>1. added[i][s] \in Nat /\ buf[s] \in Nat /\ hits[s] \in Nat /\ Coming(i, s) \in Nat
    BY Numbers DEF IInv
  <2>2. added[i][s] + buf[s] + Coming(i, s) <= hits[s]
    BY DEF IInv, AddedOK
  <2> QED
    BY <2>1, <2>2
<1> QED
  BY <1>1, Invariance, PTL

\* As long as no two cycles overlap, no view is added to a row twice,
\* whichever call of a cycle fails.
THEOREM CountedOnce == Spec => []NeverOverCounted
<1>1. IInv => NeverOverCounted
  <2> SUFFICES ASSUME IInv, ~overlapped, NEW s \in Slugs, column[s] # NoRow
               PROVE  column[s] <= hits[s]
    BY DEF NeverOverCounted
  <2>1. PICK i \in Instances : TRUE
    BY FlushAssumption
  <2>2. InRow(s) \in Nat /\ buf[s] \in Nat /\ hits[s] \in Nat /\ Coming(i, s) \in Nat
    BY Numbers DEF IInv
  <2>3. InRow(s) + buf[s] + Coming(i, s) <= hits[s] /\ InRow(s) = column[s]
    BY DEF IInv, CountsOK, InRow
  <2> QED
    BY <2>2, <2>3
<1> QED
  BY <1>1, Invariance, PTL

\* A run without faults has all its rows.
RowsKept == ~disturbed => column \in Hash

\* Until two flushers meet and until something fails, a step moves counts and
\* loses none.
LEMMA NothingDroppedStep ==
    ASSUME IInv, RowsKept, NothingDropped, Next
    PROVE  RowsKept' /\ NothingDropped'
<1> DEFINE Busy == \E i \in Instances : pc[i] \in {"read", "commit"}
           Moving(s) == IF Busy THEN flush[s] ELSE 0
           Kept == \A s \in Slugs : hits[s] = column[s] + buf[s] + Moving(s)
<1> SUFFICES ASSUME ~disturbed'
             PROVE  column' \in Hash /\ (~overlapped' => Kept')
  BY DEF RowsKept, NothingDropped
<1>1. ~disturbed
  BY DEF Next, Flush, IncrementViews, DeleteRow, InsertRow, Rename, Read, Commit, Clear, Crash, Fault
<1>2. /\ column \in Hash /\ hits \in Hash /\ buf \in Hash /\ flush \in Hash
      /\ pc \in [Instances -> Locations] /\ batch \in [Instances -> Hash]
  BY <1>1 DEF RowsKept, IInv, TypeOK, Locations
<1>3. ~overlapped' => ~overlapped /\ Kept
  BY <1>1, MetForGood DEF NothingDropped, IInv
<1>4. ASSUME NEW t \in Slugs, IncrementViews(t)
      PROVE  column' \in Hash /\ (~overlapped' => Kept')
  <2>1. ASSUME NEW s \in Slugs
        PROVE  \/ hits'[s] = hits[s] + 1 /\ buf'[s] = buf[s] + 1
               \/ hits'[s] = hits[s] /\ buf'[s] = buf[s]
    BY <1>2, <1>4 DEF IncrementViews, Hash
  <2>2. column' = column /\ \A s \in Slugs : Moving(s)' = Moving(s)
    BY <1>4 DEF IncrementViews
  <2>3. \A s \in Slugs : {column[s], buf[s], hits[s], Moving(s)} \subseteq Nat
    BY <1>2 DEF Hash
  <2> HIDE DEF Moving
  <2> QED
    BY <1>2, <1>3, <2>1, <2>2, <2>3
<1>5. ASSUME NEW t \in Slugs, InsertRow(t) PROVE FALSE
  BY <1>2, <1>5, FlushAssumption DEF InsertRow, Hash
<1>6. ASSUME NEW j \in Instances, Rename(j)
      PROVE  column' \in Hash /\ (~overlapped' => Kept')
  <2>1. /\ column' = column /\ hits' = hits /\ flush' = buf /\ pc[j] = "tick" /\ pc'[j] = "read"
        /\ ~overlapped' => \A i \in Instances \ {j} : pc[i] = "tick"
    BY <1>2, <1>6 DEF Rename, Goto, Fault, Meet, InCycle
  <2>2. \A s \in Slugs : buf'[s] = 0
    BY <1>6 DEF Rename, Empty
  <2>3. ~overlapped' => ~Busy /\ Busy'
    BY <2>1
  <2> HIDE DEF Busy
  <2> QED
    BY <1>2, <1>3, <2>1, <2>2, <2>3 DEF Hash
<1>7. ASSUME NEW j \in Instances, Read(j)
      PROVE  column' \in Hash /\ (~overlapped' => Kept')
  <2>1. /\ column' = column /\ hits' = hits /\ buf' = buf /\ flush' = flush /\ pc[j] = "read"
        /\ pc' = [pc EXCEPT ![j] = IF flush = Empty THEN "clear" ELSE "commit"]
    BY <1>7 DEF Read, Goto, Fault
  <2>2. flush = Empty => \A s \in Slugs : flush[s] = 0
    BY DEF Empty
  <2>3. Busy /\ (flush # Empty => Busy')
    BY <1>2, <2>1
  <2> HIDE DEF Busy
  <2>4. \A s \in Slugs : Moving(s)' = Moving(s)
    BY <2>1, <2>2, <2>3
  <2> QED
    BY <1>2, <1>3, <2>1, <2>4
<1>8. ASSUME NEW j \in Instances, Commit(j)
      PROVE  column' \in Hash /\ (~overlapped' => Kept')
  <2>1. /\ hits' = hits /\ buf' = buf /\ flush' = flush /\ pc[j] = "commit"
        /\ pc' = [pc EXCEPT ![j] = "clear"] /\ Add(j)
    BY <1>1, <1>8 DEF Commit, Goto, Fault
  <2>2. \A s \in Slugs : column'[s] = column[s] + batch[j][s]
    BY <1>2, <2>1, FlushAssumption DEF Add, Hash
  <2>3. column' \in Hash
    BY <1>2, <2>1, FlushAssumption DEF Add, Hash
  <2>4. ~overlapped' => flush = batch[j] /\ \A i \in Instances \ {j} : pc[i] = "tick"
    BY <1>3, <2>1, OthersTick DEF IInv, BatchOK, InCycle
  <2>5. Busy /\ (~overlapped' => ~Busy')
    BY <1>2, <2>1, <2>4
  <2> HIDE DEF Busy
  <2> QED
    BY <1>2, <1>3, <2>1, <2>2, <2>3, <2>4, <2>5 DEF Hash
<1>9. ASSUME NEW j \in Instances, Clear(j)
      PROVE  column' \in Hash /\ (~overlapped' => Kept')
  <2>1. /\ column' = column /\ hits' = hits /\ buf' = buf
        /\ pc[j] = "clear" /\ pc' = [pc EXCEPT ![j] = "tick"]
    BY <1>9 DEF Clear, Goto, Fault
  <2>2. ~overlapped' => \A i \in Instances \ {j} : pc[i] = "tick"
    BY <1>3, <2>1, OthersTick DEF IInv, InCycle
  <2>3. ~overlapped' => ~Busy /\ ~Busy'
    BY <1>2, <2>1, <2>2
  <2> HIDE DEF Busy
  <2> QED
    BY <1>2, <1>3, <2>1, <2>3
<1> QED
  BY <1>1, <1>4, <1>5, <1>6, <1>7, <1>8, <1>9 DEF Next, Flush, DeleteRow, Crash, Fault

\* Until two flushers meet, a call fails or a row is deleted, no view is
\* dropped: the counts in the row, in the buffer and in the cycle add up to
\* the requests'.
THEOREM NoneDropped == Spec => []NothingDropped
<1> DEFINE Kept == IInv /\ RowsKept /\ NothingDropped
<1>1. Init => Kept
  <2>1. Init => IInv
    BY InitIInv
  <2>2. Init => RowsKept /\ NothingDropped
    BY DEF Init, Empty, Hash, RowsKept, NothingDropped
  <2> QED
    BY <2>1, <2>2
<1>2. Kept /\ [Next]_vars => Kept'
  <2>1. IInv /\ [Next]_vars => IInv'
    BY NextIInv
  <2>2. CASE Next
    BY <2>1, <2>2, NothingDroppedStep
  <2>3. CASE UNCHANGED vars
    BY <2>1, <2>3 DEF vars, RowsKept, NothingDropped
  <2> QED
    BY <2>2, <2>3
<1>3. Kept => NothingDropped
  OBVIOUS
<1> QED
  BY <1>1, <1>2, <1>3, PTL DEF Spec

\* Until two flushers meet, a flusher deletes only counts it has read, and
\* leaves the buffer that filled up meanwhile (the comment on RENAME in
\* flushViews).
THEOREM ClearsItsBatch == Spec => ClearsOnlyItsBatch
<1>1. ASSUME IInv, [Next]_vars, ~overlapped, NEW i \in Instances, pc[i] = "clear", pc'[i] = "tick"
      PROVE  buf' = buf /\ (flush' = flush \/ flush = batch[i])
  <2>1. /\ flush = batch[i] /\ pc \in [Instances -> Locations]
        /\ \A j \in Instances \ {i} : pc[j] = "tick"
    BY <1>1, OthersTick DEF IInv, BatchOK, TypeOK, Locations, InCycle
  <2>2. CASE \E s \in Slugs : IncrementViews(s) \/ DeleteRow(s) \/ InsertRow(s)
    BY <1>1, <2>2 DEF IncrementViews, DeleteRow, InsertRow
  <2>3. ASSUME NEW j \in Instances, Rename(j) PROVE FALSE
    BY <1>1, <2>1, <2>3 DEF Rename, Goto
  <2>4. ASSUME NEW j \in Instances, Read(j) \/ Commit(j) PROVE FALSE
    BY <1>1, <2>1, <2>4 DEF Read, Commit, Goto
  <2>5. ASSUME NEW j \in Instances, Clear(j) \/ Crash(j) PROVE buf' = buf
    BY <2>5 DEF Clear, Crash
  <2>6. CASE UNCHANGED vars
    BY <2>6 DEF vars
  <2> QED
    BY <1>1, <2>1, <2>2, <2>3, <2>4, <2>5, <2>6 DEF Next, Flush
<1>2. IInv /\ [Next]_vars =>
          [\A i \in Instances :
              ~overlapped /\ pc[i] = "clear" /\ pc'[i] = "tick" =>
                  buf' = buf /\ (flush' = flush \/ flush = batch[i])]_vars
  BY <1>1
<1> QED
  BY <1>2, Invariance, PTL DEF Spec, ClearsOnlyItsBatch
=============================================================================
