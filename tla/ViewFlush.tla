------------------------------- MODULE ViewFlush -------------------------------
(***************************************************************************)
(* The buffered view counts: IncrementViews adds to the Redis hash         *)
(* paste:views, and the flusher goroutine of every server process moves    *)
(* them to the views column of PostgreSQL every ten seconds.  The download *)
(* counts (file:downloads, IncrementDownloads, flushDownloads) are the     *)
(* same code over other keys and another table; the goroutine flushes them *)
(* after the views, and this module stands for each of the two.            *)
(*                                                                         *)
(* A Redis hash with no field is an absent key, so a hash is a function    *)
(* from slugs to counts and the absent key is Empty.                       *)
(***************************************************************************)
EXTENDS Naturals

CONSTANTS
    Slugs,
    Instances,   \* server processes, each with one flusher goroutine
    NoRow,       \* the slug has no row
    Faults,      \* subset of {"redis", "db", "crash", "delete"}
    MaxHits      \* bound on the increments of a slug that are explored

ASSUME FlushAssumption ==
    /\ Instances # {}
    /\ NoRow \notin Nat
    /\ Faults \subseteq {"redis", "db", "crash", "delete"}
    /\ MaxHits \in Nat

VARIABLES
    hits,        \* history: the HINCRBYs Redis has executed for a slug
    buf,         \* Redis paste:views
    flush,       \* Redis paste:views:flush
    column,      \* the views column of the slug's row
    pc, batch,   \* a flusher: its next call, the counts it read
    disturbed,   \* history: a call failed, a process died or a row was deleted
    overlapped,  \* history: a cycle began while another process was in one
    added        \* history: the counts a process's transactions have added

histories == <<disturbed, overlapped, added>>
vars == <<hits, buf, flush, column, pc, batch, histories>>

Empty == [s \in Slugs |-> 0]

Init ==
    /\ hits = Empty
    /\ buf = Empty
    /\ flush = Empty
    /\ column = Empty
    /\ pc = [i \in Instances |-> "tick"]
    /\ batch = [i \in Instances |-> Empty]
    /\ disturbed = FALSE
    /\ overlapped = FALSE
    /\ added = [i \in Instances |-> Empty]

Fault(f) == f \in Faults /\ disturbed' = TRUE

-----------------------------------------------------------------------------
(* The requests and the rows *)

IncrementViews(s) ==
    /\ hits[s] < MaxHits
    /\ hits' = [hits EXCEPT ![s] = @ + 1]
    /\ buf' = [buf EXCEPT ![s] = @ + 1]
    /\ UNCHANGED <<flush, column, pc, batch, histories>>

\* A paste is deleted; its slug may be taken again by a paste with no views.
DeleteRow(s) ==
    /\ Fault("delete")
    /\ column[s] # NoRow
    /\ column' = [column EXCEPT ![s] = NoRow]
    /\ UNCHANGED <<hits, buf, flush, pc, batch, overlapped, added>>

InsertRow(s) ==
    /\ column[s] = NoRow
    /\ column' = [column EXCEPT ![s] = 0]
    /\ UNCHANGED <<hits, buf, flush, pc, batch, histories>>

-----------------------------------------------------------------------------
(* flushViews *)

Goto(i, l) == pc' = [pc EXCEPT ![i] = l]

\* A process is in a cycle: past the RENAME, at one of the later calls.
InCycle(i) == pc[i] # "tick"

\* Nothing keeps the flushers of two processes apart; that they met is noted.
Meet(i) == overlapped' = (overlapped \/ \E j \in Instances \ {i} : InCycle(j))

\* Mutant: a flush key that a failed cycle left behind is flushed first.
RenameUnlessLeft(i) ==
    /\ pc[i] = "tick"
    /\ buf # Empty
    /\ IF flush = Empty THEN flush' = buf /\ buf' = Empty ELSE UNCHANGED <<flush, buf>>
    /\ Goto(i, "read")
    /\ Meet(i)
    /\ UNCHANGED <<hits, column, batch, disturbed, added>>

\* RENAME overwrites a flush key a failed cycle left.  It fails when there is
\* no buffer; when its answer is lost the cycle ends, the rename done.
Rename(i) ==
    /\ pc[i] = "tick"
    /\ buf # Empty
    /\ flush' = buf
    /\ buf' = Empty
    /\ \/ Goto(i, "read") /\ UNCHANGED disturbed
       \/ Fault("redis") /\ UNCHANGED pc
    /\ Meet(i)
    /\ UNCHANGED <<hits, column, batch, added>>

\* HGETALL; an empty hash skips the transaction.
Read(i) ==
    /\ pc[i] = "read"
    /\ \/ /\ batch' = [batch EXCEPT ![i] = flush]
          /\ Goto(i, IF flush = Empty THEN "clear" ELSE "commit")
          /\ UNCHANGED disturbed
       \/ Fault("redis") /\ Goto(i, "tick") /\ UNCHANGED batch
    /\ UNCHANGED <<hits, buf, flush, column, overlapped, added>>

\* The transaction of process i: a slug with no row matches no UPDATE.
Add(i) ==
    /\ column' = [s \in Slugs |-> IF column[s] = NoRow THEN NoRow ELSE column[s] + batch[i][s]]
    /\ added' = [added EXCEPT ![i] = [s \in Slugs |-> @[s] + batch[i][s]]]

\* Mutant: the loop over the hash stops at its first slug.
CommitFirst(i) ==
    /\ pc[i] = "commit"
    /\ \E s \in Slugs : /\ batch[i][s] # 0
                        /\ column' = [column EXCEPT ![s] = IF @ = NoRow THEN @ ELSE @ + batch[i][s]]
    /\ Goto(i, "clear")
    /\ UNCHANGED <<hits, buf, flush, batch, histories>>

\* One transaction of UPDATE ... SET views = views + n WHERE slug.  A failed
\* statement aborts it; a commit whose answer is lost may have happened.
Commit(i) ==
    /\ pc[i] = "commit"
    /\ \/ Add(i) /\ Goto(i, "clear") /\ UNCHANGED disturbed
       \/ /\ Fault("db")
          /\ Add(i) \/ UNCHANGED <<column, added>>
          /\ Goto(i, "tick")
    /\ UNCHANGED <<hits, buf, flush, batch, overlapped>>

\* Mutant: DEL of the buffer instead of the flush key.
ClearBuffer(i) ==
    /\ pc[i] = "clear"
    /\ buf' = Empty
    /\ Goto(i, "tick")
    /\ UNCHANGED <<hits, flush, column, batch, histories>>

Clear(i) ==
    /\ pc[i] = "clear"
    /\ \/ flush' = Empty /\ UNCHANGED disturbed
       \/ Fault("redis") /\ UNCHANGED flush
    /\ Goto(i, "tick")
    /\ UNCHANGED <<hits, buf, column, batch, overlapped, added>>

\* The process dies, or its context is cancelled, and a new one ticks again.
Crash(i) ==
    /\ Fault("crash")
    /\ InCycle(i)
    /\ Goto(i, "tick")
    /\ UNCHANGED <<hits, buf, flush, column, batch, overlapped, added>>

Flush(i) == Rename(i) \/ Read(i) \/ Commit(i) \/ Clear(i)

Next == \/ \E s \in Slugs : IncrementViews(s) \/ DeleteRow(s) \/ InsertRow(s)
        \/ \E i \in Instances : Flush(i) \/ Crash(i)

Spec == Init /\ [][Next]_vars

\* The ticker never stops, so a flusher with something to do goes on.
FairSpec == Spec /\ \A i \in Instances : WF_vars(Flush(i))

-----------------------------------------------------------------------------
(* Properties *)

Hash == [Slugs -> Nat]

\* The hashes hold counts, the flushers stand at one of their calls.
TypeOK ==
    /\ hits \in Hash
    /\ buf \in Hash
    /\ flush \in Hash
    /\ column \in [Slugs -> Nat \cup {NoRow}]
    /\ pc \in [Instances -> {"tick", "read", "commit", "clear"}]
    /\ batch \in [Instances -> Hash]
    /\ disturbed \in BOOLEAN
    /\ overlapped \in BOOLEAN
    /\ added \in [Instances -> Hash]

\* However many flushers there are and whichever call of a cycle fails or
\* loses its answer, a process adds a view at most once: what a cycle leaves
\* in the flush key its process never reads again (flushViews, RENAME over
\* the old key).
AddsOnce == \A i \in Instances, s \in Slugs : added[i][s] <= hits[s]

\* Until two flushers meet, no view is counted twice at all.  Once they have,
\* both may have read one flush key, and both add it.
NeverOverCounted ==
    ~overlapped => \A s \in Slugs : column[s] # NoRow => column[s] <= hits[s]

\* Until two flushers meet, the DEL at the end of a cycle removes only counts
\* that the same cycle has read, and leaves the buffer that filled up meanwhile.
ClearsOnlyItsBatch ==
    [][\A i \in Instances :
          ~overlapped /\ pc[i] = "clear" /\ pc'[i] = "tick" =>
              buf' = buf /\ (flush' = flush \/ flush = batch[i])]_vars

\* Until two flushers meet, a call fails or a row is deleted, every count is
\* in the row, in the buffer or in the cycle under way.
NothingDropped ==
    ~disturbed /\ ~overlapped =>
        \A s \in Slugs :
            hits[s] = column[s] + buf[s]
                      + IF \E i \in Instances : pc[i] \in {"read", "commit"} THEN flush[s] ELSE 0

\* ... and reaches the row in the end, views that arrive during a flush included.
ViewsReachTheRow ==
    \A s \in Slugs, n \in 1..MaxHits :
        (hits[s] >= n) ~> (disturbed \/ overlapped \/ column[s] >= n)

-----------------------------------------------------------------------------
(* What the comment says, and two flushers do not keep *)

\* "Atomic rename to ensure we don't drop increments that happen during
\* flushing" (flushViews): while no call fails and no row is deleted, every
\* count is in the row, in the buffer, in the flush key or in a batch that a
\* process is about to add.
RenameDropsNothing ==
    ~disturbed =>
        \A s \in Slugs :
            \/ hits[s] <= column[s] + buf[s] + flush[s]
            \/ \E i \in Instances : pc[i] = "commit" /\ hits[s] <= column[s] + buf[s] + flush[s] + batch[i][s]

-----------------------------------------------------------------------------
(* The inductive invariant, for any number of flushers *)

InRow(s) == IF column[s] = NoRow THEN 0 ELSE column[s]

Coming(i, s) == IF pc[i] = "read" THEN flush[s]
                ELSE IF pc[i] = "commit" THEN batch[i][s] ELSE 0

\* What a process has added and what it may still add were counted once.
AddedOK == \A i \in Instances, s \in Slugs : added[i][s] + buf[s] + Coming(i, s) <= hits[s]

\* Two flushers in a cycle have met.
AloneOK == overlapped \/ \A i, j \in Instances : InCycle(i) /\ InCycle(j) => i = j

\* Until then, what is in the row and what may still be added to it were all
\* counted once; a committed batch is not added again.
CountsOK == overlapped \/ \A i \in Instances, s \in Slugs : InRow(s) + buf[s] + Coming(i, s) <= hits[s]

\* Until then, a flusher past HGETALL has read what the flush key still holds.
BatchOK == overlapped \/ \A i \in Instances : pc[i] \in {"commit", "clear"} => flush = batch[i]

IInv == TypeOK /\ AddedOK /\ AloneOK /\ CountsOK /\ BatchOK
=============================================================================
