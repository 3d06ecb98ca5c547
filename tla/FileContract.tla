----------------------------- MODULE FileContract -----------------------------
(***************************************************************************)
(* What the file service promises about a file, without providers, calls,  *)
(* the cleanup's lock and its batches.  A key is claimed once, for an      *)
(* upload through the server or for a direct one.  A file is published     *)
(* under it with its object in the store, and an uploaded key has one file *)
(* ever; a file is withdrawn when it has lapsed or an admin asked for it;  *)
(* the object of an uploaded file is not erased before that.  Of a direct  *)
(* upload the client puts the object when he likes: nothing is promised.   *)
(***************************************************************************)
CONSTANTS Keys, Ids

VARIABLES
    uploaded, granted,   \* the keys claimed, by way of upload
    objects,             \* the keys whose object is stored
    live, past,          \* files <<key, id>> in the table, and those that were
    lapsed,              \* the files past their expiry time
    doomed               \* the keys an admin is deleting

vars == <<uploaded, granted, objects, live, past, lapsed, doomed>>

Init ==
    /\ uploaded = {} /\ granted = {} /\ objects = {}
    /\ live = {} /\ past = {} /\ lapsed = {} /\ doomed = {}

Claim(k) ==
    /\ k \notin uploaded \cup granted
    /\ \/ uploaded' = uploaded \cup {k} /\ UNCHANGED granted
       \/ granted' = granted \cup {k} /\ UNCHANGED uploaded
    /\ UNCHANGED <<objects, live, past, lapsed, doomed>>

Store(k) ==
    /\ k \in uploaded \cup granted
    /\ k \in uploaded => \A i \in live \cup past : i[1] # k
    /\ objects' = objects \cup {k}
    /\ UNCHANGED <<uploaded, granted, live, past, lapsed, doomed>>

Publish(i) ==
    /\ i \notin live \cup past
    /\ \A j \in live : j[1] # i[1]
    /\ \/ i[1] \in uploaded /\ i[1] \in objects /\ \A j \in past : j[1] # i[1]
       \/ i[1] \in granted
    /\ live' = live \cup {i}
    /\ UNCHANGED <<uploaded, granted, objects, past, lapsed, doomed>>

Lapse(i) ==
    /\ i \in live
    /\ lapsed' = lapsed \cup {i}
    /\ UNCHANGED <<uploaded, granted, objects, live, past, doomed>>

Doom(k) ==
    /\ \E i \in live \cup past : i[1] = k
    /\ doomed' = doomed \cup {k}
    /\ UNCHANGED <<uploaded, granted, objects, live, past, lapsed>>

\* An admin's deletion ends, or dies, without a file to withdraw.
Relent ==
    /\ doomed' \in SUBSET doomed
    /\ UNCHANGED <<uploaded, granted, objects, live, past, lapsed>>

Withdraw(i) ==
    /\ i \in live
    /\ i \in lapsed \/ i[1] \in doomed
    /\ live' = live \ {i}
    /\ past' = past \cup {i}
    /\ doomed' \in SUBSET doomed
    /\ UNCHANGED <<uploaded, granted, objects, lapsed>>

Erase(k) ==
    /\ k \in objects
    /\ k \in uploaded => \A i \in live : i[1] = k => i \in lapsed
    /\ objects' = objects \ {k}
    /\ UNCHANGED <<uploaded, granted, live, past, lapsed, doomed>>

Next == \/ Relent
        \/ \E k \in Keys : Claim(k) \/ Store(k) \/ Doom(k) \/ Erase(k)
        \/ \E i \in Keys \X Ids : Publish(i) \/ Lapse(i) \/ Withdraw(i)

Spec == Init /\ [][Next]_vars
=============================================================================
