---------------------------- MODULE PasteContract ----------------------------
(***************************************************************************)
(* What the paste service promises about the life of a paste, without the  *)
(* replica, the caches and the order of calls: a paste is published on a   *)
(* free slug, at most once; it is withdrawn only for a reason; and a burn  *)
(* paste is shown only once its slug has been given up for deletion.  A    *)
(* fork is not a showing: it copies any paste, burn pastes included, and   *)
(* gives nothing up.                                                       *)
(***************************************************************************)
CONSTANTS Slugs, Pastes, NoPaste, SlugOf, Burns, Requests

VARIABLES
    live,     \* pastes that are stored
    gone,     \* pastes that were stored once
    lapsed,   \* pastes past their expiry time
    spent,    \* slugs given up for deletion, by an admin or by a burn
    seen,     \* the paste a reader was shown
    copied    \* the paste whose content a fork was given

vars == <<live, gone, lapsed, spent, seen, copied>>

Init ==
    /\ live \in SUBSET Pastes
    /\ \A p, q \in live : SlugOf[p] = SlugOf[q] => p = q
    /\ gone = {}
    /\ lapsed = {}
    /\ spent = {}
    /\ seen = [r \in Requests |-> NoPaste]
    /\ copied = seen

Publish(p) ==
    /\ p \notin live \cup gone
    /\ \A q \in live : SlugOf[q] # SlugOf[p]
    /\ live' = live \cup {p}
    /\ UNCHANGED <<gone, lapsed, spent, seen, copied>>

Lapse(p) ==
    /\ p \in live \cup gone
    /\ lapsed' = lapsed \cup {p}
    /\ UNCHANGED <<live, gone, spent, seen, copied>>

GiveUp(s) ==
    /\ spent' = spent \cup {s}
    /\ UNCHANGED <<live, gone, lapsed, seen, copied>>

Withdraw(p) ==
    /\ p \in live
    /\ p \in lapsed \/ SlugOf[p] \in spent
    /\ live' = live \ {p}
    /\ gone' = gone \cup {p}
    /\ UNCHANGED <<lapsed, spent, seen, copied>>

\* A reader may be shown a paste that is withdrawn meanwhile.
Show(r, p) ==
    /\ seen[r] = NoPaste
    /\ p \in live \cup gone
    /\ p \in Burns => SlugOf[p] \in spent
    /\ seen' = [seen EXCEPT ![r] = p]
    /\ UNCHANGED <<live, gone, lapsed, spent, copied>>

\* The content of any paste that is or was stored, with no further condition.
Copy(r, p) ==
    /\ copied[r] = NoPaste
    /\ p \in live \cup gone
    /\ copied' = [copied EXCEPT ![r] = p]
    /\ UNCHANGED <<live, gone, lapsed, spent, seen>>

Next == \/ \E p \in Pastes : Publish(p) \/ Lapse(p) \/ Withdraw(p)
        \/ \E s \in Slugs : GiveUp(s)
        \/ \E r \in Requests, p \in Pastes : Show(r, p) \/ Copy(r, p)

Spec == Init /\ [][Next]_vars
=============================================================================
