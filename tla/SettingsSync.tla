------------------------------ MODULE SettingsSync ------------------------------
(***************************************************************************)
(* The runtime settings: one row of app_settings, a copy of it in the      *)
(* provider of every server process, and the "settings:update" pings of    *)
(* Redis pub/sub that tell the processes to load the row again.            *)
(*                                                                         *)
(* An update is one request of an admin (settings.Manager.Update) or one   *)
(* restored backup (RestoreSettings); the settings it brings are           *)
(* identified with it, and Default are those of a fresh installation.      *)
(***************************************************************************)
EXTENDS Naturals

CONSTANTS
    Instances,   \* server processes
    Updates,     \* the updates that may be made, each with its own settings
    Invalid,     \* those whose settings do not pass Validate
    Default, NoSettings,
    HasRedis,    \* Redis is configured
    Faults       \* subset of {"redis", "db", "crash", "restore"}

ASSUME SettingsAssumption ==
    /\ Invalid \subseteq Updates
    /\ Default \notin Updates
    /\ NoSettings \notin Updates \cup {Default}
    /\ HasRedis \in BOOLEAN
    /\ Faults \subseteq {"redis", "db", "crash", "restore"}

Settings == Updates \cup {Default}

VARIABLES
    saved,     \* the row of app_settings
    accepted,  \* history: the settings that were the row, or Default
    up,        \* processes that serve
    cur,       \* a process: the settings in its provider
    sub,       \* ... its subscription is established
    pings,     \* ... the messages its subscriber has not handled yet
    loaded,    \* ... what the reload under way has loaded
    pc, home,  \* an update: its next call, the process that runs it
    missed     \* history: processes a change went past without a ping, or
               \* whose reload failed, since their last successful load

vars == <<saved, accepted, up, cur, sub, pings, loaded, pc, home, missed>>

Init ==
    /\ saved = Default
    /\ accepted = {Default}
    /\ up = Instances
    /\ cur = [i \in Instances |-> Default]
    /\ sub = [i \in Instances |-> FALSE]
    /\ pings = [i \in Instances |-> 0]
    /\ loaded = [i \in Instances |-> NoSettings]
    /\ pc = [u \in Updates |-> "idle"]
    /\ home \in [Updates -> Instances]
    /\ missed = {}

-----------------------------------------------------------------------------
(* Manager.Update, and the publishing goroutine it leaves behind *)

Goto(u, l) == pc' = [pc EXCEPT ![u] = l]

Store(s) == /\ saved' = s
            /\ accepted' = accepted \cup {s}

\* The handler decodes the settings; invalid ones are refused before Save.
Update(u) ==
    /\ pc[u] = "idle"
    /\ home[u] \in up
    /\ Goto(u, IF u \in Invalid THEN "done" ELSE "save")
    /\ UNCHANGED <<saved, accepted, up, cur, sub, pings, loaded, home, missed>>

\* On an error the provider is left alone; the row may have been written.
Save(u) ==
    /\ pc[u] = "save"
    /\ \/ Store(u) /\ Goto(u, "set") /\ UNCHANGED missed
       \/ /\ "db" \in Faults
          /\ Goto(u, "done")
          /\ \/ Store(u) /\ missed' = up
             \/ UNCHANGED <<saved, accepted, missed>>
    /\ UNCHANGED <<up, cur, sub, pings, loaded, home>>

\* Mutant: the update hook is not called.
SetQuietly(u) ==
    /\ pc[u] = "set"
    /\ cur' = [cur EXCEPT ![home[u]] = u]
    /\ Goto(u, "done")
    /\ UNCHANGED <<saved, accepted, up, sub, pings, loaded, home, missed>>

Set(u) ==
    /\ pc[u] = "set"
    /\ cur' = [cur EXCEPT ![home[u]] = u]
    /\ Goto(u, IF HasRedis THEN "publish" ELSE "done")
    /\ UNCHANGED <<saved, accepted, up, sub, pings, loaded, home, missed>>

Ping(told) == /\ pings' = [i \in Instances |-> IF i \in told THEN pings[i] + 1 ELSE pings[i]]
              /\ missed' = missed \cup (up \ told)

Subscribed == {i \in up : sub[i]}

\* Mutant: a process does not listen to its own pings.
PublishToOthers(u) ==
    /\ pc[u] = "publish"
    /\ pings' = [i \in Instances |-> IF i \in Subscribed \ {home[u]} THEN pings[i] + 1 ELSE pings[i]]
    /\ missed' = missed \cup (up \ (Subscribed \cup {home[u]}))
    /\ Goto(u, "done")
    /\ UNCHANGED <<saved, accepted, up, cur, sub, loaded, home>>

\* Every subscribed process gets the ping, the publisher's own too; a failed
\* PUBLISH or a broken connection loses it.
Publish(u) ==
    /\ pc[u] = "publish"
    /\ \/ Ping(Subscribed)
       \/ "redis" \in Faults /\ \E lost \in SUBSET Subscribed : Ping(Subscribed \ lost)
    /\ Goto(u, "done")
    /\ UNCHANGED <<saved, accepted, up, cur, sub, loaded, home>>

\* A restored backup writes the row, unvalidated, and tells nobody.
RestoreSettings(u) ==
    /\ "restore" \in Faults
    /\ pc[u] = "idle"
    /\ Store(u)
    /\ missed' = up
    /\ Goto(u, "done")
    /\ UNCHANGED <<up, cur, sub, pings, loaded, home>>

-----------------------------------------------------------------------------
(* The subscriber goroutine of a process *)

Subscribe(i) ==
    /\ HasRedis
    /\ i \in up
    /\ ~sub[i]
    /\ sub' = [sub EXCEPT ![i] = TRUE]
    /\ UNCHANGED <<saved, accepted, up, cur, pings, loaded, pc, home, missed>>

\* The connection is lost; the client subscribes again by itself.
Disconnect(i) ==
    /\ "redis" \in Faults
    /\ sub[i]
    /\ sub' = [sub EXCEPT ![i] = FALSE]
    /\ UNCHANGED <<saved, accepted, up, cur, pings, loaded, pc, home, missed>>

\* Mutant: Reload trusts the row it loads.
LoadUnchecked(i) ==
    /\ pings[i] > 0
    /\ loaded[i] = NoSettings
    /\ pings' = [pings EXCEPT ![i] = @ - 1]
    /\ loaded' = [loaded EXCEPT ![i] = saved]
    /\ missed' = missed \ {i}
    /\ UNCHANGED <<saved, accepted, up, cur, sub, pc, home>>

\* Manager.Reload takes a ping and loads the row from the primary.  An error,
\* or settings that do not validate, ends the reload.
Load(i) ==
    /\ pings[i] > 0
    /\ loaded[i] = NoSettings
    /\ pings' = [pings EXCEPT ![i] = @ - 1]
    /\ \/ /\ saved \notin Invalid
          /\ loaded' = [loaded EXCEPT ![i] = saved]
          /\ missed' = missed \ {i}
       \/ /\ saved \in Invalid \/ "db" \in Faults
          /\ missed' = missed \cup {i}
          /\ UNCHANGED loaded
    /\ UNCHANGED <<saved, accepted, up, cur, sub, pc, home>>

Apply(i) ==
    /\ loaded[i] # NoSettings
    /\ cur' = [cur EXCEPT ![i] = loaded[i]]
    /\ loaded' = [loaded EXCEPT ![i] = NoSettings]
    /\ UNCHANGED <<saved, accepted, up, sub, pings, pc, home, missed>>

-----------------------------------------------------------------------------
(* A process dies with its updates, its publishers and its subscriber, and  *)
(* starts again: main loads the row, or falls back to the defaults.         *)

Crash(i) ==
    /\ "crash" \in Faults
    /\ i \in up
    /\ up' = up \ {i}
    /\ sub' = [sub EXCEPT ![i] = FALSE]
    /\ pings' = [pings EXCEPT ![i] = 0]
    /\ loaded' = [loaded EXCEPT ![i] = NoSettings]
    /\ pc' = [u \in Updates |-> IF home[u] = i /\ pc[u] # "idle" THEN "done" ELSE pc[u]]
    /\ missed' = IF \E u \in Updates : home[u] = i /\ pc[u] \in {"set", "publish"}
                 THEN up' ELSE missed \ {i}
    /\ UNCHANGED <<saved, accepted, cur, home>>

Boot(i) ==
    /\ i \notin up
    /\ up' = up \cup {i}
    /\ \/ /\ saved \notin Invalid
          /\ cur' = [cur EXCEPT ![i] = saved]
          /\ UNCHANGED missed
       \/ /\ saved \in Invalid \/ "db" \in Faults
          /\ cur' = [cur EXCEPT ![i] = Default]
          /\ missed' = missed \cup {i}
    /\ UNCHANGED <<saved, accepted, sub, pings, loaded, pc, home>>

Change(u) == Save(u) \/ Set(u) \/ Publish(u)
Listen(i) == Subscribe(i) \/ Load(i) \/ Apply(i)

Next == \/ \E u \in Updates : Update(u) \/ Change(u) \/ RestoreSettings(u)
        \/ \E i \in Instances : Listen(i) \/ Disconnect(i) \/ Crash(i) \/ Boot(i)

Spec == Init /\ [][Next]_vars

\* An update that has begun and the subscriber go on; nobody owes an update,
\* a restart or a fault.
FairSpec == /\ Spec
            /\ \A u \in Updates : WF_vars(Change(u))
            /\ \A i \in Instances : WF_vars(Load(i)) /\ WF_vars(Apply(i)) /\ WF_vars(Subscribe(i))

-----------------------------------------------------------------------------
(* Properties *)

Steps == {"idle", "save", "set", "publish", "done"}

\* Every variable has its type (the row, the providers, the subscriber's locals).
TypeOK ==
    /\ saved \in Settings
    /\ accepted \in SUBSET Settings
    /\ up \in SUBSET Instances
    /\ cur \in [Instances -> Settings]
    /\ sub \in [Instances -> BOOLEAN]
    /\ pings \in [Instances -> Nat]
    /\ loaded \in [Instances -> Settings \cup {NoSettings}]
    /\ pc \in [Updates -> Steps]
    /\ home \in [Updates -> Instances]
    /\ missed \in SUBSET Instances

\* A process only serves settings that were stored and that are valid: failed
\* saves and restored backups with invalid settings never reach a provider.
ServedWasAccepted == \A i \in Instances : cur[i] \in accepted \ Invalid

InFlight == \E u \in Updates : pc[u] \in {"set", "publish"}
Behind(i) == i \in missed \/ pings[i] > 0 \/ InFlight

\* With Redis, a process that serves other settings than the database holds
\* is about to load them or will be told to, unless it missed a ping: the
\* races of updates with each other and with reloads are all repaired, since
\* the ping of an update follows its Save and a reload reads the primary.
StaleIsComing ==
    HasRedis => \A i \in up : cur[i] # saved => loaded[i] = saved \/ Behind(i)

\* ... and in the end every process serves what the database holds, unless it
\* missed a ping.
Converges ==
    \A i \in Instances : <>[](i \in up => cur[i] = saved \/ i \in missed)

\* "validating and applying updates atomically" (package settings): once no
\* update is under way, the process serves the settings that were saved.
AppliedIsSaved ==
    (\A u \in Updates : pc[u] \in {"idle", "done"}) => \A i \in up : cur[i] = saved

-----------------------------------------------------------------------------
(* The inductive invariant *)

\* Only accepted, valid settings are on their way to a provider.
SourcesOK ==
    /\ Default \in accepted
    /\ saved \in accepted
    /\ \A i \in Instances : loaded[i] # NoSettings => loaded[i] \in accepted \ Invalid
    /\ \A u \in Updates : /\ pc[u] \in {"save", "set"} => u \notin Invalid
                          /\ pc[u] \in {"set", "publish"} => u \in accepted

\* A dead process has no reload and no pings; a reload that loaded settings
\* which are no longer the row has another ping behind it.
ReloadsOK ==
    /\ \A i \in Instances \ up : loaded[i] = NoSettings /\ pings[i] = 0
    /\ HasRedis => \A i \in up : loaded[i] \notin {NoSettings, saved} => Behind(i)

IInv == TypeOK /\ SourcesOK /\ ServedWasAccepted /\ StaleIsComing /\ ReloadsOK
=============================================================================
