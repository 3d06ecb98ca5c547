-------------------------- MODULE SettingsSync_proofs --------------------------
(***************************************************************************)
(* Proofs about SettingsSync, for every set of processes and updates.      *)
(* One lemma per part of IInv, one step per action.                        *)
(***************************************************************************)
EXTENDS SettingsSync, TLAPS

\* Next preserves the types.
LEMMA TypeStep ==
    ASSUME TypeOK, [Next]_vars
    PROVE  TypeOK'
<1>1. ASSUME NEW u \in Updates, Update(u) PROVE TypeOK'
  BY <1>1 DEF Update, Goto, TypeOK, Settings, Steps
<1>2. ASSUME NEW u \in Updates, Save(u) PROVE TypeOK'
  BY <1>2 DEF Save, Goto, Store, TypeOK, Settings, Steps
<1>3. ASSUME NEW u \in Updates, Set(u) PROVE TypeOK'
  BY <1>3 DEF Set, Goto, TypeOK, Settings, Steps
<1>4. ASSUME NEW u \in Updates, Publish(u) PROVE TypeOK'
  BY <1>4 DEF Publish, Ping, Subscribed, Goto, TypeOK, Settings, Steps
<1>5. ASSUME NEW u \in Updates, RestoreSettings(u) PROVE TypeOK'
  BY <1>5 DEF RestoreSettings, Goto, Store, TypeOK, Settings, Steps
<1>6. ASSUME NEW i \in Instances, Subscribe(i) PROVE TypeOK'
  BY <1>6 DEF Subscribe, TypeOK, Settings, Steps
<1>7. ASSUME NEW i \in Instances, Disconnect(i) PROVE TypeOK'
  BY <1>7 DEF Disconnect, TypeOK, Settings, Steps
<1>8. ASSUME NEW i \in Instances, Load(i) PROVE TypeOK'
  BY <1>8 DEF Load, TypeOK, Settings, Steps
<1>9. ASSUME NEW i \in Instances, Apply(i) PROVE TypeOK'
  BY <1>9 DEF Apply, TypeOK, Settings, Steps
<1>10. ASSUME NEW i \in Instances, Crash(i) PROVE TypeOK'
  BY <1>10 DEF Crash, TypeOK, Settings, Steps
<1>11. ASSUME NEW i \in Instances, Boot(i) PROVE TypeOK'
  BY <1>11 DEF Boot, TypeOK, Settings, Steps
<1>12. CASE UNCHANGED vars
  BY <1>12 DEF vars, TypeOK, Settings, Steps
<1> QED
  BY <1>1, <1>2, <1>3, <1>4, <1>5, <1>6, <1>7, <1>8, <1>9, <1>10, <1>11, <1>12 DEF Next, Change, Listen

\* Next preserves where settings come from, and what the providers hold.
LEMMA SourcesStep ==
    ASSUME TypeOK, SourcesOK, ServedWasAccepted, [Next]_vars
    PROVE  SourcesOK' /\ ServedWasAccepted'
<1>1. ASSUME NEW u \in Updates, Update(u) PROVE SourcesOK' /\ ServedWasAccepted'
  BY <1>1 DEF Update, Goto, TypeOK, SourcesOK, ServedWasAccepted, Settings
<1>2. ASSUME NEW u \in Updates, Save(u) PROVE SourcesOK' /\ ServedWasAccepted'
  BY <1>2 DEF Save, Goto, Store, TypeOK, SourcesOK, ServedWasAccepted, Settings
<1>3. ASSUME NEW u \in Updates, Set(u) PROVE SourcesOK' /\ ServedWasAccepted'
  BY <1>3 DEF Set, Goto, TypeOK, SourcesOK, ServedWasAccepted, Settings
<1>4. ASSUME NEW u \in Updates, Publish(u) PROVE SourcesOK' /\ ServedWasAccepted'
  BY <1>4 DEF Publish, Ping, Subscribed, Goto, TypeOK, SourcesOK, ServedWasAccepted, Settings
<1>5. ASSUME NEW u \in Updates, RestoreSettings(u) PROVE SourcesOK' /\ ServedWasAccepted'
  BY <1>5 DEF RestoreSettings, Goto, Store, TypeOK, SourcesOK, ServedWasAccepted, Settings
<1>6. ASSUME NEW i \in Instances, Subscribe(i) PROVE SourcesOK' /\ ServedWasAccepted'
  BY <1>6 DEF Subscribe, TypeOK, SourcesOK, ServedWasAccepted, Settings
<1>7. ASSUME NEW i \in Instances, Disconnect(i) PROVE SourcesOK' /\ ServedWasAccepted'
  BY <1>7 DEF Disconnect, TypeOK, SourcesOK, ServedWasAccepted, Settings
<1>8. ASSUME NEW i \in Instances, Load(i) PROVE SourcesOK' /\ ServedWasAccepted'
  BY <1>8 DEF Load, TypeOK, SourcesOK, ServedWasAccepted, Settings
<1>9. ASSUME NEW i \in Instances, Apply(i) PROVE SourcesOK' /\ ServedWasAccepted'
  BY <1>9 DEF Apply, TypeOK, SourcesOK, ServedWasAccepted, Settings
<1>10. ASSUME NEW i \in Instances, Crash(i) PROVE SourcesOK' /\ ServedWasAccepted'
  BY <1>10 DEF Crash, TypeOK, SourcesOK, ServedWasAccepted, Settings
<1>11. ASSUME NEW i \in Instances, Boot(i) PROVE SourcesOK' /\ ServedWasAccepted'
  BY <1>11, SettingsAssumption DEF Boot, TypeOK, SourcesOK, ServedWasAccepted, Settings
<1>12. CASE UNCHANGED vars
  BY <1>12 DEF vars, TypeOK, SourcesOK, ServedWasAccepted, Settings
<1> QED
  BY <1>1, <1>2, <1>3, <1>4, <1>5, <1>6, <1>7, <1>8, <1>9, <1>10, <1>11, <1>12 DEF Next, Change, Listen

\* Next preserves that a stale process, or a stale reload, has a ping behind it.
LEMMA StaleStep ==
    ASSUME TypeOK, SourcesOK, StaleIsComing, ReloadsOK, [Next]_vars
    PROVE  StaleIsComing' /\ ReloadsOK'
<1>1. ASSUME NEW u \in Updates, Update(u) PROVE StaleIsComing' /\ ReloadsOK'
  BY <1>1 DEF Update, Goto, TypeOK, StaleIsComing, ReloadsOK, Behind, InFlight
<1>2. ASSUME NEW u \in Updates, Save(u) PROVE StaleIsComing' /\ ReloadsOK'
  BY <1>2 DEF Save, Goto, Store, TypeOK, StaleIsComing, ReloadsOK, Behind, InFlight
<1>3. ASSUME NEW u \in Updates, Set(u) PROVE StaleIsComing' /\ ReloadsOK'
  BY <1>3 DEF Set, Goto, TypeOK, StaleIsComing, ReloadsOK, Behind, InFlight
<1>4. ASSUME NEW u \in Updates, Publish(u) PROVE StaleIsComing' /\ ReloadsOK'
  BY <1>4 DEF Publish, Ping, Subscribed, Goto, TypeOK, StaleIsComing, ReloadsOK, Behind, InFlight
<1>5. ASSUME NEW u \in Updates, RestoreSettings(u) PROVE StaleIsComing' /\ ReloadsOK'
  BY <1>5 DEF RestoreSettings, Goto, Store, TypeOK, StaleIsComing, ReloadsOK, Behind, InFlight
<1>6. ASSUME NEW i \in Instances, Subscribe(i) PROVE StaleIsComing' /\ ReloadsOK'
  BY <1>6 DEF Subscribe, TypeOK, StaleIsComing, ReloadsOK, Behind, InFlight
<1>7. ASSUME NEW i \in Instances, Disconnect(i) PROVE StaleIsComing' /\ ReloadsOK'
  BY <1>7 DEF Disconnect, TypeOK, StaleIsComing, ReloadsOK, Behind, InFlight
<1>8. ASSUME NEW i \in Instances, Load(i) PROVE StaleIsComing' /\ ReloadsOK'
  BY <1>8 DEF Load, TypeOK, StaleIsComing, ReloadsOK, Behind, InFlight
<1>9. ASSUME NEW i \in Instances, Apply(i) PROVE StaleIsComing' /\ ReloadsOK'
  BY <1>9 DEF Apply, TypeOK, StaleIsComing, ReloadsOK, Behind, InFlight
<1>10. ASSUME NEW i \in Instances, Crash(i) PROVE StaleIsComing' /\ ReloadsOK'
  BY <1>10 DEF Crash, TypeOK, StaleIsComing, ReloadsOK, Behind, InFlight
<1>11. ASSUME NEW i \in Instances, Boot(i) PROVE StaleIsComing' /\ ReloadsOK'
  BY <1>11 DEF Boot, TypeOK, StaleIsComing, ReloadsOK, Behind, InFlight
<1>12. CASE UNCHANGED vars
  BY <1>12 DEF vars, TypeOK, StaleIsComing, ReloadsOK, Behind, InFlight
<1> QED
  BY <1>1, <1>2, <1>3, <1>4, <1>5, <1>6, <1>7, <1>8, <1>9, <1>10, <1>11, <1>12 DEF Next, Change, Listen

\* The inductive invariant of the settings: what a process serves was accepted
\* and is valid, and a difference from the database is about to be repaired.
THEOREM Invariance == Spec => []IInv
<1>1. Init => IInv
  BY SettingsAssumption DEF Init, IInv, TypeOK, SourcesOK, ServedWasAccepted, StaleIsComing,
     ReloadsOK, Behind, InFlight, Settings, Steps
<1>2. IInv /\ [Next]_vars => IInv'
  BY TypeStep, SourcesStep, StaleStep DEF IInv
<1> QED
  BY <1>1, <1>2, PTL DEF Spec

\* No process ever serves settings that were not stored, or that are invalid
\* (Manager.Update persists before it applies; Reload validates what it loads).
THEOREM ServesAccepted == Spec => []ServedWasAccepted
<1>1. IInv => ServedWasAccepted
  BY DEF IInv
<1> QED
  BY <1>1, Invariance, PTL

\* With Redis, whatever the updates and reloads race with, a process that
\* serves other settings than the database holds will be told, or missed a
\* ping (the hook of main that publishes after every Update).
THEOREM StaleProcessesAreTold == Spec => []StaleIsComing
<1>1. IInv => StaleIsComing
  BY DEF IInv
<1> QED
  BY <1>1, Invariance, PTL
=============================================================================
