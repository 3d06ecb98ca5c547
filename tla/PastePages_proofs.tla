--------------------------- MODULE PastePages_proofs ---------------------------
(***************************************************************************)
(* Proofs about PastePages, for every set of slugs, keys and calls and     *)
(* every number of events.  One lemma per part of IInv, one step per       *)
(* action; contents and their encryption are known by ContentFacts only.   *)
(***************************************************************************)
EXTENDS PastePages, TLAPS, SequenceTheorems

\* Encrypting and decrypting with one key gives the content back.
LEMMA ContentFacts ==
    /\ Blank \in Contents /\ Plain(Mine) \in Contents /\ Plain(Theirs) \in Contents
    /\ Plain(Mine) # Blank /\ Plain(Theirs) # Blank
    /\ \A c \in Contents, k \in Keys :
           /\ EncryptText(c, k) \in Contents /\ EncryptText(c, k) # Blank
           /\ Opens(EncryptText(c, k), k)
           /\ DecryptText(EncryptText(c, k)) = c
    /\ \A c \in Contents, k \in Keys : Opens(c, k) => DecryptText(c) \in Contents
<1>1. \A t \in {Theirs, Mine, Empty} : Plain(t) \in Contents
  BY DEF Plain, Contents
<1>2. Plain(Mine) # Blank /\ Plain(Theirs) # Blank
  BY PagesAssumption DEF Plain, Blank
<1>3. ASSUME NEW c \in Contents, NEW k \in Keys
      PROVE  /\ EncryptText(c, k) \in Contents /\ EncryptText(c, k) # Blank
             /\ Opens(EncryptText(c, k), k)
             /\ DecryptText(EncryptText(c, k)) = c
  <2> DEFINE l == c.layers
             e == Append(l, k)
  <2>1. l \in Seq(Keys) /\ c = [text |-> c.text, layers |-> l]
    BY DEF Contents
  <2>2. /\ e \in Seq(Keys) /\ Len(e) = Len(l) + 1 /\ e[Len(e)] = k
        /\ \A n \in 1..Len(l) : e[n] = l[n]
    BY <2>1
  <2>0. ASSUME NEW x PROVE [c EXCEPT !.layers = x] = [text |-> c.text, layers |-> x]
    BY DEF Contents
  <2>3. EncryptText(c, k) = [text |-> c.text, layers |-> e]
    BY <2>0 DEF EncryptText
  <2>4. e # <<>>
    BY <2>1, <2>2
  <2>5. SubSeq(e, 1, Len(e) - 1) = l
    BY <2>1, <2>2
  <2>6. EncryptText(c, k) \in Contents /\ Opens(EncryptText(c, k), k)
    BY <2>1, <2>2, <2>3, <2>4 DEF Contents, Opens
  <2>7. DecryptText(EncryptText(c, k)) = c
    BY <2>1, <2>3, <2>5 DEF DecryptText
  <2>8. EncryptText(c, k) # Blank
    BY <2>3, <2>4 DEF Blank, Plain
  <2> QED
    BY <2>6, <2>7, <2>8
<1>4. ASSUME NEW c \in Contents, NEW k \in Keys, Opens(c, k) PROVE DecryptText(c) \in Contents
  <2> DEFINE l == c.layers
  <2>1. l \in Seq(Keys) /\ l # <<>>
    BY <1>4 DEF Contents, Opens
  <2>2. SubSeq(l, 1, Len(l) - 1) \in Seq(Keys)
    BY <2>1
  <2>3. DecryptText(c) = [text |-> c.text, layers |-> SubSeq(l, 1, Len(l) - 1)]
    BY DEF DecryptText, Contents
  <2> QED
    BY <2>2, <2>3 DEF Contents
<1> QED
  BY <1>1, <1>2, <1>3, <1>4 DEF Blank

\* The gate's own step is typed, is not left waiting by an answer, and waits for
\* its cooldown only with the timer set.
LEMMA GateAnswers ==
    ASSUME GateTypeOK, NEW s \in DOMAIN EventForStatus, GateAnswer(s)
    PROVE  /\ GateTypeOK'
           /\ gate' # "loading"
           /\ (gate = "rate_limited" => cooling) => (gate' = "rate_limited" => cooling')
<1>1. CASE gate # "loading"
  BY <1>1 DEF GateAnswer, Dispatch, NextState, EventForStatus, StatusAfter, GateTypeOK, GateStatuses, IsFormEnabled
<1>2. CASE gate = "loading"
  <2>1. EventForStatus[s] \in DOMAIN StatusAfter
    BY DEF EventForStatus, StatusAfter
  <2>2. gate' = StatusAfter[EventForStatus[s]]
    BY <1>2, <2>1 DEF GateAnswer, Dispatch, NextState, IsFormEnabled, StatusAfter
  <2>3. gate' \in {"idle", "error", "rate_limited"} /\ (gate' = "rate_limited" => s = "limited")
    BY <2>2 DEF EventForStatus, StatusAfter
  <2> QED
    BY <2>3 DEF GateAnswer, GateTypeOK, GateStatuses
<1> QED
  BY <1>1, <1>2

\* Submitting the form switches it off; the end of the cooldown switches it on.
LEMMA GateMoves ==
    ASSUME GateTypeOK
    PROVE  /\ IsFormEnabled(gate) => gate # "loading"
           /\ IsFormEnabled(gate) /\ Dispatch("SUBMIT") => gate' = "loading"
           /\ GateCooled => /\ GateTypeOK' /\ gate' # "rate_limited"
                            /\ gate' = "loading" <=> gate = "loading"
  BY DEF GateCooled, Dispatch, NextState, StatusAfter, GateTypeOK, GateStatuses, IsFormEnabled

\* The types of the pastes, of the tab, of the calls and of the history.
PasteTypes == pastes \in [Slugs -> Pastes \union {NoPaste}]

Places == [at : {"home", "new", "loading", "view", "unlock", "error"},
           slug : Maybe(Slugs), key : Maybe(Keys)]

TabTypes ==
    /\ page \in Places
    /\ form \in FormRecord
    /\ viewer \in ViewerRecord
    /\ mounted \in {"form", "viewer", "none"}
    /\ decrypts \subseteq [content : Contents, key : Keys]

CallTypes == calls \in [CallIds -> CallRecord]

HistoryTypes ==
    /\ used \subseteq Keys
    /\ links \subseteq [link : Slugs \X Maybe(Keys), plain : Contents]
    /\ took \in Contents \union {NoContent}

Types == PasteTypes /\ TabTypes /\ GateTypeOK /\ CallTypes /\ HistoryTypes

\* The pages a link or an address leads to, and the calls it leaves.
Entrances == {p \in Places : p.at \in {"home", "new"} \/ (p.at = "loading" /\ p.slug \in Slugs)}

Remainders == {calls, [i \in CallIds |-> NoCall]} \union {Without(i) : i \in CallIds}

\* The steps of the tab and of the server, one by one.
StepCases ==
    \/ \E p \in Entrances, remaining \in Remainders : Enter(p, remaining) /\ UNCHANGED <<pastes, used, links>>
    \/ /\ page.at = "loading"
       /\ ShowPaste \/ AskForPassword \/ ShowError
       /\ UNCHANGED <<form, gateVars, calls, used, links>>
    \/ \E k \in Keys : HandleHashChange(k)
    \/ HandleReveal \/ HandleFork \/ EditForm \/ HandleSubmit \/ CreateAnother
    \/ \E right \in BOOLEAN : SubmitPassword(right)
    \/ \E d \in decrypts : DecryptLands(d)
    \/ CooldownElapsed
    \/ \E i \in CallIds :
           /\ calls[i].status = "sent"
           /\ \/ CreateAnswered(i) \/ RevealAnswered(i) \/ RevealRefused(i)
              \/ ForkAnswered(i) \/ UnlockRefused(i) \/ UnlockGranted(i)
           /\ UNCHANGED <<tabVars, used>>
    \/ \E i \in CallIds, s \in DOMAIN EventForStatus :
           /\ \/ RevealLands(i, s) \/ ForkLands(i, s) \/ ForkFails(i, s)
              \/ CreateShowsLink(i, s) \/ CreateRedirects(i, s) \/ CreateFails(i, s)
              \/ UnlockLands(i, s) \/ LandsNowhere(i, s)
           /\ s = "ok" => calls[i].status = "ok"
           /\ UNCHANGED pastes
    \/ \E s \in Slugs : Vanish(s)
    \/ UNCHANGED vars

\* A call that is changed, or made, is a call.
LEMMA CallFacts ==
    ASSUME Types
    PROVE  /\ NoCall \in CallRecord
           /\ \A c \in CallRecord : Send(c) => CallTypes'
           /\ \A c \in CallRecord, s \in DOMAIN EventForStatus : [c EXCEPT !.status = s] \in CallRecord
           /\ \A c \in CallRecord : [c EXCEPT !.own = FALSE] \in CallRecord
           /\ \A c \in CallRecord : [c EXCEPT !.plain = NoContent] \in CallRecord
           /\ \A c \in CallRecord, p \in Pastes \union {NoPaste} :
                  [c EXCEPT !.paste = p, !.status = "ok"] \in CallRecord
           /\ \A c \in CallRecord, s \in Slugs : [c EXCEPT !.slug = s, !.status = "ok"] \in CallRecord
           /\ \A op \in {"create", "reveal", "unlock", "fork"}, s \in Maybe(Slugs) : Call(op, s) \in CallRecord
           /\ \A i \in CallIds : Without(i) \in [CallIds -> CallRecord]
           /\ \A r \in [CallIds -> CallRecord] : Disowned(r) \in [CallIds -> CallRecord]
<1>1. NoCall \in CallRecord
  BY DEF NoCall, CallRecord, Maybe
<1>2. ASSUME NEW c \in CallRecord, Send(c) PROVE CallTypes'
  BY <1>2 DEF Send, Types, CallTypes
<1>3. /\ \A c \in CallRecord, s \in DOMAIN EventForStatus : [c EXCEPT !.status = s] \in CallRecord
      /\ \A c \in CallRecord : [c EXCEPT !.own = FALSE] \in CallRecord
      /\ \A c \in CallRecord : [c EXCEPT !.plain = NoContent] \in CallRecord
  BY DEF CallRecord
<1>4. ASSUME NEW c \in CallRecord
      PROVE  /\ \A p \in Pastes \union {NoPaste} : [c EXCEPT !.paste = p, !.status = "ok"] \in CallRecord
             /\ \A s \in Slugs : [c EXCEPT !.slug = s, !.status = "ok"] \in CallRecord
  <2>1. "ok" \in {"sent"} \union DOMAIN EventForStatus
    BY DEF EventForStatus
  <2> QED
    BY <2>1 DEF CallRecord, Maybe
<1>5. \A op \in {"create", "reveal", "unlock", "fork"}, s \in Maybe(Slugs) : Call(op, s) \in CallRecord
  BY DEF Call, NoCall, CallRecord, Maybe
<1>6. \A i \in CallIds : Without(i) \in [CallIds -> CallRecord]
  BY <1>1 DEF Without, Types, CallTypes
<1>7. \A r \in [CallIds -> CallRecord] : Disowned(r) \in [CallIds -> CallRecord]
  BY <1>3 DEF Disowned
<1> QED
  BY <1>1, <1>2, <1>3, <1>4, <1>5, <1>6, <1>7

\* Every step is one of StepCases.
LEMMA Steps == ASSUME Types, [Next]_vars PROVE StepCases
<1>1. ASSUME NEW i \in CallIds, CallLands(i) PROVE StepCases
  <2>1. PICK s \in Arrivals(i) :
            \/ RevealLands(i, s) \/ ForkLands(i, s) \/ ForkFails(i, s)
            \/ CreateShowsLink(i, s) \/ CreateRedirects(i, s) \/ CreateFails(i, s)
            \/ UnlockLands(i, s)
            \/ LandsNowhere(i, s)
    BY <1>1 DEF CallLands
  <2>2. s \in DOMAIN EventForStatus /\ (s = "ok" => calls[i].status = "ok")
    BY DEF Arrivals, EventForStatus, Types, CallTypes, CallRecord
  <2>3. UNCHANGED pastes
    BY <1>1 DEF CallLands
  <2> QED
    BY <2>1, <2>2, <2>3 DEF StepCases
<1>2. ASSUME NEW i \in CallIds, CallAnswered(i) PROVE StepCases
  BY <1>2 DEF CallAnswered, StepCases
<1>3. ASSUME FollowLink \/ OpenAddress PROVE StepCases
  <2>0. ASSUME NEW at \in {"home", "new", "loading"}, NEW s \in Maybe(Slugs), NEW k \in Maybe(Keys),
               at = "loading" => s \in Slugs
        PROVE  Page(at, s, k) \in Entrances
    <3> DEFINE p == Page(at, s, k)
    <3>1. p \in Places /\ p.at = at /\ p.slug = s
      BY DEF Page, Places
    <3>2. p \in Entrances
      BY <2>0, <3>1 DEF Entrances
    <3> QED
      BY <3>2
  <2>1. CASE FollowLink
    <3>1. PICK p \in {Page("home", None, None), Page("new", None, None)}
                          \union {Page("loading", s, None) : s \in Slugs} : Enter(p, calls)
      BY <2>1 DEF FollowLink
    <3>2. p \in Entrances
      BY <2>0 DEF Maybe
    <3> QED
      BY <2>1, <3>1, <3>2 DEF FollowLink, Remainders, StepCases
  <2>2. CASE OpenAddress
    <3>1. PICK s \in Slugs, k \in Keys \union {None} : Enter(Page("loading", s, k), [i \in CallIds |-> NoCall])
      BY <2>2 DEF OpenAddress
    <3>2. Page("loading", s, k) \in Entrances
      BY <2>0 DEF Maybe
    <3> QED
      BY <2>2, <3>1, <3>2 DEF OpenAddress, Remainders, StepCases
  <2> QED
    BY <1>3, <2>1, <2>2
<1>4. CASE PasteViewPage
  BY <1>4 DEF PasteViewPage, StepCases
<1>5. CASE VisitorStep
  BY <1>3, <1>5 DEF VisitorStep, HandleManualDecrypt, StepCases
<1>6. CASE SystemStep
  BY <1>1, <1>2, <1>4, <1>6 DEF SystemStep, StepCases
<1> QED
  BY <1>5, <1>6 DEF Next, StepCases

\* What is left of the calls when a page is left.
LEMMA Left ==
    ASSUME Types, NEW r \in Remainders
    PROVE  /\ Disowned(r) \in [CallIds -> CallRecord]
           /\ \A i \in CallIds :
                  /\ Disowned(r)[i].own = FALSE
                  /\ Disowned(r)[i].op # "none" =>
                         /\ Disowned(r)[i].op = calls[i].op /\ Disowned(r)[i].slug = calls[i].slug
                         /\ Disowned(r)[i].paste = calls[i].paste /\ Disowned(r)[i].plain = calls[i].plain
                         /\ Disowned(r)[i].key = calls[i].key /\ Disowned(r)[i].status = calls[i].status
<1>1. r \in [CallIds -> CallRecord] /\ \A i \in CallIds : r[i] = calls[i] \/ r[i] = NoCall
  <2>1. CASE r = calls \/ r = [i \in CallIds |-> NoCall]
    BY <2>1, CallFacts DEF Types, CallTypes
  <2>2. ASSUME NEW j \in CallIds, r = Without(j)
        PROVE  r \in [CallIds -> CallRecord] /\ \A i \in CallIds : r[i] = calls[i] \/ r[i] = NoCall
    <3>1. calls \in [CallIds -> CallRecord] /\ NoCall \in CallRecord
      BY CallFacts DEF Types, CallTypes
    <3> QED
      BY <2>2, <3>1 DEF Without
  <2> QED
    BY <2>1, <2>2 DEF Remainders
<1>2. \A i \in CallIds : Disowned(r)[i] = [r[i] EXCEPT !.own = FALSE]
  BY DEF Disowned
<1>3. \A i \in CallIds : r[i] = NoCall => Disowned(r)[i].op = "none"
  BY <1>2 DEF NoCall
<1>4. Disowned(r) \in [CallIds -> CallRecord]
  BY <1>1, CallFacts
<1> QED
  BY <1>1, <1>2, <1>3, <1>4 DEF CallRecord

\* What the answer to a create does: nothing is promised for the slug any more but
\* what was just stored there.
LEMMA Created ==
    ASSUME Types, NEW i \in CallIds, CreateAnswered(i)
    PROVE  \E s \in Slugs :
               /\ pastes[s] = NoPaste /\ pastes' = [pastes EXCEPT ![s] = calls[i].paste]
               /\ links' = {l \in links : l.link[1] # s}
               /\ calls' \in [CallIds -> CallRecord]
               /\ calls'[i].slug = s /\ calls'[i].status = "ok"
               /\ \A j \in CallIds :
                      /\ calls'[j].op = calls[j].op /\ calls'[j].own = calls[j].own
                      /\ calls'[j].paste = calls[j].paste /\ calls'[j].key = calls[j].key
                      /\ calls'[j].plain \in {calls[j].plain, NoContent}
                      /\ j # i => /\ calls'[j].slug = calls[j].slug /\ calls'[j].status = calls[j].status
                                  /\ calls[j].op = "create" /\ calls[j].status = "ok" /\ calls[j].slug = s =>
                                         calls'[j].plain = NoContent
<1>1. PICK s \in Slugs :
          /\ pastes[s] = NoPaste /\ pastes' = [pastes EXCEPT ![s] = calls[i].paste]
          /\ calls' = [Superseded(s) EXCEPT ![i].slug = s, ![i].status = "ok"]
          /\ links' = {l \in links : l.link[1] # s}
  BY DEF CreateAnswered
<1> DEFINE S == Superseded(s)
<1>2. \A j \in CallIds : S[j] = IF calls[j].op = "create" /\ calls[j].status = "ok" /\ calls[j].slug = s
                                 THEN [calls[j] EXCEPT !.plain = NoContent] ELSE calls[j]
  BY DEF Superseded
<1>3. ASSUME NEW j \in CallIds
      PROVE  /\ S[j] \in CallRecord
             /\ S[j].op = calls[j].op /\ S[j].own = calls[j].own /\ S[j].paste = calls[j].paste
             /\ S[j].key = calls[j].key /\ S[j].slug = calls[j].slug /\ S[j].status = calls[j].status
             /\ S[j].plain \in {calls[j].plain, NoContent}
             /\ calls[j].op = "create" /\ calls[j].status = "ok" /\ calls[j].slug = s => S[j].plain = NoContent
  <2>1. calls[j] \in CallRecord
    BY DEF Types, CallTypes
  <2>2. CASE S[j] = calls[j] /\ ~(calls[j].op = "create" /\ calls[j].status = "ok" /\ calls[j].slug = s)
    BY <2>1, <2>2
  <2>3. CASE S[j] = [calls[j] EXCEPT !.plain = NoContent]
    <3>1. [calls[j] EXCEPT !.plain = NoContent] \in CallRecord
      BY <2>1, CallFacts
    <3> QED
      BY <2>1, <2>3, <3>1 DEF CallRecord
  <2> QED
    BY <1>2, <2>2, <2>3
<1>4. S \in [CallIds -> CallRecord]
  BY <1>3 DEF Superseded
<1> HIDE DEF S
<1>5. calls' = [S EXCEPT ![i] = [S[i] EXCEPT !.slug = s, !.status = "ok"]]
  BY <1>1, <1>4 DEF S
<1>6. [S[i] EXCEPT !.slug = s, !.status = "ok"] \in CallRecord
  BY <1>4, CallFacts
<1>7. calls' \in [CallIds -> CallRecord] /\ \A j \in CallIds : j # i => calls'[j] = S[j]
  BY <1>4, <1>5, <1>6
<1>8. /\ calls'[i].slug = s /\ calls'[i].status = "ok" /\ calls'[i].op = S[i].op /\ calls'[i].own = S[i].own
      /\ calls'[i].paste = S[i].paste /\ calls'[i].key = S[i].key /\ calls'[i].plain = S[i].plain
  BY <1>4, <1>5 DEF CallRecord
<1>9. \A j \in CallIds :
          /\ calls'[j].op = calls[j].op /\ calls'[j].own = calls[j].own
          /\ calls'[j].paste = calls[j].paste /\ calls'[j].key = calls[j].key
          /\ calls'[j].plain \in {calls[j].plain, NoContent}
  BY <1>3, <1>7, <1>8
<1>10. \A j \in CallIds :
          j # i => /\ calls'[j].slug = calls[j].slug /\ calls'[j].status = calls[j].status
                   /\ calls[j].op = "create" /\ calls[j].status = "ok" /\ calls[j].slug = s =>
                          calls'[j].plain = NoContent
  <2>1. \A j \in CallIds :
            /\ S[j].slug = calls[j].slug /\ S[j].status = calls[j].status
            /\ calls[j].op = "create" /\ calls[j].status = "ok" /\ calls[j].slug = s => S[j].plain = NoContent
    BY <1>3
  <2> QED
    BY ONLY <1>7, <2>1
<1> QED
  BY ZenonT(40), <1>1, <1>7, <1>8, <1>9, <1>10

\* The records of the form and of the viewer.
LEMMA Records ==
    /\ InitialForm \in FormRecord /\ InitialViewer \in ViewerRecord
    /\ \A v \in ViewerRecord : Attempts(v) \subseteq [content : Contents, key : Keys]
    /\ \A s \in Maybe(Slugs), p \in Pastes, c \in Contents, k \in Maybe(Keys) :
           /\ ViewerOf(s, p, c, k) \in ViewerRecord
           /\ ViewerOf(s, p, c, k).content = c /\ ViewerOf(s, p, c, k).revealed = (~p.burn \/ c # Blank)
           /\ ~ViewerOf(s, p, c, k).revealing /\ ~ViewerOf(s, p, c, k).forking
<1>1. InitialForm \in FormRecord
  BY ContentFacts DEF InitialForm, FormRecord, Maybe
<1>2. InitialViewer \in ViewerRecord
  BY ContentFacts DEF InitialViewer, ViewerRecord, Maybe
<1>3. \A v \in ViewerRecord : Attempts(v) \subseteq [content : Contents, key : Keys]
  BY DEF Attempts, ViewerRecord, Maybe
<1>4. ASSUME NEW s \in Maybe(Slugs), NEW p \in Pastes, NEW c \in Contents, NEW k \in Maybe(Keys)
      PROVE  /\ ViewerOf(s, p, c, k) \in ViewerRecord
             /\ ViewerOf(s, p, c, k).content = c /\ ViewerOf(s, p, c, k).revealed = (~p.burn \/ c # Blank)
             /\ ~ViewerOf(s, p, c, k).revealing /\ ~ViewerOf(s, p, c, k).forking
  <2>1. p.encrypted \in BOOLEAN /\ (~p.burn \/ c # Blank) \in BOOLEAN
    BY DEF Pastes
  <2> DEFINE r == (~p.burn \/ c # Blank)
             e == p.encrypted
  <2>2. ViewerOf(s, p, c, k) =
            [InitialViewer EXCEPT !.slug = s, !.encrypted = e, !.content = c, !.revealed = r, !.key = k]
    BY DEF ViewerOf
  <2>3. r \in BOOLEAN /\ e \in BOOLEAN
    BY <2>1
  <2> HIDE DEF r, e
  <2>4. /\ ViewerOf(s, p, c, k) \in ViewerRecord
        /\ ViewerOf(s, p, c, k).content = c /\ ViewerOf(s, p, c, k).revealed = r
        /\ ViewerOf(s, p, c, k).revealing = FALSE /\ ViewerOf(s, p, c, k).forking = FALSE
    BY <2>2, <2>3 DEF InitialViewer, ViewerRecord, Maybe
  <2> QED
    BY <2>4 DEF r
<1> QED
  BY <1>1, <1>2, <1>3, <1>4

\* The empty paste of the server is not to be burned.
LEMMA NoPasteFact == NoPaste.burn = FALSE /\ NoPaste.content = NoContent
  BY DEF NoPaste

\* Next preserves the types of the pastes.
LEMMA PasteTypesStep ==
    ASSUME Types, SlugsKnown, StepCases
    PROVE  PasteTypes'
<1>1. ASSUME NEW p \in Entrances, NEW remaining \in Remainders, Enter(p, remaining), UNCHANGED <<pastes, used, links>>
      PROVE  PasteTypes'
  BY <1>1, NoPasteFact DEF Enter, Leave, Disowned, GateReset, InitialForm, InitialViewer, Types,
     PasteTypes, CallTypes, CallRecord
<1>2. CASE page.at = "loading" /\ ShowPaste /\ UNCHANGED <<form, gateVars, calls, used, links>>
  BY <1>2, NoPasteFact DEF ShowPaste, GetPaste, Mount, ViewerOf, InitialViewer, gateVars, Types,
     PasteTypes, CallTypes, CallRecord
<1>3. CASE page.at = "loading" /\ AskForPassword /\ UNCHANGED <<form, gateVars, calls, used, links>>
  BY <1>3, NoPasteFact DEF AskForPassword, Page, gateVars, Types, PasteTypes, CallTypes, CallRecord
<1>4. CASE page.at = "loading" /\ ShowError /\ UNCHANGED <<form, gateVars, calls, used, links>>
  BY <1>4, NoPasteFact DEF ShowError, gateVars, Types, PasteTypes, CallTypes, CallRecord
<1>5. ASSUME NEW k \in Keys, HandleHashChange(k) PROVE PasteTypes'
  BY <1>5, NoPasteFact DEF HandleHashChange, Rerun, Attempts, gateVars, historyVars, Types, PasteTypes,
     CallTypes, CallRecord
<1>6. CASE HandleReveal
  BY <1>6, NoPasteFact DEF HandleReveal, Send, Call, NoCall, gateVars, historyVars, Types, PasteTypes,
     CallTypes, CallRecord
<1>7. CASE HandleFork
  BY <1>7, NoPasteFact DEF HandleFork, Send, Call, NoCall, gateVars, historyVars, Types, PasteTypes,
     CallTypes, CallRecord
<1>8. CASE EditForm
  BY <1>8, NoPasteFact DEF EditForm, FormEnabled, Writing, gateVars, historyVars, Types, PasteTypes,
     CallTypes, CallRecord
<1>9. CASE HandleSubmit
  BY <1>9, NoPasteFact DEF HandleSubmit, FormEnabled, Writing, Send, Call, NoCall, gateVars, Types,
     PasteTypes, CallTypes, CallRecord
<1>10. CASE CreateAnother
  BY <1>10, NoPasteFact DEF CreateAnother, gateVars, historyVars, Types, PasteTypes, CallTypes,
     CallRecord
<1>11. ASSUME NEW right \in BOOLEAN, SubmitPassword(right) PROVE PasteTypes'
  BY <1>11, NoPasteFact DEF SubmitPassword, Send, Call, NoCall, historyVars, Types, PasteTypes,
     CallTypes, CallRecord
<1>12. ASSUME NEW d \in decrypts, DecryptLands(d) PROVE PasteTypes'
  BY <1>12, NoPasteFact DEF DecryptLands, gateVars, historyVars, Types, PasteTypes, CallTypes,
     CallRecord
<1>13. CASE CooldownElapsed
  BY <1>13, NoPasteFact DEF CooldownElapsed, GateCooled, historyVars, Types, PasteTypes, CallTypes,
     CallRecord
<1>14. ASSUME NEW i \in CallIds, calls[i].status = "sent", CreateAnswered(i), UNCHANGED <<tabVars, used>>
       PROVE  PasteTypes'
  BY <1>14, NoPasteFact DEF CreateAnswered, Superseded, NoContent, tabVars, gateVars, Types, PasteTypes,
     CallTypes, CallRecord
<1>15. ASSUME NEW i \in CallIds, calls[i].status = "sent", RevealAnswered(i), UNCHANGED <<tabVars, used>>
       PROVE  PasteTypes'
  BY <1>15, NoPasteFact DEF RevealAnswered, Handed, GetPaste, tabVars, gateVars, Types, PasteTypes,
     CallTypes, CallRecord
<1>29. ASSUME NEW i \in CallIds, calls[i].status = "sent", RevealRefused(i), UNCHANGED <<tabVars, used>>
       PROVE  PasteTypes'
  BY <1>29, NoPasteFact DEF RevealRefused, GetPaste, tabVars, gateVars, Types, PasteTypes,
     CallTypes, CallRecord
<1>16. ASSUME NEW i \in CallIds, calls[i].status = "sent", ForkAnswered(i), UNCHANGED <<tabVars, used>>
       PROVE  PasteTypes'
  BY <1>16, NoPasteFact DEF ForkAnswered, tabVars, gateVars, Types, PasteTypes, CallTypes, CallRecord
<1>17. ASSUME NEW i \in CallIds, calls[i].status = "sent", UnlockRefused(i), UNCHANGED <<tabVars, used>>
       PROVE  PasteTypes'
  BY <1>17, NoPasteFact DEF UnlockRefused, tabVars, gateVars, Types, PasteTypes, CallTypes, CallRecord
<1>18. ASSUME NEW i \in CallIds, calls[i].status = "sent", UnlockGranted(i), UNCHANGED <<tabVars, used>>
       PROVE  PasteTypes'
  BY <1>18, NoPasteFact DEF UnlockGranted, Handed, GetPaste, tabVars, gateVars, Types, PasteTypes,
     CallTypes, CallRecord
<1>19. ASSUME NEW i \in CallIds, NEW s \in DOMAIN EventForStatus, RevealLands(i, s), s = "ok" => calls[i].status = "ok", UNCHANGED pastes
       PROVE  PasteTypes'
  BY <1>19, NoPasteFact DEF RevealLands, Without, NoCall, Rerun, Attempts, gateVars, Types, PasteTypes,
     CallTypes, CallRecord
<1>20. ASSUME NEW i \in CallIds, NEW s \in DOMAIN EventForStatus, ForkLands(i, s), s = "ok" => calls[i].status = "ok", UNCHANGED pastes
       PROVE  PasteTypes'
  BY <1>20, NoPasteFact DEF ForkLands, Without, NoCall, Leave, Disowned, GateReset, Page, InitialForm,
     InitialViewer, gateVars, Types, PasteTypes, CallTypes, CallRecord
<1>21. ASSUME NEW i \in CallIds, NEW s \in DOMAIN EventForStatus, ForkFails(i, s), s = "ok" => calls[i].status = "ok", UNCHANGED pastes
       PROVE  PasteTypes'
  BY <1>21, NoPasteFact DEF ForkFails, Without, NoCall, gateVars, historyVars, Types, PasteTypes,
     CallTypes, CallRecord
<1>22. ASSUME NEW i \in CallIds, NEW s \in DOMAIN EventForStatus, CreateShowsLink(i, s), s = "ok" => calls[i].status = "ok", UNCHANGED pastes
       PROVE  PasteTypes'
  BY <1>22, NoPasteFact DEF CreateShowsLink, Without, NoCall, LinkOf, Given, gateVars, Types, PasteTypes,
     CallTypes, CallRecord
<1>23. ASSUME NEW i \in CallIds, NEW s \in DOMAIN EventForStatus, CreateRedirects(i, s), s = "ok" => calls[i].status = "ok", UNCHANGED pastes
       PROVE  PasteTypes'
  BY <1>23, NoPasteFact DEF CreateRedirects, Without, NoCall, Enter, Leave, Disowned, GateReset, Page,
     InitialForm, InitialViewer, LinkOf, Given, Types, PasteTypes, CallTypes, CallRecord
<1>24. ASSUME NEW i \in CallIds, NEW s \in DOMAIN EventForStatus, CreateFails(i, s), s = "ok" => calls[i].status = "ok", UNCHANGED pastes
       PROVE  PasteTypes'
  BY <1>24, NoPasteFact DEF CreateFails, Without, NoCall, gateVars, historyVars, Types, PasteTypes,
     CallTypes, CallRecord
<1>25. ASSUME NEW i \in CallIds, NEW s \in DOMAIN EventForStatus, UnlockLands(i, s), s = "ok" => calls[i].status = "ok", UNCHANGED pastes
       PROVE  PasteTypes'
  BY <1>25, NoPasteFact DEF UnlockLands, Without, NoCall, Mount, ViewerOf, InitialViewer, Types,
     PasteTypes, CallTypes, CallRecord
<1>26. ASSUME NEW i \in CallIds, NEW s \in DOMAIN EventForStatus, LandsNowhere(i, s), s = "ok" => calls[i].status = "ok", UNCHANGED pastes
       PROVE  PasteTypes'
  BY <1>26, NoPasteFact DEF LandsNowhere, Without, NoCall, tabVars, gateVars, historyVars, Types,
     PasteTypes, CallTypes, CallRecord
<1>27. ASSUME NEW s \in Slugs, Vanish(s) PROVE PasteTypes'
  BY <1>27, NoPasteFact DEF Vanish, tabVars, gateVars, historyVars, Types, PasteTypes, CallTypes,
     CallRecord
<1>28. CASE UNCHANGED vars
  BY <1>28, NoPasteFact DEF vars, tabVars, gateVars, historyVars, Types, PasteTypes, CallTypes,
     CallRecord
<1> QED
  BY <1>1, <1>2, <1>3, <1>4, <1>5, <1>6, <1>7, <1>8, <1>9, <1>10, <1>11, <1>12, <1>13, <1>14, <1>15,
     <1>16, <1>17, <1>18, <1>19, <1>20, <1>21, <1>22, <1>23, <1>24, <1>25, <1>26, <1>27,
     <1>28, <1>29 DEF StepCases

\* Next preserves the types of the tab.
LEMMA TabTypesStep ==
    ASSUME Types, SlugsKnown, NothingEmpty, StepCases
    PROVE  TabTypes'
<1>1. ASSUME NEW p \in Entrances, NEW remaining \in Remainders, Enter(p, remaining), UNCHANGED <<pastes, used, links>>
      PROVE  TabTypes'
  BY <1>1, Records DEF Enter, Entrances, TabTypes
<1>2. CASE page.at = "loading" /\ ShowPaste /\ UNCHANGED <<form, gateVars, calls, used, links>>
  <2> DEFINE p == pastes[page.slug]
             c == IF p.burn THEN Blank ELSE p.content
             v == ViewerOf(page.slug, p, c, page.key)
  <2>1. p \in Pastes /\ page.slug \in Maybe(Slugs) /\ page.key \in Maybe(Keys)
    <3>1. page.slug \in Slugs
      BY <1>2 DEF SlugsKnown
    <3> QED
      BY <1>2, <3>1 DEF ShowPaste, Types, PasteTypes, TabTypes, Places, Maybe
  <2>2. c \in Contents
    BY <2>1, ContentFacts DEF Pastes
  <2>3. v \in ViewerRecord
    BY <2>1, <2>2, Records
  <2>4. viewer' = v /\ mounted' = "viewer" /\ decrypts' = Attempts(v) /\ form' = form
    BY <1>2 DEF ShowPaste, Mount
  <2>5. page' \in Places
    BY <1>2 DEF ShowPaste, Types, TabTypes, Places
  <2> HIDE DEF v
  <2> QED
    BY <2>3, <2>4, <2>5, Records DEF Types, TabTypes
<1>3. CASE page.at = "loading" /\ AskForPassword /\ UNCHANGED <<form, gateVars, calls, used, links>>
  BY <1>3, ContentFacts DEF AskForPassword, Page, gateVars, Types, TabTypes, FormRecord, ViewerRecord,
     Places, Maybe, PasteTypes, Pastes, CallTypes, CallRecord, HistoryTypes
<1>4. CASE page.at = "loading" /\ ShowError /\ UNCHANGED <<form, gateVars, calls, used, links>>
  <2>1. page' \in Places
    BY <1>4 DEF ShowError, Types, TabTypes, Places
  <2> QED
    BY <1>4, <2>1 DEF ShowError, Types, TabTypes
<1>5. ASSUME NEW k \in Keys, HandleHashChange(k) PROVE TabTypes'
  <2>1. viewer' \in ViewerRecord
    BY <1>5 DEF HandleHashChange, Rerun, Types, TabTypes, ViewerRecord, Maybe
  <2> QED
    BY <1>5, <2>1, Records DEF HandleHashChange, Rerun, gateVars, historyVars, Types, TabTypes
<1>6. CASE HandleReveal
  <2>1. viewer' \in ViewerRecord
    BY <1>6 DEF HandleReveal, Types, TabTypes, ViewerRecord
  <2> QED
    BY <1>6, <2>1 DEF HandleReveal, Types, TabTypes
<1>7. CASE HandleFork
  <2>1. viewer' \in ViewerRecord
    BY <1>7 DEF HandleFork, Types, TabTypes, ViewerRecord
  <2> QED
    BY <1>7, <2>1 DEF HandleFork, Types, TabTypes
<1>8. CASE EditForm
  <2>1. form \in FormRecord /\ Plain(Mine) \in Contents /\ Plain(Empty) \in Contents
    BY ContentFacts DEF Types, TabTypes, Blank
  <2>2. form' \in FormRecord
    <3>1. ASSUME NEW t \in {Mine, Empty}, form' = [form EXCEPT !.content = Plain(t)]
          PROVE  form' \in FormRecord
      BY <2>1, <3>1 DEF FormRecord
    <3>2. ASSUME \/ form' = [form EXCEPT !.encrypted = ~form.encrypted]
                 \/ form' = [form EXCEPT !.burn = ~form.burn]
                 \/ form' = [form EXCEPT !.guarded = ~form.guarded]
          PROVE  form' \in FormRecord
      BY <2>1, <3>2 DEF FormRecord
    <3>3. ASSUME NEW s \in Slugs \union {None}, form' = [form EXCEPT !.wanted = s]
          PROVE  form' \in FormRecord
      BY <2>1, <3>3 DEF FormRecord, Maybe
    <3> QED
      BY <1>8, <3>1, <3>2, <3>3 DEF EditForm
  <2> QED
    BY <1>8, <2>2 DEF EditForm, Types, TabTypes
<1>9. CASE HandleSubmit
  <2>1. form' \in FormRecord
    BY <1>9 DEF HandleSubmit, Types, TabTypes, FormRecord
  <2> QED
    BY <1>9, <2>1 DEF HandleSubmit, Types, TabTypes
<1>10. CASE CreateAnother
  <2>1. form' \in FormRecord
    BY <1>10 DEF CreateAnother, Types, TabTypes, FormRecord, Maybe
  <2> QED
    BY <1>10, <2>1, Records DEF CreateAnother, Types, TabTypes
<1>11. ASSUME NEW right \in BOOLEAN, SubmitPassword(right) PROVE TabTypes'
  BY <1>11, ContentFacts DEF SubmitPassword, Send, Call, NoCall, historyVars, Types, TabTypes,
     FormRecord, ViewerRecord, Places, Maybe, PasteTypes, Pastes, CallTypes, CallRecord, HistoryTypes
<1>12. ASSUME NEW d \in decrypts, DecryptLands(d) PROVE TabTypes'
  <2>1. d.content \in Contents /\ d.key \in Keys
    BY DEF Types, TabTypes
  <2>2. (IF Opens(d.content, d.key) THEN DecryptText(d.content) ELSE NoContent) \in Contents \union {NoContent}
    BY <2>1, ContentFacts
  <2>3. viewer' \in ViewerRecord
    BY <1>12, <2>2 DEF DecryptLands, Types, TabTypes, ViewerRecord
  <2> QED
    BY <1>12, <2>3 DEF DecryptLands, Types, TabTypes
<1>13. CASE CooldownElapsed
  BY <1>13, ContentFacts DEF CooldownElapsed, GateCooled, historyVars, Types, TabTypes, FormRecord,
     ViewerRecord, Places, Maybe, PasteTypes, Pastes, CallTypes, CallRecord, HistoryTypes
<1>14. ASSUME NEW i \in CallIds, calls[i].status = "sent", CreateAnswered(i), UNCHANGED <<tabVars, used>>
       PROVE  TabTypes'
  BY <1>14, ContentFacts DEF CreateAnswered, Superseded, NoContent, tabVars, gateVars, Types, TabTypes,
     FormRecord, ViewerRecord, Places, Maybe, PasteTypes, Pastes, CallTypes, CallRecord, HistoryTypes
<1>15. ASSUME NEW i \in CallIds, calls[i].status = "sent", RevealAnswered(i), UNCHANGED <<tabVars, used>>
       PROVE  TabTypes'
  BY <1>15, ContentFacts DEF RevealAnswered, Handed, GetPaste, tabVars, gateVars, Types, TabTypes,
     FormRecord, ViewerRecord, Places, Maybe, PasteTypes, Pastes, CallTypes, CallRecord, HistoryTypes
<1>29. ASSUME NEW i \in CallIds, calls[i].status = "sent", RevealRefused(i), UNCHANGED <<tabVars, used>>
       PROVE  TabTypes'
  BY <1>29, ContentFacts DEF RevealRefused, GetPaste, tabVars, gateVars, Types, TabTypes,
     FormRecord, ViewerRecord, Places, Maybe, PasteTypes, Pastes, CallTypes, CallRecord, HistoryTypes
<1>16. ASSUME NEW i \in CallIds, calls[i].status = "sent", ForkAnswered(i), UNCHANGED <<tabVars, used>>
       PROVE  TabTypes'
  BY <1>16, ContentFacts DEF ForkAnswered, tabVars, gateVars, Types, TabTypes, FormRecord, ViewerRecord,
     Places, Maybe, PasteTypes, Pastes, CallTypes, CallRecord, HistoryTypes
<1>17. ASSUME NEW i \in CallIds, calls[i].status = "sent", UnlockRefused(i), UNCHANGED <<tabVars, used>>
       PROVE  TabTypes'
  BY <1>17, ContentFacts DEF UnlockRefused, tabVars, gateVars, Types, TabTypes, FormRecord, ViewerRecord,
     Places, Maybe, PasteTypes, Pastes, CallTypes, CallRecord, HistoryTypes
<1>18. ASSUME NEW i \in CallIds, calls[i].status = "sent", UnlockGranted(i), UNCHANGED <<tabVars, used>>
       PROVE  TabTypes'
  BY <1>18, ContentFacts DEF UnlockGranted, Handed, GetPaste, tabVars, gateVars, Types, TabTypes,
     FormRecord, ViewerRecord, Places, Maybe, PasteTypes, Pastes, CallTypes, CallRecord, HistoryTypes
<1>19. ASSUME NEW i \in CallIds, NEW s \in DOMAIN EventForStatus, RevealLands(i, s), s = "ok" => calls[i].status = "ok", UNCHANGED pastes
       PROVE  TabTypes'
  <2>1. CASE s = "ok"
    <3>1. calls[i].paste \in Pastes
      BY <1>19, <2>1 DEF RevealLands, NothingEmpty, Types, CallTypes, CallRecord
    <3> DEFINE v == [viewer EXCEPT !.content = calls[i].paste.content, !.revealed = TRUE, !.revealing = FALSE]
    <3>2. v \in ViewerRecord
      BY <3>1 DEF Pastes, Types, TabTypes, ViewerRecord
    <3>3. viewer' = v /\ decrypts' = decrypts \union Attempts(v) /\ UNCHANGED <<page, form, mounted>>
      BY <1>19, <2>1 DEF RevealLands, Rerun
    <3> HIDE DEF v
    <3> QED
      BY <3>2, <3>3, Records DEF Types, TabTypes
  <2>2. CASE s # "ok"
    <3>1. viewer' \in ViewerRecord
      BY <1>19, <2>2 DEF RevealLands, Types, TabTypes, ViewerRecord
    <3> QED
      BY <1>19, <2>2, <3>1 DEF RevealLands, Types, TabTypes
  <2> QED
    BY <2>1, <2>2
<1>20. ASSUME NEW i \in CallIds, NEW s \in DOMAIN EventForStatus, ForkLands(i, s), s = "ok" => calls[i].status = "ok", UNCHANGED pastes
       PROVE  TabTypes'
  <2> DEFINE c == calls[i].paste.content
  <2>1. c \in Contents
    BY <1>20 DEF ForkLands, NothingEmpty, Pastes, Types, CallTypes, CallRecord
  <2>2. [form EXCEPT !.content = c] \in FormRecord /\ form \in FormRecord
    BY <2>1 DEF Types, TabTypes, FormRecord
  <2>3. [InitialForm EXCEPT !.content = c] \in FormRecord
    BY <2>1, Records DEF FormRecord
  <2> HIDE DEF c
  <2>4. CASE mounted = "form"
    BY <1>20, <2>2, <2>4 DEF ForkLands, c, Types, TabTypes
  <2>5. CASE mounted # "form"
    <3>1. /\ page' = Page("new", None, None) /\ form' = [InitialForm EXCEPT !.content = c]
          /\ viewer' = InitialViewer /\ mounted' = "form" /\ decrypts' = {}
      BY <1>20, <2>5 DEF ForkLands, c
    <3>2. Page("new", None, None) \in Places
      BY DEF Page, Places, Maybe
    <3> QED
      BY <2>3, <3>1, <3>2, Records DEF TabTypes
  <2> QED
    BY <2>4, <2>5
<1>21. ASSUME NEW i \in CallIds, NEW s \in DOMAIN EventForStatus, ForkFails(i, s), s = "ok" => calls[i].status = "ok", UNCHANGED pastes
       PROVE  TabTypes'
  <2>1. viewer' \in ViewerRecord
    BY <1>21 DEF ForkFails, Types, TabTypes, ViewerRecord
  <2> QED
    BY <1>21, <2>1, Records DEF ForkFails, Types, TabTypes
<1>22. ASSUME NEW i \in CallIds, NEW s \in DOMAIN EventForStatus, CreateShowsLink(i, s), s = "ok" => calls[i].status = "ok", UNCHANGED pastes
       PROVE  TabTypes'
  <2>1. LinkOf(i) \in Maybe(Slugs) \X Maybe(Keys)
    BY DEF LinkOf, Types, CallTypes, CallRecord
  <2>2. form' \in FormRecord
    BY <1>22, <2>1 DEF CreateShowsLink, Types, TabTypes, FormRecord
  <2> QED
    BY <1>22, <2>2 DEF CreateShowsLink, Types, TabTypes
<1>23. ASSUME NEW i \in CallIds, NEW s \in DOMAIN EventForStatus, CreateRedirects(i, s), s = "ok" => calls[i].status = "ok", UNCHANGED pastes
       PROVE  TabTypes'
  <2>1. Page("loading", calls[i].slug, calls[i].key) \in Places
    BY DEF Page, Places, Types, CallTypes, CallRecord
  <2> QED
    BY <1>23, <2>1, Records DEF CreateRedirects, Enter, TabTypes
<1>24. ASSUME NEW i \in CallIds, NEW s \in DOMAIN EventForStatus, CreateFails(i, s), s = "ok" => calls[i].status = "ok", UNCHANGED pastes
       PROVE  TabTypes'
  <2>1. form' \in FormRecord
    BY <1>24 DEF CreateFails, Types, TabTypes, FormRecord
  <2> QED
    BY <1>24, <2>1, Records DEF CreateFails, Types, TabTypes
<1>25. ASSUME NEW i \in CallIds, NEW s \in DOMAIN EventForStatus, UnlockLands(i, s), s = "ok" => calls[i].status = "ok", UNCHANGED pastes
       PROVE  TabTypes'
  <2>1. CASE s = "ok"
    <3> DEFINE v == ViewerOf(page.slug, calls[i].paste, calls[i].paste.content, page.key)
    <3>1. calls[i].paste \in Pastes
      BY <1>25, <2>1 DEF UnlockLands, NothingEmpty, Types, CallTypes, CallRecord
    <3>2. v \in ViewerRecord
      BY <3>1, Records DEF Pastes, Types, TabTypes, Places
    <3>3. viewer' = v /\ decrypts' = Attempts(v) /\ mounted' = "viewer" /\ UNCHANGED <<page, form>>
      BY <1>25, <2>1 DEF UnlockLands, Mount
    <3> HIDE DEF v
    <3> QED
      BY <3>2, <3>3, Records DEF Types, TabTypes
  <2>2. CASE s # "ok"
    BY <1>25, <2>2 DEF UnlockLands, Types, TabTypes
  <2> QED
    BY <2>1, <2>2
<1>26. ASSUME NEW i \in CallIds, NEW s \in DOMAIN EventForStatus, LandsNowhere(i, s), s = "ok" => calls[i].status = "ok", UNCHANGED pastes
       PROVE  TabTypes'
  BY <1>26, ContentFacts DEF LandsNowhere, Without, NoCall, tabVars, gateVars, historyVars, Types,
     TabTypes, FormRecord, ViewerRecord, Places, Maybe, PasteTypes, Pastes, CallTypes, CallRecord,
     HistoryTypes
<1>27. ASSUME NEW s \in Slugs, Vanish(s) PROVE TabTypes'
  BY <1>27, ContentFacts DEF Vanish, tabVars, gateVars, historyVars, Types, TabTypes, FormRecord,
     ViewerRecord, Places, Maybe, PasteTypes, Pastes, CallTypes, CallRecord, HistoryTypes
<1>28. CASE UNCHANGED vars
  BY <1>28, ContentFacts DEF vars, tabVars, gateVars, historyVars, Types, TabTypes, FormRecord,
     ViewerRecord, Places, Maybe, PasteTypes, Pastes, CallTypes, CallRecord, HistoryTypes
<1> QED
  BY <1>1, <1>2, <1>3, <1>4, <1>5, <1>6, <1>7, <1>8, <1>9, <1>10, <1>11, <1>12, <1>13, <1>14, <1>15,
     <1>16, <1>17, <1>18, <1>19, <1>20, <1>21, <1>22, <1>23, <1>24, <1>25, <1>26, <1>27,
     <1>28, <1>29 DEF StepCases

\* Next preserves the types of the gate.
LEMMA GateTypesStep ==
    ASSUME Types, StepCases
    PROVE  GateTypeOK'
<1>1. ASSUME NEW p \in Entrances, NEW remaining \in Remainders, Enter(p, remaining), UNCHANGED <<pastes, used, links>>
      PROVE  GateTypeOK'
  BY <1>1 DEF Enter, Leave, Disowned, GateReset, InitialForm, InitialViewer, Types, GateTypeOK,
     GateStatuses
<1>2. CASE page.at = "loading" /\ ShowPaste /\ UNCHANGED <<form, gateVars, calls, used, links>>
  BY <1>2 DEF ShowPaste, GetPaste, Mount, ViewerOf, InitialViewer, gateVars, Types, GateTypeOK,
     GateStatuses
<1>3. CASE page.at = "loading" /\ AskForPassword /\ UNCHANGED <<form, gateVars, calls, used, links>>
  BY <1>3 DEF AskForPassword, Page, gateVars, Types, GateTypeOK, GateStatuses
<1>4. CASE page.at = "loading" /\ ShowError /\ UNCHANGED <<form, gateVars, calls, used, links>>
  BY <1>4 DEF ShowError, gateVars, Types, GateTypeOK, GateStatuses
<1>5. ASSUME NEW k \in Keys, HandleHashChange(k) PROVE GateTypeOK'
  BY <1>5 DEF HandleHashChange, Rerun, Attempts, gateVars, historyVars, Types, GateTypeOK, GateStatuses
<1>6. CASE HandleReveal
  BY <1>6 DEF HandleReveal, Send, Call, NoCall, gateVars, historyVars, Types, GateTypeOK, GateStatuses
<1>7. CASE HandleFork
  BY <1>7 DEF HandleFork, Send, Call, NoCall, gateVars, historyVars, Types, GateTypeOK, GateStatuses
<1>8. CASE EditForm
  BY <1>8 DEF EditForm, FormEnabled, Writing, gateVars, historyVars, Types, GateTypeOK, GateStatuses
<1>9. CASE HandleSubmit
  BY <1>9 DEF HandleSubmit, FormEnabled, Writing, Send, Call, NoCall, gateVars, Types, GateTypeOK,
     GateStatuses
<1>10. CASE CreateAnother
  BY <1>10 DEF CreateAnother, gateVars, historyVars, Types, GateTypeOK, GateStatuses
<1>11. ASSUME NEW right \in BOOLEAN, SubmitPassword(right) PROVE GateTypeOK'
  BY <1>11, GateMoves DEF SubmitPassword, Types, GateTypeOK, GateStatuses
<1>12. ASSUME NEW d \in decrypts, DecryptLands(d) PROVE GateTypeOK'
  BY <1>12 DEF DecryptLands, gateVars, historyVars, Types, GateTypeOK, GateStatuses
<1>13. CASE CooldownElapsed
  BY <1>13, GateMoves DEF CooldownElapsed, Types
<1>14. ASSUME NEW i \in CallIds, calls[i].status = "sent", CreateAnswered(i), UNCHANGED <<tabVars, used>>
       PROVE  GateTypeOK'
  BY <1>14 DEF CreateAnswered, Superseded, NoContent, tabVars, gateVars, Types, GateTypeOK, GateStatuses
<1>15. ASSUME NEW i \in CallIds, calls[i].status = "sent", RevealAnswered(i), UNCHANGED <<tabVars, used>>
       PROVE  GateTypeOK'
  BY <1>15 DEF RevealAnswered, Handed, GetPaste, tabVars, gateVars, Types, GateTypeOK, GateStatuses
<1>29. ASSUME NEW i \in CallIds, calls[i].status = "sent", RevealRefused(i), UNCHANGED <<tabVars, used>>
       PROVE  GateTypeOK'
  BY <1>29 DEF RevealRefused, GetPaste, tabVars, gateVars, Types, GateTypeOK, GateStatuses
<1>16. ASSUME NEW i \in CallIds, calls[i].status = "sent", ForkAnswered(i), UNCHANGED <<tabVars, used>>
       PROVE  GateTypeOK'
  BY <1>16 DEF ForkAnswered, tabVars, gateVars, Types, GateTypeOK, GateStatuses
<1>17. ASSUME NEW i \in CallIds, calls[i].status = "sent", UnlockRefused(i), UNCHANGED <<tabVars, used>>
       PROVE  GateTypeOK'
  BY <1>17 DEF UnlockRefused, tabVars, gateVars, Types, GateTypeOK, GateStatuses
<1>18. ASSUME NEW i \in CallIds, calls[i].status = "sent", UnlockGranted(i), UNCHANGED <<tabVars, used>>
       PROVE  GateTypeOK'
  BY <1>18 DEF UnlockGranted, Handed, GetPaste, tabVars, gateVars, Types, GateTypeOK, GateStatuses
<1>19. ASSUME NEW i \in CallIds, NEW s \in DOMAIN EventForStatus, RevealLands(i, s), s = "ok" => calls[i].status = "ok", UNCHANGED pastes
       PROVE  GateTypeOK'
  BY <1>19 DEF RevealLands, Without, NoCall, Rerun, Attempts, gateVars, Types, GateTypeOK, GateStatuses
<1>20. ASSUME NEW i \in CallIds, NEW s \in DOMAIN EventForStatus, ForkLands(i, s), s = "ok" => calls[i].status = "ok", UNCHANGED pastes
       PROVE  GateTypeOK'
  BY <1>20 DEF ForkLands, Without, NoCall, Leave, Disowned, GateReset, Page, InitialForm, InitialViewer,
     gateVars, Types, GateTypeOK, GateStatuses
<1>21. ASSUME NEW i \in CallIds, NEW s \in DOMAIN EventForStatus, ForkFails(i, s), s = "ok" => calls[i].status = "ok", UNCHANGED pastes
       PROVE  GateTypeOK'
  BY <1>21 DEF ForkFails, Without, NoCall, gateVars, historyVars, Types, GateTypeOK, GateStatuses
<1>22. ASSUME NEW i \in CallIds, NEW s \in DOMAIN EventForStatus, CreateShowsLink(i, s), s = "ok" => calls[i].status = "ok", UNCHANGED pastes
       PROVE  GateTypeOK'
  BY <1>22 DEF CreateShowsLink, Without, NoCall, LinkOf, Given, gateVars, Types, GateTypeOK,
     GateStatuses
<1>23. ASSUME NEW i \in CallIds, NEW s \in DOMAIN EventForStatus, CreateRedirects(i, s), s = "ok" => calls[i].status = "ok", UNCHANGED pastes
       PROVE  GateTypeOK'
  BY <1>23 DEF CreateRedirects, Without, NoCall, Enter, Leave, Disowned, GateReset, Page, InitialForm,
     InitialViewer, LinkOf, Given, Types, GateTypeOK, GateStatuses
<1>24. ASSUME NEW i \in CallIds, NEW s \in DOMAIN EventForStatus, CreateFails(i, s), s = "ok" => calls[i].status = "ok", UNCHANGED pastes
       PROVE  GateTypeOK'
  BY <1>24 DEF CreateFails, Without, NoCall, gateVars, historyVars, Types, GateTypeOK, GateStatuses
<1>25. ASSUME NEW i \in CallIds, NEW s \in DOMAIN EventForStatus, UnlockLands(i, s), s = "ok" => calls[i].status = "ok", UNCHANGED pastes
       PROVE  GateTypeOK'
  BY <1>25, GateAnswers DEF UnlockLands, Types
<1>26. ASSUME NEW i \in CallIds, NEW s \in DOMAIN EventForStatus, LandsNowhere(i, s), s = "ok" => calls[i].status = "ok", UNCHANGED pastes
       PROVE  GateTypeOK'
  BY <1>26 DEF LandsNowhere, Without, NoCall, tabVars, gateVars, historyVars, Types, GateTypeOK,
     GateStatuses
<1>27. ASSUME NEW s \in Slugs, Vanish(s) PROVE GateTypeOK'
  BY <1>27 DEF Vanish, tabVars, gateVars, historyVars, Types, GateTypeOK, GateStatuses
<1>28. CASE UNCHANGED vars
  BY <1>28 DEF vars, tabVars, gateVars, historyVars, Types, GateTypeOK, GateStatuses
<1> QED
  BY <1>1, <1>2, <1>3, <1>4, <1>5, <1>6, <1>7, <1>8, <1>9, <1>10, <1>11, <1>12, <1>13, <1>14, <1>15,
     <1>16, <1>17, <1>18, <1>19, <1>20, <1>21, <1>22, <1>23, <1>24, <1>25, <1>26, <1>27,
     <1>28, <1>29 DEF StepCases

\* Next preserves the types of the calls.
LEMMA CallTypesStep ==
    ASSUME Types, SlugsKnown, StepCases
    PROVE  CallTypes'
<1>1. ASSUME NEW p \in Entrances, NEW remaining \in Remainders, Enter(p, remaining), UNCHANGED <<pastes, used, links>>
      PROVE  CallTypes'
  BY <1>1, Left DEF Enter, Leave, CallTypes
<1>2. CASE page.at = "loading" /\ ShowPaste /\ UNCHANGED <<form, gateVars, calls, used, links>>
  BY <1>2, CallFacts DEF ShowPaste, GetPaste, Mount, ViewerOf, InitialViewer, gateVars, Types, CallTypes
<1>3. CASE page.at = "loading" /\ AskForPassword /\ UNCHANGED <<form, gateVars, calls, used, links>>
  BY <1>3, CallFacts DEF AskForPassword, Page, gateVars, Types, CallTypes
<1>4. CASE page.at = "loading" /\ ShowError /\ UNCHANGED <<form, gateVars, calls, used, links>>
  BY <1>4, CallFacts DEF ShowError, gateVars, Types, CallTypes
<1>5. ASSUME NEW k \in Keys, HandleHashChange(k) PROVE CallTypes'
  BY <1>5, CallFacts DEF HandleHashChange, Rerun, Attempts, gateVars, historyVars, Types, CallTypes
<1>6. CASE HandleReveal
  <2>1. Call("reveal", viewer.slug) \in CallRecord
    BY CallFacts DEF Types, TabTypes, ViewerRecord
  <2> QED
    BY <1>6, <2>1, CallFacts DEF HandleReveal
<1>7. CASE HandleFork
  <2>1. Call("fork", viewer.slug) \in CallRecord
    BY CallFacts DEF Types, TabTypes, ViewerRecord
  <2> QED
    BY <1>7, <2>1, CallFacts DEF HandleFork
<1>8. CASE EditForm
  BY <1>8, CallFacts DEF EditForm, FormEnabled, Writing, gateVars, historyVars, Types, CallTypes
<1>9. CASE HandleSubmit
  <2>1. PICK k \in IF form.encrypted THEN Keys \ used ELSE {None} :
            LET c == IF form.encrypted THEN EncryptText(form.content, k) ELSE form.content
            IN  Send([Call("create", form.wanted) EXCEPT
                          !.paste = Paste(c, form.encrypted, form.burn, form.guarded),
                          !.plain = form.content, !.key = k])
    BY <1>9 DEF HandleSubmit
  <2> DEFINE c == IF form.encrypted THEN EncryptText(form.content, k) ELSE form.content
             p == Paste(c, form.encrypted, form.burn, form.guarded)
  <2>2. form \in FormRecord /\ k \in Maybe(Keys)
    BY <2>1 DEF Types, TabTypes, Maybe
  <2>3. c \in Contents
    BY <2>1, <2>2, ContentFacts DEF FormRecord
  <2>4. p \in Pastes
    BY <2>2, <2>3 DEF Paste, Pastes, FormRecord
  <2>5. Call("create", form.wanted) \in CallRecord
    BY <2>2, CallFacts DEF FormRecord
  <2> HIDE DEF c, p
  <2>6. [Call("create", form.wanted) EXCEPT !.paste = p, !.plain = form.content, !.key = k] \in CallRecord
    BY <2>2, <2>4, <2>5 DEF CallRecord, FormRecord
  <2> QED
    BY <2>1, <2>6, CallFacts DEF c, p
<1>10. CASE CreateAnother
  BY <1>10, CallFacts DEF CreateAnother, gateVars, historyVars, Types, CallTypes
<1>11. ASSUME NEW right \in BOOLEAN, SubmitPassword(right) PROVE CallTypes'
  <2>1. Call("unlock", page.slug) \in CallRecord
    BY CallFacts DEF Types, TabTypes, Places
  <2>2. [Call("unlock", page.slug) EXCEPT !.right = right] \in CallRecord
    BY <2>1 DEF CallRecord
  <2> QED
    BY <1>11, <2>2, CallFacts DEF SubmitPassword
<1>12. ASSUME NEW d \in decrypts, DecryptLands(d) PROVE CallTypes'
  BY <1>12, CallFacts DEF DecryptLands, gateVars, historyVars, Types, CallTypes
<1>13. CASE CooldownElapsed
  BY <1>13, CallFacts DEF CooldownElapsed, GateCooled, historyVars, Types, CallTypes
<1>14. ASSUME NEW i \in CallIds, calls[i].status = "sent", CreateAnswered(i), UNCHANGED <<tabVars, used>>
       PROVE  CallTypes'
  BY <1>14, Created DEF CallTypes
<1>15. ASSUME NEW i \in CallIds, calls[i].status = "sent", RevealAnswered(i), UNCHANGED <<tabVars, used>>
       PROVE  CallTypes'
  <2> DEFINE p == pastes[calls[i].slug]
  <2>1. p \in Pastes \union {NoPaste}
    BY <1>15 DEF RevealAnswered, SlugsKnown, Types, PasteTypes
  <2>2. [calls[i] EXCEPT !.paste = p, !.status = "ok"] \in CallRecord
    BY <2>1, CallFacts DEF Types, CallTypes
  <2>3. calls' = [calls EXCEPT ![i] = [calls[i] EXCEPT !.paste = p, !.status = "ok"]]
    BY <1>15 DEF RevealAnswered, Handed, Types, CallTypes
  <2> QED
    BY <2>2, <2>3 DEF Types, CallTypes
<1>29. ASSUME NEW i \in CallIds, calls[i].status = "sent", RevealRefused(i), UNCHANGED <<tabVars, used>>
       PROVE  CallTypes'
  <2>1. [calls[i] EXCEPT !.status = "unauthorized"] \in CallRecord
    BY CallFacts DEF Types, CallTypes, EventForStatus
  <2>2. calls' = [calls EXCEPT ![i] = [calls[i] EXCEPT !.status = "unauthorized"]]
    BY <1>29 DEF RevealRefused, Types, CallTypes
  <2> QED
    BY <2>1, <2>2 DEF Types, CallTypes
<1>16. ASSUME NEW i \in CallIds, calls[i].status = "sent", ForkAnswered(i), UNCHANGED <<tabVars, used>>
       PROVE  CallTypes'
  <2> DEFINE p == pastes[calls[i].slug]
  <2>1. p \in Pastes \union {NoPaste}
    BY <1>16 DEF ForkAnswered, SlugsKnown, Types, PasteTypes
  <2>2. [calls[i] EXCEPT !.paste = p, !.status = "ok"] \in CallRecord
    BY <2>1, CallFacts DEF Types, CallTypes
  <2>3. calls' = [calls EXCEPT ![i] = [calls[i] EXCEPT !.paste = p, !.status = "ok"]]
    BY <1>16 DEF ForkAnswered, Handed, Types, CallTypes
  <2> QED
    BY <2>2, <2>3 DEF Types, CallTypes
<1>17. ASSUME NEW i \in CallIds, calls[i].status = "sent", UnlockRefused(i), UNCHANGED <<tabVars, used>>
       PROVE  CallTypes'
  <2>1. PICK s \in {"limited", "missing", "gone", "unauthorized"} : calls' = [calls EXCEPT ![i].status = s]
    BY <1>17 DEF UnlockRefused
  <2>2. s \in DOMAIN EventForStatus
    BY DEF EventForStatus
  <2>3. [calls[i] EXCEPT !.status = s] \in CallRecord
    BY <2>2, CallFacts DEF Types, CallTypes
  <2> QED
    BY <2>1, <2>3 DEF Types, CallTypes
<1>18. ASSUME NEW i \in CallIds, calls[i].status = "sent", UnlockGranted(i), UNCHANGED <<tabVars, used>>
       PROVE  CallTypes'
  <2> DEFINE p == pastes[calls[i].slug]
  <2>1. p \in Pastes \union {NoPaste}
    BY <1>18 DEF UnlockGranted, SlugsKnown, Types, PasteTypes
  <2>2. [calls[i] EXCEPT !.paste = p, !.status = "ok"] \in CallRecord
    BY <2>1, CallFacts DEF Types, CallTypes
  <2>3. calls' = [calls EXCEPT ![i] = [calls[i] EXCEPT !.paste = p, !.status = "ok"]]
    BY <1>18 DEF UnlockGranted, Handed, Types, CallTypes
  <2> QED
    BY <2>2, <2>3 DEF Types, CallTypes
<1>19. ASSUME NEW i \in CallIds, NEW s \in DOMAIN EventForStatus, RevealLands(i, s), s = "ok" => calls[i].status = "ok", UNCHANGED pastes
       PROVE  CallTypes'
  BY <1>19, CallFacts DEF RevealLands, Without, NoCall, Rerun, Attempts, gateVars, Types, CallTypes
<1>20. ASSUME NEW i \in CallIds, NEW s \in DOMAIN EventForStatus, ForkLands(i, s), s = "ok" => calls[i].status = "ok", UNCHANGED pastes
       PROVE  CallTypes'
  <2>1. Without(i) \in Remainders
    BY DEF Remainders
  <2> QED
    BY <1>20, <2>1, CallFacts, Left DEF ForkLands, Leave, CallTypes
<1>21. ASSUME NEW i \in CallIds, NEW s \in DOMAIN EventForStatus, ForkFails(i, s), s = "ok" => calls[i].status = "ok", UNCHANGED pastes
       PROVE  CallTypes'
  BY <1>21, CallFacts DEF ForkFails, Without, NoCall, gateVars, historyVars, Types, CallTypes
<1>22. ASSUME NEW i \in CallIds, NEW s \in DOMAIN EventForStatus, CreateShowsLink(i, s), s = "ok" => calls[i].status = "ok", UNCHANGED pastes
       PROVE  CallTypes'
  BY <1>22, CallFacts DEF CreateShowsLink, Without, NoCall, LinkOf, Given, gateVars, Types, CallTypes
<1>23. ASSUME NEW i \in CallIds, NEW s \in DOMAIN EventForStatus, CreateRedirects(i, s), s = "ok" => calls[i].status = "ok", UNCHANGED pastes
       PROVE  CallTypes'
  <2>1. Without(i) \in Remainders
    BY DEF Remainders
  <2> QED
    BY <1>23, <2>1, Left DEF CreateRedirects, Enter, Leave, CallTypes
<1>24. ASSUME NEW i \in CallIds, NEW s \in DOMAIN EventForStatus, CreateFails(i, s), s = "ok" => calls[i].status = "ok", UNCHANGED pastes
       PROVE  CallTypes'
  BY <1>24, CallFacts DEF CreateFails, Without, NoCall, gateVars, historyVars, Types, CallTypes
<1>25. ASSUME NEW i \in CallIds, NEW s \in DOMAIN EventForStatus, UnlockLands(i, s), s = "ok" => calls[i].status = "ok", UNCHANGED pastes
       PROVE  CallTypes'
  BY <1>25, CallFacts DEF UnlockLands, Without, NoCall, Mount, ViewerOf, InitialViewer, Types, CallTypes
<1>26. ASSUME NEW i \in CallIds, NEW s \in DOMAIN EventForStatus, LandsNowhere(i, s), s = "ok" => calls[i].status = "ok", UNCHANGED pastes
       PROVE  CallTypes'
  BY <1>26, CallFacts DEF LandsNowhere, Without, NoCall, tabVars, gateVars, historyVars, Types,
     CallTypes
<1>27. ASSUME NEW s \in Slugs, Vanish(s) PROVE CallTypes'
  BY <1>27, CallFacts DEF Vanish, tabVars, gateVars, historyVars, Types, CallTypes
<1>28. CASE UNCHANGED vars
  BY <1>28, CallFacts DEF vars, tabVars, gateVars, historyVars, Types, CallTypes
<1> QED
  BY <1>1, <1>2, <1>3, <1>4, <1>5, <1>6, <1>7, <1>8, <1>9, <1>10, <1>11, <1>12, <1>13, <1>14, <1>15,
     <1>16, <1>17, <1>18, <1>19, <1>20, <1>21, <1>22, <1>23, <1>24, <1>25, <1>26, <1>27,
     <1>28, <1>29 DEF StepCases

\* Next preserves the types of the history.
LEMMA HistoryTypesStep ==
    ASSUME Types, SlugsKnown, StepCases
    PROVE  HistoryTypes'
<1>1. ASSUME NEW p \in Entrances, NEW remaining \in Remainders, Enter(p, remaining), UNCHANGED <<pastes, used, links>>
      PROVE  HistoryTypes'
  BY <1>1 DEF Enter, Leave, Disowned, GateReset, InitialForm, InitialViewer, Types, HistoryTypes
<1>2. CASE page.at = "loading" /\ ShowPaste /\ UNCHANGED <<form, gateVars, calls, used, links>>
  BY <1>2 DEF ShowPaste, GetPaste, Mount, ViewerOf, InitialViewer, gateVars, Types, HistoryTypes
<1>3. CASE page.at = "loading" /\ AskForPassword /\ UNCHANGED <<form, gateVars, calls, used, links>>
  BY <1>3 DEF AskForPassword, Page, gateVars, Types, HistoryTypes
<1>4. CASE page.at = "loading" /\ ShowError /\ UNCHANGED <<form, gateVars, calls, used, links>>
  BY <1>4 DEF ShowError, gateVars, Types, HistoryTypes
<1>5. ASSUME NEW k \in Keys, HandleHashChange(k) PROVE HistoryTypes'
  BY <1>5 DEF HandleHashChange, Rerun, Attempts, gateVars, historyVars, Types, HistoryTypes
<1>6. CASE HandleReveal
  BY <1>6 DEF HandleReveal, Send, Call, NoCall, gateVars, historyVars, Types, HistoryTypes
<1>7. CASE HandleFork
  BY <1>7 DEF HandleFork, Send, Call, NoCall, gateVars, historyVars, Types, HistoryTypes
<1>8. CASE EditForm
  BY <1>8 DEF EditForm, FormEnabled, Writing, gateVars, historyVars, Types, HistoryTypes
<1>9. CASE HandleSubmit
  BY <1>9 DEF HandleSubmit, FormEnabled, Writing, Send, Call, NoCall, gateVars, Types, HistoryTypes
<1>10. CASE CreateAnother
  BY <1>10 DEF CreateAnother, gateVars, historyVars, Types, HistoryTypes
<1>11. ASSUME NEW right \in BOOLEAN, SubmitPassword(right) PROVE HistoryTypes'
  BY <1>11 DEF SubmitPassword, Send, Call, NoCall, historyVars, Types, HistoryTypes
<1>12. ASSUME NEW d \in decrypts, DecryptLands(d) PROVE HistoryTypes'
  BY <1>12 DEF DecryptLands, gateVars, historyVars, Types, HistoryTypes
<1>13. CASE CooldownElapsed
  BY <1>13 DEF CooldownElapsed, GateCooled, historyVars, Types, HistoryTypes
<1>14. ASSUME NEW i \in CallIds, calls[i].status = "sent", CreateAnswered(i), UNCHANGED <<tabVars, used>>
       PROVE  HistoryTypes'
  BY <1>14 DEF CreateAnswered, Types, HistoryTypes
<1>15. ASSUME NEW i \in CallIds, calls[i].status = "sent", RevealAnswered(i), UNCHANGED <<tabVars, used>>
       PROVE  HistoryTypes'
  <2>1. pastes[calls[i].slug] \in Pastes
    BY <1>15 DEF RevealAnswered, SlugsKnown, Types, PasteTypes
  <2>2. pastes[calls[i].slug].content \in Contents
    BY <2>1 DEF Pastes
  <2>3. took' \in {took, pastes[calls[i].slug].content} /\ UNCHANGED <<used, links>>
    BY <1>15 DEF RevealAnswered, Handed, GetPaste
  <2> QED
    BY <2>2, <2>3 DEF Types, HistoryTypes
<1>29. ASSUME NEW i \in CallIds, calls[i].status = "sent", RevealRefused(i), UNCHANGED <<tabVars, used>>
       PROVE  HistoryTypes'
  <2>1. pastes[calls[i].slug] \in Pastes
    BY <1>29 DEF RevealRefused, SlugsKnown, Types, PasteTypes
  <2>2. pastes[calls[i].slug].content \in Contents
    BY <2>1 DEF Pastes
  <2>3. took' \in {took, pastes[calls[i].slug].content} /\ UNCHANGED <<used, links>>
    BY <1>29 DEF RevealRefused, GetPaste
  <2> QED
    BY <2>2, <2>3 DEF Types, HistoryTypes
<1>16. ASSUME NEW i \in CallIds, calls[i].status = "sent", ForkAnswered(i), UNCHANGED <<tabVars, used>>
       PROVE  HistoryTypes'
  BY <1>16 DEF ForkAnswered, tabVars, gateVars, Types, HistoryTypes
<1>17. ASSUME NEW i \in CallIds, calls[i].status = "sent", UnlockRefused(i), UNCHANGED <<tabVars, used>>
       PROVE  HistoryTypes'
  BY <1>17 DEF UnlockRefused, tabVars, gateVars, Types, HistoryTypes
<1>18. ASSUME NEW i \in CallIds, calls[i].status = "sent", UnlockGranted(i), UNCHANGED <<tabVars, used>>
       PROVE  HistoryTypes'
  <2>1. pastes[calls[i].slug] \in Pastes
    BY <1>18 DEF UnlockGranted, SlugsKnown, Types, PasteTypes
  <2>2. pastes[calls[i].slug].content \in Contents
    BY <2>1 DEF Pastes
  <2>3. took' \in {took, pastes[calls[i].slug].content} /\ UNCHANGED <<used, links>>
    BY <1>18 DEF UnlockGranted, Handed, GetPaste
  <2> QED
    BY <2>2, <2>3 DEF Types, HistoryTypes
<1>19. ASSUME NEW i \in CallIds, NEW s \in DOMAIN EventForStatus, RevealLands(i, s), s = "ok" => calls[i].status = "ok", UNCHANGED pastes
       PROVE  HistoryTypes'
  BY <1>19 DEF RevealLands, Without, NoCall, Rerun, Attempts, gateVars, Types, HistoryTypes
<1>20. ASSUME NEW i \in CallIds, NEW s \in DOMAIN EventForStatus, ForkLands(i, s), s = "ok" => calls[i].status = "ok", UNCHANGED pastes
       PROVE  HistoryTypes'
  BY <1>20 DEF ForkLands, Without, NoCall, Leave, Disowned, GateReset, Page, InitialForm, InitialViewer,
     gateVars, Types, HistoryTypes
<1>21. ASSUME NEW i \in CallIds, NEW s \in DOMAIN EventForStatus, ForkFails(i, s), s = "ok" => calls[i].status = "ok", UNCHANGED pastes
       PROVE  HistoryTypes'
  BY <1>21 DEF ForkFails, Without, NoCall, gateVars, historyVars, Types, HistoryTypes
<1>22. ASSUME NEW i \in CallIds, NEW s \in DOMAIN EventForStatus, CreateShowsLink(i, s), s = "ok" => calls[i].status = "ok", UNCHANGED pastes
       PROVE  HistoryTypes'
  <2>1. [link |-> LinkOf(i), plain |-> calls[i].plain] \in [link : Slugs \X Maybe(Keys), plain : Contents]
            \/ calls[i].plain = NoContent
    BY <1>22 DEF CreateShowsLink, LinkOf, SlugsKnown, Types, CallTypes, CallRecord
  <2>2. links' \subseteq [link : Slugs \X Maybe(Keys), plain : Contents] /\ used' = used
    BY <1>22, <2>1 DEF CreateShowsLink, Given, Types, HistoryTypes
  <2>3. took' \in {took, NoContent}
    BY <1>22 DEF CreateShowsLink, Enter, Leave
  <2> QED
    BY <2>2, <2>3 DEF Types, HistoryTypes
<1>23. ASSUME NEW i \in CallIds, NEW s \in DOMAIN EventForStatus, CreateRedirects(i, s), s = "ok" => calls[i].status = "ok", UNCHANGED pastes
       PROVE  HistoryTypes'
  <2>1. [link |-> LinkOf(i), plain |-> calls[i].plain] \in [link : Slugs \X Maybe(Keys), plain : Contents]
            \/ calls[i].plain = NoContent
    BY <1>23 DEF CreateRedirects, LinkOf, SlugsKnown, Types, CallTypes, CallRecord
  <2>2. links' \subseteq [link : Slugs \X Maybe(Keys), plain : Contents] /\ used' = used
    BY <1>23, <2>1 DEF CreateRedirects, Given, Types, HistoryTypes
  <2>3. took' \in {took, NoContent}
    BY <1>23 DEF CreateRedirects, Enter, Leave
  <2> QED
    BY <2>2, <2>3 DEF Types, HistoryTypes
<1>24. ASSUME NEW i \in CallIds, NEW s \in DOMAIN EventForStatus, CreateFails(i, s), s = "ok" => calls[i].status = "ok", UNCHANGED pastes
       PROVE  HistoryTypes'
  BY <1>24 DEF CreateFails, Without, NoCall, gateVars, historyVars, Types, HistoryTypes
<1>25. ASSUME NEW i \in CallIds, NEW s \in DOMAIN EventForStatus, UnlockLands(i, s), s = "ok" => calls[i].status = "ok", UNCHANGED pastes
       PROVE  HistoryTypes'
  BY <1>25 DEF UnlockLands, Without, NoCall, Mount, ViewerOf, InitialViewer, Types, HistoryTypes
<1>26. ASSUME NEW i \in CallIds, NEW s \in DOMAIN EventForStatus, LandsNowhere(i, s), s = "ok" => calls[i].status = "ok", UNCHANGED pastes
       PROVE  HistoryTypes'
  BY <1>26 DEF LandsNowhere, Without, NoCall, tabVars, gateVars, historyVars, Types, HistoryTypes
<1>27. ASSUME NEW s \in Slugs, Vanish(s) PROVE HistoryTypes'
  BY <1>27 DEF Vanish, tabVars, gateVars, historyVars, Types, HistoryTypes
<1>28. CASE UNCHANGED vars
  BY <1>28 DEF vars, tabVars, gateVars, historyVars, Types, HistoryTypes
<1> QED
  BY <1>1, <1>2, <1>3, <1>4, <1>5, <1>6, <1>7, <1>8, <1>9, <1>10, <1>11, <1>12, <1>13, <1>14, <1>15,
     <1>16, <1>17, <1>18, <1>19, <1>20, <1>21, <1>22, <1>23, <1>24, <1>25, <1>26, <1>27,
     <1>28, <1>29 DEF StepCases

\* Next preserves what the controls wait for.
LEMMA WaitingStep ==
    ASSUME Types, WaitingIsForSomething, StepCases
    PROVE  WaitingIsForSomething'
<1>1. ASSUME NEW p \in Entrances, NEW remaining \in Remainders, Enter(p, remaining), UNCHANGED <<pastes, used, links>>
      PROVE  WaitingIsForSomething'
  BY <1>1 DEF Enter, Leave, Disowned, GateReset, InitialForm, InitialViewer, Types, CallTypes,
     CallRecord, WaitingIsForSomething, Awaited
<1>2. CASE page.at = "loading" /\ ShowPaste /\ UNCHANGED <<form, gateVars, calls, used, links>>
  BY <1>2 DEF ShowPaste, GetPaste, Mount, ViewerOf, InitialViewer, gateVars, Types, CallTypes,
     CallRecord, WaitingIsForSomething, Awaited
<1>3. CASE page.at = "loading" /\ AskForPassword /\ UNCHANGED <<form, gateVars, calls, used, links>>
  BY <1>3 DEF AskForPassword, Page, gateVars, Types, CallTypes, CallRecord, WaitingIsForSomething,
     Awaited
<1>4. CASE page.at = "loading" /\ ShowError /\ UNCHANGED <<form, gateVars, calls, used, links>>
  BY <1>4 DEF ShowError, gateVars, Types, CallTypes, CallRecord, WaitingIsForSomething, Awaited
<1>5. ASSUME NEW k \in Keys, HandleHashChange(k) PROVE WaitingIsForSomething'
  BY <1>5 DEF HandleHashChange, Rerun, Attempts, gateVars, historyVars, Types, CallTypes, CallRecord,
     WaitingIsForSomething, Awaited
<1>6. CASE HandleReveal
  BY <1>6 DEF HandleReveal, Send, Call, NoCall, gateVars, historyVars, Types, CallTypes, CallRecord,
     WaitingIsForSomething, Awaited
<1>7. CASE HandleFork
  BY <1>7 DEF HandleFork, Send, Call, NoCall, gateVars, historyVars, Types, CallTypes, CallRecord,
     WaitingIsForSomething, Awaited
<1>8. CASE EditForm
  <2>1. form'.submitting = form.submitting
    BY <1>8 DEF EditForm, Types, TabTypes, FormRecord
  <2> QED
    BY <1>8, <2>1 DEF EditForm, gateVars, WaitingIsForSomething, Awaited
<1>9. CASE HandleSubmit
  BY <1>9 DEF HandleSubmit, FormEnabled, Writing, Send, Call, NoCall, gateVars, Types, CallTypes,
     CallRecord, WaitingIsForSomething, Awaited
<1>10. CASE CreateAnother
  BY <1>10 DEF CreateAnother, gateVars, historyVars, Types, CallTypes, CallRecord, WaitingIsForSomething,
     Awaited
<1>11. ASSUME NEW right \in BOOLEAN, SubmitPassword(right) PROVE WaitingIsForSomething'
  <2> DEFINE c == [Call("unlock", page.slug) EXCEPT !.right = right]
  <2>1. c.own /\ c.op = "unlock"
    BY DEF Call, NoCall
  <2> HIDE DEF c
  <2>2. PICK i \in CallIds : calls[i] = NoCall /\ calls' = [calls EXCEPT ![i] = c]
    BY <1>11 DEF SubmitPassword, Send, c
  <2>3. \A op : Awaited(op) => Awaited(op)'
    BY <2>1, <2>2 DEF Awaited, NoCall, Types, CallTypes
  <2>4. Awaited("unlock")' /\ gate' = "loading"
    BY <1>11, <2>1, <2>2, GateMoves DEF SubmitPassword, Awaited, Types, CallTypes
  <2> QED
    BY <1>11, <2>3, <2>4 DEF SubmitPassword, WaitingIsForSomething
<1>12. ASSUME NEW d \in decrypts, DecryptLands(d) PROVE WaitingIsForSomething'
  BY <1>12 DEF DecryptLands, gateVars, historyVars, Types, CallTypes, CallRecord, WaitingIsForSomething,
     Awaited
<1>13. CASE CooldownElapsed
  BY <1>13, GateMoves DEF CooldownElapsed, Types, WaitingIsForSomething, Awaited
<1>14. ASSUME NEW i \in CallIds, calls[i].status = "sent", CreateAnswered(i), UNCHANGED <<tabVars, used>>
       PROVE  WaitingIsForSomething'
  <2>1. \A op : Awaited(op)' <=> Awaited(op)
    BY <1>14, Created DEF Awaited
  <2> QED
    BY <1>14, <2>1 DEF tabVars, gateVars, WaitingIsForSomething
<1>15. ASSUME NEW i \in CallIds, calls[i].status = "sent", RevealAnswered(i), UNCHANGED <<tabVars, used>>
       PROVE  WaitingIsForSomething'
  BY <1>15 DEF RevealAnswered, Handed, GetPaste, tabVars, gateVars, Types, CallTypes, CallRecord,
     WaitingIsForSomething, Awaited
<1>29. ASSUME NEW i \in CallIds, calls[i].status = "sent", RevealRefused(i), UNCHANGED <<tabVars, used>>
       PROVE  WaitingIsForSomething'
  BY <1>29 DEF RevealRefused, GetPaste, tabVars, gateVars, Types, CallTypes, CallRecord,
     WaitingIsForSomething, Awaited
<1>16. ASSUME NEW i \in CallIds, calls[i].status = "sent", ForkAnswered(i), UNCHANGED <<tabVars, used>>
       PROVE  WaitingIsForSomething'
  BY <1>16 DEF ForkAnswered, tabVars, gateVars, Types, CallTypes, CallRecord, WaitingIsForSomething,
     Awaited
<1>17. ASSUME NEW i \in CallIds, calls[i].status = "sent", UnlockRefused(i), UNCHANGED <<tabVars, used>>
       PROVE  WaitingIsForSomething'
  BY <1>17 DEF UnlockRefused, tabVars, gateVars, Types, CallTypes, CallRecord, WaitingIsForSomething,
     Awaited
<1>18. ASSUME NEW i \in CallIds, calls[i].status = "sent", UnlockGranted(i), UNCHANGED <<tabVars, used>>
       PROVE  WaitingIsForSomething'
  BY <1>18 DEF UnlockGranted, Handed, GetPaste, tabVars, gateVars, Types, CallTypes, CallRecord,
     WaitingIsForSomething, Awaited
<1>19. ASSUME NEW i \in CallIds, NEW s \in DOMAIN EventForStatus, RevealLands(i, s), s = "ok" => calls[i].status = "ok", UNCHANGED pastes
       PROVE  WaitingIsForSomething'
  <2>1. viewer'.revealing = FALSE /\ viewer'.forking = viewer.forking
    BY <1>19 DEF RevealLands, Rerun, Types, TabTypes, ViewerRecord
  <2>2. \A op : op # "reveal" /\ Awaited(op) => Awaited(op)'
    BY <1>19 DEF RevealLands, Without, Awaited, Types, CallTypes
  <2>3. UNCHANGED <<form, mounted, gateVars>>
    BY <1>19 DEF RevealLands
  <2> QED
    BY <2>1, <2>2, <2>3 DEF gateVars, WaitingIsForSomething
<1>20. ASSUME NEW i \in CallIds, NEW s \in DOMAIN EventForStatus, ForkLands(i, s), s = "ok" => calls[i].status = "ok", UNCHANGED pastes
       PROVE  WaitingIsForSomething'
  <2>1. CASE mounted = "form"
    <3>1. form'.submitting = form.submitting
      BY <1>20, <2>1 DEF ForkLands, Types, TabTypes, FormRecord
    <3>2. \A op : op # "fork" /\ Awaited(op) => Awaited(op)'
      BY <1>20, <2>1 DEF ForkLands, Without, Awaited, Types, CallTypes
    <3> QED
      BY <1>20, <2>1, <3>1, <3>2 DEF ForkLands, gateVars, WaitingIsForSomething
  <2>2. CASE mounted # "form"
    BY <1>20, <2>2 DEF ForkLands, Leave, GateReset, InitialForm, WaitingIsForSomething
  <2> QED
    BY <2>1, <2>2
<1>21. ASSUME NEW i \in CallIds, NEW s \in DOMAIN EventForStatus, ForkFails(i, s), s = "ok" => calls[i].status = "ok", UNCHANGED pastes
       PROVE  WaitingIsForSomething'
  BY <1>21 DEF ForkFails, Without, NoCall, gateVars, historyVars, Types, CallTypes, CallRecord,
     WaitingIsForSomething, Awaited
<1>22. ASSUME NEW i \in CallIds, NEW s \in DOMAIN EventForStatus, CreateShowsLink(i, s), s = "ok" => calls[i].status = "ok", UNCHANGED pastes
       PROVE  WaitingIsForSomething'
  BY <1>22 DEF CreateShowsLink, Without, NoCall, LinkOf, Given, gateVars, Types, CallTypes, CallRecord,
     WaitingIsForSomething, Awaited
<1>23. ASSUME NEW i \in CallIds, NEW s \in DOMAIN EventForStatus, CreateRedirects(i, s), s = "ok" => calls[i].status = "ok", UNCHANGED pastes
       PROVE  WaitingIsForSomething'
  BY <1>23 DEF CreateRedirects, Without, NoCall, Enter, Leave, Disowned, GateReset, Page, InitialForm,
     InitialViewer, LinkOf, Given, Types, CallTypes, CallRecord, WaitingIsForSomething, Awaited
<1>24. ASSUME NEW i \in CallIds, NEW s \in DOMAIN EventForStatus, CreateFails(i, s), s = "ok" => calls[i].status = "ok", UNCHANGED pastes
       PROVE  WaitingIsForSomething'
  BY <1>24 DEF CreateFails, Without, NoCall, gateVars, historyVars, Types, CallTypes, CallRecord,
     WaitingIsForSomething, Awaited
<1>25. ASSUME NEW i \in CallIds, NEW s \in DOMAIN EventForStatus, UnlockLands(i, s), s = "ok" => calls[i].status = "ok", UNCHANGED pastes
       PROVE  WaitingIsForSomething'
  <2>1. gate' # "loading" /\ (gate' = "rate_limited" => cooling')
    BY <1>25, GateAnswers DEF UnlockLands, Types, WaitingIsForSomething
  <2>2. \A op : op # "unlock" /\ Awaited(op) => Awaited(op)'
    BY <1>25 DEF UnlockLands, Without, Awaited, Types, CallTypes
  <2>3. CASE s = "ok"
    <3>1. ~viewer'.revealing /\ ~viewer'.forking /\ mounted' = "viewer"
      BY <1>25, <2>3 DEF UnlockLands, Mount, ViewerOf, InitialViewer
    <3> QED
      BY <1>25, <2>1, <2>2, <3>1 DEF UnlockLands, WaitingIsForSomething
  <2>4. CASE s # "ok"
    BY <1>25, <2>1, <2>2, <2>4 DEF UnlockLands, WaitingIsForSomething
  <2> QED
    BY <2>3, <2>4
<1>26. ASSUME NEW i \in CallIds, NEW s \in DOMAIN EventForStatus, LandsNowhere(i, s), s = "ok" => calls[i].status = "ok", UNCHANGED pastes
       PROVE  WaitingIsForSomething'
  BY <1>26 DEF LandsNowhere, Without, NoCall, tabVars, gateVars, historyVars, Types, CallTypes,
     CallRecord, WaitingIsForSomething, Awaited
<1>27. ASSUME NEW s \in Slugs, Vanish(s) PROVE WaitingIsForSomething'
  BY <1>27 DEF Vanish, tabVars, gateVars, historyVars, Types, CallTypes, CallRecord,
     WaitingIsForSomething, Awaited
<1>28. CASE UNCHANGED vars
  BY <1>28 DEF vars, tabVars, gateVars, historyVars, Types, CallTypes, CallRecord, WaitingIsForSomething,
     Awaited
<1> QED
  BY <1>1, <1>2, <1>3, <1>4, <1>5, <1>6, <1>7, <1>8, <1>9, <1>10, <1>11, <1>12, <1>13, <1>14, <1>15,
     <1>16, <1>17, <1>18, <1>19, <1>20, <1>21, <1>22, <1>23, <1>24, <1>25, <1>26, <1>27,
     <1>28, <1>29 DEF StepCases

\* Next preserves what belongs to the page on screen.
LEMMA ScreenStep ==
    ASSUME Types, ScreenOK, StepCases
    PROVE  ScreenOK'
<1>1. ASSUME NEW p \in Entrances, NEW remaining \in Remainders, Enter(p, remaining), UNCHANGED <<pastes, used, links>>
      PROVE  ScreenOK'
  <2>1. \A j \in CallIds : ~calls'[j].own
    BY <1>1, Left DEF Enter, Leave
  <2>2. page' = p /\ (p.at = "loading" => mounted' = "none")
    BY <1>1 DEF Enter
  <2> QED
    BY <2>1, <2>2 DEF ScreenOK, Own
<1>2. CASE page.at = "loading" /\ ShowPaste /\ UNCHANGED <<form, gateVars, calls, used, links>>
  BY <1>2 DEF ShowPaste, GetPaste, Mount, ViewerOf, InitialViewer, gateVars, Types, CallTypes,
     CallRecord, TabTypes, ViewerRecord, ScreenOK, Own, Viewing, GateShown
<1>3. CASE page.at = "loading" /\ AskForPassword /\ UNCHANGED <<form, gateVars, calls, used, links>>
  BY <1>3 DEF AskForPassword, Page, gateVars, Types, CallTypes, CallRecord, TabTypes, ViewerRecord,
     ScreenOK, Own, Viewing, GateShown
<1>4. CASE page.at = "loading" /\ ShowError /\ UNCHANGED <<form, gateVars, calls, used, links>>
  BY <1>4 DEF ShowError, gateVars, Types, CallTypes, CallRecord, TabTypes, ViewerRecord, ScreenOK, Own,
     Viewing, GateShown
<1>5. ASSUME NEW k \in Keys, HandleHashChange(k) PROVE ScreenOK'
  BY <1>5 DEF HandleHashChange, Rerun, Attempts, gateVars, historyVars, Types, CallTypes, CallRecord,
     TabTypes, ViewerRecord, ScreenOK, Own, Viewing, GateShown
<1>6. CASE HandleReveal
  BY <1>6 DEF HandleReveal, Send, Call, NoCall, gateVars, historyVars, Types, CallTypes, CallRecord,
     TabTypes, ViewerRecord, ScreenOK, Own, Viewing, GateShown
<1>7. CASE HandleFork
  BY <1>7 DEF HandleFork, Send, Call, NoCall, gateVars, historyVars, Types, CallTypes, CallRecord,
     TabTypes, ViewerRecord, ScreenOK, Own, Viewing, GateShown
<1>8. CASE EditForm
  BY <1>8 DEF EditForm, FormEnabled, Writing, gateVars, historyVars, Types, CallTypes, CallRecord,
     TabTypes, ViewerRecord, ScreenOK, Own, Viewing, GateShown
<1>9. CASE HandleSubmit
  BY <1>9 DEF HandleSubmit, FormEnabled, Writing, Send, Call, NoCall, gateVars, Types, CallTypes,
     CallRecord, TabTypes, ViewerRecord, ScreenOK, Own, Viewing, GateShown
<1>10. CASE CreateAnother
  BY <1>10 DEF CreateAnother, gateVars, historyVars, Types, CallTypes, CallRecord, TabTypes,
     ViewerRecord, ScreenOK, Own, Viewing, GateShown
<1>11. ASSUME NEW right \in BOOLEAN, SubmitPassword(right) PROVE ScreenOK'
  <2> DEFINE c == [Call("unlock", page.slug) EXCEPT !.right = right]
  <2>1. c.own /\ c.op = "unlock"
    BY DEF Call, NoCall
  <2> HIDE DEF c
  <2>2. PICK i \in CallIds : calls[i] = NoCall /\ calls' = [calls EXCEPT ![i] = c]
    BY <1>11 DEF SubmitPassword, Send, c
  <2>3. calls'[i] = c /\ \A j \in CallIds : j # i => calls'[j] = calls[j]
    BY <2>2 DEF Types, CallTypes
  <2>4. gate # "loading" /\ gate' = "loading" /\ GateShown /\ UNCHANGED <<page, viewer, mounted>>
    BY <1>11, GateMoves DEF SubmitPassword, Types
  <2>5. \A j \in CallIds : ~Own(j, "unlock") /\ ~Own(j, "reveal")
    BY <2>4 DEF ScreenOK, GateShown, Viewing
  <2> QED
    BY <2>1, <2>3, <2>4, <2>5 DEF ScreenOK, Own, GateShown, Viewing
<1>12. ASSUME NEW d \in decrypts, DecryptLands(d) PROVE ScreenOK'
  BY <1>12 DEF DecryptLands, gateVars, historyVars, Types, CallTypes, CallRecord, TabTypes, ViewerRecord,
     ScreenOK, Own, Viewing, GateShown
<1>13. CASE CooldownElapsed
  BY <1>13, GateMoves DEF CooldownElapsed, Types, ScreenOK, Own, Viewing, GateShown
<1>14. ASSUME NEW i \in CallIds, calls[i].status = "sent", CreateAnswered(i), UNCHANGED <<tabVars, used>>
       PROVE  ScreenOK'
  <2>1. \A j \in CallIds : calls'[j].own = calls[j].own /\ calls'[j].op = calls[j].op
    BY <1>14, Created
  <2> QED
    BY <1>14, <2>1 DEF tabVars, gateVars, ScreenOK, Own, Viewing, GateShown
<1>15. ASSUME NEW i \in CallIds, calls[i].status = "sent", RevealAnswered(i), UNCHANGED <<tabVars, used>>
       PROVE  ScreenOK'
  BY <1>15 DEF RevealAnswered, Handed, GetPaste, tabVars, gateVars, Types, CallTypes, CallRecord,
     TabTypes, ViewerRecord, ScreenOK, Own, Viewing, GateShown
<1>29. ASSUME NEW i \in CallIds, calls[i].status = "sent", RevealRefused(i), UNCHANGED <<tabVars, used>>
       PROVE  ScreenOK'
  BY <1>29 DEF RevealRefused, GetPaste, tabVars, gateVars, Types, CallTypes, CallRecord,
     TabTypes, ViewerRecord, ScreenOK, Own, Viewing, GateShown
<1>16. ASSUME NEW i \in CallIds, calls[i].status = "sent", ForkAnswered(i), UNCHANGED <<tabVars, used>>
       PROVE  ScreenOK'
  BY <1>16 DEF ForkAnswered, tabVars, gateVars, Types, CallTypes, CallRecord, TabTypes, ViewerRecord,
     ScreenOK, Own, Viewing, GateShown
<1>17. ASSUME NEW i \in CallIds, calls[i].status = "sent", UnlockRefused(i), UNCHANGED <<tabVars, used>>
       PROVE  ScreenOK'
  BY <1>17 DEF UnlockRefused, tabVars, gateVars, Types, CallTypes, CallRecord, TabTypes, ViewerRecord,
     ScreenOK, Own, Viewing, GateShown
<1>18. ASSUME NEW i \in CallIds, calls[i].status = "sent", UnlockGranted(i), UNCHANGED <<tabVars, used>>
       PROVE  ScreenOK'
  BY <1>18 DEF UnlockGranted, Handed, GetPaste, tabVars, gateVars, Types, CallTypes, CallRecord,
     TabTypes, ViewerRecord, ScreenOK, Own, Viewing, GateShown
<1>19. ASSUME NEW i \in CallIds, NEW s \in DOMAIN EventForStatus, RevealLands(i, s), s = "ok" => calls[i].status = "ok", UNCHANGED pastes
       PROVE  ScreenOK'
  BY <1>19 DEF RevealLands, Without, NoCall, Rerun, Attempts, gateVars, Types, CallTypes, CallRecord,
     TabTypes, ViewerRecord, ScreenOK, Own, Viewing, GateShown
<1>20. ASSUME NEW i \in CallIds, NEW s \in DOMAIN EventForStatus, ForkLands(i, s), s = "ok" => calls[i].status = "ok", UNCHANGED pastes
       PROVE  ScreenOK'
  BY <1>20 DEF ForkLands, Without, NoCall, Leave, Disowned, GateReset, Page, InitialForm, InitialViewer,
     gateVars, Types, CallTypes, CallRecord, TabTypes, ViewerRecord, ScreenOK, Own, Viewing, GateShown
<1>21. ASSUME NEW i \in CallIds, NEW s \in DOMAIN EventForStatus, ForkFails(i, s), s = "ok" => calls[i].status = "ok", UNCHANGED pastes
       PROVE  ScreenOK'
  BY <1>21 DEF ForkFails, Without, NoCall, gateVars, historyVars, Types, CallTypes, CallRecord, TabTypes,
     ViewerRecord, ScreenOK, Own, Viewing, GateShown
<1>22. ASSUME NEW i \in CallIds, NEW s \in DOMAIN EventForStatus, CreateShowsLink(i, s), s = "ok" => calls[i].status = "ok", UNCHANGED pastes
       PROVE  ScreenOK'
  BY <1>22 DEF CreateShowsLink, Without, NoCall, LinkOf, Given, gateVars, Types, CallTypes, CallRecord,
     TabTypes, ViewerRecord, ScreenOK, Own, Viewing, GateShown
<1>23. ASSUME NEW i \in CallIds, NEW s \in DOMAIN EventForStatus, CreateRedirects(i, s), s = "ok" => calls[i].status = "ok", UNCHANGED pastes
       PROVE  ScreenOK'
  BY <1>23 DEF CreateRedirects, Without, NoCall, Enter, Leave, Disowned, GateReset, Page, InitialForm,
     InitialViewer, LinkOf, Given, Types, CallTypes, CallRecord, TabTypes, ViewerRecord, ScreenOK, Own,
     Viewing, GateShown
<1>24. ASSUME NEW i \in CallIds, NEW s \in DOMAIN EventForStatus, CreateFails(i, s), s = "ok" => calls[i].status = "ok", UNCHANGED pastes
       PROVE  ScreenOK'
  BY <1>24 DEF CreateFails, Without, NoCall, gateVars, historyVars, Types, CallTypes, CallRecord,
     TabTypes, ViewerRecord, ScreenOK, Own, Viewing, GateShown
<1>25. ASSUME NEW i \in CallIds, NEW s \in DOMAIN EventForStatus, UnlockLands(i, s), s = "ok" => calls[i].status = "ok", UNCHANGED pastes
       PROVE  ScreenOK'
  BY <1>25 DEF UnlockLands, Without, NoCall, Mount, ViewerOf, InitialViewer, Types, CallTypes,
     CallRecord, TabTypes, ViewerRecord, ScreenOK, Own, Viewing, GateShown
<1>26. ASSUME NEW i \in CallIds, NEW s \in DOMAIN EventForStatus, LandsNowhere(i, s), s = "ok" => calls[i].status = "ok", UNCHANGED pastes
       PROVE  ScreenOK'
  BY <1>26 DEF LandsNowhere, Without, NoCall, tabVars, gateVars, historyVars, Types, CallTypes,
     CallRecord, TabTypes, ViewerRecord, ScreenOK, Own, Viewing, GateShown
<1>27. ASSUME NEW s \in Slugs, Vanish(s) PROVE ScreenOK'
  BY <1>27 DEF Vanish, tabVars, gateVars, historyVars, Types, CallTypes, CallRecord, TabTypes,
     ViewerRecord, ScreenOK, Own, Viewing, GateShown
<1>28. CASE UNCHANGED vars
  BY <1>28 DEF vars, tabVars, gateVars, historyVars, Types, CallTypes, CallRecord, TabTypes,
     ViewerRecord, ScreenOK, Own, Viewing, GateShown
<1> QED
  BY <1>1, <1>2, <1>3, <1>4, <1>5, <1>6, <1>7, <1>8, <1>9, <1>10, <1>11, <1>12, <1>13, <1>14, <1>15,
     <1>16, <1>17, <1>18, <1>19, <1>20, <1>21, <1>22, <1>23, <1>24, <1>25, <1>26, <1>27,
     <1>28, <1>29 DEF StepCases

\* Next preserves that all is about a slug.
LEMMA SlugsKnownStep ==
    ASSUME Types, ScreenOK, SlugsKnown, StepCases
    PROVE  SlugsKnown'
<1>1. ASSUME NEW p \in Entrances, NEW remaining \in Remainders, Enter(p, remaining), UNCHANGED <<pastes, used, links>>
      PROVE  SlugsKnown'
  <2>1. \A j \in CallIds :
            calls'[j].op # "none" =>
                /\ calls'[j].op = calls[j].op /\ calls'[j].slug = calls[j].slug /\ calls'[j].paste = calls[j].paste
                /\ calls'[j].plain = calls[j].plain /\ calls'[j].key = calls[j].key /\ calls'[j].status = calls[j].status
    BY <1>1, Left DEF Enter, Leave
  <2>2. page' = p /\ mounted' # "viewer"
    BY <1>1 DEF Enter
  <2> QED
    BY <2>1, <2>2 DEF Entrances, SlugsKnown, Viewing
<1>2. CASE page.at = "loading" /\ ShowPaste /\ UNCHANGED <<form, gateVars, calls, used, links>>
  BY <1>2 DEF ShowPaste, GetPaste, Mount, ViewerOf, InitialViewer, gateVars, Types, CallTypes,
     CallRecord, TabTypes, ViewerRecord, SlugsKnown, Viewing
<1>3. CASE page.at = "loading" /\ AskForPassword /\ UNCHANGED <<form, gateVars, calls, used, links>>
  BY <1>3 DEF AskForPassword, Page, gateVars, Types, CallTypes, CallRecord, TabTypes, ViewerRecord,
     SlugsKnown, Viewing
<1>4. CASE page.at = "loading" /\ ShowError /\ UNCHANGED <<form, gateVars, calls, used, links>>
  BY <1>4 DEF ShowError, gateVars, Types, CallTypes, CallRecord, TabTypes, ViewerRecord, SlugsKnown,
     Viewing
<1>5. ASSUME NEW k \in Keys, HandleHashChange(k) PROVE SlugsKnown'
  BY <1>5 DEF HandleHashChange, Rerun, Attempts, gateVars, historyVars, Types, CallTypes, CallRecord,
     TabTypes, ViewerRecord, SlugsKnown, Viewing
<1>6. CASE HandleReveal
  BY <1>6 DEF HandleReveal, Send, Call, NoCall, gateVars, historyVars, Types, CallTypes, CallRecord,
     TabTypes, ViewerRecord, SlugsKnown, Viewing
<1>7. CASE HandleFork
  BY <1>7 DEF HandleFork, ContentShown, Send, Call, NoCall, Types, CallTypes, SlugsKnown, Viewing
<1>8. CASE EditForm
  BY <1>8 DEF EditForm, FormEnabled, Writing, gateVars, historyVars, Types, CallTypes, CallRecord,
     TabTypes, ViewerRecord, SlugsKnown, Viewing
<1>9. CASE HandleSubmit
  BY <1>9 DEF HandleSubmit, FormEnabled, Writing, Send, Call, NoCall, gateVars, Types, CallTypes,
     CallRecord, TabTypes, ViewerRecord, SlugsKnown, Viewing
<1>10. CASE CreateAnother
  BY <1>10 DEF CreateAnother, gateVars, historyVars, Types, CallTypes, CallRecord, TabTypes,
     ViewerRecord, SlugsKnown, Viewing
<1>11. ASSUME NEW right \in BOOLEAN, SubmitPassword(right) PROVE SlugsKnown'
  <2> DEFINE c == [Call("unlock", page.slug) EXCEPT !.right = right]
  <2>1. c.slug = page.slug
    BY DEF Call, NoCall
  <2> HIDE DEF c
  <2>2. PICK i \in CallIds : calls[i] = NoCall /\ calls' = [calls EXCEPT ![i] = c]
    BY <1>11 DEF SubmitPassword, Send, c
  <2>3. calls'[i] = c /\ \A j \in CallIds : j # i => calls'[j] = calls[j]
    BY <2>2 DEF Types, CallTypes
  <2>4. page.slug \in Slugs /\ UNCHANGED <<page, viewer, mounted>>
    BY <1>11 DEF SubmitPassword, GateShown, SlugsKnown
  <2> QED
    BY <2>1, <2>3, <2>4 DEF SlugsKnown, Viewing
<1>12. ASSUME NEW d \in decrypts, DecryptLands(d) PROVE SlugsKnown'
  BY <1>12 DEF DecryptLands, gateVars, historyVars, Types, CallTypes, CallRecord, TabTypes, ViewerRecord,
     SlugsKnown, Viewing
<1>13. CASE CooldownElapsed
  BY <1>13 DEF CooldownElapsed, GateCooled, historyVars, Types, CallTypes, CallRecord, TabTypes,
     ViewerRecord, SlugsKnown, Viewing
<1>14. ASSUME NEW i \in CallIds, calls[i].status = "sent", CreateAnswered(i), UNCHANGED <<tabVars, used>>
       PROVE  SlugsKnown'
  <2>1. \A j \in CallIds :
            /\ calls'[j].op = calls[j].op
            /\ calls'[j].slug \in Slugs \/ (calls'[j].slug = calls[j].slug /\ calls'[j].status = calls[j].status)
    <3>1. PICK r \in Slugs :
              /\ calls'[i].slug = r
              /\ \A j \in CallIds :
                     /\ calls'[j].op = calls[j].op
                     /\ j # i => calls'[j].slug = calls[j].slug /\ calls'[j].status = calls[j].status
      BY <1>14, Created
    <3> QED
      BY <3>1
  <2> QED
    BY <1>14, <2>1 DEF tabVars, SlugsKnown, Viewing
<1>15. ASSUME NEW i \in CallIds, calls[i].status = "sent", RevealAnswered(i), UNCHANGED <<tabVars, used>>
       PROVE  SlugsKnown'
  BY <1>15 DEF RevealAnswered, Handed, GetPaste, tabVars, gateVars, Types, CallTypes, CallRecord,
     TabTypes, ViewerRecord, SlugsKnown, Viewing
<1>29. ASSUME NEW i \in CallIds, calls[i].status = "sent", RevealRefused(i), UNCHANGED <<tabVars, used>>
       PROVE  SlugsKnown'
  BY <1>29 DEF RevealRefused, GetPaste, tabVars, gateVars, Types, CallTypes, CallRecord,
     TabTypes, ViewerRecord, SlugsKnown, Viewing
<1>16. ASSUME NEW i \in CallIds, calls[i].status = "sent", ForkAnswered(i), UNCHANGED <<tabVars, used>>
       PROVE  SlugsKnown'
  BY <1>16 DEF ForkAnswered, tabVars, gateVars, Types, CallTypes, CallRecord, TabTypes, ViewerRecord,
     SlugsKnown, Viewing
<1>17. ASSUME NEW i \in CallIds, calls[i].status = "sent", UnlockRefused(i), UNCHANGED <<tabVars, used>>
       PROVE  SlugsKnown'
  BY <1>17 DEF UnlockRefused, tabVars, gateVars, Types, CallTypes, CallRecord, TabTypes, ViewerRecord,
     SlugsKnown, Viewing
<1>18. ASSUME NEW i \in CallIds, calls[i].status = "sent", UnlockGranted(i), UNCHANGED <<tabVars, used>>
       PROVE  SlugsKnown'
  BY <1>18 DEF UnlockGranted, Handed, GetPaste, tabVars, gateVars, Types, CallTypes, CallRecord,
     TabTypes, ViewerRecord, SlugsKnown, Viewing
<1>19. ASSUME NEW i \in CallIds, NEW s \in DOMAIN EventForStatus, RevealLands(i, s), s = "ok" => calls[i].status = "ok", UNCHANGED pastes
       PROVE  SlugsKnown'
  BY <1>19 DEF RevealLands, Without, NoCall, Rerun, Attempts, gateVars, Types, CallTypes, CallRecord,
     TabTypes, ViewerRecord, SlugsKnown, Viewing
<1>20. ASSUME NEW i \in CallIds, NEW s \in DOMAIN EventForStatus, ForkLands(i, s), s = "ok" => calls[i].status = "ok", UNCHANGED pastes
       PROVE  SlugsKnown'
  BY SMTT(30), <1>20 DEF ForkLands, Without, NoCall, Leave, Disowned, GateReset, Page, InitialForm, InitialViewer,
     gateVars, Types, CallTypes, CallRecord, TabTypes, ViewerRecord, SlugsKnown, Viewing
<1>21. ASSUME NEW i \in CallIds, NEW s \in DOMAIN EventForStatus, ForkFails(i, s), s = "ok" => calls[i].status = "ok", UNCHANGED pastes
       PROVE  SlugsKnown'
  BY <1>21 DEF ForkFails, Without, NoCall, gateVars, historyVars, Types, CallTypes, CallRecord, TabTypes,
     ViewerRecord, SlugsKnown, Viewing
<1>22. ASSUME NEW i \in CallIds, NEW s \in DOMAIN EventForStatus, CreateShowsLink(i, s), s = "ok" => calls[i].status = "ok", UNCHANGED pastes
       PROVE  SlugsKnown'
  BY <1>22 DEF CreateShowsLink, Without, NoCall, LinkOf, Given, gateVars, Types, CallTypes, CallRecord,
     TabTypes, ViewerRecord, SlugsKnown, Viewing
<1>23. ASSUME NEW i \in CallIds, NEW s \in DOMAIN EventForStatus, CreateRedirects(i, s), s = "ok" => calls[i].status = "ok", UNCHANGED pastes
       PROVE  SlugsKnown'
  BY SMTT(30), <1>23 DEF CreateRedirects, Without, NoCall, Enter, Leave, Disowned, GateReset, Page, InitialForm,
     InitialViewer, LinkOf, Given, Types, CallTypes, CallRecord, TabTypes, ViewerRecord, SlugsKnown,
     Viewing
<1>24. ASSUME NEW i \in CallIds, NEW s \in DOMAIN EventForStatus, CreateFails(i, s), s = "ok" => calls[i].status = "ok", UNCHANGED pastes
       PROVE  SlugsKnown'
  BY <1>24 DEF CreateFails, Without, NoCall, gateVars, historyVars, Types, CallTypes, CallRecord,
     TabTypes, ViewerRecord, SlugsKnown, Viewing
<1>25. ASSUME NEW i \in CallIds, NEW s \in DOMAIN EventForStatus, UnlockLands(i, s), s = "ok" => calls[i].status = "ok", UNCHANGED pastes
       PROVE  SlugsKnown'
  <2>1. page.slug \in Slugs
    BY <1>25 DEF UnlockLands, ScreenOK, Own, GateShown, SlugsKnown
  <2>2. \A j \in CallIds : calls'[j].op # "none" => calls'[j] = calls[j]
    BY <1>25 DEF UnlockLands, Without, NoCall, Types, CallTypes
  <2>3. viewer'.slug = page.slug \/ UNCHANGED <<viewer, mounted>>
    BY <1>25 DEF UnlockLands, Mount, ViewerOf, InitialViewer
  <2>4. UNCHANGED page
    BY <1>25 DEF UnlockLands
  <2> QED
    BY <2>1, <2>2, <2>3, <2>4 DEF SlugsKnown, Viewing
<1>26. ASSUME NEW i \in CallIds, NEW s \in DOMAIN EventForStatus, LandsNowhere(i, s), s = "ok" => calls[i].status = "ok", UNCHANGED pastes
       PROVE  SlugsKnown'
  BY <1>26 DEF LandsNowhere, Without, NoCall, tabVars, gateVars, historyVars, Types, CallTypes,
     CallRecord, TabTypes, ViewerRecord, SlugsKnown, Viewing
<1>27. ASSUME NEW s \in Slugs, Vanish(s) PROVE SlugsKnown'
  BY <1>27 DEF Vanish, tabVars, gateVars, historyVars, Types, CallTypes, CallRecord, TabTypes,
     ViewerRecord, SlugsKnown, Viewing
<1>28. CASE UNCHANGED vars
  BY <1>28 DEF vars, tabVars, gateVars, historyVars, Types, CallTypes, CallRecord, TabTypes,
     ViewerRecord, SlugsKnown, Viewing
<1> QED
  BY <1>1, <1>2, <1>3, <1>4, <1>5, <1>6, <1>7, <1>8, <1>9, <1>10, <1>11, <1>12, <1>13, <1>14, <1>15,
     <1>16, <1>17, <1>18, <1>19, <1>20, <1>21, <1>22, <1>23, <1>24, <1>25, <1>26, <1>27,
     <1>28, <1>29 DEF StepCases

\* Next preserves that nothing is empty.
LEMMA NothingEmptyStep ==
    ASSUME Types, SlugsKnown, NothingEmpty, StepCases
    PROVE  NothingEmpty'
<1>1. ASSUME NEW p \in Entrances, NEW remaining \in Remainders, Enter(p, remaining), UNCHANGED <<pastes, used, links>>
      PROVE  NothingEmpty'
  <2>1. \A j \in CallIds :
            calls'[j].op # "none" =>
                /\ calls'[j].op = calls[j].op /\ calls'[j].slug = calls[j].slug /\ calls'[j].paste = calls[j].paste
                /\ calls'[j].plain = calls[j].plain /\ calls'[j].key = calls[j].key /\ calls'[j].status = calls[j].status
    BY <1>1, Left DEF Enter, Leave
  <2>2. took' \in {took, NoContent} /\ UNCHANGED pastes
    BY <1>1 DEF Enter, Leave
  <2> QED
    BY <2>1, <2>2 DEF NothingEmpty
<1>2. CASE page.at = "loading" /\ ShowPaste /\ UNCHANGED <<form, gateVars, calls, used, links>>
  BY <1>2 DEF ShowPaste, GetPaste, Mount, ViewerOf, InitialViewer, gateVars, Types, PasteTypes,
     NothingEmpty
<1>3. CASE page.at = "loading" /\ AskForPassword /\ UNCHANGED <<form, gateVars, calls, used, links>>
  BY <1>3 DEF AskForPassword, Page, gateVars, Types, PasteTypes, NothingEmpty
<1>4. CASE page.at = "loading" /\ ShowError /\ UNCHANGED <<form, gateVars, calls, used, links>>
  BY <1>4 DEF ShowError, gateVars, Types, PasteTypes, NothingEmpty
<1>5. ASSUME NEW k \in Keys, HandleHashChange(k) PROVE NothingEmpty'
  BY <1>5 DEF HandleHashChange, Rerun, Attempts, gateVars, historyVars, Types, PasteTypes, NothingEmpty
<1>6. CASE HandleReveal
  BY <1>6 DEF HandleReveal, Send, Call, NoCall, gateVars, historyVars, Types, PasteTypes, NothingEmpty
<1>7. CASE HandleFork
  BY <1>7 DEF HandleFork, Send, Call, NoCall, gateVars, historyVars, Types, PasteTypes, NothingEmpty
<1>8. CASE EditForm
  BY <1>8 DEF EditForm, FormEnabled, Writing, gateVars, historyVars, Types, PasteTypes, NothingEmpty
<1>9. CASE HandleSubmit
  BY <1>9 DEF HandleSubmit, FormEnabled, Writing, Send, Call, NoCall, gateVars, Types, PasteTypes,
     NothingEmpty
<1>10. CASE CreateAnother
  BY <1>10 DEF CreateAnother, gateVars, historyVars, Types, PasteTypes, NothingEmpty
<1>11. ASSUME NEW right \in BOOLEAN, SubmitPassword(right) PROVE NothingEmpty'
  BY <1>11 DEF SubmitPassword, Send, Call, NoCall, historyVars, Types, PasteTypes, NothingEmpty
<1>12. ASSUME NEW d \in decrypts, DecryptLands(d) PROVE NothingEmpty'
  BY <1>12 DEF DecryptLands, gateVars, historyVars, Types, PasteTypes, NothingEmpty
<1>13. CASE CooldownElapsed
  BY <1>13 DEF CooldownElapsed, GateCooled, historyVars, Types, PasteTypes, NothingEmpty
<1>14. ASSUME NEW i \in CallIds, calls[i].status = "sent", CreateAnswered(i), UNCHANGED <<tabVars, used>>
       PROVE  NothingEmpty'
  <2>1. PICK s \in Slugs : pastes' = [pastes EXCEPT ![s] = calls[i].paste]
    BY <1>14, Created
  <2>2. calls[i].op = "create" /\ calls[i].paste.content # Blank /\ UNCHANGED took
    BY <1>14 DEF CreateAnswered
  <2>3. \A j \in CallIds :
            /\ calls'[j].op = calls[j].op /\ calls'[j].paste = calls[j].paste
            /\ j # i => calls'[j].status = calls[j].status
    BY <1>14, Created
  <2>4. \A r \in Slugs : pastes'[r] # NoPaste => pastes'[r].content # Blank
    BY <2>1, <2>2 DEF NothingEmpty, Types, PasteTypes
  <2> QED
    BY <2>2, <2>3, <2>4 DEF NothingEmpty
<1>15. ASSUME NEW i \in CallIds, calls[i].status = "sent", RevealAnswered(i), UNCHANGED <<tabVars, used>>
       PROVE  NothingEmpty'
  <2> DEFINE p == pastes[calls[i].slug]
  <2>1. calls[i].slug \in Slugs /\ p # NoPaste
    BY <1>15 DEF RevealAnswered, SlugsKnown
  <2>2. calls' = [calls EXCEPT ![i].paste = p, ![i].status = "ok"]
    BY <1>15 DEF RevealAnswered, Handed
  <2>3. \A j \in CallIds : /\ j # i => calls'[j] = calls[j]
                           /\ calls'[i].paste = p
    BY <2>2 DEF Types, CallTypes, CallRecord
  <2>4. p.content # Blank
    BY <2>1 DEF NothingEmpty
  <2> HIDE DEF p
  <2>5. took' \in {took, p.content} /\ (UNCHANGED pastes \/ pastes' = [pastes EXCEPT ![calls[i].slug] = NoPaste])
    BY <1>15 DEF RevealAnswered, Handed, GetPaste, p
  <2>6. \A r \in Slugs : pastes'[r] # NoPaste => pastes'[r].content # Blank
    BY <2>1, <2>5 DEF NothingEmpty, Types, PasteTypes
  <2>7. took' # NoContent => took' # Blank
    BY <2>4, <2>5 DEF NothingEmpty
  <2>8. ASSUME NEW j \in CallIds, calls'[j].op \in {"reveal", "unlock", "fork"}, calls'[j].status = "ok"
        PROVE  calls'[j].paste # NoPaste
    BY <2>1, <2>3, <2>8 DEF NothingEmpty, p
  <2> QED
    BY <2>6, <2>7, <2>8 DEF NothingEmpty
<1>29. ASSUME NEW i \in CallIds, calls[i].status = "sent", RevealRefused(i), UNCHANGED <<tabVars, used>>
       PROVE  NothingEmpty'
  <2> DEFINE p == pastes[calls[i].slug]
  <2>1. calls[i].slug \in Slugs /\ p # NoPaste
    BY <1>29 DEF RevealRefused, SlugsKnown
  <2>2. calls' = [calls EXCEPT ![i].status = "unauthorized"]
    BY <1>29 DEF RevealRefused
  <2>3. \A j \in CallIds : (j # i => calls'[j] = calls[j]) /\ calls'[i].status # "ok"
    BY <2>2 DEF Types, CallTypes, CallRecord
  <2>4. p.content # Blank
    BY <2>1 DEF NothingEmpty
  <2> HIDE DEF p
  <2>5. took' \in {took, p.content} /\ (UNCHANGED pastes \/ pastes' = [pastes EXCEPT ![calls[i].slug] = NoPaste])
    BY <1>29 DEF RevealRefused, GetPaste, p
  <2>6. \A r \in Slugs : pastes'[r] # NoPaste => pastes'[r].content # Blank
    BY <2>1, <2>5 DEF NothingEmpty, Types, PasteTypes
  <2>7. took' # NoContent => took' # Blank
    BY <2>4, <2>5 DEF NothingEmpty
  <2>8. ASSUME NEW j \in CallIds, calls'[j].op \in {"reveal", "unlock", "fork"}, calls'[j].status = "ok"
        PROVE  calls'[j].paste # NoPaste
    BY <2>3, <2>8 DEF NothingEmpty
  <2> QED
    BY <2>6, <2>7, <2>8 DEF NothingEmpty
<1>16. ASSUME NEW i \in CallIds, calls[i].status = "sent", ForkAnswered(i), UNCHANGED <<tabVars, used>>
       PROVE  NothingEmpty'
  <2> DEFINE p == pastes[calls[i].slug]
  <2>1. calls[i].slug \in Slugs /\ p # NoPaste
    BY <1>16 DEF ForkAnswered, SlugsKnown
  <2>2. calls' = [calls EXCEPT ![i].paste = p, ![i].status = "ok"]
    BY <1>16 DEF ForkAnswered, Handed
  <2>3. \A j \in CallIds : /\ j # i => calls'[j] = calls[j]
                           /\ calls'[i].paste = p
    BY <2>2 DEF Types, CallTypes, CallRecord
  <2>4. p.content # Blank
    BY <2>1 DEF NothingEmpty
  <2> HIDE DEF p
  <2>5. took' \in {took, p.content} /\ (UNCHANGED pastes \/ pastes' = [pastes EXCEPT ![calls[i].slug] = NoPaste])
    BY <1>16 DEF ForkAnswered, Handed, GetPaste, p
  <2>6. \A r \in Slugs : pastes'[r] # NoPaste => pastes'[r].content # Blank
    BY <2>1, <2>5 DEF NothingEmpty, Types, PasteTypes
  <2>7. took' # NoContent => took' # Blank
    BY <2>4, <2>5 DEF NothingEmpty
  <2>8. ASSUME NEW j \in CallIds, calls'[j].op \in {"reveal", "unlock", "fork"}, calls'[j].status = "ok"
        PROVE  calls'[j].paste # NoPaste
    BY <2>1, <2>3, <2>8 DEF NothingEmpty, p
  <2> QED
    BY <2>6, <2>7, <2>8 DEF NothingEmpty
<1>17. ASSUME NEW i \in CallIds, calls[i].status = "sent", UnlockRefused(i), UNCHANGED <<tabVars, used>>
       PROVE  NothingEmpty'
  BY <1>17 DEF UnlockRefused, tabVars, gateVars, Types, PasteTypes, NothingEmpty
<1>18. ASSUME NEW i \in CallIds, calls[i].status = "sent", UnlockGranted(i), UNCHANGED <<tabVars, used>>
       PROVE  NothingEmpty'
  <2> DEFINE p == pastes[calls[i].slug]
  <2>1. calls[i].slug \in Slugs /\ p # NoPaste
    BY <1>18 DEF UnlockGranted, SlugsKnown
  <2>2. calls' = [calls EXCEPT ![i].paste = p, ![i].status = "ok"]
    BY <1>18 DEF UnlockGranted, Handed
  <2>3. \A j \in CallIds : /\ j # i => calls'[j] = calls[j]
                           /\ calls'[i].paste = p
    BY <2>2 DEF Types, CallTypes, CallRecord
  <2>4. p.content # Blank
    BY <2>1 DEF NothingEmpty
  <2> HIDE DEF p
  <2>5. took' \in {took, p.content} /\ (UNCHANGED pastes \/ pastes' = [pastes EXCEPT ![calls[i].slug] = NoPaste])
    BY <1>18 DEF UnlockGranted, Handed, GetPaste, p
  <2>6. \A r \in Slugs : pastes'[r] # NoPaste => pastes'[r].content # Blank
    BY <2>1, <2>5 DEF NothingEmpty, Types, PasteTypes
  <2>7. took' # NoContent => took' # Blank
    BY <2>4, <2>5 DEF NothingEmpty
  <2>8. ASSUME NEW j \in CallIds, calls'[j].op \in {"reveal", "unlock", "fork"}, calls'[j].status = "ok"
        PROVE  calls'[j].paste # NoPaste
    BY <2>1, <2>3, <2>8 DEF NothingEmpty, p
  <2> QED
    BY <2>6, <2>7, <2>8 DEF NothingEmpty
<1>19. ASSUME NEW i \in CallIds, NEW s \in DOMAIN EventForStatus, RevealLands(i, s), s = "ok" => calls[i].status = "ok", UNCHANGED pastes
       PROVE  NothingEmpty'
  BY <1>19 DEF RevealLands, Without, NoCall, Rerun, Attempts, gateVars, Types, PasteTypes, NothingEmpty
<1>20. ASSUME NEW i \in CallIds, NEW s \in DOMAIN EventForStatus, ForkLands(i, s), s = "ok" => calls[i].status = "ok", UNCHANGED pastes
       PROVE  NothingEmpty'
  <2>1. CASE mounted = "form"
    BY <1>20, <2>1 DEF ForkLands, Without, NoCall, Types, CallTypes, NothingEmpty
  <2>2. CASE mounted # "form"
    <3>1. Without(i) \in Remainders /\ Leave(Without(i)) /\ UNCHANGED pastes
      BY <1>20, <2>2 DEF ForkLands, Remainders
    <3>2. \A j \in CallIds :
              calls'[j].op # "none" =>
                  calls'[j].op = calls[j].op /\ calls'[j].paste = calls[j].paste /\ calls'[j].status = calls[j].status
      BY <3>1, Left DEF Leave
    <3>3. took' = NoContent
      BY <3>1 DEF Leave
    <3> QED
      BY <3>1, <3>2, <3>3 DEF NothingEmpty
  <2> QED
    BY <2>1, <2>2
<1>21. ASSUME NEW i \in CallIds, NEW s \in DOMAIN EventForStatus, ForkFails(i, s), s = "ok" => calls[i].status = "ok", UNCHANGED pastes
       PROVE  NothingEmpty'
  BY <1>21 DEF ForkFails, Without, NoCall, gateVars, historyVars, Types, PasteTypes, NothingEmpty
<1>22. ASSUME NEW i \in CallIds, NEW s \in DOMAIN EventForStatus, CreateShowsLink(i, s), s = "ok" => calls[i].status = "ok", UNCHANGED pastes
       PROVE  NothingEmpty'
  BY <1>22 DEF CreateShowsLink, Without, NoCall, LinkOf, Given, gateVars, Types, PasteTypes,
     NothingEmpty
<1>23. ASSUME NEW i \in CallIds, NEW s \in DOMAIN EventForStatus, CreateRedirects(i, s), s = "ok" => calls[i].status = "ok", UNCHANGED pastes
       PROVE  NothingEmpty'
  <2>0. Without(i) \in Remainders
    BY DEF Remainders
  <2>1. \A j \in CallIds :
            calls'[j].op # "none" =>
                /\ calls'[j].op = calls[j].op /\ calls'[j].slug = calls[j].slug /\ calls'[j].paste = calls[j].paste
                /\ calls'[j].plain = calls[j].plain /\ calls'[j].key = calls[j].key /\ calls'[j].status = calls[j].status
    BY <1>23, <2>0, Left DEF CreateRedirects, Enter, Leave
  <2>2. took' \in {took, NoContent} /\ UNCHANGED pastes
    BY <1>23 DEF CreateRedirects, Enter, Leave
  <2> QED
    BY <2>1, <2>2 DEF NothingEmpty
<1>24. ASSUME NEW i \in CallIds, NEW s \in DOMAIN EventForStatus, CreateFails(i, s), s = "ok" => calls[i].status = "ok", UNCHANGED pastes
       PROVE  NothingEmpty'
  BY <1>24 DEF CreateFails, Without, NoCall, gateVars, historyVars, Types, PasteTypes, NothingEmpty
<1>25. ASSUME NEW i \in CallIds, NEW s \in DOMAIN EventForStatus, UnlockLands(i, s), s = "ok" => calls[i].status = "ok", UNCHANGED pastes
       PROVE  NothingEmpty'
  BY <1>25 DEF UnlockLands, Without, NoCall, Mount, ViewerOf, InitialViewer, Types, PasteTypes,
     NothingEmpty
<1>26. ASSUME NEW i \in CallIds, NEW s \in DOMAIN EventForStatus, LandsNowhere(i, s), s = "ok" => calls[i].status = "ok", UNCHANGED pastes
       PROVE  NothingEmpty'
  BY <1>26 DEF LandsNowhere, Without, NoCall, tabVars, gateVars, historyVars, Types, PasteTypes,
     NothingEmpty
<1>27. ASSUME NEW s \in Slugs, Vanish(s) PROVE NothingEmpty'
  BY <1>27 DEF Vanish, tabVars, gateVars, historyVars, Types, PasteTypes, NothingEmpty
<1>28. CASE UNCHANGED vars
  BY <1>28 DEF vars, tabVars, gateVars, historyVars, Types, PasteTypes, NothingEmpty
<1> QED
  BY <1>1, <1>2, <1>3, <1>4, <1>5, <1>6, <1>7, <1>8, <1>9, <1>10, <1>11, <1>12, <1>13, <1>14, <1>15,
     <1>16, <1>17, <1>18, <1>19, <1>20, <1>21, <1>22, <1>23, <1>24, <1>25, <1>26, <1>27,
     <1>28, <1>29 DEF StepCases

\* Next preserves what has become of a burned paste.
LEMMA BurnedStep ==
    ASSUME Types, ScreenOK, NothingEmpty, BurnedIsShown, StepCases
    PROVE  BurnedIsShown'
<1>1. ASSUME NEW p \in Entrances, NEW remaining \in Remainders, Enter(p, remaining), UNCHANGED <<pastes, used, links>>
      PROVE  BurnedIsShown'
  BY <1>1 DEF Enter, Leave, Disowned, GateReset, InitialForm, InitialViewer, Types, CallTypes,
     CallRecord, TabTypes, ViewerRecord, ScreenOK, Own, Viewing, GateShown, NothingEmpty, BurnedIsShown, BurnedIsSeen
<1>2. CASE page.at = "loading" /\ ShowPaste /\ UNCHANGED <<form, gateVars, calls, used, links>>
  BY <1>2 DEF ShowPaste, GetPaste, Mount, ViewerOf, InitialViewer, gateVars, Types, CallTypes,
     CallRecord, TabTypes, ViewerRecord, ScreenOK, Own, Viewing, GateShown, NothingEmpty, BurnedIsShown, BurnedIsSeen
<1>3. CASE page.at = "loading" /\ AskForPassword /\ UNCHANGED <<form, gateVars, calls, used, links>>
  BY <1>3 DEF AskForPassword, Page, gateVars, Types, CallTypes, CallRecord, TabTypes, ViewerRecord,
     ScreenOK, Own, Viewing, GateShown, NothingEmpty, BurnedIsShown, BurnedIsSeen
<1>4. CASE page.at = "loading" /\ ShowError /\ UNCHANGED <<form, gateVars, calls, used, links>>
  BY <1>4 DEF ShowError, gateVars, Types, CallTypes, CallRecord, TabTypes, ViewerRecord, ScreenOK, Own,
     Viewing, GateShown, NothingEmpty, BurnedIsShown, BurnedIsSeen
<1>5. ASSUME NEW k \in Keys, HandleHashChange(k) PROVE BurnedIsShown'
  BY <1>5 DEF HandleHashChange, Rerun, Attempts, gateVars, historyVars, Types, CallTypes, CallRecord,
     TabTypes, ViewerRecord, ScreenOK, Own, Viewing, GateShown, NothingEmpty, BurnedIsShown, BurnedIsSeen
<1>6. CASE HandleReveal
  BY <1>6 DEF HandleReveal, Send, Call, NoCall, gateVars, historyVars, Types, CallTypes, CallRecord,
     TabTypes, ViewerRecord, ScreenOK, Own, Viewing, GateShown, NothingEmpty, BurnedIsShown, BurnedIsSeen
<1>7. CASE HandleFork
  BY <1>7 DEF HandleFork, Send, Call, NoCall, gateVars, historyVars, Types, CallTypes, CallRecord,
     TabTypes, ViewerRecord, ScreenOK, Own, Viewing, GateShown, NothingEmpty, BurnedIsShown, BurnedIsSeen
<1>8. CASE EditForm
  BY <1>8 DEF EditForm, FormEnabled, Writing, gateVars, historyVars, Types, CallTypes, CallRecord,
     TabTypes, ViewerRecord, ScreenOK, Own, Viewing, GateShown, NothingEmpty, BurnedIsShown, BurnedIsSeen
<1>9. CASE HandleSubmit
  BY <1>9 DEF HandleSubmit, FormEnabled, Writing, Send, Call, NoCall, gateVars, Types, CallTypes,
     CallRecord, TabTypes, ViewerRecord, ScreenOK, Own, Viewing, GateShown, NothingEmpty, BurnedIsShown, BurnedIsSeen
<1>10. CASE CreateAnother
  BY <1>10 DEF CreateAnother, gateVars, historyVars, Types, CallTypes, CallRecord, TabTypes,
     ViewerRecord, ScreenOK, Own, Viewing, GateShown, NothingEmpty, BurnedIsShown, BurnedIsSeen
<1>11. ASSUME NEW right \in BOOLEAN, SubmitPassword(right) PROVE BurnedIsShown'
  BY <1>11 DEF SubmitPassword, Send, Call, NoCall, historyVars, Types, CallTypes, CallRecord, TabTypes,
     ViewerRecord, ScreenOK, Own, Viewing, GateShown, NothingEmpty, BurnedIsShown, BurnedIsSeen
<1>12. ASSUME NEW d \in decrypts, DecryptLands(d) PROVE BurnedIsShown'
  BY <1>12 DEF DecryptLands, gateVars, historyVars, Types, CallTypes, CallRecord, TabTypes, ViewerRecord,
     ScreenOK, Own, Viewing, GateShown, NothingEmpty, BurnedIsShown, BurnedIsSeen
<1>13. CASE CooldownElapsed
  BY <1>13 DEF CooldownElapsed, GateCooled, historyVars, Types, CallTypes, CallRecord, TabTypes,
     ViewerRecord, ScreenOK, Own, Viewing, GateShown, NothingEmpty, BurnedIsShown, BurnedIsSeen
<1>14. ASSUME NEW i \in CallIds, calls[i].status = "sent", CreateAnswered(i), UNCHANGED <<tabVars, used>>
       PROVE  BurnedIsShown'
  <2>1. calls[i].op = "create" /\ UNCHANGED took
    BY <1>14 DEF CreateAnswered
  <2>2. \A j \in CallIds :
            /\ calls'[j].own = calls[j].own /\ calls'[j].op = calls[j].op /\ calls'[j].paste = calls[j].paste
            /\ j # i => calls'[j].status = calls[j].status
    BY <1>14, Created
  <2>3. UNCHANGED <<viewer, mounted>>
    BY SMTT(30), <1>14 DEF tabVars
  <2> QED
    BY <2>1, <2>2, <2>3 DEF BurnedIsShown, BurnedIsSeen, Viewing
<1>15. ASSUME NEW i \in CallIds, calls[i].status = "sent", RevealAnswered(i), UNCHANGED <<tabVars, used>>
       PROVE  BurnedIsShown'
  BY SMTT(30), <1>15 DEF RevealAnswered, Handed, GetPaste, tabVars, gateVars, Types, CallTypes, CallRecord,
     TabTypes, ViewerRecord, ScreenOK, Own, Viewing, GateShown, NothingEmpty, BurnedIsShown, BurnedIsSeen
<1>29. ASSUME NEW i \in CallIds, calls[i].status = "sent", RevealRefused(i), UNCHANGED <<tabVars, used>>
       PROVE  BurnedIsShown'
  BY <1>29 DEF RevealRefused, GetPaste, tabVars, gateVars, Types, CallTypes, CallRecord,
     TabTypes, ViewerRecord, ScreenOK, Own, Viewing, GateShown, NothingEmpty, BurnedIsShown, BurnedIsSeen
<1>16. ASSUME NEW i \in CallIds, calls[i].status = "sent", ForkAnswered(i), UNCHANGED <<tabVars, used>>
       PROVE  BurnedIsShown'
  BY <1>16 DEF ForkAnswered, tabVars, gateVars, Types, CallTypes, CallRecord, TabTypes, ViewerRecord,
     ScreenOK, Own, Viewing, GateShown, NothingEmpty, BurnedIsShown, BurnedIsSeen
<1>17. ASSUME NEW i \in CallIds, calls[i].status = "sent", UnlockRefused(i), UNCHANGED <<tabVars, used>>
       PROVE  BurnedIsShown'
  BY SMTT(30), <1>17 DEF UnlockRefused, tabVars, gateVars, Types, CallTypes, CallRecord, TabTypes, ViewerRecord,
     ScreenOK, Own, Viewing, GateShown, NothingEmpty, BurnedIsShown, BurnedIsSeen
<1>18. ASSUME NEW i \in CallIds, calls[i].status = "sent", UnlockGranted(i), UNCHANGED <<tabVars, used>>
       PROVE  BurnedIsShown'
  BY <1>18 DEF UnlockGranted, Handed, GetPaste, tabVars, gateVars, Types, CallTypes, CallRecord,
     TabTypes, ViewerRecord, ScreenOK, Own, Viewing, GateShown, NothingEmpty, BurnedIsShown, BurnedIsSeen
<1>19. ASSUME NEW i \in CallIds, NEW s \in DOMAIN EventForStatus, RevealLands(i, s), s = "ok" => calls[i].status = "ok", UNCHANGED pastes
       PROVE  BurnedIsShown'
  <2>1. ASSUME NEW j \in CallIds, calls[j].own, calls[j].op \in {"reveal", "unlock"} PROVE j = i
    BY <1>19, <2>1 DEF RevealLands, ScreenOK, Own, Viewing, GateShown
  <2>2. Viewing /\ ~viewer.revealed /\ UNCHANGED mounted
    BY <1>19 DEF RevealLands, ScreenOK, Own
  <2>3. CASE s = "ok" /\ took # NoContent
    <3>1. calls[i].paste.content = took
      BY <1>19, <2>1, <2>2, <2>3 DEF BurnedIsShown, BurnedIsSeen
    <3>2. viewer'.content = took /\ viewer'.revealed /\ UNCHANGED took
      BY <1>19, <2>3, <3>1 DEF RevealLands, Rerun, Types, TabTypes, ViewerRecord
    <3> QED
      BY <2>2, <3>2 DEF BurnedIsShown, BurnedIsSeen, Viewing
  <2>4. CASE s # "ok" \/ took = NoContent
    BY <1>19, <2>4 DEF RevealLands, BurnedIsShown, BurnedIsSeen
  <2> QED
    BY <2>3, <2>4
<1>20. ASSUME NEW i \in CallIds, NEW s \in DOMAIN EventForStatus, ForkLands(i, s), s = "ok" => calls[i].status = "ok", UNCHANGED pastes
       PROVE  BurnedIsShown'
  BY <1>20 DEF ForkLands, Without, NoCall, Leave, Disowned, GateReset, Page, InitialForm, InitialViewer,
     gateVars, Types, CallTypes, CallRecord, TabTypes, ViewerRecord, ScreenOK, Own, Viewing, GateShown,
     NothingEmpty, BurnedIsShown, BurnedIsSeen
<1>21. ASSUME NEW i \in CallIds, NEW s \in DOMAIN EventForStatus, ForkFails(i, s), s = "ok" => calls[i].status = "ok", UNCHANGED pastes
       PROVE  BurnedIsShown'
  BY <1>21 DEF ForkFails, Without, NoCall, gateVars, historyVars, Types, CallTypes, CallRecord, TabTypes,
     ViewerRecord, ScreenOK, Own, Viewing, GateShown, NothingEmpty, BurnedIsShown, BurnedIsSeen
<1>22. ASSUME NEW i \in CallIds, NEW s \in DOMAIN EventForStatus, CreateShowsLink(i, s), s = "ok" => calls[i].status = "ok", UNCHANGED pastes
       PROVE  BurnedIsShown'
  BY <1>22 DEF CreateShowsLink, Without, NoCall, LinkOf, Given, gateVars, Types, CallTypes, CallRecord,
     TabTypes, ViewerRecord, ScreenOK, Own, Viewing, GateShown, NothingEmpty, BurnedIsShown, BurnedIsSeen
<1>23. ASSUME NEW i \in CallIds, NEW s \in DOMAIN EventForStatus, CreateRedirects(i, s), s = "ok" => calls[i].status = "ok", UNCHANGED pastes
       PROVE  BurnedIsShown'
  BY <1>23 DEF CreateRedirects, Without, NoCall, Enter, Leave, Disowned, GateReset, Page, InitialForm,
     InitialViewer, LinkOf, Given, Types, CallTypes, CallRecord, TabTypes, ViewerRecord, ScreenOK, Own,
     Viewing, GateShown, NothingEmpty, BurnedIsShown, BurnedIsSeen
<1>24. ASSUME NEW i \in CallIds, NEW s \in DOMAIN EventForStatus, CreateFails(i, s), s = "ok" => calls[i].status = "ok", UNCHANGED pastes
       PROVE  BurnedIsShown'
  BY <1>24 DEF CreateFails, Without, NoCall, gateVars, historyVars, Types, CallTypes, CallRecord,
     TabTypes, ViewerRecord, ScreenOK, Own, Viewing, GateShown, NothingEmpty, BurnedIsShown, BurnedIsSeen
<1>25. ASSUME NEW i \in CallIds, NEW s \in DOMAIN EventForStatus, UnlockLands(i, s), s = "ok" => calls[i].status = "ok", UNCHANGED pastes
       PROVE  BurnedIsShown'
  <2>1. ASSUME NEW j \in CallIds, calls[j].own, calls[j].op \in {"reveal", "unlock"} PROVE j = i
    BY <1>25, <2>1 DEF UnlockLands, ScreenOK, Own, Viewing, GateShown
  <2>2. ~Viewing
    BY <1>25 DEF UnlockLands, ScreenOK, Own, Viewing, GateShown
  <2>3. CASE s = "ok" /\ took # NoContent
    <3>1. calls[i].paste.content = took /\ took # Blank
      BY <1>25, <2>1, <2>2, <2>3 DEF BurnedIsShown, BurnedIsSeen, NothingEmpty
    <3>2. calls[i].paste \in Pastes
      BY <1>25, <2>3 DEF UnlockLands, NothingEmpty, Types, CallTypes, CallRecord
    <3>5. took \in Contents /\ page.slug \in Maybe(Slugs) /\ page.key \in Maybe(Keys)
      BY <3>1, <3>2 DEF Pastes, Types, TabTypes, Places
    <3> DEFINE v == ViewerOf(page.slug, calls[i].paste, took, page.key)
    <3>3. v.content = took /\ v.revealed = (~calls[i].paste.burn \/ took # Blank)
      BY <3>2, <3>5, Records
    <3>4. viewer' = v /\ mounted' = "viewer" /\ UNCHANGED took
      BY <1>25, <2>3, <3>1 DEF UnlockLands, Mount
    <3> HIDE DEF v
    <3> QED
      BY <3>1, <3>3, <3>4 DEF BurnedIsShown, BurnedIsSeen, Viewing
  <2>4. CASE s # "ok" \/ took = NoContent
    BY <1>25, <2>4 DEF UnlockLands, BurnedIsShown, BurnedIsSeen
  <2> QED
    BY <2>3, <2>4
<1>26. ASSUME NEW i \in CallIds, NEW s \in DOMAIN EventForStatus, LandsNowhere(i, s), s = "ok" => calls[i].status = "ok", UNCHANGED pastes
       PROVE  BurnedIsShown'
  BY <1>26 DEF LandsNowhere, Without, NoCall, tabVars, gateVars, historyVars, Types, CallTypes,
     CallRecord, TabTypes, ViewerRecord, ScreenOK, Own, Viewing, GateShown, NothingEmpty, BurnedIsShown, BurnedIsSeen
<1>27. ASSUME NEW s \in Slugs, Vanish(s) PROVE BurnedIsShown'
  BY <1>27 DEF Vanish, tabVars, gateVars, historyVars, Types, CallTypes, CallRecord, TabTypes,
     ViewerRecord, ScreenOK, Own, Viewing, GateShown, NothingEmpty, BurnedIsShown, BurnedIsSeen
<1>28. CASE UNCHANGED vars
  BY <1>28 DEF vars, tabVars, gateVars, historyVars, Types, CallTypes, CallRecord, TabTypes,
     ViewerRecord, ScreenOK, Own, Viewing, GateShown, NothingEmpty, BurnedIsShown, BurnedIsSeen
<1> QED
  BY <1>1, <1>2, <1>3, <1>4, <1>5, <1>6, <1>7, <1>8, <1>9, <1>10, <1>11, <1>12, <1>13, <1>14, <1>15,
     <1>16, <1>17, <1>18, <1>19, <1>20, <1>21, <1>22, <1>23, <1>24, <1>25, <1>26, <1>27,
     <1>28, <1>29 DEF StepCases

\* Next preserves what was promised of a text.
LEMMA PromisesStep ==
    ASSUME Types, SlugsKnown, PromisesOK, StepCases
    PROVE  PromisesOK'
<1>1. ASSUME NEW p \in Entrances, NEW remaining \in Remainders, Enter(p, remaining), UNCHANGED <<pastes, used, links>>
      PROVE  PromisesOK'
  <2>1. \A j \in CallIds :
            calls'[j].op # "none" =>
                /\ calls'[j].op = calls[j].op /\ calls'[j].slug = calls[j].slug /\ calls'[j].paste = calls[j].paste
                /\ calls'[j].plain = calls[j].plain /\ calls'[j].key = calls[j].key /\ calls'[j].status = calls[j].status
    BY <1>1, Left DEF Enter, Leave
  <2>2. UNCHANGED pastes
    BY <1>1
  <2> QED
    BY <2>1, <2>2 DEF PromisesOK
<1>2. CASE page.at = "loading" /\ ShowPaste /\ UNCHANGED <<form, gateVars, calls, used, links>>
  BY <1>2 DEF ShowPaste, GetPaste, Mount, ViewerOf, InitialViewer, gateVars, Types, CallTypes,
     CallRecord, PasteTypes, PromisesOK
<1>3. CASE page.at = "loading" /\ AskForPassword /\ UNCHANGED <<form, gateVars, calls, used, links>>
  BY <1>3 DEF AskForPassword, Page, gateVars, Types, CallTypes, CallRecord, PasteTypes, PromisesOK
<1>4. CASE page.at = "loading" /\ ShowError /\ UNCHANGED <<form, gateVars, calls, used, links>>
  BY <1>4 DEF ShowError, gateVars, Types, CallTypes, CallRecord, PasteTypes, PromisesOK
<1>5. ASSUME NEW k \in Keys, HandleHashChange(k) PROVE PromisesOK'
  BY <1>5 DEF HandleHashChange, Rerun, Attempts, gateVars, historyVars, Types, CallTypes, CallRecord,
     PasteTypes, PromisesOK
<1>6. CASE HandleReveal
  BY <1>6 DEF HandleReveal, Send, Call, NoCall, gateVars, historyVars, Types, CallTypes, CallRecord,
     PasteTypes, PromisesOK
<1>7. CASE HandleFork
  BY <1>7 DEF HandleFork, Send, Call, NoCall, gateVars, historyVars, Types, CallTypes, CallRecord,
     PasteTypes, PromisesOK
<1>8. CASE EditForm
  BY <1>8 DEF EditForm, FormEnabled, Writing, gateVars, historyVars, Types, CallTypes, CallRecord,
     PasteTypes, PromisesOK
<1>9. CASE HandleSubmit
  <2>1. PICK k \in IF form.encrypted THEN Keys \ used ELSE {None} :
            LET c == IF form.encrypted THEN EncryptText(form.content, k) ELSE form.content
            IN  Send([Call("create", form.wanted) EXCEPT
                          !.paste = Paste(c, form.encrypted, form.burn, form.guarded),
                          !.plain = form.content, !.key = k])
    BY <1>9 DEF HandleSubmit
  <2> DEFINE c == IF form.encrypted THEN EncryptText(form.content, k) ELSE form.content
             p == Paste(c, form.encrypted, form.burn, form.guarded)
             call == [Call("create", form.wanted) EXCEPT !.paste = p, !.plain = form.content, !.key = k]
  <2>2. form.content \in Contents /\ form.encrypted \in BOOLEAN
    BY DEF Types, TabTypes, FormRecord
  <2>3. IF k = None THEN ~form.encrypted /\ c = form.content
        ELSE form.encrypted /\ Opens(c, k) /\ DecryptText(c) = form.content
    BY <2>1, <2>2, ContentFacts, PagesAssumption
  <2>4. p.encrypted = form.encrypted /\ p.content = c
    BY DEF Paste
  <2> HIDE DEF c, p
  <2>5. call.paste = p /\ call.plain = form.content /\ call.key = k /\ call.status = "sent"
    BY DEF Call, NoCall
  <2>6. PICK i \in CallIds : calls' = [calls EXCEPT ![i] = call]
    BY <2>1 DEF Send, c, p
  <2> HIDE DEF call
  <2>7. UNCHANGED pastes
    BY <1>9 DEF HandleSubmit
  <2>8. calls'[i] = call /\ \A j \in CallIds : j # i => calls'[j] = calls[j]
    BY <2>6 DEF Types, CallTypes
  <2> QED
    BY <2>3, <2>4, <2>5, <2>7, <2>8 DEF PromisesOK
<1>10. CASE CreateAnother
  BY <1>10 DEF CreateAnother, gateVars, historyVars, Types, CallTypes, CallRecord, PasteTypes,
     PromisesOK
<1>11. ASSUME NEW right \in BOOLEAN, SubmitPassword(right) PROVE PromisesOK'
  BY <1>11 DEF SubmitPassword, Send, Call, NoCall, historyVars, Types, CallTypes, CallRecord, PasteTypes,
     PromisesOK
<1>12. ASSUME NEW d \in decrypts, DecryptLands(d) PROVE PromisesOK'
  BY <1>12 DEF DecryptLands, gateVars, historyVars, Types, CallTypes, CallRecord, PasteTypes, PromisesOK
<1>13. CASE CooldownElapsed
  BY <1>13 DEF CooldownElapsed, GateCooled, historyVars, Types, CallTypes, CallRecord, PasteTypes,
     PromisesOK
<1>14. ASSUME NEW i \in CallIds, calls[i].status = "sent", CreateAnswered(i), UNCHANGED <<tabVars, used>>
       PROVE  PromisesOK'
  <2>1. PICK s \in Slugs :
            /\ pastes' = [pastes EXCEPT ![s] = calls[i].paste]
            /\ calls'[i].slug = s
            /\ \A j \in CallIds :
                   /\ calls'[j].op = calls[j].op /\ calls'[j].paste = calls[j].paste /\ calls'[j].key = calls[j].key
                   /\ calls'[j].plain \in {calls[j].plain, NoContent}
                   /\ j # i => /\ calls'[j].slug = calls[j].slug /\ calls'[j].status = calls[j].status
                               /\ calls[j].op = "create" /\ calls[j].status = "ok" /\ calls[j].slug = s =>
                                      calls'[j].plain = NoContent
    BY <1>14, Created
  <2>2. ASSUME NEW j \in CallIds, calls'[j].op = "create", calls'[j].plain # NoContent, calls'[j].status = "ok"
        PROVE  pastes'[calls'[j].slug] \in {NoPaste, calls'[j].paste}
    <3>1. CASE j = i
      BY <2>1, <3>1 DEF Types, PasteTypes
    <3>2. CASE j # i
      BY SMTT(30), <2>1, <2>2, <3>2 DEF Types, PasteTypes, SlugsKnown, PromisesOK
    <3> QED
      BY <3>1, <3>2
  <2> QED
    BY <2>1, <2>2 DEF PromisesOK
<1>15. ASSUME NEW i \in CallIds, calls[i].status = "sent", RevealAnswered(i), UNCHANGED <<tabVars, used>>
       PROVE  PromisesOK'
  BY <1>15 DEF RevealAnswered, Handed, GetPaste, tabVars, gateVars, Types, CallTypes, CallRecord,
     PasteTypes, PromisesOK
<1>29. ASSUME NEW i \in CallIds, calls[i].status = "sent", RevealRefused(i), UNCHANGED <<tabVars, used>>
       PROVE  PromisesOK'
  <2>1. calls[i].op = "reveal" /\ calls' = [calls EXCEPT ![i].status = "unauthorized"]
    BY <1>29 DEF RevealRefused
  <2>2. UNCHANGED pastes \/ pastes' = [pastes EXCEPT ![calls[i].slug] = NoPaste]
    BY <1>29 DEF RevealRefused, GetPaste
  <2>3. \A s \in Slugs : pastes'[s] \in {pastes[s], NoPaste}
    BY <2>2 DEF Types, PasteTypes
  <2>4. \A j \in CallIds : IF j = i THEN calls'[j].op = "reveal" ELSE calls'[j] = calls[j]
    BY <2>1 DEF Types, CallTypes, CallRecord
  <2>5. ASSUME NEW j \in CallIds, calls[j].op = "create", calls[j].status = "ok" PROVE calls[j].slug \in Slugs
    BY SMTT(30), <2>5 DEF SlugsKnown
  <2> QED
    BY <2>3, <2>4, <2>5 DEF PromisesOK
<1>16. ASSUME NEW i \in CallIds, calls[i].status = "sent", ForkAnswered(i), UNCHANGED <<tabVars, used>>
       PROVE  PromisesOK'
  BY <1>16 DEF ForkAnswered, tabVars, gateVars, Types, CallTypes, CallRecord, PasteTypes, PromisesOK
<1>17. ASSUME NEW i \in CallIds, calls[i].status = "sent", UnlockRefused(i), UNCHANGED <<tabVars, used>>
       PROVE  PromisesOK'
  BY SMTT(30), <1>17 DEF UnlockRefused, tabVars, gateVars, Types, CallTypes, CallRecord, PasteTypes, PromisesOK
<1>18. ASSUME NEW i \in CallIds, calls[i].status = "sent", UnlockGranted(i), UNCHANGED <<tabVars, used>>
       PROVE  PromisesOK'
  BY <1>18 DEF UnlockGranted, Handed, GetPaste, tabVars, gateVars, Types, CallTypes, CallRecord,
     PasteTypes, PromisesOK
<1>19. ASSUME NEW i \in CallIds, NEW s \in DOMAIN EventForStatus, RevealLands(i, s), s = "ok" => calls[i].status = "ok", UNCHANGED pastes
       PROVE  PromisesOK'
  BY <1>19 DEF RevealLands, Without, NoCall, Rerun, Attempts, gateVars, Types, CallTypes, CallRecord,
     PasteTypes, PromisesOK
<1>20. ASSUME NEW i \in CallIds, NEW s \in DOMAIN EventForStatus, ForkLands(i, s), s = "ok" => calls[i].status = "ok", UNCHANGED pastes
       PROVE  PromisesOK'
  <2>1. CASE mounted = "form"
    BY <1>20, <2>1 DEF ForkLands, Without, NoCall, Types, CallTypes, PromisesOK
  <2>2. CASE mounted # "form"
    <3>1. Without(i) \in Remainders /\ Leave(Without(i)) /\ UNCHANGED pastes
      BY <1>20, <2>2 DEF ForkLands, Remainders
    <3>2. \A j \in CallIds :
              calls'[j].op # "none" =>
                  /\ calls'[j].op = calls[j].op /\ calls'[j].slug = calls[j].slug /\ calls'[j].paste = calls[j].paste
                  /\ calls'[j].plain = calls[j].plain /\ calls'[j].key = calls[j].key
                  /\ calls'[j].status = calls[j].status
      BY <3>1, Left DEF Leave
    <3> QED
      BY <3>1, <3>2 DEF PromisesOK
  <2> QED
    BY <2>1, <2>2
<1>21. ASSUME NEW i \in CallIds, NEW s \in DOMAIN EventForStatus, ForkFails(i, s), s = "ok" => calls[i].status = "ok", UNCHANGED pastes
       PROVE  PromisesOK'
  BY <1>21 DEF ForkFails, Without, NoCall, gateVars, historyVars, Types, CallTypes, CallRecord,
     PasteTypes, PromisesOK
<1>22. ASSUME NEW i \in CallIds, NEW s \in DOMAIN EventForStatus, CreateShowsLink(i, s), s = "ok" => calls[i].status = "ok", UNCHANGED pastes
       PROVE  PromisesOK'
  BY <1>22 DEF CreateShowsLink, Without, NoCall, LinkOf, Given, gateVars, Types, CallTypes, CallRecord,
     PasteTypes, PromisesOK
<1>23. ASSUME NEW i \in CallIds, NEW s \in DOMAIN EventForStatus, CreateRedirects(i, s), s = "ok" => calls[i].status = "ok", UNCHANGED pastes
       PROVE  PromisesOK'
  BY SMTT(30), <1>23 DEF CreateRedirects, Without, NoCall, Enter, Leave, Disowned, GateReset, Page, InitialForm,
     InitialViewer, LinkOf, Given, Types, CallTypes, CallRecord, PasteTypes, PromisesOK
<1>24. ASSUME NEW i \in CallIds, NEW s \in DOMAIN EventForStatus, CreateFails(i, s), s = "ok" => calls[i].status = "ok", UNCHANGED pastes
       PROVE  PromisesOK'
  BY <1>24 DEF CreateFails, Without, NoCall, gateVars, historyVars, Types, CallTypes, CallRecord,
     PasteTypes, PromisesOK
<1>25. ASSUME NEW i \in CallIds, NEW s \in DOMAIN EventForStatus, UnlockLands(i, s), s = "ok" => calls[i].status = "ok", UNCHANGED pastes
       PROVE  PromisesOK'
  BY <1>25 DEF UnlockLands, Without, NoCall, Mount, ViewerOf, InitialViewer, Types, CallTypes,
     CallRecord, PasteTypes, PromisesOK
<1>26. ASSUME NEW i \in CallIds, NEW s \in DOMAIN EventForStatus, LandsNowhere(i, s), s = "ok" => calls[i].status = "ok", UNCHANGED pastes
       PROVE  PromisesOK'
  BY <1>26 DEF LandsNowhere, Without, NoCall, tabVars, gateVars, historyVars, Types, CallTypes,
     CallRecord, PasteTypes, PromisesOK
<1>27. ASSUME NEW s \in Slugs, Vanish(s) PROVE PromisesOK'
  BY <1>27 DEF Vanish, tabVars, gateVars, historyVars, Types, CallTypes, CallRecord, PasteTypes,
     PromisesOK
<1>28. CASE UNCHANGED vars
  BY <1>28 DEF vars, tabVars, gateVars, historyVars, Types, CallTypes, CallRecord, PasteTypes,
     PromisesOK
<1> QED
  BY <1>1, <1>2, <1>3, <1>4, <1>5, <1>6, <1>7, <1>8, <1>9, <1>10, <1>11, <1>12, <1>13, <1>14, <1>15,
     <1>16, <1>17, <1>18, <1>19, <1>20, <1>21, <1>22, <1>23, <1>24, <1>25, <1>26, <1>27,
     <1>28, <1>29 DEF StepCases

\* Next preserves what the links open.
LEMMA LinksStep ==
    ASSUME Types, PromisesOK, LinkOpensPaste, StepCases
    PROVE  LinkOpensPaste'
<1>1. ASSUME NEW p \in Entrances, NEW remaining \in Remainders, Enter(p, remaining), UNCHANGED <<pastes, used, links>>
      PROVE  LinkOpensPaste'
  BY SMTT(30), <1>1 DEF Enter, Leave, Disowned, GateReset, InitialForm, InitialViewer, Types, CallTypes,
     CallRecord, PasteTypes, HistoryTypes, PromisesOK, LinkOpensPaste
<1>2. CASE page.at = "loading" /\ ShowPaste /\ UNCHANGED <<form, gateVars, calls, used, links>>
  BY <1>2 DEF ShowPaste, GetPaste, Mount, ViewerOf, InitialViewer, gateVars, Types, CallTypes,
     CallRecord, PasteTypes, HistoryTypes, PromisesOK, LinkOpensPaste
<1>3. CASE page.at = "loading" /\ AskForPassword /\ UNCHANGED <<form, gateVars, calls, used, links>>
  BY <1>3 DEF AskForPassword, Page, gateVars, Types, CallTypes, CallRecord, PasteTypes, HistoryTypes,
     PromisesOK, LinkOpensPaste
<1>4. CASE page.at = "loading" /\ ShowError /\ UNCHANGED <<form, gateVars, calls, used, links>>
  BY <1>4 DEF ShowError, gateVars, Types, CallTypes, CallRecord, PasteTypes, HistoryTypes, PromisesOK,
     LinkOpensPaste
<1>5. ASSUME NEW k \in Keys, HandleHashChange(k) PROVE LinkOpensPaste'
  BY <1>5 DEF HandleHashChange, Rerun, Attempts, gateVars, historyVars, Types, CallTypes, CallRecord,
     PasteTypes, HistoryTypes, PromisesOK, LinkOpensPaste
<1>6. CASE HandleReveal
  BY <1>6 DEF HandleReveal, Send, Call, NoCall, gateVars, historyVars, Types, CallTypes, CallRecord,
     PasteTypes, HistoryTypes, PromisesOK, LinkOpensPaste
<1>7. CASE HandleFork
  BY <1>7 DEF HandleFork, Send, Call, NoCall, gateVars, historyVars, Types, CallTypes, CallRecord,
     PasteTypes, HistoryTypes, PromisesOK, LinkOpensPaste
<1>8. CASE EditForm
  BY <1>8 DEF EditForm, FormEnabled, Writing, gateVars, historyVars, Types, CallTypes, CallRecord,
     PasteTypes, HistoryTypes, PromisesOK, LinkOpensPaste
<1>9. CASE HandleSubmit
  BY <1>9 DEF HandleSubmit, FormEnabled, Writing, Send, Call, NoCall, gateVars, Types, CallTypes,
     CallRecord, PasteTypes, HistoryTypes, PromisesOK, LinkOpensPaste
<1>10. CASE CreateAnother
  BY <1>10 DEF CreateAnother, gateVars, historyVars, Types, CallTypes, CallRecord, PasteTypes,
     HistoryTypes, PromisesOK, LinkOpensPaste
<1>11. ASSUME NEW right \in BOOLEAN, SubmitPassword(right) PROVE LinkOpensPaste'
  BY <1>11 DEF SubmitPassword, Send, Call, NoCall, historyVars, Types, CallTypes, CallRecord, PasteTypes,
     HistoryTypes, PromisesOK, LinkOpensPaste
<1>12. ASSUME NEW d \in decrypts, DecryptLands(d) PROVE LinkOpensPaste'
  BY <1>12 DEF DecryptLands, gateVars, historyVars, Types, CallTypes, CallRecord, PasteTypes,
     HistoryTypes, PromisesOK, LinkOpensPaste
<1>13. CASE CooldownElapsed
  BY <1>13 DEF CooldownElapsed, GateCooled, historyVars, Types, CallTypes, CallRecord, PasteTypes,
     HistoryTypes, PromisesOK, LinkOpensPaste
<1>14. ASSUME NEW i \in CallIds, calls[i].status = "sent", CreateAnswered(i), UNCHANGED <<tabVars, used>>
       PROVE  LinkOpensPaste'
  BY <1>14 DEF CreateAnswered, Superseded, NoContent, tabVars, gateVars, Types, CallTypes, CallRecord,
     PasteTypes, HistoryTypes, PromisesOK, LinkOpensPaste
<1>15. ASSUME NEW i \in CallIds, calls[i].status = "sent", RevealAnswered(i), UNCHANGED <<tabVars, used>>
       PROVE  LinkOpensPaste'
  BY <1>15 DEF RevealAnswered, Handed, GetPaste, tabVars, gateVars, Types, CallTypes, CallRecord,
     PasteTypes, HistoryTypes, PromisesOK, LinkOpensPaste
<1>29. ASSUME NEW i \in CallIds, calls[i].status = "sent", RevealRefused(i), UNCHANGED <<tabVars, used>>
       PROVE  LinkOpensPaste'
  BY <1>29 DEF RevealRefused, GetPaste, tabVars, gateVars, Types, CallTypes, CallRecord,
     PasteTypes, HistoryTypes, PromisesOK, LinkOpensPaste
<1>16. ASSUME NEW i \in CallIds, calls[i].status = "sent", ForkAnswered(i), UNCHANGED <<tabVars, used>>
       PROVE  LinkOpensPaste'
  BY <1>16 DEF ForkAnswered, tabVars, gateVars, Types, CallTypes, CallRecord, PasteTypes, HistoryTypes,
     PromisesOK, LinkOpensPaste
<1>17. ASSUME NEW i \in CallIds, calls[i].status = "sent", UnlockRefused(i), UNCHANGED <<tabVars, used>>
       PROVE  LinkOpensPaste'
  BY <1>17 DEF UnlockRefused, tabVars, gateVars, Types, CallTypes, CallRecord, PasteTypes, HistoryTypes,
     PromisesOK, LinkOpensPaste
<1>18. ASSUME NEW i \in CallIds, calls[i].status = "sent", UnlockGranted(i), UNCHANGED <<tabVars, used>>
       PROVE  LinkOpensPaste'
  BY <1>18 DEF UnlockGranted, Handed, GetPaste, tabVars, gateVars, Types, CallTypes, CallRecord,
     PasteTypes, HistoryTypes, PromisesOK, LinkOpensPaste
<1>19. ASSUME NEW i \in CallIds, NEW s \in DOMAIN EventForStatus, RevealLands(i, s), s = "ok" => calls[i].status = "ok", UNCHANGED pastes
       PROVE  LinkOpensPaste'
  BY <1>19 DEF RevealLands, Without, NoCall, Rerun, Attempts, gateVars, Types, CallTypes, CallRecord,
     PasteTypes, HistoryTypes, PromisesOK, LinkOpensPaste
<1>20. ASSUME NEW i \in CallIds, NEW s \in DOMAIN EventForStatus, ForkLands(i, s), s = "ok" => calls[i].status = "ok", UNCHANGED pastes
       PROVE  LinkOpensPaste'
  BY <1>20 DEF ForkLands, Without, NoCall, Leave, Disowned, GateReset, Page, InitialForm, InitialViewer,
     gateVars, Types, CallTypes, CallRecord, PasteTypes, HistoryTypes, PromisesOK, LinkOpensPaste
<1>21. ASSUME NEW i \in CallIds, NEW s \in DOMAIN EventForStatus, ForkFails(i, s), s = "ok" => calls[i].status = "ok", UNCHANGED pastes
       PROVE  LinkOpensPaste'
  BY <1>21 DEF ForkFails, Without, NoCall, gateVars, historyVars, Types, CallTypes, CallRecord,
     PasteTypes, HistoryTypes, PromisesOK, LinkOpensPaste
<1>22. ASSUME NEW i \in CallIds, NEW s \in DOMAIN EventForStatus, CreateShowsLink(i, s), s = "ok" => calls[i].status = "ok", UNCHANGED pastes
       PROVE  LinkOpensPaste'
  BY <1>22 DEF CreateShowsLink, Without, NoCall, LinkOf, Given, gateVars, Types, CallTypes, CallRecord,
     PasteTypes, HistoryTypes, PromisesOK, LinkOpensPaste
<1>23. ASSUME NEW i \in CallIds, NEW s \in DOMAIN EventForStatus, CreateRedirects(i, s), s = "ok" => calls[i].status = "ok", UNCHANGED pastes
       PROVE  LinkOpensPaste'
  BY SMTT(30), <1>23 DEF CreateRedirects, Without, NoCall, Enter, Leave, Disowned, GateReset, Page, InitialForm,
     InitialViewer, LinkOf, Given, Types, CallTypes, CallRecord, PasteTypes, HistoryTypes, PromisesOK,
     LinkOpensPaste
<1>24. ASSUME NEW i \in CallIds, NEW s \in DOMAIN EventForStatus, CreateFails(i, s), s = "ok" => calls[i].status = "ok", UNCHANGED pastes
       PROVE  LinkOpensPaste'
  BY <1>24 DEF CreateFails, Without, NoCall, gateVars, historyVars, Types, CallTypes, CallRecord,
     PasteTypes, HistoryTypes, PromisesOK, LinkOpensPaste
<1>25. ASSUME NEW i \in CallIds, NEW s \in DOMAIN EventForStatus, UnlockLands(i, s), s = "ok" => calls[i].status = "ok", UNCHANGED pastes
       PROVE  LinkOpensPaste'
  BY <1>25 DEF UnlockLands, Without, NoCall, Mount, ViewerOf, InitialViewer, Types, CallTypes,
     CallRecord, PasteTypes, HistoryTypes, PromisesOK, LinkOpensPaste
<1>26. ASSUME NEW i \in CallIds, NEW s \in DOMAIN EventForStatus, LandsNowhere(i, s), s = "ok" => calls[i].status = "ok", UNCHANGED pastes
       PROVE  LinkOpensPaste'
  BY <1>26 DEF LandsNowhere, Without, NoCall, tabVars, gateVars, historyVars, Types, CallTypes,
     CallRecord, PasteTypes, HistoryTypes, PromisesOK, LinkOpensPaste
<1>27. ASSUME NEW s \in Slugs, Vanish(s) PROVE LinkOpensPaste'
  BY <1>27 DEF Vanish, tabVars, gateVars, historyVars, Types, CallTypes, CallRecord, PasteTypes,
     HistoryTypes, PromisesOK, LinkOpensPaste
<1>28. CASE UNCHANGED vars
  BY <1>28 DEF vars, tabVars, gateVars, historyVars, Types, CallTypes, CallRecord, PasteTypes,
     HistoryTypes, PromisesOK, LinkOpensPaste
<1> QED
  BY <1>1, <1>2, <1>3, <1>4, <1>5, <1>6, <1>7, <1>8, <1>9, <1>10, <1>11, <1>12, <1>13, <1>14, <1>15,
     <1>16, <1>17, <1>18, <1>19, <1>20, <1>21, <1>22, <1>23, <1>24, <1>25, <1>26, <1>27,
     <1>28, <1>29 DEF StepCases

\* Every reachable state satisfies IInv, whatever the slugs and the keys, and
\* however many calls and events: TypeOK and the properties hold with it.
THEOREM Invariance == Spec => []IInv
<1> DEFINE Rest == ScreenOK /\ SlugsKnown /\ NothingEmpty /\ PromisesOK
           Parts == /\ Types /\ events \in 0..MaxEvents
                    /\ WaitingIsForSomething /\ BurnedIsShown /\ LinkOpensPaste /\ Rest
<1>1. IInv <=> Parts
  BY DEF IInv, TypeOK, Types, PasteTypes, TabTypes, Places, CallTypes, HistoryTypes
<1>2. ASSUME Init PROVE Parts
  <2>1. PICK s \in Slugs, p \in TheirPastes : pastes = [r \in Slugs |-> IF r = s THEN p ELSE NoPaste]
    BY <1>2 DEF Init
  <2>2. p \in Pastes /\ p.content # Blank
    <3>1. PICK e \in BOOLEAN, b \in BOOLEAN, g \in BOOLEAN :
              p = Paste(IF e THEN EncryptText(Plain(Theirs), OldKey) ELSE Plain(Theirs), e, b, g)
      BY DEF TheirPastes
    <3> DEFINE c == IF e THEN EncryptText(Plain(Theirs), OldKey) ELSE Plain(Theirs)
    <3>2. c \in Contents /\ c # Blank
      BY ContentFacts, PagesAssumption
    <3> HIDE DEF c
    <3> QED
      BY <3>1, <3>2 DEF c, Paste, Pastes
  <2>3. PasteTypes /\ \A r \in Slugs : pastes[r] # NoPaste => pastes[r].content # Blank
    BY <2>1, <2>2 DEF PasteTypes
  <2>4. /\ page = Page("home", None, None) /\ form = InitialForm /\ viewer = InitialViewer /\ mounted = "none"
        /\ decrypts = {} /\ GateInit /\ calls = [i \in CallIds |-> NoCall]
        /\ used = {OldKey} /\ links = {} /\ took = NoContent /\ events = 0
    BY <1>2 DEF Init
  <2>5. page \in Places /\ page.at = "home"
    BY <2>4 DEF Page, Places, Maybe
  <2>6. TabTypes
    BY <2>4, <2>5, Records DEF TabTypes
  <2>7. CallTypes
    BY <2>4 DEF CallTypes, NoCall, CallRecord, Maybe
  <2>8. GateTypeOK /\ gate = "idle"
    BY <2>4 DEF GateInit, GateTypeOK, GateStatuses
  <2>9. HistoryTypes /\ events \in 0..MaxEvents
    BY <2>4, PagesAssumption DEF HistoryTypes
  <2>10. \A i \in CallIds : calls[i].op = "none" /\ ~calls[i].own
    BY <2>4 DEF NoCall
  <2>11. WaitingIsForSomething /\ BurnedIsShown /\ LinkOpensPaste
    BY <2>4, <2>8 DEF WaitingIsForSomething, BurnedIsShown, BurnedIsSeen, LinkOpensPaste
  <2>12. Rest
    BY <2>3, <2>4, <2>5, <2>10 DEF ScreenOK, SlugsKnown, NothingEmpty, PromisesOK, Own, Viewing
  <2> QED
    BY <2>3, <2>6, <2>7, <2>8, <2>9, <2>11, <2>12 DEF Types
<1>3. Parts /\ [Next]_vars => Parts'
  <2> SUFFICES ASSUME Parts, [Next]_vars PROVE Parts'
    OBVIOUS
  <2>1. StepCases
    BY Steps
  <2>2. Types'
    BY <2>1, PasteTypesStep, TabTypesStep, GateTypesStep, CallTypesStep, HistoryTypesStep DEF Types
  <2>3. events' \in 0..MaxEvents
    BY PagesAssumption DEF Next, vars
  <2>4. WaitingIsForSomething' /\ BurnedIsShown' /\ LinkOpensPaste'
    BY <2>1, WaitingStep, BurnedStep, LinksStep
  <2>5. Rest'
    BY <2>1, ScreenStep, SlugsKnownStep, NothingEmptyStep, PromisesStep
  <2> QED
    BY <2>2, <2>3, <2>4, <2>5
<1> HIDE DEF Parts
<1>4. Spec => []Parts
  BY <1>2, <1>3, PTL DEF Spec
<1> QED
  BY <1>1, <1>4, PTL

\* No button of the form, the viewer or the gate waits for nothing
\* (submitting, revealing, forking, state.status).
THEOREM NoButtonIsStuck == Spec => []WaitingIsForSomething
<1>1. IInv => WaitingIsForSomething
  BY DEF IInv
<1> QED
  BY <1>1, Invariance, PTL

\* What a page has burned is shown on it, or on its way to it, unless it was burned
\* by a reveal the server refused (PasteViewer, PasswordGate, GetBySlug).
THEOREM NothingIsWasted == Spec => []BurnedIsShown
<1>1. IInv => BurnedIsShown
  BY DEF IInv
<1> QED
  BY <1>1, Invariance, PTL

\* Every link the visitor was given opens what he typed for it (PasteForm,
\* lib/crypto.ts).
THEOREM LinksKeepTheirPromise == Spec => []LinkOpensPaste
<1>1. IInv => LinkOpensPaste
  BY DEF IInv
<1> QED
  BY <1>1, Invariance, PTL

=============================================================================
