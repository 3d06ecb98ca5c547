----------------------------- MODULE PastePages -----------------------------
(***************************************************************************)
(* One browser tab on the paste pages: the form (app/new, PasteForm.tsx),  *)
(* the view page (app/[slug]/page.tsx, PasteViewer.tsx) and the unlock     *)
(* page (app/[slug]/unlock, PasswordGate.tsx), beside the server's pastes. *)
(*                                                                         *)
(* A page is mounted after the other.  What a handler awaits outlives the  *)
(* page: once it is unmounted its setters do nothing, while router.push    *)
(* still takes the visitor away from wherever he is.  A call's "own" says  *)
(* that the page it was made by is still there.                            *)
(*                                                                         *)
(* Titles, languages, expiry, highlighting and messages are left out.      *)
(* Contents are a text and the keys it was encrypted with, the last on top.*)
(***************************************************************************)
EXTENDS PasswordGate, Naturals, Sequences

CONSTANTS
    Slugs,
    Theirs,     \* what others have pasted
    Mine,       \* what this visitor types
    Empty,      \* the empty string
    Keys,       \* keys generateEncryptionKey may return (a bound)
    OldKey,     \* the key of the others' encrypted pastes
    None,
    CallIds,    \* calls that may be in flight (a bound)
    MaxEvents   \* clicks, edits and removals by others (a bound)

ASSUME PagesAssumption ==
    /\ Theirs # Empty /\ Mine # Empty
    /\ OldKey \in Keys
    /\ None \notin Slugs /\ None \notin Keys
    /\ CallIds \subseteq Nat /\ MaxEvents \in Nat

VARIABLES
    pastes,     \* the server's pastes: a slug's, or NoPaste
    page,       \* the page on screen, with the slug and the key of its URL
    form,       \* PasteForm
    viewer,     \* PasteViewer
    mounted,    \* what is on screen: "form", "viewer" or neither
    decrypts,   \* decryptText calls of the viewer's effect under way
    calls,
    used,       \* history: keys generated so far
    links,      \* history: links to his own pastes the visitor was given, by slug the last
    took,       \* history: what a request of the page on screen burned, or NoContent
    events

historyVars == <<used, links, took>>
tabVars == <<page, form, viewer, mounted, decrypts, gateVars>>
vars == <<pastes, tabVars, calls, historyVars, events>>

-----------------------------------------------------------------------------
(* Contents and their encryption (lib/crypto.ts) *)

Contents == [text : {Theirs, Mine, Empty}, layers : Seq(Keys)]
Plain(t) == [text |-> t, layers |-> <<>>]
Blank == Plain(Empty)
NoContent == [text |-> None, layers |-> <<>>]

EncryptText(c, k) == [c EXCEPT !.layers = Append(@, k)]

\* AES-GCM authenticates: any other key is refused.
Opens(c, k) == c.layers # <<>> /\ c.layers[Len(c.layers)] = k

DecryptText(c) == [c EXCEPT !.layers = SubSeq(@, 1, Len(@) - 1)]

Pastes == [content : Contents, encrypted : BOOLEAN, burn : BOOLEAN, guarded : BOOLEAN]
NoPaste == [content |-> NoContent, encrypted |-> FALSE, burn |-> FALSE, guarded |-> FALSE]

Paste(c, e, b, g) == [content |-> c, encrypted |-> e, burn |-> b, guarded |-> g]

-----------------------------------------------------------------------------
(* Calls *)

NoCall == [op |-> "none", slug |-> None, paste |-> NoPaste, plain |-> NoContent,
           key |-> None, right |-> FALSE, status |-> "sent", own |-> FALSE]

Call(op, s) == [NoCall EXCEPT !.op = op, !.slug = s, !.own = TRUE]

Send(call) ==
    \E i \in CallIds :
        /\ calls[i] = NoCall
        /\ \A j \in CallIds : j < i => calls[j] # NoCall
        /\ calls' = [calls EXCEPT ![i] = call]

Without(i) == [calls EXCEPT ![i] = NoCall]

Disowned(remaining) == [i \in CallIds |-> [remaining[i] EXCEPT !.own = FALSE]]

\* A refusal of the server that no page tells from a failure is one.
Arrivals(i) ==
    IF calls[i].status = "sent" THEN {"failed"} ELSE {calls[i].status, "failed"}

-----------------------------------------------------------------------------
(* Pages *)

InitialForm ==
    [content |-> Blank, encrypted |-> FALSE, burn |-> FALSE, guarded |-> FALSE,
     wanted |-> None, submitting |-> FALSE, created |-> <<None, None>>]

InitialViewer ==
    [slug |-> None, encrypted |-> FALSE, content |-> Blank, revealed |-> FALSE,
     revealing |-> FALSE, key |-> None, decrypted |-> NoContent, forking |-> FALSE]

Page(at, s, k) == [at |-> at, slug |-> s, key |-> k]

\* What was mounted unmounts; the calls of the tab go on.
Leave(remaining) ==
    /\ GateReset
    /\ took' = NoContent
    /\ calls' = Disowned(remaining)

Enter(p, remaining) ==
    /\ Leave(remaining)
    /\ page' = p
    /\ form' = InitialForm
    /\ viewer' = InitialViewer
    /\ mounted' = IF p.at = "new" THEN "form" ELSE "none"
    /\ decrypts' = {}

\* The links of the header and of the lists keep the tab's scripts running.
FollowLink ==
    /\ \E p \in {Page("home", None, None), Page("new", None, None)}
                \union {Page("loading", s, None) : s \in Slugs} :
           /\ p.at # page.at
           /\ p.slug = page.slug => p.slug = None \/ page.at = "unlock"
           /\ Enter(p, calls)
    /\ UNCHANGED <<pastes, used, links>>

\* An address, or a reload, starts the tab afresh.
OpenAddress ==
    /\ \E s \in Slugs, k \in Keys \union {None} :
           Enter(Page("loading", s, k), [i \in CallIds |-> NoCall])
    /\ UNCHANGED <<pastes, used, links>>

-----------------------------------------------------------------------------
(* The viewer *)

\* The decrypt effect: what its dependencies ask for.
Attempts(v) ==
    IF v.encrypted /\ v.key # None /\ v.content # Blank
    THEN {[content |-> v.content, key |-> v.key]} ELSE {}

\* useState's initial values from the props; the hash effect adds the key.
ViewerOf(s, p, content, k) ==
    [InitialViewer EXCEPT !.slug = s, !.encrypted = p.encrypted, !.content = content,
                          !.revealed = ~p.burn \/ content # Blank, !.key = k]

Mount(v) ==
    /\ viewer' = v
    /\ mounted' = "viewer"
    /\ decrypts' = Attempts(v)

Rerun(v) ==
    /\ viewer' = v
    /\ decrypts' = decrypts \union Attempts(v)

\* Mutant: the server component asks for the content, not for a peek.
GetPasteNoPeek(s, peek, own) ==
    IF pastes[s].burn
    THEN /\ pastes' = [pastes EXCEPT ![s] = NoPaste]
         /\ took' = IF own THEN pastes[s].content ELSE took
    ELSE UNCHANGED <<pastes, took>>

\* GET /{slug}: asking for more than a peek burns a paste that is to be burned.
\* If the page that asks is on screen ("own"), the history keeps what it burned.
GetPaste(s, peek, own) ==
    IF pastes[s].burn /\ ~peek
    THEN /\ pastes' = [pastes EXCEPT ![s] = NoPaste]
         /\ took' = IF own THEN pastes[s].content ELSE took
    ELSE UNCHANGED <<pastes, took>>

\* PasteViewPage, on the server: a paste to be burned comes without its content.
ShowPaste ==
    LET s == page.slug
        p == pastes[s]
    IN  /\ p # NoPaste /\ ~p.guarded
        /\ GetPaste(s, TRUE, TRUE)
        /\ Mount(ViewerOf(s, p, IF p.burn THEN Blank ELSE p.content, page.key))
        /\ page' = [page EXCEPT !.at = "view"]

\* redirect() to the gate: an HTTP redirect keeps the fragment, the router drops it.
AskForPassword ==
    /\ pastes[page.slug] # NoPaste /\ pastes[page.slug].guarded
    /\ \E k \in {page.key, None} : page' = Page("unlock", page.slug, k)
    /\ UNCHANGED <<pastes, took, viewer, mounted, decrypts>>

\* notFound(), ExpiredPaste or the error boundary
ShowError ==
    /\ page' = [page EXCEPT !.at = "error"]
    /\ UNCHANGED <<pastes, took, viewer, mounted, decrypts>>

PasteViewPage ==
    /\ page.at = "loading"
    /\ ShowPaste \/ AskForPassword \/ ShowError
    /\ UNCHANGED <<form, gateVars, calls, used, links>>

Viewing == mounted = "viewer"

\* The prompt of an encrypted paste stays for an empty text, too.
Prompted ==
    Viewing /\ viewer.revealed /\ viewer.encrypted /\ viewer.decrypted \in {NoContent, Blank}

ContentShown == Viewing /\ viewer.revealed /\ ~Prompted

\* The fragment changes: no two attempts with one key at a time (a bound).
HandleHashChange(k) ==
    /\ Viewing
    /\ k # viewer.key /\ \A d \in decrypts : d.key # k
    /\ Rerun([viewer EXCEPT !.key = k])
    /\ UNCHANGED <<pastes, page, form, mounted, gateVars, calls, historyVars>>

HandleManualDecrypt(k) == Prompted /\ HandleHashChange(k)

\* Attempts are not cancelled: the one that ends last has the last word.
DecryptLands(d) ==
    /\ viewer' = [viewer EXCEPT !.decrypted =
            IF Opens(d.content, d.key) THEN DecryptText(d.content) ELSE NoContent]
    /\ decrypts' = decrypts \ {d}
    /\ UNCHANGED <<pastes, page, form, mounted, gateVars, calls, historyVars>>

HandleReveal ==
    /\ Viewing /\ ~viewer.revealed /\ ~viewer.revealing
    /\ viewer' = [viewer EXCEPT !.revealing = TRUE]
    /\ Send(Call("reveal", viewer.slug))
    /\ UNCHANGED <<pastes, page, form, mounted, decrypts, gateVars, historyVars>>

HandleFork ==
    /\ ContentShown /\ ~viewer.forking
    /\ viewer' = [viewer EXCEPT !.forking = TRUE]
    /\ Send(Call("fork", viewer.slug))
    /\ UNCHANGED <<pastes, page, form, mounted, decrypts, gateVars, historyVars>>

RevealLands(i, s) ==
    LET p == calls[i].paste
    IN  /\ calls[i].op = "reveal" /\ calls[i].own
        /\ IF s = "ok"
           THEN /\ Rerun([viewer EXCEPT !.content = p.content, !.revealed = TRUE,
                                        !.revealing = FALSE])
                /\ UNCHANGED took
           ELSE /\ viewer' = [viewer EXCEPT !.revealing = FALSE]
                /\ took' = NoContent
                /\ UNCHANGED decrypts
        /\ calls' = Without(i)
        /\ UNCHANGED <<page, form, mounted, gateVars, used, links>>

\* The form opens with the forked paste.  A form that is open takes it over, unless
\* it was itself opened by a fork: then its address, and so its effect, is the same.
ForkLands(i, s) ==
    LET c == calls[i].paste.content
    IN  /\ calls[i].op = "fork" /\ s = "ok"
        /\ IF mounted = "form"
           THEN /\ form' \in {form, [form EXCEPT !.content = c]}
                /\ calls' = Without(i)
                /\ UNCHANGED <<page, viewer, mounted, decrypts, gateVars, took>>
           ELSE /\ Leave(Without(i))
                /\ page' = Page("new", None, None)
                /\ form' = [InitialForm EXCEPT !.content = c]
                /\ viewer' = InitialViewer
                /\ mounted' = "form"
                /\ decrypts' = {}
        /\ UNCHANGED <<used, links>>

ForkFails(i, s) ==
    /\ calls[i].op = "fork" /\ calls[i].own /\ s # "ok"
    /\ viewer' = [viewer EXCEPT !.forking = FALSE]
    /\ calls' = Without(i)
    /\ UNCHANGED <<page, form, mounted, decrypts, gateVars, historyVars>>

-----------------------------------------------------------------------------
(* The form *)

Writing == mounted = "form" /\ form.created = <<None, None>>

\* isFormDisabled
FormEnabled == Writing /\ ~form.submitting

EditForm ==
    /\ FormEnabled
    /\ \/ \E t \in {Mine, Empty} : form' = [form EXCEPT !.content = Plain(t)]
       \/ form' = [form EXCEPT !.encrypted = ~@]
       \/ form' = [form EXCEPT !.burn = ~@]
       \/ form' = [form EXCEPT !.guarded = ~@]
       \/ \E s \in Slugs \union {None} : form' = [form EXCEPT !.wanted = s]
    /\ form' # form
    /\ UNCHANGED <<pastes, page, viewer, mounted, decrypts, gateVars, calls, historyVars>>

\* Mutant: the text is encrypted before its key has been generated.
HandleSubmitNoKey ==
    /\ FormEnabled
    /\ form' = [form EXCEPT !.submitting = TRUE]
    /\ LET c == IF form.encrypted THEN EncryptText(form.content, None) ELSE form.content
       IN  Send([Call("create", form.wanted) EXCEPT
                    !.paste = Paste(c, form.encrypted, form.burn, form.guarded),
                    !.plain = form.content])
    /\ UNCHANGED <<pastes, page, viewer, mounted, decrypts, gateVars, historyVars>>

\* An encrypted paste gets a key of its own, at every attempt.
HandleSubmit ==
    /\ FormEnabled
    /\ form' = [form EXCEPT !.submitting = TRUE]
    /\ \E k \in IF form.encrypted THEN Keys \ used ELSE {None} :
           LET c == IF form.encrypted THEN EncryptText(form.content, k) ELSE form.content
           IN  /\ Send([Call("create", form.wanted) EXCEPT
                           !.paste = Paste(c, form.encrypted, form.burn, form.guarded),
                           !.plain = form.content, !.key = k])
               /\ used' = used \union ({k} \ {None})
    /\ UNCHANGED <<pastes, page, viewer, mounted, decrypts, gateVars, links, took>>

\* Mutant: the link has no fragment.
LinkWithoutKey(i) == <<calls[i].slug, None>>

\* createdURL, or the path of the redirect
LinkOf(i) == <<calls[i].slug, calls[i].key>>

Given(i) ==
    links' = IF calls[i].plain = NoContent THEN links
             ELSE links \union {[link |-> LinkOf(i), plain |-> calls[i].plain]}

\* The link of a paste to be burned is shown, if the form is still there.
CreateShowsLink(i, s) ==
    /\ calls[i].op = "create" /\ calls[i].own
    /\ s = "ok" /\ calls[i].paste.burn
    /\ form' = [form EXCEPT !.created = LinkOf(i), !.submitting = FALSE]
    /\ Given(i)
    /\ calls' = Without(i)
    /\ UNCHANGED <<page, viewer, mounted, decrypts, gateVars, used, took>>

\* Any other is opened, wherever the visitor is by then.
CreateRedirects(i, s) ==
    /\ calls[i].op = "create"
    /\ s = "ok" /\ ~calls[i].paste.burn
    /\ Enter(Page("loading", calls[i].slug, calls[i].key), Without(i))
    /\ Given(i)
    /\ UNCHANGED used

CreateFails(i, s) ==
    /\ calls[i].op = "create" /\ calls[i].own
    /\ s # "ok"
    /\ form' = [form EXCEPT !.submitting = FALSE]
    /\ calls' = Without(i)
    /\ UNCHANGED <<page, viewer, mounted, decrypts, gateVars, historyVars>>

CreateAnother ==
    /\ mounted = "form" /\ ~Writing
    /\ form' = [form EXCEPT !.created = <<None, None>>]
    /\ UNCHANGED <<pastes, page, viewer, mounted, decrypts, gateVars, calls, historyVars>>

-----------------------------------------------------------------------------
(* The unlock page *)

GateShown == page.at = "unlock" /\ mounted = "none"

\* handleSubmit, with the right password or a wrong one
SubmitPassword(right) ==
    /\ GateShown
    /\ IsFormEnabled(gate)
    /\ Dispatch("SUBMIT")
    /\ Send([Call("unlock", page.slug) EXCEPT !.right = right])
    /\ UNCHANGED <<pastes, page, form, viewer, mounted, decrypts, cooling, historyVars>>

\* onUnlock renders the viewer in the place of the gate.
UnlockLands(i, s) ==
    /\ calls[i].op = "unlock" /\ calls[i].own
    /\ GateAnswer(s)
    /\ IF s = "ok"
       THEN /\ Mount(ViewerOf(page.slug, calls[i].paste, calls[i].paste.content, page.key))
            /\ UNCHANGED took
       ELSE took' = NoContent /\ UNCHANGED <<viewer, mounted, decrypts>>
    /\ calls' = Without(i)
    /\ UNCHANGED <<page, form, used, links>>

CooldownElapsed ==
    /\ GateCooled
    /\ UNCHANGED <<pastes, page, form, viewer, mounted, decrypts, calls, historyVars>>

-----------------------------------------------------------------------------
(* The server *)

\* History: what was promised for a slug ends when the slug is taken again.
Superseded(s) ==
    [i \in CallIds |->
        IF calls[i].op = "create" /\ calls[i].status = "ok" /\ calls[i].slug = s
        THEN [calls[i] EXCEPT !.plain = NoContent] ELSE calls[i]]

CreateAnswered(i) ==
    /\ calls[i].op = "create"
    /\ calls[i].paste.content # Blank
    /\ \E s \in Slugs :
           /\ calls[i].slug \in {s, None}
           /\ pastes[s] = NoPaste
           /\ pastes' = [pastes EXCEPT ![s] = calls[i].paste]
           /\ calls' = [Superseded(s) EXCEPT ![i].slug = s, ![i].status = "ok"]
           /\ links' = {l \in links : l.link[1] # s}
    /\ UNCHANGED took

Handed(i) ==
    /\ calls' = [calls EXCEPT ![i].paste = pastes[calls[i].slug], ![i].status = "ok"]
    /\ GetPaste(calls[i].slug, FALSE, calls[i].own)
    /\ UNCHANGED links

RevealAnswered(i) ==
    /\ calls[i].op = "reveal"
    /\ pastes[calls[i].slug] # NoPaste /\ ~pastes[calls[i].slug].guarded
    /\ Handed(i)

\* The paste was guarded when its slug was taken anew: it is looked up, and so
\* burned if it is to be, before the password is missed.
RevealRefused(i) ==
    /\ calls[i].op = "reveal"
    /\ pastes[calls[i].slug] # NoPaste /\ pastes[calls[i].slug].guarded
    /\ calls' = [calls EXCEPT ![i].status = "unauthorized"]
    /\ GetPaste(calls[i].slug, FALSE, calls[i].own)
    /\ UNCHANGED links

ForkAnswered(i) ==
    /\ calls[i].op = "fork"
    /\ pastes[calls[i].slug] # NoPaste
    /\ calls' = [calls EXCEPT ![i].paste = pastes[calls[i].slug], ![i].status = "ok"]
    /\ UNCHANGED <<pastes, took, links>>

\* ValidatePassword: a paste without a password opens with any.
Unlocks(i) == calls[i].right \/ ~pastes[calls[i].slug].guarded

\* The rate limit is per address and slug, so others may have used it up.
UnlockRefused(i) ==
    /\ calls[i].op = "unlock"
    /\ \E s \in {"limited"}
                \union (IF pastes[calls[i].slug] = NoPaste THEN {"missing", "gone"}
                        ELSE IF Unlocks(i) THEN {} ELSE {"unauthorized"}) :
           calls' = [calls EXCEPT ![i].status = s]
    /\ UNCHANGED <<pastes, took, links>>

UnlockGranted(i) ==
    /\ calls[i].op = "unlock"
    /\ pastes[calls[i].slug] # NoPaste /\ Unlocks(i)
    /\ Handed(i)

CallAnswered(i) ==
    /\ calls[i].status = "sent"
    /\ \/ CreateAnswered(i) \/ RevealAnswered(i) \/ RevealRefused(i)
       \/ ForkAnswered(i) \/ UnlockRefused(i) \/ UnlockGranted(i)
    /\ UNCHANGED <<tabVars, used>>

\* A page that is gone keeps nothing of the answer.
LandsNowhere(i, s) ==
    /\ calls[i].op # "none" /\ ~calls[i].own
    /\ ~(s = "ok" /\ calls[i].op = "fork")
    /\ ~(s = "ok" /\ calls[i].op = "create" /\ ~calls[i].paste.burn)
    /\ calls' = Without(i)
    /\ UNCHANGED <<tabVars, historyVars>>

CallLands(i) ==
    /\ \E s \in Arrivals(i) :
           \/ RevealLands(i, s) \/ ForkLands(i, s) \/ ForkFails(i, s)
           \/ CreateShowsLink(i, s) \/ CreateRedirects(i, s) \/ CreateFails(i, s)
           \/ UnlockLands(i, s)
           \/ LandsNowhere(i, s)
    /\ UNCHANGED pastes

\* It expires, an administrator deletes it, or another reader burns it.
Vanish(s) ==
    /\ pastes[s] # NoPaste
    /\ pastes' = [pastes EXCEPT ![s] = NoPaste]
    /\ UNCHANGED <<tabVars, calls, historyVars>>

-----------------------------------------------------------------------------
TheirPastes ==
    {Paste(IF e THEN EncryptText(Plain(Theirs), OldKey) ELSE Plain(Theirs), e, b, g) :
        e \in BOOLEAN, b \in BOOLEAN, g \in BOOLEAN}

Init ==
    /\ \E s \in Slugs, p \in TheirPastes :
           pastes = [r \in Slugs |-> IF r = s THEN p ELSE NoPaste]
    /\ page = Page("home", None, None)
    /\ form = InitialForm /\ viewer = InitialViewer /\ mounted = "none"
    /\ decrypts = {}
    /\ GateInit
    /\ calls = [i \in CallIds |-> NoCall]
    /\ used = {OldKey} /\ links = {} /\ took = NoContent
    /\ events = 0

VisitorStep ==
    \/ FollowLink \/ OpenAddress
    \/ \E k \in Keys : HandleHashChange(k) \/ HandleManualDecrypt(k)
    \/ HandleReveal \/ HandleFork
    \/ EditForm \/ HandleSubmit \/ CreateAnother
    \/ \E right \in BOOLEAN : SubmitPassword(right)

SystemStep ==
    \/ PasteViewPage
    \/ \E d \in decrypts : DecryptLands(d)
    \/ CooldownElapsed
    \/ \E i \in CallIds : CallAnswered(i) \/ CallLands(i)

Next ==
    \/ /\ VisitorStep \/ \E s \in Slugs : Vanish(s)
       /\ events < MaxEvents /\ events' = events + 1
    \/ SystemStep /\ UNCHANGED events

Spec == Init /\ [][Next]_vars

-----------------------------------------------------------------------------
(* Properties *)

Maybe(S) == S \union {None}

FormRecord ==
    [content : Contents, encrypted : BOOLEAN, burn : BOOLEAN, guarded : BOOLEAN,
     wanted : Maybe(Slugs), submitting : BOOLEAN, created : Maybe(Slugs) \X Maybe(Keys)]

ViewerRecord ==
    [slug : Maybe(Slugs), encrypted : BOOLEAN, content : Contents, revealed : BOOLEAN,
     revealing : BOOLEAN, key : Maybe(Keys), decrypted : Contents \union {NoContent},
     forking : BOOLEAN]

CallRecord ==
    [op : {"none", "create", "reveal", "unlock", "fork"}, slug : Maybe(Slugs),
     paste : Pastes \union {NoPaste}, plain : Contents \union {NoContent},
     key : Maybe(Keys), right : BOOLEAN, status : {"sent"} \union DOMAIN EventForStatus,
     own : BOOLEAN]

TypeOK ==
    /\ pastes \in [Slugs -> Pastes \union {NoPaste}]
    /\ page \in [at : {"home", "new", "loading", "view", "unlock", "error"},
                slug : Maybe(Slugs), key : Maybe(Keys)]
    /\ form \in FormRecord
    /\ viewer \in ViewerRecord
    /\ mounted \in {"form", "viewer", "none"}
    /\ decrypts \subseteq [content : Contents, key : Keys]
    /\ GateTypeOK
    /\ calls \in [CallIds -> CallRecord]
    /\ used \subseteq Keys
    /\ links \subseteq [link : Slugs \X Maybe(Keys), plain : Contents]
    /\ took \in Contents \union {NoContent}
    /\ events \in 0..MaxEvents

Awaited(op) == \E i \in CallIds : calls[i].own /\ calls[i].op = op

\* Whatever is switched off until an answer comes has a request of its own under
\* way, and the gate that waits for its cooldown has its timer set: no button of
\* the form, the viewer or the gate stays off for ever.
WaitingIsForSomething ==
    /\ mounted = "form" /\ form.submitting => Awaited("create")
    /\ mounted = "viewer" /\ viewer.revealing => Awaited("reveal")
    /\ mounted = "viewer" /\ viewer.forking => Awaited("fork")
    /\ gate = "loading" => Awaited("unlock")
    /\ gate = "rate_limited" => cooling

\* On screen, or in an answer on its way to it: what the page has burned is seen.
\* Not kept by the code: see BurnedIsShown.
BurnedIsSeen ==
    \/ took = NoContent
    \/ Viewing /\ viewer.revealed /\ viewer.content = took
    \/ \E i \in CallIds : /\ calls[i].own /\ calls[i].status = "ok"
                         /\ calls[i].op \in {"reveal", "unlock"}
                         /\ calls[i].paste.content = took

\* A paste to be burned is not wasted: what a request of the page on screen has
\* burned is on screen, or in an answer on its way to it, unless the request was a
\* reveal the server refused: its slug had been taken anew by a paste with a
\* password, which the reveal burns and nobody sees.  (Opening the page only peeks;
\* leaving it, or losing the answer, forfeits the paste.)
BurnedIsShown ==
    \/ BurnedIsSeen
    \/ \E i \in CallIds : /\ calls[i].own /\ calls[i].op = "reveal"
                         /\ calls[i].status = "unauthorized"

\* A link the visitor was given opens what he typed for it: the paste at its
\* slug, if it is still there, is that text, under the key in the link's fragment.
LinkOpensPaste ==
    \A l \in links :
        LET p == pastes[l.link[1]]
            k == l.link[2]
        IN  p # NoPaste =>
                IF k = None THEN ~p.encrypted /\ p.content = l.plain
                ELSE p.encrypted /\ Opens(p.content, k) /\ DecryptText(p.content) = l.plain

-----------------------------------------------------------------------------
(* The inductive invariant behind these properties *)

Own(i, op) == calls[i].own /\ calls[i].op = op

\* A button waits for one request, and what a page on screen waits for belongs to
\* that page: nothing of it is awaited while the next page loads.
ScreenOK ==
    /\ page.at = "loading" => mounted = "none"
    /\ \A i \in CallIds :
           /\ Own(i, "reveal") => Viewing /\ viewer.revealing /\ ~viewer.revealed
           /\ Own(i, "unlock") => GateShown /\ gate = "loading"
           /\ \A j \in CallIds, op \in {"reveal", "unlock"} : Own(i, op) /\ Own(j, op) => i = j

\* What a page shows, and what is asked of the server, is about a slug.
SlugsKnown ==
    /\ page.at \in {"loading", "view", "unlock"} => page.slug \in Slugs
    /\ Viewing => viewer.slug \in Slugs
    /\ \A i \in CallIds :
           calls[i].op # "none" /\ (calls[i].op # "create" \/ calls[i].status = "ok") =>
               calls[i].slug \in Slugs

\* No paste is empty, and so nothing empty is ever burned; what is handed out is
\* a paste.
NothingEmpty ==
    /\ \A s \in Slugs : pastes[s] # NoPaste => pastes[s].content # Blank
    /\ took # NoContent => took # Blank
    /\ \A i \in CallIds :
           calls[i].op \in {"reveal", "unlock", "fork"} /\ calls[i].status = "ok" => calls[i].paste # NoPaste

\* What is sent for the typed text opens with the key the sender keeps; once it is
\* stored it is what its slug holds, or the slug is free or taken anew.
PromisesOK ==
    \A i \in CallIds :
        calls[i].op = "create" /\ calls[i].plain # NoContent =>
            /\ IF calls[i].key = None
               THEN ~calls[i].paste.encrypted /\ calls[i].paste.content = calls[i].plain
               ELSE /\ calls[i].paste.encrypted
                    /\ Opens(calls[i].paste.content, calls[i].key)
                    /\ DecryptText(calls[i].paste.content) = calls[i].plain
            /\ calls[i].status = "ok" =>
                   pastes[calls[i].slug] \in {NoPaste, calls[i].paste}

\* What every reachable state satisfies, and every step preserves: the types, the
\* properties above, and what the calls under way know of the page and of the server.
IInv == TypeOK /\ WaitingIsForSomething /\ BurnedIsShown /\ LinkOpensPaste
            /\ ScreenOK /\ SlugsKnown /\ NothingEmpty /\ PromisesOK
=============================================================================
