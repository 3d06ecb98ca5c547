------------------------------ MODULE FilePages -----------------------------
(***************************************************************************)
(* One browser tab on the file pages: the upload form (app/upload,         *)
(* FileUploader.tsx), the page of a file (app/f/[slug]/page.tsx) and its   *)
(* unlock page (app/f/[slug]/unlock, PasswordGate.tsx), beside the files   *)
(* of the server.                                                          *)
(*                                                                         *)
(* A direct upload is a chain of three requests: presign, PUT to the       *)
(* storage, register.  Leaving the page aborts the transfer under way      *)
(* (xhrRef), but not the two other links of the chain, which then go on    *)
(* to their end.  "own" says that the page a call was made by is there.    *)
(* Progress, speed, messages, file names and hashes are left out.          *)
(***************************************************************************)
EXTENDS PasswordGate, Naturals

CONSTANTS
    Files,      \* files on the visitor's disk
    TooBig,     \* those larger than maxFileSize
    Slugs,      \* slugs the server may draw: none twice (a bound on uploads)
    None,
    CallIds,    \* calls that may be in flight (a bound)
    MaxEvents   \* clicks, choices and removals (a bound)

ASSUME FilesAssumption ==
    /\ TooBig \subseteq Files
    /\ None \notin Files /\ None \notin Slugs
    /\ CallIds \subseteq Nat /\ MaxEvents \in Nat

VARIABLES
    objects,    \* the storage: a slug's file, or None
    rows,       \* the database: what is registered for a slug, or NoRow
    drawn,      \* slugs the server has drawn
    page,       \* the page on screen, with its slug
    direct,     \* useDirectUpload, as the upload page was rendered
    uploader,   \* FileUploader
    calls,
    events

serverVars == <<objects, rows, drawn>>
tabVars == <<page, direct, uploader, gateVars>>
vars == <<serverVars, tabVars, calls, events>>

NoRow == [file |-> None, guarded |-> FALSE]

\* "asked" is history: the visibility chosen when the upload was started.
InitialUploader ==
    [file |-> None, guarded |-> FALSE, status |-> "idle", url |-> None, asked |-> FALSE]

\* A call keeps what its closure captured.
NoCall == [op |-> "none", file |-> None, guarded |-> FALSE, slug |-> None, right |-> FALSE,
           status |-> "sent", own |-> FALSE]

Send(call) ==
    \E i \in CallIds :
        /\ calls[i] = NoCall
        /\ \A j \in CallIds : j < i => calls[j] # NoCall
        /\ calls' = [calls EXCEPT ![i] = call]

Done(i) == calls' = [calls EXCEPT ![i] = NoCall]

\* A refusal of the server that the page does not tell from a failure is one.
Arrivals(i) ==
    IF calls[i].status = "sent" THEN {"failed"} ELSE {calls[i].status, "failed"}

-----------------------------------------------------------------------------
(* Pages *)

Page(at, s) == [at |-> at, slug |-> s]

\* The cleanup of FileUploader aborts the transfer; what is no transfer goes on.
Unmount(remaining) ==
    [i \in CallIds |->
        IF remaining[i].own /\ remaining[i].op \in {"put", "post"}
        THEN NoCall ELSE [remaining[i] EXCEPT !.own = FALSE]]

Enter(p, remaining) ==
    /\ page' = p
    /\ uploader' = InitialUploader
    /\ direct' \in IF p.at = "upload" THEN BOOLEAN ELSE {FALSE}
    /\ GateReset
    /\ calls' = remaining

\* Links keep the tab's scripts running.
FollowLink ==
    /\ \E p \in {Page("home", None), Page("upload", None)}
                \union {Page("loading", s) : s \in Slugs} :
           /\ p.at # page.at
           /\ p.slug = page.slug => p.slug = None
           /\ Enter(p, Unmount(calls))
    /\ UNCHANGED serverVars

\* An address, or a reload, starts the tab afresh.
OpenAddress ==
    /\ \E s \in Slugs : Enter(Page("loading", s), [i \in CallIds |-> NoCall])
    /\ UNCHANGED serverVars

\* FileViewPage, on the server: a HEAD request decides which page it is.
FileViewPage ==
    /\ page.at = "loading"
    /\ \E at \in {"error"} \union
            (IF rows[page.slug] = NoRow THEN {}
             ELSE IF rows[page.slug].guarded THEN {"unlock"} ELSE {"file"}) :
           page' = [page EXCEPT !.at = at]
    /\ UNCHANGED <<serverVars, direct, uploader, gateVars, calls>>

-----------------------------------------------------------------------------
(* The upload form *)

FormShown == page.at = "upload" /\ uploader.status # "success"

IsUploading == uploader.status = "uploading"

\* The dialog is opened, and a drop taken, only while nothing is uploaded; the
\* dialog is modal.
SelectFile(f) ==
    /\ FormShown /\ ~IsUploading
    /\ uploader' = [uploader EXCEPT !.file = f, !.status = "idle", !.url = None]
    /\ UNCHANGED <<serverVars, page, direct, gateVars, calls>>

\* The radio buttons are never off: the choice may change while a file goes up.
ChooseVisibility ==
    /\ FormShown
    /\ uploader' = [uploader EXCEPT !.guarded = ~@]
    /\ UNCHANGED <<serverVars, page, direct, gateVars, calls>>

\* Mutant: a second click is not stopped.
HandleUploadTwice ==
    /\ FormShown
    /\ uploader.file \in Files \ TooBig
    /\ uploader' = [uploader EXCEPT !.status = "uploading", !.url = None,
                                    !.asked = uploader.guarded]
    /\ Send([NoCall EXCEPT !.op = IF direct THEN "presign" ELSE "post", !.own = TRUE,
                           !.file = uploader.file, !.guarded = uploader.guarded])
    /\ UNCHANGED <<serverVars, page, direct, gateVars>>

\* Mutant: the button is on without a file.
HandleUploadNothing ==
    /\ FormShown /\ ~IsUploading
    /\ uploader' = [uploader EXCEPT !.status = "uploading", !.url = None,
                                    !.asked = uploader.guarded]
    /\ Send([NoCall EXCEPT !.op = IF direct THEN "presign" ELSE "post", !.own = TRUE,
                           !.file = uploader.file, !.guarded = uploader.guarded])
    /\ UNCHANGED <<serverVars, page, direct, gateVars>>

HandleUpload ==
    /\ FormShown /\ ~IsUploading
    /\ uploader.file \in Files \ TooBig
    /\ uploader' = [uploader EXCEPT !.status = "uploading", !.url = None,
                                    !.asked = uploader.guarded]
    /\ Send([NoCall EXCEPT !.op = IF direct THEN "presign" ELSE "post", !.own = TRUE,
                           !.file = uploader.file, !.guarded = uploader.guarded])
    /\ UNCHANGED <<serverVars, page, direct, gateVars>>

OnSuccess(i) ==
    uploader' = IF calls[i].own
                THEN [uploader EXCEPT !.url = calls[i].slug, !.status = "success"]
                ELSE uploader

OnError(i) ==
    uploader' = IF calls[i].own THEN [uploader EXCEPT !.status = "error"] ELSE uploader

\* The next request of the chain.
GoesOn(i, op) == calls' = [calls EXCEPT ![i].op = op, ![i].status = "sent"]

PresignLands(i) ==
    /\ calls[i].op = "presign"
    /\ GoesOn(i, "put")
    /\ UNCHANGED uploader

PutLands(i) ==
    /\ calls[i].op = "put"
    /\ GoesOn(i, "register")
    /\ UNCHANGED uploader

UploadLands(i) ==
    /\ calls[i].op \in {"register", "post"}
    /\ OnSuccess(i)
    /\ Done(i)

UploadFails(i) ==
    /\ calls[i].op \in {"presign", "put", "register", "post"}
    /\ OnError(i)
    /\ Done(i)

ResetForAnother ==
    /\ page.at = "upload" /\ ~FormShown
    /\ uploader' = [uploader EXCEPT !.file = None, !.status = "idle", !.url = None]
    /\ UNCHANGED <<serverVars, page, direct, gateVars, calls>>

-----------------------------------------------------------------------------
(* The unlock page *)

SubmitPassword(right) ==
    /\ page.at = "unlock"
    /\ IsFormEnabled(gate)
    /\ Dispatch("SUBMIT")
    /\ Send([NoCall EXCEPT !.op = "unlock", !.slug = page.slug, !.right = right, !.own = TRUE])
    /\ UNCHANGED <<serverVars, page, direct, uploader, cooling>>

\* The file is downloaded before the gate is told; a body cut off is a failure.
UnlockLands(i, s) ==
    /\ calls[i].op = "unlock"
    /\ IF calls[i].own THEN GateAnswer(s) ELSE UNCHANGED gateVars
    /\ Done(i)
    /\ UNCHANGED uploader

CooldownElapsed ==
    /\ GateCooled
    /\ UNCHANGED <<serverVars, page, direct, uploader, calls>>

CallLands(i) ==
    /\ \E s \in Arrivals(i) :
           \/ s = "ok" /\ (PresignLands(i) \/ PutLands(i) \/ UploadLands(i)) /\ UNCHANGED gateVars
           \/ s # "ok" /\ UploadFails(i) /\ UNCHANGED gateVars
           \/ UnlockLands(i, s)
    /\ UNCHANGED <<serverVars, page, direct>>

-----------------------------------------------------------------------------
(* The server *)

Answered(i, s) == calls' = [calls EXCEPT ![i].status = s]

Draw(s) == s \notin drawn /\ drawn' = drawn \union {s}

\* POST /upload/presign
PresignAnswered(i) ==
    /\ calls[i].op = "presign"
    /\ \E s \in Slugs : Draw(s) /\ calls' = [calls EXCEPT ![i].slug = s, ![i].status = "ok"]
    /\ UNCHANGED <<objects, rows>>

\* PUT at the pre-signed URL
PutAnswered(i) ==
    /\ calls[i].op = "put"
    /\ objects' = [objects EXCEPT ![calls[i].slug] = calls[i].file]
    /\ Answered(i, "ok")
    /\ UNCHANGED <<rows, drawn>>

\* Mutant: the visibility is read when the row is written, not when the upload began.
RowOfNow(i) == [file |-> calls[i].file, guarded |-> uploader.guarded]

RowOf(i) == [file |-> calls[i].file, guarded |-> calls[i].guarded]

\* POST /upload/register: the object must be there, the row must not.
RegisterAnswered(i) ==
    LET s == calls[i].slug
    IN  /\ calls[i].op = "register"
        /\ objects[s] = calls[i].file /\ rows[s] = NoRow
        /\ rows' = [rows EXCEPT ![s] = RowOf(i)]
        /\ Answered(i, "ok")
        /\ UNCHANGED <<objects, drawn>>

\* POST /upload: the object, then the row
PostAnswered(i) ==
    /\ calls[i].op = "post"
    /\ \E s \in Slugs :
           /\ Draw(s)
           /\ objects' = [objects EXCEPT ![s] = calls[i].file]
           /\ rows' = [rows EXCEPT ![s] = RowOf(i)]
           /\ calls' = [calls EXCEPT ![i].slug = s, ![i].status = "ok"]

\* The rate limit is per address and slug, so others may have used it up.
UnlockAnswered(i) ==
    LET row == rows[calls[i].slug]
    IN  /\ calls[i].op = "unlock"
        /\ \E s \in {"limited"} \union
                (IF row = NoRow THEN {"missing", "gone"}
                 ELSE IF calls[i].right THEN {"ok"} ELSE {"unauthorized"}) : Answered(i, s)
        /\ UNCHANGED serverVars

CallAnswered(i) ==
    /\ calls[i].status = "sent"
    /\ \/ PresignAnswered(i) \/ PutAnswered(i) \/ RegisterAnswered(i)
       \/ PostAnswered(i) \/ UnlockAnswered(i)
    /\ UNCHANGED tabVars

\* The file expires, or an administrator deletes it.
Vanish(s) ==
    /\ rows[s] # NoRow
    /\ rows' = [rows EXCEPT ![s] = NoRow]
    /\ objects' = [objects EXCEPT ![s] = None]
    /\ UNCHANGED <<drawn, tabVars, calls>>

-----------------------------------------------------------------------------
Init ==
    /\ objects = [s \in Slugs |-> None]
    /\ rows = [s \in Slugs |-> NoRow]
    /\ drawn = {}
    /\ page = Page("home", None)
    /\ direct = FALSE
    /\ uploader = InitialUploader
    /\ GateInit
    /\ calls = [i \in CallIds |-> NoCall]
    /\ events = 0

VisitorStep ==
    \/ FollowLink \/ OpenAddress
    \/ \E f \in Files : SelectFile(f)
    \/ ChooseVisibility \/ HandleUpload \/ ResetForAnother
    \/ \E right \in BOOLEAN : SubmitPassword(right)

SystemStep ==
    \/ FileViewPage \/ CooldownElapsed
    \/ \E i \in CallIds : CallAnswered(i) \/ CallLands(i)

Next ==
    \/ /\ VisitorStep \/ \E s \in Slugs : Vanish(s)
       /\ events < MaxEvents /\ events' = events + 1
    \/ SystemStep /\ UNCHANGED events

Spec == Init /\ [][Next]_vars

-----------------------------------------------------------------------------
(* Properties *)

CallRecord ==
    [op : {"none", "presign", "put", "register", "post", "unlock"},
     file : Files \union {None}, guarded : BOOLEAN, slug : Slugs \union {None},
     right : BOOLEAN, status : {"sent"} \union DOMAIN EventForStatus, own : BOOLEAN]

TypeOK ==
    /\ objects \in [Slugs -> Files \union {None}]
    /\ rows \in [Slugs -> [file : Files, guarded : BOOLEAN] \union {NoRow}]
    /\ drawn \subseteq Slugs
    /\ page \in [at : {"home", "upload", "loading", "file", "unlock", "error"},
                slug : Slugs \union {None}]
    /\ direct \in BOOLEAN
    /\ uploader \in [file : Files \union {None}, guarded : BOOLEAN, asked : BOOLEAN,
                     status : {"idle", "uploading", "success", "error"},
                     url : Slugs \union {None}]
    /\ GateTypeOK
    /\ calls \in [CallIds -> CallRecord]
    /\ events \in 0..MaxEvents

Chain == {"presign", "put", "register", "post"}

OwnUpload(i) == calls[i].own /\ calls[i].op \in Chain

\* One upload at a time: the form is switched off for exactly as long as one
\* request of its own chain is under way, and never for want of an answer; the
\* gate likewise waits for its request, or for a timer that is set.
OneUploadAtATime ==
    /\ page.at = "upload" /\ IsUploading <=> \E i \in CallIds : OwnUpload(i)
    /\ \A i, j \in CallIds : OwnUpload(i) /\ OwnUpload(j) => i = j
    /\ gate = "loading" => \E i \in CallIds : calls[i].own /\ calls[i].op = "unlock"
    /\ gate = "rate_limited" => cooling

\* The URL shown after an upload is that of the selected file, with the
\* visibility chosen when the upload was started, whatever was chosen since; the
\* file is stored and registered there, unless it has been removed again.
UrlLeadsToTheFile ==
    uploader.status = "success" =>
        LET s == uploader.url
        IN  /\ s \in drawn
            /\ rows[s] = NoRow \/ rows[s] = [file |-> uploader.file, guarded |-> uploader.asked]
            /\ objects[s] = rows[s].file

-----------------------------------------------------------------------------
(* The inductive invariant behind these properties *)

\* The server has drawn a slug for the upload: no later upload gets that slug.
HasSlug(i) ==
    \/ calls[i].op \in {"put", "register"}
    \/ calls[i].op \in {"presign", "post"} /\ calls[i].status = "ok"

Registered(i) == calls[i].op \in {"register", "post"} /\ calls[i].status = "ok"

SlugsOK ==
    \A i \in CallIds :
        HasSlug(i) =>
            /\ calls[i].slug \in drawn
            /\ uploader.status = "success" => calls[i].slug # uploader.url
            /\ \A j \in CallIds : HasSlug(j) /\ calls[j].slug = calls[i].slug => i = j

UploadsOK ==
    \A i \in CallIds :
        /\ calls[i].op \in Chain => calls[i].file \in Files
        /\ OwnUpload(i) => calls[i].file = uploader.file /\ calls[i].guarded = uploader.asked
        /\ Registered(i) =>
               /\ rows[calls[i].slug] \in {NoRow, [file |-> calls[i].file,
                                                  guarded |-> calls[i].guarded]}
               /\ objects[calls[i].slug] = rows[calls[i].slug].file

\* What every reachable state satisfies, and every step preserves: the types, the
\* properties above, and what the uploads under way know of their slugs.
IInv == TypeOK /\ OneUploadAtATime /\ UrlLeadsToTheFile /\ SlugsOK /\ UploadsOK
=============================================================================
