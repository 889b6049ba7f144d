--------------------------- MODULE CampaignContent ---------------------------
(***************************************************************************)
(* The content of a campaign as one browser edits it: the compose page     *)
(* (pages/ComposePage.tsx) and the info tab (pages/CampaignDetailPage.tsx) *)
(* over their shared query cache, the Go handlers that write the row       *)
(* (internal/campaign/handler.go) and keep the attachments                 *)
(* (internal/attachment/handler.go), and a second tab that uploads files.  *)
(*                                                                         *)
(* A text is a number, 0 the empty one; html and mime are the two bodies,  *)
(* info stands for name, subject and sender.  A calendar (ICS) is empty,   *)
(* built from the builder's fields, foreign (it has an event the builder   *)
(* can read, and more that it cannot write) or opaque.  ver stands for     *)
(* updated_at, by which any two writes of the row differ.  All files are   *)
(* uploaded under one name and are of one size.  Answers are not lost, nor *)
(* the network, after which the pages would fetch again by themselves;     *)
(* files and rows of attachments are written without an error.             *)
(***************************************************************************)
EXTENDS Integers, FiniteSets

CONSTANTS
  Rows,        \* the rows the campaign may start from
  MaxFiles,    \* files that fit into MaxMIMESize
  MaxInFlight, \* bound: requests in flight when the user makes another
  Budgets      \* bound: acts on the row, acts on the files and outside steps that
               \* a behaviour may take

VARIABLES
  c,        \* the campaign's row
  disk,     \* the campaign's directory: the paths in use
  atts,     \* the attachments table: id and path
  req,      \* the requests in flight, by what they are for
  query,    \* the cached campaign and its fetch
  attq,     \* the cached list of attachments and its fetch
  route,    \* the page that is mounted
  page,     \* ComposePage's state
  form,     \* CampaignInfoTab's state
  left,     \* what is left of the behaviour's budget
  kept,     \* history: the content the user was last told is saved
  seen      \* history: requests that overlapped, and the test mail

vars == <<c, disk, atts, req, query, attq, route, page, form, left, kept, seen>>

-----------------------------------------------------------------------------
(* Mut... is a faulty form of the definition after it.                     *)

NoIcs == [kind |-> "none", n |-> 0]
Built(n) == [kind |-> "built", n |-> n]
Foreign(n) == [kind |-> "foreign", n |-> n]
Opaque(n) == [kind |-> "opaque", n |-> n]

\* parseIcsString finds an event for the builder.
Parses(ics) == ics.kind \in {"built", "foreign"}

NoRow == [html |-> 0, mime |-> 0, type |-> "html", ics |-> NoIcs, on |-> FALSE,
          info |-> 0, status |-> "none", ver |-> 0]

\* What a PUT carries; a field it does not carry decodes as the empty one.
NoBody == [html |-> 0, mime |-> 0, type |-> "", ics |-> NoIcs, on |-> FALSE, info |-> 0]

Updates == {"save", "preview", "info"}        \* PUT /campaigns/{id}
RowKinds == Updates \cup {"upload", "reset"}  \* the requests that save the whole row
Uploads == {"attach", "elsewhere"}
Kinds == RowKinds \cup Uploads \cup {"detach", "test"}
Idle == [at |-> "idle", body |-> NoBody, row |-> NoRow, mine |-> FALSE, id |-> 0, path |-> 0]

IcsSet == [kind : {"none", "built", "foreign", "opaque"}, n : Nat]
Statuses == {"none", "draft", "scheduled", "sending", "paused", "completed", "cancelled"}
RowSet == [html : Nat, mime : Nat, type : {"html", "raw_mime"}, ics : IcsSet, on : BOOLEAN,
           info : Nat, status : Statuses, ver : Nat]

ASSUME RowsAssumption == Rows \subseteq {r \in RowSet : r.ver = 1}
ASSUME BoundsAssumption ==
  /\ {MaxFiles, MaxInFlight} \subseteq Nat
  /\ Budgets \subseteq [row : 0..9, files : 0..9, outside : 0..9]

Content(r) == [html |-> r.html, mime |-> r.mime, ics |-> r.ics, info |-> r.info, on |-> r.on]

\* What a mail of this row carries, in PreviewSend as in a run.
Mail(r) == [type |-> r.type,
            body |-> IF r.type = "raw_mime" THEN r.mime ELSE r.html,
            ics |-> IF r.type # "raw_mime" /\ r.on THEN r.ics ELSE NoIcs]
NoMail == Mail(NoRow)

-----------------------------------------------------------------------------
(* The compose page *)

NewPage == [mode |-> "html", html |-> 0, mime |-> 0, on |-> FALSE, ics |-> NoIcs,
            icsMode |-> "builder", fields |-> 0, dirty |-> TRUE, saving |-> FALSE,
            preview |-> [html |-> 0, asked |-> 0], unsent |-> "none", drifts |-> FALSE]

\* The effect that copies the builder's output to the calendar, run when the
\* output, the mode or the check box changes.
Synced(p, q, parsed) ==
  IF /\ q.icsMode = "builder" /\ q.on
     /\ parsed \/ p.icsMode # q.icsMode \/ p.on # q.on \/ p.fields # q.fields
  THEN [q EXCEPT !.ics = Built(q.fields)] ELSE q

\* The effect that copies the campaign into the page.  It leaves the page in MIME
\* mode when the row has an HTML body, and shows in the builder a calendar that the
\* builder cannot write: there the page drifts.
Taken(p, r) ==
  [p EXCEPT !.html = r.html, !.mime = r.mime, !.ics = r.ics, !.on = r.on,
            !.mode = IF r.type = "raw_mime" THEN "mime" ELSE @,
            !.fields = IF Parses(r.ics) THEN r.ics.n ELSE @,
            !.icsMode = IF Parses(r.ics) THEN "builder" ELSE IF r.ics # NoIcs THEN "raw" ELSE @,
            !.dirty = FALSE, !.unsent = "none",
            !.drifts = \/ p.mode = "mime" /\ r.type # "raw_mime"
                       \/ r.on /\ r.ics.kind \in {"foreign", "none"}]

\* That effect, and the one above after it.
MutLoading(p, r) == [p EXCEPT !.html = r.html, !.mime = r.mime, !.dirty = FALSE, !.unsent = "none"]
Loading(p, r) == Synced(p, Taken(p, r), Parses(r.ics))

BuildPayload(p) ==
  IF p.mode = "mime" THEN [NoBody EXCEPT !.type = "raw_mime", !.mime = p.mime]
  ELSE [NoBody EXCEPT !.type = "html", !.html = p.html, !.on = p.on,
          !.ics = IF ~p.on THEN NoIcs
                  ELSE IF p.icsMode = "builder" THEN Built(p.fields) ELSE p.ics]

\* The info tab copies the campaign when it is mounted, and never again.
NoForm == [info |-> 0, edited |-> FALSE, stale |-> FALSE, saving |-> FALSE]
NewForm(r, stale) == [NoForm EXCEPT !.info = r.info, !.stale = stale]

-----------------------------------------------------------------------------
(* The query cache *)

\* Mounting a page asks for what it shows, or joins the fetch under way.
Asked(q) == IF q.fetch = "none" THEN [q EXCEPT !.fetch = "asked"] ELSE q

\* invalidateQueries: a fetch under way starts again, unless it is the first.
MutInvalidated(q) == Asked(q)
Invalidated(q) == IF q.known THEN [q EXCEPT !.fetch = "asked"] ELSE Asked(q)

Init ==
  /\ c \in Rows
  /\ disk = {} /\ atts = {}
  /\ req = [k \in Kinds |-> Idle]
  /\ route \in {"compose", "info"}
  /\ query = [data |-> c, known |-> TRUE, fetch |-> "none", reply |-> NoRow]
  /\ attq = [data |-> {}, known |-> route = "compose", fetch |-> "none", reply |-> {}]
  /\ page = IF route = "compose" THEN Loading(NewPage, c) ELSE NewPage
  /\ form = IF route = "info" THEN NewForm(c, FALSE) ELSE NoForm
  /\ left \in Budgets
  /\ kept = Content(c)
  /\ seen = [overlap |-> FALSE, racing |-> FALSE, joined |-> FALSE, cut |-> FALSE,
             mailed |-> NoMail, meant |-> NoMail]

KeepServer == UNCHANGED <<c, disk, atts>>
KeepPage == UNCHANGED <<route, page, form>>
KeepCounts == UNCHANGED left

RowFetchReads ==
  /\ query.fetch = "asked"
  /\ query' = [query EXCEPT !.fetch = "read", !.reply = c]
  /\ KeepServer /\ KeepPage /\ KeepCounts /\ UNCHANGED <<req, attq, kept, seen>>

\* Structural sharing hides an equal row from the page.
RowFetchDone ==
  /\ query.fetch = "read"
  /\ query' = [query EXCEPT !.fetch = "none", !.data = query.reply]
  /\ page' = IF route = "compose" /\ query.reply # query.data THEN Loading(page, query.reply)
             ELSE page
  /\ KeepServer /\ KeepCounts /\ UNCHANGED <<req, attq, route, form, kept, seen>>

FilesFetchReads ==
  /\ attq.fetch = "asked"
  /\ attq' = [attq EXCEPT !.fetch = "read", !.reply = {a.id : a \in atts}]
  /\ KeepServer /\ KeepPage /\ KeepCounts /\ UNCHANGED <<req, query, kept, seen>>

FilesFetchDone ==
  /\ attq.fetch = "read"
  /\ attq' = [attq EXCEPT !.fetch = "none", !.known = TRUE, !.data = attq.reply]
  /\ KeepServer /\ KeepPage /\ KeepCounts /\ UNCHANGED <<req, query, kept, seen>>

-----------------------------------------------------------------------------
(* What the user does *)

Spends(what) == left[what] > 0 /\ left' = [left EXCEPT ![what] = @ - 1]
Acts == Spends("row")
Fresh == 20 - left.row
RowBusy == query.fetch # "none" \/ \E k \in RowKinds : req[k].at # "idle"
Composes == route = "compose"
InHtml == Composes /\ page.mode = "html"
ShowsIcs == InHtml /\ page.on

\* A change of the page that marks it dirty.
Edit(q) ==
  /\ page' = [Synced(page, q, FALSE) EXCEPT !.dirty = TRUE,
                !.unsent = IF @ = "busy" \/ RowBusy THEN "busy" ELSE "quiet"]
  /\ KeepServer /\ UNCHANGED <<req, query, attq, route, form, kept, seen>>

EditHtml == /\ InHtml /\ Acts
            /\ \E v \in {0, Fresh} : Edit([page EXCEPT !.html = v])
EditMime == /\ Composes /\ page.mode = "mime" /\ Acts
            /\ \E v \in {0, Fresh} : Edit([page EXCEPT !.mime = v])
SwitchMode == /\ Composes /\ Acts
              /\ \E m \in {"html", "mime"} \ {page.mode} : Edit([page EXCEPT !.mode = m])
SwitchIcs == InHtml /\ Acts /\ Edit([page EXCEPT !.on = ~@])
UpdateIcsField == /\ ShowsIcs /\ page.icsMode = "builder" /\ Acts
                  /\ Edit([page EXCEPT !.fields = Fresh])
EditIcs == /\ ShowsIcs /\ page.icsMode = "raw" /\ Acts
           /\ \E i \in {NoIcs, Foreign(Fresh), Opaque(Fresh)} : Edit([page EXCEPT !.ics = i])

\* The switch between builder and text does not mark the page dirty.
SwitchIcsMode ==
  /\ ShowsIcs /\ Acts
  /\ \E m \in {"builder", "raw"} \ {page.icsMode} :
       page' = Synced(page, [page EXCEPT !.icsMode = m, !.drifts = TRUE], FALSE)
  /\ KeepServer /\ UNCHANGED <<req, query, attq, route, form, kept, seen>>

Clicks(k, body, id) ==
  /\ req[k].at = "idle"
  /\ Cardinality({j \in Kinds : req[j].at # "idle"}) < MaxInFlight
  /\ req' = [req EXCEPT ![k] = [Idle EXCEPT !.at = "sent", !.body = body, !.id = id,
                                 !.row = query.data, !.mine = TRUE]]
  /\ seen' = [seen EXCEPT !.overlap = @ \/ (k \in RowKinds /\ \E j \in RowKinds : req[j].at # "idle")]
  /\ KeepServer /\ UNCHANGED <<query, attq, route, kept>>

\* What was edited while something was under way stays marked until a row is
\* loaded: an answer to an earlier save has made it clean, or may.
Sent(p) == [p EXCEPT !.unsent = IF @ = "busy" THEN @ ELSE "none"]

HandleSave ==
  /\ Composes /\ ~page.saving /\ Acts
  /\ Clicks("save", BuildPayload(page), 0)
  /\ page' = [Sent(page) EXCEPT !.saving = TRUE]
  /\ UNCHANGED form

HandlePreview ==
  /\ Composes /\ Acts
  /\ Clicks("preview", BuildPayload(page), 0)
  /\ page' = Sent(page)
  /\ UNCHANGED form

\* The form is there when the page is not dirty.
TestOffered == ~page.dirty
HandleTestSend ==
  /\ Composes /\ TestOffered /\ Acts
  /\ Clicks("test", BuildPayload(page), IF page.drifts \/ page.unsent = "busy" THEN 0 ELSE 1)
  /\ UNCHANGED <<page, form>>

Attaches ==
  /\ Composes /\ Spends("files")
  /\ Clicks("attach", NoBody, 20 - left.files)
  /\ UNCHANGED <<page, form>>
Detaches ==
  /\ Composes /\ Spends("files")
  /\ \E id \in attq.data : Clicks("detach", NoBody, id)
  /\ UNCHANGED <<page, form>>

OnInfo == route = "info"
EditInfo == /\ OnInfo /\ Acts
            /\ form' = [form EXCEPT !.info = Fresh, !.edited = TRUE]
            /\ KeepServer /\ UNCHANGED <<req, query, attq, route, page, kept, seen>>
SaveInfo ==
  /\ OnInfo /\ ~form.saving /\ Acts
  /\ Clicks("info", [NoBody EXCEPT !.info = form.info], 0)
  /\ form' = [form EXCEPT !.saving = TRUE]
  /\ UNCHANGED page
UploadRecipients ==
  OnInfo /\ Acts /\ Clicks("upload", NoBody, 0) /\ UNCHANGED <<page, form>>
ResetToDraft ==
  /\ OnInfo /\ query.data.status \in {"completed", "cancelled"} /\ Acts
  /\ Clicks("reset", NoBody, 0)
  /\ UNCHANGED <<page, form>>

\* The requests of a page that is left go on, but find nobody to tell; a fetch
\* under way is joined, whatever has changed since.
Visits ==
  /\ \E what \in {"row", "files"} : Spends(what)
  /\ route' = IF route = "compose" THEN "info" ELSE "compose"
  /\ req' = [k \in Kinds |-> [req[k] EXCEPT !.mine = FALSE]]
  /\ query' = Asked(query)
  /\ IF route = "compose"
     THEN /\ page' = NewPage
          /\ form' = NewForm(query.data, query.data.info # c.info \/ RowBusy)
          /\ UNCHANGED attq
     ELSE /\ page' = Loading(NewPage, query.data)
          /\ form' = NoForm
          /\ attq' = Asked(attq)
  /\ seen' = [seen EXCEPT !.joined = @ \/ (route = "info" /\ attq.fetch # "none")]
  /\ KeepServer /\ UNCHANGED kept

-----------------------------------------------------------------------------
(* The handlers *)

\* Update: what is given replaces, but the check box is always taken.
Given(v, none, old) == IF v = none THEN old ELSE v
MutApplied(r, b) ==
  [r EXCEPT !.html = b.html, !.mime = b.mime, !.type = Given(b.type, "", @),
     !.ics = Given(b.ics, NoIcs, @), !.on = b.on, !.info = Given(b.info, 0, @)]
Applied(r, b) ==
  [r EXCEPT !.html = Given(b.html, 0, @), !.mime = Given(b.mime, 0, @),
     !.type = Given(b.type, "", @), !.ics = Given(b.ics, NoIcs, @),
     !.on = b.on, !.info = Given(b.info, 0, @)]

Accepts(k) == /\ k \in Updates => c.status # "sending"
              /\ k = "reset" => c.status \in {"completed", "cancelled"}

Result(k) == CASE k \in Updates -> Applied(req[k].row, req[k].body)
               [] k = "upload"  -> req[k].row
               [] k = "reset"   -> [req[k].row EXCEPT !.status = "draft"]

Goes(k, at) == req' = [req EXCEPT ![k].at = at]
Handles == KeepPage /\ KeepCounts /\ UNCHANGED <<query, attq, kept>>

\* The row is read, and refused or kept in hand ...
RowReads(k) ==
  /\ req[k].at = "sent"
  /\ req' = [req EXCEPT ![k].at = IF Accepts(k) THEN "read" ELSE "refused", ![k].row = c]
  /\ KeepServer /\ Handles /\ UNCHANGED seen

\* ... and the whole of it is saved.
RowWrites(k) ==
  /\ req[k].at = "read"
  /\ c' = [Result(k) EXCEPT !.ver = c.ver + 1]
  /\ Goes(k, "done")
  /\ Handles /\ UNCHANGED <<disk, atts, seen>>

\* previewSend: the mail is made from the row.
PreviewSends ==
  /\ req["test"].at = "sent"
  /\ Goes("test", "done")
  /\ seen' = [seen EXCEPT !.mailed = Mail(c),
       !.meant = IF req["test"].row.ver = c.ver /\ req["test"].id = 1
                 THEN Mail(req["test"].body) ELSE Mail(c)]
  /\ KeepServer /\ Handles

\* attachment.Upload: the total is checked and a free name is looked for; ...
MutFreePath == 1
MutPathZero == 0
FreePath == CHOOSE p \in 1..(Cardinality(disk) + 1) : p \notin disk
Stored == {"checked", "stored"}
Fits == Cardinality(atts) < MaxFiles
UploadChecks(k) ==
  /\ req[k].at = "sent"
  /\ IF Fits
     THEN req' = [req EXCEPT ![k].at = "checked", ![k].path = FreePath]
     ELSE Goes(k, "refused")
  /\ seen' = [seen EXCEPT !.racing = @ \/ \E j \in Uploads \ {k} : req[j].at \in Stored]
  /\ KeepServer /\ Handles

\* ... the file is written; ...
UploadStores(k) ==
  /\ req[k].at = "checked"
  /\ disk' = disk \cup {req[k].path}
  /\ Goes(k, "stored")
  /\ Handles /\ UNCHANGED <<c, atts, seen>>

\* ... its row is inserted.
UploadRecords(k) ==
  /\ req[k].at = "stored"
  /\ atts' = atts \cup {[id |-> req[k].id, path |-> req[k].path]}
  /\ Goes(k, "done")
  /\ Handles /\ UNCHANGED <<c, disk, seen>>

\* attachment.Delete: the row is found, the file removed, the row deleted.
DeleteFinds ==
  /\ req["detach"].at = "sent"
  /\ IF \E a \in atts : a.id = req["detach"].id
     THEN \E a \in atts : /\ a.id = req["detach"].id
                          /\ req' = [req EXCEPT !["detach"].at = "found", !["detach"].path = a.path]
     ELSE Goes("detach", "refused")
  /\ KeepServer /\ Handles /\ UNCHANGED seen
DeleteRemoves ==
  /\ req["detach"].at = "found"
  /\ disk' = disk \ {req["detach"].path}
  /\ Goes("detach", "removed")
  /\ Handles /\ UNCHANGED <<c, atts, seen>>
DeleteRecords ==
  /\ req["detach"].at = "removed"
  /\ atts' = {a \in atts : a.id # req["detach"].id}
  /\ Goes("detach", "done")
  /\ Handles /\ UNCHANGED <<c, disk, seen>>

-----------------------------------------------------------------------------
(* The answers *)

Ends(k) == req' = [req EXCEPT ![k] = Idle]

\* What the page says is saved: all that it showed, empty or not, in the mode it was in.
Kept(b) ==
  IF b.type = "html" THEN [kept EXCEPT !.html = b.html, !.on = b.on, !.ics = IF b.on THEN b.ics ELSE @]
  ELSE [kept EXCEPT !.mime = b.mime, !.on = b.on]

SaveAnswered ==
  /\ req["save"].at \in {"done", "refused"}
  /\ Ends("save")
  /\ IF req["save"].at = "done"
     THEN /\ query' = Invalidated(query)
          /\ kept' = Kept(req["save"].body)
          /\ seen' = [seen EXCEPT !.cut = FALSE]
          /\ page' = IF req["save"].mine THEN [page EXCEPT !.dirty = FALSE, !.saving = FALSE] ELSE page
     ELSE /\ page' = IF req["save"].mine THEN [page EXCEPT !.saving = FALSE] ELSE page
          /\ UNCHANGED <<query, kept, seen>>
  /\ KeepServer /\ KeepCounts /\ UNCHANGED <<attq, route, form>>

\* The update of a preview is followed by the preview itself, if it succeeds.
MutPreviewFollows(answer) == TRUE
PreviewFollows(answer) == answer = "done"
PreviewAnswered ==
  /\ req["preview"].at \in {"done", "refused"}
  /\ IF PreviewFollows(req["preview"].at) THEN Goes("preview", "view") ELSE Ends("preview")
  /\ IF req["preview"].at = "done"
     THEN /\ query' = Invalidated(query)
          /\ kept' = Kept(req["preview"].body)
          /\ seen' = [seen EXCEPT !.cut = FALSE]
     ELSE UNCHANGED <<query, kept, seen>>
  /\ KeepServer /\ KeepPage /\ KeepCounts /\ UNCHANGED attq

PreviewShows ==
  /\ req["preview"].at = "view"
  /\ page' = IF req["preview"].mine
             THEN [page EXCEPT !.preview = [html |-> c.html, asked |-> req["preview"].body.html]]
             ELSE page
  /\ Ends("preview")
  /\ KeepServer /\ KeepCounts /\ UNCHANGED <<query, attq, route, form, kept, seen>>

InfoAnswered ==
  /\ req["info"].at \in {"done", "refused"}
  /\ Ends("info")
  /\ form' = IF req["info"].mine THEN [form EXCEPT !.saving = FALSE] ELSE form
  /\ IF req["info"].at = "done"
     THEN /\ query' = Invalidated(query)
          /\ kept' = [kept EXCEPT !.info = req["info"].body.info]
          /\ seen' = [seen EXCEPT !.cut = TRUE]
     ELSE UNCHANGED <<query, kept, seen>>
  /\ KeepServer /\ KeepCounts /\ UNCHANGED <<attq, route, page>>

RowAnswered(k) ==
  /\ req[k].at \in {"done", "refused"}
  /\ Ends(k)
  /\ query' = IF req[k].at = "done" THEN Invalidated(query) ELSE query
  /\ KeepServer /\ KeepPage /\ KeepCounts /\ UNCHANGED <<attq, kept, seen>>

\* Attachments are asked for again if the page that lists them is there.
FilesAnswered(k) ==
  /\ req[k].at \in {"done", "refused"}
  /\ Ends(k)
  /\ LET told == req[k].at = "done" /\ route = "compose"
     IN /\ attq' = IF told THEN Invalidated(attq) ELSE attq
        /\ seen' = [seen EXCEPT !.joined = @ \/ (told /\ ~attq.known)]
  /\ KeepServer /\ KeepPage /\ KeepCounts /\ UNCHANGED <<query, kept>>

MutTestAnswered ==
  /\ req["test"].at = "done"
  /\ Ends("test")
  /\ query' = Invalidated(query)
  /\ KeepServer /\ KeepPage /\ KeepCounts /\ UNCHANGED <<attq, kept, seen>>
TestAnswered ==
  /\ req["test"].at = "done"
  /\ Ends("test")
  /\ KeepServer /\ KeepPage /\ KeepCounts /\ UNCHANGED <<query, attq, kept, seen>>

ElsewhereAnswered ==
  /\ req["elsewhere"].at \in {"done", "refused"}
  /\ Ends("elsewhere")
  /\ KeepServer /\ KeepPage /\ KeepCounts /\ UNCHANGED <<query, attq, kept, seen>>

-----------------------------------------------------------------------------
(* Outside: the run writes its status, and a second tab uploads a file.    *)

RunTurns ==
  /\ Spends("outside")
  /\ \E s \in {<<"draft", "sending">>, <<"sending", "completed">>} :
       /\ c.status = s[1]
       /\ c' = [c EXCEPT !.status = s[2], !.ver = @ + 1]
  /\ KeepPage /\ UNCHANGED <<disk, atts, req, query, attq, kept, seen>>

AttachesElsewhere ==
  /\ Spends("outside") /\ req["elsewhere"].at = "idle"
  /\ req' = [req EXCEPT !["elsewhere"] = [Idle EXCEPT !.at = "sent", !.id = left.outside]]
  /\ KeepServer /\ KeepPage /\ UNCHANGED <<query, attq, kept, seen>>

User ==
  \/ EditHtml \/ EditMime \/ SwitchMode \/ SwitchIcs \/ UpdateIcsField \/ EditIcs \/ SwitchIcsMode
  \/ HandleSave \/ HandlePreview \/ HandleTestSend \/ Attaches \/ Detaches
  \/ EditInfo \/ SaveInfo \/ UploadRecipients \/ ResetToDraft \/ Visits

System ==
  \/ RowFetchReads \/ RowFetchDone \/ FilesFetchReads \/ FilesFetchDone
  \/ \E k \in RowKinds : RowReads(k) \/ RowWrites(k)
  \/ PreviewSends
  \/ \E k \in Uploads : UploadChecks(k) \/ UploadStores(k) \/ UploadRecords(k)
  \/ DeleteFinds \/ DeleteRemoves \/ DeleteRecords
  \/ SaveAnswered \/ PreviewAnswered \/ PreviewShows \/ InfoAnswered
  \/ \E k \in {"upload", "reset"} : RowAnswered(k)
  \/ \E k \in {"attach", "detach"} : FilesAnswered(k)
  \/ TestAnswered \/ ElsewhereAnswered

Next == User \/ System \/ RunTurns \/ AttachesElsewhere

Spec == Init /\ [][Next]_vars

-----------------------------------------------------------------------------
(* Properties *)

\* What the user was last told is saved; saving the info tab switches the
\* calendar off (handler.go:229).
Told == [kept EXCEPT !.on = @ /\ ~seen.cut]

Quiet == /\ \A k \in Kinds : req[k].at = "idle"
         /\ query.fetch = "none" /\ attq.fetch = "none"

\* The types of the row and of the page; an attachment has a path, a request that
\* saves the row none.
TypeOK ==
  /\ c.type \in {"html", "raw_mime"} /\ c.ics \in IcsSet /\ c.ver \in Nat
  /\ page.mode \in {"html", "mime"} /\ page.ics \in IcsSet /\ page.dirty \in BOOLEAN
  /\ page.unsent \in {"none", "quiet", "busy"}
  /\ \A a \in atts : a.path \in Nat \ {0}
  /\ \A k \in Kinds : req[k].at = "idle" \/ k \in RowKinds => req[k].path = 0

\* A test mail carries what the page showed when the test was asked for, unless
\* the row has been written in between or the page drifts from the row
\* (ComposePage.tsx:677 offers the form for saved content only).
TestMailIsShown == seen.mailed = seen.meant

\* A row has what was told, but for what was told to be empty.
Holds(r, told) ==
  /\ told.html \in {0, r.html} /\ told.mime \in {0, r.mime} /\ told.info \in {0, r.info}
  /\ told.ics \in {NoIcs, r.ics} /\ told.on = r.on

\* What the user was told is saved (ComposePage.tsx:311) is what the row has, and a
\* save in one mode leaves the body of the other, unless two requests that save the row
\* were in flight at once (handler.go:207).  Excepted by name: a text that he emptied,
\* which the page reports saved and the handler takes for not given.
SavedStays == (Quiet /\ ~seen.overlap) => Holds(c, Told)

\* When all is quiet the page has the content of the row, whoever asked for it
\* last (ComposePage.tsx:307, CampaignDetailPage.tsx:160).
RowIsFresh == Content(query.data) = Content(c)

\* The info tab shows the row, unless it was opened before the cache was fresh
\* or holds an edit (CampaignDetailPage.tsx:172).
FormIsFresh == route = "info" /\ ~form.edited /\ ~form.stale => form.info = c.info

\* The list shows what this page uploaded and nothing that is gone, unless the
\* first fetch of it was under way when it changed (ComposePage.tsx:212).
FilesAreListed ==
  attq.known /\ route = "compose" /\ ~seen.joined =>
    /\ attq.data \subseteq {a.id : a \in atts}
    /\ \A a \in atts : a.id >= 10 => a.id \in attq.data

\* When all is quiet what is on the screen is what the server has.
CacheIsFresh == Quiet => RowIsFresh /\ FormIsFresh /\ FilesAreListed

\* The preview is of the body that was on the page (ComposePage.tsx:323), unless
\* requests overlap or the body is not an HTML one, or is empty.
PreviewIsOfPage ==
  page.preview.asked # 0 /\ ~seen.overlap => page.preview.html = page.preview.asked

\* The attachments stay within the limit, and when all is quiet each has a file of
\* its own and every file is one's, unless two uploads overlapped
\* (attachment/handler.go:80).
FilesAgree ==
  ~seen.racing =>
    /\ Cardinality(atts) <= MaxFiles
    /\ Quiet => /\ disk = {a.path : a \in atts}
                /\ \A a, b \in atts : a.path = b.path => a = b

\* An edit made while nothing was under way is not replaced by a fetched row
\* before the user sends it (ComposePage.tsx:249), as long as the network stays: the
\* pages do not switch off that react-query fetches when it comes back.
EditsSurvive ==
  [][(page.unsent = "quiet" /\ page'.unsent = "none" /\ route' = route)
       => \E k \in {"save", "preview"} : req'[k].at = "sent" /\ req[k].at = "idle"]_vars

-----------------------------------------------------------------------------
(* The inductive invariant *)

BodySet == [html : Nat, mime : Nat, type : {"", "html", "raw_mime"}, ics : IcsSet,
            on : BOOLEAN, info : Nat]
ReqSet == [at : {"idle", "sent", "read", "refused", "done", "view", "checked", "stored",
                 "found", "removed"},
           body : BodySet, row : RowSet, mine : BOOLEAN, id : Nat, path : Nat]
PageSet == [mode : {"html", "mime"}, html : Nat, mime : Nat, on : BOOLEAN, ics : IcsSet,
            icsMode : {"builder", "raw"}, fields : Nat, dirty : BOOLEAN, saving : BOOLEAN,
            preview : [html : Nat, asked : Nat], unsent : {"none", "quiet", "busy"},
            drifts : BOOLEAN]

Fetching == {"none", "asked", "read"}
MailSet == [type : {"", "html", "raw_mime"}, body : Nat, ics : IcsSet]
SeenSet == [overlap : BOOLEAN, racing : BOOLEAN, joined : BOOLEAN, cut : BOOLEAN,
            mailed : MailSet, meant : MailSet]

ContentTypes ==
  /\ c \in RowSet
  /\ req \in [Kinds -> ReqSet]
  /\ query \in [data : RowSet, known : {TRUE}, fetch : Fetching, reply : RowSet]
  /\ attq \in [data : SUBSET Nat, known : BOOLEAN, fetch : Fetching, reply : SUBSET Nat]
  /\ route \in {"compose", "info"}
  /\ page \in PageSet
  /\ form \in [info : Nat, edited : BOOLEAN, stale : BOOLEAN, saving : BOOLEAN]
  /\ left \in [row : 0..9, files : 0..9, outside : 0..9]
  /\ kept \in [html : Nat, mime : Nat, ics : IcsSet, info : Nat, on : BOOLEAN]
  /\ seen \in SeenSet
FileTypes ==
  /\ disk \subseteq Nat \ {0} /\ IsFiniteSet(disk)
  /\ atts \subseteq [id : Nat, path : Nat \ {0}] /\ IsFiniteSet(atts)
  /\ \A k \in Uploads : req[k].at \in Stored => req[k].path # 0

\* updated_at tells a copy of the row from the row.
VerInv == \A r \in {query.data, query.reply} : r.ver <= c.ver /\ (r.ver = c.ver => r = c)

\* A row that has been written is on its way to the page, or an answer is that
\* will have it fetched.
FreshInv ==
  query.fetch # "asked" =>
    \/ Content(IF query.fetch = "read" THEN query.reply ELSE query.data) = Content(c)
    \/ \E k \in RowKinds : req[k].at = "done"

\* Whoever writes info while the info tab is there writes what it shows.
FormInv ==
  route = "info" /\ ~form.edited /\ ~form.stale =>
    /\ form.info = c.info
    /\ req["save"].at = "idle" /\ req["preview"].at = "idle"
    /\ \A k \in RowKinds : req[k].at = "read" => req[k].row.info = c.info
    /\ req["info"].at # "idle" => req["info"].body.info = form.info

\* The list that is there or under way lacks only what an answer still to come
\* is about.
ShownIds == IF attq.fetch = "read" THEN attq.reply ELSE attq.data
DoneWith(k, id) == req[k].at = "done" /\ req[k].id = id
ListInv ==
  route = "compose" /\ ~seen.joined /\ attq.fetch # "asked" =>
    /\ \A i \in ShownIds : (\E a \in atts : a.id = i) \/ DoneWith("detach", i)
    /\ \A a \in atts : a.id >= 10 => a.id \in ShownIds \/ DoneWith("attach", a.id)

\* Nobody uploads under an id that was given away.
UsedIds == (left.outside + 1)..9 \cup 11..(19 - left.files)
IdInv ==
  /\ \A a \in atts : a.id \in UsedIds
  /\ \A a, b \in atts : a.id = b.id => a = b
  /\ req["attach"].at # "idle" => req["attach"].id \in 11..(19 - left.files)
  /\ req["elsewhere"].at # "idle" => req["elsewhere"].id \in (left.outside + 1)..9
  /\ \A k \in Uploads, a \in atts :
       req[k].at \in Stored \cup {"sent"} => a.id # req[k].id

\* Until two uploads overlap, the files are those of the rows, less the one that a
\* deletion has removed and more the one that an upload has written.
Alive == {a \in atts : ~(req["detach"].at = "removed" /\ a.id = req["detach"].id)}
DiskInv ==
  ~seen.racing =>
    /\ \A j, k \in Uploads : req[j].at \in Stored /\ req[k].at \in Stored => j = k
    /\ Cardinality(atts) <= MaxFiles
    /\ \A k \in Uploads : req[k].at \in Stored => Cardinality(atts) < MaxFiles
    /\ disk = {a.path : a \in Alive} \cup {req[k].path : k \in {j \in Uploads : req[j].at = "stored"}}
    /\ \A a, b \in Alive : a.path = b.path => a = b
    /\ \A k \in Uploads : req[k].at = "checked" => req[k].path \notin disk
    /\ \A k \in Uploads : req[k].at = "stored" => \A a \in Alive : a.path # req[k].path
    /\ req["detach"].at \in {"found", "removed"} =>
         \E a \in atts : a.id = req["detach"].id /\ a.path = req["detach"].path

\* What the user will be told when the request is answered.
ToldBy(k) ==
  CASE k \in {"save", "preview"} -> Kept(req[k].body)
    [] k = "info" -> [kept EXCEPT !.info = req[k].body.info, !.on = FALSE]
    [] OTHER -> Told

\* What a request carries of the columns that belong to the other page, or to the other
\* mode of this one.
Payload(b) ==
  /\ b.info = 0
  /\ b.type = "html" => b.mime = 0
  /\ b.type # "html" => b.html = 0 /\ ~b.on
  /\ ~b.on => b.ics = NoIcs
BodyInv ==
  /\ \A k \in {"save", "preview"} : Payload(req[k].body)
  /\ req["info"].body = [NoBody EXCEPT !.info = req["info"].body.info]

\* Until two requests that save the row overlap, the row has what the user was told,
\* or will be told by the one that has written it.
SavedInv ==
  ~seen.overlap =>
    /\ \A j, k \in RowKinds : req[j].at # "idle" /\ req[k].at # "idle" => j = k
    /\ \A k \in RowKinds : req[k].at = "read" => Content(req[k].row) = Content(c)
    /\ \A k \in RowKinds : req[k].at = "done" => Holds(c, ToldBy(k))
    /\ (\A k \in RowKinds : req[k].at # "done") => Holds(c, Told)
    /\ req["preview"].at \in {"done", "view"} /\ req["preview"].body.html # 0 =>
         c.html = req["preview"].body.html

\* A page that is clean, or will be when its save is answered, has what the row has
\* as long as its copy is the row.
Clean == page.dirty => req["save"].at = "done" /\ req["save"].mine
Faithful == Mail(BuildPayload(page)) = Mail(c)
MailInv ==
  /\ route = "compose" /\ Clean /\ ~page.drifts /\ page.unsent # "busy"
       /\ query.data.ver = c.ver => Faithful
  /\ req["test"].at = "sent" /\ req["test"].id = 1 /\ req["test"].row.ver = c.ver
       => Mail(req["test"].body) = Mail(c)
  /\ req["test"].at # "idle" => req["test"].row.ver <= c.ver
  /\ TestMailIsShown

\* An edit made while nothing was under way stays alone until it is sent.
QuietInv ==
  page.unsent = "quiet" => route = "compose" /\ query.fetch = "none"
                           /\ \A k \in RowKinds : req[k].at = "idle"

\* The inductive invariant, TypeOK its first part.
ContentInv ==
  /\ TypeOK /\ ContentTypes /\ FileTypes
  /\ VerInv /\ FreshInv /\ FormInv /\ ListInv /\ IdInv /\ DiskInv
  /\ BodyInv /\ SavedInv /\ PreviewIsOfPage /\ MailInv /\ QuietInv
=============================================================================
