------------------------ MODULE CampaignContentProofs ------------------------
(***************************************************************************)
(* Theorems about CampaignContent, for any set of rows, any number of      *)
(* files and of requests in flight, and any budgets.                       *)
(***************************************************************************)
EXTENDS CampaignContent, FiniteSetTheorems, TLAPS

-----------------------------------------------------------------------------
(* The operators of the pages *)

\* The constants of the model have their types.
LEMMA ConstantTypes ==
  /\ NoIcs \in IcsSet /\ \A n \in Nat : {Built(n), Foreign(n), Opaque(n)} \subseteq IcsSet
  /\ NoRow \in RowSet /\ NoBody \in BodySet /\ Idle \in ReqSet /\ NewPage \in PageSet
  /\ NewPage.unsent = "none" /\ NewPage.preview.asked = 0
<1>1. NoIcs \in IcsSet /\ \A n \in Nat : {Built(n), Foreign(n), Opaque(n)} \subseteq IcsSet
  BY DEF NoIcs, Built, Foreign, Opaque, IcsSet
<1>2. NoRow \in RowSet
  BY <1>1 DEF NoRow, RowSet, Statuses
<1>3. NoBody \in BodySet
  BY <1>1 DEF NoBody, BodySet
<1>4. Idle \in ReqSet
  BY <1>2, <1>3 DEF Idle, ReqSet
<1>5. NewPage \in PageSet /\ NewPage.unsent = "none" /\ NewPage.preview.asked = 0
  BY <1>1 DEF NewPage, PageSet
<1>6. QED
  BY <1>1, <1>2, <1>3, <1>4, <1>5

\* The builder's effect touches the calendar at most.
LEMMA SyncedShape ==
  ASSUME NEW p \in PageSet, NEW q \in PageSet, NEW parsed \in BOOLEAN
  PROVE  /\ Synced(p, q, parsed) \in PageSet
         /\ Synced(p, q, parsed) = [q EXCEPT !.ics = Synced(p, q, parsed).ics]
<1>1. Synced(p, q, parsed) \in {q, [q EXCEPT !.ics = Built(q.fields)]}
  BY DEF Synced
<1>2. q.fields \in Nat /\ Built(q.fields) \in IcsSet
  BY ConstantTypes DEF PageSet
<1>3. [q EXCEPT !.ics = Built(q.fields)] \in PageSet
  BY <1>2 DEF PageSet
<1>4. q = [q EXCEPT !.ics = q.ics]
  BY DEF PageSet
<1>5. [q EXCEPT !.ics = Built(q.fields)].ics = Built(q.fields)
  BY DEF PageSet
<1>6. QED
  BY <1>1, <1>3, <1>4, <1>5

\* What a page takes over from a row.
LEMMA TakenShape ==
  ASSUME NEW p \in PageSet, NEW r \in RowSet
  PROVE  LET q == Taken(p, r) IN
         /\ q \in PageSet
         /\ ~q.dirty /\ q.unsent = "none" /\ q.preview = p.preview
         /\ q.html = r.html /\ q.mime = r.mime /\ q.ics = r.ics /\ q.on = r.on
         /\ q.mode = IF r.type = "raw_mime" THEN "mime" ELSE p.mode
         /\ Parses(r.ics) => q.fields = r.ics.n /\ q.icsMode = "builder"
         /\ ~Parses(r.ics) /\ r.ics # NoIcs => q.icsMode = "raw"
         /\ q.drifts <=> \/ p.mode = "mime" /\ r.type # "raw_mime"
                         \/ r.on /\ r.ics.kind \in {"foreign", "none"}
<1> DEFINE mode == IF r.type = "raw_mime" THEN "mime" ELSE p.mode
           fields == IF Parses(r.ics) THEN r.ics.n ELSE p.fields
           icsMode == IF Parses(r.ics) THEN "builder"
                      ELSE IF r.ics # NoIcs THEN "raw" ELSE p.icsMode
           drifts == \/ p.mode = "mime" /\ r.type # "raw_mime"
                     \/ r.on /\ r.ics.kind \in {"foreign", "none"}
           q == [p EXCEPT !.html = r.html, !.mime = r.mime, !.ics = r.ics, !.on = r.on,
                          !.mode = mode, !.fields = fields, !.icsMode = icsMode,
                          !.dirty = FALSE, !.unsent = "none", !.drifts = drifts]
<1>1. Taken(p, r) = q
  BY DEF Taken
<1>2. /\ r.html \in Nat /\ r.mime \in Nat /\ r.ics \in IcsSet /\ r.on \in BOOLEAN
      /\ mode \in {"html", "mime"} /\ fields \in Nat /\ icsMode \in {"builder", "raw"}
      /\ drifts \in BOOLEAN
  BY DEF RowSet, IcsSet, PageSet
<1>3. /\ Parses(r.ics) => fields = r.ics.n /\ icsMode = "builder"
      /\ ~Parses(r.ics) /\ r.ics # NoIcs => icsMode = "raw"
  OBVIOUS
<1>4. drifts <=> \/ p.mode = "mime" /\ r.type # "raw_mime"
                 \/ r.on /\ r.ics.kind \in {"foreign", "none"}
  OBVIOUS
<1>5. mode = IF r.type = "raw_mime" THEN "mime" ELSE p.mode
  OBVIOUS
<1> HIDE DEF mode, fields, icsMode, drifts
<1>6. q \in PageSet
  BY <1>2 DEF PageSet
<1>7. /\ ~q.dirty /\ q.unsent = "none" /\ q.preview = p.preview
      /\ q.html = r.html /\ q.mime = r.mime /\ q.ics = r.ics /\ q.on = r.on
      /\ q.mode = mode /\ q.fields = fields /\ q.icsMode = icsMode /\ q.drifts = drifts
  BY DEF PageSet
<1>8. QED
  BY <1>1, <1>3, <1>4, <1>5, <1>6, <1>7

\* A page that has taken over a row is clean, and keeps its preview.
LEMMA LoadingTypes ==
  ASSUME NEW p \in PageSet, NEW r \in RowSet
  PROVE  /\ Loading(p, r) \in PageSet
         /\ ~Loading(p, r).dirty /\ Loading(p, r).unsent = "none"
         /\ Loading(p, r).preview = p.preview
<1> DEFINE q == Taken(p, r)
<1>1. q \in PageSet /\ ~q.dirty /\ q.unsent = "none" /\ q.preview = p.preview
  BY TakenShape
<1> HIDE DEF q
<1>2. Parses(r.ics) \in BOOLEAN
  BY DEF Parses
<1>3. Loading(p, r) = Synced(p, q, Parses(r.ics))
  BY DEF Loading, q
<1>4. LET s == Synced(p, q, Parses(r.ics)) IN
        s \in PageSet /\ s.dirty = q.dirty /\ s.unsent = q.unsent /\ s.preview = q.preview
  BY <1>1, <1>2, SyncedShape DEF PageSet
<1>5. QED
  BY <1>1, <1>3, <1>4

\* What a page would send has the type of a request's body, and nothing of the other page
\* or mode.
LEMMA PayloadTypes ==
  ASSUME NEW p \in PageSet
  PROVE  BuildPayload(p) \in BodySet /\ Payload(BuildPayload(p))
<1>1. Built(p.fields) \in IcsSet /\ NoIcs \in IcsSet /\ NoBody \in BodySet
  BY ConstantTypes DEF PageSet
<1>2. CASE p.mode = "mime"
  BY <1>1, <1>2 DEF BuildPayload, Payload, NoBody, BodySet, PageSet
<1>3. CASE p.mode # "mime"
  <2> DEFINE ics == IF ~p.on THEN NoIcs ELSE IF p.icsMode = "builder" THEN Built(p.fields) ELSE p.ics
  <2>1. ics \in IcsSet /\ (~p.on => ics = NoIcs)
    BY <1>1 DEF PageSet
  <2>2. BuildPayload(p) = [NoBody EXCEPT !.type = "html", !.html = p.html, !.on = p.on, !.ics = ics]
    BY <1>3 DEF BuildPayload
  <2> HIDE DEF ics
  <2>3. QED
    BY <1>1, <2>1, <2>2 DEF Payload, NoBody, BodySet, PageSet
<1>4. QED
  BY <1>2, <1>3

\* A page that has taken over a row, and does not drift from it, would have the
\* mail made that the row makes.
LEMMA LoadingIsFaithful ==
  ASSUME NEW p \in PageSet, NEW r \in RowSet, ~Loading(p, r).drifts
  PROVE  Mail(BuildPayload(Loading(p, r))) = Mail(r)
<1> DEFINE q == Taken(p, r)
           s == Loading(p, r)
<1>1. q \in PageSet /\ s \in PageSet
  BY TakenShape, LoadingTypes
<1>2. /\ q.html = r.html /\ q.mime = r.mime /\ q.ics = r.ics /\ q.on = r.on
      /\ q.mode = (IF r.type = "raw_mime" THEN "mime" ELSE p.mode)
      /\ Parses(r.ics) => q.fields = r.ics.n /\ q.icsMode = "builder"
      /\ ~Parses(r.ics) /\ r.ics # NoIcs => q.icsMode = "raw"
      /\ q.drifts <=> \/ p.mode = "mime" /\ r.type # "raw_mime"
                      \/ r.on /\ r.ics.kind \in {"foreign", "none"}
  BY TakenShape
<1>3. s = Synced(p, q, Parses(r.ics)) /\ Parses(r.ics) \in BOOLEAN
  BY DEF Loading, Parses
<1>10. ~s.drifts
  OBVIOUS
<1> HIDE DEF q, s
<1>4. s = [q EXCEPT !.ics = s.ics]
  BY <1>1, <1>3, SyncedShape
<1>5. /\ s.html = q.html /\ s.mime = q.mime /\ s.on = q.on /\ s.mode = q.mode
      /\ s.fields = q.fields /\ s.icsMode = q.icsMode /\ ~q.drifts
  BY <1>1, <1>4, <1>10 DEF PageSet
<1>6. q.icsMode # "builder" => s = q
  BY <1>3 DEF Synced
<1>11. SUFFICES Mail(BuildPayload(s)) = Mail(r)
  BY DEF s
<1>7. CASE r.type = "raw_mime"
  <2>1. s.mode = "mime" /\ s.mime = r.mime
    BY <1>2, <1>5, <1>7
  <2>2. BuildPayload(s).type = "raw_mime" /\ BuildPayload(s).mime = r.mime
    BY <2>1 DEF BuildPayload, NoBody
  <2>3. QED
    BY <1>7, <2>2 DEF Mail
<1>8. CASE r.type # "raw_mime"
  <2>1. r.type = "html" /\ s.mode # "mime" /\ s.mode \in {"html", "mime"}
    BY <1>1, <1>2, <1>5, <1>8 DEF RowSet, PageSet
  <2>2. ASSUME r.on
        PROVE  (IF s.icsMode = "builder" THEN Built(s.fields) ELSE s.ics) = r.ics
    <3>1. r.ics.kind \in {"built", "opaque"}
      BY <1>2, <1>5, <2>2 DEF RowSet, IcsSet
    <3>2. CASE r.ics.kind = "built"
      BY <1>2, <1>5, <3>2 DEF Parses, Built, RowSet, IcsSet
    <3>3. CASE r.ics.kind = "opaque"
      BY <1>2, <1>5, <1>6, <3>3 DEF Parses, NoIcs
    <3>4. QED
      BY <3>1, <3>2, <3>3
  <2>3. BuildPayload(s) = [NoBody EXCEPT !.type = "html", !.html = s.html, !.on = s.on,
                            !.ics = IF ~s.on THEN NoIcs
                                    ELSE IF s.icsMode = "builder" THEN Built(s.fields) ELSE s.ics]
    BY <2>1 DEF BuildPayload
  <2>4. /\ BuildPayload(s).type = "html" /\ BuildPayload(s).html = r.html
        /\ BuildPayload(s).on = r.on
        /\ r.on => BuildPayload(s).ics = r.ics
    BY <1>2, <1>5, <2>2, <2>3 DEF NoBody
  <2>5. QED
    BY <2>1, <2>4 DEF Mail
<1>9. QED
  BY <1>7, <1>8

\* What an update makes of a row.
LEMMA AppliedShape ==
  ASSUME NEW r \in RowSet, NEW b \in BodySet
  PROVE  /\ Applied(r, b) \in RowSet
         /\ Applied(r, b).html = Given(b.html, 0, r.html)
         /\ Applied(r, b).mime = Given(b.mime, 0, r.mime)
         /\ Applied(r, b).ics = Given(b.ics, NoIcs, r.ics)
         /\ Applied(r, b).on = b.on
         /\ Applied(r, b).info = Given(b.info, 0, r.info)
BY DEF Applied, Given, RowSet, BodySet

-----------------------------------------------------------------------------
(* The steps, by what they touch *)

Edits == EditHtml \/ EditMime \/ SwitchMode \/ SwitchIcs \/ UpdateIcsField \/ EditIcs

PageSteps == Edits \/ SwitchIcsMode \/ EditInfo

RowClicks == HandleSave \/ HandlePreview \/ SaveInfo \/ UploadRecipients \/ ResetToDraft
RowAnswers == \/ SaveAnswered \/ PreviewAnswered \/ InfoAnswered
              \/ \E k \in {"upload", "reset"} : RowAnswered(k)
RowSteps == \/ RowClicks \/ RowAnswers \/ PreviewShows
            \/ \E k \in RowKinds : RowReads(k) \/ RowWrites(k)

FileSteps == \/ Attaches \/ Detaches \/ AttachesElsewhere
             \/ \E k \in Uploads : UploadChecks(k) \/ UploadStores(k) \/ UploadRecords(k)
             \/ DeleteFinds \/ DeleteRemoves \/ DeleteRecords
             \/ \E k \in {"attach", "detach"} : FilesAnswered(k)
             \/ ElsewhereAnswered

TestSteps == HandleTestSend \/ PreviewSends \/ TestAnswered

\* Every step is of one of these kinds.
LEMMA StepKinds ==
  ASSUME [Next]_vars
  PROVE  \/ PageSteps \/ RowSteps \/ FileSteps \/ TestSteps \/ Visits
         \/ RowFetchReads \/ RowFetchDone \/ FilesFetchReads \/ FilesFetchDone
         \/ RunTurns \/ UNCHANGED vars
BY DEF Next, User, System, PageSteps, Edits, RowSteps, RowClicks, RowAnswers, FileSteps, TestSteps

\* The kinds of requests.
LEMMA KindsAre ==
  /\ Kinds = {"save", "preview", "info", "upload", "reset", "attach", "elsewhere", "detach", "test"}
  /\ RowKinds = {"save", "preview", "info", "upload", "reset"}
  /\ Updates = {"save", "preview", "info"} /\ Uploads = {"attach", "elsewhere"}
BY DEF Kinds, RowKinds, Updates, Uploads

\* What the user does lowers one part of the budget.
LEMMA SpendsShape ==
  ASSUME ContentTypes, NEW what \in {"row", "files", "outside"}, Spends(what)
  PROVE  /\ left' \in [row : 0..9, files : 0..9, outside : 0..9]
         /\ left[what] \in 1..9 /\ left'[what] = left[what] - 1
         /\ \A other \in {"row", "files", "outside"} \ {what} : left'[other] = left[other]
<1>1. left \in [row : 0..9, files : 0..9, outside : 0..9]
  BY DEF ContentTypes
<1>2. left[what] \in 1..9 /\ left' = [left EXCEPT ![what] = left[what] - 1]
  BY <1>1 DEF Spends
<1>3. left[what] - 1 \in 0..9
  BY <1>2
<1>4. QED
  BY <1>1, <1>2, <1>3

\* The next text is a number.
LEMMA FreshIsNew ==
  ASSUME ContentTypes
  PROVE  Fresh \in Nat
<1>1. left.row \in 0..9
  BY DEF ContentTypes
<1>2. QED
  BY <1>1 DEF Fresh

\* A request's place changes, and nothing else of the requests.
LEMMA GoesShape ==
  ASSUME ContentTypes, NEW k \in Kinds,
         NEW at \in {"idle", "sent", "read", "refused", "done", "view", "checked", "stored",
                     "found", "removed"},
         Goes(k, at)
  PROVE  /\ req' \in [Kinds -> ReqSet]
         /\ req'[k].at = at
         /\ req'[k].body = req[k].body /\ req'[k].row = req[k].row /\ req'[k].mine = req[k].mine
         /\ req'[k].id = req[k].id /\ req'[k].path = req[k].path
         /\ \A j \in Kinds \ {k} : req'[j] = req[j]
<1>1. req \in [Kinds -> ReqSet] /\ req' = [req EXCEPT ![k] = [req[k] EXCEPT !.at = at]]
  BY DEF ContentTypes, Goes
<1>2. req[k] \in ReqSet
  BY <1>1
<1> DEFINE new == [req[k] EXCEPT !.at = at]
<1>3. new \in ReqSet
  BY <1>2 DEF ReqSet
<1>4. /\ new.at = at /\ new.body = req[k].body /\ new.row = req[k].row
      /\ new.mine = req[k].mine /\ new.id = req[k].id /\ new.path = req[k].path
  BY <1>2 DEF ReqSet
<1> HIDE DEF new
<1>5. req' = [req EXCEPT ![k] = new]
  BY <1>1 DEF new
<1>6. QED
  BY <1>1, <1>3, <1>4, <1>5

\* An answered request is over.
LEMMA EndsShape ==
  ASSUME ContentTypes, NEW k \in Kinds, Ends(k)
  PROVE  /\ req' \in [Kinds -> ReqSet] /\ req'[k] = Idle /\ req'[k].at = "idle"
         /\ \A j \in Kinds \ {k} : req'[j] = req[j]
<1>1. req \in [Kinds -> ReqSet] /\ req' = [req EXCEPT ![k] = Idle]
  BY DEF ContentTypes, Ends
<1>2. Idle \in ReqSet /\ Idle.at = "idle"
  BY ConstantTypes DEF Idle
<1>3. QED
  BY <1>1, <1>2

\* A request is made.
LEMMA ClicksShape ==
  ASSUME ContentTypes, NEW k \in Kinds, NEW body \in BodySet, NEW id \in Nat,
         Clicks(k, body, id)
  PROVE  /\ req' \in [Kinds -> ReqSet] /\ req[k].at = "idle"
         /\ req'[k].at = "sent" /\ req'[k].body = body /\ req'[k].id = id
         /\ req'[k].row = query.data /\ req'[k].path = 0 /\ req'[k].mine
         /\ \A j \in Kinds \ {k} : req'[j] = req[j]
         /\ seen' \in SeenSet
         /\ seen'.overlap <=> \/ seen.overlap
                              \/ (k \in RowKinds /\ \E j \in RowKinds : req[j].at # "idle")
         /\ UNCHANGED <<seen.racing, seen.joined, seen.cut, seen.mailed, seen.meant>>
         /\ UNCHANGED <<c, disk, atts, query, attq, route, kept>>
<1> DEFINE new == [Idle EXCEPT !.at = "sent", !.body = body, !.id = id, !.row = query.data,
                               !.mine = TRUE]
           busy == \E j \in RowKinds : req[j].at # "idle"
<1>1. req \in [Kinds -> ReqSet] /\ req' = [req EXCEPT ![k] = new] /\ query.data \in RowSet
  BY DEF ContentTypes, Clicks
<1>2. new \in ReqSet
  BY <1>1, ConstantTypes DEF ReqSet
<1>3. /\ new.at = "sent" /\ new.body = body /\ new.id = id /\ new.row = query.data
      /\ new.path = 0 /\ new.mine
  BY DEF Idle
<1> HIDE DEF new
<1>4. /\ req' \in [Kinds -> ReqSet] /\ req'[k] = new
      /\ \A j \in Kinds \ {k} : req'[j] = req[j]
  BY <1>1, <1>2
<1>5. seen \in SeenSet /\ seen' = [seen EXCEPT !.overlap = @ \/ (k \in RowKinds /\ busy)]
  BY DEF ContentTypes, Clicks
<1>6. /\ seen' \in SeenSet
      /\ seen'.overlap <=> seen.overlap \/ (k \in RowKinds /\ busy)
      /\ UNCHANGED <<seen.racing, seen.joined, seen.cut, seen.mailed, seen.meant>>
  <2> HIDE DEF busy
  <2>1. (seen.overlap \/ (k \in RowKinds /\ busy)) \in BOOLEAN
    OBVIOUS
  <2>2. QED
    BY <1>5, <2>1 DEF SeenSet
<1>7. QED
  BY <1>3, <1>4, <1>6 DEF Clicks, KeepServer

\* A handler reads the row, and refuses the request or keeps the row in hand.
LEMMA ReadsShape ==
  ASSUME ContentTypes, NEW k \in RowKinds, RowReads(k)
  PROVE  /\ req' \in [Kinds -> ReqSet] /\ req[k].at = "sent"
         /\ req'[k].at \in {"read", "refused"} /\ req'[k].row = c
         /\ req'[k].body = req[k].body /\ req'[k].mine = req[k].mine
         /\ req'[k].path = req[k].path
         /\ \A j \in Kinds \ {k} : req'[j] = req[j]
         /\ UNCHANGED <<c, disk, atts, query, attq, route, page, form, left, kept, seen>>
<1> DEFINE at == IF Accepts(k) THEN "read" ELSE "refused"
           new == [req[k] EXCEPT !.at = at, !.row = c]
<1>1. req \in [Kinds -> ReqSet] /\ c \in RowSet /\ k \in Kinds
  BY KindsAre DEF ContentTypes
<1>2. at \in {"read", "refused"}
  OBVIOUS
<1>3. req' = [req EXCEPT ![k] = new]
  BY <1>1 DEF RowReads
<1> HIDE DEF at
<1>4. /\ new \in ReqSet /\ new.at = at /\ new.row = c /\ new.body = req[k].body
      /\ new.mine = req[k].mine /\ new.path = req[k].path
  BY <1>1, <1>2 DEF ReqSet
<1> HIDE DEF new
<1>5. QED
  BY <1>1, <1>2, <1>3, <1>4
     DEF RowReads, KeepServer, Handles, KeepPage, KeepCounts

\* A handler saves the row it has in hand.
LEMMA WritesShape ==
  ASSUME ContentTypes, NEW k \in RowKinds, RowWrites(k)
  PROVE  /\ req' \in [Kinds -> ReqSet] /\ req[k].at = "read"
         /\ req'[k].at = "done" /\ req'[k].body = req[k].body /\ req'[k].row = req[k].row
         /\ req'[k].mine = req[k].mine /\ req'[k].path = req[k].path
         /\ \A j \in Kinds \ {k} : req'[j] = req[j]
         /\ c' \in RowSet /\ c'.ver = c.ver + 1 /\ Content(c') = Content(Result(k))
         /\ Result(k) \in RowSet
         /\ UNCHANGED <<disk, atts, query, attq, route, page, form, left, kept, seen>>
<1>1. req \in [Kinds -> ReqSet] /\ c \in RowSet /\ k \in Kinds
  BY KindsAre DEF ContentTypes
<1>2. req[k].row \in RowSet /\ req[k].body \in BodySet
  BY <1>1 DEF ReqSet
<1>3. Result(k) \in RowSet
  <2>1. CASE k \in Updates
    <3>1. Result(k) = Applied(req[k].row, req[k].body)
      BY <2>1 DEF Result, Updates
    <3>2. QED
      BY <1>2, <3>1, AppliedShape
  <2>2. CASE k = "upload"
    BY <1>2, <2>2 DEF Result, Updates
  <2>3. CASE k = "reset"
    BY <1>2, <2>3 DEF Result, Updates, RowSet, Statuses
  <2>4. QED
    BY <2>1, <2>2, <2>3 DEF RowKinds
<1>4. c' = [Result(k) EXCEPT !.ver = c.ver + 1] /\ c.ver + 1 \in Nat
  BY <1>1 DEF RowWrites, RowSet
<1>5. c' \in RowSet /\ c'.ver = c.ver + 1 /\ Content(c') = Content(Result(k))
  BY <1>3, <1>4 DEF RowSet, Content
<1>6. Goes(k, "done")
  BY DEF RowWrites
<1>7. QED
  BY <1>1, <1>3, <1>5, <1>6, GoesShape DEF RowWrites, Handles, KeepPage, KeepCounts

\* An upload is checked and has its path, or is refused.
LEMMA ChecksShape ==
  ASSUME ContentTypes, FileTypes, NEW k \in Uploads, UploadChecks(k)
  PROVE  /\ req' \in [Kinds -> ReqSet] /\ req[k].at = "sent" /\ req'[k].id = req[k].id
         /\ \/ Fits /\ req'[k].at = "checked" /\ req'[k].path = FreePath
            \/ req'[k].at = "refused" /\ req'[k].path = req[k].path
         /\ \A j \in Kinds \ {k} : req'[j] = req[j]
         /\ FreePath \in Nat \ {0} /\ FreePath \notin disk
         /\ seen' \in SeenSet
         /\ seen'.racing <=> seen.racing \/ \E j \in Uploads \ {k} : req[j].at \in Stored
         /\ UNCHANGED <<seen.overlap, seen.joined, seen.cut, seen.mailed, seen.meant>>
         /\ UNCHANGED <<c, disk, atts, query, attq, route, page, form, left, kept>>
<1>1. req \in [Kinds -> ReqSet] /\ k \in Kinds /\ IsFiniteSet(disk) /\ seen \in SeenSet
  BY KindsAre DEF ContentTypes, FileTypes
<1>2. FreePath \in 1..(Cardinality(disk) + 1) /\ FreePath \notin disk /\ Cardinality(disk) \in Nat
  <2>1. Cardinality(disk) \in Nat
    BY <1>1, FS_CardinalityType
  <2>2. \E p \in 1..(Cardinality(disk) + 1) : p \notin disk
    <3>1. SUFFICES ASSUME 1..(Cardinality(disk) + 1) \subseteq disk
                   PROVE  FALSE
      OBVIOUS
    <3>2. Cardinality(1..(Cardinality(disk) + 1)) = Cardinality(disk) + 1
      BY <2>1, FS_Interval
    <3>3. Cardinality(1..(Cardinality(disk) + 1)) <= Cardinality(disk)
      BY <1>1, <3>1, FS_Subset
    <3>4. QED
      BY <2>1, <3>2, <3>3
  <2>3. QED
    BY <2>1, <2>2 DEF FreePath
<1> DEFINE new == [req[k] EXCEPT !.at = "checked", !.path = FreePath]
           other == \E j \in Uploads \ {k} : req[j].at \in Stored
<1>3. ASSUME Fits
      PROVE  /\ req' \in [Kinds -> ReqSet] /\ req'[k].id = req[k].id
             /\ req'[k].at = "checked" /\ req'[k].path = FreePath
             /\ \A j \in Kinds \ {k} : req'[j] = req[j]
  <2>1. req' = [req EXCEPT ![k] = new]
    BY <1>1, <1>3 DEF UploadChecks
  <2>2. FreePath \in Nat
    BY <1>2
  <2> HIDE DEF FreePath
  <2>3. new \in ReqSet /\ new.at = "checked" /\ new.path = FreePath /\ new.id = req[k].id
    BY <1>1, <2>2 DEF ReqSet
  <2> HIDE DEF new
  <2>4. QED
    BY <1>1, <2>1, <2>3
<1>4. ASSUME ~Fits
      PROVE  /\ req' \in [Kinds -> ReqSet] /\ req'[k].id = req[k].id
             /\ req'[k].at = "refused" /\ req'[k].path = req[k].path
             /\ \A j \in Kinds \ {k} : req'[j] = req[j]
  BY <1>1, <1>4, GoesShape DEF UploadChecks
<1>5. /\ seen' \in SeenSet
      /\ seen'.racing <=> seen.racing \/ other
      /\ UNCHANGED <<seen.overlap, seen.joined, seen.cut, seen.mailed, seen.meant>>
  <2>1. seen' = [seen EXCEPT !.racing = @ \/ other]
    BY DEF UploadChecks
  <2> HIDE DEF other
  <2>2. (seen.racing \/ other) \in BOOLEAN
    OBVIOUS
  <2>3. QED
    BY <1>1, <2>1, <2>2 DEF SeenSet
<1>6. QED
  BY <1>2, <1>3, <1>4, <1>5
     DEF UploadChecks, KeepServer, Handles, KeepPage, KeepCounts

\* A deletion finds its attachment, or is refused.
LEMMA FindsShape ==
  ASSUME ContentTypes, FileTypes, DeleteFinds
  PROVE  /\ req' \in [Kinds -> ReqSet] /\ req["detach"].at = "sent"
         /\ req'["detach"].id = req["detach"].id
         /\ \/ /\ req'["detach"].at = "found"
               /\ \E a \in atts : a.id = req["detach"].id /\ req'["detach"].path = a.path
            \/ req'["detach"].at = "refused"
         /\ \A j \in Kinds \ {"detach"} : req'[j] = req[j]
         /\ UNCHANGED <<c, disk, atts, query, attq, route, page, form, left, kept, seen>>
<1>1. req \in [Kinds -> ReqSet] /\ "detach" \in Kinds /\ atts \subseteq [id : Nat, path : Nat \ {0}]
  BY KindsAre DEF ContentTypes, FileTypes
<1>2. CASE \E a \in atts : a.id = req["detach"].id
  <2>1. PICK a \in atts : /\ a.id = req["detach"].id
                          /\ req' = [req EXCEPT !["detach"].at = "found", !["detach"].path = a.path]
    BY <1>2 DEF DeleteFinds
  <2> DEFINE new == [req["detach"] EXCEPT !.at = "found", !.path = a.path]
  <2>2. req' = [req EXCEPT !["detach"] = new]
    BY <1>1, <2>1
  <2>3. new \in ReqSet /\ new.at = "found" /\ new.path = a.path /\ new.id = req["detach"].id
    BY <1>1 DEF ReqSet
  <2> HIDE DEF new
  <2>4. QED
    BY <1>1, <2>1, <2>2, <2>3 DEF DeleteFinds, KeepServer, Handles, KeepPage, KeepCounts
<1>3. CASE ~\E a \in atts : a.id = req["detach"].id
  BY <1>1, <1>3, GoesShape DEF DeleteFinds, KeepServer, Handles, KeepPage, KeepCounts
<1>4. QED
  BY <1>2, <1>3

\* An edit marks the page, and touches nothing else.
LEMMA EditShape ==
  ASSUME ContentTypes, Edits
  PROVE  /\ route = "compose" /\ page' \in PageSet /\ page'.dirty
         /\ page'.preview = page.preview /\ page'.drifts = page.drifts
         /\ page'.unsent = IF page.unsent = "busy" \/ RowBusy THEN "busy" ELSE "quiet"
         /\ Acts
         /\ UNCHANGED <<c, disk, atts, req, query, attq, route, form, kept, seen>>
<1>1. page \in PageSet /\ Fresh \in Nat
  BY FreshIsNew DEF ContentTypes
<1>2. ASSUME NEW q \in PageSet, q.preview = page.preview, q.drifts = page.drifts,
             q.unsent = page.unsent, Edit(q)
      PROVE  /\ page' \in PageSet /\ page'.dirty
             /\ page'.preview = page.preview /\ page'.drifts = page.drifts
             /\ page'.unsent = IF page.unsent = "busy" \/ RowBusy THEN "busy" ELSE "quiet"
             /\ UNCHANGED <<c, disk, atts, req, query, attq, route, form, kept, seen>>
  <2> DEFINE s == Synced(page, q, FALSE)
             unsent == IF page.unsent = "busy" \/ RowBusy THEN "busy" ELSE "quiet"
  <2>1. s \in PageSet /\ s = [q EXCEPT !.ics = s.ics]
    BY <1>1, SyncedShape
  <2>2. page' = [s EXCEPT !.dirty = TRUE,
                   !.unsent = IF @ = "busy" \/ RowBusy THEN "busy" ELSE "quiet"]
    BY <1>2 DEF Edit
  <2> HIDE DEF s
  <2>3. s.preview = page.preview /\ s.drifts = page.drifts /\ s.unsent = page.unsent
    BY <1>2, <2>1 DEF PageSet
  <2>4. page' = [s EXCEPT !.dirty = TRUE, !.unsent = unsent] /\ unsent \in {"quiet", "busy"}
    BY <2>1, <2>2, <2>3 DEF PageSet
  <2>5. unsent = IF page.unsent = "busy" \/ RowBusy THEN "busy" ELSE "quiet"
    OBVIOUS
  <2> HIDE DEF unsent
  <2>6. page' \in PageSet /\ page'.dirty /\ page'.preview = page.preview
        /\ page'.drifts = page.drifts /\ page'.unsent = unsent
    BY <2>1, <2>3, <2>4 DEF PageSet
  <2>7. QED
    BY <1>2, <2>5, <2>6 DEF Edit, KeepServer
<1>3. CASE EditHtml
  <2>1. PICK v \in {0, Fresh} : Edit([page EXCEPT !.html = v])
    BY <1>3 DEF EditHtml
  <2> DEFINE q == [page EXCEPT !.html = v]
  <2>2. q \in PageSet /\ q.preview = page.preview /\ q.drifts = page.drifts
        /\ q.unsent = page.unsent
    BY <1>1 DEF PageSet
  <2>3. QED
    BY <1>2, <1>3, <2>1, <2>2 DEF EditHtml, InHtml, Composes
<1>4. CASE EditMime
  <2>1. PICK v \in {0, Fresh} : Edit([page EXCEPT !.mime = v])
    BY <1>4 DEF EditMime
  <2> DEFINE q == [page EXCEPT !.mime = v]
  <2>2. q \in PageSet /\ q.preview = page.preview /\ q.drifts = page.drifts
        /\ q.unsent = page.unsent
    BY <1>1 DEF PageSet
  <2>3. QED
    BY <1>2, <1>4, <2>1, <2>2 DEF EditMime, Composes
<1>5. CASE SwitchMode
  <2>1. PICK m \in {"html", "mime"} : Edit([page EXCEPT !.mode = m])
    BY <1>5 DEF SwitchMode
  <2> DEFINE q == [page EXCEPT !.mode = m]
  <2>2. q \in PageSet /\ q.preview = page.preview /\ q.drifts = page.drifts
        /\ q.unsent = page.unsent
    BY <1>1 DEF PageSet
  <2>3. QED
    BY <1>2, <1>5, <2>1, <2>2 DEF SwitchMode, Composes
<1>6. CASE SwitchIcs
  <2> DEFINE q == [page EXCEPT !.on = ~@]
  <2>1. Edit(q)
    BY <1>6 DEF SwitchIcs
  <2>2. q \in PageSet /\ q.preview = page.preview /\ q.drifts = page.drifts
        /\ q.unsent = page.unsent
    BY <1>1 DEF PageSet
  <2>3. QED
    BY <1>2, <1>6, <2>1, <2>2 DEF SwitchIcs, InHtml, Composes
<1>7. CASE UpdateIcsField
  <2> DEFINE q == [page EXCEPT !.fields = Fresh]
  <2>1. Edit(q)
    BY <1>7 DEF UpdateIcsField
  <2>2. q \in PageSet /\ q.preview = page.preview /\ q.drifts = page.drifts
        /\ q.unsent = page.unsent
    BY <1>1 DEF PageSet
  <2>3. QED
    BY <1>2, <1>7, <2>1, <2>2 DEF UpdateIcsField, ShowsIcs, InHtml, Composes
<1>8. CASE EditIcs
  <2>1. PICK i \in {NoIcs, Foreign(Fresh), Opaque(Fresh)} : Edit([page EXCEPT !.ics = i])
    BY <1>8 DEF EditIcs
  <2> DEFINE q == [page EXCEPT !.ics = i]
  <2>2. i \in IcsSet
    BY <1>1, ConstantTypes
  <2>3. q \in PageSet /\ q.preview = page.preview /\ q.drifts = page.drifts
        /\ q.unsent = page.unsent
    BY <1>1, <2>2 DEF PageSet
  <2>4. QED
    BY <1>2, <1>8, <2>1, <2>3 DEF EditIcs, ShowsIcs, InHtml, Composes
<1>9. QED
  BY <1>3, <1>4, <1>5, <1>6, <1>7, <1>8 DEF Edits

\* The switch between builder and text makes the page drift, and marks nothing.
LEMMA SwitchShape ==
  ASSUME ContentTypes, SwitchIcsMode
  PROVE  /\ route = "compose" /\ page' \in PageSet /\ page'.drifts
         /\ page'.preview = page.preview /\ page'.unsent = page.unsent
         /\ page'.dirty = page.dirty
         /\ Acts
         /\ UNCHANGED <<c, disk, atts, req, query, attq, route, form, kept, seen>>
<1>1. PICK m \in {"builder", "raw"} :
        page' = Synced(page, [page EXCEPT !.icsMode = m, !.drifts = TRUE], FALSE)
  BY DEF SwitchIcsMode
<1> DEFINE q == [page EXCEPT !.icsMode = m, !.drifts = TRUE]
<1>2. page \in PageSet
  BY DEF ContentTypes
<1>3. q \in PageSet /\ q.preview = page.preview /\ q.drifts /\ q.unsent = page.unsent
      /\ q.dirty = page.dirty
  BY <1>2 DEF PageSet
<1> HIDE DEF q
<1>4. page' \in PageSet /\ page' = [q EXCEPT !.ics = page'.ics]
  BY <1>1, <1>2, <1>3, SyncedShape DEF q
<1>5. page'.preview = q.preview /\ page'.drifts = q.drifts /\ page'.unsent = q.unsent
      /\ page'.dirty = q.dirty
  BY <1>3, <1>4 DEF PageSet
<1>6. QED
  BY <1>3, <1>4, <1>5 DEF SwitchIcsMode, ShowsIcs, InHtml, Composes, KeepServer

\* Asking again, and starting a fetch again, leave what is cached.
LEMMA QueryShape ==
  ASSUME NEW D, NEW q \in [data : D, known : BOOLEAN, fetch : Fetching, reply : D]
  PROVE  /\ Asked(q) \in [data : D, known : BOOLEAN, fetch : Fetching, reply : D]
         /\ Asked(q).data = q.data /\ Asked(q).reply = q.reply /\ Asked(q).known = q.known
         /\ Asked(q).fetch = IF q.fetch = "none" THEN "asked" ELSE q.fetch
         /\ Invalidated(q) \in [data : D, known : BOOLEAN, fetch : Fetching, reply : D]
         /\ Invalidated(q).data = q.data /\ Invalidated(q).reply = q.reply
         /\ Invalidated(q).known = q.known
         /\ Invalidated(q).fetch = IF q.known \/ q.fetch = "none" THEN "asked" ELSE q.fetch
<1> DEFINE R == [data : D, known : BOOLEAN, fetch : Fetching, reply : D]
           n == [q EXCEPT !.fetch = "asked"]
<1>1. n \in R /\ n.data = q.data /\ n.reply = q.reply /\ n.known = q.known /\ n.fetch = "asked"
  BY DEF Fetching
<1>2. Asked(q) = (IF q.fetch = "none" THEN n ELSE q)
  BY DEF Asked
<1>3. Invalidated(q) = (IF q.known \/ q.fetch = "none" THEN n ELSE q)
  BY DEF Invalidated, Asked
<1> HIDE DEF n
<1>4. QED
  BY <1>1, <1>2, <1>3

\* The cached campaign has been fetched before.
LEMMA RowQueryShape ==
  ASSUME ContentTypes
  PROVE  /\ query \in [data : RowSet, known : BOOLEAN, fetch : Fetching, reply : RowSet]
         /\ query.known
         /\ \A q \in {Asked(query), Invalidated(query)} :
              /\ q \in [data : RowSet, known : {TRUE}, fetch : Fetching, reply : RowSet]
              /\ q.data = query.data /\ q.reply = query.reply
         /\ Asked(query).fetch = IF query.fetch = "none" THEN "asked" ELSE query.fetch
         /\ Invalidated(query).fetch = "asked"
<1>1. query \in [data : RowSet, known : {TRUE}, fetch : Fetching, reply : RowSet]
  BY DEF ContentTypes
<1>2. query \in [data : RowSet, known : BOOLEAN, fetch : Fetching, reply : RowSet] /\ query.known
  BY <1>1
<1>3. ASSUME NEW q \in [data : RowSet, known : BOOLEAN, fetch : Fetching, reply : RowSet],
             q.known = query.known
      PROVE  q \in [data : RowSet, known : {TRUE}, fetch : Fetching, reply : RowSet]
  BY <1>1, <1>3
<1> DEFINE R == [data : RowSet, known : BOOLEAN, fetch : Fetching, reply : RowSet]
<1>4. /\ Asked(query) \in R
      /\ Asked(query).data = query.data /\ Asked(query).reply = query.reply
      /\ Asked(query).known = query.known
      /\ Asked(query).fetch = IF query.fetch = "none" THEN "asked" ELSE query.fetch
  BY <1>2, QueryShape
<1>5. /\ Invalidated(query) \in R
      /\ Invalidated(query).data = query.data /\ Invalidated(query).reply = query.reply
      /\ Invalidated(query).known = query.known
      /\ Invalidated(query).fetch = "asked"
  BY <1>2, QueryShape
<1>6. QED
  BY <1>2, <1>3, <1>4, <1>5

\* The page that is left has its requests go on; the other one is mounted.
LEMMA VisitsShape ==
  ASSUME ContentTypes, Visits
  PROVE  /\ req' \in [Kinds -> ReqSet]
         /\ \A k \in Kinds : /\ req'[k].at = req[k].at /\ req'[k].body = req[k].body
                             /\ req'[k].row = req[k].row /\ req'[k].id = req[k].id
                             /\ req'[k].path = req[k].path /\ ~req'[k].mine
         /\ left' \in [row : 0..9, files : 0..9, outside : 0..9]
         /\ left'.files <= left.files /\ left'.outside = left.outside
         /\ query' = Asked(query)
         /\ seen' \in SeenSet
         /\ seen'.joined <=> seen.joined \/ (route = "info" /\ attq.fetch # "none")
         /\ UNCHANGED <<seen.racing, seen.overlap, seen.cut, seen.mailed, seen.meant>>
         /\ route = "compose" =>
              /\ route' = "info" /\ page' = NewPage /\ attq' = attq
              /\ form' = NewForm(query.data, query.data.info # c.info \/ RowBusy)
         /\ route = "info" =>
              /\ route' = "compose" /\ page' = Loading(NewPage, query.data)
              /\ form' = NoForm /\ attq' = Asked(attq)
         /\ UNCHANGED <<c, disk, atts, kept>>
<1>1. /\ req \in [Kinds -> ReqSet] /\ seen \in SeenSet /\ route \in {"compose", "info"}
      /\ left \in [row : 0..9, files : 0..9, outside : 0..9]
  BY DEF ContentTypes
<1>2. /\ req' \in [Kinds -> ReqSet]
      /\ \A k \in Kinds : /\ req'[k].at = req[k].at /\ req'[k].body = req[k].body
                          /\ req'[k].row = req[k].row /\ req'[k].id = req[k].id
                          /\ req'[k].path = req[k].path /\ ~req'[k].mine
  <2>1. req' = [k \in Kinds |-> [req[k] EXCEPT !.mine = FALSE]]
    BY DEF Visits
  <2>2. ASSUME NEW r \in ReqSet
        PROVE  LET n == [r EXCEPT !.mine = FALSE] IN
               /\ n \in ReqSet /\ n.at = r.at /\ n.body = r.body /\ n.row = r.row
               /\ n.id = r.id /\ n.path = r.path /\ ~n.mine
    BY DEF ReqSet
  <2>3. QED
    BY <1>1, <2>1, <2>2
<1>3. /\ left' \in [row : 0..9, files : 0..9, outside : 0..9]
      /\ left'.files <= left.files /\ left'.outside = left.outside
  <2>1. CASE Spends("row")
    BY <1>1, <2>1, SpendsShape
  <2>2. CASE Spends("files")
    BY <1>1, <2>2, SpendsShape
  <2>3. QED
    BY <2>1, <2>2 DEF Visits
<1>4. /\ seen' \in SeenSet
      /\ seen'.joined <=> seen.joined \/ (route = "info" /\ attq.fetch # "none")
      /\ UNCHANGED <<seen.racing, seen.overlap, seen.cut, seen.mailed, seen.meant>>
  <2> DEFINE joins == seen.joined \/ (route = "info" /\ attq.fetch # "none")
  <2>1. seen' = [seen EXCEPT !.joined = joins] /\ joins \in BOOLEAN
    BY DEF Visits
  <2> HIDE DEF joins
  <2>2. /\ seen' \in SeenSet /\ seen'.joined = joins
        /\ UNCHANGED <<seen.racing, seen.overlap, seen.cut, seen.mailed, seen.meant>>
    BY <1>1, <2>1 DEF SeenSet
  <2>3. QED
    BY <2>2 DEF joins
<1>5. /\ query' = Asked(query) /\ UNCHANGED <<c, disk, atts, kept>>
      /\ route = "compose" =>
           /\ route' = "info" /\ page' = NewPage /\ attq' = attq
           /\ form' = NewForm(query.data, query.data.info # c.info \/ RowBusy)
  BY DEF Visits, KeepServer
<1>6. route = "info" =>
        /\ route' = "compose" /\ page' = Loading(NewPage, query.data)
        /\ form' = NoForm /\ attq' = Asked(attq)
  BY DEF Visits
<1>7. QED
  BY <1>2, <1>3, <1>4, <1>5, <1>6

\* What the user is told, field by field.
LEMMA ToldShape ==
  ASSUME ContentTypes
  PROVE  /\ Told.html = kept.html /\ Told.mime = kept.mime /\ Told.ics = kept.ics
         /\ Told.info = kept.info /\ (Told.on <=> kept.on /\ ~seen.cut)
         /\ Told \in [html : Nat, mime : Nat, ics : IcsSet, info : Nat, on : BOOLEAN]
<1> DEFINE on == kept.on /\ ~seen.cut
<1>1. kept \in [html : Nat, mime : Nat, ics : IcsSet, info : Nat, on : BOOLEAN] /\ on \in BOOLEAN
  BY DEF ContentTypes
<1>2. Told = [kept EXCEPT !.on = on]
  BY DEF Told
<1>3. on <=> kept.on /\ ~seen.cut
  OBVIOUS
<1> HIDE DEF on
<1>4. QED
  BY <1>1, <1>2, <1>3

\* What a save of the page is told to have kept.
LEMMA KeptShape ==
  ASSUME ContentTypes, NEW b \in BodySet
  PROVE  /\ Kept(b) \in [html : Nat, mime : Nat, ics : IcsSet, info : Nat, on : BOOLEAN]
         /\ Kept(b).html = IF b.type = "html" THEN b.html ELSE kept.html
         /\ Kept(b).mime = IF b.type = "html" THEN kept.mime ELSE b.mime
         /\ Kept(b).ics = IF b.type = "html" /\ b.on THEN b.ics ELSE kept.ics
         /\ Kept(b).info = kept.info /\ Kept(b).on = b.on
<1>1. kept \in [html : Nat, mime : Nat, ics : IcsSet, info : Nat, on : BOOLEAN]
  BY DEF ContentTypes
<1>2. b.html \in Nat /\ b.mime \in Nat /\ b.ics \in IcsSet /\ b.on \in BOOLEAN
  BY DEF BodySet
<1>3. CASE b.type = "html" /\ b.on
  BY <1>1, <1>2, <1>3 DEF Kept
<1>4. CASE b.type = "html" /\ ~b.on
  BY <1>1, <1>2, <1>4 DEF Kept
<1>5. CASE b.type # "html"
  BY <1>1, <1>2, <1>5 DEF Kept
<1>6. QED
  BY <1>3, <1>4, <1>5

\* What is told holds of a row for its content.
LEMMA HoldsContent ==
  ASSUME NEW r, NEW q, NEW told, Content(r) = Content(q), Holds(r, told)
  PROVE  Holds(q, told)
<1>1. r.html = q.html /\ r.mime = q.mime /\ r.ics = q.ics /\ r.info = q.info /\ r.on = q.on
  BY DEF Content
<1>2. QED
  BY <1>1 DEF Holds

\* An answer: the request is over, a row that was written is fetched again, and the
\* user has been told what it saved.
Answers(k) ==
  /\ req[k].at \in {"done", "refused"}
  /\ req'[k].at = IF k = "preview" /\ req[k].at = "done" THEN "view" ELSE "idle"
  /\ req'[k].at = "view" => req'[k].body = req[k].body
  /\ \A j \in Kinds \ {k} : req'[j] = req[j]
  /\ query' = IF req[k].at = "done" THEN Invalidated(query) ELSE query
  /\ Told' = IF req[k].at = "done" THEN ToldBy(k) ELSE Told
  /\ page'.dirty <=> page.dirty /\ ~(k = "save" /\ req[k].at = "done" /\ req[k].mine)
  /\ \E saving \in BOOLEAN, dirty \in BOOLEAN :
       page' = [page EXCEPT !.saving = saving, !.dirty = dirty]
  /\ \E saving \in BOOLEAN : form' = [form EXCEPT !.saving = saving]

LEMMA AnswerShape ==
  ASSUME ContentTypes, RowAnswers
  PROVE  /\ \E k \in RowKinds : Answers(k) /\ (\/ Ends(k)
                                               \/ k = "preview" /\ req[k].at = "done" /\ Goes(k, "view"))
         /\ req' \in [Kinds -> ReqSet]
         /\ kept' \in [html : Nat, mime : Nat, ics : IcsSet, info : Nat, on : BOOLEAN]
         /\ seen' \in SeenSet
         /\ UNCHANGED <<seen.racing, seen.joined, seen.overlap, seen.mailed, seen.meant>>
         /\ UNCHANGED <<c, disk, atts, attq, route, left>>
<1>1. /\ req \in [Kinds -> ReqSet] /\ page \in PageSet /\ seen \in SeenSet
      /\ form \in [info : Nat, edited : BOOLEAN, stale : BOOLEAN, saving : BOOLEAN]
      /\ kept \in [html : Nat, mime : Nat, ics : IcsSet, info : Nat, on : BOOLEAN]
  BY DEF ContentTypes
<1>2. page = [page EXCEPT !.saving = page.saving, !.dirty = page.dirty]
      /\ form = [form EXCEPT !.saving = form.saving]
      /\ page.saving \in BOOLEAN /\ page.dirty \in BOOLEAN /\ form.saving \in BOOLEAN
  BY <1>1 DEF PageSet
<1>3. ASSUME NEW k \in Kinds, Ends(k)
      PROVE  /\ req' \in [Kinds -> ReqSet] /\ req'[k].at = "idle"
             /\ \A j \in Kinds \ {k} : req'[j] = req[j]
  BY <1>3, EndsShape
<1>4. ASSUME NEW b \in BodySet, kept' = Kept(b), seen' = [seen EXCEPT !.cut = FALSE]
      PROVE  /\ kept' \in [html : Nat, mime : Nat, ics : IcsSet, info : Nat, on : BOOLEAN]
             /\ seen' \in SeenSet /\ Told' = Kept(b)
             /\ UNCHANGED <<seen.racing, seen.joined, seen.overlap, seen.mailed, seen.meant>>
  <2>1. Kept(b) \in [html : Nat, mime : Nat, ics : IcsSet, info : Nat, on : BOOLEAN]
    BY KeptShape
  <2>2. /\ seen' \in SeenSet /\ ~seen'.cut
        /\ UNCHANGED <<seen.racing, seen.joined, seen.overlap, seen.mailed, seen.meant>>
    BY <1>1, <1>4 DEF SeenSet
  <2>3. Told' = [kept' EXCEPT !.on = kept'.on /\ ~seen'.cut]
    BY DEF Told
  <2>4. (kept'.on /\ ~seen'.cut) = kept'.on
    BY <1>4, <2>1, <2>2
  <2>5. Told' = kept'
    BY <1>4, <2>1, <2>3, <2>4
  <2>6. QED
    BY <1>4, <2>1, <2>2, <2>5
<1>5. CASE SaveAnswered
  <2>1. /\ Ends("save") /\ "save" \in Kinds /\ "save" \in RowKinds
        /\ req["save"].at \in {"done", "refused"}
        /\ UNCHANGED <<c, disk, atts, attq, route, left, form>>
    BY <1>5, KindsAre DEF SaveAnswered, KeepServer, KeepCounts
  <2>2. req["save"].body \in BodySet /\ req["save"].mine \in BOOLEAN
    BY <1>1, <2>1 DEF ReqSet
  <2>3. /\ page'.dirty <=> page.dirty /\ ~(req["save"].at = "done" /\ req["save"].mine)
        /\ \E saving \in BOOLEAN, dirty \in BOOLEAN :
             page' = [page EXCEPT !.saving = saving, !.dirty = dirty]
    <3>1. CASE req["save"].mine /\ req["save"].at = "done"
      BY <1>1, <1>5, <3>1 DEF SaveAnswered, PageSet
    <3>2. CASE req["save"].mine /\ req["save"].at = "refused"
      <4>1. page' = [page EXCEPT !.saving = FALSE]
        BY <1>5, <3>2 DEF SaveAnswered
      <4>2. page' = [page EXCEPT !.saving = FALSE, !.dirty = page.dirty] /\ page'.dirty = page.dirty
        BY <1>1, <4>1 DEF PageSet
      <4>3. QED
        BY <1>2, <3>2, <4>2
    <3>3. CASE ~req["save"].mine
      BY <1>2, <1>5, <3>3 DEF SaveAnswered
    <3>4. QED
      BY <2>1, <2>2, <3>1, <3>2, <3>3
  <2>4. CASE req["save"].at = "done"
    <3>1. /\ query' = Invalidated(query) /\ kept' = Kept(req["save"].body)
          /\ seen' = [seen EXCEPT !.cut = FALSE]
      BY <1>5, <2>4 DEF SaveAnswered
    <3>2. ToldBy("save") = Kept(req["save"].body)
      BY DEF ToldBy
    <3>3. Answers("save")
      BY <1>2, <1>3, <1>4, <2>1, <2>2, <2>3, <2>4, <3>1, <3>2 DEF Answers
    <3>4. QED
      BY <1>3, <1>4, <2>1, <2>2, <3>1, <3>3
  <2>5. CASE req["save"].at = "refused"
    <3>1. UNCHANGED <<query, kept, seen>>
      BY <1>5, <2>5 DEF SaveAnswered
    <3>2. Told' = Told
      BY <3>1 DEF Told
    <3>3. Answers("save")
      BY <1>2, <1>3, <2>1, <2>3, <2>5, <3>1, <3>2 DEF Answers
    <3>4. QED
      BY <1>1, <1>3, <2>1, <3>1, <3>3
  <2>6. QED
    BY <2>1, <2>4, <2>5
<1>6. CASE PreviewAnswered
  <2>1. /\ "preview" \in Kinds /\ "preview" \in RowKinds
        /\ req["preview"].at \in {"done", "refused"}
        /\ UNCHANGED <<c, disk, atts, attq, route, left, form, page>>
    BY <1>6, KindsAre DEF PreviewAnswered, KeepServer, KeepCounts, KeepPage
  <2>2. req["preview"].body \in BodySet
    BY <1>1, <2>1 DEF ReqSet
  <2>3. CASE req["preview"].at = "done"
    <3>1. /\ query' = Invalidated(query) /\ kept' = Kept(req["preview"].body)
          /\ seen' = [seen EXCEPT !.cut = FALSE] /\ Goes("preview", "view")
      BY <1>6, <2>3 DEF PreviewAnswered, PreviewFollows
    <3>2. ToldBy("preview") = Kept(req["preview"].body)
      BY DEF ToldBy
    <3>3. /\ req' \in [Kinds -> ReqSet] /\ req'["preview"].at = "view"
          /\ req'["preview"].body = req["preview"].body
          /\ \A j \in Kinds \ {"preview"} : req'[j] = req[j]
      BY <2>1, <3>1, GoesShape
    <3>4. Answers("preview")
      BY <1>2, <1>4, <2>1, <2>2, <2>3, <3>1, <3>2, <3>3 DEF Answers
    <3>5. QED
      BY <1>4, <2>1, <2>2, <2>3, <3>1, <3>3, <3>4
  <2>4. CASE req["preview"].at = "refused"
    <3>1. UNCHANGED <<query, kept, seen>> /\ Ends("preview")
      BY <1>6, <2>4 DEF PreviewAnswered, PreviewFollows
    <3>2. Told' = Told
      BY <3>1 DEF Told
    <3>3. Answers("preview")
      BY <1>2, <1>3, <2>1, <2>4, <3>1, <3>2 DEF Answers
    <3>4. QED
      BY <1>1, <1>3, <2>1, <3>1, <3>3
  <2>5. QED
    BY <2>1, <2>3, <2>4
<1>7. CASE InfoAnswered
  <2>1. /\ Ends("info") /\ "info" \in Kinds /\ "info" \in RowKinds
        /\ req["info"].at \in {"done", "refused"}
        /\ UNCHANGED <<c, disk, atts, attq, route, left, page>>
    BY <1>7, KindsAre DEF InfoAnswered, KeepServer, KeepCounts
  <2>2. req["info"].body.info \in Nat
    BY <1>1, <2>1 DEF ReqSet, BodySet
  <2>3. \E saving \in BOOLEAN : form' = [form EXCEPT !.saving = saving]
    BY <1>2, <1>7 DEF InfoAnswered
  <2>4. CASE req["info"].at = "done"
    <3> DEFINE info == req["info"].body.info
    <3>1. /\ query' = Invalidated(query) /\ kept' = [kept EXCEPT !.info = info]
          /\ seen' = [seen EXCEPT !.cut = TRUE]
      BY <1>7, <2>4 DEF InfoAnswered
    <3>2. info \in Nat
      BY <2>2
    <3>3. ToldBy("info") = [kept EXCEPT !.info = info, !.on = FALSE]
      BY DEF ToldBy
    <3> HIDE DEF info
    <3>4. /\ seen' \in SeenSet /\ seen'.cut
          /\ UNCHANGED <<seen.racing, seen.joined, seen.overlap, seen.mailed, seen.meant>>
      BY <1>1, <3>1 DEF SeenSet
    <3>5. Told' = [kept' EXCEPT !.on = FALSE]
      BY <3>4 DEF Told
    <3>6. Told' = ToldBy("info")
            /\ kept' \in [html : Nat, mime : Nat, ics : IcsSet, info : Nat, on : BOOLEAN]
      BY <1>1, <3>1, <3>2, <3>3, <3>5
    <3>7. Answers("info")
      BY <1>2, <1>3, <2>1, <2>3, <2>4, <3>1, <3>6 DEF Answers
    <3>8. QED
      BY <1>3, <2>1, <3>4, <3>6, <3>7
  <2>5. CASE req["info"].at = "refused"
    <3>1. UNCHANGED <<query, kept, seen>>
      BY <1>7, <2>5 DEF InfoAnswered
    <3>2. Told' = Told
      BY <3>1 DEF Told
    <3>3. Answers("info")
      BY <1>2, <1>3, <2>1, <2>3, <2>5, <3>1, <3>2 DEF Answers
    <3>4. QED
      BY <1>1, <1>3, <2>1, <3>1, <3>3
  <2>6. QED
    BY <2>1, <2>4, <2>5
<1>8. ASSUME NEW k \in {"upload", "reset"}, RowAnswered(k)
      PROVE  /\ Answers(k) /\ Ends(k) /\ k \in RowKinds
             /\ req' \in [Kinds -> ReqSet]
             /\ UNCHANGED <<c, disk, atts, attq, route, left, kept, seen>>
  <2>1. /\ Ends(k) /\ k \in Kinds /\ k \in RowKinds
        /\ req[k].at \in {"done", "refused"}
        /\ UNCHANGED <<c, disk, atts, attq, route, left, page, form, kept, seen>>
        /\ query' = IF req[k].at = "done" THEN Invalidated(query) ELSE query
    BY <1>8, KindsAre DEF RowAnswered, KeepServer, KeepCounts, KeepPage
  <2>2. Told' = Told /\ ToldBy(k) = Told
    BY <2>1 DEF Told, ToldBy
  <2>3. Answers(k)
    BY <1>2, <1>3, <2>1, <2>2 DEF Answers
  <2>4. QED
    BY <1>3, <2>1, <2>3
<1>9. QED
  BY <1>1, <1>5, <1>6, <1>7, <1>8 DEF RowAnswers

\* What a click on a button of a page sends.
LEMMA RowClickShape ==
  ASSUME ContentTypes, RowClicks
  PROVE  \E k \in RowKinds, body \in BodySet :
           /\ Clicks(k, body, 0) /\ Acts
           /\ k \in {"save", "preview"} => route = "compose" /\ Payload(body) /\ form' = form
           /\ k \notin {"save", "preview"} => route = "info" /\ page' = page
           /\ k = "save" => page' = [Sent(page) EXCEPT !.saving = TRUE]
           /\ k = "preview" => page' = Sent(page)
           /\ k = "info" => body = [NoBody EXCEPT !.info = form.info]
                            /\ form' = [form EXCEPT !.saving = TRUE]
           /\ k \in {"upload", "reset"} => form' = form
<1>1. page \in PageSet /\ NoBody \in BodySet /\ form.info \in Nat
  BY ConstantTypes DEF ContentTypes
<1>2. BuildPayload(page) \in BodySet /\ Payload(BuildPayload(page))
  BY <1>1, PayloadTypes
<1>3. [NoBody EXCEPT !.info = form.info] \in BodySet
  BY <1>1 DEF BodySet
<1>4. CASE HandleSave
  BY <1>2, <1>4, KindsAre DEF HandleSave, Composes
<1>5. CASE HandlePreview
  BY <1>2, <1>5, KindsAre DEF HandlePreview, Composes
<1>6. CASE SaveInfo
  BY <1>3, <1>6, KindsAre DEF SaveInfo, OnInfo
<1>7. CASE UploadRecipients
  BY <1>1, <1>7, KindsAre DEF UploadRecipients, OnInfo
<1>8. CASE ResetToDraft
  BY <1>1, <1>8, KindsAre DEF ResetToDraft, OnInfo
<1>9. QED
  BY <1>4, <1>5, <1>6, <1>7, <1>8 DEF RowClicks

\* A page that has sent what it holds.
LEMMA SentShape ==
  ASSUME NEW p \in PageSet
  PROVE  /\ Sent(p) \in PageSet /\ [Sent(p) EXCEPT !.saving = TRUE] \in PageSet
         /\ \A q \in {Sent(p), [Sent(p) EXCEPT !.saving = TRUE]} :
              /\ q.unsent = IF p.unsent = "busy" THEN "busy" ELSE "none"
              /\ q.dirty = p.dirty /\ q.preview = p.preview /\ q.drifts = p.drifts
              /\ BuildPayload(q) = BuildPayload(p)
<1> DEFINE unsent == IF p.unsent = "busy" THEN "busy" ELSE "none"
<1>1. Sent(p) = [p EXCEPT !.unsent = unsent] /\ unsent \in {"none", "busy"}
  BY DEF Sent
<1> HIDE DEF unsent
<1> DEFINE q == [p EXCEPT !.unsent = unsent]
           r == [q EXCEPT !.saving = TRUE]
<1>2. /\ q \in PageSet /\ q.unsent = unsent /\ q.dirty = p.dirty /\ q.preview = p.preview
      /\ q.drifts = p.drifts /\ q.mode = p.mode /\ q.html = p.html /\ q.mime = p.mime
      /\ q.on = p.on /\ q.ics = p.ics /\ q.icsMode = p.icsMode /\ q.fields = p.fields
  BY <1>1 DEF PageSet
<1> HIDE DEF q
<1>3. /\ r \in PageSet /\ r.unsent = unsent /\ r.dirty = p.dirty /\ r.preview = p.preview
      /\ r.drifts = p.drifts /\ r.mode = p.mode /\ r.html = p.html /\ r.mime = p.mime
      /\ r.on = p.on /\ r.ics = p.ics /\ r.icsMode = p.icsMode /\ r.fields = p.fields
  BY <1>2 DEF PageSet
<1> HIDE DEF r
<1>4. BuildPayload(q) = BuildPayload(p) /\ BuildPayload(r) = BuildPayload(p)
  BY <1>2, <1>3 DEF BuildPayload
<1>5. Sent(p) = q /\ [Sent(p) EXCEPT !.saving = TRUE] = r
  BY <1>1 DEF q, r
<1>6. QED
  BY <1>2, <1>3, <1>4, <1>5 DEF unsent
-----------------------------------------------------------------------------
(* Types *)

\* A step of the page, of the test mail or outside keeps the types.
LEMMA TypesOfPage ==
  ASSUME ContentTypes, PageSteps
  PROVE  ContentTypes'
<1>1. left' \in [row : 0..9, files : 0..9, outside : 0..9]
  <2>1. Spends("row")
    BY EditShape, SwitchShape DEF PageSteps, EditInfo, Acts
  <2>2. QED
    BY <2>1, SpendsShape
<1>2. page' \in PageSet
  BY EditShape, SwitchShape DEF PageSteps, EditInfo, ContentTypes
<1>3. form' \in [info : Nat, edited : BOOLEAN, stale : BOOLEAN, saving : BOOLEAN]
  BY EditShape, SwitchShape, FreshIsNew DEF PageSteps, EditInfo, ContentTypes
<1>4. UNCHANGED <<c, req, query, attq, route, kept, seen>>
  BY EditShape, SwitchShape DEF PageSteps, EditInfo, KeepServer
<1>5. QED
  BY <1>1, <1>2, <1>3, <1>4 DEF ContentTypes

LEMMA TypesOfTest ==
  ASSUME ContentTypes, TestSteps
  PROVE  ContentTypes'
<1>1. "test" \in Kinds /\ page \in PageSet /\ c \in RowSet /\ req \in [Kinds -> ReqSet]
      /\ seen \in SeenSet
  BY KindsAre DEF ContentTypes
<1>2. CASE HandleTestSend
  <2>1. PICK id \in {0, 1} : Clicks("test", BuildPayload(page), id) /\ Acts
    BY <1>2 DEF HandleTestSend
  <2>2. req' \in [Kinds -> ReqSet] /\ seen' \in SeenSet
        /\ UNCHANGED <<c, query, attq, route, kept>>
    BY <1>1, <2>1, ClicksShape, PayloadTypes
  <2>3. left' \in [row : 0..9, files : 0..9, outside : 0..9]
    BY <2>1, SpendsShape DEF Acts
  <2>4. UNCHANGED <<page, form>>
    BY <1>2 DEF HandleTestSend
  <2>5. QED
    BY <2>2, <2>3, <2>4 DEF ContentTypes
<1>3. CASE PreviewSends
  <2>1. req' \in [Kinds -> ReqSet] /\ UNCHANGED <<c, query, attq, route, kept, page, form, left>>
    BY <1>1, <1>3, GoesShape DEF PreviewSends, KeepServer, Handles, KeepPage, KeepCounts
  <2>2. req["test"].body \in BodySet
    BY <1>1 DEF ReqSet
  <2>3. Mail(c) \in MailSet /\ Mail(req["test"].body) \in MailSet
    <3>1. /\ c.type \in {"", "html", "raw_mime"} /\ c.html \in Nat /\ c.mime \in Nat
          /\ c.ics \in IcsSet
      BY <1>1 DEF RowSet
    <3>2. LET b == req["test"].body IN
          b.type \in {"", "html", "raw_mime"} /\ b.html \in Nat /\ b.mime \in Nat /\ b.ics \in IcsSet
      BY <2>2 DEF BodySet
    <3>3. QED
      BY <3>1, <3>2, ConstantTypes DEF Mail, MailSet
  <2>4. PICK meant \in MailSet : seen' = [seen EXCEPT !.mailed = Mail(c), !.meant = meant]
    BY <1>3, <2>3 DEF PreviewSends
  <2>5. seen' \in SeenSet
    BY <1>1, <2>3, <2>4 DEF SeenSet
  <2>6. QED
    BY <2>1, <2>5 DEF ContentTypes
<1>4. CASE TestAnswered
  <2>1. req' \in [Kinds -> ReqSet]
        /\ UNCHANGED <<c, query, attq, route, kept, page, form, left, seen>>
    BY <1>1, <1>4, EndsShape DEF TestAnswered, KeepServer, Handles, KeepPage, KeepCounts
  <2>2. QED
    BY <2>1 DEF ContentTypes
<1>5. QED
  BY <1>2, <1>3, <1>4 DEF TestSteps

\* A step of a request that saves the row keeps the types.
LEMMA TypesOfRows ==
  ASSUME ContentTypes, RowSteps
  PROVE  ContentTypes'
<1>1. page \in PageSet /\ c \in RowSet /\ req \in [Kinds -> ReqSet] /\ seen \in SeenSet
      /\ form \in [info : Nat, edited : BOOLEAN, stale : BOOLEAN, saving : BOOLEAN]
      /\ query \in [data : RowSet, known : {TRUE}, fetch : Fetching, reply : RowSet]
  BY DEF ContentTypes
<1>2. CASE RowClicks
  <2>1. PICK k \in RowKinds, body \in BodySet :
           /\ Clicks(k, body, 0) /\ Acts
           /\ page' \in {page, Sent(page), [Sent(page) EXCEPT !.saving = TRUE]}
           /\ form' \in {form, [form EXCEPT !.saving = TRUE]}
    BY <1>2, RowClickShape, KindsAre
  <2>2. k \in Kinds
    BY KindsAre
  <2>3. req' \in [Kinds -> ReqSet] /\ seen' \in SeenSet /\ UNCHANGED <<c, query, attq, route, kept>>
    BY <2>1, <2>2, ClicksShape
  <2>4. left' \in [row : 0..9, files : 0..9, outside : 0..9]
    BY <2>1, SpendsShape DEF Acts
  <2>5. page' \in PageSet
    <3>1. Sent(page) \in PageSet /\ [Sent(page) EXCEPT !.saving = TRUE] \in PageSet
      BY <1>1, SentShape
    <3>2. QED
      BY <1>1, <2>1, <3>1
  <2>6. form' \in [info : Nat, edited : BOOLEAN, stale : BOOLEAN, saving : BOOLEAN]
    BY <1>1, <2>1
  <2>7. QED
    BY <2>3, <2>4, <2>5, <2>6 DEF ContentTypes
<1>3. CASE RowAnswers
  <2>1. PICK k \in RowKinds : Answers(k)
    BY <1>3, AnswerShape
  <2>2. page' \in PageSet
    <3>1. PICK saving \in BOOLEAN, dirty \in BOOLEAN :
            page' = [page EXCEPT !.saving = saving, !.dirty = dirty]
      BY <2>1 DEF Answers
    <3>2. ASSUME NEW p \in PageSet
          PROVE  [p EXCEPT !.saving = saving, !.dirty = dirty] \in PageSet
      BY DEF PageSet
    <3>3. QED
      BY <1>1, <3>1, <3>2
  <2>3. form' \in [info : Nat, edited : BOOLEAN, stale : BOOLEAN, saving : BOOLEAN]
    BY <1>1, <2>1 DEF Answers
  <2>4. query' \in [data : RowSet, known : {TRUE}, fetch : Fetching, reply : RowSet]
    BY <1>1, <2>1, RowQueryShape DEF Answers
  <2>5. QED
    BY <1>3, <2>2, <2>3, <2>4, AnswerShape DEF ContentTypes
<1>4. CASE PreviewShows
  <2>1. /\ req' \in [Kinds -> ReqSet] /\ UNCHANGED <<c, query, attq, route, kept, form, left, seen>>
        /\ req["preview"].body \in BodySet
    BY <1>1, <1>4, KindsAre, EndsShape DEF PreviewShows, KeepServer, KeepCounts, ReqSet
  <2>2. [html |-> c.html, asked |-> req["preview"].body.html] \in [html : Nat, asked : Nat]
    BY <1>1, <2>1 DEF RowSet, BodySet
  <2>3. page' \in PageSet
    BY <1>1, <1>4, <2>2 DEF PreviewShows, PageSet
  <2>4. QED
    BY <2>1, <2>3 DEF ContentTypes
<1>5. ASSUME NEW k \in RowKinds, RowReads(k) \/ RowWrites(k)
      PROVE  ContentTypes'
  BY <1>5, ReadsShape, WritesShape DEF ContentTypes
<1>6. QED
  BY <1>2, <1>3, <1>4, <1>5 DEF RowSteps

\* An answer about files: the list is fetched again if it is there to be seen.
LEMMA FilesAnswerShape ==
  ASSUME ContentTypes, NEW k \in {"attach", "detach"}, FilesAnswered(k)
  PROVE  /\ req[k].at \in {"done", "refused"} /\ Ends(k)
         /\ attq' = IF req[k].at = "done" /\ route = "compose" THEN Invalidated(attq) ELSE attq
         /\ seen' \in SeenSet
         /\ seen'.joined <=> \/ seen.joined
                             \/ req[k].at = "done" /\ route = "compose" /\ ~attq.known
         /\ UNCHANGED <<seen.overlap, seen.racing, seen.cut, seen.mailed, seen.meant>>
         /\ UNCHANGED <<c, disk, atts, query, route, page, form, left, kept>>
<1> DEFINE joins == \/ seen.joined
                    \/ req[k].at = "done" /\ route = "compose" /\ ~attq.known
<1>1. seen \in SeenSet /\ joins \in BOOLEAN
  BY DEF ContentTypes
<1>2. seen' = [seen EXCEPT !.joined = joins]
  BY DEF FilesAnswered
<1> HIDE DEF joins
<1>3. /\ seen' \in SeenSet /\ seen'.joined = joins
      /\ UNCHANGED <<seen.overlap, seen.racing, seen.cut, seen.mailed, seen.meant>>
  BY <1>1, <1>2 DEF SeenSet
<1>4. QED
  BY <1>3 DEF FilesAnswered, KeepServer, KeepPage, KeepCounts, joins

\* A file is asked for, up or down, by this page or by the second tab.
LEMMA FileClickShape ==
  ASSUME ContentTypes, Attaches \/ Detaches \/ AttachesElsewhere
  PROVE  \E k \in {"attach", "detach", "elsewhere"} :
           /\ req' \in [Kinds -> ReqSet] /\ req[k].at = "idle"
           /\ req'[k].at = "sent" /\ req'[k].path = 0
           /\ k = "attach" => req'[k].id = 20 - left.files /\ Spends("files")
           /\ k = "detach" => Spends("files")
           /\ k = "elsewhere" => req'[k].id = left.outside /\ Spends("outside")
           /\ \A j \in Kinds \ {k} : req'[j] = req[j]
           /\ seen' \in SeenSet
           /\ UNCHANGED <<seen.racing, seen.joined, seen.cut, seen.mailed, seen.meant>>
           /\ seen'.overlap <=> seen.overlap
           /\ UNCHANGED <<c, disk, atts, query, attq, route, page, form, kept>>
<1>1. /\ left \in [row : 0..9, files : 0..9, outside : 0..9] /\ NoBody \in BodySet
      /\ req \in [Kinds -> ReqSet] /\ seen \in SeenSet
      /\ attq \in [data : SUBSET Nat, known : BOOLEAN, fetch : Fetching, reply : SUBSET Nat]
  BY ConstantTypes DEF ContentTypes
<1>2. CASE Attaches
  <2>1. Clicks("attach", NoBody, 20 - left.files) /\ Spends("files") /\ UNCHANGED <<page, form>>
    BY <1>2 DEF Attaches
  <2>2. 20 - left.files \in Nat /\ "attach" \in Kinds /\ "attach" \notin RowKinds
    BY <1>1, KindsAre
  <2>3. QED
    BY <1>1, <2>1, <2>2, ClicksShape
<1>3. CASE Detaches
  <2>1. PICK id \in attq.data : Clicks("detach", NoBody, id)
    BY <1>3 DEF Detaches
  <2>2. id \in Nat /\ "detach" \in Kinds /\ "detach" \notin RowKinds
    BY <1>1, KindsAre
  <2>3. Spends("files") /\ UNCHANGED <<page, form>>
    BY <1>3 DEF Detaches
  <2>4. QED
    BY <1>1, <2>1, <2>2, <2>3, ClicksShape
<1>4. CASE AttachesElsewhere
  <2> DEFINE new == [Idle EXCEPT !.at = "sent", !.id = left.outside]
  <2>1. /\ Spends("outside") /\ req["elsewhere"].at = "idle"
        /\ req' = [req EXCEPT !["elsewhere"] = new]
        /\ UNCHANGED <<c, disk, atts, query, attq, route, page, form, kept, seen>>
    BY <1>4 DEF AttachesElsewhere, KeepServer, KeepPage
  <2>2. left.outside \in Nat /\ "elsewhere" \in Kinds
    BY <1>1, KindsAre
  <2>3. new \in ReqSet /\ new.at = "sent" /\ new.id = left.outside /\ new.path = 0
    BY <2>2, ConstantTypes DEF ReqSet, Idle
  <2> HIDE DEF new
  <2>4. QED
    BY <1>1, <2>1, <2>2, <2>3
<1>5. QED
  BY <1>2, <1>3, <1>4

\* The steps about files leave the row, its requests and the pages alone.
LEMMA FilesFrame ==
  ASSUME ContentTypes, FileTypes, FileSteps
  PROVE  /\ ContentTypes'
         /\ UNCHANGED <<c, query, route, page, form, kept>>
         /\ \A k \in RowKinds \cup {"test"} : req'[k] = req[k]
         /\ UNCHANGED <<seen.cut, seen.mailed, seen.meant>> /\ (seen'.overlap <=> seen.overlap)
<1>1. /\ req \in [Kinds -> ReqSet] /\ seen \in SeenSet
      /\ left \in [row : 0..9, files : 0..9, outside : 0..9]
      /\ attq \in [data : SUBSET Nat, known : BOOLEAN, fetch : Fetching, reply : SUBSET Nat]
  BY DEF ContentTypes
<1> DEFINE Frame ==
      /\ UNCHANGED <<c, query, route, page, form, kept>>
      /\ \A k \in RowKinds \cup {"test"} : req'[k] = req[k]
      /\ UNCHANGED <<seen.cut, seen.mailed, seen.meant>> /\ (seen'.overlap <=> seen.overlap)
      /\ req' \in [Kinds -> ReqSet] /\ seen' \in SeenSet
      /\ left' \in [row : 0..9, files : 0..9, outside : 0..9]
      /\ attq' \in {attq, Invalidated(attq)}
<1>2. \A k \in RowKinds \cup {"test"} : k \in Kinds \ {"attach", "detach", "elsewhere"}
  BY KindsAre
<1>3. ASSUME Attaches \/ Detaches \/ AttachesElsewhere
      PROVE  Frame
  <2>1. left' \in [row : 0..9, files : 0..9, outside : 0..9]
    BY <1>3, FileClickShape, SpendsShape
  <2>2. QED
    BY <1>2, <1>3, <2>1, FileClickShape
<1>4. ASSUME NEW k \in Uploads, UploadChecks(k) \/ UploadStores(k) \/ UploadRecords(k)
      PROVE  Frame
  <2>1. k \in Kinds /\ \A j \in RowKinds \cup {"test"} : j \in Kinds \ {k}
    BY <1>2, KindsAre
  <2>2. CASE UploadChecks(k)
    BY <1>1, <2>1, <2>2, ChecksShape
  <2>3. CASE UploadStores(k)
    BY <1>1, <2>1, <2>3, GoesShape DEF UploadStores, Handles, KeepPage, KeepCounts
  <2>4. CASE UploadRecords(k)
    BY <1>1, <2>1, <2>4, GoesShape DEF UploadRecords, Handles, KeepPage, KeepCounts
  <2>5. QED
    BY <1>4, <2>2, <2>3, <2>4
<1>5. ASSUME DeleteFinds PROVE Frame
  BY <1>1, <1>2, <1>5, FindsShape
<1>6. ASSUME DeleteRemoves \/ DeleteRecords PROVE Frame
  <2>1. "detach" \in Kinds
    BY KindsAre
  <2>2. Goes("detach", "removed") \/ Goes("detach", "done")
    BY <1>6 DEF DeleteRemoves, DeleteRecords
  <2>3. UNCHANGED <<c, query, attq, route, page, form, left, kept, seen>>
    BY <1>6 DEF DeleteRemoves, DeleteRecords, Handles, KeepPage, KeepCounts
  <2>4. QED
    BY <1>1, <1>2, <2>1, <2>2, <2>3, GoesShape
<1>7. ASSUME NEW k \in {"attach", "detach"}, FilesAnswered(k) PROVE Frame
  <2>1. k \in Kinds /\ \A j \in RowKinds \cup {"test"} : j \in Kinds \ {k}
    BY <1>2, KindsAre
  <2>2. QED
    BY <1>1, <1>7, <2>1, FilesAnswerShape, EndsShape
<1>8. ASSUME ElsewhereAnswered PROVE Frame
  <2>1. "elsewhere" \in Kinds
    BY KindsAre
  <2>2. QED
    BY <1>1, <1>2, <1>8, <2>1, EndsShape
       DEF ElsewhereAnswered, KeepServer, KeepPage, KeepCounts
<1>9. Frame
  BY <1>3, <1>4, <1>5, <1>6, <1>7, <1>8 DEF FileSteps
<1>10. Invalidated(attq)
         \in [data : SUBSET Nat, known : BOOLEAN, fetch : Fetching, reply : SUBSET Nat]
  BY <1>1, QueryShape
<1>11. QED
  BY <1>1, <1>9, <1>10 DEF ContentTypes

\* The steps of the test mail leave all but its request alone.
LEMMA TestFrame ==
  ASSUME ContentTypes, TestSteps
  PROVE  /\ UNCHANGED <<c, disk, atts, query, attq, route, page, form, kept>>
         /\ \A k \in Kinds \ {"test"} : req'[k] = req[k]
         /\ UNCHANGED <<seen.racing, seen.joined, seen.cut>> /\ (seen'.overlap <=> seen.overlap)
         /\ left' = left \/ Acts
<1>1. "test" \in Kinds /\ "test" \notin RowKinds /\ page \in PageSet /\ seen \in SeenSet
  BY KindsAre DEF ContentTypes
<1>2. CASE HandleTestSend
  <2>1. PICK id \in {0, 1} : Clicks("test", BuildPayload(page), id) /\ Acts
    BY <1>2 DEF HandleTestSend
  <2>2. BuildPayload(page) \in BodySet /\ id \in Nat /\ UNCHANGED <<page, form>>
    BY <1>1, <1>2, PayloadTypes DEF HandleTestSend
  <2>3. QED
    BY <1>1, <2>1, <2>2, ClicksShape
<1>3. CASE PreviewSends
  <2>1. UNCHANGED <<seen.racing, seen.joined, seen.cut, seen.overlap>>
    BY <1>1, <1>3 DEF PreviewSends, SeenSet
  <2>2. QED
    BY <1>1, <1>3, <2>1, GoesShape DEF PreviewSends, KeepServer, Handles, KeepPage, KeepCounts
<1>4. CASE TestAnswered
  BY <1>1, <1>4, EndsShape DEF TestAnswered, KeepServer, Handles, KeepPage, KeepCounts
<1>5. QED
  BY <1>2, <1>3, <1>4 DEF TestSteps

\* The steps of the requests that save the row leave the files and the other
\* requests alone.
LEMMA RowsFrame ==
  ASSUME ContentTypes, RowSteps
  PROVE  /\ UNCHANGED <<disk, atts, attq, route>>
         /\ \A k \in Kinds \ RowKinds : req'[k] = req[k]
         /\ UNCHANGED <<seen.racing, seen.joined, seen.mailed, seen.meant>>
         /\ left' = left \/ Acts
<1>1. \A k \in RowKinds : k \in Kinds /\ \A j \in Kinds \ RowKinds : j \in Kinds \ {k}
  BY KindsAre
<1>2. CASE RowClicks
  <2>1. PICK k \in RowKinds, body \in BodySet : Clicks(k, body, 0) /\ Acts
    BY <1>2, RowClickShape
  <2>2. QED
    BY <1>1, <2>1, ClicksShape
<1>3. CASE RowAnswers
  <2>1. PICK k \in RowKinds : \A j \in Kinds \ {k} : req'[j] = req[j]
    BY <1>3, AnswerShape DEF Answers
  <2>2. QED
    BY <1>1, <1>3, <2>1, AnswerShape
<1>4. CASE PreviewShows
  <2>1. "preview" \in RowKinds /\ Ends("preview")
    BY <1>4, KindsAre DEF PreviewShows
  <2>2. QED
    BY <1>1, <1>4, <2>1, EndsShape DEF PreviewShows, KeepServer, KeepCounts
<1>5. ASSUME NEW k \in RowKinds, RowReads(k) \/ RowWrites(k)
      PROVE  /\ \A j \in Kinds \ {k} : req'[j] = req[j]
             /\ UNCHANGED <<disk, atts, attq, route, left, seen>>
  BY <1>5, ReadsShape, WritesShape
<1>6. QED
  BY <1>1, <1>2, <1>3, <1>4, <1>5 DEF RowSteps

\* The steps of the page alone.
LEMMA PageFrame ==
  ASSUME ContentTypes, PageSteps
  PROVE  /\ UNCHANGED <<c, disk, atts, req, query, attq, route, kept, seen>>
         /\ Acts
BY EditShape, SwitchShape DEF PageSteps, EditInfo, KeepServer

\* The fetches, and the run.
LEMMA FetchFrame ==
  /\ RowFetchReads =>
       /\ query.fetch = "asked" /\ query' = [query EXCEPT !.fetch = "read", !.reply = c]
       /\ UNCHANGED <<c, disk, atts, req, attq, route, page, form, left, kept, seen>>
  /\ RowFetchDone =>
       /\ query.fetch = "read"
       /\ query' = [query EXCEPT !.fetch = "none", !.data = query.reply]
       /\ page' = IF route = "compose" /\ query.reply # query.data THEN Loading(page, query.reply)
                  ELSE page
       /\ UNCHANGED <<c, disk, atts, req, attq, route, form, left, kept, seen>>
  /\ FilesFetchReads =>
       /\ attq.fetch = "asked"
       /\ attq' = [attq EXCEPT !.fetch = "read", !.reply = {a.id : a \in atts}]
       /\ UNCHANGED <<c, disk, atts, req, query, route, page, form, left, kept, seen>>
  /\ FilesFetchDone =>
       /\ attq.fetch = "read"
       /\ attq' = [attq EXCEPT !.fetch = "none", !.known = TRUE, !.data = attq.reply]
       /\ UNCHANGED <<c, disk, atts, req, query, route, page, form, left, kept, seen>>
BY DEF RowFetchReads, RowFetchDone, FilesFetchReads, FilesFetchDone, KeepServer, KeepPage,
   KeepCounts

\* The run changes the row's status.
LEMMA TurnShape ==
  ASSUME ContentTypes, RunTurns
  PROVE  /\ c' \in RowSet /\ c'.ver = c.ver + 1 /\ Content(c') = Content(c)
         /\ Spends("outside")
         /\ UNCHANGED <<disk, atts, req, query, attq, route, page, form, kept, seen>>
<1>1. PICK s \in {"sending", "completed"} : c' = [c EXCEPT !.status = s, !.ver = c.ver + 1]
  <2>1. PICK t \in {<<"draft", "sending">>, <<"sending", "completed">>} :
          c' = [c EXCEPT !.status = t[2], !.ver = c.ver + 1]
    BY DEF RunTurns
  <2>2. t[2] \in {"sending", "completed"}
    BY <2>1
  <2>3. QED
    BY <2>1, <2>2
<1>2. c \in RowSet /\ c.ver + 1 \in Nat /\ s \in Statuses
  BY DEF ContentTypes, RowSet, Statuses
<1>3. c' \in RowSet /\ c'.ver = c.ver + 1 /\ Content(c') = Content(c)
  BY <1>1, <1>2 DEF RowSet, Content
<1>4. QED
  BY <1>3 DEF RunTurns, KeepPage

\* The initial states have their types.
LEMMA TypesInit ==
  ASSUME Init
  PROVE  ContentTypes /\ FileTypes /\ TypeOK
<1>1. c \in RowSet /\ c.ver = 1
  BY RowsAssumption DEF Init
<1>2. req \in [Kinds -> ReqSet] /\ \A k \in Kinds : req[k] = Idle
  BY ConstantTypes DEF Init
<1>3. query \in [data : RowSet, known : {TRUE}, fetch : Fetching, reply : RowSet]
  BY <1>1, ConstantTypes DEF Init, Fetching
<1>4. attq \in [data : SUBSET Nat, known : BOOLEAN, fetch : Fetching, reply : SUBSET Nat]
  BY DEF Init, Fetching
<1>5. page \in PageSet
  BY <1>1, ConstantTypes, LoadingTypes DEF Init
<1>6. form \in [info : Nat, edited : BOOLEAN, stale : BOOLEAN, saving : BOOLEAN]
  <2>1. c.info \in Nat
    BY <1>1 DEF RowSet
  <2>2. QED
    BY <2>1 DEF Init, NewForm, NoForm
<1>7. left \in [row : 0..9, files : 0..9, outside : 0..9]
  BY BoundsAssumption DEF Init
<1>8. kept \in [html : Nat, mime : Nat, ics : IcsSet, info : Nat, on : BOOLEAN]
  BY <1>1 DEF Init, Content, RowSet
<1>9. seen \in SeenSet
  <2>1. NoMail \in MailSet
    BY ConstantTypes DEF NoMail, Mail, MailSet, NoRow
  <2>2. QED
    BY <2>1 DEF Init, SeenSet
<1>10. disk = {} /\ atts = {} /\ route \in {"compose", "info"}
  BY DEF Init
<1>11. ContentTypes
  BY <1>1, <1>2, <1>3, <1>4, <1>5, <1>6, <1>7, <1>8, <1>9, <1>10 DEF ContentTypes
<1>12. Idle.at = "idle" /\ Idle.path = 0
  BY DEF Idle
<1>13. FileTypes
  <2>1. \A k \in Uploads : k \in Kinds
    BY KindsAre
  <2>2. QED
    BY <1>2, <1>10, <1>12, <2>1, FS_EmptySet DEF FileTypes, Stored
<1>14. TypeOK
  BY <1>1, <1>2, <1>5, <1>10, <1>12 DEF TypeOK, RowSet, PageSet
<1>15. QED
  BY <1>11, <1>13, <1>14

\* Every step keeps the types.
LEMMA TypesStep ==
  ASSUME ContentTypes, FileTypes, [Next]_vars
  PROVE  ContentTypes'
<1>1. /\ query \in [data : RowSet, known : {TRUE}, fetch : Fetching, reply : RowSet]
      /\ attq \in [data : SUBSET Nat, known : BOOLEAN, fetch : Fetching, reply : SUBSET Nat]
      /\ c \in RowSet /\ page \in PageSet /\ route \in {"compose", "info"}
  BY DEF ContentTypes
<1>2. CASE Visits
  <2>1. page' \in PageSet
    <3>1. page' \in {NewPage, Loading(NewPage, query.data)}
      BY <1>1, <1>2, VisitsShape
    <3>2. query.data \in RowSet
      BY <1>1
    <3>3. QED
      BY <3>1, <3>2, ConstantTypes, LoadingTypes
  <2>2. form' \in [info : Nat, edited : BOOLEAN, stale : BOOLEAN, saving : BOOLEAN]
    <3>1. query.data.info \in Nat /\ (query.data.info # c.info \/ RowBusy) \in BOOLEAN
      BY <1>1 DEF RowSet
    <3>2. form' \in {NoForm, NewForm(query.data, query.data.info # c.info \/ RowBusy)}
      BY <1>1, <1>2, VisitsShape
    <3>3. ASSUME NEW stale \in BOOLEAN
          PROVE  NewForm(query.data, stale)
                   \in [info : Nat, edited : BOOLEAN, stale : BOOLEAN, saving : BOOLEAN]
      BY <3>1 DEF NewForm, NoForm
    <3>4. NoForm \in [info : Nat, edited : BOOLEAN, stale : BOOLEAN, saving : BOOLEAN]
      BY DEF NoForm
    <3>5. QED
      BY <3>1, <3>2, <3>3, <3>4
  <2>3. query' \in [data : RowSet, known : {TRUE}, fetch : Fetching, reply : RowSet]
    BY <1>2, VisitsShape, RowQueryShape
  <2>4. attq' \in [data : SUBSET Nat, known : BOOLEAN, fetch : Fetching, reply : SUBSET Nat]
    <3>1. attq' \in {attq, Asked(attq)}
      BY <1>1, <1>2, VisitsShape
    <3>2. Asked(attq) \in [data : SUBSET Nat, known : BOOLEAN, fetch : Fetching, reply : SUBSET Nat]
      BY <1>1, QueryShape
    <3>3. QED
      BY <1>1, <3>1, <3>2
  <2>5. route' \in {"compose", "info"}
    BY <1>1, <1>2, VisitsShape
  <2>6. /\ req' \in [Kinds -> ReqSet] /\ seen' \in SeenSet
        /\ left' \in [row : 0..9, files : 0..9, outside : 0..9]
        /\ UNCHANGED <<c, kept>>
    BY <1>2, VisitsShape
  <2>7. QED
    BY <2>1, <2>2, <2>3, <2>4, <2>5, <2>6 DEF ContentTypes
<1>3. CASE RowFetchReads
  <2>1. query' \in [data : RowSet, known : {TRUE}, fetch : Fetching, reply : RowSet]
    BY <1>1, <1>3, FetchFrame DEF Fetching
  <2>2. QED
    BY <1>3, <2>1, FetchFrame DEF ContentTypes
<1>4. CASE RowFetchDone
  <2>1. query' \in [data : RowSet, known : {TRUE}, fetch : Fetching, reply : RowSet]
    BY <1>1, <1>4, FetchFrame DEF Fetching
  <2>2. page' \in PageSet
    BY <1>1, <1>4, FetchFrame, LoadingTypes
  <2>3. QED
    BY <1>4, <2>1, <2>2, FetchFrame DEF ContentTypes
<1>5. CASE FilesFetchReads
  <2>1. {a.id : a \in atts} \subseteq Nat
    BY DEF FileTypes
  <2>2. attq' \in [data : SUBSET Nat, known : BOOLEAN, fetch : Fetching, reply : SUBSET Nat]
    BY <1>1, <1>5, <2>1, FetchFrame DEF Fetching
  <2>3. QED
    BY <1>5, <2>2, FetchFrame DEF ContentTypes
<1>6. CASE FilesFetchDone
  <2>1. attq' \in [data : SUBSET Nat, known : BOOLEAN, fetch : Fetching, reply : SUBSET Nat]
    BY <1>1, <1>6, FetchFrame DEF Fetching
  <2>2. QED
    BY <1>6, <2>1, FetchFrame DEF ContentTypes
<1>7. CASE RunTurns
  <2>1. left' \in [row : 0..9, files : 0..9, outside : 0..9]
    BY <1>7, TurnShape, SpendsShape
  <2>2. QED
    BY <1>7, <2>1, TurnShape DEF ContentTypes
<1>8. CASE UNCHANGED vars
  BY <1>8 DEF vars, ContentTypes
<1>9. QED
  BY <1>2, <1>3, <1>4, <1>5, <1>6, <1>7, <1>8, StepKinds, TypesOfPage, TypesOfTest,
     TypesOfRows, FilesFrame

-----------------------------------------------------------------------------
(* The row, its copies and their versions *)

\* The copies of the row are older copies, or the row.
LEMMA CopiesStep ==
  ASSUME ContentTypes, FileTypes, [Next]_vars
  PROVE  /\ {query'.data, query'.reply} \subseteq {query.data, query.reply, c}
         /\ c' = c \/ (c'.ver = c.ver + 1 /\ query' = query)
<1>1. query \in [data : RowSet, known : {TRUE}, fetch : Fetching, reply : RowSet]
  BY DEF ContentTypes
<1>2. CASE RowSteps
  <2>1. CASE RowClicks
    <3>1. PICK k \in RowKinds, body \in BodySet : Clicks(k, body, 0)
      BY <2>1, RowClickShape
    <3>2. k \in Kinds
      BY KindsAre
    <3>3. QED
      BY <3>1, <3>2, ClicksShape
  <2>2. CASE RowAnswers
    <3>1. query' \in {query, Invalidated(query)} /\ c' = c
      BY <2>2, AnswerShape DEF Answers
    <3>2. query'.data = query.data /\ query'.reply = query.reply
      BY <3>1, RowQueryShape
    <3>3. QED
      BY <3>1, <3>2
  <2>3. CASE PreviewShows
    BY <2>3 DEF PreviewShows, KeepServer
  <2>4. ASSUME NEW k \in RowKinds, RowReads(k) \/ RowWrites(k)
        PROVE  query' = query /\ (c' = c \/ c'.ver = c.ver + 1)
    BY <2>4, ReadsShape, WritesShape
  <2>5. QED
    BY <1>2, <2>1, <2>2, <2>3, <2>4 DEF RowSteps
<1>3. CASE PageSteps
  BY <1>3, PageFrame
<1>4. CASE FileSteps
  BY <1>4, FilesFrame
<1>5. CASE TestSteps
  BY <1>5, TestFrame
<1>6. CASE Visits
  BY <1>6, VisitsShape, RowQueryShape
<1>7. CASE RowFetchReads \/ RowFetchDone \/ FilesFetchReads \/ FilesFetchDone
  BY <1>1, <1>7, FetchFrame
<1>8. CASE RunTurns
  BY <1>8, TurnShape
<1>9. CASE UNCHANGED vars
  BY <1>9 DEF vars
<1>10. QED
  BY <1>2, <1>3, <1>4, <1>5, <1>6, <1>7, <1>8, <1>9, StepKinds

LEMMA VerStep ==
  ASSUME ContentTypes, FileTypes, VerInv, [Next]_vars
  PROVE  VerInv'
<1>1. c.ver \in Nat /\ query.data.ver \in Nat /\ query.reply.ver \in Nat
  BY DEF ContentTypes, RowSet
<1>2. CASE c' = c
  BY <1>1, <1>2, CopiesStep DEF VerInv
<1>3. CASE c'.ver = c.ver + 1 /\ query' = query
  BY <1>1, <1>3 DEF VerInv
<1>4. QED
  BY <1>2, <1>3, CopiesStep

\* A row request that has written is not forgotten before the cache is fetched again.
LEMMA FreshStep ==
  ASSUME ContentTypes, FileTypes, FreshInv, [Next]_vars
  PROVE  FreshInv'
<1>1. /\ query \in [data : RowSet, known : {TRUE}, fetch : Fetching, reply : RowSet]
      /\ \A k \in RowKinds : k \in Kinds
  BY KindsAre DEF ContentTypes
<1>2. ASSUME UNCHANGED query, Content(c') = Content(c),
             \A k \in RowKinds : req[k].at = "done" => req'[k].at = "done"
      PROVE  FreshInv'
  BY <1>2 DEF FreshInv
<1>3. CASE RowSteps
  <2>1. CASE RowClicks
    <3>1. PICK k \in RowKinds, body \in BodySet : Clicks(k, body, 0)
      BY <2>1, RowClickShape
    <3>2. /\ UNCHANGED <<query, c>> /\ req[k].at = "idle"
          /\ \A j \in Kinds \ {k} : req'[j] = req[j]
      BY <1>1, <3>1, ClicksShape
    <3>3. QED
      BY <1>1, <1>2, <3>2
  <2>2. CASE RowAnswers
    <3>1. PICK k \in RowKinds : Answers(k)
      BY <2>2, AnswerShape
    <3>2. CASE req[k].at = "done"
      BY <3>1, <3>2, RowQueryShape DEF Answers, FreshInv
    <3>3. CASE req[k].at # "done"
      BY <1>1, <1>2, <2>2, <3>1, <3>3, AnswerShape DEF Answers
    <3>4. QED
      BY <3>2, <3>3
  <2>3. CASE PreviewShows
    <3>1. /\ UNCHANGED <<query, c>> /\ req["preview"].at = "view" /\ Ends("preview")
      BY <2>3 DEF PreviewShows, KeepServer
    <3>2. \A j \in Kinds \ {"preview"} : req'[j] = req[j]
      BY <3>1, KindsAre, EndsShape
    <3>3. QED
      BY <1>1, <1>2, <3>1, <3>2
  <2>4. ASSUME NEW k \in RowKinds, RowReads(k)
        PROVE  FreshInv'
    BY <1>1, <1>2, <2>4, ReadsShape
  <2>5. ASSUME NEW k \in RowKinds, RowWrites(k)
        PROVE  FreshInv'
    BY <2>5, WritesShape DEF FreshInv
  <2>6. QED
    BY <1>3, <2>1, <2>2, <2>3, <2>4, <2>5 DEF RowSteps
<1>4. CASE PageSteps
  BY <1>2, <1>4, PageFrame
<1>5. CASE FileSteps
  BY <1>2, <1>5, FilesFrame
<1>6. CASE TestSteps
  <2>1. \A k \in RowKinds : k \in Kinds \ {"test"}
    BY KindsAre
  <2>2. QED
    BY <1>2, <1>6, <2>1, TestFrame
<1>7. CASE Visits
  <2>1. /\ c' = c /\ query' = Asked(query) /\ \A k \in RowKinds : req'[k].at = req[k].at
    BY <1>1, <1>7, VisitsShape
  <2>2. /\ Asked(query).data = query.data /\ Asked(query).reply = query.reply
        /\ Asked(query).fetch = IF query.fetch = "none" THEN "asked" ELSE query.fetch
    BY RowQueryShape
  <2>3. QED
    BY <2>1, <2>2 DEF FreshInv
<1>8. CASE RowFetchReads
  BY <1>1, <1>8, FetchFrame DEF FreshInv
<1>9. CASE RowFetchDone
  BY <1>1, <1>9, FetchFrame DEF FreshInv
<1>10. CASE FilesFetchReads \/ FilesFetchDone
  BY <1>2, <1>10, FetchFrame
<1>11. CASE RunTurns
  BY <1>2, <1>11, TurnShape
<1>12. CASE UNCHANGED vars
  BY <1>12 DEF vars, FreshInv
<1>13. QED
  BY <1>3, <1>4, <1>5, <1>6, <1>7, <1>8, <1>9, <1>10, <1>11, <1>12, StepKinds

\* An edit made while nothing was under way stays alone until it is sent, or the
\* page is left.
LEMMA QuietStep ==
  ASSUME ContentTypes, FileTypes, QuietInv, [Next]_vars
  PROVE  /\ QuietInv'
         /\ page.unsent = "quiet" /\ page'.unsent = "none" /\ route' = route =>
              \E k \in {"save", "preview"} : req'[k].at = "sent" /\ req[k].at = "idle"
<1> DEFINE Survives ==
      page.unsent = "quiet" /\ page'.unsent = "none" /\ route' = route =>
        \E k \in {"save", "preview"} : req'[k].at = "sent" /\ req[k].at = "idle"
<1>1. /\ page \in PageSet /\ \A k \in RowKinds : k \in Kinds
      /\ query \in [data : RowSet, known : {TRUE}, fetch : Fetching, reply : RowSet]
      /\ route \in {"compose", "info"}
  BY KindsAre DEF ContentTypes
<1>2. ASSUME UNCHANGED <<query, route>>, page'.unsent = page.unsent,
             \A k \in RowKinds : req[k].at = "idle" => req'[k].at = "idle"
      PROVE  QuietInv' /\ Survives
  BY <1>2 DEF QuietInv
<1>3. CASE RowSteps
  <2>1. CASE RowClicks
    <3>1. PICK k \in RowKinds, body \in BodySet :
           /\ Clicks(k, body, 0)
           /\ k \notin {"save", "preview"} => route = "info" /\ page' = page
           /\ k = "save" => page' = [Sent(page) EXCEPT !.saving = TRUE]
           /\ k = "preview" => page' = Sent(page)
      BY <2>1, RowClickShape
    <3>2. /\ UNCHANGED <<query, route>> /\ req[k].at = "idle" /\ req'[k].at = "sent"
      BY <1>1, <3>1, ClicksShape
    <3>3. CASE k \in {"save", "preview"}
      <4>1. page' \in {Sent(page), [Sent(page) EXCEPT !.saving = TRUE]}
        BY <3>1, <3>3
      <4>3. page'.unsent \in {"none", "busy"}
        BY <1>1, <4>1, SentShape
      <4>2. QED
        BY <3>2, <3>3, <4>3 DEF QuietInv
    <3>4. CASE k \notin {"save", "preview"}
      BY <3>1, <3>2, <3>4 DEF QuietInv
    <3>5. QED
      BY <3>3, <3>4
  <2>2. CASE RowAnswers
    <3>1. PICK k \in RowKinds : Answers(k)
      BY <2>2, AnswerShape
    <3>2. page'.unsent = page.unsent /\ req[k].at # "idle"
      BY <1>1, <3>1 DEF Answers, PageSet
    <3>3. page.unsent # "quiet"
      BY <3>2 DEF QuietInv
    <3>4. QED
      BY <3>2, <3>3 DEF QuietInv
  <2>3. CASE PreviewShows
    <3>1. req["preview"].at # "idle" /\ "preview" \in RowKinds
      BY <2>3, KindsAre DEF PreviewShows
    <3>2. page'.unsent = page.unsent
      BY <1>1, <2>3 DEF PreviewShows, PageSet
    <3>3. QED
      BY <3>1, <3>2 DEF QuietInv
  <2>4. ASSUME NEW k \in RowKinds, RowReads(k) \/ RowWrites(k)
        PROVE  QuietInv' /\ Survives
    <3>1. page' = page /\ req[k].at # "idle"
      BY <2>4, ReadsShape, WritesShape
    <3>2. QED
      BY <3>1 DEF QuietInv
  <2>5. QED
    BY <1>3, <2>1, <2>2, <2>3, <2>4 DEF RowSteps
<1>4. CASE PageSteps
  <2>1. UNCHANGED <<query, route, req>>
    BY <1>4, PageFrame
  <2>2. CASE Edits
    <3>1. /\ route = "compose"
          /\ page'.unsent = IF page.unsent = "busy" \/ RowBusy THEN "busy" ELSE "quiet"
      BY <2>2, EditShape
    <3>2. QED
      BY <2>1, <3>1 DEF QuietInv, RowBusy
  <2>3. CASE SwitchIcsMode \/ EditInfo
    <3>1. page'.unsent = page.unsent
      BY <2>3, SwitchShape DEF EditInfo
    <3>2. QED
      BY <1>2, <2>1, <3>1
  <2>4. QED
    BY <1>4, <2>2, <2>3 DEF PageSteps
<1>5. CASE FileSteps
  BY <1>2, <1>5, FilesFrame
<1>6. CASE TestSteps
  <2>1. \A k \in RowKinds : k \in Kinds \ {"test"}
    BY KindsAre
  <2>2. QED
    BY <1>2, <1>6, <2>1, TestFrame
<1>7. CASE Visits
  <2>1. page' \in {NewPage, Loading(NewPage, query.data)} /\ route' # route
    BY <1>1, <1>7, VisitsShape
  <2>2. page'.unsent = "none"
    BY <1>1, <2>1, ConstantTypes, LoadingTypes
  <2>3. QED
    BY <2>1, <2>2 DEF QuietInv
<1>8. CASE RowFetchReads \/ RowFetchDone
  <2>1. page.unsent # "quiet"
    BY <1>8, FetchFrame DEF QuietInv
  <2>2. page' \in {page, Loading(page, query.reply)}
    BY <1>8, FetchFrame
  <2>3. page'.unsent \in {page.unsent, "none"}
    BY <1>1, <2>2, LoadingTypes
  <2>4. QED
    BY <2>1, <2>3 DEF QuietInv
<1>9. CASE FilesFetchReads \/ FilesFetchDone \/ RunTurns
  BY <1>2, <1>9, FetchFrame, TurnShape
<1>10. CASE UNCHANGED vars
  BY <1>2, <1>10 DEF vars
<1>11. QED
  BY <1>3, <1>4, <1>5, <1>6, <1>7, <1>8, <1>9, <1>10, StepKinds

-----------------------------------------------------------------------------
(* The info tab *)

\* Whoever writes info while the info tab is there writes what it shows.
LEMMA FormStep ==
  ASSUME ContentTypes, FileTypes, FormInv, [Next]_vars
  PROVE  FormInv'
<1>1. /\ \A k \in RowKinds : k \in Kinds
      /\ c \in RowSet /\ req \in [Kinds -> ReqSet] /\ route \in {"compose", "info"}
      /\ form \in [info : Nat, edited : BOOLEAN, stale : BOOLEAN, saving : BOOLEAN]
      /\ query \in [data : RowSet, known : {TRUE}, fetch : Fetching, reply : RowSet]
  BY KindsAre DEF ContentTypes
<1>2. ASSUME UNCHANGED route, form'.info = form.info, form'.edited = form.edited,
             form'.stale = form.stale, c'.info = c.info, \A k \in RowKinds : req'[k] = req[k]
      PROVE  FormInv'
  BY <1>2, KindsAre DEF FormInv
<1>3. CASE RowSteps
  <2>1. CASE RowClicks
    <3>1. PICK k \in RowKinds, body \in BodySet :
           /\ Clicks(k, body, 0)
           /\ k \in {"save", "preview"} => route = "compose"
           /\ k = "info" => body = [NoBody EXCEPT !.info = form.info]
                            /\ form' = [form EXCEPT !.saving = TRUE]
           /\ k \in {"upload", "reset"} => form' = form
      BY <2>1, RowClickShape
    <3>2. /\ UNCHANGED <<c, route>> /\ req'[k].at = "sent" /\ req'[k].body = body
          /\ \A j \in Kinds \ {k} : req'[j] = req[j]
      BY <1>1, <3>1, ClicksShape
    <3>3. CASE k \in {"save", "preview"}
      BY <3>1, <3>2, <3>3 DEF FormInv
    <3>4. CASE k = "info"
      <4>1. body.info = form.info /\ form'.info = form.info /\ form'.edited = form.edited
            /\ form'.stale = form.stale
        BY <1>1, <3>1, <3>4 DEF NoBody
      <4>2. QED
        BY <1>1, <3>2, <3>4, <4>1, KindsAre DEF FormInv
    <3>5. CASE k \in {"upload", "reset"}
      BY <1>1, <3>1, <3>2, <3>5, KindsAre DEF FormInv
    <3>6. QED
      BY <3>3, <3>4, <3>5, KindsAre
  <2>2. CASE RowAnswers
    <3>1. PICK k \in RowKinds : Answers(k)
      BY <2>2, AnswerShape
    <3>2. /\ form'.info = form.info /\ form'.edited = form.edited /\ form'.stale = form.stale
          /\ UNCHANGED <<c, route>>
      BY <1>1, <2>2, <3>1, AnswerShape DEF Answers
    <3>3. /\ req'[k].at \in {"idle", "view"} /\ (k # "preview" => req'[k].at = "idle")
          /\ \A j \in Kinds \ {k} : req'[j] = req[j]
      BY <3>1 DEF Answers
    <3>4. k = "preview" => ~(route = "info" /\ ~form.edited /\ ~form.stale)
      BY <3>1 DEF Answers, FormInv
    <3>5. QED
      BY <1>1, <3>2, <3>3, <3>4, KindsAre DEF FormInv
  <2>3. CASE PreviewShows
    <3>1. UNCHANGED <<c, route, form>> /\ req["preview"].at = "view"
      BY <2>3 DEF PreviewShows, KeepServer
    <3>2. QED
      BY <3>1 DEF FormInv
  <2>4. ASSUME NEW k \in RowKinds, RowReads(k)
        PROVE  FormInv'
    <3>1. /\ UNCHANGED <<c, route, form>> /\ req[k].at = "sent" /\ req'[k].row = c
          /\ req'[k].body = req[k].body /\ \A j \in Kinds \ {k} : req'[j] = req[j]
      BY <2>4, ReadsShape
    <3>2. QED
      BY <1>1, <3>1, KindsAre DEF FormInv
  <2>5. ASSUME NEW k \in RowKinds, RowWrites(k)
        PROVE  FormInv'
    <3>1. /\ UNCHANGED <<route, form>> /\ req[k].at = "read" /\ req'[k].at = "done"
          /\ req'[k].body = req[k].body /\ \A j \in Kinds \ {k} : req'[j] = req[j]
          /\ c'.info = Result(k).info
      BY <2>5, WritesShape DEF Content
    <3>2. SUFFICES ASSUME route = "info", ~form.edited, ~form.stale
                   PROVE  FormInv'
      BY <3>1 DEF FormInv
    <3>3. /\ req[k].row.info = form.info /\ c.info = form.info
          /\ k \notin {"save", "preview"}
          /\ k = "info" => req[k].body.info = form.info
      BY <3>1, <3>2 DEF FormInv
    <3>4. req[k].row \in RowSet /\ req[k].body \in BodySet
      BY <1>1 DEF ReqSet
    <3>5. Result(k).info = form.info
      <4>1. CASE k = "info"
        BY <3>3, <3>4, <4>1, AppliedShape DEF Result, Updates, Given
      <4>2. CASE k = "upload"
        BY <3>3, <4>2 DEF Result, Updates
      <4>3. CASE k = "reset"
        BY <3>3, <3>4, <4>3 DEF Result, Updates, RowSet
      <4>4. QED
        BY <3>3, <4>1, <4>2, <4>3, KindsAre
    <3>6. QED
      BY <1>1, <3>1, <3>2, <3>3, <3>5, KindsAre DEF FormInv
  <2>6. QED
    BY <1>3, <2>1, <2>2, <2>3, <2>4, <2>5 DEF RowSteps
<1>4. CASE PageSteps
  <2>1. UNCHANGED <<c, route, req>>
    BY <1>4, PageFrame
  <2>2. CASE Edits \/ SwitchIcsMode
    BY <2>1, <2>2, EditShape, SwitchShape DEF FormInv
  <2>3. CASE EditInfo
    <3>1. form'.edited
      BY <1>1, <2>3 DEF EditInfo
    <3>2. QED
      BY <3>1 DEF FormInv
  <2>4. QED
    BY <1>4, <2>2, <2>3 DEF PageSteps
<1>5. CASE FileSteps
  BY <1>2, <1>5, FilesFrame
<1>6. CASE TestSteps
  <2>1. \A k \in RowKinds : k \in Kinds \ {"test"}
    BY KindsAre
  <2>2. QED
    BY <1>2, <1>6, <2>1, TestFrame
<1>7. CASE Visits
  <2>1. CASE route = "info"
    BY <1>7, <2>1, VisitsShape DEF FormInv
  <2>2. CASE route = "compose"
    <3> DEFINE stale == query.data.info # c.info \/ RowBusy
    <3>1. form' = NewForm(query.data, stale) /\ c' = c
      BY <1>7, <2>2, VisitsShape
    <3>2. query.data.info \in Nat /\ stale \in BOOLEAN
      BY <1>1 DEF RowSet
    <3>3. form'.info = query.data.info /\ form'.stale = stale
      BY <3>1, <3>2 DEF NewForm, NoForm
    <3>4. SUFFICES ASSUME ~stale PROVE FormInv'
      BY <3>3 DEF FormInv
    <3>5. query.data.info = c.info /\ \A k \in RowKinds : req[k].at = "idle"
      BY <3>4 DEF RowBusy
    <3>6. \A k \in RowKinds : req'[k].at = "idle"
      BY <1>1, <1>7, <3>5, VisitsShape
    <3>7. QED
      BY <3>1, <3>3, <3>5, <3>6, KindsAre DEF FormInv
  <2>3. QED
    BY <1>1, <2>1, <2>2
<1>8. CASE RowFetchReads \/ RowFetchDone \/ FilesFetchReads \/ FilesFetchDone
  BY <1>2, <1>8, FetchFrame
<1>9. CASE RunTurns
  <2>1. c'.info = c.info
    BY <1>9, TurnShape DEF Content
  <2>2. QED
    BY <1>2, <1>9, <2>1, TurnShape
<1>10. CASE UNCHANGED vars
  BY <1>2, <1>10 DEF vars
<1>11. QED
  BY <1>3, <1>4, <1>5, <1>6, <1>7, <1>8, <1>9, <1>10, StepKinds

-----------------------------------------------------------------------------
(* The files *)

\* Every other step leaves the files, and where their requests are, alone.
LEMMA FilesStill ==
  ASSUME ContentTypes, FileTypes, [Next]_vars, ~FileSteps
  PROVE  /\ UNCHANGED <<disk, atts>> /\ (seen'.racing <=> seen.racing)
         /\ \A k \in Uploads \cup {"detach"} :
              UNCHANGED <<req[k].at, req[k].id, req[k].path>>
         /\ left'.files <= left.files /\ left'.outside <= left.outside
<1>1. /\ left \in [row : 0..9, files : 0..9, outside : 0..9]
      /\ \A k \in Uploads \cup {"detach"} : k \in (Kinds \ RowKinds) \ {"test"}
  BY KindsAre DEF ContentTypes
<1>2. Acts => left'.files = left.files /\ left'.outside = left.outside
  BY SpendsShape DEF Acts
<1>3. left' = left => left'.files <= left.files /\ left'.outside <= left.outside
  BY <1>1
<1>4. CASE RowSteps
  BY <1>1, <1>2, <1>3, <1>4, RowsFrame
<1>5. CASE PageSteps
  BY <1>1, <1>2, <1>5, PageFrame
<1>6. CASE TestSteps
  BY <1>1, <1>2, <1>3, <1>6, TestFrame
<1>7. CASE Visits
  BY <1>1, <1>7, VisitsShape
<1>8. CASE RowFetchReads \/ RowFetchDone \/ FilesFetchReads \/ FilesFetchDone
  BY <1>3, <1>8, FetchFrame
<1>9. CASE RunTurns
  <2>1. left'.files = left.files /\ left'.outside <= left.outside
    BY <1>1, <1>9, TurnShape, SpendsShape
  <2>2. QED
    BY <1>1, <1>9, <2>1, TurnShape
<1>10. CASE UNCHANGED vars
  BY <1>3, <1>10 DEF vars
<1>11. QED
  BY <1>4, <1>5, <1>6, <1>7, <1>8, <1>9, <1>10, StepKinds

\* The steps about files, one by one.
LEMMA FileCases ==
  ASSUME ContentTypes, FileTypes, FileSteps
  PROVE  \/ \E k \in {"attach", "detach", "elsewhere"} :
              /\ req[k].at \in {"idle", "done", "refused"} /\ req'[k].at \in {"idle", "sent"}
              /\ \A j \in (Uploads \cup {"detach"}) \ {k} : req'[j] = req[j]
              /\ \/ req'[k].at = "idle" /\ left' = left
                 \/ k = "attach" /\ req'[k].id = 20 - left.files /\ Spends("files")
                 \/ k = "elsewhere" /\ req'[k].id = left.outside /\ Spends("outside")
                 \/ k = "detach" /\ Spends("files")
              /\ UNCHANGED <<disk, atts>> /\ (seen'.racing <=> seen.racing)
         \/ \E k \in Uploads : UploadChecks(k) \/ UploadStores(k) \/ UploadRecords(k)
         \/ DeleteFinds \/ DeleteRemoves \/ DeleteRecords
<1>1. Uploads \cup {"detach"} = {"attach", "detach", "elsewhere"}
      /\ \A j \in Uploads \cup {"detach"} : j \in Kinds
  BY KindsAre
<1>2. CASE Attaches \/ Detaches \/ AttachesElsewhere
  <2>1. PICK k \in {"attach", "detach", "elsewhere"} :
           /\ req[k].at = "idle" /\ req'[k].at = "sent"
           /\ k = "attach" => req'[k].id = 20 - left.files /\ Spends("files")
           /\ k = "detach" => Spends("files")
           /\ k = "elsewhere" => req'[k].id = left.outside /\ Spends("outside")
           /\ \A j \in Kinds \ {k} : req'[j] = req[j]
           /\ UNCHANGED <<disk, atts, seen.racing>>
    BY <1>2, FileClickShape
  <2>2. QED
    BY <1>1, <2>1
<1>3. ASSUME NEW k \in {"attach", "detach", "elsewhere"},
             req[k].at \in {"done", "refused"}, Ends(k), UNCHANGED <<disk, atts, left>>,
             seen'.racing <=> seen.racing
      PROVE  \E j \in {"attach", "detach", "elsewhere"} :
               /\ req[j].at \in {"idle", "done", "refused"} /\ req'[j].at = "idle"
               /\ \A i \in (Uploads \cup {"detach"}) \ {j} : req'[i] = req[i]
               /\ left' = left /\ UNCHANGED <<disk, atts>> /\ (seen'.racing <=> seen.racing)
  BY <1>1, <1>3, EndsShape
<1>4. ASSUME NEW k \in {"attach", "detach"}, FilesAnswered(k)
      PROVE  /\ req[k].at \in {"done", "refused"} /\ Ends(k) /\ UNCHANGED <<disk, atts, left>>
             /\ (seen'.racing <=> seen.racing)
  BY <1>4, FilesAnswerShape
<1>5. CASE \E k \in {"attach", "detach"} : FilesAnswered(k)
  BY <1>3, <1>4, <1>5
<1>6. CASE ElsewhereAnswered
  BY <1>3, <1>6 DEF ElsewhereAnswered, KeepServer, KeepPage, KeepCounts
<1>7. QED
  BY <1>2, <1>5, <1>6 DEF FileSteps

\* Where the files and their requests stay as they are, so does what is true of them.
LEMMA StillFiles ==
  ASSUME ContentTypes, FileTypes, IdInv, DiskInv, [Next]_vars, ~FileSteps
  PROVE  FileTypes' /\ IdInv' /\ DiskInv'
<1>1. /\ UNCHANGED <<disk, atts>> /\ (seen'.racing <=> seen.racing)
      /\ \A k \in Uploads \cup {"detach"} : UNCHANGED <<req[k].at, req[k].id, req[k].path>>
      /\ left'.files <= left.files /\ left'.outside <= left.outside
  BY FilesStill
<1>2. /\ left.files \in 0..9 /\ left.outside \in 0..9 /\ left'.files \in 0..9 /\ left'.outside \in 0..9
  BY TypesStep DEF ContentTypes
<1>3. Uploads = {"attach", "elsewhere"}
  BY KindsAre
<1>4. FileTypes'
  BY <1>1 DEF FileTypes
<1>5. UsedIds \subseteq UsedIds' /\ 11..(19 - left.files) \subseteq 11..(19 - left'.files)
      /\ (left.outside + 1)..9 \subseteq (left'.outside + 1)..9
  BY <1>1, <1>2 DEF UsedIds
<1>6. IdInv'
  <2> HIDE DEF UsedIds
  <2>1. /\ UNCHANGED <<req["attach"].at, req["attach"].id, req["elsewhere"].at, req["elsewhere"].id>>
    BY <1>1, <1>3
  <2>2. /\ \A a \in atts : a.id \in UsedIds'
        /\ \A a, b \in atts : a.id = b.id => a = b
    BY <1>5 DEF IdInv
  <2>3. /\ req'["attach"].at # "idle" => req'["attach"].id \in 11..(19 - left'.files)
        /\ req'["elsewhere"].at # "idle" => req'["elsewhere"].id \in (left'.outside + 1)..9
    BY <1>5, <2>1 DEF IdInv
  <2>4. \A k \in Uploads, a \in atts :
          req'[k].at \in Stored \cup {"sent"} => a.id # req'[k].id
    BY <1>1 DEF IdInv
  <2>5. QED
    BY <1>1, <2>2, <2>3, <2>4 DEF IdInv
<1>7. DiskInv'
  <2>1. Alive' = Alive
    BY <1>1 DEF Alive
  <2>2. {k \in Uploads : req'[k].at = "stored"} = {k \in Uploads : req[k].at = "stored"}
    BY <1>1
  <2>3. {req'[k].path : k \in {j \in Uploads : req'[j].at = "stored"}}
          = {req[k].path : k \in {j \in Uploads : req[j].at = "stored"}}
    BY <1>1, <2>2
  <2>4. UNCHANGED <<req["detach"].at, req["detach"].id, req["detach"].path>>
    BY <1>1
  <2> HIDE DEF Alive
  <2>5. QED
    BY <1>1, <2>1, <2>3, <2>4 DEF DiskInv
<1>8. QED
  BY <1>4, <1>6, <1>7

\* A request about files is made, or answered.
LEMMA AskedFiles ==
  ASSUME ContentTypes, FileTypes, IdInv, DiskInv, NEW k \in {"attach", "detach", "elsewhere"},
         req[k].at \in {"idle", "done", "refused"}, req'[k].at \in {"idle", "sent"},
         \A j \in (Uploads \cup {"detach"}) \ {k} : req'[j] = req[j],
         \/ req'[k].at = "idle" /\ left' = left
         \/ k = "attach" /\ req'[k].id = 20 - left.files /\ Spends("files")
         \/ k = "elsewhere" /\ req'[k].id = left.outside /\ Spends("outside")
         \/ k = "detach" /\ Spends("files"),
         UNCHANGED <<disk, atts>>, seen'.racing <=> seen.racing
  PROVE  FileTypes' /\ IdInv' /\ DiskInv'
<1>1. /\ left.files \in 0..9 /\ left.outside \in 0..9
      /\ Spends("files") =>
           left.files >= 1 /\ left'.files = left.files - 1 /\ left'.outside = left.outside
      /\ Spends("outside") =>
           left.outside >= 1 /\ left'.outside = left.outside - 1 /\ left'.files = left.files
  <2>1. left \in [row : 0..9, files : 0..9, outside : 0..9]
    BY DEF ContentTypes
  <2>2. QED
    BY <2>1, SpendsShape
<1>2. Uploads = {"attach", "elsewhere"}
  BY KindsAre
<1>3. FileTypes'
  BY <1>2 DEF FileTypes, Stored
<1>4. IdInv'
  <2>1. CASE req'[k].at = "idle" /\ left' = left
    BY <1>2, <2>1 DEF IdInv, UsedIds, Stored
  <2>2. CASE k = "attach" /\ req'[k].id = 20 - left.files /\ Spends("files")
    BY <1>1, <1>2, <2>2 DEF IdInv, UsedIds, Stored
  <2>3. CASE k = "elsewhere" /\ req'[k].id = left.outside /\ Spends("outside")
    BY <1>1, <1>2, <2>3 DEF IdInv, UsedIds, Stored
  <2>4. CASE k = "detach" /\ Spends("files")
    BY <1>1, <1>2, <2>4 DEF IdInv, UsedIds, Stored
  <2>5. QED
    BY <2>1, <2>2, <2>3, <2>4
<1>5. DiskInv'
  <2>1. Alive' = Alive
    BY DEF Alive
  <2>2. /\ \A j \in Uploads : (req'[j].at \in Stored => j # k /\ req'[j] = req[j])
                           /\ (req[j].at \in Stored => j # k)
    BY <1>2 DEF Stored
  <2>3. {req'[j].path : j \in {i \in Uploads : req'[i].at = "stored"}}
          = {req[j].path : j \in {i \in Uploads : req[i].at = "stored"}}
    <3>1. \A i \in Uploads : req'[i].at = "stored" <=> req[i].at = "stored"
      BY <2>2 DEF Stored
    <3>2. \A i \in Uploads : req'[i].at = "stored" => req'[i].path = req[i].path
      BY <2>2 DEF Stored
    <3>3. QED
      BY <3>1, <3>2
  <2>4. req'["detach"].at \in {"found", "removed"} =>
          req'["detach"] = req["detach"]
    BY <1>2
  <2> HIDE DEF Alive
  <2>5. QED
    BY <2>1, <2>2, <2>3, <2>4 DEF DiskInv, Stored
<1>6. QED
  BY <1>3, <1>4, <1>5

\* An upload is checked, and has a path that is free.
LEMMA ChecksFiles ==
  ASSUME ContentTypes, FileTypes, IdInv, DiskInv, NEW k \in Uploads, UploadChecks(k)
  PROVE  FileTypes' /\ IdInv' /\ DiskInv'
<1> DEFINE other == \E j \in Uploads \ {k} : req[j].at \in Stored
<1>1. /\ req[k].at = "sent" /\ req'[k].id = req[k].id
      /\ \/ Fits /\ req'[k].at = "checked" /\ req'[k].path = FreePath
         \/ req'[k].at = "refused" /\ req'[k].path = req[k].path
      /\ \A j \in Kinds \ {k} : req'[j] = req[j]
      /\ FreePath \in Nat \ {0} /\ FreePath \notin disk
      /\ seen'.racing <=> seen.racing \/ other
      /\ UNCHANGED <<disk, atts, left>>
  BY ChecksShape
<1>2. /\ \A j \in Uploads \cup {"detach"} : j # k => req'[j] = req[j]
      /\ Uploads = {"attach", "elsewhere"} /\ k # "detach"
  BY <1>1, KindsAre
<1> HIDE DEF FreePath
<1>3. FileTypes'
  BY <1>1, <1>2 DEF FileTypes, Stored
<1>4. IdInv'
  <2>1. UNCHANGED UsedIds
    BY <1>1 DEF UsedIds
  <2>2. \A j \in Uploads : req'[j].id = req[j].id
                        /\ (req'[j].at # "idle" => req[j].at # "idle")
                        /\ (req'[j].at \in Stored \cup {"sent"} => req[j].at \in Stored \cup {"sent"})
    BY <1>1, <1>2
  <2> HIDE DEF UsedIds
  <2>3. QED
    BY <1>1, <1>2, <2>1, <2>2 DEF IdInv
<1>5. DiskInv'
  <2>1. SUFFICES ASSUME ~seen'.racing
                 PROVE  DiskInv'
    BY DEF DiskInv
  <2>2. ~seen.racing /\ \A j \in Uploads \ {k} : req[j].at \notin Stored
    BY <1>1, <2>1
  <2>3. Alive' = Alive
    BY <1>1, <1>2 DEF Alive
  <2>4. /\ \A j \in Uploads : req[j].at # "stored" /\ req'[j].at # "stored"
        /\ \A j \in Uploads : req'[j].at \in Stored =>
             j = k /\ Fits /\ req'[j].path = FreePath
    BY <1>1, <1>2, <2>2 DEF Stored
  <2>5. {req'[j].path : j \in {i \in Uploads : req'[i].at = "stored"}} = {}
        /\ {req[j].path : j \in {i \in Uploads : req[i].at = "stored"}} = {}
    BY <2>4
  <2> HIDE DEF Alive
  <2>6. disk' = {a.path : a \in Alive'}
    BY <1>1, <2>2, <2>3, <2>5 DEF DiskInv
  <2>7. QED
    BY <1>1, <1>2, <2>2, <2>3, <2>4, <2>5, <2>6 DEF DiskInv, Fits
<1>6. QED
  BY <1>3, <1>4, <1>5

\* The file of an upload is written: its path was free.
LEMMA StoresFiles ==
  ASSUME ContentTypes, FileTypes, IdInv, DiskInv, NEW k \in Uploads, UploadStores(k)
  PROVE  FileTypes' /\ IdInv' /\ DiskInv'
<1>1. /\ req[k].at = "checked" /\ disk' = disk \cup {req[k].path}
      /\ UNCHANGED <<atts, seen, left>> /\ Goes(k, "stored") /\ k \in Kinds
  BY KindsAre DEF UploadStores, Handles, KeepCounts
<1>2. /\ req'[k].at = "stored" /\ req'[k].id = req[k].id /\ req'[k].path = req[k].path
      /\ \A j \in Kinds \ {k} : req'[j] = req[j]
  BY <1>1, GoesShape
<1>3. /\ \A j \in Uploads \cup {"detach"} : j # k => req'[j] = req[j]
      /\ Uploads = {"attach", "elsewhere"} /\ k # "detach"
  BY <1>2, KindsAre
<1>4. FileTypes'
  <2>1. req[k].path \in Nat \ {0}
    BY <1>1 DEF FileTypes, Stored, ContentTypes, ReqSet
  <2>2. disk' \subseteq Nat \ {0} /\ IsFiniteSet(disk')
    BY <1>1, <2>1, FS_AddElement DEF FileTypes
  <2>3. QED
    BY <1>1, <1>2, <1>3, <2>1, <2>2 DEF FileTypes
<1>5. IdInv'
  BY <1>1, <1>2, <1>3 DEF IdInv, UsedIds, Stored
<1>6. DiskInv'
  <2>1. SUFFICES ASSUME ~seen.racing
                 PROVE  DiskInv'
    BY <1>1 DEF DiskInv
  <2>2. /\ \A j \in Uploads \ {k} : req[j].at \notin Stored
        /\ req[k].path \notin disk /\ Cardinality(atts) < MaxFiles
    BY <1>1, <2>1 DEF DiskInv, Stored
  <2>3. Alive' = Alive
    BY <1>1, <1>3 DEF Alive
  <2>4. /\ {j \in Uploads : req[j].at = "stored"} = {}
        /\ {j \in Uploads : req'[j].at = "stored"} = {k}
    BY <1>1, <1>2, <1>3, <2>2 DEF Stored
  <2> HIDE DEF Alive
  <2>5. disk = {a.path : a \in Alive}
    BY <2>1, <2>4 DEF DiskInv
  <2>6. {req'[j].path : j \in {i \in Uploads : req'[i].at = "stored"}} = {req[k].path}
    BY <1>2, <2>4
  <2>7. \A a \in Alive : a.path # req[k].path
    BY <2>2, <2>5
  <2>8. disk' = {a.path : a \in Alive'}
                  \cup {req'[j].path : j \in {i \in Uploads : req'[i].at = "stored"}}
    BY <1>1, <2>3, <2>5, <2>6
  <2>9. \A j \in Uploads : req'[j].at \in Stored => j = k
    BY <1>3, <2>2
  <2>10. \A a, b \in Alive' : a.path = b.path => a = b
    BY <2>1, <2>3 DEF DiskInv
  <2>11. req'["detach"].at \in {"found", "removed"} =>
           \E a \in atts' : a.id = req'["detach"].id /\ a.path = req'["detach"].path
    <3>1. req'["detach"] = req["detach"]
      BY <1>3
    <3>2. QED
      BY <1>1, <2>1, <3>1 DEF DiskInv
  <2>12. Cardinality(atts') < MaxFiles /\ Cardinality(atts') <= MaxFiles
    <3>1. Cardinality(atts) \in Nat
      BY FS_CardinalityType DEF FileTypes
    <3>2. QED
      BY <1>1, <2>2, <3>1, BoundsAssumption
  <2>13. \A a \in Alive' : a.path # req'[k].path
    BY <1>2, <2>3, <2>7
  <2>14. QED
    BY <1>2, <2>8, <2>9, <2>10, <2>11, <2>12, <2>13 DEF DiskInv, Stored
<1>7. QED
  BY <1>4, <1>5, <1>6

\* The row of an upload is inserted: no other has its id, and none its path.
LEMMA RecordsFiles ==
  ASSUME ContentTypes, FileTypes, IdInv, DiskInv, NEW k \in Uploads, UploadRecords(k)
  PROVE  FileTypes' /\ IdInv' /\ DiskInv'
<1> DEFINE new == [id |-> req[k].id, path |-> req[k].path]
<1>1. /\ req[k].at = "stored" /\ atts' = atts \cup {new}
      /\ UNCHANGED <<disk, seen, left>> /\ Goes(k, "done") /\ k \in Kinds
  BY KindsAre DEF UploadRecords, Handles, KeepCounts
<1>2. /\ req'[k].at = "done" /\ req'[k].id = req[k].id /\ req'[k].path = req[k].path
      /\ \A j \in Kinds \ {k} : req'[j] = req[j]
  BY <1>1, GoesShape
<1>3. /\ \A j \in Uploads \cup {"detach"} : j # k => req'[j] = req[j]
      /\ Uploads = {"attach", "elsewhere"} /\ k # "detach"
  BY <1>2, KindsAre
<1>4. new \in [id : Nat, path : Nat \ {0}] /\ new.id = req[k].id /\ new.path = req[k].path
  BY <1>1 DEF FileTypes, Stored, ContentTypes, ReqSet
<1>5. left.files \in 0..9 /\ left.outside \in 0..9
  BY DEF ContentTypes
<1> HIDE DEF new
<1>6. FileTypes'
  <2>1. IsFiniteSet(atts')
    BY <1>1, FS_AddElement DEF FileTypes
  <2>2. QED
    BY <1>1, <1>2, <1>3, <1>4, <2>1 DEF FileTypes, Stored
<1>7. \A a \in atts : a.id # req[k].id
  BY <1>1 DEF IdInv, Stored
<1>8. IdInv'
  <2>1. req[k].id \in UsedIds
    BY <1>1, <1>3 DEF IdInv, UsedIds
  <2>2. \A j \in Uploads : j # k /\ req[j].at # "idle" => req[j].id # req[k].id
    BY <1>1, <1>3, <1>5 DEF IdInv
  <2>3. UNCHANGED UsedIds
    BY <1>1 DEF UsedIds
  <2> HIDE DEF UsedIds
  <2>4. /\ \A a \in atts' : a.id \in UsedIds'
        /\ \A a, b \in atts' : a.id = b.id => a = b
    BY <1>1, <1>4, <1>7, <2>1, <2>3 DEF IdInv
  <2>5. /\ req'["attach"].at # "idle" => req'["attach"].id \in 11..(19 - left'.files)
        /\ req'["elsewhere"].at # "idle" => req'["elsewhere"].id \in (left'.outside + 1)..9
    BY <1>1, <1>2, <1>3 DEF IdInv
  <2>6. ASSUME NEW j \in Uploads, NEW a \in atts', req'[j].at \in Stored \cup {"sent"}
        PROVE  a.id # req'[j].id
    <3>1. j # k /\ req'[j] = req[j]
      BY <1>2, <1>3, <2>6 DEF Stored
    <3>2. req[j].at # "idle" /\ req[j].at \in Stored \cup {"sent"}
      BY <2>6, <3>1 DEF Stored
    <3>3. CASE a \in atts
      BY <3>1, <3>2, <3>3 DEF IdInv
    <3>4. CASE a = new
      BY <1>4, <2>2, <3>1, <3>2, <3>4
    <3>5. QED
      BY <1>1, <3>3, <3>4
  <2>7. QED
    BY <2>4, <2>5, <2>6 DEF IdInv
<1>9. DiskInv'
  <2>1. SUFFICES ASSUME ~seen.racing
                 PROVE  DiskInv'
    BY <1>1 DEF DiskInv
  <2>2. /\ \A j \in Uploads \ {k} : req[j].at \notin Stored
        /\ Cardinality(atts) < MaxFiles
        /\ \A a \in Alive : a.path # req[k].path
        /\ \A a, b \in Alive : a.path = b.path => a = b
    BY <1>1, <2>1 DEF DiskInv, Stored
  <2>3. \A j \in Uploads : req'[j].at \notin Stored
    BY <1>2, <1>3, <2>2 DEF Stored
  <2>4. {j \in Uploads : req[j].at = "stored"} = {k}
    BY <1>1, <2>2 DEF Stored
  <2>5. {req[j].path : j \in {i \in Uploads : req[i].at = "stored"}} = {req[k].path}
    BY <2>4
  <2>6. disk = {a.path : a \in Alive} \cup {req[k].path}
    BY <2>1, <2>5 DEF DiskInv
  <2>7. Alive' = Alive \cup {new}
    <3>1. req["detach"].at = "removed" => req["detach"].id # req[k].id
      BY <1>7, <2>1 DEF DiskInv
    <3>2. QED
      BY <1>1, <1>3, <1>4, <3>1 DEF Alive
  <2>8. Cardinality(atts') <= MaxFiles
    <3>1. Cardinality(atts) \in Nat /\ Cardinality(atts') <= Cardinality(atts) + 1
      <4>1. IsFiniteSet(atts) /\ Cardinality(atts) \in Nat
        BY FS_CardinalityType DEF FileTypes
      <4>2. Cardinality(atts \cup {new}) \in {Cardinality(atts), Cardinality(atts) + 1}
        BY <4>1, FS_AddElement
      <4>3. QED
        BY <1>1, <4>1, <4>2
    <3>2. Cardinality(atts') \in Nat
      BY <1>1, FS_AddElement, FS_CardinalityType DEF FileTypes
    <3>3. QED
      BY <2>2, <3>1, <3>2, BoundsAssumption
  <2> HIDE DEF Alive
  <2>9. disk' = {a.path : a \in Alive'}
    BY <1>1, <1>4, <2>6, <2>7
  <2>10. {req'[j].path : j \in {i \in Uploads : req'[i].at = "stored"}} = {}
    BY <2>3 DEF Stored
  <2>11. \A a, b \in Alive' : a.path = b.path => a = b
    BY <1>4, <2>2, <2>7
  <2>12. req'["detach"].at \in {"found", "removed"} =>
           \E a \in atts' : a.id = req'["detach"].id /\ a.path = req'["detach"].path
    <3>1. req'["detach"] = req["detach"]
      BY <1>3
    <3>2. QED
      BY <1>1, <2>1, <3>1 DEF DiskInv
  <2>13. QED
    BY <2>3, <2>8, <2>9, <2>10, <2>11, <2>12 DEF DiskInv, Stored
<1>10. QED
  BY <1>6, <1>8, <1>9

\* A deletion finds its attachment.
LEMMA FindsFiles ==
  ASSUME ContentTypes, FileTypes, IdInv, DiskInv, DeleteFinds
  PROVE  FileTypes' /\ IdInv' /\ DiskInv'
<1>1. /\ req["detach"].at = "sent" /\ req'["detach"].id = req["detach"].id
      /\ \/ /\ req'["detach"].at = "found"
            /\ \E a \in atts : a.id = req["detach"].id /\ req'["detach"].path = a.path
         \/ req'["detach"].at = "refused"
      /\ \A j \in Uploads : req'[j] = req[j]
      /\ UNCHANGED <<disk, atts, left, seen>>
  BY FindsShape, KindsAre
<1>2. FileTypes'
  BY <1>1 DEF FileTypes
<1>3. IdInv'
  BY <1>1, KindsAre DEF IdInv, UsedIds
<1>4. DiskInv'
  <2>1. Alive' = Alive
    BY <1>1 DEF Alive
  <2>2. {req'[j].path : j \in {i \in Uploads : req'[i].at = "stored"}}
          = {req[j].path : j \in {i \in Uploads : req[i].at = "stored"}}
    BY <1>1
  <2>3. req'["detach"].at \in {"found", "removed"} =>
           \E a \in atts' : a.id = req'["detach"].id /\ a.path = req'["detach"].path
    BY <1>1
  <2> HIDE DEF Alive
  <2>4. QED
    BY <1>1, <2>1, <2>2, <2>3 DEF DiskInv
<1>5. QED
  BY <1>2, <1>3, <1>4

\* The file of an attachment is removed: no other attachment has it.
LEMMA RemovesFiles ==
  ASSUME ContentTypes, FileTypes, IdInv, DiskInv, DeleteRemoves
  PROVE  FileTypes' /\ IdInv' /\ DiskInv'
<1> DEFINE path == req["detach"].path
<1>1. /\ req["detach"].at = "found" /\ disk' = disk \ {path}
      /\ UNCHANGED <<atts, left, seen>> /\ Goes("detach", "removed") /\ "detach" \in Kinds
  BY KindsAre DEF DeleteRemoves, Handles, KeepCounts
<1>2. /\ req'["detach"].at = "removed" /\ req'["detach"].id = req["detach"].id
      /\ req'["detach"].path = path
      /\ \A j \in Uploads : req'[j] = req[j]
  BY <1>1, GoesShape, KindsAre
<1>3. FileTypes'
  <2>1. IsFiniteSet(disk')
    BY <1>1, FS_RemoveElement DEF FileTypes
  <2>2. QED
    BY <1>1, <1>2, <2>1 DEF FileTypes
<1>4. IdInv'
  BY <1>1, <1>2, KindsAre DEF IdInv, UsedIds
<1>5. DiskInv'
  <2>1. SUFFICES ASSUME ~seen.racing
                 PROVE  DiskInv'
    BY <1>1 DEF DiskInv
  <2> DEFINE stored == {req[j].path : j \in {i \in Uploads : req[i].at = "stored"}}
  <2>2. PICK a \in atts : a.id = req["detach"].id /\ a.path = path
    BY <1>1, <2>1 DEF DiskInv
  <2>3. Alive = atts /\ Alive' = Alive \ {a}
    BY <1>1, <1>2, <2>2 DEF Alive, IdInv
  <2> HIDE DEF Alive
  <2>4. /\ \A b \in Alive : b.path = path => b = a
        /\ disk = {b.path : b \in Alive} \cup stored
        /\ \A k \in Uploads : req[k].at = "stored" => req[k].path # path
    BY <2>1, <2>2, <2>3 DEF DiskInv
  <2>5. path \notin stored
    BY <2>4
  <2>6. stored' = stored
    BY <1>2
  <2>7. {b.path : b \in Alive'} = {b.path : b \in Alive} \ {path}
    BY <2>2, <2>3, <2>4
  <2> HIDE DEF stored, path
  <2>8. disk' = {b.path : b \in Alive'} \cup stored'
    BY <1>1, <2>4, <2>5, <2>6, <2>7
  <2>9. /\ \A b, d \in Alive' : b.path = d.path => b = d
        /\ \A k \in Uploads : req[k].at = "stored" => \A b \in Alive' : b.path # req[k].path
        /\ \A k \in Uploads : req[k].at = "checked" => req[k].path \notin disk'
    BY <1>1, <2>1, <2>3 DEF DiskInv
  <2>10. req'["detach"].at \in {"found", "removed"} =>
           \E b \in atts' : b.id = req'["detach"].id /\ b.path = req'["detach"].path
    BY <1>1, <1>2, <2>2
  <2>11. QED
    BY <1>1, <1>2, <2>1, <2>8, <2>9, <2>10 DEF DiskInv, stored
<1>6. QED
  BY <1>3, <1>4, <1>5

\* The row of an attachment is deleted, its file gone before.
LEMMA DeletesFiles ==
  ASSUME ContentTypes, FileTypes, IdInv, DiskInv, DeleteRecords
  PROVE  FileTypes' /\ IdInv' /\ DiskInv'
<1>1. /\ req["detach"].at = "removed" /\ atts' = {a \in atts : a.id # req["detach"].id}
      /\ UNCHANGED <<disk, left, seen>> /\ Goes("detach", "done") /\ "detach" \in Kinds
  BY KindsAre DEF DeleteRecords, Handles, KeepCounts
<1>2. /\ req'["detach"].at = "done" /\ req'["detach"].id = req["detach"].id
      /\ \A j \in Uploads : req'[j] = req[j]
  BY <1>1, GoesShape, KindsAre
<1>3. /\ IsFiniteSet(atts) /\ IsFiniteSet(atts') /\ Cardinality(atts') <= Cardinality(atts)
      /\ Cardinality(atts) \in Nat /\ Cardinality(atts') \in Nat
  BY <1>1, FS_Subset, FS_CardinalityType DEF FileTypes
<1>4. FileTypes'
  BY <1>1, <1>2, <1>3 DEF FileTypes
<1>5. IdInv'
  BY <1>1, <1>2, KindsAre DEF IdInv, UsedIds
<1>6. DiskInv'
  <2>1. SUFFICES ASSUME ~seen.racing
                 PROVE  DiskInv'
    BY <1>1 DEF DiskInv
  <2>2. Alive' = Alive
    BY <1>1, <1>2 DEF Alive
  <2>3. {req'[j].path : j \in {i \in Uploads : req'[i].at = "stored"}}
          = {req[j].path : j \in {i \in Uploads : req[i].at = "stored"}}
    BY <1>2
  <2>4. /\ Cardinality(atts') <= MaxFiles
        /\ \A k \in Uploads : req[k].at \in Stored => Cardinality(atts') < MaxFiles
    BY <1>3, <2>1, BoundsAssumption DEF DiskInv
  <2> HIDE DEF Alive
  <2>5. QED
    BY <1>1, <1>2, <2>1, <2>2, <2>3, <2>4 DEF DiskInv
<1>7. QED
  BY <1>4, <1>5, <1>6

\* Every step keeps what is true of the files.
LEMMA FilesStep ==
  ASSUME ContentTypes, FileTypes, IdInv, DiskInv, [Next]_vars
  PROVE  FileTypes' /\ IdInv' /\ DiskInv'
<1>1. CASE FileSteps
  BY <1>1, FileCases, AskedFiles, ChecksFiles, StoresFiles, RecordsFiles, FindsFiles,
     RemovesFiles, DeletesFiles
<1>2. QED
  BY <1>1, StillFiles

\* The list that the page has lacks only what an answer still to come is about.
LEMMA ListStep ==
  ASSUME ContentTypes, FileTypes, IdInv, ListInv, [Next]_vars
  PROVE  ListInv'
<1>1. /\ attq \in [data : SUBSET Nat, known : BOOLEAN, fetch : Fetching, reply : SUBSET Nat]
      /\ route \in {"compose", "info"} /\ {"attach", "detach"} \subseteq Kinds
      /\ Uploads = {"attach", "elsewhere"}
  BY KindsAre DEF ContentTypes
<1>2. ASSUME UNCHANGED <<attq, route>>, seen'.joined <=> seen.joined,
             \A i : (\E a \in atts : a.id = i) => (\E a \in atts' : a.id = i) \/ DoneWith("detach", i)',
             \A a \in atts' : a \in atts \/ (a.id >= 10 => DoneWith("attach", a.id)'),
             \A i : /\ DoneWith("detach", i) => DoneWith("detach", i)'
                    /\ DoneWith("attach", i) => DoneWith("attach", i)'
      PROVE  ListInv'
  <2>1. ShownIds' = ShownIds
    BY <1>2 DEF ShownIds
  <2> HIDE DEF ShownIds, DoneWith
  <2>2. QED
    BY <1>2, <2>1 DEF ListInv
<1>3. ASSUME UNCHANGED <<attq, route, atts>>, seen'.joined <=> seen.joined,
             \A k \in {"attach", "detach"} : UNCHANGED <<req[k].at, req[k].id>>
      PROVE  ListInv'
  BY <1>2, <1>3 DEF DoneWith
<1>4. CASE FileSteps
  <2>1. CASE Attaches \/ Detaches \/ AttachesElsewhere
    <3>1. PICK k \in {"attach", "detach", "elsewhere"} :
             /\ req[k].at = "idle" /\ \A j \in Kinds \ {k} : req'[j] = req[j]
             /\ UNCHANGED <<atts, attq, route, seen.joined>>
      BY <2>1, FileClickShape
    <3>2. \A i : /\ DoneWith("detach", i) => DoneWith("detach", i)'
                 /\ DoneWith("attach", i) => DoneWith("attach", i)'
      BY <1>1, <3>1 DEF DoneWith
    <3>3. QED
      BY <1>2, <3>1, <3>2
  <2>2. ASSUME NEW k \in Uploads, UploadChecks(k)
        PROVE  ListInv'
    <3>1. /\ req[k].at = "sent" /\ \A j \in Kinds \ {k} : req'[j] = req[j]
          /\ UNCHANGED <<atts, attq, route, seen.joined>>
      BY <2>2, ChecksShape
    <3>2. \A i : /\ DoneWith("detach", i) => DoneWith("detach", i)'
                 /\ DoneWith("attach", i) => DoneWith("attach", i)'
      BY <1>1, <3>1 DEF DoneWith
    <3>3. QED
      BY <1>2, <3>1, <3>2
  <2>3. ASSUME NEW k \in Uploads, UploadStores(k)
        PROVE  ListInv'
    <3>1. /\ req[k].at = "checked" /\ Goes(k, "stored") /\ k \in Kinds
          /\ UNCHANGED <<atts, attq, route, seen>>
      BY <2>3, KindsAre DEF UploadStores, Handles, KeepPage
    <3>2. \A j \in Kinds \ {k} : req'[j] = req[j]
      BY <3>1, GoesShape
    <3>3. \A i : /\ DoneWith("detach", i) => DoneWith("detach", i)'
                 /\ DoneWith("attach", i) => DoneWith("attach", i)'
      BY <1>1, <3>1, <3>2 DEF DoneWith
    <3>4. QED
      BY <1>2, <3>1, <3>3
  <2>4. ASSUME NEW k \in Uploads, UploadRecords(k)
        PROVE  ListInv'
    <3> DEFINE new == [id |-> req[k].id, path |-> req[k].path]
    <3>1. /\ req[k].at = "stored" /\ Goes(k, "done") /\ k \in Kinds
          /\ atts' = atts \cup {new} /\ UNCHANGED <<attq, route, seen>>
      BY <2>4, KindsAre DEF UploadRecords, Handles, KeepPage
    <3>2. /\ req'[k].at = "done" /\ req'[k].id = req[k].id
          /\ \A j \in Kinds \ {k} : req'[j] = req[j]
      BY <3>1, GoesShape
    <3>3. \A i : /\ DoneWith("detach", i) => DoneWith("detach", i)'
                 /\ DoneWith("attach", i) => DoneWith("attach", i)'
      BY <1>1, <3>1, <3>2 DEF DoneWith
    <3>4. new.id >= 10 => req'["attach"].at = "done" /\ req'["attach"].id = new.id
      <4>1. CASE k = "attach"
        BY <3>2, <4>1
      <4>2. CASE k = "elsewhere"
        <5>1. req[k].id \in (left.outside + 1)..9 /\ left.outside \in Nat
          BY <3>1, <4>2 DEF IdInv, ContentTypes
        <5>2. QED
          BY <5>1
      <4>3. QED
        BY <1>1, <4>1, <4>2
    <3> HIDE DEF new
    <3>5. /\ \A i : (\E a \in atts : a.id = i) => (\E a \in atts' : a.id = i)
          /\ \A a \in atts' : a \in atts \/ (a.id >= 10 => DoneWith("attach", a.id)')
      BY <3>1, <3>4 DEF DoneWith
    <3>6. QED
      BY <1>2, <3>1, <3>3, <3>5
  <2>5. CASE DeleteFinds
    <3>1. /\ req["detach"].at = "sent" /\ req'["attach"] = req["attach"]
          /\ UNCHANGED <<atts, attq, route, seen>>
      BY <1>1, <2>5, FindsShape
    <3>2. \A i : /\ DoneWith("detach", i) => DoneWith("detach", i)'
                 /\ DoneWith("attach", i) => DoneWith("attach", i)'
      BY <3>1 DEF DoneWith
    <3>3. QED
      BY <1>2, <3>1, <3>2
  <2>6. CASE DeleteRemoves
    <3>1. /\ req["detach"].at = "found" /\ Goes("detach", "removed")
          /\ UNCHANGED <<atts, attq, route, seen>>
      BY <2>6 DEF DeleteRemoves, Handles, KeepPage
    <3>2. req'["attach"] = req["attach"]
      BY <1>1, <3>1, GoesShape
    <3>3. \A i : /\ DoneWith("detach", i) => DoneWith("detach", i)'
                 /\ DoneWith("attach", i) => DoneWith("attach", i)'
      BY <3>1, <3>2 DEF DoneWith
    <3>4. QED
      BY <1>2, <3>1, <3>3
  <2>7. CASE DeleteRecords
    <3>1. /\ req["detach"].at = "removed" /\ Goes("detach", "done")
          /\ atts' = {a \in atts : a.id # req["detach"].id}
          /\ UNCHANGED <<attq, route, seen>>
      BY <2>7 DEF DeleteRecords, Handles, KeepPage
    <3>2. /\ req'["attach"] = req["attach"] /\ req'["detach"].at = "done"
          /\ req'["detach"].id = req["detach"].id
      BY <1>1, <3>1, GoesShape
    <3>3. \A i : (\E a \in atts : a.id = i) => (\E a \in atts' : a.id = i) \/ DoneWith("detach", i)'
      BY <3>1, <3>2 DEF DoneWith
    <3>4. \A i : /\ DoneWith("detach", i) => DoneWith("detach", i)'
                 /\ DoneWith("attach", i) => DoneWith("attach", i)'
      BY <3>1, <3>2 DEF DoneWith
    <3>5. QED
      BY <1>2, <3>1, <3>3, <3>4
  <2>8. ASSUME NEW k \in {"attach", "detach"}, FilesAnswered(k)
        PROVE  ListInv'
    <3>1. /\ req[k].at \in {"done", "refused"} /\ Ends(k)
          /\ attq' = IF req[k].at = "done" /\ route = "compose" THEN Invalidated(attq) ELSE attq
          /\ seen'.joined <=> \/ seen.joined
                              \/ req[k].at = "done" /\ route = "compose" /\ ~attq.known
          /\ UNCHANGED <<route, atts>>
      BY <2>8, FilesAnswerShape
    <3>2. k \in Kinds /\ \A j \in Kinds \ {k} : req'[j] = req[j]
      BY <1>1, <3>1, EndsShape
    <3>3. CASE req[k].at = "done" /\ route = "compose"
      <4>1. attq.known => attq'.fetch = "asked"
        BY <1>1, <3>1, <3>3, QueryShape
      <4>2. QED
        BY <3>1, <3>3, <4>1 DEF ListInv
    <3>4. CASE req[k].at = "done" /\ route # "compose"
      BY <3>1, <3>4 DEF ListInv
    <3>5. CASE req[k].at = "refused"
      <4>1. \A i : /\ DoneWith("detach", i) => DoneWith("detach", i)'
                   /\ DoneWith("attach", i) => DoneWith("attach", i)'
        BY <1>1, <3>2, <3>5 DEF DoneWith
      <4>2. UNCHANGED attq /\ (seen'.joined <=> seen.joined)
        BY <3>1, <3>5
      <4>3. QED
        BY <1>2, <3>1, <4>1, <4>2
    <3>6. QED
      BY <3>1, <3>3, <3>4, <3>5
  <2>9. CASE ElsewhereAnswered
    <3>1. \A j \in Kinds \ {"elsewhere"} : req'[j] = req[j]
      BY <2>9, EndsShape, KindsAre DEF ElsewhereAnswered
    <3>2. QED
      BY <1>1, <1>3, <2>9, <3>1 DEF ElsewhereAnswered, KeepServer, KeepPage
  <2>10. QED
    BY <1>4, <2>1, <2>2, <2>3, <2>4, <2>5, <2>6, <2>7, <2>8, <2>9 DEF FileSteps
<1>5. \A k \in {"attach", "detach"} : k \in Kinds \ RowKinds /\ k \in Kinds \ {"test"}
  BY KindsAre
<1>6. CASE RowSteps
  BY <1>3, <1>5, <1>6, RowsFrame
<1>7. CASE PageSteps
  BY <1>3, <1>7, PageFrame
<1>8. CASE TestSteps
  BY <1>3, <1>5, <1>8, TestFrame
<1>9. CASE RowFetchReads \/ RowFetchDone \/ RunTurns
  BY <1>3, <1>9, FetchFrame, TurnShape
<1>10. CASE UNCHANGED vars
  BY <1>3, <1>10 DEF vars
<1>11. CASE FilesFetchReads
  <2>1. ShownIds' = {a.id : a \in atts} /\ atts' = atts
    BY <1>1, <1>11, FetchFrame DEF ShownIds
  <2>2. QED
    BY <2>1 DEF ListInv
<1>12. CASE FilesFetchDone
  <2>1. /\ ShownIds' = ShownIds /\ UNCHANGED <<atts, req, route, seen>>
        /\ attq.fetch # "asked"
    BY <1>1, <1>12, FetchFrame DEF ShownIds
  <2>2. QED
    BY <2>1 DEF ListInv, DoneWith
<1>13. CASE Visits
  <2>1. CASE route = "compose"
    BY <1>13, <2>1, VisitsShape DEF ListInv
  <2>2. CASE route = "info"
    <3>1. /\ attq' = Asked(attq)
          /\ seen'.joined <=> seen.joined \/ attq.fetch # "none"
      BY <1>13, <2>2, VisitsShape
    <3>2. attq.fetch = "none" => attq'.fetch = "asked"
      BY <1>1, <3>1 DEF Asked
    <3>3. QED
      BY <3>1, <3>2 DEF ListInv
  <2>3. QED
    BY <1>1, <2>1, <2>2
<1>14. QED
  BY <1>4, <1>6, <1>7, <1>8, <1>9, <1>10, <1>11, <1>12, <1>13, StepKinds

-----------------------------------------------------------------------------
(* What is saved *)

\* A request that saves the row has no path, as one that is idle.
LEMMA PathStep ==
  ASSUME ContentTypes, FileTypes, [Next]_vars,
         \A k \in Kinds : req[k].at = "idle" \/ k \in RowKinds => req[k].path = 0
  PROVE  \A k \in Kinds : req'[k].at = "idle" \/ k \in RowKinds => req'[k].path = 0
<1> DEFINE Paths == \A k \in Kinds : req'[k].at = "idle" \/ k \in RowKinds => req'[k].path = 0
<1>1. \A k \in RowKinds \cup Uploads : k \in Kinds
  BY KindsAre
<1>2. ASSUME NEW k \in Kinds, \A j \in Kinds \ {k} : req'[j] = req[j],
             req'[k].at = "idle" \/ k \in RowKinds => req'[k].path \in {0, req[k].path},
             req'[k].at = "idle" => req'[k].path = 0
      PROVE  Paths
  BY <1>2
<1>3. ASSUME NEW k \in Kinds, Ends(k) PROVE Paths
  BY <1>2, <1>3, EndsShape DEF Idle
<1>4. ASSUME NEW k \in Kinds, NEW at \in {"read", "refused", "done", "view", "stored", "removed"},
             Goes(k, at)
      PROVE  Paths
  BY <1>2, <1>4, GoesShape
<1>5. ASSUME UNCHANGED req PROVE Paths
  BY <1>5
<1>6. CASE RowSteps
  <2>1. CASE RowClicks
    <3>1. PICK k \in RowKinds, body \in BodySet : Clicks(k, body, 0)
      BY <2>1, RowClickShape
    <3>2. req'[k].path = 0 /\ \A j \in Kinds \ {k} : req'[j] = req[j]
      BY <1>1, <3>1, ClicksShape
    <3>3. QED
      BY <1>1, <1>2, <3>2
  <2>2. CASE RowAnswers
    <3>1. PICK k \in RowKinds : Ends(k) \/ Goes(k, "view")
      BY <2>2, AnswerShape
    <3>2. QED
      BY <1>1, <1>3, <1>4, <3>1
  <2>3. CASE PreviewShows
    BY <1>3, <2>3, KindsAre DEF PreviewShows
  <2>4. ASSUME NEW k \in RowKinds, RowReads(k) \/ RowWrites(k)
        PROVE  Paths
    <3>1. /\ req'[k].at # "idle" /\ req'[k].path = req[k].path
          /\ \A j \in Kinds \ {k} : req'[j] = req[j]
      BY <2>4, ReadsShape, WritesShape
    <3>2. QED
      BY <1>1, <1>2, <3>1
  <2>5. QED
    BY <1>6, <2>1, <2>2, <2>3, <2>4 DEF RowSteps
<1>7. CASE FileSteps
  <2>1. CASE Attaches \/ Detaches \/ AttachesElsewhere
    <3>1. PICK k \in {"attach", "detach", "elsewhere"} :
             req'[k].path = 0 /\ \A j \in Kinds \ {k} : req'[j] = req[j]
      BY <2>1, FileClickShape
    <3>2. QED
      BY <1>2, <3>1, KindsAre
  <2>2. ASSUME NEW k \in Uploads, UploadChecks(k)
        PROVE  Paths
    <3>1. /\ req'[k].at # "idle" /\ k \notin RowKinds
          /\ \A j \in Kinds \ {k} : req'[j] = req[j]
      BY <2>2, ChecksShape, KindsAre
    <3>2. QED
      BY <1>1, <1>2, <3>1
  <2>3. ASSUME NEW k \in Uploads, UploadStores(k) \/ UploadRecords(k)
        PROVE  Paths
    BY <1>1, <1>4, <2>3 DEF UploadStores, UploadRecords
  <2>4. CASE DeleteFinds
    <3>1. /\ req'["detach"].at # "idle" /\ "detach" \in Kinds \ RowKinds
          /\ \A j \in Kinds \ {"detach"} : req'[j] = req[j]
      BY <2>4, FindsShape, KindsAre
    <3>2. QED
      BY <1>2, <3>1
  <2>5. CASE DeleteRemoves \/ DeleteRecords
    BY <1>4, <2>5, KindsAre DEF DeleteRemoves, DeleteRecords
  <2>6. CASE \E k \in {"attach", "detach"} : FilesAnswered(k)
    BY <1>3, <2>6, KindsAre DEF FilesAnswered
  <2>7. CASE ElsewhereAnswered
    BY <1>3, <2>7, KindsAre DEF ElsewhereAnswered
  <2>8. QED
    BY <1>7, <2>1, <2>2, <2>3, <2>4, <2>5, <2>6, <2>7 DEF FileSteps
<1>8. CASE TestSteps
  <2>1. CASE HandleTestSend
    <3>1. PICK id \in {0, 1} : Clicks("test", BuildPayload(page), id)
      BY <2>1 DEF HandleTestSend
    <3>2. BuildPayload(page) \in BodySet /\ "test" \in Kinds /\ id \in Nat
      BY PayloadTypes, KindsAre DEF ContentTypes
    <3>3. req'["test"].path = 0 /\ \A j \in Kinds \ {"test"} : req'[j] = req[j]
      BY <3>1, <3>2, ClicksShape
    <3>4. QED
      BY <1>2, <3>2, <3>3
  <2>2. CASE PreviewSends \/ TestAnswered
    BY <1>3, <1>4, <2>2, KindsAre DEF PreviewSends, TestAnswered
  <2>3. QED
    BY <1>8, <2>1, <2>2 DEF TestSteps
<1>9. CASE Visits
  BY <1>9, VisitsShape
<1>10. CASE PageSteps
  BY <1>5, <1>10, PageFrame
<1>11. CASE RowFetchReads \/ RowFetchDone \/ FilesFetchReads \/ FilesFetchDone \/ RunTurns
  BY <1>5, <1>11, FetchFrame, TurnShape
<1>12. CASE UNCHANGED vars
  BY <1>5, <1>12 DEF vars
<1>13. QED
  BY <1>6, <1>7, <1>8, <1>9, <1>10, <1>11, <1>12, StepKinds

\* A save of the page carries nothing of the other mode and no info, one of the info tab
\* nothing else.
LEMMA BodyStep ==
  ASSUME ContentTypes, FileTypes, BodyInv, [Next]_vars
  PROVE  BodyInv'
<1>1. /\ \A k \in RowKinds : k \in Kinds
      /\ RowKinds = {"save", "preview", "info", "upload", "reset"}
  BY KindsAre
<1>2. ASSUME \A k \in RowKinds : req'[k].body = req[k].body
      PROVE  BodyInv'
  BY <1>1, <1>2 DEF BodyInv
<1>3. Payload(NoBody) /\ NoBody = [NoBody EXCEPT !.info = NoBody.info] /\ Idle.body = NoBody
  BY DEF Payload, NoBody, Idle
<1>4. ASSUME NEW k \in RowKinds, Ends(k)
      PROVE  BodyInv'
  <2>1. req'[k].body = NoBody /\ \A j \in RowKinds \ {k} : req'[j] = req[j]
    BY <1>1, <1>3, <1>4, EndsShape
  <2>2. QED
    BY <1>1, <1>3, <2>1 DEF BodyInv
<1>5. CASE RowSteps
  <2>1. CASE RowClicks
    <3>1. PICK k \in RowKinds, body \in BodySet :
             /\ Clicks(k, body, 0)
             /\ k \in {"save", "preview"} => Payload(body)
             /\ k = "info" => body = [NoBody EXCEPT !.info = form.info]
      BY <2>1, RowClickShape
    <3>2. req'[k].body = body /\ \A j \in RowKinds \ {k} : req'[j] = req[j]
      BY <1>1, <3>1, ClicksShape
    <3>3. k = "info" => body = [NoBody EXCEPT !.info = body.info]
      BY <3>1 DEF NoBody
    <3>4. QED
      BY <1>1, <3>1, <3>2, <3>3 DEF BodyInv
  <2>2. CASE RowAnswers
    <3>1. PICK k \in RowKinds : Ends(k) \/ Goes(k, "view")
      BY <2>2, AnswerShape
    <3>2. CASE Goes(k, "view")
      <4>1. \A j \in RowKinds : req'[j].body = req[j].body
        BY <1>1, <3>2, GoesShape
      <4>2. QED
        BY <1>2, <4>1
    <3>3. QED
      BY <1>4, <3>1, <3>2
  <2>3. CASE PreviewShows
    BY <1>1, <1>4, <2>3 DEF PreviewShows
  <2>4. ASSUME NEW k \in RowKinds, RowReads(k) \/ RowWrites(k)
        PROVE  BodyInv'
    <3>1. \A j \in RowKinds : req'[j].body = req[j].body
      BY <1>1, <2>4, ReadsShape, WritesShape
    <3>2. QED
      BY <1>2, <3>1
  <2>5. QED
    BY <1>5, <2>1, <2>2, <2>3, <2>4 DEF RowSteps
<1>6. CASE FileSteps
  BY <1>2, <1>6, FilesFrame
<1>7. CASE TestSteps
  <2>1. \A k \in RowKinds : k \in Kinds \ {"test"}
    BY KindsAre
  <2>2. QED
    BY <1>2, <1>7, <2>1, TestFrame
<1>8. CASE Visits
  BY <1>1, <1>2, <1>8, VisitsShape
<1>9. CASE PageSteps
  BY <1>2, <1>9, PageFrame
<1>10. CASE RowFetchReads \/ RowFetchDone \/ FilesFetchReads \/ FilesFetchDone \/ RunTurns
  BY <1>2, <1>10, FetchFrame, TurnShape
<1>11. CASE UNCHANGED vars
  BY <1>2, <1>11 DEF vars
<1>12. QED
  BY <1>5, <1>6, <1>7, <1>8, <1>9, <1>10, <1>11, StepKinds

\* What is saved has what the user will be told, as long as the row that was read is
\* the row, and has what the user was told.
LEMMA ResultIsTold ==
  ASSUME ContentTypes, BodyInv, NEW k \in RowKinds, Result(k) \in RowSet,
         Content(req[k].row) = Content(c), Holds(c, Told)
  PROVE  Holds(Result(k), ToldBy(k))
<1> DEFINE r == req[k].row
           b == req[k].body
           T == [html : Nat, mime : Nat, ics : IcsSet, info : Nat, on : BOOLEAN]
<1>1. k \in Kinds /\ kept \in T /\ r \in RowSet /\ b \in BodySet
  BY KindsAre DEF ContentTypes, ReqSet
<1>2. Holds(r, Told)
  BY HoldsContent
<1>3. /\ kept.html \in {0, r.html} /\ kept.mime \in {0, r.mime} /\ kept.ics \in {NoIcs, r.ics}
      /\ kept.info \in {0, r.info}
  <2> HIDE DEF Told, r
  <2>1. QED
    BY <1>2, ToldShape DEF Holds
<1>4. CASE k \in {"save", "preview"}
  <2>1. Result(k) = Applied(r, b) /\ ToldBy(k) = Kept(b) /\ Payload(b)
    BY <1>4 DEF Result, Updates, ToldBy, BodyInv
  <2> HIDE DEF r, b
  <2>2. /\ Applied(r, b).html = Given(b.html, 0, r.html)
        /\ Applied(r, b).mime = Given(b.mime, 0, r.mime)
        /\ Applied(r, b).ics = Given(b.ics, NoIcs, r.ics)
        /\ Applied(r, b).on = b.on
        /\ Applied(r, b).info = r.info
    BY <1>1, <2>1, AppliedShape DEF Given, Payload
  <2> DEFINE a == Applied(r, b)
             t == Kept(b)
  <2>3. /\ t.html = IF b.type = "html" THEN b.html ELSE kept.html
        /\ t.mime = IF b.type = "html" THEN kept.mime ELSE b.mime
        /\ t.ics = IF b.type = "html" /\ b.on THEN b.ics ELSE kept.ics
        /\ t.info = kept.info /\ t.on = b.on
    BY <1>1, KeptShape
  <2> HIDE DEF a, t
  <2>4. t.html \in {0, a.html} /\ t.mime \in {0, a.mime}
    BY <1>3, <2>1, <2>2, <2>3 DEF a, Given, Payload
  <2>5. t.ics \in {NoIcs, a.ics} /\ t.info \in {0, a.info} /\ t.on = a.on
    BY <1>3, <2>1, <2>2, <2>3 DEF a, Given, Payload
  <2>6. QED
    BY <2>1, <2>4, <2>5 DEF a, t, Holds
<1>5. CASE k = "info"
  <2> DEFINE t == [kept EXCEPT !.info = b.info, !.on = FALSE]
  <2>1. Result(k) = Applied(r, b) /\ ToldBy(k) = t /\ b = [NoBody EXCEPT !.info = b.info]
    BY <1>5 DEF Result, Updates, ToldBy, BodyInv
  <2>2. b.html = 0 /\ b.mime = 0 /\ b.ics = NoIcs /\ b.on = FALSE
    BY <2>1 DEF NoBody
  <2> HIDE DEF r, b
  <2>3. /\ Applied(r, b).html = r.html /\ Applied(r, b).mime = r.mime
        /\ Applied(r, b).ics = r.ics /\ Applied(r, b).on = FALSE
        /\ Applied(r, b).info = Given(b.info, 0, r.info)
    BY <1>1, <2>2, AppliedShape DEF Given
  <2>4. b.info \in {0, Given(b.info, 0, r.info)}
    BY DEF Given
  <2>5. /\ t.html = kept.html /\ t.mime = kept.mime /\ t.ics = kept.ics
        /\ t.info = b.info /\ t.on = FALSE
    BY <1>1
  <2> HIDE DEF t
  <2>6. QED
    BY <1>3, <2>1, <2>3, <2>4, <2>5 DEF Holds
<1>6. CASE k \in {"upload", "reset"}
  <2>1. ToldBy(k) = Told
    BY <1>6 DEF ToldBy
  <2>2. Content(Result(k)) = Content(r)
    BY <1>1, <1>6 DEF Result, Updates, Content, RowSet
  <2> HIDE DEF Told, ToldBy
  <2>3. QED
    BY <1>2, <2>1, <2>2, HoldsContent
<1>7. QED
  BY <1>4, <1>5, <1>6, KindsAre

\* Where the row's content, what was told, and the requests that save it stay, so
\* does what they say of one another.
LEMMA SavedKept ==
  ASSUME SavedInv, Content(c') = Content(c), UNCHANGED kept, seen'.cut <=> seen.cut,
         ~seen'.overlap => ~seen.overlap,
         \A k \in RowKinds : UNCHANGED <<req[k].at, req[k].body, req[k].row>>
  PROVE  SavedInv'
<1>1. Told' = Told
  <2>1. (kept'.on /\ ~seen'.cut) = (kept.on /\ ~seen.cut)
    OBVIOUS
  <2>2. Told' = [kept EXCEPT !.on = kept'.on /\ ~seen'.cut]
    BY DEF Told
  <2>3. QED
    BY <2>1, <2>2 DEF Told
<1>2. RowKinds = {"save", "preview", "info", "upload", "reset"}
  BY KindsAre
<1>3. \A k \in RowKinds : ToldBy(k)' = ToldBy(k)
  <2>1. ASSUME NEW k \in RowKinds PROVE ToldBy(k)' = ToldBy(k)
    BY <1>1, <1>2, <2>1 DEF ToldBy, Kept
  <2>2. QED
    BY <2>1
<1>4. c'.html = c.html
  BY DEF Content
<1> HIDE DEF Told, ToldBy
<1>5. \A told : Holds(c, told) => Holds(c', told)
  BY HoldsContent
<1>6. QED
  BY <1>1, <1>2, <1>3, <1>4, <1>5 DEF SavedInv

\* A request that saves the row takes a step, and is alone unless two have overlapped.
LEMMA SavedRows ==
  ASSUME ContentTypes, FileTypes, BodyInv, SavedInv, RowSteps
  PROVE  SavedInv'
<1>1. /\ \A k \in RowKinds : k \in Kinds
      /\ RowKinds = {"save", "preview", "info", "upload", "reset"}
  BY KindsAre
<1>2. Idle.at = "idle"
  BY DEF Idle
<1>3. ASSUME UNCHANGED <<kept, seen.cut>>
      PROVE  Told' = Told
  BY <1>3 DEF Told
<1>4. CASE RowClicks
  <2>1. PICK k \in RowKinds, body \in BodySet : Clicks(k, body, 0)
    BY <1>4, RowClickShape
  <2>2. /\ req[k].at = "idle" /\ req'[k].at = "sent"
        /\ \A j \in RowKinds \ {k} : req'[j] = req[j]
        /\ seen'.overlap <=> seen.overlap \/ \E j \in RowKinds : req[j].at # "idle"
        /\ UNCHANGED <<c, kept, seen.cut>>
    BY <1>1, <2>1, ClicksShape
  <2>3. SUFFICES ASSUME ~seen'.overlap PROVE SavedInv'
    BY DEF SavedInv
  <2>4. ~seen.overlap /\ \A j \in RowKinds : req[j].at = "idle"
    BY <2>2, <2>3
  <2>5. /\ req'[k].at = "sent" /\ \A j \in RowKinds \ {k} : req'[j].at = "idle"
    BY <2>2, <2>4
  <2>6. Holds(c, Told) /\ Told' = Told
    BY <1>3, <2>2, <2>4 DEF SavedInv
  <2> HIDE DEF Told
  <2>7. QED
    BY <1>1, <2>2, <2>5, <2>6 DEF SavedInv
<1>5. ASSUME NEW k \in RowKinds, RowReads(k)
      PROVE  SavedInv'
  <2>1. /\ req[k].at = "sent" /\ req'[k].at \in {"read", "refused"} /\ req'[k].row = c
        /\ \A j \in RowKinds \ {k} : req'[j] = req[j]
        /\ UNCHANGED <<c, kept, seen>>
    BY <1>1, <1>5, ReadsShape
  <2>2. SUFFICES ASSUME ~seen.overlap PROVE SavedInv'
    BY <2>1 DEF SavedInv
  <2>3. \A j \in RowKinds \ {k} : req[j].at = "idle" /\ req'[j].at = "idle"
    BY <2>1, <2>2 DEF SavedInv
  <2>4. Holds(c, Told) /\ Told' = Told
    BY <1>3, <2>1, <2>2, <2>3 DEF SavedInv
  <2> HIDE DEF Told
  <2>5. QED
    BY <1>1, <2>1, <2>3, <2>4 DEF SavedInv
<1>6. ASSUME NEW k \in RowKinds, RowWrites(k)
      PROVE  SavedInv'
  <2>1. /\ req[k].at = "read" /\ req'[k].at = "done" /\ req'[k].body = req[k].body
        /\ \A j \in RowKinds \ {k} : req'[j] = req[j]
        /\ Content(c') = Content(Result(k)) /\ Result(k) \in RowSet
        /\ UNCHANGED <<kept, seen>>
    BY <1>1, <1>6, WritesShape
  <2>2. SUFFICES ASSUME ~seen.overlap PROVE SavedInv'
    BY <2>1 DEF SavedInv
  <2>3. \A j \in RowKinds \ {k} : req[j].at = "idle" /\ req'[j].at = "idle"
    BY <2>1, <2>2 DEF SavedInv
  <2>4. Holds(c, Told) /\ Content(req[k].row) = Content(c)
    BY <2>1, <2>2, <2>3 DEF SavedInv
  <2>5. Holds(c', ToldBy(k))
    <3>1. Holds(Result(k), ToldBy(k))
      BY <2>1, <2>4, ResultIsTold
    <3> HIDE DEF ToldBy
    <3>2. QED
      BY <2>1, <3>1, HoldsContent
  <2>6. ToldBy(k)' = ToldBy(k)
    <3>1. Told' = Told
      BY <1>3, <2>1
    <3>2. QED
      BY <1>1, <2>1, <3>1 DEF ToldBy, Kept
  <2>7. k = "preview" /\ req[k].body.html # 0 => c'.html = req[k].body.html
    <3>1. ASSUME k = "preview", req[k].body.html # 0
          PROVE  c'.html = req[k].body.html
      <4>1. req[k].row \in RowSet /\ req[k].body \in BodySet
        BY <1>1 DEF ContentTypes, ReqSet
      <4>2. Result(k).html = req[k].body.html
        BY <3>1, <4>1, AppliedShape DEF Result, Updates, Given
      <4>3. QED
        BY <2>1, <4>2 DEF Content
    <3>2. QED
      BY <3>1
  <2> HIDE DEF Told, ToldBy
  <2>8. QED
    BY <1>1, <2>1, <2>3, <2>5, <2>6, <2>7 DEF SavedInv
<1>7. CASE RowAnswers
  <2>1. PICK k \in RowKinds : Answers(k)
    BY <1>7, AnswerShape
  <2>2. UNCHANGED <<c, seen.overlap>>
    BY <1>7, AnswerShape
  <2>3. SUFFICES ASSUME ~seen.overlap PROVE SavedInv'
    BY <2>2 DEF SavedInv
  <2>4. /\ req[k].at \in {"done", "refused"}
        /\ req'[k].at = IF k = "preview" /\ req[k].at = "done" THEN "view" ELSE "idle"
        /\ req'[k].at = "view" => req'[k].body = req[k].body
        /\ Told' = IF req[k].at = "done" THEN ToldBy(k) ELSE Told
        /\ \A j \in RowKinds \ {k} : req'[j] = req[j]
    BY <1>1, <2>1 DEF Answers
  <2> HIDE DEF Told, ToldBy
  <2>5. \A j \in RowKinds \ {k} : req[j].at = "idle" /\ req'[j].at = "idle"
    BY <2>3, <2>4 DEF SavedInv
  <2>6. Holds(c, Told')
    BY <2>3, <2>4, <2>5 DEF SavedInv
  <2>7. req'[k].at = "view" /\ req'[k].body.html # 0 => c.html = req'[k].body.html
    BY <2>3, <2>4 DEF SavedInv
  <2>8. req'[k].at \in {"idle", "view"} /\ (k # "preview" => req'[k].at = "idle")
    BY <2>4
  <2>9. QED
    BY <1>1, <2>2, <2>5, <2>6, <2>7, <2>8 DEF SavedInv
<1>8. CASE PreviewShows
  <2>1. /\ req["preview"].at = "view" /\ Ends("preview") /\ UNCHANGED <<c, kept, seen>>
    BY <1>8 DEF PreviewShows, KeepServer
  <2>2. /\ req'["preview"].at = "idle" /\ \A j \in RowKinds \ {"preview"} : req'[j] = req[j]
    BY <1>1, <2>1, EndsShape
  <2>3. SUFFICES ASSUME ~seen.overlap PROVE SavedInv'
    BY <2>1 DEF SavedInv
  <2>4. \A j \in RowKinds \ {"preview"} : req[j].at = "idle" /\ req'[j].at = "idle"
    BY <1>1, <2>1, <2>2, <2>3 DEF SavedInv
  <2>5. Holds(c, Told) /\ Told' = Told
    BY <1>3, <2>1, <2>3, <2>4 DEF SavedInv
  <2> HIDE DEF Told
  <2>6. QED
    BY <1>1, <2>1, <2>2, <2>4, <2>5 DEF SavedInv
<1>9. QED
  BY <1>4, <1>5, <1>6, <1>7, <1>8 DEF RowSteps

\* Every step keeps what is true of the saved content.
LEMMA SavedStep ==
  ASSUME ContentTypes, FileTypes, BodyInv, SavedInv, [Next]_vars
  PROVE  SavedInv'
<1>1. \A k \in RowKinds : k \in Kinds /\ k \in Kinds \ {"test"}
  BY KindsAre
<1>2. CASE FileSteps
  BY <1>2, SavedKept, FilesFrame
<1>3. CASE TestSteps
  BY <1>1, <1>3, SavedKept, TestFrame
<1>4. CASE PageSteps
  BY <1>4, SavedKept, PageFrame
<1>5. CASE Visits
  BY <1>1, <1>5, SavedKept, VisitsShape
<1>6. CASE RowFetchReads \/ RowFetchDone \/ FilesFetchReads \/ FilesFetchDone
  BY <1>6, SavedKept, FetchFrame
<1>7. CASE RunTurns
  BY <1>7, SavedKept, TurnShape
<1>8. CASE UNCHANGED vars
  BY <1>8, SavedKept DEF vars
<1>9. QED
  BY <1>2, <1>3, <1>4, <1>5, <1>6, <1>7, <1>8, StepKinds, SavedRows

\* The preview that is shown is of the body that was saved for it.
LEMMA PreviewStep ==
  ASSUME ContentTypes, FileTypes, SavedInv, PreviewIsOfPage, [Next]_vars
  PROVE  PreviewIsOfPage'
<1>1. /\ page \in PageSet /\ query \in [data : RowSet, known : {TRUE}, fetch : Fetching, reply : RowSet]
      /\ route \in {"compose", "info"}
  BY DEF ContentTypes
<1>2. ASSUME page'.preview = page.preview, ~seen'.overlap => ~seen.overlap
      PROVE  PreviewIsOfPage'
  BY <1>2 DEF PreviewIsOfPage
<1>3. CASE RowSteps
  <2>1. CASE RowClicks
    <3>1. PICK k \in RowKinds, body \in BodySet :
             /\ Clicks(k, body, 0)
             /\ page' \in {page, Sent(page), [Sent(page) EXCEPT !.saving = TRUE]}
      BY <2>1, RowClickShape, KindsAre
    <3>2. page'.preview = page.preview
      BY <1>1, <3>1, SentShape
    <3>3. ~seen'.overlap => ~seen.overlap
      BY <3>1, KindsAre, ClicksShape
    <3>4. QED
      BY <1>2, <3>2, <3>3
  <2>2. CASE RowAnswers
    <3>1. PICK k \in RowKinds : Answers(k)
      BY <2>2, AnswerShape
    <3>2. page'.preview = page.preview
      BY <1>1, <3>1 DEF Answers, PageSet
    <3>3. QED
      BY <1>2, <2>2, <3>2, AnswerShape
  <2>3. CASE PreviewShows
    <3> DEFINE shown == [html |-> c.html, asked |-> req["preview"].body.html]
    <3>1. /\ req["preview"].at = "view" /\ UNCHANGED seen
          /\ page' = page \/ page' = [page EXCEPT !.preview = shown]
      BY <2>3 DEF PreviewShows
    <3>2. CASE page' = [page EXCEPT !.preview = shown]
      <4>1. page'.preview = shown
        BY <1>1, <3>2 DEF PageSet
      <4>2. shown.html = c.html /\ shown.asked = req["preview"].body.html
        OBVIOUS
      <4>3. QED
        BY <3>1, <4>1, <4>2 DEF PreviewIsOfPage, SavedInv
    <3>3. QED
      BY <1>2, <3>1, <3>2
  <2>4. ASSUME NEW k \in RowKinds, RowReads(k) \/ RowWrites(k)
        PROVE  UNCHANGED <<page, seen>>
    BY <2>4, ReadsShape, WritesShape
  <2>5. QED
    BY <1>2, <1>3, <2>1, <2>2, <2>3, <2>4 DEF RowSteps
<1>4. CASE PageSteps
  <2>1. page'.preview = page.preview
    BY <1>4, EditShape, SwitchShape DEF PageSteps, EditInfo
  <2>2. QED
    BY <1>2, <1>4, <2>1, PageFrame
<1>5. CASE FileSteps
  BY <1>2, <1>5, FilesFrame
<1>6. CASE TestSteps
  BY <1>2, <1>6, TestFrame
<1>7. CASE Visits
  <2>1. page' \in {NewPage, Loading(NewPage, query.data)}
    BY <1>1, <1>7, VisitsShape
  <2>2. page'.preview.asked = 0
    BY <1>1, <2>1, ConstantTypes, LoadingTypes
  <2>3. QED
    BY <2>2 DEF PreviewIsOfPage
<1>8. CASE RowFetchDone
  <2>1. page' \in {page, Loading(page, query.reply)} /\ UNCHANGED seen
    BY <1>8, FetchFrame
  <2>2. page'.preview = page.preview
    BY <1>1, <2>1, LoadingTypes
  <2>3. QED
    BY <1>2, <2>1, <2>2
<1>9. CASE RowFetchReads \/ FilesFetchReads \/ FilesFetchDone \/ RunTurns
  BY <1>2, <1>9, FetchFrame, TurnShape
<1>10. CASE UNCHANGED vars
  BY <1>2, <1>10 DEF vars
<1>11. QED
  BY <1>3, <1>4, <1>5, <1>6, <1>7, <1>8, <1>9, <1>10, StepKinds

-----------------------------------------------------------------------------
(* The test mail *)

\* What is sent does not depend on what else the page holds.
LEMMA SamePayload ==
  ASSUME NEW p \in PageSet, NEW saving, NEW dirty
  PROVE  LET q == [p EXCEPT !.saving = saving, !.dirty = dirty] IN
         BuildPayload(q) = BuildPayload(p) /\ q.drifts = p.drifts /\ q.unsent = p.unsent
<1> DEFINE q == [p EXCEPT !.saving = saving, !.dirty = dirty]
<1>1. /\ q.mode = p.mode /\ q.html = p.html /\ q.mime = p.mime /\ q.on = p.on /\ q.ics = p.ics
      /\ q.icsMode = p.icsMode /\ q.fields = p.fields /\ q.drifts = p.drifts /\ q.unsent = p.unsent
  BY DEF PageSet
<1> HIDE DEF q
<1>2. BuildPayload(q) = BuildPayload(p)
  BY <1>1 DEF BuildPayload
<1>3. QED
  BY <1>1, <1>2 DEF q

LEMMA SamePreviewed ==
  ASSUME NEW p \in PageSet, NEW preview
  PROVE  LET q == [p EXCEPT !.preview = preview] IN
         /\ BuildPayload(q) = BuildPayload(p) /\ q.drifts = p.drifts /\ q.unsent = p.unsent
         /\ q.dirty = p.dirty
<1> DEFINE q == [p EXCEPT !.preview = preview]
<1>1. /\ q.mode = p.mode /\ q.html = p.html /\ q.mime = p.mime /\ q.on = p.on /\ q.ics = p.ics
      /\ q.icsMode = p.icsMode /\ q.fields = p.fields /\ q.drifts = p.drifts /\ q.unsent = p.unsent
      /\ q.dirty = p.dirty
  BY DEF PageSet
<1> HIDE DEF q
<1>2. BuildPayload(q) = BuildPayload(p)
  BY <1>1 DEF BuildPayload
<1>3. QED
  BY <1>1, <1>2 DEF q

\* Where the row, the cached row and the test's request stay, and a page that is clean
\* was clean and would send the same, the mail stays right.
LEMMA MailKept ==
  ASSUME MailInv, c' = c, query'.data = query.data, seen'.mailed = seen.mailed,
         seen'.meant = seen.meant,
         /\ req'["test"].at = req["test"].at /\ req'["test"].id = req["test"].id
         /\ req'["test"].row = req["test"].row /\ req'["test"].body = req["test"].body,
         route' = "compose" /\ Clean' /\ ~page'.drifts /\ page'.unsent # "busy" =>
           /\ route = "compose" /\ Clean /\ ~page.drifts /\ page.unsent # "busy"
           /\ BuildPayload(page') = BuildPayload(page)
  PROVE  MailInv'
<1>1. TestMailIsShown'
  BY DEF MailInv, TestMailIsShown
<1>2. route' = "compose" /\ Clean' /\ ~page'.drifts /\ page'.unsent # "busy"
        /\ query'.data.ver = c'.ver => Faithful'
  <2>1. SUFFICES ASSUME route' = "compose", Clean', ~page'.drifts, page'.unsent # "busy",
                        query'.data.ver = c'.ver
                 PROVE  Faithful'
    OBVIOUS
  <2>2. Faithful /\ BuildPayload(page') = BuildPayload(page)
    BY <2>1 DEF MailInv
  <2>3. QED
    BY <2>2 DEF Faithful
<1>3. /\ req'["test"].at = "sent" /\ req'["test"].id = 1 /\ req'["test"].row.ver = c'.ver
           => Mail(req'["test"].body) = Mail(c')
      /\ req'["test"].at # "idle" => req'["test"].row.ver <= c'.ver
  BY DEF MailInv
<1>4. QED
  BY <1>1, <1>2, <1>3 DEF MailInv

\* A step of a request that saves the row: what the page shows of the row stays, or
\* the row is another.
LEMMA MailRows ==
  ASSUME ContentTypes, FileTypes, VerInv, MailInv, RowSteps
  PROVE  MailInv'
<1>1. /\ page \in PageSet /\ "save" \in RowKinds /\ "preview" \in RowKinds
      /\ "test" \in Kinds \ RowKinds
      /\ \A k \in RowKinds : k \in Kinds
      /\ RowKinds = {"save", "preview", "info", "upload", "reset"}
  BY KindsAre DEF ContentTypes
<1>2. /\ req'["test"] = req["test"] /\ route' = route
      /\ seen'.mailed = seen.mailed /\ seen'.meant = seen.meant
  BY <1>1, RowsFrame
<1>3. CASE RowClicks
  <2>1. PICK k \in RowKinds, body \in BodySet :
           /\ Clicks(k, body, 0)
           /\ page' \in {page, Sent(page), [Sent(page) EXCEPT !.saving = TRUE]}
    BY <1>3, RowClickShape, KindsAre
  <2>2. /\ req[k].at = "idle" /\ req'[k].at = "sent"
        /\ \A j \in RowKinds \ {k} : req'[j] = req[j]
        /\ UNCHANGED <<c, query>>
    BY <1>1, <2>1, ClicksShape
  <2>3. /\ page'.dirty = page.dirty /\ page'.drifts = page.drifts
        /\ page'.unsent # "busy" => page.unsent # "busy"
        /\ BuildPayload(page') = BuildPayload(page)
    BY <1>1, <2>1, SentShape
  <2>4. Clean' => Clean
    BY <1>1, <2>2, <2>3 DEF Clean
  <2>5. QED
    BY <1>2, <2>2, <2>3, <2>4, MailKept
<1>4. CASE RowAnswers
  <2>1. PICK k \in RowKinds : Answers(k)
    BY <1>4, AnswerShape
  <2>2. c' = c /\ query'.data = query.data
    <3>1. query' \in {query, Invalidated(query)} /\ c' = c
      BY <1>4, <2>1, AnswerShape DEF Answers
    <3>2. QED
      BY <3>1, RowQueryShape
  <2>3. PICK saving \in BOOLEAN, dirty \in BOOLEAN :
          page' = [page EXCEPT !.saving = saving, !.dirty = dirty]
    BY <2>1 DEF Answers
  <2>4. page'.drifts = page.drifts /\ page'.unsent = page.unsent
        /\ BuildPayload(page') = BuildPayload(page)
    <3>1. LET q == [page EXCEPT !.saving = saving, !.dirty = dirty] IN
          BuildPayload(q) = BuildPayload(page) /\ q.drifts = page.drifts /\ q.unsent = page.unsent
      BY <1>1, SamePayload
    <3>2. QED
      BY <2>3, <3>1
  <2>5. Clean' => Clean
    BY <1>1, <2>1 DEF Answers, Clean
  <2>6. QED
    BY <1>2, <2>2, <2>4, <2>5, MailKept
<1>5. CASE PreviewShows
  <2>1. /\ Ends("preview") /\ UNCHANGED <<c, query>>
        /\ \E preview : page' = page \/ page' = [page EXCEPT !.preview = preview]
    BY <1>5 DEF PreviewShows, KeepServer
  <2>2. req'["save"] = req["save"]
    BY <1>1, <2>1, EndsShape
  <2>3. page'.drifts = page.drifts /\ page'.unsent = page.unsent /\ page'.dirty = page.dirty
        /\ BuildPayload(page') = BuildPayload(page)
    <3>1. PICK preview : page' = page \/ page' = [page EXCEPT !.preview = preview]
      BY <2>1
    <3>2. LET s == [page EXCEPT !.preview = preview] IN
          /\ BuildPayload(s) = BuildPayload(page) /\ s.drifts = page.drifts
          /\ s.unsent = page.unsent /\ s.dirty = page.dirty
      BY <1>1, SamePreviewed
    <3>3. QED
      BY <3>1, <3>2
  <2>4. Clean' => Clean
    BY <2>2, <2>3 DEF Clean
  <2>5. QED
    BY <1>2, <2>1, <2>3, <2>4, MailKept
<1>6. ASSUME NEW k \in RowKinds, RowReads(k)
      PROVE  MailInv'
  <2>1. /\ req[k].at = "sent" /\ req'[k].at \in {"read", "refused"}
        /\ \A j \in Kinds \ {k} : req'[j] = req[j]
        /\ UNCHANGED <<c, query, page>>
    BY <1>6, ReadsShape
  <2>2. Clean' => Clean
    BY <1>1, <2>1 DEF Clean
  <2>3. QED
    BY <1>2, <2>1, <2>2, MailKept
<1>7. ASSUME NEW k \in RowKinds, RowWrites(k)
      PROVE  MailInv'
  <2>1. c'.ver = c.ver + 1 /\ query' = query
    BY <1>7, WritesShape
  <2>2. c.ver \in Nat /\ query.data.ver \in Nat /\ req["test"].row.ver \in Nat
    BY <1>1 DEF ContentTypes, ReqSet, RowSet
  <2>3. query'.data.ver # c'.ver
    BY <2>1, <2>2 DEF VerInv
  <2>4. req'["test"].at # "idle" => req'["test"].row.ver <= c'.ver /\ req'["test"].row.ver # c'.ver
    BY <1>2, <2>1, <2>2 DEF MailInv
  <2>5. TestMailIsShown'
    BY <1>2 DEF MailInv, TestMailIsShown
  <2>6. QED
    BY <2>3, <2>4, <2>5 DEF MailInv
<1>8. QED
  BY <1>3, <1>4, <1>5, <1>6, <1>7 DEF RowSteps

\* The test mail is asked for from a page that is clean, and made from the row.
LEMMA MailTests ==
  ASSUME ContentTypes, FileTypes, VerInv, MailInv, TestSteps
  PROVE  MailInv'
<1>1. /\ "test" \in Kinds /\ "save" \in Kinds \ {"test"} /\ page \in PageSet /\ seen \in SeenSet
      /\ req["test"].row \in RowSet /\ c.ver \in Nat /\ query.data.ver \in Nat
  BY KindsAre DEF ContentTypes, ReqSet, RowSet
<1>2. UNCHANGED <<c, query, route, page>> /\ req'["save"] = req["save"]
  BY <1>1, TestFrame
<1>3. Faithful' = Faithful /\ (Clean' <=> Clean)
  BY <1>2 DEF Faithful, Clean
<1>4. CASE HandleTestSend
  <2> DEFINE id == IF page.drifts \/ page.unsent = "busy" THEN 0 ELSE 1
  <2>1. /\ Clicks("test", BuildPayload(page), id) /\ ~page.dirty /\ route = "compose"
    BY <1>4 DEF HandleTestSend, TestOffered, Composes
  <2>2. id = 1 => ~page.drifts /\ page.unsent # "busy"
    OBVIOUS
  <2>3. id \in Nat /\ BuildPayload(page) \in BodySet
    BY <1>1, PayloadTypes
  <2> HIDE DEF id
  <2>4. /\ req'["test"].at = "sent" /\ req'["test"].body = BuildPayload(page)
        /\ req'["test"].id = id /\ req'["test"].row = query.data
        /\ seen'.mailed = seen.mailed /\ seen'.meant = seen.meant
    BY <1>1, <2>1, <2>3, ClicksShape
  <2>5. id = 1 /\ query.data.ver = c.ver => Faithful
    BY <2>1, <2>2 DEF MailInv, Clean
  <2>6. query.data.ver <= c.ver
    BY DEF VerInv
  <2>7. TestMailIsShown'
    BY <2>4 DEF MailInv, TestMailIsShown
  <2>8. req'["test"].at = "sent" /\ req'["test"].id = 1 /\ req'["test"].row.ver = c'.ver
          => Mail(req'["test"].body) = Mail(c')
    BY <1>2, <2>4, <2>5 DEF Faithful
  <2>9. req'["test"].at # "idle" => req'["test"].row.ver <= c'.ver
    BY <1>2, <2>4, <2>6
  <2>10. QED
    BY <1>2, <1>3, <2>7, <2>8, <2>9 DEF MailInv
<1>5. CASE PreviewSends
  <2> DEFINE meant == IF req["test"].row.ver = c.ver /\ req["test"].id = 1
                      THEN Mail(req["test"].body) ELSE Mail(c)
  <2>1. /\ req["test"].at = "sent" /\ Goes("test", "done")
        /\ seen' = [seen EXCEPT !.mailed = Mail(c), !.meant = meant]
    BY <1>5 DEF PreviewSends
  <2>2. meant = Mail(c)
    BY <2>1 DEF MailInv
  <2> HIDE DEF meant
  <2>3. seen'.mailed = Mail(c) /\ seen'.meant = meant
    BY <1>1, <2>1 DEF SeenSet
  <2>4. req'["test"].at = "done" /\ req'["test"].row = req["test"].row
    BY <1>1, <2>1, GoesShape
  <2>5. TestMailIsShown'
    BY <2>2, <2>3 DEF TestMailIsShown
  <2>6. req'["test"].at # "idle" => req'["test"].row.ver <= c'.ver
    BY <1>2, <2>1, <2>4 DEF MailInv
  <2>7. QED
    BY <1>2, <1>3, <2>4, <2>5, <2>6 DEF MailInv
<1>6. CASE TestAnswered
  <2>1. req'["test"].at = "idle" /\ UNCHANGED seen
    BY <1>1, <1>6, EndsShape DEF TestAnswered
  <2>2. TestMailIsShown'
    BY <2>1 DEF MailInv, TestMailIsShown
  <2>3. QED
    BY <1>2, <1>3, <2>1, <2>2 DEF MailInv
<1>7. QED
  BY <1>4, <1>5, <1>6 DEF TestSteps

\* Every step keeps what is true of the test mail.
LEMMA MailStep ==
  ASSUME ContentTypes, FileTypes, VerInv, QuietInv, MailInv, [Next]_vars
  PROVE  MailInv'
<1>1. /\ page \in PageSet /\ route \in {"compose", "info"} /\ c \in RowSet
      /\ {"save", "test"} \subseteq Kinds /\ "save" \in RowKinds
      /\ query \in [data : RowSet, known : {TRUE}, fetch : Fetching, reply : RowSet]
  BY KindsAre DEF ContentTypes
<1>2. ASSUME UNCHANGED <<c, page, route>>, query'.data = query.data,
             req'["save"] = req["save"], req'["test"] = req["test"],
             seen'.mailed = seen.mailed, seen'.meant = seen.meant
      PROVE  MailInv'
  <2>1. Clean' => Clean
    BY <1>2 DEF Clean
  <2>2. QED
    BY <1>2, <2>1, MailKept
<1>3. CASE PageSteps
  <2>1. UNCHANGED <<c, req, query, route, seen>>
    BY <1>3, PageFrame
  <2>2. CASE Edits
    <3>1. /\ page'.dirty
          /\ page'.unsent = IF page.unsent = "busy" \/ RowBusy THEN "busy" ELSE "quiet"
      BY <2>2, EditShape
    <3>2. Clean' => page'.unsent = "busy"
      BY <1>1, <2>1, <3>1 DEF Clean, RowBusy
    <3>3. QED
      BY <2>1, <3>2, MailKept
  <2>3. CASE SwitchIcsMode
    BY <2>1, <2>3, SwitchShape, MailKept
  <2>4. CASE EditInfo
    BY <1>2, <2>1, <2>4 DEF EditInfo
  <2>5. QED
    BY <1>3, <2>2, <2>3, <2>4 DEF PageSteps
<1>4. CASE Visits
  <2>1. /\ c' = c /\ query' = Asked(query) /\ seen'.mailed = seen.mailed /\ seen'.meant = seen.meant
        /\ req'["test"].at = req["test"].at /\ req'["test"].id = req["test"].id
        /\ req'["test"].row = req["test"].row /\ req'["test"].body = req["test"].body
        /\ route = "compose" => route' = "info"
        /\ route = "info" => page' = Loading(NewPage, query.data)
    BY <1>1, <1>4, VisitsShape
  <2>2. query'.data = query.data
    BY <2>1, RowQueryShape
  <2>3. CASE route = "compose"
    BY <2>1, <2>2, <2>3, MailKept
  <2>4. CASE route = "info"
    <3>1. ~page'.drifts /\ query.data.ver = c.ver => Faithful'
      <4>1. SUFFICES ASSUME ~page'.drifts, query.data.ver = c.ver PROVE Faithful'
        OBVIOUS
      <4>2. query.data = c
        BY <4>1 DEF VerInv
      <4>3. page' = Loading(NewPage, c) /\ ~Loading(NewPage, c).drifts
        BY <2>1, <2>4, <4>1, <4>2
      <4>4. Mail(BuildPayload(Loading(NewPage, c))) = Mail(c)
        BY <1>1, <4>3, ConstantTypes, LoadingIsFaithful
      <4>5. QED
        BY <2>1, <4>3, <4>4 DEF Faithful
    <3>2. TestMailIsShown'
      BY <2>1 DEF MailInv, TestMailIsShown
    <3>3. QED
      BY <2>1, <2>2, <3>1, <3>2 DEF MailInv
  <2>5. QED
    BY <1>1, <2>3, <2>4
<1>5. CASE RowFetchDone
  <2>1. /\ query'.data = query.reply /\ UNCHANGED <<c, req, route, seen>>
        /\ page' = IF route = "compose" /\ query.reply # query.data THEN Loading(page, query.reply)
                   ELSE page
    BY <1>1, <1>5, FetchFrame
  <2>2. CASE route = "compose" /\ query.reply # query.data
    <3>1. ~page'.drifts /\ query.reply.ver = c.ver => Faithful'
      <4>1. SUFFICES ASSUME ~page'.drifts, query.reply.ver = c.ver PROVE Faithful'
        OBVIOUS
      <4>2. query.reply = c
        BY <4>1 DEF VerInv
      <4>3. page' = Loading(page, c) /\ ~Loading(page, c).drifts
        BY <2>1, <2>2, <4>1, <4>2
      <4>4. Mail(BuildPayload(Loading(page, c))) = Mail(c)
        BY <1>1, <4>3, LoadingIsFaithful
      <4>5. QED
        BY <2>1, <4>3, <4>4 DEF Faithful
    <3>2. TestMailIsShown'
      BY <2>1 DEF MailInv, TestMailIsShown
    <3>3. QED
      BY <2>1, <3>1, <3>2 DEF MailInv
  <2>3. CASE route # "compose"
    BY <2>1, <2>3 DEF MailInv, TestMailIsShown
  <2>4. CASE query.reply = query.data
    BY <1>2, <2>1, <2>4
  <2>5. QED
    BY <2>2, <2>3, <2>4
<1>6. CASE RunTurns
  <2>1. c'.ver = c.ver + 1 /\ UNCHANGED <<query, req, seen>>
    BY <1>6, TurnShape
  <2>2. c.ver \in Nat /\ query.data.ver \in Nat /\ req["test"].row.ver \in Nat
    BY <1>1 DEF ContentTypes, ReqSet, RowSet
  <2>3. query'.data.ver # c'.ver
    BY <2>1, <2>2 DEF VerInv
  <2>4. req'["test"].at # "idle" => req'["test"].row.ver <= c'.ver /\ req'["test"].row.ver # c'.ver
    BY <2>1, <2>2 DEF MailInv
  <2>5. TestMailIsShown'
    BY <2>1 DEF MailInv, TestMailIsShown
  <2>6. QED
    BY <2>3, <2>4, <2>5 DEF MailInv
<1>7. CASE FileSteps
  BY <1>1, <1>2, <1>7, FilesFrame
<1>8. CASE RowFetchReads \/ FilesFetchReads \/ FilesFetchDone
  <2>1. query'.data = query.data /\ UNCHANGED <<c, page, route, req, seen>>
    BY <1>1, <1>8, FetchFrame
  <2>2. QED
    BY <1>2, <2>1
<1>9. CASE UNCHANGED vars
  BY <1>2, <1>9 DEF vars
<1>10. QED
  BY <1>3, <1>4, <1>5, <1>6, <1>7, <1>8, <1>9, StepKinds, MailRows, MailTests

-----------------------------------------------------------------------------
(* The inductive invariant *)

\* The invariant holds at first.
LEMMA ContentInit ==
  ASSUME Init
  PROVE  ContentInv
<1>1. ContentTypes /\ FileTypes /\ TypeOK
  BY TypesInit
<1>2. /\ \A k \in Kinds : req[k] = Idle
      /\ RowKinds = {"save", "preview", "info", "upload", "reset"} /\ Uploads = {"attach", "elsewhere"}
      /\ \A k \in RowKinds \cup Uploads \cup {"detach", "test"} : k \in Kinds /\ req[k] = Idle
  BY KindsAre DEF Init
<1>3. Idle.at = "idle" /\ Idle.body = NoBody /\ Payload(NoBody) /\ Idle.path = 0
      /\ NoBody = [NoBody EXCEPT !.info = NoBody.info]
  BY DEF Idle, NoBody, Payload
<1>4. /\ c \in RowSet /\ c.ver = 1 /\ query.data = c /\ query.reply = NoRow /\ query.fetch = "none"
      /\ disk = {} /\ atts = {} /\ attq.data = {} /\ attq.fetch = "none"
      /\ NoRow.ver = 0
  BY RowsAssumption DEF Init, NoRow
<1>5. VerInv
  BY <1>4 DEF VerInv
<1>6. FreshInv
  BY <1>4 DEF FreshInv
<1>7. FormInv
  <2>1. route = "info" => form.info = c.info
    BY DEF Init, NewForm, NoForm
  <2>2. \A k \in RowKinds : req[k].at = "idle"
    BY <1>2, <1>3
  <2>3. QED
    BY <1>2, <2>1, <2>2 DEF FormInv
<1>8. ListInv
  BY <1>4 DEF ListInv, ShownIds
<1>9. IdInv
  BY <1>2, <1>3, <1>4 DEF IdInv, Stored
<1>10. DiskInv
  <2>1. Cardinality(atts) <= MaxFiles
    BY <1>4, FS_EmptySet, BoundsAssumption
  <2>2. \A k \in Uploads : req[k].at \notin Stored /\ req[k].at # "stored"
    BY <1>2, <1>3 DEF Stored
  <2>3. Alive = {} /\ {j \in Uploads : req[j].at = "stored"} = {}
    BY <1>4, <2>2 DEF Alive
  <2>4. disk = {a.path : a \in Alive} \cup {req[k].path : k \in {j \in Uploads : req[j].at = "stored"}}
    BY <1>4, <2>3
  <2>5. req["detach"].at = "idle"
    BY <1>2, <1>3
  <2>6. QED
    BY <2>1, <2>2, <2>3, <2>4, <2>5 DEF DiskInv, Stored
<1>11. BodyInv
  BY <1>2, <1>3 DEF BodyInv
<1>12. SavedInv
  <2>1. Holds(c, Told)
    <3>1. kept = Content(c) /\ ~seen.cut
      BY DEF Init
    <3>2. /\ Content(c).html = c.html /\ Content(c).mime = c.mime /\ Content(c).ics = c.ics
          /\ Content(c).info = c.info /\ Content(c).on = c.on /\ c.on \in BOOLEAN
      BY <1>4 DEF Content, RowSet
    <3>3. /\ Told.html = c.html /\ Told.mime = c.mime /\ Told.ics = c.ics /\ Told.info = c.info
          /\ Told.on <=> c.on
      BY <1>1, <3>1, <3>2, ToldShape
    <3>4. Told.on = c.on
      BY <1>1, <3>2, <3>3, ToldShape
    <3> HIDE DEF Told
    <3>5. QED
      BY <3>3, <3>4 DEF Holds
  <2>2. \A k \in RowKinds : req[k].at = "idle"
    BY <1>2, <1>3
  <2> HIDE DEF Told
  <2>3. QED
    BY <1>2, <2>1, <2>2 DEF SavedInv
<1>13. page = IF route = "compose" THEN Loading(NewPage, c) ELSE NewPage
  BY DEF Init
<1>14. PreviewIsOfPage
  <2>1. page.preview.asked = 0
    BY <1>4, <1>13, ConstantTypes, LoadingTypes
  <2>2. QED
    BY <2>1 DEF PreviewIsOfPage
<1>15. MailInv
  <2>1. route = "compose" /\ ~page.drifts => Faithful
    BY <1>4, <1>13, ConstantTypes, LoadingIsFaithful DEF Faithful
  <2>2. req["test"].at = "idle"
    BY <1>2, <1>3
  <2>3. TestMailIsShown
    BY DEF Init, TestMailIsShown
  <2>4. QED
    BY <2>1, <2>2, <2>3 DEF MailInv
<1>16. QuietInv
  <2>1. page.unsent = "none"
    BY <1>4, <1>13, ConstantTypes, LoadingTypes
  <2>2. QED
    BY <2>1 DEF QuietInv
<1>17. QED
  BY <1>1, <1>5, <1>6, <1>7, <1>8, <1>9, <1>10, <1>11, <1>12, <1>14, <1>15, <1>16 DEF ContentInv

\* Every step keeps the invariant.
LEMMA ContentStep ==
  ASSUME ContentInv, [Next]_vars
  PROVE  ContentInv'
<1>1. /\ TypeOK /\ ContentTypes /\ FileTypes
      /\ VerInv /\ FreshInv /\ FormInv /\ ListInv /\ IdInv /\ DiskInv
      /\ BodyInv /\ SavedInv /\ PreviewIsOfPage /\ MailInv /\ QuietInv
  BY DEF ContentInv
<1>2. ContentTypes'
  BY <1>1, TypesStep
<1>3. FileTypes' /\ IdInv' /\ DiskInv'
  BY <1>1, FilesStep
<1>4. TypeOK'
  <2>1. \A k \in Kinds : req'[k].at = "idle" \/ k \in RowKinds => req'[k].path = 0
    BY <1>1, PathStep DEF TypeOK
  <2>2. /\ c'.type \in {"html", "raw_mime"} /\ c'.ics \in IcsSet /\ c'.ver \in Nat
        /\ page'.mode \in {"html", "mime"} /\ page'.ics \in IcsSet /\ page'.dirty \in BOOLEAN
        /\ page'.unsent \in {"none", "quiet", "busy"}
    BY <1>2 DEF ContentTypes, RowSet, PageSet
  <2>3. \A a \in atts' : a.path \in Nat \ {0}
    BY <1>3 DEF FileTypes
  <2>4. QED
    BY <2>1, <2>2, <2>3 DEF TypeOK
<1>5. VerInv' /\ FreshInv' /\ QuietInv'
  BY <1>1, VerStep, FreshStep, QuietStep
<1>6. FormInv' /\ ListInv' /\ BodyInv'
  BY <1>1, FormStep, ListStep, BodyStep
<1>7. SavedInv' /\ PreviewIsOfPage'
  BY <1>1, SavedStep, PreviewStep
<1>8. MailInv'
  BY <1>1, MailStep
<1>9. QED
  BY <1>2, <1>3, <1>4, <1>5, <1>6, <1>7, <1>8 DEF ContentInv

\* The invariant holds always: the parts that the theorems below are read off from.
THEOREM ContentInvariant == Spec => []ContentInv
<1>1. Init => ContentInv
  BY ContentInit
<1>2. ContentInv /\ [Next]_vars => ContentInv'
  BY ContentStep
<1>3. QED
  BY <1>1, <1>2, PTL DEF Spec

-----------------------------------------------------------------------------
(* The theorems *)

\* The row, the page, the attachments and the requests have their types.
THEOREM ContentTypesHold == Spec => []TypeOK
<1>1. ContentInv => TypeOK
  BY DEF ContentInv
<1>2. QED
  BY <1>1, ContentInvariant, PTL

\* A test mail carries what the page showed when it was asked for, unless the row was
\* written in between or the page drifts from it (ComposePage.tsx:677).
THEOREM MailIsShown == Spec => []TestMailIsShown
<1>1. ContentInv => TestMailIsShown
  BY DEF ContentInv, MailInv
<1>2. QED
  BY <1>1, ContentInvariant, PTL

\* When all is quiet the row has what the user was last told is saved, but for a text
\* that he emptied, unless two requests that save the row were in flight at once
\* (handler.go:207).
THEOREM SavedContentStays == Spec => []SavedStays
<1>1. ContentInv => SavedStays
  <2>1. SUFFICES ASSUME SavedInv, Quiet, ~seen.overlap PROVE Holds(c, Told)
    BY DEF ContentInv, SavedStays
  <2>2. \A k \in RowKinds : req[k].at # "done"
    BY <2>1, KindsAre DEF Quiet
  <2> HIDE DEF Told
  <2>3. QED
    BY <2>1, <2>2 DEF SavedInv
<1>2. QED
  BY <1>1, ContentInvariant, PTL

\* When all is quiet the pages show what the server has (ComposePage.tsx:212, 307,
\* CampaignDetailPage.tsx:160, 172).
THEOREM ScreenIsFresh == Spec => []CacheIsFresh
<1>1. ContentInv => CacheIsFresh
  <2>1. SUFFICES ASSUME FreshInv, FormInv, ListInv, Quiet
                 PROVE  RowIsFresh /\ FormIsFresh /\ FilesAreListed
    BY DEF ContentInv, CacheIsFresh
  <2>2. /\ \A k \in Kinds : req[k].at = "idle"
        /\ query.fetch = "none" /\ attq.fetch = "none"
    BY <2>1 DEF Quiet
  <2>3. RowIsFresh
    BY <2>1, <2>2, KindsAre DEF FreshInv, RowIsFresh
  <2>4. FormIsFresh
    BY <2>1 DEF FormInv, FormIsFresh
  <2>5. FilesAreListed
    <3>1. \A i : ~DoneWith("detach", i) /\ ~DoneWith("attach", i)
      BY <2>2, KindsAre DEF DoneWith
    <3>2. ShownIds = attq.data
      BY <2>2 DEF ShownIds
    <3>3. QED
      BY <2>1, <2>2, <3>1, <3>2 DEF ListInv, FilesAreListed
  <2>6. QED
    BY <2>3, <2>4, <2>5
<1>2. QED
  BY <1>1, ContentInvariant, PTL

\* The preview that is shown is of the body that was on the page, unless requests
\* overlap or the body is not an HTML one, or is empty (ComposePage.tsx:323).
THEOREM PreviewIsShown == Spec => []PreviewIsOfPage
<1>1. ContentInv => PreviewIsOfPage
  BY DEF ContentInv
<1>2. QED
  BY <1>1, ContentInvariant, PTL

\* The attachments stay within the limit, and when all is quiet each has a file of its
\* own and every file is one's, unless two uploads overlapped (attachment/handler.go:80).
THEOREM FilesAndRowsAgree == Spec => []FilesAgree
<1>1. ContentInv => FilesAgree
  <2>1. SUFFICES ASSUME DiskInv, ~seen.racing
                 PROVE  /\ Cardinality(atts) <= MaxFiles
                        /\ Quiet => /\ disk = {a.path : a \in atts}
                                    /\ \A a, b \in atts : a.path = b.path => a = b
    BY DEF ContentInv, FilesAgree
  <2>2. ASSUME Quiet
        PROVE  /\ disk = {a.path : a \in atts}
               /\ \A a, b \in atts : a.path = b.path => a = b
    <3>1. \A k \in Uploads \cup {"detach"} : req[k].at = "idle"
      BY <2>2, KindsAre DEF Quiet
    <3>2. Alive = atts /\ {j \in Uploads : req[j].at = "stored"} = {}
      BY <3>1 DEF Alive
    <3>3. {req[k].path : k \in {j \in Uploads : req[j].at = "stored"}} = {}
      BY <3>2
    <3> HIDE DEF Alive
    <3>4. QED
      BY <2>1, <3>2, <3>3 DEF DiskInv
  <2>3. QED
    BY <2>1, <2>2 DEF DiskInv
<1>2. QED
  BY <1>1, ContentInvariant, PTL

\* An edit made while nothing was under way is not replaced by a fetched row before
\* the user sends it (ComposePage.tsx:249).
THEOREM EditsAreKept == Spec => EditsSurvive
<1>1. ContentInv /\ [Next]_vars =>
        [(page.unsent = "quiet" /\ page'.unsent = "none" /\ route' = route)
           => \E k \in {"save", "preview"} : req'[k].at = "sent" /\ req[k].at = "idle"]_vars
  BY QuietStep DEF ContentInv
<1>2. QED
  BY <1>1, ContentInvariant, PTL DEF Spec, EditsSurvive

=============================================================================
