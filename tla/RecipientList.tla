----------------------------- MODULE RecipientList -----------------------------
(***************************************************************************)
(* The recipients of a campaign and their number: the recipients tab of    *)
(* pages/CampaignDetailPage.tsx with its pages, its search and its query   *)
(* cache, and the handlers behind it (internal/recipient/handler.go),      *)
(* which change the table first and then save the row as it was read       *)
(* before, total_count plus or minus what they did; the reset of a         *)
(* campaign that is over (campaign/handler.go), which sets total_count to  *)
(* 0 and keeps the recipients; and, from elsewhere, an edit, which saves   *)
(* all of the row, and a run, whose Start counts the recipients anew.      *)
(*                                                                         *)
(* A recipient is its id; the search finds the odd ones.  The two queries  *)
(* of List are one step, and fetches succeed.  A campaign is open (draft,  *)
(* scheduled or paused), sending, or over (completed or cancelled).  The   *)
(* server does not crash and nobody pauses a run: what is open has no      *)
(* outcomes that the row does not count, so that Start's pending +         *)
(* sent_count + failed_count is the number of recipients.  The rest of the *)
(* row is CampaignContent.                                                 *)
(***************************************************************************)
EXTENDS Integers, FiniteSets, FiniteSetsExt

CONSTANTS
  PageSize,     \* recipients on a page (20)
  FileSizes,    \* how many recipients an uploaded file may hold
  MaxRcp,       \* bound: ids in a behaviour, of which the first half are there at the
                \* start; with it the pages that are turned to
  MaxInFlight,  \* bound: requests in flight at once
  MaxActs       \* bound: what the user does in a behaviour

ASSUME PageSizeAssumption == PageSize \in Nat \ {0}
ASSUME FileAssumption == FileSizes \subseteq Nat
ASSUME BoundsAssumption == {MaxRcp, MaxInFlight, MaxActs} \subseteq Nat

VARIABLES
  rcp,      \* the recipients table
  total,    \* the campaign's total_count
  status,   \* the campaign's status
  running,  \* the campaign has a runner
  req,      \* the requests in flight
  cache,    \* the query cache of the lists
  cq,       \* the cached campaign and its fetch
  tab,      \* RecipientsTab's state
  next,     \* the next id
  acts,
  seen      \* history: requests overlapped; the number may be off; a change of the
            \* list, or of the row, that no fetch has followed

vars == <<rcp, total, status, running, req, cache, cq, tab, next, acts, seen>>

-----------------------------------------------------------------------------
(* Mut... is a faulty form of the definition after it.                     *)

Slots == 1..MaxInFlight
Edits == {"upload", "manual", "delete", "clear"}
Others == {"start", "edit"}
Kinds == Edits \cup Others \cup {"reset"}
Row == [total |-> total, status |-> status]
NoRow == [total |-> 0, status |-> "open"]
Free == [at |-> "idle", kind |-> "none", n |-> 0, copy |-> NoRow]

Searches == {"", "odd"}
Pages == 1..(MaxRcp + 1)

Matching(search) == {r \in rcp : search = "odd" => r % 2 = 1}

\* What List answers: total, the number of pages, and the rows in order of id.
Ceiling(n) == n \div PageSize + (IF n % PageSize # 0 THEN 1 ELSE 0)
Offset(p) == (p - 1) * PageSize
Within(n, p) == n >= Offset(p) /\ n < Offset(p) + PageSize
Listed(p, search) ==
  LET all == Matching(search)
  IN [rows |-> {r \in all : Within(Cardinality({o \in all : o < r}), p)},
      total |-> Cardinality(all),
      pages |-> Ceiling(Cardinality(all))]

NoList == [rows |-> {}, total |-> 0, pages |-> 0]
NoQuery == [known |-> FALSE, data |-> NoList, fetch |-> "none", reply |-> NoList]

\* queryKey: the page and the search.
Key == <<tab.page, tab.search>>
Shown == cache[Key].data

Init ==
  /\ next = MaxRcp \div 2 + 1
  /\ rcp = 1..(next - 1)
  /\ total = Cardinality(rcp)
  /\ status \in {"open", "over"} /\ running = FALSE
  /\ req = [s \in Slots |-> Free]
  /\ tab = [page |-> 1, search |-> "", stranded |-> FALSE]
  /\ cache = [[k \in Pages \X Searches |-> NoQuery] EXCEPT ![Key].fetch = "asked"]
  /\ cq = [data |-> Row, fetch |-> "none", reply |-> NoRow]
  /\ acts = 0
  /\ seen = [overlap |-> FALSE, off |-> FALSE, joined |-> FALSE, behind |-> FALSE]

KeepServer == UNCHANGED <<rcp, total, status, running, next>>

-----------------------------------------------------------------------------
(* The query cache *)

\* A key that is turned to is asked for again, or joins the fetch under way.
Asked(q) == IF q.fetch = "none" THEN [q EXCEPT !.fetch = "asked"] ELSE q

\* invalidateQueries(['recipients', id]): the list on the screen is fetched anew,
\* but a first fetch is joined and the other keys wait to be turned to.
MutInvalidatesList == UNCHANGED <<cache, seen>>
InvalidatesList ==
  /\ cache' = [cache EXCEPT ![Key] = IF @.known THEN [@ EXCEPT !.fetch = "asked"] ELSE Asked(@)]
  /\ seen' = [seen EXCEPT !.joined = @ \/ \E k \in DOMAIN cache :
                cache[k].fetch = "read" /\ (k # Key \/ ~cache[k].known)]
InvalidatesCount == cq' = [cq EXCEPT !.fetch = "asked"]

ListReads ==
  /\ \E k \in DOMAIN cache :
       /\ cache[k].fetch = "asked"
       /\ cache' = [cache EXCEPT ![k].fetch = "read", ![k].reply = Listed(k[1], k[2])]
  /\ KeepServer /\ UNCHANGED <<req, cq, tab, acts, seen>>
ListDone ==
  /\ \E k \in DOMAIN cache :
       /\ cache[k].fetch = "read"
       /\ cache' = [cache EXCEPT ![k] = [cache[k] EXCEPT !.known = TRUE, !.fetch = "none",
                                           !.data = cache[k].reply]]
  /\ KeepServer /\ UNCHANGED <<req, cq, tab, acts, seen>>

CountReads ==
  /\ cq.fetch = "asked"
  /\ cq' = [cq EXCEPT !.fetch = "read", !.reply = Row]
  /\ seen' = [seen EXCEPT !.behind = FALSE]
  /\ KeepServer /\ UNCHANGED <<req, cache, tab, acts>>
CountDone ==
  /\ cq.fetch = "read"
  /\ cq' = [cq EXCEPT !.fetch = "none", !.data = cq.reply]
  /\ KeepServer /\ UNCHANGED <<req, cache, tab, acts, seen>>

-----------------------------------------------------------------------------
(* What the user does *)

Acts == acts < MaxActs /\ acts' = acts + 1

Busy(kind) == \E s \in Slots : req[s].kind = kind

\* A mutation; it overlaps whatever is in flight.
Mutates(kind, n) ==
  /\ \E s \in Slots :
       /\ req[s].at = "idle"
       /\ \A lower \in 1..(s - 1) : req[lower].at # "idle"
       /\ req' = [req EXCEPT ![s] = [at |-> "sent", kind |-> kind, n |-> n, copy |-> NoRow]]
  /\ KeepServer /\ UNCHANGED <<cache, cq>>
Overlaps == seen' = [seen EXCEPT !.overlap = @ \/ \E s \in Slots : req[s].at # "idle"]

\* The bound on ids counts the recipients that are on their way.
Coming == MapThenSumSet(LAMBDA s : IF req[s].kind \in {"upload", "manual"} THEN req[s].n ELSE 0,
                        Slots)
Fits(n) == next + Coming + n <= MaxRcp + 1

\* Choosing a file is never disabled.
HandleFileUpload ==
  /\ Acts
  /\ \E n \in FileSizes : Fits(n) /\ Mutates("upload", n)
  /\ Overlaps /\ UNCHANGED tab

HandleAddManual ==
  /\ Acts /\ ~Busy("manual") /\ Fits(1)
  /\ Mutates("manual", 1)
  /\ Overlaps /\ UNCHANGED tab

HandleClearAll ==
  /\ Acts
  /\ Mutates("clear", 0)
  /\ Overlaps
  /\ tab' = [tab EXCEPT !.stranded = @ \/ tab.page > 1]

\* The button of the header, which the campaign on the screen decides.
ResetToDraft ==
  /\ Acts /\ cq.data.status = "over"
  /\ Mutates("reset", 0)
  /\ Overlaps /\ UNCHANGED tab

\* A start, by the scheduler or a sending page, and an edit from another page.
Elsewhere ==
  /\ Acts
  /\ \E kind \in Others : Mutates(kind, 0)
  /\ Overlaps /\ UNCHANGED tab

\* The rows shown may be gone already.
HandleDeleteRecipient ==
  /\ Acts /\ ~Busy("delete")
  /\ \E r \in Shown.rows : Mutates("delete", r)
  /\ Overlaps
  /\ tab' = [tab EXCEPT !.stranded = @ \/ tab.page > 1]

\* Another page or search is another key.
TurnedTo(t) == [cache EXCEPT ![<<t.page, t.search>>] = Asked(@)]
Turns(t) ==
  /\ tab' = t
  /\ cache' = TurnedTo(t)
  /\ KeepServer /\ UNCHANGED <<req, cq, seen>>

Shrinks == Busy("delete") \/ Busy("clear")
HasPager == cache[Key].known /\ Shown.pages > 1
Previous ==
  /\ HasPager /\ tab.page > 1 /\ Acts
  /\ Turns([tab EXCEPT !.page = @ - 1, !.stranded = @ /\ tab.page > 2])
NextPage ==
  /\ HasPager /\ tab.page < Shown.pages /\ tab.page <= MaxRcp /\ Acts
  /\ Turns([tab EXCEPT !.page = @ + 1,
                        !.stranded = @ \/ Shrinks \/ cache[Key].fetch # "none"])

MutFirstPage == tab.page
FirstPage == 1
HandleSearch ==
  /\ Acts
  /\ \E search \in Searches :
       /\ <<FirstPage, search>> # Key
       /\ Turns([page |-> FirstPage, search |-> search, stranded |-> FALSE])

-----------------------------------------------------------------------------
(* The handlers: the campaign is read, the table changed, the row saved.    *)

Handles(s, at) == /\ req' = [req EXCEPT ![s].at = at]
                  /\ UNCHANGED <<cache, cq, tab, acts>>
Leaves(s) == /\ req' = [req EXCEPT ![s] = Free]
             /\ UNCHANGED <<cache, cq, tab, acts>>

\* Start looks for a runner first.
CampaignReads(s) ==
  /\ req[s].at = "sent" /\ (req[s].kind = "start" => ~running)
  /\ req' = [req EXCEPT ![s].at = "read", ![s].copy = Row]
  /\ KeepServer /\ UNCHANGED <<cache, cq, tab, acts, seen>>

Adds(s) ==
  /\ req[s].at = "read" /\ req[s].kind \in {"upload", "manual"}
  /\ rcp' = rcp \cup next..(next + req[s].n - 1)
  /\ next' = next + req[s].n
  /\ Handles(s, "changed") /\ UNCHANGED <<total, status, running, seen>>

\* Deleting what is not there is no error.
Deletes(s) ==
  /\ req[s].at = "read" /\ req[s].kind = "delete"
  /\ rcp' = rcp \ {req[s].n}
  /\ seen' = [seen EXCEPT !.off = @ \/ req[s].n \notin rcp]
  /\ Handles(s, "changed") /\ UNCHANGED <<total, status, running, next>>

DeletesAll(s) ==
  /\ req[s].at = "read" /\ req[s].kind = "clear"
  /\ rcp' = {}
  /\ Handles(s, "changed") /\ UNCHANGED <<total, status, running, next, seen>>

\* Start counts the recipients; an edit takes the fields of its form.
StartCounts(s) ==
  /\ req[s].at = "read" /\ req[s].kind = "start"
  /\ req[s].copy.status = "open" /\ rcp # {}
  /\ req' = [req EXCEPT ![s].at = "changed", ![s].n = Cardinality(rcp)]
  /\ KeepServer /\ UNCHANGED <<cache, cq, tab, acts, seen>>
EditFills(s) ==
  /\ req[s].at = "read" /\ req[s].kind = "edit" /\ req[s].copy.status # "sending"
  /\ Handles(s, "changed") /\ KeepServer /\ UNCHANGED seen

\* One transaction of the row, the recipients and the logs.
ResetSaves(s) ==
  /\ req[s].at = "read" /\ req[s].kind = "reset" /\ req[s].copy.status = "over"
  /\ total' = 0 /\ status' = "open"
  /\ seen' = [seen EXCEPT !.off = TRUE]
  /\ Handles(s, "done") /\ UNCHANGED <<rcp, running, next>>

Refuses(s) ==
  /\ \/ req[s].at = "sent" /\ req[s].kind = "start" /\ running
     \/ req[s].at = "read" /\ req[s].kind = "start"
          /\ (req[s].copy.status # "open" \/ rcp = {})
     \/ req[s].at = "read" /\ req[s].kind = "edit" /\ req[s].copy.status = "sending"
     \/ req[s].at = "read" /\ req[s].kind = "reset" /\ req[s].copy.status # "over"
  /\ Leaves(s) /\ KeepServer /\ UNCHANGED seen

MutCounted(r) == IF r.kind = "clear" THEN r.copy.total ELSE r.copy.total + r.n
Counted(r) == CASE r.kind \in {"upload", "manual"} -> r.copy.total + r.n
                [] r.kind = "delete" -> IF r.copy.total > 0 THEN r.copy.total - 1 ELSE 0
                [] r.kind = "clear"  -> 0
                [] r.kind = "start"  -> r.n
                [] r.kind = "edit"   -> r.copy.total

\* A clearing and a start do not build on the number that they read.
Recounts(s) == req[s].kind \in {"clear", "start"}
Launches(s) == running' = (running \/ req[s].kind = "start")

\* All columns of the row are saved.  Only what this page asked for is answered to it.
CountSaves(s) ==
  /\ req[s].at = "changed"
  /\ total' = Counted(req[s])
  /\ status' = IF req[s].kind = "start" THEN "sending" ELSE req[s].copy.status
  /\ Launches(s)
  /\ seen' = [seen EXCEPT !.off = @ /\ ~Recounts(s), !.behind = @ \/ req[s].kind \in Others]
  /\ IF req[s].kind \in Others THEN Leaves(s) ELSE Handles(s, "done")
  /\ UNCHANGED <<rcp, next>>

\* The row cannot be saved: Start goes on, the others answer with an error, after
\* which the page fetches nothing.
CountFails(s) ==
  /\ req[s].at = "changed"
  /\ Launches(s)
  /\ seen' = [seen EXCEPT !.off = TRUE, !.joined = @ \/ req[s].kind \in Edits]
  /\ Leaves(s) /\ UNCHANGED <<rcp, total, status, next>>

\* The final UPDATE of a run, which may fail.
RunEnds ==
  /\ running /\ running' = FALSE
  /\ status' \in {"over", status}
  /\ seen' = [seen EXCEPT !.behind = TRUE]
  /\ UNCHANGED <<rcp, total, next, req, cache, cq, tab, acts>>

\* onSuccess
Answered(s) ==
  /\ req[s].at = "done"
  /\ req' = [req EXCEPT ![s] = Free]
  /\ InvalidatesList /\ InvalidatesCount
  /\ KeepServer /\ UNCHANGED <<tab, acts>>

User == \/ HandleFileUpload \/ HandleAddManual \/ HandleClearAll \/ HandleDeleteRecipient
        \/ ResetToDraft \/ Elsewhere \/ Previous \/ NextPage \/ HandleSearch

System == \/ ListReads \/ ListDone \/ CountReads \/ CountDone
          \/ \E s \in Slots : \/ CampaignReads(s) \/ Adds(s) \/ Deletes(s) \/ DeletesAll(s)
                              \/ StartCounts(s) \/ EditFills(s) \/ ResetSaves(s)
                              \/ Refuses(s) \/ CountSaves(s) \/ CountFails(s)
                              \/ Answered(s)
          \/ RunEnds

Next == User \/ System

Spec == Init /\ [][Next]_vars

-----------------------------------------------------------------------------
(* Properties *)

Quiet == /\ \A s \in Slots : req[s].at = "idle"
         /\ \A k \in DOMAIN cache : cache[k].fetch = "none"
         /\ cq.fetch = "none"

\* total_count is the number of recipients unless two requests overlapped, and
\* except from one of three events to the next clearing or start of the campaign,
\* which set it right: the campaign was reset, which sets it to 0 and keeps the
\* recipients (campaign/handler.go:333); a recipient was deleted that a list still
\* showed though he was gone (recipient/handler.go:336); the number could not be
\* saved after the table was changed (recipient/handler.go:126).  The server does
\* not crash meanwhile, nor is a run paused (see the module's head).
TotalsAgree ==
  (Quiet /\ ~seen.overlap /\ ~seen.off) => total = Cardinality(rcp)

\* The list on the screen is the table's, for its page and its search, unless a
\* change came while a first fetch, or one of another key, was under way, or was
\* answered with an error.
ListIsFresh == ~seen.joined => Shown = Listed(tab.page, tab.search)

\* The header's number of recipients and status are the row's, unless a run or an
\* edit from elsewhere wrote the row since it was read.
CountIsFresh == ~seen.behind => cq.data = Row

\* When all is quiet what is on the screen is what the server has
\* (CampaignDetailPage.tsx:369).
TabIsFresh == Quiet => ListIsFresh /\ CountIsFresh

\* "No recipients added yet" is said when there are none to show, unless
\* recipients were deleted from a page behind the first, or while it was turned
\* to (CampaignDetailPage.tsx:668).
EmptyMeansEmpty == Shown.rows = {} /\ ~tab.stranded => Matching(tab.search) = {}

\* A next page is offered exactly when there are recipients behind this one
\* (recipient/handler.go:283, CampaignDetailPage.tsx:693).
NextIsOffered ==
  HasPager /\ tab.page < Shown.pages
    <=> Cardinality(Matching(tab.search)) > tab.page * PageSize

\* Paging leads to every recipient there is.
PagesCover == Quiet /\ ~seen.joined => EmptyMeansEmpty /\ NextIsOffered
=============================================================================
