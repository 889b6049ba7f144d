------------------------- MODULE RecipientListProofs -------------------------
(***************************************************************************)
(* Theorems about RecipientList, for any size of a page, of a file and of  *)
(* the table, and any number of requests.                                  *)
(***************************************************************************)
EXTENDS RecipientList, NumberFacts

Statuses == {"open", "sending", "over"}
Rows == [total : Nat, status : Statuses]
Histories == [overlap : BOOLEAN, off : BOOLEAN, joined : BOOLEAN, behind : BOOLEAN]

\* A request has the fields of one, and knows how many recipients it adds or counted.
Request(r) ==
  /\ r \in [at : {"idle", "sent", "read", "changed", "done"}, kind : Kinds \cup {"none"},
           n : {r.n}, copy : Rows]
  /\ r.at # "idle" => r.kind \in Kinds
  /\ r.kind \in {"upload", "manual"} => r.n \in Nat
  /\ r.kind = "start" /\ r.at = "changed" => r.n \in Nat
  /\ r.kind = "reset" => r.at # "changed"

CountTypes ==
  /\ next \in Nat \ {0} /\ rcp \subseteq 1..(next - 1)
  /\ total \in Nat /\ status \in Statuses /\ running \in BOOLEAN
  /\ DOMAIN req = Slots /\ req = [s \in Slots |-> req[s]]
  /\ \A s \in Slots : Request(req[s])
  /\ seen \in Histories

\* While requests do not overlap there is one, and total_count is right, or will be
\* when that request saves it: from the copy that it took if that was right, or from
\* its own count.
OneCounts ==
  ~seen.overlap =>
    /\ \A s, t \in Slots : req[s].at # "idle" /\ req[t].at # "idle" => s = t
    /\ \A s \in Slots : req[s].at = "read" => req[s].copy.total = total
    /\ \A s \in Slots : req[s].at = "changed" /\ (~seen.off \/ Recounts(s)) =>
         Counted(req[s]) = Cardinality(rcp)
    /\ (\A s \in Slots : req[s].at # "changed") /\ ~seen.off => total = Cardinality(rcp)

\* Inductive.
CountInv == CountTypes /\ OneCounts

-----------------------------------------------------------------------------
(* Recipients and their number *)

LEMMA TableFinite ==
  ASSUME CountTypes PROVE IsFiniteSet(rcp) /\ Cardinality(rcp) \in Nat
<1>1. IsFiniteSet(1..(next - 1))
  BY FS_Interval DEF CountTypes
<1>2. IsFiniteSet(rcp)
  BY <1>1, FS_Subset DEF CountTypes
<1>3. QED
  BY <1>2, FS_CardinalityType

\* New recipients have new ids.
LEMMA Added ==
  ASSUME CountTypes, NEW n \in Nat
  PROVE  Cardinality(rcp \cup next..(next + n - 1)) = Cardinality(rcp) + n
<1> DEFINE new == next..(next + n - 1)
<1>1. IsFiniteSet(new) /\ Cardinality(new) = n
  BY FS_Interval DEF CountTypes
<1>2. rcp \cap new = {}
  BY DEF CountTypes
<1>3. IsFiniteSet(rcp) /\ Cardinality(rcp) \in Nat
  BY TableFinite
<1> HIDE DEF new
<1>4. Cardinality(rcp \cup new) = Cardinality(rcp) + Cardinality(new) - Cardinality(rcp \cap new)
  BY <1>1, <1>3, FS_Union
<1>5. Cardinality(rcp \cap new) = 0
  BY <1>2, FS_EmptySet
<1>6. QED
  BY <1>1, <1>3, <1>4, <1>5 DEF new

LEMMA Updated ==
  ASSUME CountTypes, NEW s \in Slots, NEW r, req' = [req EXCEPT ![s] = r], Request(r)
  PROVE  /\ DOMAIN req' = Slots /\ req' = [t \in Slots |-> req'[t]]
         /\ \A t \in Slots : req'[t] = IF t = s THEN r ELSE req[t]
         /\ \A t \in Slots : Request(req'[t])
<1>1. \A t \in Slots : req'[t] = IF t = s THEN r ELSE req[t]
  BY DEF CountTypes
<1>2. QED
  BY <1>1 DEF CountTypes

\* A request that goes on to another point is otherwise the same.
LEMMA MovesOn ==
  ASSUME CountTypes, NEW s \in Slots, NEW x \in {"changed", "done"},
         req[s].at # "idle", req[s].kind \in {"start", "reset"} => x = "done"
  PROVE  /\ Request([req[s] EXCEPT !.at = x]) /\ [req[s] EXCEPT !.at = x].at = x
         /\ [req[s] EXCEPT !.at = x].kind = req[s].kind
         /\ Counted([req[s] EXCEPT !.at = x]) = Counted(req[s])
         /\ [req EXCEPT ![s].at = x] = [req EXCEPT ![s] = [req[s] EXCEPT !.at = x]]
<1> DEFINE r == [req[s] EXCEPT !.at = x]
<1>1. Request(req[s])
  BY DEF CountTypes
<1>2. /\ r.at = x /\ r.kind = req[s].kind /\ r.n = req[s].n /\ r.copy = req[s].copy
  BY <1>1 DEF Request
<1>3. r \in [at : {"idle", "sent", "read", "changed", "done"}, kind : Kinds \cup {"none"},
             n : {r.n}, copy : Rows]
  BY <1>1, <1>2 DEF Request
<1>4. [req EXCEPT ![s].at = x] = [req EXCEPT ![s] = r]
  BY DEF CountTypes
<1> HIDE DEF r
<1>5. Request(r)
  BY <1>1, <1>2, <1>3 DEF Request
<1>6. Counted(r) = Counted(req[s])
  BY <1>2 DEF Counted
<1>7. QED
  BY <1>2, <1>4, <1>5, <1>6 DEF r

-----------------------------------------------------------------------------
(* The initial states, and the steps that leave requests alone *)

LEMMA InitCount == Init => CountInv
<1> SUFFICES ASSUME Init PROVE CountInv
  OBVIOUS
<1>1. next \in Nat \ {0} /\ rcp = 1..(next - 1)
  <2>1. MaxRcp \in Nat
    BY BoundsAssumption
  <2>2. (MaxRcp \div 2) \in Nat
    BY <2>1
  <2>3. next = MaxRcp \div 2 + 1 /\ rcp = 1..(next - 1)
    BY DEF Init
  <2>4. QED
    BY <2>2, <2>3
<1>2. total = Cardinality(rcp) /\ total \in Nat
  <2>1. IsFiniteSet(1..(next - 1))
    BY <1>1, FS_Interval
  <2>2. QED
    BY <1>1, <2>1, FS_CardinalityType DEF Init
<1>3. req = [s \in Slots |-> Free] /\ Request(Free) /\ Free.at = "idle"
  BY DEF Init, Free, NoRow, Request, Kinds, Rows, Statuses
<1>4. seen \in Histories /\ status \in Statuses /\ running \in BOOLEAN
  BY DEF Init, Histories, Statuses
<1>5. CountTypes
  BY <1>1, <1>2, <1>3, <1>4 DEF CountTypes
<1>6. OneCounts
  BY <1>2, <1>3 DEF OneCounts
<1>7. QED
  BY <1>5, <1>6 DEF CountInv

LEMMA QueryStep ==
  ASSUME CountInv, UNCHANGED <<rcp, total, next, req>>,
         status' \in Statuses, running' \in BOOLEAN, seen' \in Histories,
         seen'.overlap = seen.overlap, seen'.off = seen.off
  PROVE  CountInv'
  BY DEF CountInv, CountTypes, OneCounts, Recounts

-----------------------------------------------------------------------------
(* The requests *)

\* A request that overlaps no other is the only one.
LEMMA MutatesKeeps ==
  ASSUME CountInv, NEW kind \in Kinds, NEW n, kind \in {"upload", "manual"} => n \in Nat,
         Mutates(kind, n), Overlaps
  PROVE  CountInv'
<1> DEFINE r == [at |-> "sent", kind |-> kind, n |-> n, copy |-> NoRow]
<1>1. PICK s \in Slots : req[s].at = "idle" /\ req' = [req EXCEPT ![s] = r]
  BY DEF Mutates
<1>2. Request(r) /\ r.at = "sent"
  BY DEF Request, NoRow, Rows, Statuses
<1> HIDE DEF r
<1>3. next' = next /\ rcp' = rcp /\ total' = total /\ status' = status /\ running' = running
  BY DEF Mutates, KeepServer
<1>4. /\ seen' \in Histories
      /\ seen'.overlap = (seen.overlap \/ \E t \in Slots : req[t].at # "idle")
      /\ seen'.off = seen.off
  BY DEF Overlaps, CountInv, CountTypes, Histories
<1>5. \A t \in Slots : req'[t] = IF t = s THEN r ELSE req[t]
  BY <1>1, <1>2, Updated DEF CountInv
<1>6. CountTypes'
  BY <1>1, <1>2, <1>3, <1>4, Updated DEF CountInv, CountTypes
<1>7. OneCounts'
  <2>1. SUFFICES ASSUME ~ seen'.overlap
                 PROVE  /\ \A t, u \in Slots : req'[t].at # "idle" /\ req'[u].at # "idle" => t = u
                        /\ \A t \in Slots : req'[t].at \notin {"read", "changed"}
                        /\ ~seen.off => total = Cardinality(rcp)
    BY <1>3, <1>4 DEF OneCounts
  <2>2. \A t \in Slots : req[t].at = "idle"
    BY <1>4, <2>1
  <2>3. ~seen.off => total = Cardinality(rcp)
    BY <1>4, <2>1, <2>2 DEF CountInv, OneCounts
  <2>4. QED
    BY <1>2, <1>5, <2>2, <2>3
<1>8. QED
  BY <1>6, <1>7 DEF CountInv

LEMMA CampaignReadsKeeps ==
  ASSUME CountInv, NEW s \in Slots, CampaignReads(s) PROVE CountInv'
<1> DEFINE r == [req[s] EXCEPT !.at = "read", !.copy = Row]
<1>1. /\ next' = next /\ rcp' = rcp /\ total' = total /\ seen' = seen
      /\ status' = status /\ running' = running
      /\ req[s].at = "sent" /\ Request(req[s]) /\ Row \in Rows /\ Row.total = total
  BY DEF CampaignReads, KeepServer, CountInv, CountTypes, Row, Rows
<1>2. r.at = "read" /\ r.copy = Row /\ r.kind = req[s].kind /\ r.n = req[s].n
  BY <1>1 DEF Request
<1>3. Request(r)
  BY <1>1, <1>2 DEF Request
<1>4. req' = [req EXCEPT ![s] = r]
  BY DEF CampaignReads, CountInv, CountTypes
<1> HIDE DEF r
<1>5. \A t \in Slots : req'[t] = IF t = s THEN r ELSE req[t]
  BY <1>3, <1>4, Updated DEF CountInv
<1>6. CountTypes'
  BY <1>1, <1>3, <1>4, Updated DEF CountInv, CountTypes
<1>7. OneCounts'
  BY <1>1, <1>2, <1>5 DEF CountInv, OneCounts, Recounts
<1>8. QED
  BY <1>6, <1>7 DEF CountInv

\* The table changed, or counted, by a request alone is what the request will save.
LEMMA ChangedKeeps ==
  ASSUME CountInv, NEW s \in Slots, req[s].at = "read", NEW r, Request(r), r.at = "changed",
         req' = [req EXCEPT ![s] = r], UNCHANGED <<total, status, running>>,
         next' \in Nat \ {0}, rcp' \subseteq 1..(next' - 1),
         seen' \in Histories, seen'.overlap = seen.overlap, ~seen'.off => ~seen.off,
         r.kind \in {"clear", "start"} => Counted(r) = Cardinality(rcp'),
         ~seen'.off /\ req[s].copy.total = Cardinality(rcp) => Counted(r) = Cardinality(rcp')
  PROVE  CountInv'
<1>1. \A t \in Slots : req'[t] = IF t = s THEN r ELSE req[t]
  BY Updated DEF CountInv
<1>2. CountTypes'
  BY Updated DEF CountInv, CountTypes
<1>3. OneCounts'
  <2>1. SUFFICES ASSUME ~ seen'.overlap
                 PROVE  /\ \A t, u \in Slots : req'[t].at # "idle" /\ req'[u].at # "idle" => t = u
                        /\ \A t \in Slots : req'[t].at # "idle" => t = s
                        /\ ~seen'.off \/ r.kind \in {"clear", "start"} =>
                             Counted(r) = Cardinality(rcp')
    BY <1>1 DEF OneCounts, Recounts
  <2>2. \A t \in Slots : req[t].at # "idle" => t = s
    BY <2>1 DEF CountInv, OneCounts
  <2>3. ~seen.off => req[s].copy.total = Cardinality(rcp)
    BY <2>1, <2>2 DEF CountInv, OneCounts
  <2>4. QED
    BY <1>1, <2>2, <2>3
<1>4. QED
  BY <1>2, <1>3 DEF CountInv

LEMMA AddsKeeps ==
  ASSUME CountInv, NEW s \in Slots, Adds(s) PROVE CountInv'
<1> DEFINE n == req[s].n
           r == [req[s] EXCEPT !.at = "changed"]
<1>1. /\ req[s].at = "read" /\ req[s].kind \in {"upload", "manual"} /\ n \in Nat
      /\ rcp' = rcp \cup next..(next + n - 1) /\ next' = next + n
      /\ req' = [req EXCEPT ![s].at = "changed"] /\ UNCHANGED <<total, status, running, seen>>
  BY DEF CountInv, CountTypes, Request, Adds, Handles
<1>2. next' \in Nat \ {0} /\ rcp' \subseteq 1..(next' - 1)
  BY <1>1 DEF CountInv, CountTypes
<1>3. Cardinality(rcp') = Cardinality(rcp) + n
  BY <1>1, Added DEF CountInv
<1>4. Counted(req[s]) = req[s].copy.total + n
  BY <1>1 DEF Counted
<1>5. seen' \in Histories
  BY <1>1 DEF CountInv, CountTypes
<1>6. /\ Request(r) /\ r.at = "changed" /\ r.kind = req[s].kind /\ Counted(r) = Counted(req[s])
      /\ req' = [req EXCEPT ![s] = r]
  BY <1>1, MovesOn DEF CountInv
<1> HIDE DEF n, r
<1>7. QED
  BY <1>1, <1>2, <1>3, <1>4, <1>5, <1>6, ChangedKeeps

LEMMA DeletesKeeps ==
  ASSUME CountInv, NEW s \in Slots, Deletes(s) PROVE CountInv'
<1> DEFINE n == req[s].n
           r == [req[s] EXCEPT !.at = "changed"]
<1>1. /\ req[s].at = "read" /\ req[s].kind = "delete" /\ req[s].copy.total \in Nat
      /\ rcp' = rcp \ {n} /\ next' = next
      /\ req' = [req EXCEPT ![s].at = "changed"] /\ UNCHANGED <<total, status, running>>
      /\ seen' = [seen EXCEPT !.off = @ \/ n \notin rcp]
  BY DEF CountInv, CountTypes, Request, Rows, Deletes, Handles
<1>2. next' \in Nat \ {0} /\ rcp' \subseteq 1..(next' - 1)
  BY <1>1 DEF CountInv, CountTypes
<1>3. /\ seen' \in Histories
      /\ seen'.overlap = seen.overlap /\ seen'.off = (seen.off \/ n \notin rcp)
  BY <1>1 DEF CountInv, CountTypes, Histories
<1>4. ASSUME n \in rcp PROVE Cardinality(rcp) > 0 /\ Cardinality(rcp') = Cardinality(rcp) - 1
  <2>1. IsFiniteSet(rcp) /\ Cardinality(rcp) \in Nat
    BY TableFinite DEF CountInv
  <2>2. Cardinality(rcp \ {n}) = Cardinality(rcp) - 1
    BY <1>4, <2>1, FS_RemoveElement
  <2>3. Cardinality(rcp) # 0
    BY <1>4, <2>1, FS_EmptySet
  <2>4. QED
    BY <1>1, <2>1, <2>2, <2>3
<1>5. Counted(req[s]) = IF req[s].copy.total > 0 THEN req[s].copy.total - 1 ELSE 0
  BY <1>1 DEF Counted
<1>6. /\ Request(r) /\ r.at = "changed" /\ r.kind = req[s].kind /\ Counted(r) = Counted(req[s])
      /\ req' = [req EXCEPT ![s] = r]
  BY <1>1, MovesOn DEF CountInv
<1> HIDE DEF n, r
<1>7. ~seen'.off /\ req[s].copy.total = Cardinality(rcp) => Counted(r) = Cardinality(rcp')
  BY <1>1, <1>3, <1>4, <1>5, <1>6
<1>8. QED
  BY <1>1, <1>2, <1>3, <1>6, <1>7, ChangedKeeps

LEMMA DeletesAllKeeps ==
  ASSUME CountInv, NEW s \in Slots, DeletesAll(s) PROVE CountInv'
<1> DEFINE r == [req[s] EXCEPT !.at = "changed"]
<1>1. /\ req[s].at = "read" /\ req[s].kind = "clear" /\ rcp' = {} /\ next' = next
      /\ req' = [req EXCEPT ![s].at = "changed"] /\ UNCHANGED <<total, status, running, seen>>
  BY DEF DeletesAll, Handles
<1>2. next' \in Nat \ {0} /\ rcp' \subseteq 1..(next' - 1) /\ seen' \in Histories
  BY <1>1 DEF CountInv, CountTypes
<1>3. Counted(req[s]) = 0 /\ Cardinality(rcp') = 0
  BY <1>1, FS_EmptySet DEF Counted
<1>4. /\ Request(r) /\ r.at = "changed" /\ Counted(r) = Counted(req[s])
      /\ req' = [req EXCEPT ![s] = r]
  BY <1>1, MovesOn DEF CountInv
<1> HIDE DEF r
<1>5. QED
  BY <1>1, <1>2, <1>3, <1>4, ChangedKeeps

LEMMA StartCountsKeeps ==
  ASSUME CountInv, NEW s \in Slots, StartCounts(s) PROVE CountInv'
<1> DEFINE r == [req[s] EXCEPT !.at = "changed", !.n = Cardinality(rcp)]
<1>1. /\ req[s].at = "read" /\ req[s].kind = "start" /\ Request(req[s])
      /\ UNCHANGED <<rcp, next, total, status, running, seen>>
  BY DEF StartCounts, KeepServer, CountInv, CountTypes
<1>2. req' = [req EXCEPT ![s] = r]
  BY DEF StartCounts, CountInv, CountTypes
<1>3. r.at = "changed" /\ r.kind = "start" /\ r.n = Cardinality(rcp) /\ r.copy = req[s].copy
  BY <1>1 DEF Request
<1>4. Cardinality(rcp) \in Nat
  BY TableFinite DEF CountInv
<1>5. r \in [at : {"idle", "sent", "read", "changed", "done"}, kind : Kinds \cup {"none"},
             n : {r.n}, copy : Rows]
  BY <1>1, <1>3 DEF Request
<1> HIDE DEF r
<1>6. Request(r)
  BY <1>1, <1>3, <1>4, <1>5 DEF Request
<1>7. Counted(r) = Cardinality(rcp)
  BY <1>3 DEF Counted
<1>8. next' \in Nat \ {0} /\ rcp' \subseteq 1..(next' - 1) /\ seen' \in Histories
  BY <1>1 DEF CountInv, CountTypes
<1>9. QED
  BY <1>1, <1>2, <1>3, <1>6, <1>7, <1>8, ChangedKeeps

LEMMA EditFillsKeeps ==
  ASSUME CountInv, NEW s \in Slots, EditFills(s) PROVE CountInv'
<1> DEFINE r == [req[s] EXCEPT !.at = "changed"]
<1>1. /\ req[s].at = "read" /\ req[s].kind = "edit"
      /\ req' = [req EXCEPT ![s].at = "changed"]
      /\ UNCHANGED <<rcp, next, total, status, running, seen>>
  BY DEF EditFills, Handles, KeepServer
<1>2. next' \in Nat \ {0} /\ rcp' \subseteq 1..(next' - 1) /\ seen' \in Histories
  BY <1>1 DEF CountInv, CountTypes
<1>3. Counted(req[s]) = req[s].copy.total
  BY <1>1 DEF Counted
<1>4. /\ Request(r) /\ r.at = "changed" /\ r.kind = "edit" /\ Counted(r) = Counted(req[s])
      /\ req' = [req EXCEPT ![s] = r]
  BY <1>1, MovesOn DEF CountInv
<1> HIDE DEF r
<1>5. QED
  BY <1>1, <1>2, <1>3, <1>4, ChangedKeeps

\* A request is through with the row, which says the number of recipients if it has to.
LEMMA SettledKeeps ==
  ASSUME CountInv, NEW s \in Slots, req[s].at # "idle",
         NEW r, Request(r), r.at \in {"idle", "done"}, req' = [req EXCEPT ![s] = r],
         UNCHANGED <<rcp, next>>, total' \in Nat, status' \in Statuses, running' \in BOOLEAN,
         seen' \in Histories, seen'.overlap = seen.overlap,
         ~seen.overlap /\ ~seen'.off => total' = Cardinality(rcp)
  PROVE  CountInv'
<1>1. \A t \in Slots : req'[t] = IF t = s THEN r ELSE req[t]
  BY Updated DEF CountInv
<1>2. CountTypes'
  BY Updated DEF CountInv, CountTypes
<1>3. OneCounts'
  <2>1. SUFFICES ASSUME ~ seen.overlap
                 PROVE  /\ \A t, u \in Slots : req'[t].at # "idle" /\ req'[u].at # "idle" => t = u
                        /\ \A t \in Slots : req'[t].at \notin {"read", "changed"}
    BY DEF OneCounts
  <2>2. \A t \in Slots : req[t].at # "idle" => t = s
    BY <2>1 DEF CountInv, OneCounts
  <2>3. QED
    BY <1>1, <2>2
<1>4. QED
  BY <1>2, <1>3 DEF CountInv

LEMMA FreeRequest == Request(Free) /\ Free.at = "idle" /\ Free.kind = "none"
  BY DEF Free, NoRow, Request, Kinds, Rows, Statuses

LEMMA ResetSavesKeeps ==
  ASSUME CountInv, NEW s \in Slots, ResetSaves(s) PROVE CountInv'
<1> DEFINE r == [req[s] EXCEPT !.at = "done"]
<1>1. /\ req[s].at = "read" /\ req' = [req EXCEPT ![s].at = "done"]
      /\ UNCHANGED <<rcp, next, running>> /\ total' = 0 /\ status' = "open"
      /\ seen' = [seen EXCEPT !.off = TRUE]
  BY DEF ResetSaves, Handles
<1>2. Request(r) /\ r.at = "done" /\ req' = [req EXCEPT ![s] = r]
  BY <1>1, MovesOn DEF CountInv
<1>3. seen' \in Histories /\ seen'.overlap = seen.overlap /\ seen'.off
  BY <1>1 DEF CountInv, CountTypes, Histories
<1>4. status' \in Statuses /\ running' \in BOOLEAN
  BY <1>1 DEF CountInv, CountTypes, Statuses
<1> HIDE DEF r
<1>5. QED
  BY <1>1, <1>2, <1>3, <1>4, SettledKeeps

LEMMA RefusesKeeps ==
  ASSUME CountInv, NEW s \in Slots, Refuses(s) PROVE CountInv'
<1>1. /\ req[s].at \in {"sent", "read"} /\ req' = [req EXCEPT ![s] = Free]
      /\ UNCHANGED <<rcp, next, total, status, running, seen>>
  BY DEF Refuses, Leaves, KeepServer
<1>2. ~seen.overlap /\ ~seen.off => total = Cardinality(rcp)
  BY <1>1 DEF CountInv, OneCounts
<1>3. total' \in Nat /\ status' \in Statuses /\ running' \in BOOLEAN /\ seen' \in Histories
  BY <1>1 DEF CountInv, CountTypes
<1>4. QED
  BY <1>1, <1>2, <1>3, FreeRequest, SettledKeeps

LEMMA CountSavesKeeps ==
  ASSUME CountInv, NEW s \in Slots, CountSaves(s) PROVE CountInv'
<1>1. /\ req[s].at = "changed" /\ total' = Counted(req[s]) /\ Request(req[s])
      /\ UNCHANGED <<rcp, next>>
      /\ seen' = [seen EXCEPT !.off = @ /\ ~Recounts(s), !.behind = @ \/ req[s].kind \in Others]
  BY DEF CountSaves, CountInv, CountTypes
<1>2. total' \in Nat /\ status' \in Statuses
  <2>1. req[s].copy.total \in Nat /\ req[s].copy.status \in Statuses /\ req[s].kind \in Kinds
    BY <1>1 DEF Request, Rows
  <2>2. req[s].kind \in {"upload", "manual", "start"} => req[s].n \in Nat
    BY <1>1 DEF Request
  <2>3. req[s].kind # "reset" => total' \in Nat
    BY <1>1, <2>1, <2>2 DEF Counted, Kinds, Edits, Others
  <2>4. req[s].kind # "reset"
    BY <1>1 DEF Request
  <2>5. status' \in Statuses
    BY <2>1 DEF CountSaves, Statuses
  <2>6. QED
    BY <2>3, <2>4, <2>5
<1>3. running' \in BOOLEAN
  BY DEF CountSaves, Launches, CountInv, CountTypes
<1>4. /\ seen' \in Histories /\ seen'.overlap = seen.overlap
      /\ seen'.off = (seen.off /\ ~Recounts(s))
  BY <1>1 DEF CountInv, CountTypes, Histories
<1>5. ~seen.overlap /\ ~seen'.off => total' = Cardinality(rcp)
  BY <1>1, <1>4 DEF CountInv, OneCounts
<1>6. PICK r : Request(r) /\ r.at \in {"idle", "done"} /\ req' = [req EXCEPT ![s] = r]
  <2>1. CASE req[s].kind \in Others
    <3>1. req' = [req EXCEPT ![s] = Free]
      BY <2>1 DEF CountSaves, Leaves
    <3>2. QED
      BY <3>1, FreeRequest
  <2>2. CASE req[s].kind \notin Others
    <3>1. req' = [req EXCEPT ![s].at = "done"]
      BY <2>2 DEF CountSaves, Handles
    <3>2. QED
      BY <1>1, <3>1, MovesOn DEF CountInv
  <2>3. QED
    BY <2>1, <2>2
<1>7. QED
  BY <1>1, <1>2, <1>3, <1>4, <1>5, <1>6, SettledKeeps

LEMMA CountFailsKeeps ==
  ASSUME CountInv, NEW s \in Slots, CountFails(s) PROVE CountInv'
<1>1. /\ req[s].at = "changed" /\ req' = [req EXCEPT ![s] = Free]
      /\ UNCHANGED <<rcp, next, total, status>>
      /\ seen' = [seen EXCEPT !.off = TRUE, !.joined = @ \/ req[s].kind \in Edits]
  BY DEF CountFails, Leaves
<1>2. total' \in Nat /\ status' \in Statuses
  BY <1>1 DEF CountInv, CountTypes
<1>3. running' \in BOOLEAN
  BY DEF CountFails, Launches, CountInv, CountTypes
<1>4. seen' \in Histories /\ seen'.overlap = seen.overlap /\ seen'.off
  BY <1>1 DEF CountInv, CountTypes, Histories
<1>5. QED
  BY <1>1, <1>2, <1>3, <1>4, FreeRequest, SettledKeeps

LEMMA AnsweredKeeps ==
  ASSUME CountInv, NEW s \in Slots, Answered(s) PROVE CountInv'
<1>1. /\ req[s].at = "done" /\ req' = [req EXCEPT ![s] = Free]
      /\ UNCHANGED <<rcp, next, total, status, running>>
  BY DEF Answered, KeepServer
<1>2. seen' \in Histories /\ seen'.overlap = seen.overlap /\ seen'.off = seen.off
  BY DEF Answered, InvalidatesList, CountInv, CountTypes, Histories
<1>3. ~seen.overlap /\ ~seen.off => total = Cardinality(rcp)
  BY <1>1 DEF CountInv, OneCounts
<1>4. total' \in Nat /\ status' \in Statuses /\ running' \in BOOLEAN
  BY <1>1 DEF CountInv, CountTypes
<1>5. QED
  BY <1>1, <1>2, <1>3, <1>4, FreeRequest, SettledKeeps

-----------------------------------------------------------------------------
(* Every step *)

LEMMA UserKeeps == CountInv /\ User => CountInv'
<1> SUFFICES ASSUME CountInv, User PROVE CountInv'
  OBVIOUS
<1>1. CASE HandleFileUpload
  <2>1. PICK n \in FileSizes : Mutates("upload", n)
    BY <1>1 DEF HandleFileUpload
  <2>2. n \in Nat /\ Overlaps
    BY <1>1, FileAssumption DEF HandleFileUpload
  <2>3. QED
    BY <2>1, <2>2, MutatesKeeps DEF Kinds, Edits
<1>2. CASE HandleAddManual
  BY <1>2, MutatesKeeps DEF HandleAddManual, Kinds, Edits
<1>3. CASE HandleClearAll
  BY <1>3, MutatesKeeps DEF HandleClearAll, Kinds, Edits
<1>4. CASE HandleDeleteRecipient
  <2>1. PICK r \in Shown.rows : Mutates("delete", r)
    BY <1>4 DEF HandleDeleteRecipient
  <2>2. Overlaps
    BY <1>4 DEF HandleDeleteRecipient
  <2>3. QED
    BY <2>1, <2>2, MutatesKeeps DEF Kinds, Edits
<1>5. CASE ResetToDraft
  BY <1>5, MutatesKeeps DEF ResetToDraft, Kinds
<1>6. CASE Elsewhere
  <2>1. PICK kind \in Others : Mutates(kind, 0)
    BY <1>6 DEF Elsewhere
  <2>2. QED
    BY <1>6, <2>1, MutatesKeeps DEF Elsewhere, Kinds
<1>7. CASE Previous \/ NextPage \/ HandleSearch
  <2>1. KeepServer /\ UNCHANGED <<req, seen>>
    BY <1>7 DEF Previous, NextPage, HandleSearch, Turns
  <2>2. QED
    BY <2>1, QueryStep DEF KeepServer, CountInv, CountTypes
<1>8. QED
  BY <1>1, <1>2, <1>3, <1>4, <1>5, <1>6, <1>7 DEF User

LEMMA NextKeeps == CountInv /\ [Next]_vars => CountInv'
<1> SUFFICES ASSUME CountInv, [Next]_vars PROVE CountInv'
  OBVIOUS
<1>1. CASE User
  BY <1>1, UserKeeps
<1>2. CASE ListReads \/ ListDone \/ CountReads \/ CountDone \/ UNCHANGED vars
  <2>1. KeepServer /\ UNCHANGED req /\ seen' \in {seen, [seen EXCEPT !.behind = FALSE]}
    BY <1>2 DEF ListReads, ListDone, CountReads, CountDone, vars, KeepServer
  <2>2. seen' \in Histories /\ seen'.overlap = seen.overlap /\ seen'.off = seen.off
    BY <2>1 DEF CountInv, CountTypes, Histories
  <2>3. QED
    BY <2>1, <2>2, QueryStep DEF KeepServer, CountInv, CountTypes
<1>3. CASE \E s \in Slots : \/ CampaignReads(s) \/ Adds(s) \/ Deletes(s) \/ DeletesAll(s)
                            \/ StartCounts(s) \/ EditFills(s) \/ ResetSaves(s)
                            \/ Refuses(s) \/ CountSaves(s) \/ CountFails(s)
                            \/ Answered(s)
  BY <1>3, CampaignReadsKeeps, AddsKeeps, DeletesKeeps, DeletesAllKeeps, StartCountsKeeps,
     EditFillsKeeps, ResetSavesKeeps, RefusesKeeps, CountSavesKeeps, CountFailsKeeps,
     AnsweredKeeps
<1>4. CASE RunEnds
  <2>1. /\ UNCHANGED <<rcp, total, next, req>> /\ running' = FALSE
        /\ status' \in Statuses /\ seen' = [seen EXCEPT !.behind = TRUE]
    BY <1>4 DEF RunEnds, CountInv, CountTypes, Statuses
  <2>2. seen' \in Histories /\ seen'.overlap = seen.overlap /\ seen'.off = seen.off
    BY <2>1 DEF CountInv, CountTypes, Histories
  <2>3. QED
    BY <2>1, <2>2, QueryStep
<1>5. QED
  BY <1>1, <1>2, <1>3, <1>4 DEF Next, System

-----------------------------------------------------------------------------

\* TotalsAgree: requests that do not overlap leave total_count at the number of
\* recipients, for any uploads, pages and fetches beside them, but for a reset, a
\* deletion of nobody and a failing save; and the next clearing or start sets it right
\* after these (recipient/handler.go:341, sender/service.go:151).
THEOREM TotalAgrees == Spec => []TotalsAgree
<1>1. CountInv => TotalsAgree
  BY DEF CountInv, OneCounts, TotalsAgree, Quiet
<1>2. QED
  BY <1>1, InitCount, NextKeeps, PTL DEF Spec

-----------------------------------------------------------------------------
(* The tab: what it has fetched, and where it is *)

Keys == Pages \X Searches
Fetch == {"none", "asked", "read"}
Lists == {l \in [rows : SUBSET Nat, total : Nat, pages : Int] : l.pages = Ceiling(l.total)}
Queries == [known : BOOLEAN, data : Lists, fetch : Fetch, reply : Lists]

TabTypes ==
  /\ cache \in [Keys -> Queries]
  /\ tab \in [page : Pages, search : Searches, stranded : BOOLEAN]
  /\ cq \in [data : Rows, fetch : Fetch, reply : Rows]
  /\ cache[Key].fetch = "none" => cache[Key].known

\* A request that has changed the table and is not answered.
Changed(kinds) == \E s \in Slots : req[s].kind \in kinds /\ req[s].at \in {"changed", "done"}
Shrinking == {"delete", "clear"}

\* The header knows the row, or will ask for it once the request is answered, unless
\* it changed elsewhere.
HeaderInv ==
  (\A s \in Slots : req[s].at # "done") /\ ~seen.behind =>
    /\ cq.fetch = "none" => cq.data = Row
    /\ cq.fetch = "read" => cq.reply = Row

\* The lists that were read, and the one on the screen, are the table's until that
\* changes, and no longer than it until it shrinks.
AllFresh ==
  /\ \A k \in Keys : cache[k].fetch = "read" => cache[k].reply = Listed(k[1], k[2])
  /\ cache[Key].fetch = "none" => Shown = Listed(tab.page, tab.search)
Count(search) == Cardinality(Matching(search))
AllLow ==
  /\ \A k \in Keys : cache[k].fetch = "read" => cache[k].reply.total <= Count(k[2])
  /\ cache[Key].fetch = "none" => Shown.total <= Count(tab.search)
FreshInv == ~seen.joined /\ ~Changed(Edits) => AllFresh
LowInv == ~seen.joined /\ ~Changed(Shrinking) => AllLow

\* A page that the user was led to is not empty, for while something shrinks the table he
\* is on the first page, or stranded.
PlaceInv ==
  /\ Shrinks => tab.page = 1 \/ tab.stranded
  /\ ~seen.joined /\ ~tab.stranded => tab.page = 1 \/ Count(tab.search) > Offset(tab.page)

\* Inductive with CountInv.
TabInv == TabTypes /\ HeaderInv /\ FreshInv /\ LowInv /\ PlaceInv

\* A page lies before the number of pages exactly when there is more behind it.
LEMMA CeilingCovers ==
  ASSUME NEW n \in Nat, NEW p \in Nat PROVE p < Ceiling(n) <=> n > p * PageSize
<1> DEFINE q == n \div PageSize
           r == n % PageSize
<1>1. q \in Nat /\ r \in 0..(PageSize - 1) /\ n = (PageSize * q) + r
  BY PageSizeAssumption
<1>2. Ceiling(n) = IF r # 0 THEN q + 1 ELSE q
  BY <1>1 DEF Ceiling
<1> HIDE DEF q, r
<1>3. CASE p < q
  <2>1. p * PageSize + PageSize <= q * PageSize
    BY <1>1, <1>3, PageSizeAssumption
  <2>2. QED
    BY <1>1, <1>2, <1>3, <2>1, PageSizeAssumption
<1>4. CASE p = q
  BY <1>1, <1>2, <1>4, PageSizeAssumption
<1>5. CASE p > q
  <2>1. q * PageSize + PageSize <= p * PageSize
    BY <1>1, <1>5, PageSizeAssumption
  <2>2. QED
    BY <1>1, <1>2, <1>5, <2>1, PageSizeAssumption
<1>6. QED
  BY <1>1, <1>3, <1>4, <1>5

LEMMA CeilingType == ASSUME NEW n \in Nat PROVE Ceiling(n) \in Int
<1>1. n \div PageSize \in Int
  BY PageSizeAssumption
<1>2. QED
  BY <1>1 DEF Ceiling

LEMMA MatchingFinite ==
  ASSUME CountTypes, NEW search
  PROVE  /\ Matching(search) \in SUBSET rcp /\ IsFiniteSet(Matching(search))
         /\ Matching(search) \in SUBSET Nat /\ Count(search) \in Nat
<1>1. Matching(search) \in SUBSET rcp
  BY DEF Matching
<1>2. IsFiniteSet(Matching(search))
  BY <1>1, TableFinite, FS_Subset
<1>3. rcp \in SUBSET Nat
  BY DEF CountTypes
<1>4. Count(search) \in Nat
  BY <1>2, FS_CardinalityType DEF Count
<1>5. QED
  BY <1>1, <1>2, <1>3, <1>4

LEMMA ListedType ==
  ASSUME CountTypes, NEW p, NEW search
  PROVE  Listed(p, search) \in Lists /\ Listed(p, search).total = Count(search)
<1> DEFINE all == Matching(search)
           rows == {r \in all : Within(Cardinality({o \in all : o < r}), p)}
<1>1. Listed(p, search) = [rows |-> rows, total |-> Count(search), pages |-> Ceiling(Count(search))]
  BY DEF Listed, Count
<1>2. rows \in SUBSET Nat /\ Count(search) \in Nat
  BY MatchingFinite
<1> HIDE DEF rows
<1>3. QED
  BY <1>1, <1>2, CeilingType DEF Lists

\* A page with recipients behind its first has rows.
LEMMA RowsShown ==
  ASSUME CountTypes, NEW p \in Nat \ {0}, NEW search, Count(search) > Offset(p)
  PROVE  Listed(p, search).rows # {}
<1> DEFINE all == Matching(search)
<1>1. /\ all \in SUBSET (0..next) /\ next \in Nat
      /\ Offset(p) \in Nat /\ Offset(p) < Cardinality(all)
  <2>1. all \in SUBSET rcp
    BY MatchingFinite
  <2>2. Offset(p) \in Nat
    <3>1. p - 1 \in Nat /\ PageSize \in Nat
      BY PageSizeAssumption
    <3>2. (p - 1) * PageSize \in Nat
      BY <3>1
    <3>3. QED
      BY <3>2 DEF Offset
  <2>3. Count(search) \in Nat
    BY MatchingFinite
  <2>4. QED
    BY <2>1, <2>2, <2>3 DEF CountTypes, Count
<1> HIDE DEF all
<1>2. PICK r \in all : Cardinality(Below(all, r)) = Offset(p)
  BY <1>1, MemberOfRank
<1>3. Within(Cardinality({o \in all : o < r}), p)
  BY <1>1, <1>2, PageSizeAssumption DEF Within, Below
<1>4. r \in Listed(p, search).rows
  BY <1>2, <1>3 DEF Listed, all
<1>5. QED
  BY <1>4

LEMMA KeyIsOne ==
  ASSUME TabTypes PROVE Key \in Keys /\ Key[1] = tab.page /\ Key[2] = tab.search
  BY DEF TabTypes, Key, Keys

\* The initial state: the first list is being asked for.
LEMMA TabInit == Init => TabInv
<1> SUFFICES ASSUME Init PROVE TabInv
  OBVIOUS
<1>1. CountTypes
  BY InitCount DEF CountInv
<1>2. tab = [page |-> 1, search |-> "", stranded |-> FALSE] /\ 1 \in Pages
  <2>1. MaxRcp \in Nat
    BY BoundsAssumption
  <2>2. 1 \in Pages
    BY <2>1 DEF Pages
  <2>3. QED
    BY <2>2 DEF Init
<1>3. tab \in [page : Pages, search : Searches, stranded : BOOLEAN] /\ Key = <<1, "">> /\ Key \in Keys
  BY <1>2 DEF Searches, Key, Keys
<1>4. NoList \in Lists
  BY PageSizeAssumption DEF NoList, Lists, Ceiling
<1>5. NoQuery \in Queries /\ NoQuery.fetch = "none"
  BY <1>4 DEF NoQuery, Queries, Fetch
<1> DEFINE asking == [NoQuery EXCEPT !.fetch = "asked"]
<1>6. asking \in Queries /\ asking.fetch = "asked"
  BY <1>5 DEF Queries, Fetch
<1>7. cache = [[k \in Keys |-> NoQuery] EXCEPT ![Key] = asking]
  BY <1>3 DEF Init, Keys
<1> HIDE DEF asking
<1>8. cache \in [Keys -> Queries] /\ \A k \in Keys : cache[k] = IF k = Key THEN asking ELSE NoQuery
  BY <1>3, <1>5, <1>6, <1>7
<1>9. TabTypes
  BY <1>1, <1>3, <1>6, <1>8 DEF Init, TabTypes, CountTypes, Fetch, Row, NoRow, Rows, Statuses
<1>10. HeaderInv
  BY DEF Init, HeaderInv, Row
<1>11. \A k \in Keys : cache[k].fetch # "read"
  BY <1>5, <1>6, <1>8
<1>12. FreshInv /\ LowInv
  BY <1>3, <1>6, <1>8, <1>11 DEF FreshInv, LowInv, AllFresh, AllLow
<1>13. PlaceInv
  <2>1. \A s \in Slots : req[s].kind = "none"
    BY DEF Init, Free
  <2>2. ~Shrinks
    BY <2>1 DEF Shrinks, Busy
  <2>3. tab.page = 1
    BY <1>2
  <2>4. QED
    BY <2>2, <2>3 DEF PlaceInv
<1>14. QED
  BY <1>9, <1>10, <1>12, <1>13 DEF TabInv

\* What the tab has of lists and where it is, without the types and the header.
ListsInv == FreshInv /\ LowInv /\ PlaceInv

\* Steps after which the table, the lists and the place are as before, and no change
\* is taken for answered.
LEMMA SameLists ==
  ASSUME ListsInv, UNCHANGED <<rcp, cache, tab>>, seen'.joined = seen.joined,
         Changed(Edits) => Changed(Edits)', Changed(Shrinking) => Changed(Shrinking)',
         Shrinks' => Shrinks
  PROVE  ListsInv'
<1>1. \A p, search : Listed(p, search)' = Listed(p, search)
  BY DEF Listed, Matching
<1>2. \A search : Count(search)' = Count(search)
  BY DEF Count, Matching
<1>3. AllFresh => AllFresh'
  <2>1. Listed(tab.page, tab.search)' = Listed(tab.page, tab.search)
    BY DEF Listed, Matching
  <2>2. QED
    BY <1>1, <2>1 DEF AllFresh, Key, Shown, Listed, Matching
<1>4. AllLow => AllLow'
  BY <1>2 DEF AllLow, Key, Shown, Count, Matching
<1>5. PlaceInv'
  BY DEF ListsInv, PlaceInv, Count, Matching
<1>6. QED
  BY <1>3, <1>4, <1>5 DEF ListsInv, FreshInv, LowInv

LEMMA RequestAt ==
  ASSUME CountTypes, NEW s \in Slots, NEW x, req' = [req EXCEPT ![s].at = x]
  PROVE  \A t \in Slots : /\ req'[t].kind = req[t].kind
                          /\ req'[t].at = IF t = s THEN x ELSE req[t].at
<1>1. Request(req[s])
  BY DEF CountTypes
<1>2. req' = [req EXCEPT ![s] = [req[s] EXCEPT !.at = x]]
  BY DEF CountTypes
<1>3. [req[s] EXCEPT !.at = x].kind = req[s].kind /\ [req[s] EXCEPT !.at = x].at = x
  BY <1>1 DEF Request
<1> DEFINE r == [req[s] EXCEPT !.at = x]
<1>4. \A t \in Slots : req'[t] = IF t = s THEN r ELSE req[t]
  BY <1>2 DEF CountTypes
<1>5. r.kind = req[s].kind /\ r.at = x
  BY <1>3
<1> HIDE DEF r
<1>6. QED
  BY <1>4, <1>5

-----------------------------------------------------------------------------
(* The requests, as the tab sees them *)

LEMMA TabMutates ==
  ASSUME CountInv, TabInv, NEW kind \in Kinds, NEW n, kind \in {"upload", "manual"} => n \in Nat,
         Mutates(kind, n), Overlaps,
         IF kind \in Shrinking THEN tab' = [tab EXCEPT !.stranded = @ \/ tab.page > 1]
                               ELSE tab' = tab
  PROVE  TabInv'
<1> DEFINE r == [at |-> "sent", kind |-> kind, n |-> n, copy |-> NoRow]
<1>1. PICK s \in Slots : req[s].at = "idle" /\ req' = [req EXCEPT ![s] = r]
  BY DEF Mutates
<1>2. Request(r) /\ r.at = "sent" /\ r.kind = kind
  BY DEF Request, NoRow, Rows, Statuses
<1> HIDE DEF r
<1>3. \A t \in Slots : req'[t] = IF t = s THEN r ELSE req[t]
  BY <1>1, <1>2, Updated DEF CountInv
<1>4. /\ UNCHANGED <<rcp, total, status, cache, cq>>
      /\ seen'.joined = seen.joined /\ seen'.behind = seen.behind
  BY DEF Mutates, KeepServer, Overlaps, CountInv, CountTypes, Histories
<1>5. /\ tab' \in [page : Pages, search : Searches, stranded : BOOLEAN]
      /\ tab'.page = tab.page /\ tab'.search = tab.search
      /\ tab'.stranded = (tab.stranded \/ (kind \in Shrinking /\ tab.page > 1))
  BY DEF TabInv, TabTypes
<1>6. Key' = Key /\ Shown' = Shown
  BY <1>4, <1>5 DEF Key, Shown
<1>7. TabTypes'
  BY <1>4, <1>5, <1>6 DEF TabInv, TabTypes
<1>8. HeaderInv'
  BY <1>1, <1>3, <1>4 DEF TabInv, HeaderInv, Row
<1>9. /\ Changed(Edits) => Changed(Edits)'
      /\ Changed(Shrinking) => Changed(Shrinking)'
  BY <1>1, <1>3 DEF Changed
<1>10. /\ \A p, search : Listed(p, search)' = Listed(p, search)
       /\ \A search : Count(search)' = Count(search)
  BY <1>4 DEF Listed, Count, Matching
<1>11. Listed(tab.page, tab.search)' = Listed(tab.page, tab.search)
       /\ Count(tab.search)' = Count(tab.search) /\ Offset(tab.page)' = Offset(tab.page)
  BY <1>4, <1>5 DEF Listed, Count, Matching, Offset
<1>12. FreshInv'
  <2>1. ASSUME AllFresh PROVE AllFresh'
    <3>1. \A k \in Keys : cache'[k].fetch = "read" => cache'[k].reply = Listed(k[1], k[2])'
      BY <1>4, <2>1 DEF AllFresh, Listed, Matching
    <3>2. cache'[Key'].fetch = "none" => Shown' = Listed(tab.page, tab.search)'
      BY <1>4, <1>6, <1>11, <2>1 DEF AllFresh
    <3>3. QED
      BY <3>1, <3>2 DEF AllFresh, Listed, Matching
  <2>2. QED
    BY <1>4, <1>9, <2>1 DEF TabInv, FreshInv
<1>13. LowInv'
  <2>1. AllLow => AllLow'
    BY <1>4, <1>6, <1>10, <1>11 DEF AllLow, Count, Matching
  <2>2. QED
    BY <1>4, <1>9, <2>1 DEF TabInv, LowInv
<1>14. PlaceInv'
  <2>1. Shrinks' => Shrinks \/ kind \in Shrinking
    BY <1>2, <1>3 DEF Shrinks, Busy, Shrinking
  <2>2. tab.page > 1 \/ tab.page = 1
    BY DEF TabInv, TabTypes, Pages
  <2>3. Shrinks' => tab'.page = 1 \/ tab'.stranded
    BY <1>5, <2>1, <2>2 DEF TabInv, PlaceInv
  <2>4. QED
    BY <1>4, <1>5, <1>11, <2>3 DEF TabInv, PlaceInv
<1>15. QED
  BY <1>7, <1>8, <1>12, <1>13, <1>14 DEF TabInv

\* A request that leaves the table alone goes on, or leaves: no list is about that,
\* unless it takes with it a change that nothing will be fetched after.
LEMMA TabRequest ==
  ASSUME CountInv, TabInv, NEW s \in Slots, NEW r, req' = [req EXCEPT ![s] = r],
         UNCHANGED <<rcp, cache, cq, tab>>, seen'.joined \in {seen.joined, TRUE},
         \/ /\ r.kind = req[s].kind
            /\ req[s].at \in {"changed", "done"} => r.at \in {"changed", "done"}
         \/ r.kind = "none" /\ (\/ seen'.joined = TRUE \/ req[s].kind \notin Edits
                               \/ req[s].at \in {"sent", "read"}),
         \/ /\ req[s].at # "done" /\ UNCHANGED <<total, status>>
            /\ seen'.behind = seen.behind
         \/ seen'.behind = TRUE
         \/ r.at = "done"
  PROVE  TabInv'
<1>1. \A t \in Slots : req'[t] = IF t = s THEN r ELSE req[t]
  BY DEF CountInv, CountTypes
<1>2. TabTypes'
  BY DEF TabInv, TabTypes, Key
<1>3. HeaderInv'
  BY <1>1 DEF TabInv, HeaderInv, Row
<1>4. Shrinks' => Shrinks
  BY <1>1 DEF Shrinks, Busy
<1>5. CASE seen'.joined = TRUE
  <2>1. FreshInv' /\ LowInv'
    BY <1>5 DEF FreshInv, LowInv
  <2>2. PlaceInv'
    BY <1>4, <1>5 DEF TabInv, PlaceInv
  <2>3. QED
    BY <1>2, <1>3, <2>1, <2>2 DEF TabInv
<1>6. CASE seen'.joined = seen.joined /\ seen'.joined # TRUE
  <2>1. /\ Changed(Edits) => Changed(Edits)'
        /\ Changed(Shrinking) => Changed(Shrinking)'
    BY <1>1, <1>6 DEF Changed, Shrinking, Edits
  <2>2. ListsInv'
    BY <1>4, <1>6, <2>1, SameLists DEF TabInv, ListsInv
  <2>3. QED
    BY <1>2, <1>3, <2>2 DEF TabInv, ListsInv
<1>7. QED
  BY <1>5, <1>6

\* The steps of the handlers beside the table.
LEMMA TabSaves ==
  ASSUME CountInv, TabInv, NEW s \in Slots,
         \/ CampaignReads(s) \/ StartCounts(s) \/ EditFills(s) \/ ResetSaves(s)
         \/ Refuses(s) \/ CountSaves(s) \/ CountFails(s)
  PROVE  TabInv'
<1>1. Request(req[s]) /\ seen \in Histories
  BY DEF CountInv, CountTypes
<1>2. UNCHANGED <<rcp, cache, cq, tab>>
  BY DEF CampaignReads, StartCounts, EditFills, ResetSaves, Refuses, CountSaves, CountFails,
     Handles, Leaves, KeepServer
<1>3. CASE CampaignReads(s)
  <2> DEFINE r == [req[s] EXCEPT !.at = "read", !.copy = Row]
  <2>1. req' = [req EXCEPT ![s] = r] /\ r.kind = req[s].kind /\ req[s].at = "sent"
    BY <1>1, <1>3 DEF CampaignReads, CountInv, CountTypes, Request
  <2>2. UNCHANGED <<total, status, seen>>
    BY <1>3 DEF CampaignReads, KeepServer
  <2> HIDE DEF r
  <2>3. QED
    BY <1>2, <2>1, <2>2, TabRequest
<1>4. CASE StartCounts(s)
  <2> DEFINE r == [req[s] EXCEPT !.at = "changed", !.n = Cardinality(rcp)]
  <2>1. req' = [req EXCEPT ![s] = r] /\ r.kind = req[s].kind /\ req[s].at = "read"
    BY <1>1, <1>4 DEF StartCounts, CountInv, CountTypes, Request
  <2>2. UNCHANGED <<total, status, seen>>
    BY <1>4 DEF StartCounts, KeepServer
  <2> HIDE DEF r
  <2>3. QED
    BY <1>2, <2>1, <2>2, TabRequest
<1>5. CASE EditFills(s)
  <2> DEFINE r == [req[s] EXCEPT !.at = "changed"]
  <2>1. req' = [req EXCEPT ![s] = r] /\ r.kind = req[s].kind /\ req[s].at = "read"
    BY <1>5, MovesOn DEF EditFills, Handles, CountInv
  <2>2. UNCHANGED <<total, status, seen>>
    BY <1>5 DEF EditFills, KeepServer
  <2> HIDE DEF r
  <2>3. QED
    BY <1>2, <2>1, <2>2, TabRequest
<1>6. CASE ResetSaves(s)
  <2> DEFINE r == [req[s] EXCEPT !.at = "done"]
  <2>1. /\ req' = [req EXCEPT ![s] = r] /\ r.kind = req[s].kind /\ r.at = "done"
        /\ req[s].at = "read"
    BY <1>6, MovesOn DEF ResetSaves, Handles, CountInv
  <2>2. seen'.joined = seen.joined
    BY <1>1, <1>6 DEF ResetSaves, Histories
  <2> HIDE DEF r
  <2>3. QED
    BY <1>2, <2>1, <2>2, TabRequest
<1>7. CASE Refuses(s)
  <2>1. req' = [req EXCEPT ![s] = Free] /\ req[s].at \in {"sent", "read"}
    BY <1>7 DEF Refuses, Leaves
  <2>2. UNCHANGED <<total, status, seen>>
    BY <1>7 DEF Refuses, KeepServer
  <2>3. QED
    BY <1>2, <2>1, <2>2, FreeRequest, TabRequest
<1>8. CASE CountSaves(s)
  <2>1. /\ req[s].at = "changed"
        /\ seen'.joined = seen.joined /\ seen'.behind = (seen.behind \/ req[s].kind \in Others)
    BY <1>1, <1>8 DEF CountSaves, Histories
  <2>2. CASE req[s].kind \in Others
    <3>1. req' = [req EXCEPT ![s] = Free] /\ seen'.behind = TRUE /\ req[s].kind \notin Edits
      BY <1>8, <2>1, <2>2 DEF CountSaves, Leaves, Others, Edits
    <3>2. QED
      BY <1>2, <2>1, <3>1, FreeRequest, TabRequest
  <2>3. CASE req[s].kind \notin Others
    <3> DEFINE r == [req[s] EXCEPT !.at = "done"]
    <3>1. req' = [req EXCEPT ![s] = r] /\ r.kind = req[s].kind /\ r.at = "done"
      BY <1>8, <2>1, <2>3, MovesOn DEF CountSaves, Handles, CountInv
    <3> HIDE DEF r
    <3>2. QED
      BY <1>2, <2>1, <3>1, TabRequest
  <2>4. QED
    BY <2>2, <2>3
<1>9. CASE CountFails(s)
  <2>1. /\ req[s].at = "changed" /\ req' = [req EXCEPT ![s] = Free]
        /\ UNCHANGED <<total, status>>
    BY <1>9 DEF CountFails, Leaves
  <2>2. /\ seen'.joined = (seen.joined \/ req[s].kind \in Edits)
        /\ seen'.behind = seen.behind /\ seen.joined \in BOOLEAN
    BY <1>1, <1>9 DEF CountFails, Histories
  <2>3. seen'.joined \in {seen.joined, TRUE} /\ (seen'.joined = TRUE \/ req[s].kind \notin Edits)
    BY <2>2
  <2>4. QED
    BY <1>2, <2>1, <2>2, <2>3, FreeRequest, TabRequest
<1>10. QED
  BY <1>3, <1>4, <1>5, <1>6, <1>7, <1>8, <1>9

\* New recipients only make the table longer.
LEMMA Longer ==
  ASSUME CountTypes, CountTypes', rcp \subseteq rcp', NEW search
  PROVE  Count(search) <= Count(search)' /\ Count(search) \in Nat /\ Count(search)' \in Nat
<1>1. IsFiniteSet(rcp') /\ Matching(search)' \in SUBSET rcp'
  <2>0. next' - 1 \in Int
    BY DEF CountTypes
  <2>1. IsFiniteSet(1..(next' - 1))
    BY <2>0, FS_Interval
  <2>2. IsFiniteSet(rcp')
    BY <2>1, FS_Subset DEF CountTypes
  <2>3. QED
    BY <2>2 DEF Matching
<1>2. IsFiniteSet(Matching(search)')
  BY <1>1, FS_Subset
<1>3. Matching(search) \in SUBSET (Matching(search)')
  BY DEF Matching
<1>4. Cardinality(Matching(search)) <= Cardinality(Matching(search)')
  BY <1>2, <1>3, FS_Subset
<1>5. Cardinality(Matching(search)') \in Nat /\ Count(search) \in Nat
  BY <1>2, FS_CardinalityType, MatchingFinite
<1>6. QED
  BY <1>4, <1>5 DEF Count

LEMMA TabChanges ==
  ASSUME CountInv, TabInv, NEW s \in Slots, Adds(s) \/ Deletes(s) \/ DeletesAll(s) PROVE TabInv'
<1>1. CountInv'
  BY AddsKeeps, DeletesKeeps, DeletesAllKeeps
<1>2. /\ UNCHANGED <<cache, cq, tab, total, status>>
      /\ seen'.joined = seen.joined /\ seen'.behind = seen.behind
      /\ req' = [req EXCEPT ![s].at = "changed"] /\ req[s].at = "read"
  BY DEF Adds, Deletes, DeletesAll, Handles, CountInv, CountTypes, Histories
<1>3. \A t \in Slots : /\ req'[t].kind = req[t].kind
                       /\ req'[t].at = IF t = s THEN "changed" ELSE req[t].at
  BY <1>2, RequestAt DEF CountInv
<1>4. TabTypes'
  BY <1>2 DEF TabInv, TabTypes, Key
<1>5. HeaderInv'
  BY <1>2, <1>3 DEF TabInv, HeaderInv, Row
<1>6. req[s].kind \in Edits
  BY DEF Adds, Deletes, DeletesAll, Edits
<1>7. FreshInv'
  BY <1>3, <1>6 DEF FreshInv, Changed
<1>8. Shrinks' => Shrinks
  BY <1>3 DEF Shrinks, Busy
<1>9. CASE Adds(s)
  <2>1. rcp \subseteq rcp' /\ CountTypes /\ CountTypes'
    BY <1>1, <1>9 DEF Adds, CountInv
  <2>2. \A search \in Searches : /\ Count(search) <= Count(search)'
                                 /\ Count(search) \in Nat /\ Count(search)' \in Nat
    BY <2>1, Longer
  <2>3. Changed(Shrinking) => Changed(Shrinking)'
    BY <1>2, <1>3 DEF Changed
  <2>4. /\ Key \in Keys /\ Key' = Key /\ tab.search \in Searches
        /\ \A k \in Keys : k[2] \in Searches /\ cache[k].reply.total \in Nat /\ cache[k].data.total \in Nat
    BY <1>2 DEF TabInv, TabTypes, Key, Keys, Queries, Lists
  <2>5. /\ Count(tab.search) <= Count(tab.search)'
        /\ Count(tab.search) \in Nat /\ Count(tab.search)' \in Nat
    <3>1. /\ Count(tab.search) <= Cardinality({r \in rcp' : tab.search = "odd" => r % 2 = 1})
          /\ Count(tab.search) \in Nat
          /\ Cardinality({r \in rcp' : tab.search = "odd" => r % 2 = 1}) \in Nat
      BY <2>2, <2>4 DEF Count, Matching
    <3>2. QED
      BY <1>2, <3>1 DEF Count, Matching
  <2>6. ASSUME AllLow PROVE AllLow'
    <3>1. ASSUME NEW k \in Keys, cache[k].fetch = "read"
          PROVE  cache[k].reply.total <= Cardinality({r \in rcp' : k[2] = "odd" => r % 2 = 1})
      <4>1. cache[k].reply.total <= Count(k[2])
        BY <2>6, <3>1 DEF AllLow
      <4>2. /\ Count(k[2]) <= Cardinality({r \in rcp' : k[2] = "odd" => r % 2 = 1})
            /\ Count(k[2]) \in Nat
            /\ Cardinality({r \in rcp' : k[2] = "odd" => r % 2 = 1}) \in Nat
        BY <2>2, <2>4 DEF Count, Matching
      <4>3. QED
        BY <2>4, <4>1, <4>2
    <3>2. ASSUME cache[Key].fetch = "none" PROVE Shown.total <= Count(tab.search)'
      BY <2>4, <2>5, <2>6, <3>2 DEF AllLow, Shown
    <3>3. QED
      BY <1>2, <2>4, <3>1, <3>2 DEF AllLow, Shown, Count, Matching
  <2>7. LowInv'
    BY <1>2, <2>3, <2>6 DEF TabInv, LowInv
  <2>8. Offset(tab.page) \in Int
    BY PageSizeAssumption DEF Offset, TabInv, TabTypes, Pages
  <2>9. PlaceInv'
    BY <1>2, <1>8, <2>5, <2>8 DEF TabInv, PlaceInv, Offset
  <2>10. QED
    BY <1>4, <1>5, <1>7, <2>7, <2>9 DEF TabInv
<1>10. CASE Deletes(s) \/ DeletesAll(s)
  <2>1. req[s].kind \in Shrinking
    BY <1>10 DEF Deletes, DeletesAll, Shrinking
  <2>2. LowInv'
    BY <1>3, <2>1 DEF LowInv, Changed
  <2>3. Shrinks
    BY <2>1 DEF Shrinks, Busy, Shrinking
  <2>4. PlaceInv'
    BY <1>2, <2>3 DEF TabInv, PlaceInv
  <2>5. QED
    BY <1>4, <1>5, <1>7, <2>2, <2>4 DEF TabInv
<1>11. QED
  BY <1>9, <1>10

-----------------------------------------------------------------------------
(* The fetches, and turning to another page *)

\* Nothing but one query of the cache changes.
LEMMA TabFetches ==
  ASSUME CountInv, TabInv, UNCHANGED <<rcp, total, status, req, cq, tab, seen>>,
         NEW k \in Keys, NEW q \in Queries, cache' = [cache EXCEPT ![k] = q],
         q.fetch = "none" => q.known,
         AllFresh => /\ q.fetch = "read" => q.reply = Listed(k[1], k[2])
                     /\ q.fetch = "none" => q.data = Listed(k[1], k[2]),
         AllLow => /\ q.fetch = "read" => q.reply.total <= Count(k[2])
                   /\ q.fetch = "none" => q.data.total <= Count(k[2])
  PROVE  TabInv'
<1>1. /\ Key \in Keys /\ Key[1] = tab.page /\ Key[2] = tab.search /\ Key' = Key
      /\ cache \in [Keys -> Queries]
  BY KeyIsOne DEF TabInv, TabTypes, Key
<1>2. /\ cache' \in [Keys -> Queries]
      /\ \A l \in Keys : cache'[l] = IF l = k THEN q ELSE cache[l]
  BY <1>1
<1>3. TabTypes'
  BY <1>1, <1>2 DEF TabInv, TabTypes
<1>4. HeaderInv'
  BY DEF TabInv, HeaderInv, Row
<1>5. /\ Changed(Edits)' = Changed(Edits) /\ Changed(Shrinking)' = Changed(Shrinking)
      /\ Shrinks' = Shrinks
  BY DEF Changed, Shrinks, Busy
<1>6. Shown' = IF Key = k THEN q.data ELSE Shown
  BY <1>1, <1>2 DEF Shown
<1>7. ASSUME AllFresh PROVE AllFresh'
  <2>1. ASSUME NEW l \in Keys, cache'[l].fetch = "read"
        PROVE  cache'[l].reply = Listed(l[1], l[2])
    BY <1>2, <1>7, <2>1 DEF AllFresh
  <2>2. ASSUME cache'[Key].fetch = "none" PROVE Shown' = Listed(tab.page, tab.search)
    BY <1>1, <1>2, <1>6, <1>7, <2>2 DEF AllFresh
  <2>3. QED
    BY <1>1, <2>1, <2>2 DEF AllFresh, Listed, Matching
<1>8. ASSUME AllLow PROVE AllLow'
  <2>1. ASSUME NEW l \in Keys, cache'[l].fetch = "read"
        PROVE  cache'[l].reply.total <= Count(l[2])
    BY <1>2, <1>8, <2>1 DEF AllLow
  <2>2. ASSUME cache'[Key].fetch = "none" PROVE Shown'.total <= Count(tab.search)
    BY <1>1, <1>2, <1>6, <1>8, <2>2 DEF AllLow
  <2>3. QED
    BY <1>1, <2>1, <2>2 DEF AllLow, Count, Matching
<1>9. FreshInv' /\ LowInv'
  BY <1>5, <1>7, <1>8 DEF TabInv, FreshInv, LowInv
<1>10. PlaceInv'
  BY <1>5 DEF TabInv, PlaceInv, Count, Matching
<1>11. QED
  BY <1>3, <1>4, <1>9, <1>10 DEF TabInv

LEMMA TabListReads == ASSUME CountInv, TabInv, ListReads PROVE TabInv'
<1>1. DOMAIN cache = Keys /\ cache \in [Keys -> Queries]
  BY DEF TabInv, TabTypes
<1>2. PICK k \in Keys : cache' = [cache EXCEPT ![k].fetch = "read", ![k].reply = Listed(k[1], k[2])]
  BY <1>1 DEF ListReads
<1> DEFINE q == [cache[k] EXCEPT !.fetch = "read", !.reply = Listed(k[1], k[2])]
<1>3. Listed(k[1], k[2]) \in Lists /\ Listed(k[1], k[2]).total = Count(k[2]) /\ Count(k[2]) \in Nat
  BY ListedType, MatchingFinite DEF CountInv
<1>4. /\ q \in Queries /\ q.fetch = "read" /\ q.reply = Listed(k[1], k[2])
      /\ cache' = [cache EXCEPT ![k] = q]
  BY <1>1, <1>2, <1>3 DEF Queries, Fetch
<1>5. UNCHANGED <<rcp, total, status, req, cq, tab, seen>>
  BY DEF ListReads, KeepServer
<1> HIDE DEF q
<1>6. q.reply.total <= Count(k[2])
  BY <1>3, <1>4
<1>7. QED
  BY <1>4, <1>5, <1>6, TabFetches

LEMMA TabListDone == ASSUME CountInv, TabInv, ListDone PROVE TabInv'
<1>1. DOMAIN cache = Keys /\ cache \in [Keys -> Queries]
  BY DEF TabInv, TabTypes
<1>2. PICK k \in Keys : /\ cache[k].fetch = "read"
                        /\ cache' = [cache EXCEPT ![k] = [cache[k] EXCEPT !.known = TRUE, !.fetch = "none",
                                                                          !.data = cache[k].reply]]
  BY <1>1 DEF ListDone
<1> DEFINE q == [cache[k] EXCEPT !.known = TRUE, !.fetch = "none", !.data = cache[k].reply]
<1>3. /\ q \in Queries /\ q.fetch = "none" /\ q.known /\ q.data = cache[k].reply
      /\ cache' = [cache EXCEPT ![k] = q]
  BY <1>1, <1>2 DEF Queries, Fetch
<1>4. UNCHANGED <<rcp, total, status, req, cq, tab, seen>>
  BY DEF ListDone, KeepServer
<1> HIDE DEF q
<1>5. AllFresh => q.data = Listed(k[1], k[2])
  BY <1>2, <1>3 DEF AllFresh
<1>6. AllLow => q.data.total <= Count(k[2])
  BY <1>2, <1>3 DEF AllLow
<1>7. QED
  BY <1>3, <1>4, <1>5, <1>6, TabFetches

\* The header's row is read, and comes; a run ends behind its back.
LEMMA TabCounts == ASSUME CountInv, TabInv, CountReads \/ CountDone \/ RunEnds PROVE TabInv'
<1>1. UNCHANGED <<rcp, total, req, cache, tab>> /\ seen'.joined = seen.joined
  BY DEF CountReads, CountDone, RunEnds, KeepServer, CountInv, CountTypes, Histories
<1>2. cq \in [data : Rows, fetch : Fetch, reply : Rows] /\ Row \in Rows
  BY DEF TabInv, TabTypes, CountInv, CountTypes, Row, Rows
<1>3. \/ cq'.fetch = "read" /\ cq'.reply = Row /\ status' = status
      \/ /\ cq.fetch = "read" /\ cq'.fetch = "none" /\ cq'.data = cq.reply
         /\ status' = status /\ seen' = seen
      \/ seen'.behind = TRUE
  <2>1. CASE CountReads
    BY <1>2, <2>1 DEF CountReads, KeepServer
  <2>2. CASE CountDone
    BY <1>2, <2>2 DEF CountDone, KeepServer
  <2>3. CASE RunEnds
    BY <2>3 DEF RunEnds, CountInv, CountTypes, Histories
  <2>4. QED
    BY <2>1, <2>2, <2>3
<1>4. cq' \in [data : Rows, fetch : Fetch, reply : Rows]
  BY <1>2 DEF CountReads, CountDone, RunEnds, Fetch
<1>5. TabTypes'
  BY <1>1, <1>4 DEF TabInv, TabTypes, Key
<1>6. HeaderInv'
  BY <1>1, <1>3 DEF TabInv, HeaderInv, Row
<1>7. ListsInv'
  BY <1>1, SameLists DEF TabInv, ListsInv, Changed, Shrinks, Busy
<1>8. QED
  BY <1>5, <1>6, <1>7 DEF TabInv, ListsInv

\* What the answer invalidates is asked for again; the fetches that are joined instead are
\* in the history.
LEMMA TabAnswered == ASSUME CountInv, TabInv, NEW s \in Slots, Answered(s) PROVE TabInv'
<1>1. /\ UNCHANGED <<rcp, total, tab>> /\ req' = [req EXCEPT ![s] = Free]
      /\ InvalidatesList /\ cq' = [cq EXCEPT !.fetch = "asked"]
  BY DEF Answered, KeepServer, InvalidatesCount
<1>2. /\ Key \in Keys /\ Key' = Key /\ cache \in [Keys -> Queries]
      /\ cache[Key].fetch = "none" => cache[Key].known
      /\ cq \in [data : Rows, fetch : Fetch, reply : Rows]
  BY <1>1, KeyIsOne DEF TabInv, TabTypes, Key
<1> DEFINE q == IF cache[Key].known THEN [cache[Key] EXCEPT !.fetch = "asked"] ELSE cache[Key]
<1>3. cache' = [cache EXCEPT ![Key] = q]
  BY <1>1, <1>2 DEF InvalidatesList, Asked
<1>4. q \in Queries /\ q.fetch # "none" /\ (q.fetch = "read" => ~cache[Key].known /\ cache[Key].fetch = "read")
  BY <1>2 DEF Queries, Fetch
<1> HIDE DEF q
<1>5. /\ cache' \in [Keys -> Queries]
      /\ \A l \in Keys : cache'[l] = IF l = Key THEN q ELSE cache[l]
  BY <1>2, <1>3, <1>4
<1>6. cq' \in [data : Rows, fetch : Fetch, reply : Rows] /\ cq'.fetch = "asked"
  BY <1>1, <1>2 DEF Fetch
<1>7. TabTypes'
  BY <1>1, <1>2, <1>4, <1>5, <1>6 DEF TabInv, TabTypes
<1>8. HeaderInv'
  BY <1>6 DEF HeaderInv
<1>9. ASSUME ~seen'.joined
      PROVE  ~seen.joined /\ \A l \in Keys : cache[l].fetch = "read" => l = Key /\ cache[Key].known
  <2>1. DOMAIN cache = Keys
    BY <1>2
  <2>2. seen'.joined = (seen.joined \/ \E l \in Keys : cache[l].fetch = "read" /\ (l # Key \/ ~cache[l].known))
    BY <1>1, <2>1 DEF InvalidatesList, CountInv, CountTypes, Histories
  <2>3. QED
    BY <1>9, <2>2
<1>10. ASSUME ~seen'.joined PROVE \A l \in Keys : cache'[l].fetch # "read"
  BY <1>4, <1>5, <1>9, <1>10
<1>11. ASSUME ~seen'.joined PROVE AllFresh' /\ AllLow'
  <2>1. cache'[Key'].fetch # "none"
    BY <1>2, <1>4, <1>5
  <2>2. QED
    BY <1>10, <1>11, <2>1 DEF AllFresh, AllLow
<1>12. FreshInv' /\ LowInv'
  BY <1>11 DEF FreshInv, LowInv
<1>13. PlaceInv'
  <2>1. Free.kind = "none"
    BY DEF Free
  <2>2. \A t \in Slots : req'[t] = IF t = s THEN Free ELSE req[t]
    BY <1>1 DEF CountInv, CountTypes
  <2>3. Shrinks' => Shrinks
    BY <2>1, <2>2 DEF Shrinks, Busy
  <2>4. QED
    BY <1>1, <1>9, <2>3 DEF TabInv, PlaceInv, Count, Matching
<1>14. QED
  BY <1>7, <1>8, <1>12, <1>13 DEF TabInv

\* Another page or search is asked for, or the fetch of it under way is joined.
LEMMA TabTurns ==
  ASSUME CountInv, TabInv, NEW t \in [page : Pages, search : Searches, stranded : BOOLEAN],
         Turns(t),
         Shrinks => t.page = 1 \/ t.stranded,
         ~seen.joined /\ ~t.stranded => t.page = 1 \/ Count(t.search) > Offset(t.page)
  PROVE  TabInv'
<1> DEFINE k == <<t.page, t.search>>
           q == Asked(cache[k])
<1>1. /\ UNCHANGED <<rcp, total, status, req, cq, seen>> /\ tab' = t
      /\ cache' = [cache EXCEPT ![k] = q] /\ cache \in [Keys -> Queries]
      /\ k \in Keys /\ Key' = k
  BY DEF Turns, TurnedTo, KeepServer, TabInv, TabTypes, Keys, Key
<1>2. /\ q \in Queries /\ q.fetch # "none"
      /\ q.fetch = "read" => cache[k].fetch = "read" /\ q.reply = cache[k].reply
  BY <1>1 DEF Asked, Queries, Fetch
<1> HIDE DEF q, k
<1>3. /\ cache' \in [Keys -> Queries]
      /\ \A l \in Keys : cache'[l] = IF l = k THEN q ELSE cache[l]
  BY <1>1, <1>2
<1>4. TabTypes'
  BY <1>1, <1>2, <1>3 DEF TabInv, TabTypes
<1>5. HeaderInv'
  BY <1>1 DEF TabInv, HeaderInv, Row
<1>6. /\ Changed(Edits)' = Changed(Edits) /\ Changed(Shrinking)' = Changed(Shrinking)
      /\ Shrinks' = Shrinks
  BY <1>1 DEF Changed, Shrinks, Busy
<1>7. cache'[Key'].fetch # "none"
  BY <1>1, <1>2, <1>3
<1>8. ASSUME AllFresh PROVE AllFresh'
  <2>1. ASSUME NEW l \in Keys, cache'[l].fetch = "read"
        PROVE  cache'[l].reply = Listed(l[1], l[2])
    BY <1>2, <1>3, <1>8, <2>1 DEF AllFresh
  <2>2. QED
    BY <1>1, <1>7, <2>1 DEF AllFresh, Listed, Matching
<1>9. ASSUME AllLow PROVE AllLow'
  <2>1. ASSUME NEW l \in Keys, cache'[l].fetch = "read"
        PROVE  cache'[l].reply.total <= Count(l[2])
    BY <1>2, <1>3, <1>9, <2>1 DEF AllLow
  <2>2. QED
    BY <1>1, <1>7, <2>1 DEF AllLow, Count, Matching
<1>10. FreshInv' /\ LowInv'
  BY <1>1, <1>6, <1>8, <1>9 DEF TabInv, FreshInv, LowInv
<1>11. Count(tab.search)' = Count(t.search) /\ Offset(tab.page)' = Offset(t.page)
  BY <1>1 DEF Count, Matching, Offset
<1>12. PlaceInv'
  BY <1>1, <1>6, <1>11 DEF PlaceInv
<1>13. QED
  BY <1>4, <1>5, <1>10, <1>12 DEF TabInv

LEMMA TabPrevious == ASSUME CountInv, TabInv, Previous PROVE TabInv'
<1> DEFINE t == [tab EXCEPT !.page = @ - 1, !.stranded = @ /\ tab.page > 2]
<1>1. tab \in [page : Pages, search : Searches, stranded : BOOLEAN] /\ tab.page > 1 /\ Turns(t)
  BY DEF Previous, TabInv, TabTypes
<1>2. MaxRcp \in Nat
  BY BoundsAssumption
<1>3. /\ t \in [page : Pages, search : Searches, stranded : BOOLEAN]
      /\ t.page = tab.page - 1 /\ t.search = tab.search
      /\ t.stranded = (tab.stranded /\ tab.page > 2)
  <2>1. t.page = tab.page - 1 /\ t.search = tab.search
    BY <1>1
  <2>2. t.stranded = (tab.stranded /\ tab.page > 2)
    BY <1>1
  <2>3. tab.page - 1 \in Pages
    BY <1>1, <1>2 DEF Pages
  <2>4. (tab.stranded /\ tab.page > 2) \in BOOLEAN
    OBVIOUS
  <2>5. t \in [page : Pages, search : Searches, stranded : BOOLEAN]
    BY <1>1, <2>3, <2>4
  <2>6. QED
    BY <2>1, <2>2, <2>5
<1> HIDE DEF t
<1>4. tab.page \in Nat /\ (tab.page = 2 \/ tab.page > 2) /\ PageSize \in Nat
  BY <1>1, <1>2, PageSizeAssumption DEF Pages
<1>5. Shrinks => t.page = 1 \/ t.stranded
  BY <1>1, <1>3, <1>4 DEF TabInv, PlaceInv
<1>6. ASSUME ~seen.joined, ~t.stranded, tab.page > 2 PROVE Count(t.search) > Offset(t.page)
  <2>1. Count(tab.search) > Offset(tab.page) /\ Count(tab.search) \in Nat
    BY <1>1, <1>3, <1>6, MatchingFinite DEF TabInv, PlaceInv, CountInv
  <2>2. /\ Offset(tab.page) = (tab.page - 1) * PageSize
        /\ Offset(t.page) = (tab.page - 1 - 1) * PageSize
    BY <1>3 DEF Offset
  <2>3. (tab.page - 1 - 1) * PageSize <= (tab.page - 1) * PageSize
    BY <1>4
  <2>4. (tab.page - 1 - 1) * PageSize \in Int /\ (tab.page - 1) * PageSize \in Int
    BY <1>4
  <2>5. QED
    BY <1>3, <2>1, <2>2, <2>3, <2>4
<1>7. ~seen.joined /\ ~t.stranded => t.page = 1 \/ Count(t.search) > Offset(t.page)
  BY <1>3, <1>4, <1>6
<1>8. QED
  BY <1>1, <1>3, <1>5, <1>7, TabTurns

\* The next page was offered by a list no longer than the table is.
LEMMA TabNextPage == ASSUME CountInv, TabInv, NextPage PROVE TabInv'
<1> DEFINE t == [tab EXCEPT !.page = @ + 1, !.stranded = @ \/ Shrinks \/ cache[Key].fetch # "none"]
<1>1. /\ tab \in [page : Pages, search : Searches, stranded : BOOLEAN]
      /\ tab.page < Shown.pages /\ tab.page <= MaxRcp /\ Turns(t)
  BY DEF NextPage, TabInv, TabTypes
<1>2. MaxRcp \in Nat
  BY BoundsAssumption
<1>3. /\ t \in [page : Pages, search : Searches, stranded : BOOLEAN]
      /\ t.page = tab.page + 1 /\ t.search = tab.search
      /\ t.stranded = (tab.stranded \/ Shrinks \/ cache[Key].fetch # "none")
  <2>1. t.page = tab.page + 1 /\ t.search = tab.search
    BY <1>1
  <2>2. t.stranded = (tab.stranded \/ Shrinks \/ cache[Key].fetch # "none")
    BY <1>1
  <2>3. tab.page + 1 \in Pages
    BY <1>1, <1>2 DEF Pages
  <2>4. (tab.stranded \/ Shrinks \/ cache[Key].fetch # "none") \in BOOLEAN
    OBVIOUS
  <2>5. t \in [page : Pages, search : Searches, stranded : BOOLEAN]
    BY <1>1, <2>3, <2>4
  <2>6. QED
    BY <2>1, <2>2, <2>5
<1> HIDE DEF t
<1>4. Shrinks => t.page = 1 \/ t.stranded
  BY <1>3
<1>5. ASSUME ~seen.joined, ~t.stranded PROVE Count(t.search) > Offset(t.page)
  <2>1. ~Shrinks /\ cache[Key].fetch = "none"
    BY <1>3, <1>5
  <2>2. ~Changed(Shrinking)
    BY <2>1 DEF Changed, Shrinking, Shrinks, Busy
  <2>3. Shown.total <= Count(tab.search)
    BY <1>5, <2>1, <2>2 DEF TabInv, LowInv, AllLow
  <2>4. Shown \in Lists
    BY KeyIsOne DEF Shown, TabInv, TabTypes, Queries
  <2>5. Shown.total \in Nat /\ Shown.pages = Ceiling(Shown.total)
    BY <2>4 DEF Lists
  <2>6. tab.page \in Nat
    BY <1>1 DEF Pages
  <2>7. Shown.total > tab.page * PageSize
    BY <1>1, <2>5, <2>6, CeilingCovers
  <2>8. tab.page * PageSize \in Int /\ Count(tab.search) \in Nat
    BY <2>6, PageSizeAssumption, MatchingFinite DEF CountInv
  <2>9. Offset(t.page) = tab.page * PageSize
    BY <1>3, <2>6 DEF Offset
  <2>10. QED
    BY <1>3, <2>3, <2>5, <2>7, <2>8, <2>9
<1>6. QED
  BY <1>1, <1>3, <1>4, <1>5, TabTurns

LEMMA TabSearches == ASSUME CountInv, TabInv, HandleSearch PROVE TabInv'
<1>1. PICK search \in Searches : Turns([page |-> 1, search |-> search, stranded |-> FALSE])
  BY DEF HandleSearch, FirstPage
<1> DEFINE t == [page |-> 1, search |-> search, stranded |-> FALSE]
<1>2. MaxRcp \in Nat
  BY BoundsAssumption
<1>3. t \in [page : Pages, search : Searches, stranded : BOOLEAN] /\ t.page = 1 /\ Turns(t)
  BY <1>1, <1>2 DEF Pages
<1> HIDE DEF t
<1>4. QED
  BY <1>3, TabTurns

LEMMA TabUser == ASSUME CountInv, TabInv, User PROVE TabInv'
<1>1. CASE HandleFileUpload
  <2>1. PICK n \in FileSizes : Mutates("upload", n)
    BY <1>1 DEF HandleFileUpload
  <2>2. n \in Nat /\ Overlaps /\ tab' = tab
    BY <1>1, FileAssumption DEF HandleFileUpload
  <2>3. QED
    BY <2>1, <2>2, TabMutates DEF Kinds, Edits, Shrinking
<1>2. CASE HandleAddManual
  BY <1>2, TabMutates DEF HandleAddManual, Kinds, Edits, Shrinking
<1>3. CASE HandleClearAll
  BY <1>3, TabMutates DEF HandleClearAll, Kinds, Edits, Shrinking
<1>4. CASE HandleDeleteRecipient
  <2>1. PICK r \in Shown.rows : Mutates("delete", r)
    BY <1>4 DEF HandleDeleteRecipient
  <2>2. Overlaps /\ tab' = [tab EXCEPT !.stranded = @ \/ tab.page > 1]
    BY <1>4 DEF HandleDeleteRecipient
  <2>3. QED
    BY <2>1, <2>2, TabMutates DEF Kinds, Edits, Shrinking
<1>6. CASE ResetToDraft
  BY <1>6, TabMutates DEF ResetToDraft, Kinds, Shrinking
<1>7. CASE Elsewhere
  <2>1. PICK kind \in Others : Mutates(kind, 0)
    BY <1>7 DEF Elsewhere
  <2>2. kind \in Kinds /\ kind \notin Shrinking /\ kind \notin {"upload", "manual"}
    BY DEF Others, Kinds, Shrinking
  <2>3. QED
    BY <1>7, <2>1, <2>2, TabMutates DEF Elsewhere
<1>5. QED
  BY <1>1, <1>2, <1>3, <1>4, <1>6, <1>7, TabPrevious, TabNextPage, TabSearches DEF User

LEMMA TabKeeps == CountInv /\ TabInv /\ [Next]_vars => TabInv'
<1> SUFFICES ASSUME CountInv, TabInv, [Next]_vars PROVE TabInv'
  OBVIOUS
<1>1. CASE UNCHANGED vars
  <2>1. UNCHANGED <<rcp, total, status, req, cache, cq, tab, seen>>
    BY <1>1 DEF vars
  <2>2. TabTypes' /\ HeaderInv'
    BY <2>1 DEF TabInv, TabTypes, HeaderInv, Key, Row
  <2>3. ListsInv'
    BY <2>1, SameLists DEF TabInv, ListsInv, Changed, Shrinks, Busy
  <2>4. QED
    BY <2>2, <2>3 DEF TabInv, ListsInv
<1>2. CASE User
  BY <1>2, TabUser
<1>3. CASE ListReads \/ ListDone \/ CountReads \/ CountDone \/ RunEnds
  BY <1>3, TabListReads, TabListDone, TabCounts
<1>4. CASE \E s \in Slots : \/ CampaignReads(s) \/ Adds(s) \/ Deletes(s) \/ DeletesAll(s)
                            \/ StartCounts(s) \/ EditFills(s) \/ ResetSaves(s)
                            \/ Refuses(s) \/ CountSaves(s) \/ CountFails(s)
                            \/ Answered(s)
  BY <1>4, TabSaves, TabChanges, TabAnswered
<1>5. QED
  BY <1>1, <1>2, <1>3, <1>4 DEF Next, System

-----------------------------------------------------------------------------

\* When nothing is in flight the list on the screen is the table's page for the search,
\* unless a change joined a fetch that had read already or was answered with an error, and
\* the header's number and status are the row's, unless another page or a run wrote it,
\* whatever was uploaded, deleted, searched and turned to in between
\* (CampaignDetailPage.tsx:369).
THEOREM TabShowsTable == Spec => []TabIsFresh
<1>1. CountInv /\ TabInv => TabIsFresh
  <2> SUFFICES ASSUME CountInv, TabInv, Quiet PROVE ListIsFresh /\ CountIsFresh
    BY DEF TabIsFresh
  <2>1. ~Changed(Edits) /\ \A s \in Slots : req[s].at # "done"
    BY DEF Quiet, Changed
  <2>2. Key \in Keys /\ DOMAIN cache = Keys
    BY KeyIsOne DEF TabInv, TabTypes
  <2>3. cache[Key].fetch = "none" /\ cq.fetch = "none"
    BY <2>2 DEF Quiet
  <2>4. CountIsFresh
    BY <2>1, <2>3 DEF TabInv, HeaderInv, CountIsFresh
  <2>5. ListIsFresh
    BY <2>1, <2>3 DEF TabInv, FreshInv, AllFresh, ListIsFresh
  <2>6. QED
    BY <2>4, <2>5
<1>2. CountInv /\ TabInv /\ [Next]_vars => (CountInv /\ TabInv)'
  BY NextKeeps, TabKeeps
<1>3. QED
  BY <1>1, <1>2, InitCount, TabInit, PTL DEF Spec

\* Paging leads to every recipient: an empty list is shown when none match, and a next page
\* is offered exactly when there are recipients behind the one shown, for any page size
\* (recipient/handler.go:283, CampaignDetailPage.tsx:693).
THEOREM PagingCovers == Spec => []PagesCover
<1>1. CountInv /\ TabInv => PagesCover
  <2> SUFFICES ASSUME CountInv, TabInv, Quiet, ~seen.joined PROVE EmptyMeansEmpty /\ NextIsOffered
    BY DEF PagesCover
  <2>1. ~Changed(Edits)
    BY DEF Quiet, Changed
  <2>2. Key \in Keys /\ DOMAIN cache = Keys
    BY KeyIsOne DEF TabInv, TabTypes
  <2>3. cache[Key].fetch = "none" /\ cache[Key].known
    BY <2>2 DEF Quiet, TabInv, TabTypes
  <2>4. Shown = Listed(tab.page, tab.search)
    BY <2>1, <2>3 DEF TabInv, FreshInv, AllFresh
  <2>5. CountTypes /\ tab.page \in Nat \ {0}
    <3>1. MaxRcp \in Nat
      BY BoundsAssumption
    <3>2. QED
      BY <3>1 DEF CountInv, TabInv, TabTypes, Pages
  <2>6. /\ Count(tab.search) \in Nat /\ IsFiniteSet(Matching(tab.search))
    BY <2>5, MatchingFinite
  <2>7. /\ Listed(tab.page, tab.search).pages = Ceiling(Count(tab.search))
    BY DEF Listed, Count
  <2>8. NextIsOffered
    <3>1. tab.page < Ceiling(Count(tab.search)) <=> Count(tab.search) > tab.page * PageSize
      BY <2>5, <2>6, CeilingCovers
    <3>2. Ceiling(Count(tab.search)) \in Int
      BY <2>6, CeilingType
    <3>3. HasPager /\ tab.page < Shown.pages <=> tab.page < Ceiling(Count(tab.search))
      BY <2>3, <2>4, <2>5, <2>7, <3>2 DEF HasPager
    <3>4. QED
      BY <3>1, <3>3 DEF NextIsOffered, Count
  <2>9. EmptyMeansEmpty
    <3>1. SUFFICES ASSUME Shown.rows = {}, ~tab.stranded, Matching(tab.search) # {} PROVE FALSE
      BY DEF EmptyMeansEmpty
    <3>2. Count(tab.search) > 0
      BY <2>6, <3>1, FS_EmptySet DEF Count
    <3>3. Offset(1) = 0
      BY PageSizeAssumption DEF Offset
    <3>4. Count(tab.search) > Offset(tab.page)
      BY <3>1, <3>2, <3>3 DEF TabInv, PlaceInv
    <3>5. Shown.rows # {}
      BY <2>4, <2>5, <3>4, RowsShown
    <3>6. QED
      BY <3>1, <3>5
  <2>10. QED
    BY <2>8, <2>9
<1>2. CountInv /\ TabInv /\ [Next]_vars => (CountInv /\ TabInv)'
  BY NextKeeps, TabKeeps
<1>3. QED
  BY <1>1, <1>2, InitCount, TabInit, PTL DEF Spec

=============================================================================
