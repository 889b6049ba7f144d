---------------------------- MODULE AppShellProofs ----------------------------
(***************************************************************************)
(* Theorems about AppShell, for any administrators, texts and budgets.     *)
(***************************************************************************)
EXTENDS AppShell, TLAPS

AnyRole == Roles \cup {"gone"}
Requests == [at : {"idle", "sent", "checked", "refused", "done"},
             op : {"none", "role", "delete", "create"},
             who : People, role : AnyRole \cup {"none"}]
Fetches == [at : {"idle", "sent", "read", "refused"}, list : [People -> AnyRole]]
AdminPages == [list : [People -> AnyRole], error : BOOLEAN, req : Requests,
               fetch : [Slots -> Fetches]]

Histories == [late : BOOLEAN, back : BOOLEAN, approved : BOOLEAN,
              unheard : BOOLEAN, ended : BOOLEAN, crossed : SUBSET Admins, raced : BOOLEAN,
              by : [People -> People]]

\* The types of what the administrators see and ask for.
AdminTypes ==
  /\ role \in [People -> AnyRole]
  /\ admin \in [Admins -> AdminPages]
  /\ seen \in Histories
  /\ \A a \in Admins : admin[a].req.at # "idle" => admin[a].req.role \in AnyRole

Checked(a) == admin[a].req.at = "checked"

\* While no two requests have passed the check together, the one that has is an
\* administrator's, who is one still, and it is about another account; a new
\* account is nobody's.
OneChecked ==
  ~seen.raced =>
    /\ \A a, b \in Admins : Checked(a) /\ Checked(b) => a = b
    /\ \A a \in Admins :
         Checked(a) => role[a] = "admin" /\ (admin[a].req.op # "create" => admin[a].req.who # a)

\* Inductive.
AdminInv == AdminTypes /\ OneChecked /\ SomeAdminLeft

-----------------------------------------------------------------------------
(* Steps that leave the accounts alone *)

\* The initial states.
LEMMA InitAdmin == Init => AdminInv
<1> SUFFICES ASSUME Init PROVE AdminInv
  OBVIOUS
<1> USE PeopleAssumption DEF People
<1>1. role \in [People -> AnyRole] /\ \A a \in Admins : role[a] = "admin"
  BY DEF Init, AnyRole, Roles
<1>2. \A a \in Admins : admin[a].req = NoRequest
  BY DEF Init
<1>3. AdminTypes
  <2>1. NoRequest \in Requests
    BY DEF NoRequest, Requests
  <2>2. admin \in [Admins -> AdminPages]
    BY <1>1, <2>1 DEF Init, AdminPages, Fetches
  <2>3. seen \in Histories
    BY DEF Init, Histories
  <2>4. QED
    BY <1>1, <1>2, <2>2, <2>3 DEF AdminTypes, NoRequest
<1>4. OneChecked
  BY <1>2 DEF OneChecked, Checked, NoRequest
<1>5. SomeAdminLeft
  BY <1>1 DEF SomeAdminLeft
<1>6. QED
  BY <1>3, <1>4, <1>5 DEF AdminInv

\* A step that keeps the roles and lets no further request pass the check.
LEMMA RolesKept ==
  ASSUME AdminInv, AdminTypes', role' = role, seen'.raced = seen.raced,
         \A a \in Admins : admin'[a].req = admin[a].req \/ admin'[a].req.at # "checked"
  PROVE  AdminInv'
<1>1. OneChecked'
  BY DEF AdminInv, OneChecked, Checked
<1>2. SomeAdminLeft'
  BY DEF AdminInv, SomeAdminLeft
<1>3. QED
  BY <1>1, <1>2 DEF AdminInv

\* The steps of the browser's session and of the search box.
LEMMA SessionStep ==
  ASSUME AdminInv, KeepAdmin, seen' \in Histories, seen'.raced = seen.raced
  PROVE  AdminInv'
<1>1. role' = role /\ admin' = admin
  BY DEF KeepAdmin
<1>2. AdminTypes'
  BY <1>1 DEF AdminInv, AdminTypes
<1>3. QED
  BY <1>1, <1>2, RolesKept

\* A step that gives the request of one administrator up, or has him ask.
LEMMA RequestStep ==
  ASSUME AdminInv, NEW a \in Admins, NEW q \in Requests, role' = role, UNCHANGED seen,
         q.at # "checked", q.at # "idle" => q.role \in AnyRole,
         admin' = [admin EXCEPT ![a].req = q]
  PROVE  AdminInv'
<1>1. admin \in [Admins -> AdminPages]
  BY DEF AdminInv, AdminTypes
<1>2. \A b \in Admins : admin'[b] = IF b = a THEN [admin[a] EXCEPT !.req = q] ELSE admin[b]
  BY <1>1
<1>3. admin' \in [Admins -> AdminPages]
  BY <1>1 DEF AdminPages
<1>4. \A b \in Admins : admin'[b].req = IF b = a THEN q ELSE admin[b].req
  BY <1>1, <1>2 DEF AdminPages
<1>5. AdminTypes'
  BY <1>3, <1>4 DEF AdminInv, AdminTypes
<1>6. QED
  BY <1>4, <1>5, RolesKept

\* The steps of a fetch of the list of accounts.
LEMMA FetchStep ==
  ASSUME AdminInv, NEW a \in Admins, NEW s \in Slots, NEW f \in Fetches,
         NEW l \in [People -> AnyRole], NEW e \in BOOLEAN, role' = role, UNCHANGED seen,
         admin' = [admin EXCEPT ![a].list = l, ![a].fetch[s] = f, ![a].error = e]
  PROVE  AdminInv'
<1>1. admin \in [Admins -> AdminPages]
  BY DEF AdminInv, AdminTypes
<1>2. admin' = [admin EXCEPT ![a] = [admin[a] EXCEPT !.list = l, !.fetch[s] = f, !.error = e]]
  BY <1>1
<1>3. [admin[a] EXCEPT !.list = l, !.fetch[s] = f, !.error = e] \in AdminPages
  BY <1>1 DEF AdminPages
<1>4. admin' \in [Admins -> AdminPages] /\ \A b \in Admins : admin'[b].req = admin[b].req
  BY <1>1, <1>2, <1>3 DEF AdminPages
<1>5. AdminTypes'
  BY <1>4 DEF AdminInv, AdminTypes
<1>6. QED
  BY <1>4, <1>5, RolesKept

LEMMA ListReadsKeeps ==
  ASSUME AdminInv, NEW a \in Admins, ListReads(a) PROVE AdminInv'
<1> DEFINE at == IF role[a] = "admin" THEN "read" ELSE "refused"
<1>1. PICK s \in Slots : admin' = [admin EXCEPT ![a].fetch[s] = [at |-> at, list |-> role]]
  BY DEF ListReads
<1>2. [at |-> at, list |-> role] \in Fetches
  BY DEF AdminInv, AdminTypes, Fetches
<1>3. admin \in [Admins -> AdminPages]
  BY DEF AdminInv, AdminTypes
<1>4. admin[a].list \in [People -> AnyRole] /\ admin[a].error \in BOOLEAN
  BY <1>3 DEF AdminPages
<1>5. admin' = [admin EXCEPT ![a].list = admin[a].list,
                             ![a].fetch[s] = [at |-> at, list |-> role],
                             ![a].error = admin[a].error]
  BY <1>1, <1>3 DEF AdminPages
<1>6. role' = role /\ UNCHANGED seen
  BY DEF ListReads
<1> HIDE DEF at
<1>7. QED
  BY <1>2, <1>4, <1>5, <1>6, FetchStep

LEMMA ListAnsweredKeeps ==
  ASSUME AdminInv, NEW a \in Admins, ListAnswered(a) PROVE AdminInv'
<1>1. PICK s \in Slots :
        /\ admin[a].fetch[s].at \in {"read", "refused"}
        /\ admin' = [admin EXCEPT ![a].list = ShownList(a, s), ![a].fetch[s].at = "idle",
                                  ![a].error = admin[a].fetch[s].at = "refused"]
  BY DEF ListAnswered
<1> DEFINE f == [admin[a].fetch[s] EXCEPT !.at = "idle"]
<1>2. admin \in [Admins -> AdminPages]
  BY DEF AdminInv, AdminTypes
<1>3. admin[a].fetch \in [Slots -> Fetches] /\ admin[a].list \in [People -> AnyRole]
  BY <1>2 DEF AdminPages
<1>4. f \in Fetches /\ ShownList(a, s) \in [People -> AnyRole]
  BY <1>3 DEF Fetches, ShownList
<1>5. admin' = [admin EXCEPT ![a].list = ShownList(a, s), ![a].fetch[s] = f,
                             ![a].error = (admin[a].fetch[s].at = "refused")]
  BY <1>1, <1>2, <1>3 DEF AdminPages
<1>6. role' = role /\ UNCHANGED seen /\ (admin[a].fetch[s].at = "refused") \in BOOLEAN
  BY DEF ListAnswered
<1> HIDE DEF f
<1>7. QED
  BY <1>4, <1>5, <1>6, FetchStep

LEMMA AdminAnsweredKeeps ==
  ASSUME AdminInv, NEW a \in Admins, AdminAnswered(a) PROVE AdminInv'
<1>1. PICK s \in Slots :
        /\ admin' = [admin EXCEPT ![a].req = NoRequest, ![a].fetch[s].at = "sent"]
        /\ seen' = [seen EXCEPT !.crossed =
                      IF \E o \in Slots : admin[a].fetch[o].at # "idle" THEN @ \cup {a} ELSE @]
  BY DEF AdminAnswered
<1>2. admin \in [Admins -> AdminPages]
  BY DEF AdminInv, AdminTypes
<1>3. NoRequest \in Requests /\ NoRequest.at = "idle"
  BY DEF NoRequest, Requests, People
<1>4. admin[a].fetch \in [Slots -> Fetches]
  BY <1>2 DEF AdminPages
<1>5. [admin[a].fetch EXCEPT ![s].at = "sent"] \in [Slots -> Fetches]
  BY <1>4 DEF Fetches
<1>6. admin' = [admin EXCEPT ![a] = [admin[a] EXCEPT !.req = NoRequest,
                                       !.fetch = [admin[a].fetch EXCEPT ![s].at = "sent"]]]
  BY <1>1, <1>2 DEF AdminPages
<1>7. [admin[a] EXCEPT !.req = NoRequest, !.fetch = [admin[a].fetch EXCEPT ![s].at = "sent"]]
        \in AdminPages
  BY <1>2, <1>3, <1>5 DEF AdminPages
<1>8. /\ admin' \in [Admins -> AdminPages]
      /\ \A b \in Admins : admin'[b].req = IF b = a THEN NoRequest ELSE admin[b].req
  BY <1>2, <1>6, <1>7 DEF AdminPages
<1>9. /\ seen' \in Histories
      /\ seen'.raced = seen.raced
  BY <1>1 DEF AdminInv, AdminTypes, Histories
<1>10. role' = role
  BY DEF AdminAnswered
<1>11. AdminTypes'
  BY <1>3, <1>8, <1>9, <1>10 DEF AdminInv, AdminTypes
<1>12. \A b \in Admins : admin'[b].req = admin[b].req \/ admin'[b].req.at # "checked"
  BY <1>3, <1>8
<1>13. QED
  BY <1>9, <1>10, <1>11, <1>12, RolesKept

\* The steps that only change what an administrator asks for.
LEMMA AsksKeeps ==
  ASSUME AdminInv, NEW a \in Admins, NEW op \in {"role", "delete", "create"},
         NEW p \in People, NEW r \in AnyRole, Asks(a, op, p, r)
  PROVE  AdminInv'
<1> DEFINE q == [at |-> "sent", op |-> op, who |-> p, role |-> r]
<1>1. q \in Requests /\ q.at # "checked" /\ q.role \in AnyRole
  BY DEF Requests
<1>2. admin' = [admin EXCEPT ![a].req = q] /\ role' = role /\ UNCHANGED seen
  BY DEF Asks
<1> HIDE DEF q
<1>3. QED
  BY <1>1, <1>2, RequestStep

LEMMA AdminRefusedKeeps ==
  ASSUME AdminInv, NEW a \in Admins, AdminRefused(a) PROVE AdminInv'
<1>1. NoRequest \in Requests /\ NoRequest.at = "idle"
  BY DEF NoRequest, Requests, People
<1>2. admin' = [admin EXCEPT ![a].req = NoRequest] /\ role' = role /\ UNCHANGED seen
  BY DEF AdminRefused
<1>3. QED
  BY <1>1, <1>2, RequestStep

-----------------------------------------------------------------------------
(* The check and the write *)

\* The check finds an administrator who asks about another account, and raced
\* remembers that it was not the only one.
LEMMA AdminChecksKeeps ==
  ASSUME AdminInv, NEW a \in Admins, AdminChecks(a) PROVE AdminInv'
<1> DEFINE q == [admin[a].req EXCEPT
                   !.at = IF Allowed(a, admin[a].req) THEN "checked" ELSE "refused"]
<1>1. admin \in [Admins -> AdminPages] /\ role' = role /\ admin[a].req.at = "sent"
  BY DEF AdminInv, AdminTypes, AdminChecks
<1>2. admin[a].req \in Requests /\ admin[a].req.role \in AnyRole
  BY <1>1 DEF AdminPages, AdminInv, AdminTypes
<1>3. q \in Requests /\ q.role \in AnyRole
  BY <1>2 DEF Requests
<1>4. admin' = [admin EXCEPT ![a].req = q]
  BY <1>1 DEF AdminChecks, AdminPages
<1>5. /\ admin' \in [Admins -> AdminPages]
      /\ \A b \in Admins : admin'[b].req = IF b = a THEN q ELSE admin[b].req
  <2> HIDE DEF q
  <2>1. admin' = [admin EXCEPT ![a] = [admin[a] EXCEPT !.req = q]]
    BY <1>1, <1>4
  <2>2. [admin[a] EXCEPT !.req = q] \in AdminPages
    BY <1>1, <1>3 DEF AdminPages
  <2>3. QED
    BY <1>1, <2>1, <2>2 DEF AdminPages
<1>6. /\ seen' \in Histories
      /\ seen'.raced = (seen.raced \/ \E o \in Admins : Checked(o))
  BY DEF AdminInv, AdminTypes, AdminChecks, Checked, Histories
<1>7. AdminTypes'
  <2> HIDE DEF q
  <2>1. QED
    BY <1>1, <1>3, <1>5, <1>6 DEF AdminInv, AdminTypes
<1>8. OneChecked'
  <2>1. SUFFICES ASSUME ~ seen'.raced
                 PROVE  /\ \A b, c \in Admins : Checked(b)' /\ Checked(c)' => b = c
                        /\ \A b \in Admins : Checked(b)' =>
                             role[b] = "admin" /\ (admin'[b].req.op # "create" => admin'[b].req.who # b)
    BY <1>1 DEF OneChecked
  <2>2. \A o \in Admins : ~ Checked(o)
    BY <1>6, <2>1
  <2>3. \A b \in Admins : Checked(b)' => b = a /\ q.at = "checked"
    <3> HIDE DEF q
    <3>1. QED
      BY <1>5, <2>2 DEF Checked
  <2>4. q.at = "checked" => Allowed(a, admin[a].req)
    BY <1>2 DEF Requests
  <2>5. q.op = admin[a].req.op /\ q.who = admin[a].req.who
    BY <1>2 DEF Requests
  <2> HIDE DEF q
  <2>6. admin'[a].req = q
    BY <1>5
  <2>7. QED
    BY <2>3, <2>4, <2>5, <2>6 DEF Allowed
<1>9. SomeAdminLeft'
  BY <1>1, <1>6 DEF AdminInv, SomeAdminLeft
<1>10. QED
  BY <1>7, <1>8, <1>9 DEF AdminInv

\* The administrator whose request is written is left, for it is the only one that
\* has passed the check; a new account takes no one's place.
LEMMA AdminWritesKeeps ==
  ASSUME AdminInv, NEW a \in Admins, AdminWrites(a) PROVE AdminInv'
<1> DEFINE q == admin[a].req
<1>1. /\ admin \in [Admins -> AdminPages] /\ role \in [People -> AnyRole]
      /\ q \in Requests /\ q.at = "checked" /\ q.role \in AnyRole
  BY DEF AdminInv, AdminTypes, AdminPages, AdminWrites
<1>2. CASE q.op = "create" /\ role[q.who] # "gone"
  <2>1. role' = role /\ UNCHANGED seen
    BY <1>2 DEF AdminWrites
  <2>2. admin' = [admin EXCEPT ![a].req = [q EXCEPT !.at = "refused"]]
    BY <1>1, <1>2 DEF AdminWrites, AdminPages
  <2>3. /\ [q EXCEPT !.at = "refused"] \in Requests
        /\ [q EXCEPT !.at = "refused"].at # "checked"
        /\ [q EXCEPT !.at = "refused"].role \in AnyRole
    BY <1>1 DEF Requests
  <2> HIDE DEF q
  <2>4. QED
    BY <2>1, <2>2, <2>3, RequestStep
<1>3. CASE ~ (q.op = "create" /\ role[q.who] # "gone")
  <2> DEFINE r == [q EXCEPT !.at = "done"]
  <2>1. /\ role' = [role EXCEPT ![q.who] = Written(q, role[q.who])]
        /\ admin' = [admin EXCEPT ![a].req = r]
    BY <1>1, <1>3 DEF AdminWrites, AdminPages
  <2>2. r \in Requests /\ r.at = "done" /\ r.role \in AnyRole
    BY <1>1 DEF Requests
  <2>3. /\ seen' \in Histories
        /\ seen'.raced = seen.raced
    <3>1. seen' = [seen EXCEPT !.by[q.who] = a,
                     !.approved = @ \/ (q.who = Guest /\ role[Guest] = "pending")]
      BY <1>3 DEF AdminWrites
    <3>2. q.who \in People /\ a \in People
      BY <1>1 DEF Requests, People
    <3>3. seen \in Histories
      BY DEF AdminInv, AdminTypes
    <3>4. [seen.by EXCEPT ![q.who] = a] \in [People -> People]
      BY <3>2, <3>3 DEF Histories
    <3> HIDE DEF q
    <3>5. seen' = [seen EXCEPT !.by = [seen.by EXCEPT ![q.who] = a],
                     !.approved = (seen.approved \/ (q.who = Guest /\ role[Guest] = "pending"))]
      BY <3>1, <3>3
    <3>6. QED
      BY <3>3, <3>4, <3>5 DEF Histories
  <2>4. role' \in [People -> AnyRole]
    BY <1>1, <2>1 DEF Written, AnyRole, Requests
  <2>5. /\ admin' \in [Admins -> AdminPages]
        /\ \A b \in Admins : admin'[b].req = IF b = a THEN r ELSE admin[b].req
    <3> HIDE DEF q, r
    <3>1. admin' = [admin EXCEPT ![a] = [admin[a] EXCEPT !.req = r]]
      BY <1>1, <2>1
    <3>2. [admin[a] EXCEPT !.req = r] \in AdminPages
      BY <1>1, <2>2 DEF AdminPages
    <3>3. QED
      BY <1>1, <3>1, <3>2 DEF AdminPages
  <2>6. AdminTypes'
    <3> HIDE DEF r
    <3>1. QED
      BY <2>2, <2>3, <2>4, <2>5 DEF AdminInv, AdminTypes
  <2>7. ASSUME ~ seen.raced PROVE \A b \in Admins : ~ Checked(b)'
    <3>1. \A b \in Admins : Checked(b) => b = a
      BY <1>1, <2>7 DEF AdminInv, OneChecked, Checked
    <3> HIDE DEF r
    <3>2. QED
      BY <2>2, <2>5, <3>1 DEF Checked
  <2>8. OneChecked'
    BY <2>3, <2>7 DEF OneChecked
  <2>9. SomeAdminLeft'
    <3>1. SUFFICES ASSUME ~ seen.raced PROVE \E p \in People : role'[p] = "admin"
      BY <2>3 DEF SomeAdminLeft
    <3>2. CASE q.op = "create"
      <4>1. PICK p \in People : role[p] = "admin"
        BY <3>1 DEF AdminInv, SomeAdminLeft
      <4>2. role[q.who] = "gone"
        BY <1>3, <3>2
      <4>3. role'[p] = "admin"
        BY <1>1, <2>1, <4>1, <4>2
      <4>4. QED
        BY <4>3
    <3>3. CASE q.op # "create"
      <4>1. role[a] = "admin" /\ q.who # a
        BY <1>1, <3>1, <3>3 DEF AdminInv, OneChecked, Checked
      <4>2. a \in People
        BY DEF People
      <4>3. role'[a] = "admin"
        BY <1>1, <2>1, <4>1, <4>2
      <4>4. QED
        BY <4>2, <4>3
    <3>4. QED
      BY <3>2, <3>3
  <2>10. QED
    BY <2>6, <2>8, <2>9 DEF AdminInv
<1>4. QED
  BY <1>2, <1>3

-----------------------------------------------------------------------------
(* Every step *)

\* What the browser's session does to history: it tells when answers came, whether the
\* session has ended or was not heard of, and no more.
SessionHistory(late, unheard, back, ended, approved) ==
  [seen EXCEPT !.late = late, !.unheard = unheard, !.back = back, !.ended = ended, !.approved = approved]
SessionSeen ==
  \E l, u, b, e, p \in BOOLEAN : seen' = SessionHistory(l, u, b, e, p)

\* The steps of the browser's session.
SessionActions ==
  \/ HandleSubmit \/ Refresh \/ HandleLogout \/ Reloads \/ GoesBack
  \/ \E s \in Slots : MeReads(s) \/ CheckAnswered(s) \/ CheckFails(s)
  \/ LoginHandles \/ LoginAnswered \/ LoginFailed \/ CookieExpires
  \/ LogoutHandles \/ LogoutAnswered \/ LogoutFails

LEMMA SessionsHistory ==
  ASSUME seen \in Histories, SessionActions PROVE SessionSeen
<1>1. ASSUME seen' = seen PROVE SessionSeen
  <2>1. seen' = SessionHistory(seen.late, seen.unheard, seen.back, seen.ended, seen.approved)
    BY <1>1 DEF SessionHistory, Histories
  <2>2. QED
    BY <2>1 DEF SessionSeen, Histories
<1>2. CASE \/ HandleSubmit \/ HandleLogout \/ LogoutHandles
           \/ \E s \in Slots : MeReads(s) \/ CheckAnswered(s)
  BY <1>1, <1>2 DEF HandleSubmit, HandleLogout, LogoutHandles, MeReads, CheckAnswered
<1>3. CASE Refresh \/ LoginAnswered
  <2>1. PICK l \in BOOLEAN : seen' = [seen EXCEPT !.late = l, !.unheard = FALSE]
    BY <1>3 DEF Refresh, LoginAnswered, CheckAuth
  <2>2. seen' = SessionHistory(l, FALSE, seen.back, seen.ended, seen.approved)
    BY <2>1 DEF SessionHistory, Histories
  <2>3. QED
    BY <2>2 DEF SessionSeen, Histories
<1>4. CASE Reloads \/ LogoutAnswered
  <2>1. \/ seen' = seen
        \/ seen' = [seen EXCEPT !.late = FALSE, !.unheard = FALSE, !.back = FALSE, !.ended = FALSE]
    BY <1>4 DEF Reloads, LogoutAnswered, Loads, GoesToLogin
  <2>2. seen' = seen \/ seen' = SessionHistory(FALSE, FALSE, FALSE, FALSE, seen.approved)
    BY <2>1 DEF SessionHistory, Histories
  <2>3. QED
    BY <1>1, <2>2 DEF SessionSeen, Histories
<1>5. CASE GoesBack
  <2>1. seen' = SessionHistory(seen.late, seen.unheard, TRUE, seen.ended, seen.approved)
    BY <1>5 DEF GoesBack, SessionHistory, Histories
  <2>2. QED
    BY <2>1 DEF SessionSeen, Histories
<1>6. CASE LoginHandles
  <2>1. seen' = seen \/ seen' = SessionHistory(seen.late, seen.unheard, FALSE, FALSE, FALSE)
    BY <1>6 DEF LoginHandles, SessionHistory, Histories
  <2>2. QED
    BY <1>1, <2>1 DEF SessionSeen, Histories
<1>7. CASE LoginFailed \/ \E s \in Slots : CheckFails(s)
  <2>1. PICK u \in BOOLEAN : seen' = [seen EXCEPT !.unheard = u]
    BY <1>7 DEF LoginFailed, CheckFails, Histories
  <2>2. seen' = SessionHistory(seen.late, u, seen.back, seen.ended, seen.approved)
    BY <2>1 DEF SessionHistory, Histories
  <2>3. QED
    BY <2>2 DEF SessionSeen, Histories
<1>8. CASE CookieExpires \/ LogoutFails
  <2>1. seen' = seen \/ \E e \in BOOLEAN : seen' = [seen EXCEPT !.ended = e]
    BY <1>8 DEF CookieExpires, LogoutFails, GoesToLogin, Histories
  <2>2. CASE \E e \in BOOLEAN : seen' = [seen EXCEPT !.ended = e]
    <3>1. PICK e \in BOOLEAN : seen' = [seen EXCEPT !.ended = e]
      BY <2>2
    <3>2. seen' = SessionHistory(seen.late, seen.unheard, seen.back, e, seen.approved)
      BY <3>1 DEF SessionHistory, Histories
    <3>3. QED
      BY <3>2 DEF SessionSeen, Histories
  <2>3. QED
    BY <1>1, <2>1, <2>2
<1>9. QED
  BY <1>2, <1>3, <1>4, <1>5, <1>6, <1>7, <1>8 DEF SessionActions

LEMMA SeenOthers ==
  ASSUME seen \in Histories, SessionSeen
  PROVE  /\ seen' \in Histories /\ seen'.raced = seen.raced
         /\ seen'.by = seen.by /\ seen'.crossed = seen.crossed
<1>1. PICK l, u, b, e, p \in BOOLEAN : seen' = SessionHistory(l, u, b, e, p)
  BY DEF SessionSeen
<1>2. QED
  BY <1>1 DEF SessionHistory, Histories

\* They leave the accounts and the administrators' pages.
LEMMA SessionKeepsAdmin ==
  ASSUME SessionActions PROVE KeepAdmin
  BY DEF SessionActions, HandleSubmit, Refresh, HandleLogout, Reloads, GoesBack, MeReads, CheckAnswered,
     CheckFails, Hears, LoginHandles, LoginAnswered, LoginFailed, CookieExpires, LogoutHandles,
     LogoutAnswered, LogoutFails

LEMMA SessionSteps ==
  ASSUME AdminInv, SessionActions PROVE AdminInv'
<1>1. seen \in Histories
  BY DEF AdminInv, AdminTypes
<1>2. KeepAdmin /\ seen' \in Histories /\ seen'.raced = seen.raced
  BY <1>1, SessionKeepsAdmin, SessionsHistory, SeenOthers
<1>3. QED
  BY <1>2, SessionStep

\* The search box only changes the search.
LEMMA SearchSteps ==
  ASSUME AdminInv,
         \/ HandleSearchChange \/ Navigates \/ HandleResultClick \/ HandleClickOutside \/ Focuses
         \/ TimerFires \/ SearchAnswered
  PROVE  AdminInv'
<1>1. KeepAdmin /\ seen' = seen
  BY DEF HandleSearchChange, Navigates, HandleResultClick, HandleClickOutside, Focuses,
         TimerFires, SearchAnswered, Box
<1>2. QED
  BY <1>1, SessionStep DEF AdminInv, AdminTypes

\* What an administrator clicks asks for a role the program knows.
LEMMA AdminActs ==
  ASSUME AdminInv, NEW a \in Admins, HandleToggleRole(a) \/ HandleDeleteUser(a) \/ HandleCreateUser(a)
  PROVE  AdminInv'
<1>1. CASE HandleToggleRole(a)
  <2>1. PICK p \in People : Listed(a, p) /\ Asks(a, "role", p, NextRole(admin[a].list[p]))
    BY <1>1 DEF HandleToggleRole
  <2>2. admin[a].list[p] \in Roles
    BY <2>1 DEF AdminInv, AdminTypes, AdminPages, AnyRole, Listed
  <2>3. NextRole(admin[a].list[p]) \in AnyRole
    BY <2>2 DEF NextRole, Roles, AnyRole
  <2>4. QED
    BY <2>1, <2>3, AsksKeeps
<1>2. CASE HandleDeleteUser(a)
  <2>1. PICK p \in People : Asks(a, "delete", p, "gone")
    BY <1>2 DEF HandleDeleteUser
  <2>2. "gone" \in AnyRole
    BY DEF AnyRole
  <2>3. QED
    BY <2>1, <2>2, AsksKeeps
<1>3. CASE HandleCreateUser(a)
  <2>1. Asks(a, "create", Newcomer, "user") /\ Newcomer \in People /\ "user" \in AnyRole
    BY <1>3 DEF HandleCreateUser, People, AnyRole, Roles
  <2>2. QED
    BY <2>1, AsksKeeps
<1>4. QED
  BY <1>1, <1>2, <1>3

LEMMA NextKeeps == AdminInv /\ [Next]_vars => AdminInv'
<1> SUFFICES ASSUME AdminInv, [Next]_vars PROVE AdminInv'
  OBVIOUS
<1>1. CASE User
  BY <1>1, SessionSteps, SearchSteps, AdminActs DEF User, SessionActions
<1>2. CASE System
  BY <1>2, SessionSteps, SearchSteps, AdminChecksKeeps, AdminWritesKeeps, AdminAnsweredKeeps,
     AdminRefusedKeeps, ListReadsKeeps, ListAnsweredKeeps DEF System, SessionActions
<1>3. CASE UNCHANGED vars
  BY <1>3, SessionStep DEF vars, KeepAdmin, AdminInv, AdminTypes
<1>4. QED
  BY <1>1, <1>2, <1>3 DEF Next

-----------------------------------------------------------------------------

\* Whatever administrators ask of each other's accounts, one is left, as long as
\* no request passes its check between the check and the write of another
\* (auth/handler.go:267).
THEOREM AnAdministratorIsLeft == Spec => []SomeAdminLeft
<1>1. AdminInv => SomeAdminLeft
  BY DEF AdminInv
<1>2. QED
  BY <1>1, InitAdmin, NextKeeps, PTL DEF Spec

-----------------------------------------------------------------------------
(* The search box *)

Texts == Short \cup Long \cup {""}
SearchTypes ==
  search \in [query : Texts, results : SUBSET Texts, open : BOOLEAN, timer : Long \cup {""},
              asked : [Slots -> Long \cup {""}], late : BOOLEAN]

\* Until something came late, the timer and the requests are of the text in the box, and
\* so are the results once there are none of them.
Follows ==
  /\ search.timer # "" => search.timer = search.query
  /\ \A s \in Slots : search.asked[s] # "" => search.asked[s] = search.query
  /\ search.query # "" /\ search.timer = "" /\ ~Searching => search.results \subseteq {search.query}

\* Inductive.
SearchInv == SearchTypes /\ (~search.late => Follows)

LEMMA EmptyBox ==
  ASSUME search' = NoSearch PROVE SearchInv'
<1>1. SearchTypes'
  BY DEF SearchTypes, NoSearch, Texts
<1>2. Follows'
  BY DEF Follows, NoSearch, Searching
<1>3. QED
  BY <1>1, <1>2 DEF SearchInv

LEMMA SameBox ==
  ASSUME SearchInv, search' = search PROVE SearchInv'
  BY DEF SearchInv, SearchTypes, Follows, Searching

\* Typing takes a late answer for what it is: one that is under way.
LEMMA TypedKeeps ==
  ASSUME SearchInv, NEW v \in Texts, search' = Typed(v) PROVE SearchInv'
<1>1. SearchTypes
  BY DEF SearchInv
<1>2. /\ search'.query = v /\ search'.late = Searching /\ search'.asked = search.asked
      /\ search'.timer = IF v \in Long THEN v ELSE ""
      /\ search'.results = IF v \in Long THEN search.results ELSE {}
      /\ search'.open = (search.open /\ v \in Long)
  BY <1>1 DEF Typed, SearchTypes
<1>3. search' \in [query : Texts, results : SUBSET Texts, open : BOOLEAN, timer : Long \cup {""},
                   asked : [Slots -> Long \cup {""}], late : BOOLEAN]
  BY <1>1 DEF Typed, SearchTypes, Searching
<1>4. ASSUME ~search'.late PROVE Follows'
  <2>1. \A s \in Slots : search'.asked[s] = ""
    BY <1>2, <1>4 DEF Searching
  <2>2. search'.timer # "" => search'.timer = v
    BY <1>2
  <2>3. v # "" /\ search'.timer = "" => search'.results = {}
    BY <1>2
  <2>4. QED
    BY <1>2, <2>1, <2>2, <2>3 DEF Follows
<1>5. QED
  BY <1>3, <1>4 DEF SearchInv, SearchTypes

\* Going to another path leaves an empty box.
LEMMA EmptiedKeeps ==
  ASSUME SearchInv, search' = [search EXCEPT !.open = FALSE, !.query = "",
                                 !.late = Searching \/ search.timer # ""]
  PROVE  SearchInv'
<1>1. SearchTypes
  BY DEF SearchInv
<1>2. /\ search'.query = "" /\ search'.late = (Searching \/ search.timer # "")
      /\ search'.asked = search.asked /\ search'.timer = search.timer
  BY <1>1 DEF SearchTypes
<1>3. search' \in [query : Texts, results : SUBSET Texts, open : BOOLEAN, timer : Long \cup {""},
                   asked : [Slots -> Long \cup {""}], late : BOOLEAN]
  BY <1>1 DEF SearchTypes, Searching, Texts
<1>4. ~search'.late => Follows'
  BY <1>2 DEF Follows, Searching
<1>5. QED
  BY <1>3, <1>4 DEF SearchInv, SearchTypes

LEMMA OpenedKeeps ==
  ASSUME SearchInv, NEW o \in BOOLEAN, search' = [search EXCEPT !.open = o]
  PROVE  SearchInv'
<1>1. SearchTypes
  BY DEF SearchInv
<1>2. /\ search'.query = search.query /\ search'.late = search.late /\ search'.results = search.results
      /\ search'.asked = search.asked /\ search'.timer = search.timer
  BY <1>1 DEF SearchTypes
<1>3. search' \in [query : Texts, results : SUBSET Texts, open : BOOLEAN, timer : Long \cup {""},
                   asked : [Slots -> Long \cup {""}], late : BOOLEAN]
  BY <1>1 DEF SearchTypes
<1>4. ~search'.late => Follows'
  BY <1>2 DEF Follows, Searching, SearchInv
<1>5. QED
  BY <1>3, <1>4 DEF SearchInv, SearchTypes

\* The timer asks for its text.
LEMMA TimerKeeps ==
  ASSUME SearchInv, TimerFires PROVE SearchInv'
<1>1. PICK s \in Slots : /\ search.asked[s] = ""
                         /\ search' = [search EXCEPT !.timer = "", !.asked[s] = search.timer]
  BY DEF TimerFires, Box
<1>2. SearchTypes /\ search.timer # "" /\ search.timer \in Long
  BY DEF SearchInv, TimerFires, SearchTypes
<1>3. /\ search'.query = search.query /\ search'.late = search.late /\ search'.timer = ""
      /\ search'.asked = [search.asked EXCEPT ![s] = search.timer]
  BY <1>1, <1>2 DEF SearchTypes
<1>4. search'.asked \in [Slots -> Long \cup {""}] /\ search'.asked[s] = search.timer
      /\ \A t \in Slots : t # s => search'.asked[t] = search.asked[t]
  BY <1>2, <1>3 DEF SearchTypes
<1>5. search' = [search EXCEPT !.timer = "", !.asked = search'.asked]
  BY <1>1, <1>2, <1>3 DEF SearchTypes
<1>6. search' \in [query : Texts, results : SUBSET Texts, open : BOOLEAN, timer : Long \cup {""},
                   asked : [Slots -> Long \cup {""}], late : BOOLEAN]
  BY <1>2, <1>4, <1>5 DEF SearchTypes
<1>7. ASSUME ~search'.late PROVE Follows'
  <2>1. Follows /\ search.timer = search.query
    BY <1>2, <1>3, <1>7 DEF SearchInv, Follows
  <2>2. \A t \in Slots : search'.asked[t] # "" => search'.asked[t] = search'.query
    BY <1>3, <1>4, <2>1 DEF Follows
  <2>3. Searching'
    BY <1>2, <1>4 DEF Searching
  <2>4. QED
    BY <1>3, <2>2, <2>3 DEF Follows
<1>8. QED
  BY <1>6, <1>7 DEF SearchInv, SearchTypes

\* The answer is of the text that was asked for, or there is none.
LEMMA AnswerKeeps ==
  ASSUME SearchInv, SearchAnswered PROVE SearchInv'
<1>1. PICK s \in Slots :
        /\ search.asked[s] # ""
        /\ \/ search' = [search EXCEPT !.asked[s] = "", !.results = {search.asked[s]}, !.open = TRUE]
           \/ search' = [search EXCEPT !.asked[s] = "", !.results = {}]
  BY DEF SearchAnswered, Box
<1>2. SearchTypes /\ search.asked[s] \in Long
  BY <1>1 DEF SearchInv, SearchTypes
<1>3. /\ search'.query = search.query /\ search'.late = search.late /\ search'.timer = search.timer
      /\ search'.asked = [search.asked EXCEPT ![s] = ""]
      /\ search'.results \subseteq {search.asked[s]} /\ search'.open \in {search.open, TRUE}
  BY <1>1, <1>2 DEF SearchTypes
<1>4. search'.asked \in [Slots -> Long \cup {""}]
      /\ \A t \in Slots : search'.asked[t] = IF t = s THEN "" ELSE search.asked[t]
  BY <1>2, <1>3 DEF SearchTypes
<1>5. search' = [search EXCEPT !.asked = search'.asked, !.results = search'.results, !.open = search'.open]
  BY <1>1, <1>2, <1>3 DEF SearchTypes
<1>6. search'.results \in SUBSET Texts /\ search'.open \in BOOLEAN
  BY <1>2, <1>3 DEF SearchTypes, Texts
<1>7. search' \in [query : Texts, results : SUBSET Texts, open : BOOLEAN, timer : Long \cup {""},
                   asked : [Slots -> Long \cup {""}], late : BOOLEAN]
  BY <1>2, <1>4, <1>5, <1>6 DEF SearchTypes
<1>8. ASSUME ~search'.late PROVE Follows'
  <2>1. Follows /\ search.asked[s] = search.query
    BY <1>1, <1>3, <1>8 DEF SearchInv, Follows
  <2>2. \A t \in Slots : search'.asked[t] # "" => search'.asked[t] = search'.query
    BY <1>3, <1>4, <2>1 DEF Follows
  <2>3. QED
    BY <1>3, <2>1, <2>2 DEF Follows
<1>9. QED
  BY <1>7, <1>8 DEF SearchInv, SearchTypes

LEMMA SearchInit == Init => SearchInv
<1>1. NoSearch \in [query : Texts, results : SUBSET Texts, open : BOOLEAN, timer : Long \cup {""},
                    asked : [Slots -> Long \cup {""}], late : BOOLEAN]
  BY DEF NoSearch, Texts
<1>2. ASSUME search = NoSearch PROVE Follows
  BY <1>2 DEF Follows, NoSearch, Searching
<1>3. QED
  BY <1>1, <1>2 DEF Init, SearchInv, SearchTypes

LEMMA SearchStep == SearchInv /\ [Next]_vars => SearchInv'
<1> SUFFICES ASSUME SearchInv, [Next]_vars PROVE SearchInv'
  OBVIOUS
<1>1. CASE \/ HandleSubmit \/ Refresh \/ HandleLogout \/ GoesBack
           \/ \E s \in Slots : MeReads(s)
           \/ LoginHandles \/ LoginAnswered \/ LoginFailed \/ CookieExpires \/ LogoutHandles
           \/ UNCHANGED vars
  <2>1. search' = search
    BY <1>1 DEF HandleSubmit, Refresh, HandleLogout, GoesBack, MeReads, LoginHandles,
       LoginAnswered, LoginFailed, CookieExpires, LogoutHandles, vars
  <2>2. QED
    BY <2>1, SameBox
<1>2. CASE \/ Reloads \/ LogoutAnswered \/ LogoutFails
           \/ \E s \in Slots : CheckAnswered(s) \/ CheckFails(s)
  <2>1. search' = search \/ search' = NoSearch
    BY <1>2 DEF Reloads, LogoutAnswered, LogoutFails, GoesToLogin, CheckAnswered, CheckFails, Hears,
       Loads, KeepsSearch
  <2>2. QED
    BY <2>1, SameBox, EmptyBox
<1>3. CASE \E a \in Admins :
             \/ HandleToggleRole(a) \/ HandleDeleteUser(a) \/ HandleCreateUser(a)
             \/ AdminChecks(a) \/ AdminWrites(a) \/ AdminAnswered(a) \/ AdminRefused(a)
             \/ ListReads(a) \/ ListAnswered(a)
  <2>1. KeepSession
    BY <1>3 DEF HandleToggleRole, HandleDeleteUser, HandleCreateUser, Asks, AdminChecks, AdminWrites,
       AdminAnswered, AdminRefused, ListReads, ListAnswered
  <2>2. QED
    BY <2>1, SameBox DEF KeepSession
<1>4. CASE HandleSearchChange
  <2>1. PICK v \in Texts : search' = Typed(v)
    BY <1>4 DEF HandleSearchChange, Box, Texts
  <2>2. QED
    BY <2>1, TypedKeeps
<1>5. CASE Navigates \/ HandleResultClick
  BY <1>5, EmptiedKeeps DEF Navigates, HandleResultClick, Box
<1>6. CASE HandleClickOutside \/ Focuses
  <2>1. \E o \in BOOLEAN : search' = [search EXCEPT !.open = o]
    BY <1>6 DEF HandleClickOutside, Focuses, Box
  <2>2. QED
    BY <2>1, OpenedKeeps
<1>7. QED
  BY <1>1, <1>2, <1>3, <1>4, <1>5, <1>6, TimerKeeps, AnswerKeeps DEF Next, User, System

\* The results that are listed are of the text in the box, unless it changed while an
\* answer was on its way, whatever is typed, clicked and answered (Layout.tsx:61).
THEOREM ResultsAreOfTheText == Spec => []ResultsAreOfText
<1>1. SearchInv => ResultsAreOfText
  BY DEF SearchInv, Follows, ResultsAreOfText
<1>2. QED
  BY <1>1, SearchInit, SearchStep, PTL DEF Spec

-----------------------------------------------------------------------------
(* The lists of accounts *)

Fetching(a, s) == admin[a].fetch[s].at # "idle"

OneFetch(a) == \A s, t \in Slots : Fetching(a, s) /\ Fetching(a, t) => s = t

\* What the page of a knows of the account p: what a fetch has read, and what is listed
\* while none is under way, is the account's role, but for a page that shows an error.
Knows(a, p) ==
  /\ \A s \in Slots : admin[a].fetch[s].at = "read" => admin[a].fetch[s].list[p] = role[p]
  /\ (\A s \in Slots : ~Fetching(a, s)) /\ ~admin[a].error => admin[a].list[p] = role[p]

\* An administrator whose fetches never crossed has one at most, and knows the account
\* that he was the last to change as soon as his request is answered.  Inductive with
\* the types.
ListInv ==
  \A a \in Admins : a \notin seen.crossed =>
    /\ OneFetch(a)
    /\ \A p \in People : seen.by[p] = a /\ admin[a].req.at # "done" => Knows(a, p)

\* The fields of a page that a step leaves alone.
SamePage(a) == /\ admin'[a].list = admin[a].list /\ admin'[a].error = admin[a].error
               /\ admin'[a].fetch = admin[a].fetch

\* A request that is not answered by the step changes nothing in what the pages know.
LEMMA PagesKept ==
  ASSUME ListInv, role' = role, seen'.by = seen.by, seen'.crossed = seen.crossed,
         \A a \in Admins : SamePage(a) /\ (admin[a].req.at = "done" => admin'[a].req.at = "done")
  PROVE  ListInv'
<1>1. SUFFICES ASSUME NEW a \in Admins, a \notin seen'.crossed
               PROVE  /\ OneFetch(a)'
                      /\ \A p \in People : seen'.by[p] = a /\ admin'[a].req.at # "done" => Knows(a, p)'
  BY DEF ListInv
<1>2. OneFetch(a)'
  BY <1>1 DEF ListInv, OneFetch, Fetching, SamePage
<1>3. ASSUME NEW p \in People, seen'.by[p] = a, admin'[a].req.at # "done" PROVE Knows(a, p)'
  <2>1. Knows(a, p)
    BY <1>1, <1>3 DEF ListInv
  <2>2. QED
    BY <2>1 DEF Knows, Fetching, SamePage
<1>4. QED
  BY <1>2, <1>3

LEMMA RequestOnly ==
  ASSUME AdminTypes, NEW a \in Admins, NEW q \in Requests, admin' = [admin EXCEPT ![a].req = q]
  PROVE  /\ \A b \in Admins : SamePage(b)
         /\ \A b \in Admins : admin'[b].req = IF b = a THEN q ELSE admin[b].req
<1>1. admin \in [Admins -> AdminPages]
  BY DEF AdminTypes
<1>2. \A b \in Admins : admin'[b] = IF b = a THEN [admin[a] EXCEPT !.req = q] ELSE admin[b]
  BY <1>1
<1>3. QED
  BY <1>1, <1>2 DEF AdminPages, SamePage

LEMMA AsksList ==
  ASSUME AdminInv, ListInv, NEW a \in Admins, NEW op \in {"role", "delete", "create"},
         NEW p \in People, NEW r, Asks(a, op, p, r), r \in AnyRole
  PROVE  ListInv'
<1> DEFINE q == [at |-> "sent", op |-> op, who |-> p, role |-> r]
<1>1. q \in Requests /\ q.at = "sent"
  BY DEF Requests
<1>2. admin' = [admin EXCEPT ![a].req = q] /\ role' = role /\ UNCHANGED seen /\ admin[a].req.at = "idle"
  BY DEF Asks
<1> HIDE DEF q
<1>3. QED
  BY <1>1, <1>2, RequestOnly, PagesKept DEF AdminInv

LEMMA ActsList ==
  ASSUME AdminInv, ListInv, NEW a \in Admins,
         HandleToggleRole(a) \/ HandleDeleteUser(a) \/ HandleCreateUser(a)
  PROVE  ListInv'
<1>1. CASE HandleToggleRole(a)
  <2>1. PICK p \in People : Listed(a, p) /\ Asks(a, "role", p, NextRole(admin[a].list[p]))
    BY <1>1 DEF HandleToggleRole
  <2>2. admin[a].list[p] \in Roles
    BY <2>1 DEF AdminInv, AdminTypes, AdminPages, AnyRole, Listed
  <2>3. NextRole(admin[a].list[p]) \in AnyRole
    BY <2>2 DEF NextRole, Roles, AnyRole
  <2>4. QED
    BY <2>1, <2>3, AsksList
<1>2. CASE HandleDeleteUser(a)
  <2>1. PICK p \in People : Asks(a, "delete", p, "gone")
    BY <1>2 DEF HandleDeleteUser
  <2>2. "gone" \in AnyRole
    BY DEF AnyRole
  <2>3. QED
    BY <2>1, <2>2, AsksList
<1>3. CASE HandleCreateUser(a)
  <2>1. Asks(a, "create", Newcomer, "user") /\ Newcomer \in People /\ "user" \in AnyRole
    BY <1>3 DEF HandleCreateUser, People, AnyRole, Roles
  <2>2. QED
    BY <2>1, AsksList
<1>4. QED
  BY <1>1, <1>2, <1>3

LEMMA AdminRefusedList ==
  ASSUME AdminInv, ListInv, NEW a \in Admins, AdminRefused(a) PROVE ListInv'
<1>1. NoRequest \in Requests
  BY DEF NoRequest, Requests, People
<1>2. admin' = [admin EXCEPT ![a].req = NoRequest] /\ role' = role /\ UNCHANGED seen
      /\ admin[a].req.at = "refused"
  BY DEF AdminRefused
<1>3. AdminTypes
  BY DEF AdminInv
<1>4. /\ \A b \in Admins : SamePage(b)
      /\ \A b \in Admins : admin'[b].req = IF b = a THEN NoRequest ELSE admin[b].req
  BY <1>1, <1>2, <1>3, RequestOnly
<1>5. QED
  BY <1>2, <1>4, PagesKept

LEMMA AdminChecksList ==
  ASSUME AdminInv, ListInv, NEW a \in Admins, AdminChecks(a) PROVE ListInv'
<1> DEFINE q == [admin[a].req EXCEPT
                   !.at = IF Allowed(a, admin[a].req) THEN "checked" ELSE "refused"]
<1>1. admin \in [Admins -> AdminPages] /\ role' = role /\ admin[a].req.at = "sent"
  BY DEF AdminInv, AdminTypes, AdminChecks
<1>2. q \in Requests
  BY <1>1 DEF AdminPages, Requests
<1>3. admin' = [admin EXCEPT ![a].req = q]
  BY <1>1 DEF AdminChecks, AdminPages
<1>4. seen'.by = seen.by /\ seen'.crossed = seen.crossed
  BY DEF AdminInv, AdminTypes, AdminChecks, Histories
<1> HIDE DEF q
<1>5. QED
  BY <1>1, <1>2, <1>3, <1>4, RequestOnly, PagesKept DEF AdminInv

\* What an administrator writes is his to know when he is answered, and nobody else's.
LEMMA AdminWritesList ==
  ASSUME AdminInv, ListInv, NEW a \in Admins, AdminWrites(a) PROVE ListInv'
<1> DEFINE q == admin[a].req
<1>1. /\ admin \in [Admins -> AdminPages] /\ role \in [People -> AnyRole]
      /\ q \in Requests /\ q.at = "checked" /\ q.who \in People
  BY DEF AdminInv, AdminTypes, AdminPages, AdminWrites, Requests
<1>2. CASE q.op = "create" /\ role[q.who] # "gone"
  <2> DEFINE r == [q EXCEPT !.at = "refused"]
  <2>1. role' = role /\ UNCHANGED seen /\ admin' = [admin EXCEPT ![a].req = r]
    BY <1>1, <1>2 DEF AdminWrites, AdminPages
  <2>2. r \in Requests
    BY <1>1 DEF Requests
  <2> HIDE DEF r
  <2>3. QED
    BY <1>1, <2>1, <2>2, RequestOnly, PagesKept DEF AdminInv
<1>3. CASE ~ (q.op = "create" /\ role[q.who] # "gone")
  <2> DEFINE r == [q EXCEPT !.at = "done"]
  <2>1. /\ role' = [role EXCEPT ![q.who] = Written(q, role[q.who])]
        /\ admin' = [admin EXCEPT ![a].req = r]
    BY <1>1, <1>3 DEF AdminWrites, AdminPages
  <2>2. r \in Requests /\ r.at = "done"
    BY <1>1 DEF Requests
  <2>3. seen \in Histories
    BY DEF AdminInv, AdminTypes
  <2>4. seen'.by = [seen.by EXCEPT ![q.who] = a] /\ seen'.crossed = seen.crossed
    BY <1>3, <2>3 DEF AdminWrites, Histories
  <2> HIDE DEF q, r
  <2>5. /\ \A b \in Admins : SamePage(b)
        /\ \A b \in Admins : admin'[b].req = IF b = a THEN r ELSE admin[b].req
    BY <2>1, <2>2, RequestOnly DEF AdminInv
  <2>6. \A p \in People : p # q.who => role'[p] = role[p] /\ seen'.by[p] = seen.by[p]
    BY <1>1, <2>1, <2>3, <2>4 DEF Histories
  <2>7. seen'.by[q.who] = a
    BY <1>1, <2>3, <2>4 DEF Histories
  <2>8. SUFFICES ASSUME NEW b \in Admins, b \notin seen'.crossed
                 PROVE  /\ OneFetch(b)'
                        /\ \A p \in People : seen'.by[p] = b /\ admin'[b].req.at # "done" => Knows(b, p)'
    BY DEF ListInv
  <2>9. OneFetch(b)'
    BY <2>4, <2>5, <2>8 DEF ListInv, OneFetch, Fetching, SamePage
  <2>10. ASSUME NEW p \in People, seen'.by[p] = b, admin'[b].req.at # "done" PROVE Knows(b, p)'
    <3>1. b # a
      BY <2>2, <2>5, <2>10
    <3>2. p # q.who
      BY <2>7, <2>10, <3>1
    <3>3. Knows(b, p)
      BY <2>4, <2>5, <2>6, <2>8, <2>10, <3>1, <3>2 DEF ListInv
    <3>4. QED
      BY <2>5, <2>6, <3>2, <3>3 DEF Knows, Fetching, SamePage
  <2>11. QED
    BY <2>9, <2>10
<1>4. QED
  BY <1>2, <1>3

\* The answer has the list fetched after the write.
LEMMA AdminAnsweredList ==
  ASSUME AdminInv, ListInv, NEW a \in Admins, AdminAnswered(a) PROVE ListInv'
<1>1. PICK s \in Slots :
        /\ admin[a].fetch[s].at = "idle"
        /\ admin' = [admin EXCEPT ![a].req = NoRequest, ![a].fetch[s].at = "sent"]
        /\ seen' = [seen EXCEPT !.crossed =
                      IF \E o \in Slots : admin[a].fetch[o].at # "idle" THEN @ \cup {a} ELSE @]
  BY DEF AdminAnswered
<1>2. admin \in [Admins -> AdminPages] /\ seen \in Histories /\ role' = role
  BY DEF AdminInv, AdminTypes, AdminAnswered
<1>3. /\ seen'.by = seen.by
      /\ seen.crossed \subseteq seen'.crossed
      /\ a \notin seen'.crossed => \A o \in Slots : admin[a].fetch[o].at = "idle"
  BY <1>1, <1>2 DEF Histories
<1>4. \A b \in Admins : b # a => admin'[b] = admin[b]
  BY <1>1, <1>2
<1>5. admin'[a].fetch[s].at = "sent" /\ \A t \in Slots : t # s => admin'[a].fetch[t] = admin[a].fetch[t]
  BY <1>1, <1>2 DEF AdminPages, Fetches
<1>6. SUFFICES ASSUME NEW b \in Admins, b \notin seen'.crossed
               PROVE  /\ OneFetch(b)'
                      /\ \A p \in People : seen'.by[p] = b /\ admin'[b].req.at # "done" => Knows(b, p)'
  BY DEF ListInv
<1>7. CASE b = a
  <2>1. \A t \in Slots : t # s => admin'[a].fetch[t].at = "idle"
    BY <1>3, <1>5, <1>6, <1>7
  <2>2. OneFetch(b)'
    BY <1>7, <2>1 DEF OneFetch, Fetching
  <2>3. \A p \in People : Knows(b, p)'
    BY <1>5, <1>7, <2>1 DEF Knows, Fetching
  <2>4. QED
    BY <2>2, <2>3
<1>8. CASE b # a
  <2>1. SamePage(b) /\ admin'[b].req = admin[b].req /\ b \notin seen.crossed
    BY <1>3, <1>4, <1>6, <1>8 DEF SamePage
  <2>2. OneFetch(b)'
    BY <2>1 DEF ListInv, OneFetch, Fetching, SamePage
  <2>3. ASSUME NEW p \in People, seen'.by[p] = b, admin'[b].req.at # "done" PROVE Knows(b, p)'
    <3>1. Knows(b, p)
      BY <1>3, <2>1, <2>3 DEF ListInv
    <3>2. QED
      BY <1>2, <2>1, <3>1 DEF Knows, Fetching, SamePage
  <2>4. QED
    BY <2>2, <2>3
<1>9. QED
  BY <1>7, <1>8

\* A step of one fetch of one page.
LEMMA FetchList ==
  ASSUME AdminInv, ListInv, NEW a \in Admins, NEW s \in Slots, Fetching(a, s),
         role' = role, UNCHANGED seen,
         \A b \in Admins : admin'[b].req = admin[b].req,
         \A b \in Admins : b # a => SamePage(b),
         \A t \in Slots : t # s => admin'[a].fetch[t] = admin[a].fetch[t],
         \A p \in People : Knows(a, p) /\ (\A t \in Slots : t # s => ~Fetching(a, t)) => Knows(a, p)'
  PROVE  ListInv'
<1>1. SUFFICES ASSUME NEW b \in Admins, b \notin seen.crossed
               PROVE  /\ OneFetch(b)'
                      /\ \A p \in People : seen.by[p] = b /\ admin[b].req.at # "done" => Knows(b, p)'
  BY DEF ListInv
<1>2. /\ OneFetch(b)
      /\ \A p \in People : seen.by[p] = b /\ admin[b].req.at # "done" => Knows(b, p)
  BY <1>1 DEF ListInv
<1>3. CASE b = a
  <2>1. \A t \in Slots : t # s => ~Fetching(a, t)
    BY <1>2, <1>3 DEF OneFetch
  <2>2. OneFetch(b)'
    BY <1>3, <2>1 DEF OneFetch, Fetching
  <2>3. QED
    BY <1>2, <1>3, <2>1, <2>2
<1>4. CASE b # a
  <2>1. SamePage(b)
    BY <1>4
  <2>2. OneFetch(b)'
    BY <1>2, <2>1 DEF OneFetch, Fetching, SamePage
  <2>3. \A p \in People : Knows(b, p) => Knows(b, p)'
    BY <2>1 DEF Knows, Fetching, SamePage
  <2>4. QED
    BY <1>2, <2>2, <2>3
<1>5. QED
  BY <1>3, <1>4

LEMMA ListReadsList ==
  ASSUME AdminInv, ListInv, NEW a \in Admins, ListReads(a) PROVE ListInv'
<1> DEFINE at == IF role[a] = "admin" THEN "read" ELSE "refused"
<1>1. PICK s \in Slots : /\ admin[a].fetch[s].at = "sent"
                         /\ admin' = [admin EXCEPT ![a].fetch[s] = [at |-> at, list |-> role]]
  BY DEF ListReads
<1>2. admin \in [Admins -> AdminPages] /\ role' = role /\ UNCHANGED seen
  BY DEF AdminInv, AdminTypes, ListReads
<1>3. /\ \A b \in Admins : b # a => admin'[b] = admin[b]
      /\ admin'[a].req = admin[a].req
      /\ \A t \in Slots : admin'[a].fetch[t] = IF t = s THEN [at |-> at, list |-> role] ELSE admin[a].fetch[t]
  BY <1>1, <1>2 DEF AdminPages
<1>4. admin'[a].fetch[s].at # "idle" /\ admin'[a].fetch[s].list = role
  BY <1>3
<1> HIDE DEF at
<1>5. ASSUME NEW p \in People, \A t \in Slots : t # s => ~Fetching(a, t) PROVE Knows(a, p)'
  <2>1. \A t \in Slots : t # s => admin'[a].fetch[t].at = "idle"
    BY <1>3, <1>5 DEF Fetching
  <2>2. QED
    BY <1>2, <1>4, <2>1 DEF Knows, Fetching
<1>6. Fetching(a, s) /\ \A b \in Admins : b # a => SamePage(b)
  BY <1>1, <1>3 DEF Fetching, SamePage
<1>7. \A b \in Admins : admin'[b].req = admin[b].req
  BY <1>3
<1>8. QED
  BY <1>2, <1>3, <1>5, <1>6, <1>7, FetchList

LEMMA ListAnsweredList ==
  ASSUME AdminInv, ListInv, NEW a \in Admins, ListAnswered(a) PROVE ListInv'
<1>1. PICK s \in Slots :
        /\ admin[a].fetch[s].at \in {"read", "refused"}
        /\ admin' = [admin EXCEPT ![a].list = ShownList(a, s), ![a].fetch[s].at = "idle",
                                  ![a].error = admin[a].fetch[s].at = "refused"]
  BY DEF ListAnswered
<1>2. admin \in [Admins -> AdminPages] /\ role' = role /\ UNCHANGED seen
  BY DEF AdminInv, AdminTypes, ListAnswered
<1>3. /\ \A b \in Admins : b # a => admin'[b] = admin[b]
      /\ admin'[a].req = admin[a].req
      /\ \A t \in Slots : t # s => admin'[a].fetch[t] = admin[a].fetch[t]
      /\ admin'[a].list = ShownList(a, s)
      /\ admin'[a].error = (admin[a].fetch[s].at = "refused")
  BY <1>1, <1>2 DEF AdminPages
<1>4. admin'[a].fetch[s].at = "idle"
  BY <1>1, <1>2 DEF AdminPages, Fetches
<1>5. ASSUME NEW p \in People, Knows(a, p), \A t \in Slots : t # s => ~Fetching(a, t) PROVE Knows(a, p)'
  <2>1. \A t \in Slots : admin'[a].fetch[t].at = "idle"
    BY <1>3, <1>4, <1>5 DEF Fetching
  <2>2. admin[a].fetch[s].at = "read" => admin'[a].list[p] = role[p]
    BY <1>3, <1>5 DEF Knows, ShownList
  <2>3. QED
    BY <1>1, <1>2, <1>3, <2>1, <2>2 DEF Knows
<1>6. Fetching(a, s) /\ \A b \in Admins : b # a => SamePage(b)
  BY <1>1, <1>3 DEF Fetching, SamePage
<1>7. \A b \in Admins : admin'[b].req = admin[b].req
  BY <1>3
<1>8. QED
  BY <1>2, <1>3, <1>5, <1>6, <1>7, FetchList

\* The session and the search leave the pages of administrators, and who changed whom.
LEMMA OthersList ==
  ASSUME AdminInv, ListInv,
         \/ SessionActions
         \/ HandleSearchChange \/ Navigates \/ HandleResultClick \/ HandleClickOutside \/ Focuses
         \/ TimerFires \/ SearchAnswered \/ UNCHANGED vars
  PROVE  ListInv'
<1>1. seen \in Histories
  BY DEF AdminInv, AdminTypes
<1>2. KeepAdmin /\ seen'.by = seen.by /\ seen'.crossed = seen.crossed
  <2>1. CASE SessionActions
    BY <1>1, <2>1, SessionKeepsAdmin, SessionsHistory, SeenOthers
  <2>2. CASE ~SessionActions
    BY <2>2 DEF HandleSearchChange, Navigates, HandleResultClick, HandleClickOutside, Focuses,
       TimerFires, SearchAnswered, Box, vars, KeepAdmin
  <2>3. QED
    BY <2>1, <2>2
<1>3. QED
  BY <1>2, PagesKept DEF KeepAdmin, SamePage

LEMMA ListInit == Init => ListInv
<1>1. ASSUME Init PROVE \A a \in Admins : \A s \in Slots : ~Fetching(a, s)
  BY <1>1 DEF Init, Fetching
<1>2. ASSUME Init PROVE \A p \in People : seen.by[p] \notin Admins
  BY <1>2, PeopleAssumption DEF Init
<1>3. QED
  BY <1>1, <1>2 DEF ListInv, OneFetch

LEMMA ListStep == AdminInv /\ ListInv /\ [Next]_vars => ListInv'
<1> SUFFICES ASSUME AdminInv, ListInv, [Next]_vars PROVE ListInv'
  OBVIOUS
<1>1. CASE User \/ UNCHANGED vars
  BY <1>1, OthersList, ActsList DEF User, SessionActions
<1>2. CASE System
  BY <1>2, OthersList, AdminChecksList, AdminWritesList, AdminAnsweredList, AdminRefusedList,
     ListReadsList, ListAnsweredList DEF System, SessionActions
<1>3. QED
  BY <1>1, <1>2 DEF Next

\* The list of accounts ends up with what its administrator did, for any number of
\* administrators who do more meanwhile (AdminPage.tsx:73).
THEOREM OwnChangesAreListed == Spec => []ListShowsOwn
<1>1. AdminInv /\ ListInv => ListShowsOwn
  BY DEF ListInv, Knows, Fetching, ListShowsOwn
<1>2. QED
  BY <1>1, InitAdmin, NextKeeps, ListInit, ListStep, PTL DEF Spec

-----------------------------------------------------------------------------
(* The session *)

Sessions == [who : People \cup {"nobody"}, role : Roles \cup {"none"}]
Checks == [at : {"idle", "sent", "read"}, by : {"none", "page", "login"},
           cookie : Sessions, answer : Roles \cup {"none"}]

LeavingStates == {"idle", "layout", "pending", "goes", "loads"}
SessionTypes ==
  /\ cookie \in Sessions
  /\ auth \in [in : BOOLEAN, loading : BOOLEAN, role : Roles \cup {"none"}]
  /\ checks \in [Slots -> Checks]
  /\ login \in {"idle", "sent", "handled", "refused", "checking"}
  /\ leaving \in LeavingStates
  /\ route \in {"login", "app"}

Checking(s) == checks[s].at # "idle"
Asking(s) == Checking(s) /\ checks[s].cookie # NoSession
LoggingIn(s) == Checking(s) /\ checks[s].by = "login"
NoneChecking == \A s \in Slots : ~Checking(s)

\* Where the browser is: it logs in on the login page, and on no other page does it
\* take the user for logged out.
PlaceInv ==
  /\ login # "idle" => route = "login" /\ leaving = "idle"
  /\ \A s \in Slots : LoggingIn(s) => login = "checking"
  /\ \A s, t \in Slots : LoggingIn(s) /\ LoggingIn(t) => s = t
  /\ login \in {"handled", "checking"} => cookie # NoSession \/ seen.ended
  /\ leaving # "idle" => ~auth.loading
  /\ auth.in => ~auth.loading
  /\ auth.loading => \E s \in Slots : Checking(s)
  /\ route = "app" => auth.in \/ auth.loading

\* A page without a session is being left, or is still asking, with no session either,
\* unless the session ended by itself.
CookieInv ==
  /\ \A s \in Slots : checks[s].at = "read" /\ ~Asking(s) => checks[s].answer = "none"
  /\ ~seen.ended /\ auth.loading /\ route = "app" =>
       \A s \in Slots : Checking(s) => checks[s].cookie = cookie
  /\ route = "app" /\ ~seen.back /\ ~seen.ended /\ cookie = NoSession =>
       leaving \in {"goes", "loads"} \/ auth.loading

\* Checks that do not cross are one.
AloneInv == ~seen.late => \A s, t \in Slots : Checking(s) /\ Checking(t) => s = t

\* Until the page knows of the session, a check with it is under way or is due, unless
\* that was lost.
HeardInv ==
  /\ \A s \in Slots : Asking(s) /\ checks[s].at = "read" /\ checks[s].answer = "none" => role[Guest] = "gone"
  /\ cookie # NoSession /\ ~seen.late /\ ~seen.unheard /\ role[Guest] # "gone" =>
       \/ login = "handled"
       \/ \E s \in Slots : Asking(s)
       \/ auth.in /\ NoneChecking

\* A session that is pending is one of a pending account until that is approved, and
\* the page will take it for that.
PendingInv ==
  cookie.role = "pending" /\ ~seen.approved =>
    /\ role[Guest] = "pending"
    /\ ~seen.late /\ ~seen.unheard =>
         \/ login = "handled"
         \/ \E s \in Slots : Asking(s) /\ (checks[s].at = "read" => checks[s].answer = "pending")
         \/ auth.role = "pending" /\ NoneChecking

\* Inductive with the types of the accounts and of what is asked about them.
SessionInv == SessionTypes /\ PlaceInv /\ CookieInv /\ AloneInv /\ HeardInv /\ PendingInv

\* An account that is gone is not written, for only the newcomer's is created.
RequestInv ==
  \A a \in Admins :
    /\ admin[a].req.op = "create" => admin[a].req.who = Newcomer
    /\ admin[a].req.op = "delete" => admin[a].req.role = "gone"
    /\ admin[a].req.at # "idle" => admin[a].req.op # "none"

\* What the administrators' steps do to the user of the browser.
SeenKept == /\ seen'.late = seen.late /\ seen'.unheard = seen.unheard
            /\ seen'.back = seen.back /\ seen'.ended = seen.ended
AccountStep ==
  /\ KeepSession
  /\ SeenKept
  /\ role[Guest] = "gone" => role'[Guest] = "gone"
  /\ ~seen'.approved => ~seen.approved /\ (role[Guest] = "pending" => role'[Guest] = "pending")

LEMMA AccountKeeps ==
  ASSUME SessionInv, AccountStep PROVE SessionInv'
<1>1. UNCHANGED <<cookie, auth, checks, login, leaving, route>> /\ SeenKept
  BY DEF AccountStep, KeepSession
<1>2. SessionTypes' /\ PlaceInv' /\ CookieInv' /\ AloneInv'
  BY <1>1 DEF SessionInv, AccountStep, SessionTypes, PlaceInv, CookieInv, AloneInv, Checking, Asking,
     LoggingIn, SeenKept
<1>3. HeardInv'
  BY <1>1 DEF SessionInv, AccountStep, HeardInv, Checking, Asking, NoneChecking, SeenKept
<1>4. PendingInv'
  BY <1>1 DEF SessionInv, AccountStep, PendingInv, Checking, Asking, NoneChecking, SeenKept
<1>5. QED
  BY <1>2, <1>3, <1>4 DEF SessionInv

\* What is asked is asked by an act, and stays as it was asked.
LEMMA RequestKept ==
  ASSUME RequestInv, \A a \in Admins : /\ admin'[a].req.op = admin[a].req.op
                                       /\ admin'[a].req.who = admin[a].req.who
                                       /\ admin'[a].req.role = admin[a].req.role
                                       /\ admin[a].req.at = "idle" => admin'[a].req.at = "idle"
  PROVE  RequestInv'
  BY DEF RequestInv

LEMMA RequestMade ==
  ASSUME AdminInv, RequestInv, NEW a \in Admins, NEW q \in Requests, admin' = [admin EXCEPT ![a].req = q],
         q.op = "create" => q.who = Newcomer, q.op = "delete" => q.role = "gone",
         q.at # "idle" => q.op # "none"
  PROVE  RequestInv'
<1>1. AdminTypes
  BY DEF AdminInv
<1>2. \A b \in Admins : admin'[b].req = IF b = a THEN q ELSE admin[b].req
  BY <1>1, RequestOnly
<1>3. QED
  BY <1>2 DEF RequestInv

LEMMA AsksSession ==
  ASSUME AdminInv, RequestInv, NEW a \in Admins, NEW op \in {"role", "delete", "create"},
         NEW p \in People, NEW r, r \in AnyRole, Asks(a, op, p, r),
         op = "create" => p = Newcomer, op = "delete" => r = "gone"
  PROVE  RequestInv' /\ AccountStep
<1> DEFINE q == [at |-> "sent", op |-> op, who |-> p, role |-> r]
<1>1. q \in Requests /\ q.op = op /\ q.who = p /\ q.role = r
  BY DEF Requests
<1>2. admin' = [admin EXCEPT ![a].req = q] /\ KeepSession /\ role' = role /\ seen' = seen
  BY DEF Asks
<1> HIDE DEF q
<1>3. RequestInv'
  BY <1>1, <1>2, RequestMade
<1>4. QED
  BY <1>2, <1>3 DEF AccountStep, SeenKept

LEMMA ActsSession ==
  ASSUME AdminInv, RequestInv, NEW a \in Admins,
         HandleToggleRole(a) \/ HandleDeleteUser(a) \/ HandleCreateUser(a)
  PROVE  RequestInv' /\ AccountStep
<1>1. CASE HandleToggleRole(a)
  <2>1. PICK p \in People : Listed(a, p) /\ Asks(a, "role", p, NextRole(admin[a].list[p]))
    BY <1>1 DEF HandleToggleRole
  <2>2. admin[a].list[p] \in Roles
    BY <2>1 DEF AdminInv, AdminTypes, AdminPages, AnyRole, Listed
  <2>3. NextRole(admin[a].list[p]) \in AnyRole
    BY <2>2 DEF NextRole, Roles, AnyRole
  <2>4. QED
    BY <2>1, <2>3, AsksSession
<1>2. CASE HandleDeleteUser(a)
  <2>1. PICK p \in People : Asks(a, "delete", p, "gone")
    BY <1>2 DEF HandleDeleteUser
  <2>2. "gone" \in AnyRole
    BY DEF AnyRole
  <2>3. QED
    BY <2>1, <2>2, AsksSession
<1>3. CASE HandleCreateUser(a)
  <2>1. Asks(a, "create", Newcomer, "user") /\ Newcomer \in People /\ "user" \in AnyRole
    BY <1>3 DEF HandleCreateUser, People, AnyRole, Roles
  <2>2. QED
    BY <2>1, AsksSession
<1>4. QED
  BY <1>1, <1>2, <1>3

LEMMA ChecksSession ==
  ASSUME AdminInv, RequestInv, NEW a \in Admins, AdminChecks(a) PROVE RequestInv' /\ AccountStep
<1> DEFINE q == [admin[a].req EXCEPT
                   !.at = IF Allowed(a, admin[a].req) THEN "checked" ELSE "refused"]
<1>1. admin \in [Admins -> AdminPages] /\ admin[a].req \in Requests /\ admin[a].req.at = "sent"
  BY DEF AdminInv, AdminTypes, AdminPages, AdminChecks
<1>2. /\ q \in Requests /\ q.op = admin[a].req.op /\ q.who = admin[a].req.who
      /\ q.role = admin[a].req.role
  BY <1>1 DEF Requests
<1>3. admin' = [admin EXCEPT ![a].req = q]
  BY <1>1 DEF AdminChecks, AdminPages
<1> HIDE DEF q
<1>4. RequestInv'
  BY <1>1, <1>2, <1>3, RequestMade DEF RequestInv
<1>5. KeepSession /\ role' = role /\ SeenKept /\ seen'.approved = seen.approved
  BY DEF AdminInv, AdminTypes, AdminChecks, Histories, SeenKept
<1>6. QED
  BY <1>4, <1>5 DEF AccountStep

\* The user's account changes by a write, which history takes for an approval when it
\* was pending.
LEMMA WritesSession ==
  ASSUME AdminInv, RequestInv, NEW a \in Admins, AdminWrites(a) PROVE RequestInv' /\ AccountStep
<1> DEFINE q == admin[a].req
<1>1. /\ admin \in [Admins -> AdminPages] /\ role \in [People -> AnyRole] /\ seen \in Histories
      /\ q \in Requests /\ q.at = "checked" /\ q.who \in People
  BY DEF AdminInv, AdminTypes, AdminPages, AdminWrites, Requests
<1>2. KeepSession /\ Guest \in People /\ Guest # Newcomer
  BY PeopleAssumption DEF AdminWrites, People
<1>3. PICK at \in {"refused", "done"} : admin' = [admin EXCEPT ![a].req.at = at]
  BY DEF AdminWrites
<1>4. admin' = [admin EXCEPT ![a].req = [q EXCEPT !.at = at]]
  BY <1>1, <1>3 DEF AdminPages
<1>5. /\ [q EXCEPT !.at = at] \in Requests /\ [q EXCEPT !.at = at].op = q.op
      /\ [q EXCEPT !.at = at].who = q.who /\ [q EXCEPT !.at = at].role = q.role
  BY <1>1 DEF Requests
<1>6. RequestInv'
  <2> HIDE DEF q
  <2>1. /\ q.op = "create" => q.who = Newcomer
        /\ q.op = "delete" => q.role = "gone"
        /\ q.op # "none"
    BY <1>1 DEF RequestInv, q
  <2>2. QED
    BY <1>4, <1>5, <2>1, RequestMade
<1>7. CASE q.op = "create" /\ role[q.who] # "gone"
  <2>1. role' = role /\ UNCHANGED seen
    BY <1>7 DEF AdminWrites
  <2>2. QED
    BY <1>2, <1>6, <2>1 DEF AccountStep, SeenKept
<1>8. CASE ~ (q.op = "create" /\ role[q.who] # "gone")
  <2>1. /\ role' = [role EXCEPT ![q.who] = Written(q, role[q.who])]
        /\ seen' = [seen EXCEPT !.by[q.who] = a,
                     !.approved = @ \/ (q.who = Guest /\ role[Guest] = "pending")]
    BY <1>1, <1>8 DEF AdminWrites
  <2>2. /\ SeenKept
        /\ seen'.approved = (seen.approved \/ (q.who = Guest /\ role[Guest] = "pending"))
    BY <1>1, <2>1 DEF Histories, SeenKept
  <2>3. q.who # Guest => role'[Guest] = role[Guest]
    BY <1>1, <1>2, <2>1
  <2>4. q.who = Guest /\ role[Guest] = "gone" => role'[Guest] = "gone"
    <3>1. SUFFICES ASSUME q.who = Guest, role[Guest] = "gone" PROVE Written(q, "gone") = "gone"
      BY <1>1, <1>2, <2>1
    <3>2. q.op \in {"role", "delete"} /\ (q.op = "delete" => q.role = "gone")
      BY <1>1, <1>2, <3>1 DEF RequestInv, Requests
    <3>3. QED
      BY <3>2 DEF Written
  <2>5. QED
    BY <1>2, <1>6, <2>2, <2>3, <2>4 DEF AccountStep
<1>9. QED
  BY <1>7, <1>8

LEMMA AnsweredSession ==
  ASSUME AdminInv, RequestInv, NEW a \in Admins, AdminAnswered(a) \/ AdminRefused(a)
  PROVE  RequestInv' /\ AccountStep
<1>1. admin \in [Admins -> AdminPages] /\ seen \in Histories
  BY DEF AdminInv, AdminTypes
<1>2. /\ admin'[a].req = NoRequest
      /\ \A b \in Admins : b # a => admin'[b].req = admin[b].req
  BY <1>1 DEF AdminAnswered, AdminRefused, AdminPages
<1>3. RequestInv'
  BY <1>2 DEF RequestInv, NoRequest
<1>4. KeepSession /\ role' = role /\ SeenKept /\ seen'.approved = seen.approved
  BY <1>1 DEF AdminAnswered, AdminRefused, Histories, SeenKept
<1>5. QED
  BY <1>3, <1>4 DEF AccountStep

LEMMA ListsSession ==
  ASSUME AdminInv, RequestInv, NEW a \in Admins, ListReads(a) \/ ListAnswered(a)
  PROVE  RequestInv' /\ AccountStep
<1>1. admin \in [Admins -> AdminPages]
  BY DEF AdminInv, AdminTypes
<1>2. \A b \in Admins : admin'[b].req = admin[b].req
  <2>1. CASE ListReads(a)
    BY <1>1, <2>1 DEF ListReads, AdminPages
  <2>2. CASE ListAnswered(a)
    <3>1. PICK s \in Slots :
            admin' = [admin EXCEPT ![a].list = ShownList(a, s), ![a].fetch[s].at = "idle",
                                   ![a].error = admin[a].fetch[s].at = "refused"]
      BY <2>2 DEF ListAnswered
    <3>2. QED
      BY <1>1, <3>1 DEF AdminPages
  <2>3. QED
    BY <2>1, <2>2
<1>3. KeepSession /\ role' = role /\ seen' = seen
  BY DEF ListReads, ListAnswered
<1>4. QED
  BY <1>2, <1>3, RequestKept DEF AccountStep, SeenKept

LEMMA CheckChanged ==
  ASSUME checks \in [Slots -> Checks], NEW s \in Slots, NEW k \in Checks,
         checks' = [checks EXCEPT ![s] = k]
  PROVE  /\ checks' \in [Slots -> Checks]
         /\ \A t \in Slots : checks'[t] = IF t = s THEN k ELSE checks[t]
  OBVIOUS

LEMMA SessionFacts ==
  ASSUME AdminInv
  PROVE  /\ seen \in Histories /\ Guest \in People /\ role[Guest] \in AnyRole
         /\ "none" \notin AnyRole /\ NoSession \in Sessions /\ NoCheck \in Checks
  BY DEF AdminInv, AdminTypes, People, AnyRole, Roles, Sessions, Checks, NoSession, NoCheck

\* A check that is sent with the session, beside what the page does then.
LEMMA CheckSent ==
  ASSUME AdminInv, SessionInv, NEW by \in {"page", "login"}, CheckAuth(by, cookie), KeepAdmin,
         UNCHANGED <<cookie, auth, leaving, route>>,
         \/ login' = login /\ by = "page"
         \/ login = "handled" /\ login' = "checking",
         ~auth.loading \/ route = "login"
  PROVE  SessionInv'
<1>1. /\ SessionTypes /\ PlaceInv /\ CookieInv /\ AloneInv /\ HeardInv /\ PendingInv
      /\ role' = role
  BY DEF SessionInv, KeepAdmin
<1>2. PICK s \in Slots :
        /\ checks[s].at = "idle"
        /\ checks' = [checks EXCEPT ![s] = [at |-> "sent", by |-> by, cookie |-> cookie, answer |-> "none"]]
        /\ seen' = [seen EXCEPT !.late = \E o \in Slots : checks[o].at # "idle", !.unheard = FALSE]
  BY DEF CheckAuth
<1> DEFINE k == [at |-> "sent", by |-> by, cookie |-> cookie, answer |-> "none"]
<1>3. k \in Checks /\ k.at = "sent" /\ k.by = by /\ k.cookie = cookie /\ k.answer = "none"
  BY <1>1 DEF Checks, SessionTypes
<1>4. checks' = [checks EXCEPT ![s] = k] /\ checks \in [Slots -> Checks]
  BY <1>1, <1>2 DEF SessionTypes
<1> HIDE DEF k
<1>5. /\ checks' \in [Slots -> Checks]
      /\ \A t \in Slots : checks'[t] = IF t = s THEN k ELSE checks[t]
  BY <1>3, <1>4, CheckChanged
<1>6. /\ seen'.late = (\E o \in Slots : Checking(o)) /\ seen'.back = seen.back
      /\ seen'.approved = seen.approved /\ seen'.ended = seen.ended
  BY <1>2, SessionFacts DEF Histories, Checking
<1>7. Checking(s)' /\ ~Checking(s) /\ \A t \in Slots : t # s => (Checking(t)' <=> Checking(t))
  BY <1>2, <1>3, <1>5 DEF Checking
<1>8. (cookie # NoSession => Asking(s)') /\ \A t \in Slots : Asking(t) => Asking(t)'
  BY <1>3, <1>5, <1>7 DEF Asking
<1>9. SessionTypes'
  BY <1>1, <1>5 DEF SessionTypes
<1>10. PlaceInv'
  <2>1. \A t \in Slots : LoggingIn(t)' => (t = s /\ by = "login") \/ LoggingIn(t)
    BY <1>3, <1>5, <1>7 DEF LoggingIn
  <2>2. by = "login" => login' = "checking" /\ \A t \in Slots : ~LoggingIn(t)
    BY <1>1 DEF PlaceInv
  <2>3. ~LoggingIn(s) /\ (login = "checking" => login' = "checking")
    BY <1>7 DEF LoggingIn
  <2>4. \A t \in Slots : LoggingIn(t)' => login' = "checking"
    BY <1>1, <2>1, <2>2, <2>3 DEF PlaceInv
  <2>5. \A t, u \in Slots : LoggingIn(t)' /\ LoggingIn(u)' => t = u
    BY <1>1, <2>1, <2>2 DEF PlaceInv
  <2>6. QED
    BY <1>1, <1>6, <1>7, <2>4, <2>5 DEF PlaceInv
<1>11. CookieInv'
  <2>1. \A t \in Slots : (checks[t].at = "read" /\ ~Asking(t))' => checks'[t].answer = "none"
    BY <1>1, <1>3, <1>5, <1>7 DEF CookieInv, Asking
  <2>2. QED
    BY <1>1, <1>6, <2>1 DEF CookieInv
<1>12. AloneInv'
  BY <1>6, <1>7 DEF AloneInv
<1>13. HeardInv'
  <2>1. \A t \in Slots : (Asking(t) /\ checks[t].at = "read" /\ checks[t].answer = "none")' => role[Guest] = "gone"
    BY <1>1, <1>3, <1>5 DEF HeardInv, Asking, Checking
  <2>2. QED
    BY <1>1, <1>8, <2>1 DEF HeardInv
<1>14. PendingInv'
  <2>1. SUFFICES ASSUME cookie.role = "pending", ~seen'.approved PROVE PendingInv'
    BY DEF PendingInv
  <2>2. cookie # NoSession
    BY <2>1 DEF NoSession
  <2>3. Asking(s)' /\ checks'[s].at # "read"
    BY <1>3, <1>5, <1>8, <2>2
  <2>4. QED
    BY <1>1, <1>6, <2>1, <2>3 DEF PendingInv
<1>15. QED
  BY <1>9, <1>10, <1>11, <1>12, <1>13, <1>14 DEF SessionInv

\* A page loaded anew asks with the session that there is.
LEMMA LoadsKeeps ==
  ASSUME AdminInv, SessionInv, NEW to \in {"login", "app"}, Loads(to), KeepAdmin, cookie' = cookie
  PROVE  SessionInv'
<1> DEFINE k == [NoCheck EXCEPT !.at = "sent", !.by = "page", !.cookie = cookie]
<1>1. cookie \in Sessions /\ role' = role
  BY DEF SessionInv, SessionTypes, KeepAdmin
<1>2. k \in Checks /\ k.at = "sent" /\ k.by = "page" /\ k.cookie = cookie
  BY <1>1, SessionFacts DEF Checks, NoCheck
<1>3. /\ auth' = NewAuth /\ login' = "idle" /\ leaving' = "idle" /\ route' = to
      /\ checks' = [s \in Slots |-> IF s = 1 THEN k ELSE NoCheck]
      /\ seen' = [seen EXCEPT !.late = FALSE, !.unheard = FALSE, !.back = FALSE, !.ended = FALSE]
  BY DEF Loads
<1> HIDE DEF k
<1>4. checks' \in [Slots -> Checks] /\ 1 \in Slots /\ checks'[1] = k
      /\ \A s \in Slots : s # 1 => checks'[s].at = "idle"
  BY <1>2, <1>3, SessionFacts DEF Slots, NoCheck
<1>5. ~auth'.in /\ auth'.loading /\ auth' \in [in : BOOLEAN, loading : BOOLEAN, role : Roles \cup {"none"}]
  BY <1>3 DEF NewAuth
<1>6. seen'.approved = seen.approved
  BY <1>3, SessionFacts DEF Histories
<1>7. Checking(1)' /\ (\A s \in Slots : Checking(s)' => s = 1) /\ (cookie # NoSession => Asking(1)')
  BY <1>1, <1>2, <1>4 DEF Checking, Asking
<1>8. SessionTypes'
  BY <1>1, <1>3, <1>4, <1>5 DEF SessionTypes, LeavingStates
<1>9. PlaceInv'
  BY <1>2, <1>3, <1>4, <1>5, <1>7 DEF PlaceInv, LoggingIn
<1>10. CookieInv' /\ AloneInv'
  BY <1>2, <1>4, <1>5, <1>7 DEF CookieInv, AloneInv, Checking
<1>11. HeardInv'
  BY <1>2, <1>4, <1>7 DEF HeardInv, Asking
<1>12. PendingInv'
  <2>1. SUFFICES ASSUME cookie.role = "pending", ~seen'.approved PROVE PendingInv'
    BY <1>1 DEF PendingInv
  <2>2. cookie # NoSession
    BY <2>1 DEF NoSession
  <2>3. Asking(1)' /\ checks'[1].at # "read"
    BY <1>2, <1>4, <1>7, <2>2
  <2>4. role[Guest] = "pending"
    BY <1>6, <2>1 DEF SessionInv, PendingInv
  <2>5. QED
    BY <1>1, <1>4, <2>3, <2>4 DEF PendingInv
<1>13. QED
  BY <1>8, <1>9, <1>10, <1>11, <1>12 DEF SessionInv

\* The server answers for the account as it is.
LEMMA MeReadsKeeps ==
  ASSUME AdminInv, SessionInv, NEW s \in Slots, MeReads(s) PROVE SessionInv'
<1>1. /\ SessionTypes /\ PlaceInv /\ CookieInv /\ AloneInv /\ HeardInv /\ PendingInv
      /\ role' = role /\ UNCHANGED <<cookie, auth, login, leaving, route, seen>>
  BY DEF SessionInv, MeReads, KeepAdmin
<1> DEFINE k == [checks[s] EXCEPT !.at = "read", !.answer = Me(checks[s].cookie)]
<1>2. checks \in [Slots -> Checks] /\ checks[s] \in Checks /\ checks[s].at = "sent"
  BY <1>1 DEF SessionTypes, MeReads
<1>3. Me(checks[s].cookie) \in Roles \cup {"none"}
  BY SessionFacts DEF Me, AnyRole
<1>4. /\ k \in Checks /\ k.at = "read" /\ k.by = checks[s].by /\ k.cookie = checks[s].cookie
      /\ k.answer = Me(checks[s].cookie)
  BY <1>2, <1>3 DEF Checks
<1>5. checks' = [checks EXCEPT ![s] = k]
  BY <1>2 DEF MeReads, Checks
<1> HIDE DEF k
<1>6. /\ checks' \in [Slots -> Checks]
      /\ \A t \in Slots : checks'[t] = IF t = s THEN k ELSE checks[t]
  BY <1>2, <1>4, <1>5, CheckChanged
<1>7. \A t \in Slots : /\ Checking(t)' <=> Checking(t)
                       /\ Asking(t)' <=> Asking(t)
                       /\ checks'[t].by = checks[t].by /\ checks'[t].cookie = checks[t].cookie
  BY <1>2, <1>4, <1>6 DEF Checking, Asking
<1>8. NoneChecking' <=> NoneChecking
  BY <1>7 DEF NoneChecking
<1>9. SessionTypes'
  BY <1>1, <1>6 DEF SessionTypes
<1>10. PlaceInv'
  BY <1>1, <1>7 DEF PlaceInv, LoggingIn
<1>11. CookieInv'
  <2>1. ~Asking(s) => k.answer = "none"
    BY <1>2, <1>4 DEF Asking, Checking, Me
  <2>2. \A t \in Slots : (checks[t].at = "read" /\ ~Asking(t))' => checks'[t].answer = "none"
    BY <1>1, <1>6, <1>7, <2>1 DEF CookieInv
  <2>3. QED
    BY <1>1, <1>7, <2>2 DEF CookieInv
<1>12. AloneInv'
  BY <1>1, <1>7 DEF AloneInv
<1>13. HeardInv'
  <2>1. Asking(s) /\ k.answer = "none" => role[Guest] = "gone"
    BY <1>4, SessionFacts DEF Asking, Me
  <2>2. \A t \in Slots : (Asking(t) /\ checks[t].at = "read" /\ checks[t].answer = "none")' => role[Guest] = "gone"
    BY <1>1, <1>6, <1>7, <2>1 DEF HeardInv
  <2>3. QED
    BY <1>1, <1>7, <1>8, <2>2 DEF HeardInv
<1>14. PendingInv'
  <2>1. ASSUME role[Guest] = "pending", Asking(s) PROVE k.answer = "pending"
    BY <1>4, <2>1 DEF Asking, Me
  <2>2. ASSUME role[Guest] = "pending", NEW t \in Slots, Asking(t), checks[t].at = "read" => checks[t].answer = "pending"
        PROVE  (Asking(t) /\ (checks[t].at = "read" => checks[t].answer = "pending"))'
    BY <1>6, <1>7, <2>1, <2>2
  <2>3. QED
    BY <1>1, <1>8, <2>2 DEF PendingInv
<1>15. QED
  BY <1>9, <1>10, <1>11, <1>12, <1>13, <1>14 DEF SessionInv

\* An answer takes the user to the login page, or leaves him on a page with the
\* session that the check was sent with.
LEMMA HearsKeeps ==
  ASSUME AdminInv, SessionInv, NEW s \in Slots, checks[s].at # "idle",
         NEW answer \in Roles \cup {"none"}, Hears(s, answer),
         seen'.late = seen.late, seen'.back = seen.back, seen'.ended = seen.ended,
         seen'.approved = seen.approved,
         \/ seen'.unheard /\ answer = "none"
         \/ seen'.unheard = seen.unheard /\ checks[s].at = "read" /\ answer = checks[s].answer
  PROVE  SessionInv'
<1> DEFINE to == Routed(Heard(answer), IF checks[s].by = "login" THEN "app" ELSE route)
<1>1. /\ SessionTypes /\ PlaceInv /\ CookieInv /\ AloneInv /\ HeardInv /\ PendingInv
      /\ role' = role /\ UNCHANGED <<cookie, leaving>>
  BY DEF SessionInv, Hears, KeepAdmin
<1>2. /\ checks \in [Slots -> Checks] /\ checks[s] \in Checks /\ Checking(s)
      /\ ~seen'.unheard \/ answer # "none" =>
           /\ checks[s].at = "read" /\ answer = checks[s].answer
           /\ ~seen'.unheard => ~seen.unheard
  BY <1>1 DEF SessionTypes, Checking, Checks
<1>3. /\ auth'.in = (answer # "none") /\ ~auth'.loading /\ auth'.role = answer
      /\ auth' \in [in : BOOLEAN, loading : BOOLEAN, role : Roles \cup {"none"}]
  BY DEF Hears, Heard
<1>4. /\ route' = to
      /\ login' = IF checks[s].by = "login" THEN "idle" ELSE login
      /\ checks' = [checks EXCEPT ![s] = NoCheck]
  BY DEF Hears
<1>5. to = IF answer = "none" THEN "login" ELSE IF checks[s].by = "login" THEN "app" ELSE route
  BY DEF Routed, Heard
<1> HIDE DEF to
<1>6. /\ checks' \in [Slots -> Checks] /\ checks'[s].at = "idle"
      /\ \A t \in Slots : t # s => checks'[t] = checks[t]
  BY <1>2, <1>4, CheckChanged, SessionFacts DEF NoCheck
<1>7. ~Checking(s)' /\ \A t \in Slots : t # s => /\ Checking(t)' <=> Checking(t)
                                                 /\ Asking(t)' <=> Asking(t)
  BY <1>6 DEF Checking, Asking
<1>8. checks[s].by = "login" => login = "checking" /\ route = "login" /\ leaving = "idle"
                                   /\ (cookie # NoSession \/ seen.ended)
  BY <1>1, <1>2 DEF PlaceInv, LoggingIn
<1>9. SessionTypes'
  BY <1>1, <1>3, <1>4, <1>5, <1>6 DEF SessionTypes
<1>10. PlaceInv'
  <2>1. login' # "idle" => route' = "login" /\ leaving = "idle"
    BY <1>1, <1>4, <1>5 DEF PlaceInv
  <2>2. /\ \A t \in Slots : LoggingIn(t)' => t # s /\ LoggingIn(t)
        /\ checks[s].by = "login" => LoggingIn(s)
    BY <1>2, <1>6, <1>7 DEF LoggingIn
  <2>3. \A t \in Slots : LoggingIn(t)' => login' = "checking"
    BY <1>1, <1>4, <2>2 DEF PlaceInv
  <2>4. login' \in {"handled", "checking"} => cookie # NoSession \/ seen.ended
    BY <1>1, <1>4 DEF PlaceInv
  <2>5. route' = "app" => auth'.in
    BY <1>3, <1>4, <1>5
  <2>6. QED
    BY <1>1, <1>3, <2>1, <2>2, <2>3, <2>4, <2>5 DEF PlaceInv
<1>11. CookieInv'
  <2>1. \A t \in Slots : (checks[t].at = "read" /\ ~Asking(t))' => checks'[t].answer = "none"
    BY <1>1, <1>6, <1>7 DEF CookieInv
  <2>2. ASSUME route' = "app", ~seen.back, ~seen.ended, cookie = NoSession
        PROVE  leaving \in {"goes", "loads"}
    <3>1. route = "app" /\ answer # "none"
      BY <1>4, <1>5, <1>8, <2>2
    <3>2. checks[s].cookie # NoSession
      BY <1>1, <1>2, <3>1 DEF CookieInv, Asking
    <3>3. ~auth.loading
      BY <1>1, <1>2, <2>2, <3>1, <3>2 DEF CookieInv
    <3>4. QED
      BY <1>1, <2>2, <3>1, <3>3 DEF CookieInv
  <2>3. QED
    BY <1>1, <1>3, <2>1, <2>2 DEF CookieInv
<1>12. AloneInv'
  BY <1>1, <1>7 DEF AloneInv
<1>13. ~seen.late => NoneChecking'
  BY <1>1, <1>2, <1>7 DEF AloneInv, NoneChecking
<1>14. login = "handled" => login' = "handled"
  BY <1>4, <1>8
<1>15. ~seen.late => \A t \in Slots : Asking(t) => t = s
  BY <1>1, <1>2 DEF AloneInv, Asking
<1>16. HeardInv'
  <2>1. \A t \in Slots : (Asking(t) /\ checks[t].at = "read" /\ checks[t].answer = "none")' => role[Guest] = "gone"
    BY <1>1, <1>6, <1>7 DEF HeardInv, Asking, Checking
  <2>2. ASSUME cookie # NoSession, ~seen.late, ~seen'.unheard, role[Guest] # "gone", login # "handled"
        PROVE  auth'.in
    <3>1. Asking(s)
      BY <1>1, <1>2, <1>15, <2>2 DEF HeardInv, NoneChecking
    <3>2. QED
      BY <1>1, <1>2, <1>3, <2>2, <3>1 DEF HeardInv
  <2>3. QED
    BY <1>1, <1>13, <1>14, <2>1, <2>2 DEF HeardInv
<1>17. PendingInv'
  <2>1. ASSUME cookie.role = "pending", ~seen.approved, ~seen.late, ~seen'.unheard, login # "handled"
        PROVE  auth'.role = "pending"
    <3>1. PICK t \in Slots : Asking(t) /\ (checks[t].at = "read" => checks[t].answer = "pending")
      BY <1>1, <1>2, <2>1 DEF PendingInv, NoneChecking
    <3>2. t = s
      BY <1>15, <2>1, <3>1
    <3>3. QED
      BY <1>2, <1>3, <2>1, <3>1, <3>2
  <2>2. QED
    BY <1>1, <1>13, <1>14, <2>1 DEF PendingInv
<1>18. QED
  BY <1>9, <1>10, <1>11, <1>12, <1>16, <1>17 DEF SessionInv

\* A check that is answered, and one that fails.
LEMMA CheckEnds ==
  ASSUME AdminInv, SessionInv, NEW s \in Slots, CheckAnswered(s) \/ CheckFails(s) PROVE SessionInv'
<1>1. checks[s] \in Checks /\ checks[s].answer \in Roles \cup {"none"} /\ seen \in Histories
  BY SessionFacts DEF SessionInv, SessionTypes, Checks
<1>2. CASE CheckAnswered(s)
  <2>1. checks[s].at = "read" /\ Hears(s, checks[s].answer) /\ seen' = seen
    BY <1>2 DEF CheckAnswered
  <2>2. QED
    BY <1>1, <2>1, HearsKeeps
<1>3. CASE CheckFails(s)
  <2>1. checks[s].at # "idle" /\ Hears(s, "none") /\ seen' = [seen EXCEPT !.unheard = TRUE]
    BY <1>3 DEF CheckFails
  <2>2. /\ seen'.late = seen.late /\ seen'.back = seen.back /\ seen'.ended = seen.ended
        /\ seen'.approved = seen.approved /\ seen'.unheard
    BY <1>1, <2>1 DEF Histories
  <2>3. QED
    BY <2>1, <2>2, HearsKeeps
<1>4. QED
  BY <1>2, <1>3

\* Steps of the login and the logout that leave the session, and what asks for it, alone.
LEMMA PlaceOnly ==
  ASSUME SessionInv, KeepAdmin, UNCHANGED <<cookie, auth, checks>>,
         seen'.late = seen.late, seen'.approved = seen.approved,
         login' \in {"idle", "sent", "handled", "refused", "checking"},
         leaving' \in LeavingStates, route' \in {"login", "app"},
         seen.ended => seen'.ended, seen.unheard => seen'.unheard,
         login = "handled" => login' = "handled" \/ seen'.unheard, login = "checking" => login' = "checking",
         login' \in {"handled", "checking"} => login' = login,
         login' # "idle" => route' = "login" /\ leaving' = "idle",
         leaving' # "idle" => ~auth.loading,
         route' = "app" => auth.in \/ (route = "app" /\ auth.loading),
         route' = "app" /\ ~seen'.back /\ ~seen'.ended /\ cookie = NoSession =>
           route = "app" /\ ~seen.back /\ leaving \notin {"goes", "loads"}
  PROVE  SessionInv'
<1>1. /\ SessionTypes /\ PlaceInv /\ CookieInv /\ AloneInv /\ HeardInv /\ PendingInv
      /\ role' = role
  BY DEF SessionInv, KeepAdmin
<1>2. \A s \in Slots : (Checking(s)' <=> Checking(s)) /\ (Asking(s)' <=> Asking(s))
  BY DEF Checking, Asking
<1>3. NoneChecking' <=> NoneChecking
  BY <1>2 DEF NoneChecking
<1>4. SessionTypes'
  BY <1>1 DEF SessionTypes
<1>5. PlaceInv'
  BY <1>1, <1>2 DEF PlaceInv, LoggingIn
<1>6. CookieInv'
  <2>1. auth.loading /\ route' = "app" => route = "app"
    BY <1>1 DEF PlaceInv
  <2>2. QED
    BY <1>1, <1>2, <2>1 DEF CookieInv
<1>7. AloneInv'
  BY <1>1, <1>2 DEF AloneInv
<1>8. HeardInv' /\ PendingInv'
  BY <1>1, <1>2, <1>3 DEF HeardInv, PendingInv
<1>9. QED
  BY <1>4, <1>5, <1>6, <1>7, <1>8 DEF SessionInv

LEMMA PlaceSteps ==
  ASSUME AdminInv, SessionInv,
         HandleSubmit \/ HandleLogout \/ GoesBack \/ LoginFailed \/ LogoutFails
           \/ (LogoutAnswered /\ leaving # "loads")
  PROVE  SessionInv'
<1>1. SessionTypes /\ PlaceInv /\ CookieInv /\ seen \in Histories
  BY SessionFacts DEF SessionInv
<1>2. CASE HandleSubmit
  <2>1. route = "login"
    BY <1>1, <1>2 DEF HandleSubmit, View, SessionTypes
  <2>2. QED
    BY <1>1, <1>2, <2>1, PlaceOnly DEF HandleSubmit, SessionTypes
<1>3. CASE HandleLogout
  <2>1. route = "app" /\ ~auth.loading /\ View \in {"layout", "pending"}
    BY <1>1, <1>3 DEF HandleLogout, View, SessionTypes
  <2>2. login = "idle"
    BY <1>1, <2>1 DEF PlaceInv
  <2>3. /\ KeepAdmin /\ UNCHANGED <<cookie, auth, checks, login, route, seen>> /\ leaving' = View
    BY <1>3 DEF HandleLogout
  <2>4. (route = "app" => auth.in) /\ leaving = "idle"
    BY <1>1, <1>3, <2>1 DEF PlaceInv, HandleLogout
  <2> HIDE DEF View
  <2>5. QED
    BY <2>1, <2>2, <2>3, <2>4, PlaceOnly DEF LeavingStates
<1>4. CASE GoesBack
  <2>1. /\ KeepAdmin /\ UNCHANGED <<cookie, auth, checks, login, leaving>> /\ route' = "app"
        /\ auth.in /\ login = "idle" /\ seen' = [seen EXCEPT !.back = TRUE]
    BY <1>4 DEF GoesBack
  <2>2. /\ seen'.back /\ seen'.late = seen.late /\ seen'.approved = seen.approved
        /\ seen'.ended = seen.ended /\ seen'.unheard = seen.unheard
    BY <1>1, <2>1 DEF Histories
  <2>3. ~auth.loading /\ leaving \in LeavingStates
    BY <1>1, <2>1 DEF PlaceInv, SessionTypes
  <2>4. QED
    BY <2>1, <2>2, <2>3, PlaceOnly
<1>5. CASE LoginFailed
  <2>1. /\ KeepAdmin /\ UNCHANGED <<cookie, auth, checks, leaving, route>> /\ login' = "idle"
        /\ login \in {"sent", "handled", "refused"}
        /\ seen' = [seen EXCEPT !.unheard = seen.unheard \/ login = "handled"]
    BY <1>5 DEF LoginFailed
  <2>2. /\ seen'.back = seen.back /\ seen'.late = seen.late /\ seen'.approved = seen.approved
        /\ seen'.ended = seen.ended /\ seen'.unheard = (seen.unheard \/ login = "handled")
    BY <1>1, <2>1 DEF Histories
  <2>3. route = "login" /\ leaving = "idle"
    BY <1>1, <2>1 DEF PlaceInv
  <2>4. QED
    BY <2>1, <2>2, <2>3, PlaceOnly DEF LeavingStates
<1>6. CASE (LogoutAnswered \/ LogoutFails) /\ GoesToLogin
  <2>1. /\ KeepAdmin /\ UNCHANGED <<cookie, auth, checks, login, seen>>
        /\ leaving' = "idle" /\ route' = "login" /\ leaving # "idle"
    BY <1>6 DEF LogoutAnswered, LogoutFails, GoesToLogin
  <2>2. login = "idle"
    BY <1>1, <2>1 DEF PlaceInv
  <2>3. QED
    BY <2>1, <2>2, PlaceOnly DEF LeavingStates
<1>7. CASE LogoutFails /\ ~GoesToLogin
  <2>1. /\ KeepAdmin /\ UNCHANGED <<cookie, auth, checks, login, route>>
        /\ leaving \in {"pending", "loads"} /\ leaving' = "idle"
        /\ seen' = [seen EXCEPT !.ended = seen.ended \/ leaving = "loads"]
    BY <1>7 DEF LogoutFails
  <2>2. /\ seen'.back = seen.back /\ seen'.late = seen.late /\ seen'.approved = seen.approved
        /\ seen'.ended = (seen.ended \/ leaving = "loads") /\ seen'.unheard = seen.unheard
    BY <1>1, <2>1 DEF Histories
  <2>3. login = "idle" /\ ~auth.loading /\ (route = "app" => auth.in)
    BY <1>1, <2>1 DEF PlaceInv
  <2>4. route \in {"login", "app"}
    BY <1>1 DEF SessionTypes
  <2>5. QED
    BY <2>1, <2>2, <2>3, <2>4, PlaceOnly DEF LeavingStates
<1>8. LogoutAnswered /\ leaving # "loads" => GoesToLogin
  BY DEF LogoutAnswered
<1>9. QED
  BY <1>2, <1>3, <1>4, <1>5, <1>6, <1>7, <1>8

\* A login makes a session of the role of this moment.
LEMMA LoginHandlesKeeps ==
  ASSUME AdminInv, SessionInv, LoginHandles PROVE SessionInv'
<1>1. /\ SessionTypes /\ PlaceInv /\ CookieInv /\ AloneInv /\ HeardInv /\ PendingInv
      /\ KeepAdmin /\ UNCHANGED <<auth, checks, leaving, route>> /\ login = "sent"
  BY DEF SessionInv, LoginHandles
<1>2. role' = role /\ route = "login" /\ leaving = "idle"
  BY <1>1 DEF KeepAdmin, PlaceInv
<1>3. CASE role[Guest] = "gone"
  <2>1. login' = "refused" /\ UNCHANGED <<cookie, seen>>
    BY <1>3 DEF LoginHandles
  <2>2. QED
    BY <1>1, <1>2, <2>1, PlaceOnly DEF SessionTypes
<1>4. CASE role[Guest] # "gone"
  <2>1. /\ login' = "handled" /\ cookie' = [who |-> Guest, role |-> role[Guest]]
        /\ seen' = [seen EXCEPT !.approved = FALSE, !.back = FALSE, !.ended = FALSE]
    BY <1>4 DEF LoginHandles, SessionOf
  <2>2. cookie' \in Sessions /\ cookie'.role = role[Guest] /\ cookie' # NoSession
    BY <1>4, <2>1, SessionFacts DEF Sessions, AnyRole, NoSession
  <2>3. seen'.late = seen.late
    BY <2>1, SessionFacts DEF Histories
  <2>4. \A s \in Slots : (Checking(s)' <=> Checking(s)) /\ (Asking(s)' <=> Asking(s))
    BY <1>1 DEF Checking, Asking
  <2>5. SessionTypes'
    BY <1>1, <2>1, <2>2 DEF SessionTypes
  <2>6. PlaceInv'
    <3>1. \A s \in Slots : ~LoggingIn(s)
      BY <1>1 DEF PlaceInv
    <3>2. \A s \in Slots : ~LoggingIn(s)'
      BY <1>1, <2>4, <3>1 DEF LoggingIn
    <3>3. QED
      BY <1>1, <1>2, <2>1, <2>2, <2>4, <3>2 DEF PlaceInv
  <2>7. CookieInv'
    BY <1>1, <1>2, <2>4 DEF CookieInv
  <2>8. AloneInv'
    BY <1>1, <2>3, <2>4 DEF AloneInv
  <2>9. HeardInv' /\ PendingInv'
    BY <1>1, <1>2, <2>1, <2>2, <2>4 DEF HeardInv, PendingInv
  <2>10. QED
    BY <2>5, <2>6, <2>7, <2>8, <2>9 DEF SessionInv
<1>5. QED
  BY <1>3, <1>4

\* A session that has ended, by a logout or by itself, asks for nothing.
LEMMA SessionEnds ==
  ASSUME AdminInv, SessionInv, LogoutHandles \/ CookieExpires PROVE SessionInv'
<1>1. /\ SessionTypes /\ PlaceInv /\ CookieInv /\ AloneInv /\ HeardInv /\ PendingInv
      /\ KeepAdmin /\ UNCHANGED <<auth, checks, login, route>> /\ cookie' = NoSession
  BY DEF SessionInv, LogoutHandles, CookieExpires
<1>2. /\ role' = role
      /\ \/ /\ seen' = seen /\ login = "idle" /\ leaving # "idle" /\ leaving' \in {"goes", "loads"}
         \/ seen'.ended /\ leaving' = leaving
      /\ seen'.late = seen.late
  <2>1. CASE LogoutHandles
    BY <1>1, <2>1 DEF KeepAdmin, PlaceInv, LogoutHandles
  <2>2. CASE CookieExpires
    BY <1>1, <2>2, SessionFacts DEF KeepAdmin, CookieExpires, Histories
  <2>3. QED
    BY <2>1, <2>2
<1>3. \A s \in Slots : (Checking(s)' <=> Checking(s)) /\ (Asking(s)' <=> Asking(s))
  BY <1>1 DEF Checking, Asking
<1>4. cookie' \in Sessions /\ cookie'.role # "pending"
  BY <1>1, SessionFacts DEF NoSession
<1>5. leaving' # "idle" => leaving # "idle"
  BY <1>2
<1>6. SessionTypes' /\ PlaceInv'
  <2>1. SessionTypes'
    BY <1>1, <1>2, <1>4 DEF SessionTypes, LeavingStates
  <2>2. login' \in {"handled", "checking"} => seen'.ended
    BY <1>1, <1>2
  <2>3. login' # "idle" => route' = "login" /\ leaving' = "idle"
    BY <1>1, <1>2 DEF PlaceInv
  <2>4. QED
    BY <1>1, <1>3, <1>5, <2>1, <2>2, <2>3 DEF PlaceInv, LoggingIn
<1>7. CookieInv' /\ AloneInv'
  <2>1. ~seen'.ended => ~auth.loading /\ leaving' \in {"goes", "loads"}
    BY <1>1, <1>2 DEF PlaceInv
  <2>2. QED
    BY <1>1, <1>2, <1>3, <2>1 DEF CookieInv, AloneInv
<1>8. HeardInv' /\ PendingInv'
  BY <1>1, <1>2, <1>3, <1>4 DEF HeardInv, PendingInv
<1>9. QED
  BY <1>6, <1>7, <1>8 DEF SessionInv

LEMMA SessionInit == Init => SessionInv /\ RequestInv
<1> SUFFICES ASSUME Init PROVE SessionInv /\ RequestInv
  OBVIOUS
<1> DEFINE k == [NoCheck EXCEPT !.at = "sent", !.by = "page", !.cookie = cookie]
<1>1. role[Guest] \in {"pending", "user"} /\ Guest \in People
  BY PeopleAssumption DEF Init, People
<1>2. cookie \in Sessions /\ (cookie = NoSession \/ cookie.role = role[Guest])
  BY <1>1 DEF Init, Sessions, NoSession, Roles
<1>3. k \in Checks /\ k.at = "sent" /\ k.by = "page" /\ k.cookie = cookie /\ NoCheck \in Checks
  BY <1>2 DEF Checks, NoCheck, Sessions, NoSession
<1>4. /\ checks = [s \in Slots |-> IF s = 1 THEN k ELSE NoCheck]
      /\ auth = NewAuth /\ login = "idle" /\ leaving = "idle" /\ route \in {"login", "app"}
  BY DEF Init
<1> HIDE DEF k
<1>5. checks \in [Slots -> Checks] /\ 1 \in Slots /\ checks[1] = k
      /\ \A s \in Slots : s # 1 => checks[s].at = "idle"
  BY <1>3, <1>4 DEF Slots, NoCheck
<1>6. Checking(1) /\ (\A s \in Slots : Checking(s) => s = 1) /\ (cookie # NoSession => Asking(1))
  BY <1>3, <1>5 DEF Checking, Asking
<1>7. SessionTypes
  BY <1>2, <1>4, <1>5 DEF SessionTypes, NewAuth, LeavingStates
<1>8. PlaceInv
  BY <1>3, <1>4, <1>5, <1>6 DEF PlaceInv, NewAuth, LoggingIn
<1>9. CookieInv /\ AloneInv
  BY <1>3, <1>4, <1>5, <1>6 DEF CookieInv, AloneInv, NewAuth
<1>10. HeardInv
  BY <1>3, <1>5, <1>6 DEF HeardInv, Asking, Checking
<1>11. PendingInv
  <2>1. SUFFICES ASSUME cookie.role = "pending" PROVE PendingInv
    BY DEF PendingInv
  <2>2. cookie # NoSession
    BY <2>1 DEF NoSession
  <2>3. Asking(1) /\ checks[1].at # "read" /\ role[Guest] = "pending"
    BY <1>2, <1>3, <1>5, <1>6, <2>1, <2>2
  <2>4. QED
    BY <1>5, <2>3 DEF PendingInv
<1>12. RequestInv
  BY DEF Init, RequestInv, NoRequest
<1>13. QED
  BY <1>7, <1>8, <1>9, <1>10, <1>11, <1>12 DEF SessionInv

\* The browser's steps leave the requests of administrators alone.
LEMMA SessionActs ==
  ASSUME AdminInv, SessionInv, RequestInv, SessionActions
  PROVE  SessionInv' /\ RequestInv'
<1>1. SessionTypes /\ PlaceInv
  BY DEF SessionInv
<1>2. KeepAdmin
  BY SessionKeepsAdmin
<1>3. RequestInv'
  BY <1>2, RequestKept DEF KeepAdmin
<1>4. CASE Refresh
  <2>1. ~auth.loading
    BY <1>1, <1>4 DEF Refresh, View
  <2>2. /\ CheckAuth("page", cookie) /\ UNCHANGED <<cookie, auth, leaving, route>>
        /\ login' = login
    BY <1>4 DEF Refresh
  <2>3. SessionInv'
    BY <1>2, <2>1, <2>2, CheckSent
  <2>4. QED
    BY <1>3, <2>3
<1>5. CASE LoginAnswered
  <2>1. route = "login"
    BY <1>1, <1>5 DEF LoginAnswered, PlaceInv
  <2>2. /\ CheckAuth("login", cookie) /\ UNCHANGED <<cookie, auth, leaving, route>>
        /\ login = "handled" /\ login' = "checking"
    BY <1>5 DEF LoginAnswered
  <2>3. SessionInv'
    BY <1>2, <2>1, <2>2, CheckSent
  <2>4. QED
    BY <1>3, <2>3
<1>6. CASE Reloads
  <2>1. route \in {"login", "app"} /\ Loads(route) /\ cookie' = cookie
    BY <1>1, <1>6 DEF Reloads, SessionTypes
  <2>2. QED
    BY <1>2, <1>3, <2>1, LoadsKeeps
<1>7. CASE LogoutAnswered /\ leaving = "loads"
  <2>1. Loads("login") /\ cookie' = cookie
    BY <1>7 DEF LogoutAnswered
  <2>2. QED
    BY <1>2, <1>3, <2>1, LoadsKeeps
<1>8. CASE \/ HandleSubmit \/ HandleLogout \/ GoesBack \/ LoginFailed \/ LogoutFails
           \/ (LogoutAnswered /\ leaving # "loads")
  <2>1. SessionInv'
    BY <1>8, PlaceSteps
  <2>2. QED
    BY <1>3, <2>1
<1>9. CASE LoginHandles \/ LogoutHandles \/ CookieExpires
  BY <1>3, <1>9, LoginHandlesKeeps, SessionEnds
<1>10. CASE \E s \in Slots : MeReads(s) \/ CheckAnswered(s) \/ CheckFails(s)
  BY <1>3, <1>10, MeReadsKeeps, CheckEnds
<1>11. LogoutAnswered => leaving = "loads" \/ leaving # "loads"
  OBVIOUS
<1>12. QED
  BY <1>4, <1>5, <1>6, <1>7, <1>8, <1>9, <1>10, <1>11 DEF SessionActions

\* The search box is no part of it.
LEMMA SessionSame ==
  ASSUME SessionInv, RequestInv,
         \/ HandleSearchChange \/ Navigates \/ HandleResultClick \/ HandleClickOutside \/ Focuses
         \/ TimerFires \/ SearchAnswered \/ UNCHANGED vars
  PROVE  SessionInv' /\ RequestInv'
<1>1. KeepAdmin /\ UNCHANGED <<cookie, auth, checks, login, leaving, route, seen>>
  BY DEF HandleSearchChange, Navigates, HandleResultClick, HandleClickOutside, Focuses,
     TimerFires, SearchAnswered, Box, vars, KeepAdmin
<1>2. SessionInv'
  BY <1>1 DEF KeepAdmin, SessionInv, SessionTypes, PlaceInv, CookieInv, AloneInv, HeardInv, PendingInv,
     Checking, Asking, LoggingIn, NoneChecking
<1>3. RequestInv'
  BY <1>1, RequestKept DEF KeepAdmin
<1>4. QED
  BY <1>2, <1>3

LEMMA SessionNext == AdminInv /\ SessionInv /\ RequestInv /\ [Next]_vars => SessionInv' /\ RequestInv'
<1> SUFFICES ASSUME AdminInv, SessionInv, RequestInv, [Next]_vars PROVE SessionInv' /\ RequestInv'
  OBVIOUS
<1>1. CASE \E a \in Admins : HandleToggleRole(a) \/ HandleDeleteUser(a) \/ HandleCreateUser(a)
  BY <1>1, ActsSession, AccountKeeps
<1>2. CASE \E a \in Admins : \/ AdminChecks(a) \/ AdminWrites(a) \/ AdminAnswered(a) \/ AdminRefused(a)
                             \/ ListReads(a) \/ ListAnswered(a)
  BY <1>2, ChecksSession, WritesSession, AnsweredSession, ListsSession, AccountKeeps
<1>3. QED
  BY <1>1, <1>2, SessionActs, SessionSame DEF Next, User, System, SessionActions

LEMMA SessionHolds == Spec => [](AdminInv /\ SessionInv /\ RequestInv)
<1>1. Init => AdminInv /\ SessionInv /\ RequestInv
  BY InitAdmin, SessionInit
<1>2. AdminInv /\ SessionInv /\ RequestInv /\ [Next]_vars => (AdminInv /\ SessionInv /\ RequestInv)'
  BY NextKeeps, SessionNext
<1>3. QED
  BY <1>1, <1>2, PTL DEF Spec

\* When all is quiet the page and the cookie agree on whether someone is logged in,
\* whatever logins, logouts and reloads came before, but for a session that expired and
\* the failed or lost requests that the property names (App.tsx:58, 134).
THEOREM PageAndCookieAgree == Spec => []SessionAgrees
<1>1. AdminInv /\ SessionInv => SessionAgrees
  <2>1. SUFFICES ASSUME SessionTypes, PlaceInv, CookieInv, HeardInv, SessionQuiet
                 PROVE  PagesHaveSession /\ SessionIsKept
    BY DEF SessionInv, SessionAgrees
  <2>2. NoneChecking /\ login = "idle" /\ leaving = "idle" /\ \A s \in Slots : ~Asking(s) /\ ~Checking(s)
    BY <2>1 DEF SessionQuiet, NoneChecking, Checking, Asking
  <2>3. ~auth.loading
    BY <2>1, <2>2 DEF PlaceInv
  <2>4. PagesHaveSession
    BY <2>1, <2>2, <2>3 DEF PlaceInv, CookieInv, PagesHaveSession
  <2>5. SessionIsKept
    BY <2>1, <2>2 DEF HeardInv, SessionIsKept
  <2>6. QED
    BY <2>4, <2>5
<1>2. QED
  BY <1>1, SessionHolds, PTL

\* Who is shown the pages may use the API behind them, unless he was approved after the
\* login, checks crossed, or the answer to his login was lost (middleware.go:53).
THEOREM ShownPagesWork == Spec => []PagesCanWork
<1>1. SessionInv => PagesCanWork
  <2>1. SUFFICES ASSUME PendingInv, SessionQuiet, View = "layout", cookie.role = "pending", ~seen.late,
                        ~seen.unheard, ~seen.approved
                 PROVE  FALSE
    BY DEF SessionInv, PagesCanWork
  <2>2. login = "idle" /\ \A s \in Slots : ~Asking(s)
    BY <2>1 DEF SessionQuiet, Asking, Checking
  <2>3. auth.role = "pending"
    BY <2>1, <2>2 DEF PendingInv
  <2>4. QED
    BY <2>1, <2>3 DEF View
<1>2. QED
  BY <1>1, SessionHolds, PTL

=============================================================================
