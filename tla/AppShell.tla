------------------------------- MODULE AppShell -------------------------------
(***************************************************************************)
(* What surrounds the pages: who is logged in (web/src/App.tsx, LoginPage, *)
(* internal/auth), the accounts that administrators manage (AdminPage,     *)
(* internal/auth/handler.go) and the search box of Layout.tsx.             *)
(*                                                                         *)
(* One browser, that of Guest, and an admin page for each of Admins in a   *)
(* browser of its own.  The session is a cookie with the user and the role *)
(* he had at login; it expires, and the browser's requests and answers may *)
(* be lost.  A search answers its own text.  Passwords, OAuth, the counting *)
(* of logins and the role that Layout asks for are left out.               *)
(***************************************************************************)
EXTENDS Integers

CONSTANTS
  Guest, Admins, Newcomer,  \* the people; Newcomer has no account at the start
  Short, Long,              \* texts for the search: below two characters, and longer
  Budgets                   \* bound: acts on the session, faults of it, acts of the
                            \* administrators and on the search that a behaviour may take

People == Admins \cup {Guest, Newcomer}
ASSUME PeopleAssumption ==
  Guest \notin Admins /\ Newcomer \notin Admins \cup {Guest} /\ Admins # {}
ASSUME TextsAssumption == "" \notin Short \cup Long /\ Short \cap Long = {}
ASSUME BudgetsAssumption == Budgets \subseteq [session : 0..9, fault : 0..9, admin : 0..9, search : 0..9]

VARIABLES
  role,     \* users.role, "gone" without an account
  cookie,   \* the browser's session
  auth,     \* AuthProvider's state
  checks,   \* calls of checkAuth under way
  login,    \* LoginPage's submit
  leaving,  \* the logout under way: the page that asked, or what it does when answered
  route,    \* the path: "login", or "app" for all others
  admin,    \* each AdminPage: its list, the request and the fetches under way
  search,   \* Layout's search: text, results, dropdown, timer, requests
  left,     \* what is left of the behaviour's budget
  seen      \* history: answers that came late or never, who changed whom

vars == <<role, cookie, auth, checks, login, leaving, route, admin, search, left, seen>>

-----------------------------------------------------------------------------
(* Mut... is a faulty form of the definition after it.                     *)

Roles == {"pending", "user", "admin"}
NoSession == [who |-> "nobody", role |-> "none"]
Slots == {1, 2}

NoCheck == [at |-> "idle", by |-> "none", cookie |-> NoSession, answer |-> "none"]
NoSearch == [query |-> "", results |-> {}, open |-> FALSE, timer |-> "",
             asked |-> [s \in Slots |-> ""], late |-> FALSE]
NoRequest == [at |-> "idle", op |-> "none", who |-> Guest, role |-> "none"]
NewAuth == [in |-> FALSE, loading |-> TRUE, role |-> "none"]

Spends(what) == left[what] > 0 /\ left' = [left EXCEPT ![what] = @ - 1]

Init ==
  /\ role \in {[p \in People |-> IF p \in Admins THEN "admin"
                                 ELSE IF p = Newcomer THEN "gone" ELSE r] : r \in {"pending", "user"}}
  /\ cookie \in {NoSession, [who |-> Guest, role |-> role[Guest]]}
  /\ auth = NewAuth
  /\ checks = [s \in Slots |-> IF s = 1 THEN [NoCheck EXCEPT !.at = "sent", !.by = "page", !.cookie = cookie]
                               ELSE NoCheck]
  /\ login = "idle" /\ leaving = "idle"
  /\ route \in {"login", "app"}
  /\ admin = [a \in Admins |-> [list |-> role, error |-> FALSE, req |-> NoRequest,
                                fetch |-> [s \in Slots |-> [at |-> "idle", list |-> role]]]]
  /\ search = NoSearch
  /\ left \in Budgets
  /\ seen = [late |-> FALSE, back |-> FALSE, approved |-> FALSE,
             unheard |-> FALSE, ended |-> FALSE, crossed |-> {}, raced |-> FALSE, by |-> [p \in People |-> Guest]]

KeepSession == UNCHANGED <<cookie, auth, checks, login, leaving, route, search>>
KeepAdmin == UNCHANGED <<role, admin>>

-----------------------------------------------------------------------------
(* The browser: AuthProvider, PrivateRoute, the login page and logout *)

\* PrivateRoute
MutView == IF route = "login" THEN "login"
           ELSE IF auth.loading THEN "loading" ELSE "layout"
View == IF route = "login" THEN "login"
        ELSE IF auth.loading THEN "loading"
        ELSE IF auth.role = "pending" THEN "pending" ELSE "layout"

\* Who is not logged in is sent to the login page.
Routed(a, r) == IF ~a.loading /\ ~a.in THEN "login" ELSE r

\* Layout is gone with its search when another view takes its place.
KeepsSearch(r) == search' = IF r = "login" THEN NoSearch ELSE search

CheckAuth(by, k) ==
  \E s \in Slots :
    /\ checks[s].at = "idle" /\ \A o \in Slots : o < s => checks[o].at # "idle"
    /\ checks' = [checks EXCEPT ![s] = [at |-> "sent", by |-> by, cookie |-> k, answer |-> "none"]]
    /\ seen' = [seen EXCEPT !.late = \E o \in Slots : checks[o].at # "idle", !.unheard = FALSE]

\* Me, for the cookie that was sent: the role of the account is the one it has now.
MutMe(k) == IF role[Guest] \in {"gone", "pending"} THEN "none" ELSE k.role
Me(k) == IF k = NoSession \/ role[Guest] = "gone" THEN "none" ELSE role[Guest]
MeReads(s) ==
  /\ checks[s].at = "sent"
  /\ checks' = [checks EXCEPT ![s].at = "read", ![s].answer = Me(checks[s].cookie)]
  /\ KeepAdmin /\ UNCHANGED <<cookie, auth, login, leaving, route, search, left, seen>>

Heard(answer) == [in |-> answer # "none", loading |-> FALSE, role |-> answer]

\* The end of a check; a login goes on to the pages whatever it is.
Hears(s, answer) ==
  /\ checks' = [checks EXCEPT ![s] = NoCheck]
  /\ auth' = Heard(answer)
  /\ LET to == Routed(Heard(answer), IF checks[s].by = "login" THEN "app" ELSE route)
     IN route' = to /\ KeepsSearch(to)
  /\ login' = IF checks[s].by = "login" THEN "idle" ELSE login
  /\ KeepAdmin /\ UNCHANGED <<cookie, leaving>>

CheckAnswered(s) ==
  /\ checks[s].at = "read"
  /\ Hears(s, checks[s].answer)
  /\ UNCHANGED <<left, seen>>

\* A check that fails for whatever reason, before the server or after it, logs out.
CheckFails(s) ==
  /\ checks[s].at # "idle" /\ Spends("fault")
  /\ Hears(s, "none")
  /\ seen' = [seen EXCEPT !.unheard = TRUE]

HandleSubmit ==
  /\ View = "login" /\ login = "idle" /\ leaving = "idle" /\ Spends("session")
  /\ login' = "sent"
  /\ KeepAdmin /\ UNCHANGED <<cookie, auth, checks, leaving, route, search, seen>>

\* Login, with the right password: the session takes the role of this moment.
SessionOf(p) == [who |-> p, role |-> role[p]]
LoginHandles ==
  /\ login = "sent"
  /\ IF role[Guest] = "gone" THEN login' = "refused" /\ UNCHANGED <<cookie, seen>>
     ELSE /\ login' = "handled" /\ cookie' = SessionOf(Guest)
          /\ seen' = [seen EXCEPT !.approved = FALSE, !.back = FALSE, !.ended = FALSE]
  /\ KeepAdmin /\ UNCHANGED <<auth, checks, leaving, route, search, left>>

LoginAnswered ==
  /\ login = "handled"
  /\ login' = "checking"
  /\ CheckAuth("login", cookie)
  /\ KeepAdmin /\ UNCHANGED <<cookie, auth, leaving, route, search, left>>

\* The page shows an error and stays, if only the answer was lost, too.
LoginFailed ==
  /\ \/ login = "refused" /\ UNCHANGED left
     \/ login \in {"sent", "handled"} /\ Spends("fault")
  /\ login' = "idle"
  /\ seen' = [seen EXCEPT !.unheard = @ \/ login = "handled"]
  /\ KeepAdmin /\ UNCHANGED <<cookie, auth, checks, leaving, route, search>>

\* MaxAge of the session's cookie.
CookieExpires ==
  /\ cookie # NoSession /\ Spends("fault")
  /\ cookie' = NoSession
  /\ seen' = [seen EXCEPT !.ended = TRUE]
  /\ KeepAdmin /\ UNCHANGED <<auth, checks, login, leaving, route, search>>

\* The refresh button of PendingPage.
Refresh ==
  /\ View = "pending" /\ Spends("session")
  /\ CheckAuth("page", cookie)
  /\ KeepAdmin /\ UNCHANGED <<cookie, auth, login, leaving, route, search>>

HandleLogout ==
  /\ View \in {"layout", "pending"} /\ leaving = "idle" /\ Spends("session")
  /\ leaving' = View
  /\ KeepAdmin /\ UNCHANGED <<cookie, auth, checks, login, route, search, seen>>

\* Logout, behind RequireAuth.
LogoutHandles ==
  /\ leaving \in {"layout", "pending"} /\ cookie # NoSession
  /\ cookie' = NoSession
  /\ leaving' = IF leaving = "pending" THEN "loads" ELSE "goes"
  /\ KeepAdmin /\ UNCHANGED <<auth, checks, login, route, search, left, seen>>

\* A page that is loaded anew knows nothing, and asks.
Loads(to) ==
  /\ auth' = NewAuth /\ login' = "idle" /\ leaving' = "idle" /\ route' = to
  /\ search' = NoSearch
  /\ checks' = [s \in Slots |-> IF s = 1 THEN [NoCheck EXCEPT !.at = "sent", !.by = "page", !.cookie = cookie]
                                ELSE NoCheck]
  /\ seen' = [seen EXCEPT !.late = FALSE, !.unheard = FALSE, !.back = FALSE, !.ended = FALSE]

\* Layout goes to the login page and leaves AuthProvider as it is; PendingPage
\* has the login page loaded anew.
GoesToLogin ==
  /\ leaving' = "idle" /\ route' = "login" /\ KeepsSearch("login")
  /\ UNCHANGED <<auth, checks, login, seen>>
LogoutAnswered ==
  /\ \/ leaving = "loads" /\ Loads("login")
     \/ leaving = "goes" /\ GoesToLogin
  /\ KeepAdmin /\ UNCHANGED <<cookie, left>>

\* A logout without a session is refused, any other may fail, or its answer be lost.
\* Layout goes to the login page all the same, PendingPage stays.
LogoutFails ==
  /\ leaving # "idle"
  /\ IF leaving \in {"layout", "pending"} /\ cookie = NoSession THEN UNCHANGED left ELSE Spends("fault")
  /\ \/ leaving \in {"layout", "goes"} /\ GoesToLogin
     \/ /\ leaving \in {"pending", "loads"}
        /\ leaving' = "idle"
        /\ seen' = [seen EXCEPT !.ended = @ \/ leaving = "loads"]
        /\ UNCHANGED <<auth, checks, login, route, search>>
  /\ KeepAdmin /\ UNCHANGED cookie

\* The browser's own buttons.
Reloads == Spends("session") /\ login = "idle" /\ leaving = "idle" /\ Loads(route)
           /\ KeepAdmin /\ UNCHANGED cookie
GoesBack ==
  /\ route = "login" /\ auth.in /\ login = "idle" /\ Spends("session")
  /\ route' = "app"
  /\ seen' = [seen EXCEPT !.back = TRUE]
  /\ KeepAdmin /\ UNCHANGED <<cookie, auth, checks, login, leaving, search>>

-----------------------------------------------------------------------------
(* The administrators *)

\* A click on the role of the list shows the next one.
NextRole(r) == CASE r = "pending" -> "user" [] r = "user" -> "admin" [] r = "admin" -> "pending"

Asks(a, op, p, r) ==
  /\ admin[a].req.at = "idle" /\ Spends("admin")
  /\ admin' = [admin EXCEPT ![a].req = [at |-> "sent", op |-> op, who |-> p, role |-> r]]
  /\ KeepSession /\ UNCHANGED <<role, seen>>

Listed(a, p) == ~admin[a].error /\ admin[a].list[p] # "gone"
HandleToggleRole(a) ==
  \E p \in People : Listed(a, p) /\ Asks(a, "role", p, NextRole(admin[a].list[p]))
HandleDeleteUser(a) == \E p \in People : Listed(a, p) /\ Asks(a, "delete", p, "gone")
HandleCreateUser(a) == Asks(a, "create", Newcomer, "user")

\* requireAdmin, the refusal of the administrator's own account, and its presence.
MutAllowed(a, q) == role[a] = "admin" /\ (q.op # "create" => role[q.who] # "gone")
Allowed(a, q) == role[a] = "admin" /\ (q.op # "create" => q.who # a /\ role[q.who] # "gone")
AdminChecks(a) ==
  /\ admin[a].req.at = "sent"
  /\ admin' = [admin EXCEPT ![a].req.at = IF Allowed(a, admin[a].req) THEN "checked" ELSE "refused"]
  /\ seen' = [seen EXCEPT !.raced = @ \/ \E o \in Admins : admin[o].req.at = "checked"]
  /\ KeepSession /\ UNCHANGED <<role, left>>

\* A name is created once; an account that is gone by now is not updated.
Written(q, now) == IF q.op = "role" /\ now = "gone" THEN "gone" ELSE q.role
AdminWrites(a) ==
  /\ admin[a].req.at = "checked"
  /\ LET q == admin[a].req
     IN IF q.op = "create" /\ role[q.who] # "gone"
        THEN /\ admin' = [admin EXCEPT ![a].req.at = "refused"]
             /\ UNCHANGED <<role, seen>>
        ELSE /\ role' = [role EXCEPT ![q.who] = Written(q, @)]
             /\ seen' = [seen EXCEPT !.by[q.who] = a,
                          !.approved = @ \/ (q.who = Guest /\ role[Guest] = "pending")]
             /\ admin' = [admin EXCEPT ![a].req.at = "done"]
  /\ KeepSession /\ UNCHANGED left

\* fetchUsers after it, beside one that may still be under way.
AdminAnswered(a) ==
  /\ admin[a].req.at = "done"
  /\ \E s \in Slots :
       /\ admin[a].fetch[s].at = "idle"
       /\ admin' = [admin EXCEPT ![a].req = NoRequest, ![a].fetch[s].at = "sent"]
       /\ seen' = [seen EXCEPT !.crossed =
                     IF \E o \in Slots : admin[a].fetch[o].at # "idle" THEN @ \cup {a} ELSE @]
  /\ KeepSession /\ UNCHANGED <<role, left>>
AdminRefused(a) ==
  /\ admin[a].req.at = "refused"
  /\ admin' = [admin EXCEPT ![a].req = NoRequest]
  /\ KeepSession /\ UNCHANGED <<role, left, seen>>

\* ListUsers asks for an administrator, too; if refused the page shows the error in
\* place of its list.
ListReads(a) ==
  /\ \E s \in Slots :
       /\ admin[a].fetch[s].at = "sent"
       /\ admin' = [admin EXCEPT ![a].fetch[s] =
                      [at |-> IF role[a] = "admin" THEN "read" ELSE "refused", list |-> role]]
  /\ KeepSession /\ UNCHANGED <<role, left, seen>>
MutShownList(a, s) == admin[a].list
ShownList(a, s) == IF admin[a].fetch[s].at = "read" THEN admin[a].fetch[s].list ELSE admin[a].list
ListAnswered(a) ==
  /\ \E s \in Slots :
       /\ admin[a].fetch[s].at \in {"read", "refused"}
       /\ admin' = [admin EXCEPT ![a].list = ShownList(a, s), ![a].fetch[s].at = "idle",
                          ![a].error = admin[a].fetch[s].at = "refused"]
  /\ KeepSession /\ UNCHANGED <<role, left, seen>>

-----------------------------------------------------------------------------
(* The search box *)

Searching == \E s \in Slots : search.asked[s] # ""
Box(s) == search' = s /\ KeepAdmin /\ UNCHANGED <<cookie, auth, checks, login, leaving, route, seen>>
InBox == View = "layout" /\ Spends("search")

\* Typing clears the timer; a short text also the results, a long one sets it anew.
MutTyped(v) == [search EXCEPT !.query = v, !.late = Searching,
                  !.timer = IF v \in Long /\ @ = "" THEN v ELSE @]
Typed(v) == [search EXCEPT !.query = v, !.late = Searching,
               !.timer = IF v \in Long THEN v ELSE "",
               !.results = IF v \in Long THEN @ ELSE {},
               !.open = @ /\ v \in Long]
HandleSearchChange == InBox /\ \E v \in (Short \cup Long \cup {""}) \ {search.query} : Box(Typed(v))

\* Going to another path empties the box, but neither stops the timer nor
\* drops the results.
Navigates == InBox /\ Box([search EXCEPT !.open = FALSE, !.query = "",
                             !.late = Searching \/ search.timer # ""])
HandleResultClick ==
  /\ search.open /\ search.results # {} /\ InBox
  /\ Box([search EXCEPT !.open = FALSE, !.query = "", !.late = Searching \/ search.timer # ""])
HandleClickOutside == search.open /\ InBox /\ Box([search EXCEPT !.open = FALSE])
Focuses == search.results # {} /\ ~search.open /\ InBox /\ Box([search EXCEPT !.open = TRUE])

TimerFires ==
  /\ search.timer # ""
  /\ \E s \in Slots : /\ search.asked[s] = ""
                      /\ Box([search EXCEPT !.timer = "", !.asked[s] = search.timer])
  /\ UNCHANGED left
SearchAnswered ==
  /\ \E s \in Slots :
       /\ search.asked[s] # ""
       /\ \/ Box([search EXCEPT !.asked[s] = "", !.results = {search.asked[s]}, !.open = TRUE])
          \/ Box([search EXCEPT !.asked[s] = "", !.results = {}])
  /\ UNCHANGED left

-----------------------------------------------------------------------------

User == \/ HandleSubmit \/ Refresh \/ HandleLogout \/ Reloads \/ GoesBack
        \/ \E a \in Admins : HandleToggleRole(a) \/ HandleDeleteUser(a) \/ HandleCreateUser(a)
        \/ HandleSearchChange \/ Navigates \/ HandleResultClick \/ HandleClickOutside \/ Focuses

System ==
  \/ \E s \in Slots : MeReads(s) \/ CheckAnswered(s) \/ CheckFails(s)
  \/ LoginHandles \/ LoginAnswered \/ LoginFailed \/ CookieExpires
  \/ LogoutHandles \/ LogoutAnswered \/ LogoutFails
  \/ \E a \in Admins : \/ AdminChecks(a) \/ AdminWrites(a) \/ AdminAnswered(a) \/ AdminRefused(a)
                       \/ ListReads(a) \/ ListAnswered(a)
  \/ TimerFires \/ SearchAnswered

Next == User \/ System

Spec == Init /\ [][Next]_vars

-----------------------------------------------------------------------------
(* Properties *)

SessionQuiet == (\A s \in Slots : checks[s].at = "idle") /\ login = "idle" /\ leaving = "idle"

\* Who is on a page has a session, unless he came there by the browser's back
\* button, or the session ended without the page's knowledge: the cookie expired, or
\* the answer to PendingPage's logout was lost.  A logout that fails does not count:
\* PrivateRoute and the two logouts see to it (App.tsx:134).
PagesHaveSession ==
  route = "app" => auth.in /\ (cookie # NoSession \/ seen.back \/ seen.ended)

\* Who has a session is not taken for logged out, unless his account is gone, the
\* answers of two checks crossed, or since a check was last sent one failed, for
\* whatever reason, or the answer to a login was lost (App.tsx:58).
SessionIsKept ==
  cookie # NoSession /\ ~auth.in /\ ~seen.late /\ ~seen.unheard => role[Guest] = "gone"

\* When all is quiet the page and the cookie agree on whether someone is logged in,
\* but for the expired cookie and the failed or lost requests that the two parts name.
SessionAgrees == SessionQuiet => PagesHaveSession /\ SessionIsKept

\* Who is shown the pages is not refused by the API as pending (middleware.go:53),
\* unless he was approved after the login, two checks crossed, or he came back after
\* a login whose answer was lost.
PagesCanWork ==
  (SessionQuiet /\ View = "layout" /\ cookie.role = "pending" /\ ~seen.late /\ ~seen.unheard)
    => seen.approved

\* An administrator is left, unless two requests passed their check before either
\* was written (handler.go:305).
SomeAdminLeft == ~seen.raced => \E a \in People : role[a] = "admin"

\* The list shows what its administrator did last, unless it is not shown, two
\* fetches crossed, or another one changed the account since (AdminPage.tsx:73).
ListShowsOwn ==
  \A a \in Admins, p \in People :
    (/\ ~admin[a].error /\ admin[a].req.at = "idle" /\ \A s \in Slots : admin[a].fetch[s].at = "idle"
     /\ a \notin seen.crossed /\ seen.by[p] = a)
      => admin[a].list[p] = role[p]

\* The results on the screen are of the text in the box, unless it changed while
\* a search was under way, or the path did while one was due (Layout.tsx:61).
ResultsAreOfText ==
  (search.open /\ search.query # "" /\ search.timer = "" /\ ~Searching /\ ~search.late)
    => search.results \subseteq {search.query}
=============================================================================
