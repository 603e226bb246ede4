--------------------------- MODULE ClientSession ---------------------------
(***************************************************************************)
(* Who the console's shell says is logged in.  The session is a cookie;    *)
(* the shell asks for its user on every change of the path, when a page    *)
(* has changed roles, and forgets it at logout and on the login page.      *)
(*                                                                         *)
(* A request carries the cookie of the moment it is sent; the cookies of   *)
(* an answer count when it arrives.  What a user may see is left out: the  *)
(* menus are asked for, and their answer is not kept apart from the user.  *)
(* There is one tab.                                                       *)
(***************************************************************************)
EXTENDS Naturals

CONSTANTS
    Users,        \* accounts; "" is no user
    Dashboard, Page,   \* the dashboard and another page
    MaxDeeds      \* bound: what the user does, lost requests, disabled accounts

ASSUME AccountAssumption == "" \notin Users

VARIABLES
    cookie,       \* whose session the browser's cookie is, or ""
    accounts,     \* accounts that are active
    path,         \* the page that is shown
    goingTo,      \* where the router is going: no path, or one
    user,         \* user of the provider, or ""
    isLoading,    \* of the provider
    unsynced,     \* the effect on the path is due
    flights,      \* requests, with the function that waits for them
    deeds,        \* number of deeds so far
    late          \* history: an answer from before the login page, or a failure, had the last word

sessionVars == <<cookie, accounts, path, goingTo, user, isLoading, unsynced, flights, deeds, late>>

LoginPage == "/login"
Deed == deeds < MaxDeeds /\ deeds' = deeds + 1

Flight(kind, who) ==
    [n |-> deeds, kind |-> kind, at |-> "sent", first |-> kind \in {"sync", "refresh"},
     cookie |-> cookie, who |-> who, cancelled |-> FALSE, old |-> FALSE]

FlightBecomes(f, g) == flights' = (flights \ {f}) \cup {g}

(***************************************************************************)
(* The provider.                                                           *)
(***************************************************************************)
\* Fault: what an earlier path asked for is still waited for.
Uncancelled(fs) == fs

Cancelled(fs) == {IF f.kind = "sync" THEN [f EXCEPT !.cancelled = TRUE] ELSE f : f \in fs}

\* What was asked before another session began and nothing cancels: the check
\* of a path is cancelled by the login page, not by a login that comes later.
Aged(fs, kinds) == {IF f.kind \in kinds THEN [f EXCEPT !.old = TRUE] ELSE f : f \in fs}
Unowned == {"refresh", "login", "logout"}

\* The first render's spinner is shown, later ones check silently.
SyncAuth ==
    /\ unsynced /\ unsynced' = FALSE
    /\ IF path = LoginPage
       THEN /\ user' = "" /\ isLoading' = FALSE /\ late' = FALSE
            /\ flights' = Aged(Cancelled(flights), Unowned)
       ELSE /\ isLoading' = (isLoading \/ user = "")
            /\ flights' = Cancelled(flights) \cup {Flight("sync", "")}
            /\ UNCHANGED <<user, late>>
    /\ UNCHANGED <<cookie, accounts, path, goingTo, deeds>>

\* Called by a page that has changed roles.
Refresh ==
    /\ Deed
    /\ path # LoginPage
    /\ isLoading' = TRUE
    /\ flights' = flights \cup {Flight("refresh", "")}
    /\ UNCHANGED <<cookie, accounts, path, goingTo, user, unsynced, late>>

Logout ==
    /\ Deed
    /\ path # LoginPage
    /\ flights' = flights \cup {Flight("logout", "")}
    /\ UNCHANGED <<cookie, accounts, path, goingTo, user, isLoading, unsynced, late>>

\* The form is disabled while it is submitted.
HandleSubmit(u) ==
    /\ Deed
    /\ path = LoginPage
    /\ \A f \in flights : f.kind # "login"
    /\ flights' = flights \cup {Flight("login", u)}
    /\ UNCHANGED <<cookie, accounts, path, goingTo, user, isLoading, unsynced, late>>

(***************************************************************************)
(* The server.                                                             *)
(***************************************************************************)
RequireSession(c) == c \in accounts

ServerAnswers(f) ==
    /\ f.at = "sent"
    /\ CASE f.kind = "login" -> FlightBecomes(f, [f EXCEPT !.at = IF RequireSession(f.who) THEN "ok" ELSE "denied"])
         [] f.kind # "login" /\ RequireSession(f.cookie) ->
                FlightBecomes(f, [f EXCEPT !.at = "ok", !.who = IF f.first THEN f.cookie ELSE f.who])
         [] OTHER -> FlightBecomes(f, [f EXCEPT !.at = "denied"])
    /\ UNCHANGED <<cookie, accounts, path, goingTo, user, isLoading, unsynced, deeds, late>>

RequestIsLost(f) ==
    /\ Deed
    /\ f.at = "sent"
    /\ FlightBecomes(f, [f EXCEPT !.at = "lost"])
    /\ UNCHANGED <<cookie, accounts, path, goingTo, user, isLoading, unsynced, late>>

DisableUser(u) ==
    /\ Deed
    /\ u \in accounts /\ accounts' = accounts \ {u}
    /\ UNCHANGED <<cookie, path, goingTo, user, isLoading, unsynced, flights, late>>

(***************************************************************************)
(* Answers.                                                                *)
(***************************************************************************)
\* A refusal takes the cookie of the browser away, whichever that is by now.
BuildClearAuthCookie(f) == cookie' = IF f.at = "denied" /\ f.cookie # "" THEN "" ELSE cookie

\* The menus are asked for after the user.
AsksForMenus(f) ==
    /\ f.at = "ok" /\ f.first
    /\ FlightBecomes(f, [f EXCEPT !.at = "sent", !.first = FALSE, !.cookie = cookie])
    /\ UNCHANGED <<cookie, accounts, path, goingTo, user, isLoading, unsynced, deeds, late>>

SessionAnswers(f) ==
    /\ f.kind \in {"sync", "refresh"}
    /\ f.at \in {"denied", "lost"} \/ (f.at = "ok" /\ ~f.first)
    /\ flights' = flights \ {f}
    /\ BuildClearAuthCookie(f)
    /\ IF f.cancelled THEN UNCHANGED <<user, isLoading, goingTo, late>>
       ELSE /\ user' = IF f.at = "ok" THEN f.who ELSE ""
            /\ goingTo' = IF f.at = "ok" THEN goingTo ELSE {LoginPage}
            /\ isLoading' = FALSE
            /\ late' = (f.old \/ f.at # "ok")
    /\ UNCHANGED <<accounts, path, unsynced, deeds>>

LogoutAnswers(f) ==
    /\ f.kind = "logout" /\ f.at # "sent"
    /\ flights' = flights \ {f}
    /\ IF f.at = "ok" THEN cookie' = "" ELSE BuildClearAuthCookie(f)
    /\ user' = "" /\ goingTo' = {LoginPage}
    /\ late' = (f.at = "lost" \/ f.old)
    /\ UNCHANGED <<accounts, path, isLoading, unsynced, deeds>>

\* The form can be submitted again while the router leaves the page.
LoginAnswers(f) ==
    /\ f.kind = "login" /\ f.at # "sent"
    /\ IF f.at = "ok"
       THEN cookie' = f.who /\ \E p \in {Dashboard, Page} : goingTo' = {p}
       ELSE UNCHANGED <<cookie, goingTo>>
    /\ flights' = IF f.at = "ok" THEN Aged(flights \ {f}, IF path = LoginPage THEN Unowned ELSE Unowned \cup {"sync"})
                ELSE flights \ {f}
    /\ late' = (late \/ path # LoginPage)
    /\ UNCHANGED <<accounts, path, user, isLoading, unsynced, deeds>>

(***************************************************************************)
(* The router.                                                             *)
(***************************************************************************)
FollowsLink(p) ==
    /\ Deed
    /\ goingTo' = {p}
    /\ UNCHANGED <<cookie, accounts, path, user, isLoading, unsynced, flights, late>>

\* The proxy sends who has no session to the login page and who has one away
\* from it.
Proxy(p) ==
    IF RequireSession(cookie) THEN IF p = LoginPage THEN Dashboard ELSE p ELSE LoginPage

ArrivesAt(p) ==
    /\ p \in goingTo /\ goingTo' = {}
    /\ path' = Proxy(p)
    /\ cookie' = IF RequireSession(cookie) THEN cookie ELSE ""
    /\ unsynced' = (unsynced \/ path' # path)
    /\ UNCHANGED <<accounts, user, isLoading, flights, deeds, late>>

SessionInit ==
    /\ cookie \in Users \cup {""}
    /\ accounts = Users
    /\ path = IF cookie = "" THEN LoginPage ELSE Dashboard
    /\ goingTo = {} /\ user = "" /\ isLoading = TRUE
    /\ unsynced = TRUE
    /\ flights = {} /\ deeds = 0 /\ late = FALSE

SessionNext ==
    \/ SyncAuth \/ Refresh \/ Logout
    \/ \E u \in Users : HandleSubmit(u) \/ DisableUser(u)
    \/ \E f \in flights :
          \/ ServerAnswers(f) \/ RequestIsLost(f) \/ AsksForMenus(f)
          \/ SessionAnswers(f) \/ LogoutAnswers(f) \/ LoginAnswers(f)
    \/ \E p \in {LoginPage, Dashboard, Page} : FollowsLink(p) \/ ArrivesAt(p)

SessionSpec == SessionInit /\ [][SessionNext]_sessionVars

(***************************************************************************)
(* Properties.                                                             *)
(***************************************************************************)
SessionQuiet == flights = {} /\ goingTo = {} /\ ~unsynced

\* When nothing is under way the spinner is gone, the login page knows no
\* user, and a page shows the user whose session the cookie is, whatever was
\* answered late for an earlier path or session (auth-provider.tsx).  The
\* exceptions are answers that nothing cancels: of a refresh() that began in an
\* earlier session, of a second login when the page has been left, and of a
\* check, a refresh or a logout that failed.
SessionIsShown ==
    SessionQuiet =>
        /\ ~isLoading
        /\ ~late => /\ path = LoginPage => user = ""
                    /\ path # LoginPage /\ cookie \in accounts => user = cookie
=============================================================================
