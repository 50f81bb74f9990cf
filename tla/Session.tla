-------------------------------- MODULE Session --------------------------------
(***************************************************************************)
(* Who is signed in, as three parties see it: the middleware reads the     *)
(* cookie, the API client the localStorage, and AuthGuard, LoginForm and   *)
(* the sidebar the store, which each tab loads from the localStorage once. *)
(*                                                                         *)
(* Tokens are numbers, None for none; the server accepts the valid ones.   *)
(***************************************************************************)
EXTENDS Integers, FiniteSets

CONSTANTS Tabs,
          MaxLogins       \* bound: tokens issued

None == 0

VARIABLES
    cookie,     \* the cookie
    storage,    \* the token in localStorage
    valid,      \* tokens the server accepts
    issued,     \* tokens issued so far
    store,      \* per tab: the token of its store
    page,       \* per tab: "login", "checking" (AuthGuard) or "home"
    quiet,      \* tabs out of view, whose polls rest, or at /jobs/new, which has none
    \* history
    aged        \* "yes" once the browser has dropped a cookie for its age

vars == <<cookie, storage, valid, issued, store, page, quiet, aged>>

Init ==
    /\ cookie = None /\ storage = None /\ valid = {} /\ issued = 0 /\ aged = "no"
    /\ store = [t \in Tabs |-> None]
    /\ page = [t \in Tabs |-> "login"]
    /\ quiet = {}

\* The middleware: a request for one page or the other, and where it ends.
Reached(target, c) ==
    CASE target = "home" -> IF c = None THEN "login" ELSE "checking"
      [] target = "login" -> IF c = None THEN "login" ELSE "checking"

\* A navigation of the router keeps the tab's store, a load reads the storage.
Navigate(t, target, c) ==
    page' = [page EXCEPT ![t] = Reached(target, c)]
Load(t, target, c, stored) ==
    /\ Navigate(t, target, c)
    /\ store' = [store EXCEPT ![t] = stored]

-----------------------------------------------------------------------------
\* onSubmit with the right password: login of the store and router.push('/').
SignIn(t) ==
    /\ page[t] = "login" /\ store[t] = None /\ issued < MaxLogins
    /\ issued' = issued + 1 /\ valid' = valid \cup {issued'}
    /\ cookie' = issued' /\ storage' = issued'
    /\ store' = [store EXCEPT ![t] = issued']
    /\ Navigate(t, "home", cookie')
    /\ quiet' = quiet \ {t}
    /\ UNCHANGED aged

\* Mutant: the interceptor clears the storage only.
UnauthorizedCookie(t) ==
    /\ storage' = None /\ UNCHANGED cookie
    /\ Load(t, "login", cookie', storage')
    /\ UNCHANGED <<valid, issued, quiet, aged>>

\* The response interceptor, for any answer 401.
Unauthorized(t) ==
    /\ storage' = None /\ cookie' = None
    /\ Load(t, "login", cookie', storage')
    /\ UNCHANGED <<valid, issued, quiet, aged>>

WrongPassword(t) == page[t] = "login" /\ store[t] = None /\ Unauthorized(t)

\* Mutant: an answer 401 is left alone while the store has a token.
RefusedQuietly(t) ==
    page[t] = "home" /\ store[t] = None /\ storage \notin valid /\ Unauthorized(t)

\* A request of a page, with the token of the storage, whatever the store holds.
Refused(t) == page[t] = "home" /\ storage \notin valid /\ Unauthorized(t)

\* The button of the sidebar
Logout(t) ==
    /\ page[t] = "home" /\ store[t] # None
    /\ cookie' = None /\ storage' = None
    /\ store' = [store EXCEPT ![t] = None]
    /\ UNCHANGED <<valid, issued, page, quiet, aged>>

\* Mutant: the guard sends everyone to the form.
CheckAuthAlways(t) ==
    /\ page[t] = "checking" \/ (page[t] = "home" /\ store[t] = None)
    /\ Navigate(t, "login", cookie)
    /\ UNCHANGED <<cookie, storage, valid, issued, store, quiet, aged>>

\* checkAuth of AuthGuard, 50 ms after a mount or a change of the store.
CheckAuth(t) ==
    /\ page[t] = "checking" \/ (page[t] = "home" /\ store[t] = None)
    /\ IF store[t] = None THEN Navigate(t, "login", cookie)
       ELSE page' = [page EXCEPT ![t] = "home"]
    /\ UNCHANGED <<cookie, storage, valid, issued, store, quiet, aged>>

\* The effect of LoginForm; until it leads elsewhere the form is blank.
LeaveLogin(t) ==
    /\ page[t] = "login" /\ store[t] # None
    /\ Navigate(t, "home", cookie)
    /\ UNCHANGED <<cookie, storage, valid, issued, store, quiet, aged>>

\* The user opens or reloads a page or follows a link, to one that polls or to
\* the form of /jobs/new, turns to another tab or window, or comes back.
Visit(t) ==
    /\ \E target \in {"home", "login"} : Load(t, target, cookie, storage)
    /\ quiet' \in {quiet \ {t}, quiet \cup {t}}
    /\ UNCHANGED <<cookie, storage, valid, issued, aged>>
Follow(t) ==
    /\ page[t] = "home" /\ store[t] # None
    /\ IF cookie = None THEN page' = [page EXCEPT ![t] = "login"] ELSE UNCHANGED page
    /\ quiet' \in {quiet \ {t}, quiet \cup {t}}
    /\ UNCHANGED <<cookie, storage, valid, issued, store, aged>>
Turn(t) ==
    /\ quiet' = IF t \in quiet THEN quiet \ {t} ELSE quiet \cup {t}
    /\ UNCHANGED <<cookie, storage, valid, issued, store, page, aged>>

\* The server's expiry of a token (or of its user), and the cookie's own.
Expire(k) ==
    /\ k \in valid
    /\ valid' = valid \ {k}
    /\ UNCHANGED <<cookie, storage, issued, store, page, quiet, aged>>
CookieAges ==
    /\ cookie # None
    /\ cookie' = None /\ aged' = "yes"
    /\ UNCHANGED <<storage, valid, issued, store, page, quiet>>

Next ==
    \/ \E t \in Tabs :
          \/ SignIn(t) \/ WrongPassword(t) \/ Refused(t) \/ Logout(t)
          \/ CheckAuth(t) \/ LeaveLogin(t) \/ Visit(t) \/ Follow(t)
          \/ Turn(t)
    \/ \E k \in 1..MaxLogins : Expire(k)
    \/ CookieAges

\* A poll of a page at home and in view, answered 401.
PollRefused(t) == t \notin quiet /\ Refused(t)

(* The redirects of a page run by themselves; the pages behind the guard   *)
(* poll the API, but for /jobs/new and while they are out of view.         *)
Fairness ==
    \A t \in Tabs : WF_vars(CheckAuth(t)) /\ WF_vars(LeaveLogin(t)) /\ WF_vars(PollRefused(t))

Spec == Init /\ [][Next]_vars /\ Fairness

-----------------------------------------------------------------------------
(* The values of the variables; no party holds a token never issued.       *)
TypeOK ==
    /\ issued \in Nat /\ {cookie, storage} \subseteq 0..issued /\ valid \subseteq 1..issued
    /\ store \in [Tabs -> 0..issued] /\ page \in [Tabs -> {"login", "checking", "home"}]
    /\ quiet \subseteq Tabs

(* Both or none of cookie and storage: the middleware and the API client   *)
(* never disagree on whether someone is signed in, and the token is the    *)
(* same ("Clear BOTH ... to prevent redirect loops"), until the cookie is  *)
(* dropped for its age, which nothing tells the storage.                   *)
SameSession == aged = "no" => cookie = storage

(* No redirect chases another: a tab whose store is what the storage holds *)
(* ends at the form or at a page, unless the cookie was dropped for its    *)
(* age.                                                                    *)
Settled(t) == (page[t] = "login" /\ store[t] = None) \/ (page[t] = "home" /\ store[t] # None)
RedirectsEnd ==
    \A t \in Tabs : []<>(Settled(t) \/ store[t] # storage \/ aged = "yes")

(* A session the server has ended does not live on in a page that polls:   *)
(* it is signed out or signs in again, unless the user leaves it for the   *)
(* form or another tab, where nothing would notice.                        *)
DeadSessionEnds ==
    \A t \in Tabs : (page[t] = "home" /\ storage \notin valid /\ t \notin quiet)
                        ~> (page[t] # "home" \/ storage \in valid \/ t \in quiet)

(* The two together: every tab comes to rest where its session puts it.    *)
TabsSettle == RedirectsEnd /\ DeadSessionEnds
=============================================================================
