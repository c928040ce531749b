-------------------------------- MODULE Session --------------------------------
(***************************************************************************)
(* Who the site takes its visitor for (lib/auth/AuthProvider.tsx), and the  *)
(* pages that it shows for that: the guards of app/*/page.tsx               *)
(* (lib/auth/guards.tsx), the navigation (lib/routes/nav.ts and             *)
(* components/layout), the login page, the requests of                     *)
(* lib/api/client.ts, which fetch a token before they change anything, and  *)
(* the endpoints that answer them (app/controllers/                        *)
(* authentication_controller.py, app/services/session_service.py).          *)
(***************************************************************************)
EXTENDS Registration

CONSTANTS
  RoleOf,        \* account -> its role
  Entry,         \* pages that the visitor opens by their address, and those to
                 \* which links are followed while a request is under way
  MaxAuthCalls,  \* requests under way, at most
  NoUser

Account == DOMAIN RoleOf

Rank == [User |-> 1, Moderator |-> 2, Admin |-> 3]

\* The guard of each page: "none", RequireAuth, or the role of RequireRole.
Guard ==
  [home |-> "none", landing |-> "none", login |-> "none", register |-> "none", hub |-> "none", docs |-> "none",
   dashboard |-> "auth", experiments |-> "auth", blueprints |-> "auth", models |-> "auth",
   favorites |-> "auth", profile |-> "auth", jobs |-> "auth", moderation |-> "auth",
   users |-> "Moderator", system |-> "Admin"]

Site == DOMAIN Guard

\* The least rank that the requests of a page are answered for; 0 is anyone's.
\* (The home page of a signed-in visitor is the dashboard.)
Needs ==
  [p \in Site |->
     CASE p \in {"home", "landing", "login", "register", "hub", "docs"} -> 0
       [] p \in {"moderation", "users"} -> 2
       [] p = "system" -> 3
       [] OTHER -> 1]

\* navItems.
NavRole ==
  [dashboard |-> "User", experiments |-> "User", blueprints |-> "User", models |-> "User",
   favorites |-> "User", hub |-> "User", docs |-> "User",
   users |-> "Moderator", system |-> "Admin", moderation |-> "Moderator", jobs |-> "Moderator"]

ASSUME SessionAssumption ==
  /\ NoUser \notin Account /\ \A u \in Account : RoleOf[u] \in DOMAIN Rank
  /\ Entry \subseteq Site /\ MaxAuthCalls \in Nat \ {0}

VARIABLES
  session,    \* on the server: the account of the visitor's session, or NoUser
  auth,       \* [user, loading]: the provider
  here,       \* [page, back]: the page, and where a login returns to
  entering,   \* isSubmitting of the login form
  leaving,    \* isLoggingOut
  authCalls,  \* requests: [id, kind, who, stage, to, live]
  shaken      \* history: the session ended by itself, or a login overlapped with the
              \* provider's loading, another login or a logout

sessionVars == <<session, auth, here, entering, leaving, authCalls, shaken>>

RankOf(user) == IF user = NoUser THEN 0 ELSE Rank[RoleOf[user]]

\* A request of a form that is on the page: `to` is the page that follows a
\* login, or "" when none does.
Asking(kind) ==
  [id |-> 0, kind |-> kind, who |-> NoUser, stage |-> "token", to |-> "", live |-> TRUE]

AuthCall(calls, c) ==
  calls \cup {[c EXCEPT !.id = CHOOSE i \in 1 .. MaxAuthCalls : \A d \in calls : d.id # i]}

AuthRoom == Cardinality(authCalls) < MaxAuthCalls

StagedAuth(c, stage) == (authCalls \ {c}) \cup {[c EXCEPT !.stage = stage]}

\* A login and the question that follows it are under way.
LoggingIn == \E c \in authCalls : c.kind = "login" \/ c.to # ""
-----------------------------------------------------------------------------
(* What is rendered, and where a guard sends the visitor. *)

\* As a bug would have it: a guard asks only whether there is a user.
AuthorizedAnyRole(page, user) == Guard[page] = "none" \/ user # NoUser

Authorized(page, user) ==
  CASE Guard[page] = "none" -> TRUE
    [] Guard[page] = "auth" -> user # NoUser
    [] OTHER                -> RankOf(user) >= Rank[Guard[page]]

\* The page's view, or nothing while the guard waits or redirects.
Rendered(h, a) == Authorized(h.page, a.user) /\ (a.loading => Guard[h.page] = "none" /\ h.page # "home")

\* The effects of the guards.
Redirected(h, a) ==
  IF a.loading \/ Authorized(h.page, a.user) THEN h
  ELSE IF a.user # NoUser THEN [h EXCEPT !.page = "dashboard"]
  ELSE [page |-> "login", back |-> IF Guard[h.page] = "auth" THEN h.page ELSE "dashboard"]

\* getVisibleNavItems.
VisibleNav(a) == IF a.user = NoUser THEN {} ELSE {p \in DOMAIN NavRole : RankOf(a.user) >= Rank[NavRole[p]]}

Shell(h, a) ==
  CASE h.page \in {"login", "register"} -> "bare"
    [] h.page = "landing" \/ (h.page = "home" /\ ~a.loading /\ a.user = NoUser) -> "top bar"
    [] OTHER -> "full"

\* Links of the two forms' pages, or of the top bar, the side bar and the landing page.
Links(h, a) ==
  IF Shell(h, a) = "bare" THEN {"home", "login", "register"}
  ELSE {"landing", "home"} \cup VisibleNav(a)
       \cup (IF a.user = NoUser THEN {"hub", "docs", "register"} ELSE {"profile"})
       \cup (IF a.user = NoUser \/ a.loading THEN {"login"} ELSE {})
-----------------------------------------------------------------------------
SessionInit ==
  /\ session \in Account \cup {NoUser}
  /\ auth = [user |-> NoUser, loading |-> TRUE]
  /\ here \in [page : Entry, back : {"dashboard"}]
  /\ entering = FALSE
  /\ leaving = FALSE
  /\ authCalls = AuthCall({}, [Asking("me") EXCEPT !.stage = "sent"])
  /\ shaken = FALSE

\* The page becomes h: the login form is blank on another page, and the answers
\* to what it has sent change it no more.
GoTo(h, calls, waiting) ==
  /\ here' = h
  /\ IF h.page = here.page
     THEN authCalls' = calls /\ entering' = waiting
     ELSE /\ authCalls' = {[c EXCEPT !.live = c.kind = "me" /\ c.to = ""] : c \in calls}
          /\ entering' = FALSE

Follow ==
  /\ \E p \in (Links(here, auth) \ {here.page}) \cap (IF authCalls = {} THEN Site ELSE Entry) :
       GoTo(Redirected([page |-> p, back |-> "dashboard"], auth), authCalls, entering)
  /\ UNCHANGED <<session, auth, leaving, shaken>>

\* onSubmit of the login form, with anything typed: a form with faults is not sent.
SubmitLogin ==
  /\ here.page = "login" /\ ~entering
  /\ \E d \in Drafts, u \in Account :
       \/ LoginFaults(d) # {} /\ UNCHANGED <<entering, authCalls, shaken>>
       \/ /\ LoginFaults(d) = {} /\ AuthRoom
          /\ authCalls' = AuthCall(authCalls, [Asking("login") EXCEPT !.who = u, !.to = here.back])
          /\ entering' = TRUE
          /\ shaken' = (shaken \/ auth.loading \/ LoggingIn \/ \E c \in authCalls : c.kind = "logout")
  /\ UNCHANGED <<session, auth, here, leaving>>

\* handleLogout: the button is there for a user once the provider has loaded.
ClickLogout ==
  /\ Shell(here, auth) # "bare"
  /\ ~auth.loading /\ auth.user # NoUser /\ ~leaving
  /\ AuthRoom
  /\ authCalls' = AuthCall(authCalls, Asking("logout"))
  /\ leaving' = TRUE
  /\ shaken' = (shaken \/ LoggingIn)
  /\ UNCHANGED <<session, auth, here, entering>>

\* fetchCsrfToken: without a token the request is sent all the same, and refused.
TokenFetched ==
  /\ \E c \in authCalls, stage \in {"sent", "refused"} :
       c.stage = "token" /\ authCalls' = StagedAuth(c, stage)
  /\ UNCHANGED <<session, auth, here, entering, leaving, shaken>>
-----------------------------------------------------------------------------
(* The server.  The cookie of a session comes with the answer to the login. *)

Replied(c, stage, account) ==
  /\ c \in authCalls /\ c.stage = "sent"
  /\ authCalls' = (authCalls \ {c}) \cup {[c EXCEPT !.stage = stage, !.who = account]}
  /\ UNCHANGED <<auth, here, entering, leaving, shaken>>

\* GET /auth/me: the account of the cookie's session.
ServeMe == (\E c \in authCalls : c.kind = "me" /\ Replied(c, "served", session)) /\ UNCHANGED session

\* POST /auth/login: refused for an unknown account, a wrong password or an
\* account that is disabled.
ServeLogin ==
  /\ \E c \in authCalls, stage \in {"served", "refused"} : c.kind = "login" /\ Replied(c, stage, c.who)
  /\ UNCHANGED session

\* POST /auth/logout.
ServeLogout ==
  /\ \E c \in authCalls : c.kind = "logout" /\ Replied(c, "served", NoUser)
  /\ session' = NoUser

\* The session runs out, or its account is disabled.
Expire ==
  /\ session # NoUser
  /\ session' = NoUser /\ shaken' = TRUE
  /\ UNCHANGED <<auth, here, entering, leaving, authCalls>>
-----------------------------------------------------------------------------
(* Answers.  A page is gone to whether or not the form is still there. *)

\* refreshUser, which takes any failure for nobody, and what follows it: the
\* end of the provider's loading, or of the login.
MeAnswered ==
  /\ \E c \in authCalls, lost \in BOOLEAN :
       /\ c.kind = "me" /\ (c.stage = "served" \/ lost)
       /\ auth' = [user |-> IF lost THEN NoUser ELSE c.who, loading |-> auth.loading /\ c.to # ""]
       /\ GoTo(Redirected(IF c.to = "" THEN here ELSE [page |-> c.to, back |-> "dashboard"], auth'),
               authCalls \ {c}, entering /\ ~(c.to # "" /\ c.live))
  /\ UNCHANGED <<session, leaving, shaken>>

LoginAnswered ==
  /\ \E c \in authCalls :
       /\ c.kind = "login" /\ c.stage = "served"
       /\ session' = c.who
       /\ authCalls' = (authCalls \ {c}) \cup {[c EXCEPT !.kind = "me", !.who = NoUser, !.stage = "sent"]}
  /\ UNCHANGED <<auth, here, entering, leaving, shaken>>

LoginFails ==
  /\ \E c \in authCalls :
       /\ c.kind = "login" /\ c.stage # "token"
       /\ authCalls' = authCalls \ {c}
       /\ entering' = (entering /\ ~c.live)
  /\ UNCHANGED <<session, auth, here, leaving, shaken>>

\* The answer takes the cookie away.
LogoutAnswered ==
  /\ \E c \in authCalls :
       /\ c.kind = "logout" /\ c.stage = "served"
       /\ GoTo([page |-> "login", back |-> "dashboard"], authCalls \ {c}, entering)
  /\ session' = NoUser
  /\ auth' = [auth EXCEPT !.user = NoUser]
  /\ leaving' = FALSE
  /\ UNCHANGED shaken

\* As a bug would have it: the user is forgotten with a successful answer only.
LogoutFailsKept ==
  /\ \E c \in authCalls :
       /\ c.kind = "logout" /\ c.stage # "token"
       /\ authCalls' = authCalls \ {c}
  /\ leaving' = FALSE
  /\ UNCHANGED <<session, auth, here, entering, shaken>>

\* The finally block of logout: the user is forgotten, whatever the server did.
LogoutFails ==
  /\ auth' = [auth EXCEPT !.user = NoUser]
  /\ \E c \in authCalls :
       /\ c.kind = "logout" /\ c.stage # "token"
       /\ GoTo(Redirected(here, auth'), authCalls \ {c}, entering)
  /\ leaving' = FALSE
  /\ UNCHANGED <<session, shaken>>

SessionNext ==
  \/ Follow \/ SubmitLogin \/ ClickLogout
  \/ TokenFetched \/ ServeMe \/ ServeLogin \/ ServeLogout \/ Expire
  \/ MeAnswered \/ LoginAnswered \/ LoginFails \/ LogoutAnswered \/ LogoutFails
-----------------------------------------------------------------------------
SessionTypeOK ==
  /\ session \in Account \cup {NoUser} /\ auth.user \in Account \cup {NoUser}
  /\ here.page \in Site /\ here.back \in Site
  /\ Cardinality(authCalls) <= MaxAuthCalls
  \* The login form waits only as long as its request is under way.
  /\ entering => here.page = "login" /\ \E c \in authCalls : c.live /\ (c.kind = "login" \/ c.to # "")

\* With all requests answered, or lost, a visitor who is shown as signed in is
\* signed in under that account: no answer to an earlier question brings a user
\* back who has signed out or changed accounts.  A session that ran out is learned
\* of with the next reload only; a login overlapping with the provider's first
\* question, with another login, or with a logout, is a race that either may win.
SignedInIsReal ==
  authCalls = {} /\ ~shaken /\ auth.user # NoUser => auth.user = session

\* Wherever links, logins and redirects lead, the view that is rendered is one
\* whose requests are answered for the visitor's role, except the moderation
\* page, which opens for every user; and no link of the navigation leads to a
\* page that turns its visitor away.
NavigationFits ==
  /\ Rendered(here, auth) /\ here.page # "moderation" => RankOf(auth.user) >= Needs[here.page]
  /\ ~auth.loading => \A p \in VisibleNav(auth) : Redirected([here EXCEPT !.page = p], auth).page = p
=============================================================================
