------------------------------ MODULE Session -------------------------------
(***************************************************************************)
(* The browser's session in one tab (apps/web): the cookies, the routes    *)
(* under app/api that set them and forward requests with them, the login   *)
(* and register forms, and the layouts that look for the cookie.           *)
(*                                                                         *)
(* A fetch ends "ok", "unauthorized", "failed" (any other status) or       *)
(* "lost" (it rejects).  Nothing reads the refresh cookie.                 *)
(***************************************************************************)
EXTENDS Integers, FiniteSets

VARIABLES
    cookie,     \* vr_access_token: "none", or a token, "live" or "expired"
    page,       \* the page on show
    leaving,    \* where router.push or router.replace is going, or "here"
    busyForm,   \* inFlightRef and isSubmitting of the form on show
    formErrors, \* the fields of it that show an error, or "root"
    posts       \* posts to /api/auth under way, and whether their form is there

route == <<page, leaving>>
forms == <<busyForm, formErrors, posts>>

Page == {"login", "register", "lobby", "room", "home"}
Form == {"login", "register"}

(* The layouts: without a cookie, to the login page. *)
LobbyLayout == IF cookie = "none" THEN "login" ELSE "lobby"
RoomLayout == IF cookie = "none" THEN "login" ELSE "room"
Behind(p) == CASE p = "lobby" -> LobbyLayout [] p = "room" -> RoomLayout [] OTHER -> p

(* What the API answers: JwtAuthGuard has the token checked first.         *)
Guarded(token) == IF token = "live" THEN {"ok", "unauthorized", "failed"} ELSE {"unauthorized"}

(* How a request can end that a route forwards with the cookie it was sent *)
(* with: a "failed" of its own is a body that does not parse, an API that  *)
(* cannot be reached or whose address (getBackendBaseUrl) is not set.      *)
Forwarded(sent) ==
    IF sent = "none" THEN {"unauthorized", "lost"} ELSE Guarded(sent) \cup {"failed", "lost"}

CreateRoom(sent) == Forwarded(sent)
JoinRoom(sent) == Forwarded(sent)
OneRoom(sent) == Forwarded(sent)
Me(sent) == Forwarded(sent)
Cars(sent) == Forwarded(sent)
Tracks(sent) == Forwarded(sent)

(* The worst of two answers, as Promise.all and the checks after it go.    *)
Both(S, T) ==
    {IF "lost" \in {s, t} THEN "lost"
     ELSE IF "unauthorized" \in {s, t} THEN "unauthorized"
     ELSE IF "failed" \in {s, t} THEN "failed" ELSE "ok" : s \in S, t \in T}

-----------------------------------------------------------------------------
SetAuthCookies == cookie' = "live"
ClearAuthCookies == cookie' = "none"

(* With rememberMe the cookie ends as its token does, or else with the     *)
(* browser.                                                                *)
TokenExpires ==
    /\ cookie = "live"
    /\ cookie' \in {"none", "expired"}
    /\ UNCHANGED <<route, forms>>

(* Another tab of the browser signs in, or fails to. *)
OtherTab ==
    /\ SetAuthCookies \/ ClearAuthCookies
    /\ UNCHANGED <<route, forms>>

(* The two forms, whose controls are disabled while they submit. *)
LoginForm == page = "login" /\ ~busyForm
RegisterForm == page = "register" /\ ~busyForm

(* onSubmit, once the fields are valid. *)
Submit ==
    /\ LoginForm \/ RegisterForm
    /\ busyForm' = TRUE /\ formErrors' = {}
    /\ posts' = posts \cup {[form |-> page, own |-> TRUE]}
    /\ UNCHANGED <<cookie, route>>

(* The fields that the messages of a refusal may name. *)
NormalizeBackendError == {{}, {"email"}, {"username", "email"}}

(* POST of api/auth: only an answer with both tokens sets the cookies, and *)
(* every refusal of the API, or no answer from it, clears them.            *)
Posted(outcome) ==
    \/ outcome = "ok" /\ SetAuthCookies
    \/ outcome = "refused" /\ ClearAuthCookies
    \/ outcome = "lost" /\ UNCHANGED cookie

(* postToAuthRoute, for a form that may have been left. *)
PostAnswered(p, outcome, errors) ==
    /\ p \in posts
    /\ posts' = posts \ {p}
    /\ Posted(outcome)
    /\ busyForm' = (busyForm /\ ~p.own)
    /\ IF outcome = "ok" THEN leaving' = "lobby" /\ UNCHANGED formErrors
       ELSE formErrors' = (IF p.own THEN errors ELSE formErrors) /\ UNCHANGED leaving
    /\ UNCHANGED page

OrRoot(errors) == IF errors = {} THEN {"root"} ELSE errors

(* The rest of onSubmit on either page: the form is free again, even while *)
(* the browser is on its way to the lobby.                                 *)
LoginAnswered(p, outcome, named) ==
    p.form = "login" /\ PostAnswered(p, outcome, OrRoot(named \cap {"email", "password"}))

RegisterAnswered(p, outcome, named) ==
    /\ p.form = "register"
    /\ PostAnswered(p, outcome, OrRoot(named \cap {"username", "email", "password"}))

FormAnswers ==
    \E p \in posts, outcome \in {"ok", "refused", "lost"} :
        \E named \in (IF outcome = "refused" THEN NormalizeBackendError ELSE {{}}) :
            LoginAnswered(p, outcome, named) \/ RegisterAnswered(p, outcome, named)

FormStep == Submit \/ FormAnswers
=============================================================================
