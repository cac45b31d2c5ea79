----------------------------- MODULE UserPages -----------------------------
(***************************************************************************)
(* The Portal's user pages in one browser tab: /login, /me, /authorize and *)
(* useUserApi, which they share.  A token stands for its user: Core's user *)
(* sessions are signed and keep no state, so a token is good until it      *)
(* expires, which is an answer 401 at any time.  `stored' (localStorage)   *)
(* and `cookie' (adscope_sso, sent with every request) belong to the       *)
(* browser: another tab changes both.                                      *)
(*                                                                         *)
(* Opening an address, and window.location.assign, load the application    *)
(* anew: its state is lost, and with it the functions that wait for an     *)
(* answer.  navigateTo keeps both, so a function of a page that is gone    *)
(* can still change the shared state and navigate.                         *)
(***************************************************************************)
EXTENDS Naturals

CONSTANTS
    Users,
    Requests,  \* authorization requests: the query of /authorize
    Calls,     \* bound: how many asynchronous functions wait at a time
    Null

ASSUME UserNullAssumption == Null \notin Users \cup Requests
ASSUME CallsAssumption == Calls # {}

VARIABLES
    stored,       \* localStorage 'adscope.userAccessToken'
    cookie,       \* the user of the cookie adscope_sso
    page,         \* the page that is mounted; "away" for another site
    address,      \* the query: of /authorize, or `continue' of /login
    accessToken,  \* the shared state of useUserApi
    profile,
    calls,        \* the functions that await, one record for each
    me,           \* the refs of /me
    auth,         \* the refs of /authorize
    granted       \* the last approval that Core accepted, and what the form showed

browserVars == <<stored, cookie>>
apiVars == <<accessToken, profile>>
routeVars == <<page, address, me, auth>>
vars == <<browserVars, routeVars, apiVars, calls, granted>>

FreshMe == [contactOpen |-> FALSE, passwordOpen |-> FALSE, saving |-> FALSE, contactForm |-> Null]
FreshAuth == [context |-> Null, loading |-> TRUE, switchingAccount |-> FALSE, failed |-> FALSE]

(* What GET /api/oauth2/authorize/context answers: the request, the user,  *)
(* and the csrf token, which is signed for both.                           *)
Contexts ==
    [request : Requests, user : Users, csrf : [user : Users, request : Requests]]

ASSUME ContextNullAssumption == Null \notin Contexts

Idle == [fn |-> "idle", user |-> Null, arg |-> Null, mounted |-> FALSE, current |-> FALSE]

(* A request is sent: `user' is the user of the token or the cookie that   *)
(* goes with it; `mounted' says that the page that sent it is still there, *)
(* `current' that no later context was asked for (requestGeneration).      *)
Call(fn, user, arg) ==
    [fn |-> fn, user |-> user, arg |-> arg, mounted |-> TRUE, current |-> TRUE]

CallRecords ==
    [fn : {"idle", "login", "loginLoad", "loginMounted", "meMounted", "logout", "switchAccount",
           "updateContact", "changePassword", "context"},
     user : Users \cup {Null}, arg : Requests \cup {Null}, mounted : BOOLEAN, current : BOOLEAN]

TypeOK ==
    /\ stored \in Users \cup {Null} /\ cookie \in Users \cup {Null}
    /\ page \in {"away", "login", "me", "authorize"} /\ address \in Requests \cup {Null}
    /\ accessToken \in Users \cup {Null} /\ profile \in Users \cup {Null}
    /\ calls \in [Calls -> CallRecords]
    /\ me \in [contactOpen : BOOLEAN, passwordOpen : BOOLEAN, saving : BOOLEAN,
               contactForm : Users \cup {Null}]
    /\ auth \in [context : Contexts \cup {Null}, loading : BOOLEAN,
                 switchingAccount : BOOLEAN, failed : BOOLEAN]
    /\ granted \in [subject : Users, request : Requests, user : Users, address : Requests]
                   \cup {Null}

Init ==
    /\ stored = Null /\ cookie = Null
    /\ page = "away" /\ address = Null
    /\ accessToken = Null /\ profile = Null
    /\ calls = [c \in Calls |-> Idle]
    /\ me = FreshMe /\ auth = FreshAuth /\ granted = Null

IsIdle(c) == calls[c].fn = "idle"
Ended(c) == [calls EXCEPT ![c] = Idle]

(* pending > 0: the context is fetched without trackRequest.               *)
Loading == \E c \in Calls : calls[c].fn \notin {"idle", "context"}

Begin(call) == \E c \in Calls : IsIdle(c) /\ calls' = [calls EXCEPT ![c] = call]

ClearToken == accessToken' = Null /\ profile' = Null /\ stored' = Null

-----------------------------------------------------------------------------
(***************************************************************************)
(* Pages are shown, and their onMounted runs.  `waiting' are the functions *)
(* that wait, `c' one that does not, `token' is accessToken before the     *)
(* page reads localStorage.                                                *)
(***************************************************************************)

Left(waiting) == [c \in Calls |-> [waiting[c] EXCEPT !.mounted = FALSE]]

Shows(p, r) == page' = p /\ address' = r /\ me' = FreshMe /\ auth' = FreshAuth

(* /login: without `continue' a stored token is tried.                     *)
EnterLogin(continue, token, waiting, c) ==
    /\ Shows("login", continue)
    /\ IF continue # Null THEN accessToken' = token /\ calls' = waiting
       ELSE /\ accessToken' = stored'
            /\ calls' = IF stored' = Null THEN waiting
                        ELSE [waiting EXCEPT ![c] = Call("loginMounted", stored', Null)]

(* /me: without a stored token it goes on to /login.                       *)
EnterMe(waiting, c) ==
    IF stored' = Null THEN EnterLogin(Null, Null, waiting, c)
    ELSE /\ Shows("me", Null)
         /\ accessToken' = stored'
         /\ calls' = [waiting EXCEPT ![c] = Call("meMounted", stored', Null)]

(* /authorize: loadAuthorizationContext.                                   *)
EnterAuthorize(r, token, waiting, c) ==
    /\ Shows("authorize", r)
    /\ accessToken' = token
    /\ calls' = [waiting EXCEPT ![c] = Call("context", cookie', r)]

(* The application is loaded anew.                                         *)
NoCalls == [c \in Calls |-> Idle]
AnyCall == CHOOSE c \in Calls : TRUE

(* The authorization request /login is to continue with: `continue' counts *)
(* only when it is the path of Core's endpoint on this site.               *)
AuthorizationContinue == address

(* GET /oauth2/authorize at Core: the cookie decides which page is next.   *)
LoadAuthorization(r) ==
    /\ profile' = Null
    /\ IF cookie' # Null THEN EnterAuthorize(r, Null, NoCalls, AnyCall)
       ELSE EnterLogin(r, Null, NoCalls, AnyCall)

(* navigateTo('/login') by the function in c: nothing is mounted when the  *)
(* page is /login already.                                                 *)
GoToLogin(c, token) ==
    IF page = "login"
    THEN /\ address' = Null /\ calls' = Ended(c) /\ accessToken' = token
         /\ UNCHANGED <<page, me, auth>>
    ELSE EnterLogin(Null, token, Left(Ended(c)), c)

-----------------------------------------------------------------------------
(***************************************************************************)
(* The user, and the other tabs of the browser.                            *)
(***************************************************************************)

OpenLogin ==
    /\ UNCHANGED browserVars
    /\ profile' = Null /\ EnterLogin(Null, Null, NoCalls, AnyCall)
    /\ UNCHANGED granted

OpenMe ==
    /\ UNCHANGED browserVars
    /\ profile' = Null /\ EnterMe(NoCalls, AnyCall)
    /\ UNCHANGED granted

(* A client sends the browser to Core with an authorization request.       *)
OpenAuthorization(r) ==
    /\ UNCHANGED browserVars
    /\ LoadAuthorization(r)
    /\ UNCHANGED granted

OtherTabLogin(u) ==
    /\ stored' = u /\ cookie' = u
    /\ UNCHANGED <<routeVars, apiVars, calls, granted>>

(* Another tab logs out, or finds that the token does not work; or the     *)
(* cookie expires.                                                         *)
OtherTabLogout ==
    /\ \/ stored' = Null /\ cookie' \in {Null, cookie}
       \/ UNCHANGED stored /\ cookie' = Null
    /\ UNCHANGED <<routeVars, apiVars, calls, granted>>

(* submitLogin; its button is disabled while a request of useUserApi runs. *)
SubmitLogin(u) ==
    /\ page = "login" /\ ~Loading
    /\ Begin(Call("login", u, Null))
    /\ UNCHANGED <<browserVars, routeVars, apiVars, granted>>

NothingCovers == ~me.contactOpen /\ ~me.passwordOpen

(* exitUser: the menu is there whenever there is a profile.                *)
ExitUser ==
    /\ profile # Null /\ page # "away" /\ NothingCovers
    /\ Begin(Call("logout", Null, Null))
    /\ UNCHANGED <<browserVars, routeVars, apiVars, granted>>

(* The cards of /me and their buttons, in place of the spinner.            *)
AccountShown == page = "me" /\ profile # Null /\ NothingCovers

OpenContact ==
    /\ AccountShown
    /\ me' = [me EXCEPT !.contactOpen = TRUE, !.contactForm = profile]
    /\ UNCHANGED <<browserVars, page, address, auth, apiVars, calls, granted>>

OpenPassword ==
    /\ AccountShown
    /\ me' = [me EXCEPT !.passwordOpen = TRUE]
    /\ UNCHANGED <<browserVars, page, address, auth, apiVars, calls, granted>>

(* The dialogs, which are blocked while they save.                         *)
DialogOf(fn) ==
    /\ page = "me" /\ ~me.saving
    /\ IF fn = "updateContact" THEN me.contactOpen ELSE me.passwordOpen

(* Cancel, or a click beside the dialog.                                   *)
CloseDialog ==
    /\ DialogOf("updateContact") \/ DialogOf("changePassword")
    /\ me' = FreshMe
    /\ UNCHANGED <<browserVars, page, address, auth, apiVars, calls, granted>>

(* saveContact and savePassword; without a token userFetch throws.         *)
Save(fn) ==
    /\ DialogOf(fn) /\ accessToken # Null
    /\ me' = [me EXCEPT !.saving = TRUE]
    /\ Begin(Call(fn, accessToken, Null))
    /\ UNCHANGED <<browserVars, page, address, auth, apiVars, granted>>

(* loadAuthorizationContext, called again: a new generation begins.        *)
LoadContext(r) ==
    \E c \in Calls :
        /\ IsIdle(c)
        /\ calls' = [d \in Calls |->
               IF d = c THEN Call("context", cookie, r)
               ELSE [calls[d] EXCEPT !.current = FALSE]]
        /\ auth' = [auth EXCEPT !.context = Null, !.loading = TRUE, !.failed = FALSE]

Retry ==
    /\ page = "authorize" /\ ~auth.loading /\ auth.failed
    /\ LoadContext(address)
    /\ UNCHANGED <<browserVars, page, address, me, apiVars, granted>>

(* watch(route.fullPath)                                                   *)
ChangeAddress(r) ==
    /\ page = "authorize" /\ r # address
    /\ address' = r
    /\ LoadContext(r)
    /\ UNCHANGED <<browserVars, page, me, apiVars, granted>>

FormShown ==
    page = "authorize" /\ ~auth.loading /\ ~auth.failed /\ auth.context # Null
    /\ ~auth.switchingAccount

SwitchAccount ==
    /\ FormShown
    /\ auth' = [auth EXCEPT !.switchingAccount = TRUE]
    /\ Begin(Call("switchAccount", Null, Null))
    /\ UNCHANGED <<browserVars, page, address, me, apiVars, granted>>

(* Mutant: the csrf token is not bound to the session's user.              *)
CoreVerifies_AnyUser(context) == cookie # Null /\ context.csrf.request = context.request

(* confirm_authorization: a session, and a csrf token for its user and for *)
(* the request of the form.                                                *)
CoreVerifies(context) ==
    cookie # Null /\ context.csrf = [user |-> cookie, request |-> context.request]

(* A decision is posted: the browser leaves, and an approval that Core     *)
(* accepts is granted.                                                     *)
Decide(approve) ==
    /\ FormShown
    /\ granted' = IF approve /\ CoreVerifies(auth.context)
                  THEN [subject |-> cookie, request |-> auth.context.request,
                        user |-> auth.context.user, address |-> address]
                  ELSE granted
    /\ Shows("away", Null)
    /\ calls' = NoCalls /\ accessToken' = Null /\ profile' = Null
    /\ UNCHANGED browserVars

-----------------------------------------------------------------------------
(***************************************************************************)
(* Answers.                                                                *)
(***************************************************************************)

(* login after POST /api/auth/login: loadMe(false) follows.                *)
LoginAnswered(c) ==
    /\ calls[c].fn = "login"
    /\ accessToken' = calls[c].user /\ stored' = calls[c].user /\ cookie' = calls[c].user
    /\ calls' = [calls EXCEPT ![c] = Call("loginLoad", calls[c].user, Null)]
    /\ UNCHANGED <<routeVars, profile, granted>>

(* Refused, lost, or answered with a cookie and a body that does not come. *)
LoginFails(c) ==
    /\ calls[c].fn = "login"
    /\ cookie' \in {cookie, calls[c].user}
    /\ ClearToken /\ calls' = Ended(c)
    /\ UNCHANGED <<routeVars, granted>>

(* loadMe after GET /api/me, and what its caller does next.                *)
MeLoaded(c) ==
    /\ UNCHANGED <<browserVars, granted>>
    /\ \/ /\ calls[c].fn = "loginLoad" /\ AuthorizationContinue # Null
          /\ LoadAuthorization(AuthorizationContinue)
       \/ /\ \/ calls[c].fn = "loginLoad" /\ AuthorizationContinue = Null
             \/ calls[c].fn = "loginMounted"
          /\ profile' = calls[c].user
          /\ EnterMe(Left(Ended(c)), c)
       \/ /\ calls[c].fn = "meMounted"
          /\ profile' = calls[c].user /\ calls' = Ended(c)
          /\ UNCHANGED <<routeVars, accessToken>>

(* Mutant: the token is kept unless Core refuses it.                       *)
LoadMeFails_KeepsToken(c) ==
    /\ calls[c].fn \in {"loginLoad", "loginMounted", "meMounted"}
    /\ UNCHANGED <<cookie, granted>>
    /\ \/ /\ ClearToken
          /\ IF calls[c].fn = "meMounted" THEN GoToLogin(c, Null)
             ELSE calls' = Ended(c) /\ UNCHANGED routeVars
       \/ /\ UNCHANGED <<stored, apiVars, routeVars>>
          /\ calls' = Ended(c)

(* The catch of loadMe: the token goes, whatever the failure was.          *)
LoadMeFails(c) ==
    /\ calls[c].fn \in {"loginLoad", "loginMounted", "meMounted"}
    /\ UNCHANGED <<cookie, granted>>
    /\ profile' = Null /\ stored' = Null
    /\ IF calls[c].fn = "meMounted" THEN GoToLogin(c, Null)
       ELSE accessToken' = Null /\ calls' = Ended(c) /\ UNCHANGED routeVars

(* switchAccount goes to Core with the query of the address of now.  When  *)
(* an answer has brought the tab to /login meanwhile, that is `continue'   *)
(* and no request: Core answers with an error and the application is gone. *)
SwitchAtCore ==
    \/ page = "authorize" /\ LoadAuthorization(address)
    \/ /\ page # "authorize" /\ Shows("away", Null)
       /\ calls' = NoCalls /\ accessToken' = Null

(* Mutant: logout has no catch and clears nothing when the request fails.  *)
LogoutAnswered_OnlyOnSuccess(c, reached) ==
    /\ calls[c].fn \in {"logout", "switchAccount"}
    /\ UNCHANGED granted
    /\ \/ /\ reached /\ cookie' = Null
          /\ profile' = Null /\ stored' = Null
          /\ IF calls[c].fn = "logout" THEN GoToLogin(c, Null) ELSE SwitchAtCore
       \/ /\ ~reached /\ calls' = Ended(c)
          /\ UNCHANGED <<browserVars, apiVars, routeVars>>

(* logout, answered or not: the local login goes in any case.  exitUser    *)
(* goes to /login, switchAccount to Core.                                  *)
LogoutAnswered(c, reached) ==
    /\ calls[c].fn \in {"logout", "switchAccount"}
    /\ UNCHANGED granted
    /\ cookie' = IF reached THEN Null ELSE cookie
    /\ stored' = Null /\ profile' = Null
    /\ IF calls[c].fn = "logout" THEN GoToLogin(c, Null) ELSE SwitchAtCore

(* The refs of /me when saveContact or savePassword ends: they are gone    *)
(* when the page is.                                                       *)
SaveDone(c, closed) ==
    me' = IF ~calls[c].mounted THEN me
          ELSE IF closed THEN FreshMe ELSE [me EXCEPT !.saving = FALSE]

Saved(c) ==
    /\ calls[c].fn \in {"updateContact", "changePassword"}
    /\ profile' = IF calls[c].fn = "updateContact" THEN calls[c].user ELSE profile
    /\ SaveDone(c, TRUE) /\ calls' = Ended(c)
    /\ UNCHANGED <<browserVars, page, address, auth, accessToken, granted>>

(* userFetch clears the token on 401 and 403: the session has expired, or  *)
(* the current password is wrong.                                          *)
SaveFails(c, unauthorized) ==
    /\ calls[c].fn \in {"updateContact", "changePassword"}
    /\ SaveDone(c, FALSE) /\ calls' = Ended(c)
    /\ IF unauthorized THEN ClearToken ELSE UNCHANGED <<stored, apiVars>>
    /\ UNCHANGED <<cookie, page, address, auth, granted>>

(* Mutant: an answer is used whatever was asked for since.                 *)
ContextAnswered_AnyGeneration(c) ==
    /\ calls[c].fn = "context" /\ calls[c].user # Null
    /\ calls' = Ended(c)
    /\ auth' = [auth EXCEPT !.loading = FALSE, !.context =
              [request |-> calls[c].arg, user |-> calls[c].user,
               csrf |-> [user |-> calls[c].user, request |-> calls[c].arg]]]
    /\ UNCHANGED <<browserVars, page, address, me, apiVars, granted>>

(* Mutant: Core answers without looking for a session.                     *)
ContextAnswered_WithoutSession(c) ==
    /\ calls[c].fn = "context"
    /\ calls' = Ended(c)
    /\ auth' = IF ~calls[c].current THEN auth
               ELSE [auth EXCEPT !.loading = FALSE, !.context =
                        [request |-> calls[c].arg, user |-> calls[c].user,
                         csrf |-> [user |-> calls[c].user, request |-> calls[c].arg]]]
    /\ UNCHANGED <<browserVars, page, address, me, apiVars, granted>>

(* loadAuthorizationContext after its answer; an old generation returns.   *)
ContextAnswered(c) ==
    /\ calls[c].fn = "context" /\ calls[c].user # Null
    /\ calls' = Ended(c)
    /\ auth' = IF ~calls[c].current THEN auth
               ELSE [auth EXCEPT !.loading = FALSE, !.context =
                        [request |-> calls[c].arg, user |-> calls[c].user,
                         csrf |-> [user |-> calls[c].user, request |-> calls[c].arg]]]
    /\ UNCHANGED <<browserVars, page, address, me, apiVars, granted>>

(* 401: to /login, which continues with the request that was asked for.    *)
ContextUnauthorized(c) ==
    /\ calls[c].fn = "context"
    /\ IF calls[c].current
       THEN EnterLogin(calls[c].arg, accessToken, Left(Ended(c)), c)
       ELSE calls' = Ended(c) /\ UNCHANGED <<routeVars, accessToken>>
    /\ UNCHANGED <<browserVars, profile, granted>>

(* Mutant: the finally clause does not look at the generation.             *)
ContextFails_AlwaysSettles(c) ==
    /\ calls[c].fn = "context"
    /\ calls' = Ended(c)
    /\ auth' = [auth EXCEPT !.loading = FALSE, !.failed = auth.failed \/ calls[c].current]
    /\ UNCHANGED <<browserVars, page, address, me, apiVars, granted>>

(* Another status, or no answer.                                           *)
ContextFails(c) ==
    /\ calls[c].fn = "context"
    /\ calls' = Ended(c)
    /\ auth' = IF ~calls[c].current THEN auth
               ELSE [auth EXCEPT !.loading = FALSE, !.failed = TRUE]
    /\ UNCHANGED <<browserVars, page, address, me, apiVars, granted>>

-----------------------------------------------------------------------------
User ==
    \/ OpenLogin \/ OpenMe \/ \E r \in Requests : OpenAuthorization(r) \/ ChangeAddress(r)
    \/ \E u \in Users : SubmitLogin(u)
    \/ ExitUser \/ OpenContact \/ OpenPassword \/ CloseDialog
    \/ \E fn \in {"updateContact", "changePassword"} : Save(fn)
    \/ Retry \/ SwitchAccount \/ \E approve \in BOOLEAN : Decide(approve)

OtherTab == OtherTabLogout \/ \E u \in Users : OtherTabLogin(u)

Answer(c) ==
    \/ LoginAnswered(c) \/ LoginFails(c) \/ MeLoaded(c) \/ LoadMeFails(c)
    \/ \E reached \in BOOLEAN : LogoutAnswered(c, reached)
    \/ Saved(c) \/ \E unauthorized \in BOOLEAN : SaveFails(c, unauthorized)
    \/ ContextAnswered(c) \/ ContextUnauthorized(c) \/ ContextFails(c)

Next == User \/ OtherTab \/ \E c \in Calls : Answer(c)

Spec == Init /\ [][Next]_vars

(* The browser settles every fetch.                                        *)
FairSpec == Spec /\ \A c \in Calls : WF_vars(Answer(c))

-----------------------------------------------------------------------------
(***************************************************************************)
(* Properties                                                              *)
(***************************************************************************)

(* The consent form is that of the address, whatever answers come late     *)
(* (authorize.vue requestGeneration).                                      *)
ConsentShowsAddress ==
    page = "authorize" /\ auth.context # Null => auth.context.request = address

(* /authorize always shows one of its three cards: it loads exactly while  *)
(* the newest request for a context runs, and else has an answer or an     *)
(* error (authorize.vue loadAuthorizationContext).                         *)
AuthorizeShowsACard ==
    page = "authorize" =>
        /\ auth.loading = \E c \in Calls : calls[c].fn = "context" /\ calls[c].current
        /\ auth.loading \/ auth.failed \/ auth.context # Null

(* What Core grants is what the form showed: its user and the request of   *)
(* its address, although another tab may log in as somebody else between   *)
(* (context, csrf_token and confirm_authorization).                        *)
ApprovedIsShown ==
    granted # Null => granted.subject = granted.user /\ granted.request = granted.address

(* When nothing is on its way, a token comes with the profile of its user: *)
(* whichever of login, mount, logout and failure came in whatever order    *)
(* (useUserApi).                                                           *)
TokenHasItsProfile == ~Loading /\ accessToken # Null => profile = accessToken

(* The functions that load the account, and those of a login.              *)
LoadFns == {"loginLoad", "loginMounted", "meMounted"}
LoginFns == {"login", "loginLoad", "loginMounted"}
SaveFns == {"updateContact", "changePassword"}

(* A context is asked for with a request.  On /authorize, and until an     *)
(* account switch that began there ends, nothing else runs and nobody is   *)
(* shown.  The newest request for a context is one, and for the address.   *)
ContextInv ==
    /\ \A c \in Calls : calls[c].fn = "context" => calls[c].arg # Null
    /\ page = "authorize" \/ (\E c \in Calls : calls[c].fn = "switchAccount") =>
           /\ page # "me" /\ address # Null /\ profile = Null
           /\ \A c \in Calls : calls[c].fn \in {"idle", "context", "switchAccount"}
    /\ page = "authorize" =>
           \A c, d \in Calls :
               /\ calls[c].fn = "context" /\ calls[c].current => calls[c].arg = address
               /\ /\ calls[c].fn = "context" /\ calls[c].current
                  /\ calls[d].fn = "context" /\ calls[d].current
                  => c = d

(* A context comes with the csrf token of its own user and request.        *)
CsrfInv ==
    auth.context # Null =>
        auth.context.csrf = [user |-> auth.context.user, request |-> auth.context.request]

(* Functions that wait for the account of a token wait for that of the     *)
(* tab's token; a login and its load run without any of the others, and    *)
(* not on /me; and a token without its profile is being loaded.            *)
AccountInv ==
    /\ accessToken # Null =>
           /\ \A c \in Calls : calls[c].fn \in LoadFns \cup SaveFns => calls[c].user = accessToken
           /\ profile = accessToken \/ \E c \in Calls : calls[c].fn \in LoadFns
    /\ \A c, d \in Calls :
           calls[c].fn \in LoginFns /\ calls[d].fn \in LoginFns \cup LoadFns \cup SaveFns => c = d
    /\ page = "me" => \A c \in Calls : calls[c].fn \notin LoginFns

(* The inductive invariant behind the properties above: contexts and       *)
(* approvals on /authorize, the account everywhere (useUserApi).           *)
UserInv ==
    /\ TypeOK /\ ContextInv /\ CsrfInv /\ AccountInv
    /\ ConsentShowsAddress /\ AuthorizeShowsACard /\ ApprovedIsShown

(* Whoever logs out is logged out in this tab, even when Core cannot be    *)
(* reached (useUserApi logout: the comment in its catch), unless an        *)
(* address is opened meanwhile and the account is read anew.               *)
LogoutClears ==
    (\E c \in Calls : calls[c].fn = "logout") ~>
        accessToken = Null \/ \E c \in Calls : calls[c].fn \in {"loginMounted", "meMounted"}
=============================================================================
