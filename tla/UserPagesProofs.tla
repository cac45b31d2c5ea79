-------------------------- MODULE UserPagesProofs --------------------------
(***************************************************************************)
(* The user pages are safe for any number of users, authorization requests *)
(* and functions that wait at once: consent is given for what is shown,    *)
(* and a token comes with its own profile.  The argument is the invariant  *)
(* UserInv of UserPages.                                                   *)
(***************************************************************************)
EXTENDS UserPages, TLAPS

Functions ==
    {"idle", "login", "loginLoad", "loginMounted", "meMounted", "logout", "switchAccount",
     "updateContact", "changePassword", "context"}

(* A function that waits, and one that does not, is a record of its type.  *)
LEMMA CallIsTyped ==
    /\ Idle \in CallRecords
    /\ \A fn \in Functions, u \in Users \cup {Null}, a \in Requests \cup {Null} :
           Call(fn, u, a) \in CallRecords
  BY DEF Functions, Idle, Call, CallRecords

(* The functions that go on without their page differ only in `mounted'.   *)
LEMMA LeftIsTyped ==
    ASSUME NEW waiting \in [Calls -> CallRecords]
    PROVE  /\ Left(waiting) \in [Calls -> CallRecords]
           /\ \A c \in Calls : /\ Left(waiting)[c].fn = waiting[c].fn
                               /\ Left(waiting)[c].user = waiting[c].user
                               /\ Left(waiting)[c].arg = waiting[c].arg
                               /\ Left(waiting)[c].current = waiting[c].current
  BY DEF Left, CallRecords

(* The application loaded anew: nothing waits, and a function can begin.   *)
LEMMA NoCallsTyped ==
    NoCalls \in [Calls -> CallRecords] /\ AnyCall \in Calls
  <1>1. NoCalls \in [Calls -> CallRecords]
    BY CallIsTyped DEF NoCalls
  <1>2. AnyCall \in Calls
    BY CallsAssumption, Zenon DEF AnyCall
  <1> QED BY <1>1, <1>2

(* The fresh refs of the pages.                                            *)
LEMMA FreshIsTyped ==
    /\ FreshMe \in [contactOpen : BOOLEAN, passwordOpen : BOOLEAN, saving : BOOLEAN,
                    contactForm : Users \cup {Null}]
    /\ FreshAuth \in [context : Contexts \cup {Null}, loading : BOOLEAN,
                      switchingAccount : BOOLEAN, failed : BOOLEAN]
    /\ FreshAuth.context = Null /\ FreshAuth.loading /\ ~FreshAuth.failed
  BY DEF FreshMe, FreshAuth

-----------------------------------------------------------------------------
(* The application is opened anew at a page other than /authorize.         *)
LEMMA EnterLoginAnew ==
    ASSUME UserInv, NEW continue \in Requests \cup {Null},
           stored' \in Users \cup {Null}, cookie' \in Users \cup {Null},
           profile' = Null, UNCHANGED granted,
           EnterLogin(continue, Null, NoCalls, AnyCall)
    PROVE  UserInv'
  <1>1. TypeOK'
    BY CallIsTyped, NoCallsTyped, FreshIsTyped
       DEF UserInv, TypeOK, EnterLogin, Shows, Functions
  <1>2. ContextInv' /\ CsrfInv' /\ ConsentShowsAddress' /\ AuthorizeShowsACard'
    BY NoCallsTyped, FreshIsTyped
       DEF ContextInv, CsrfInv, ConsentShowsAddress, AuthorizeShowsACard, EnterLogin, Shows,
           NoCalls, Idle, Call
  <1>3. AccountInv'
    BY NoCallsTyped
       DEF AccountInv, EnterLogin, Shows, NoCalls, Idle, Call, LoadFns, LoginFns, SaveFns
  <1>4. ApprovedIsShown'
    BY DEF UserInv, ApprovedIsShown
  <1> QED BY <1>1, <1>2, <1>3, <1>4 DEF UserInv

(* The same for /me.                                                       *)
LEMMA EnterMeAnew ==
    ASSUME UserInv, stored' \in Users \cup {Null}, cookie' \in Users \cup {Null},
           profile' = Null, UNCHANGED granted, EnterMe(NoCalls, AnyCall)
    PROVE  UserInv'
  <1>1. CASE stored' = Null
    BY <1>1, EnterLoginAnew DEF EnterMe
  <1>2. CASE stored' # Null
    <2>1. TypeOK'
      BY <1>2, CallIsTyped, NoCallsTyped, FreshIsTyped
         DEF UserInv, TypeOK, EnterMe, Shows, Functions
    <2>2. ContextInv' /\ CsrfInv' /\ ConsentShowsAddress' /\ AuthorizeShowsACard'
      BY <1>2, NoCallsTyped, FreshIsTyped
         DEF ContextInv, CsrfInv, ConsentShowsAddress, AuthorizeShowsACard, EnterMe, Shows,
             NoCalls, Idle, Call
    <2>3. AccountInv'
      BY <1>2, NoCallsTyped
         DEF AccountInv, EnterMe, Shows, NoCalls, Idle, Call, LoadFns, LoginFns, SaveFns
    <2>4. ApprovedIsShown'
      BY DEF UserInv, ApprovedIsShown
    <2> QED BY <2>1, <2>2, <2>3, <2>4 DEF UserInv
  <1> QED BY <1>1, <1>2

(* GET /oauth2/authorize: the one request for a context is for the         *)
(* address.                                                                *)
LEMMA LoadAuthorizationAnew ==
    ASSUME UserInv, NEW r \in Requests,
           stored' \in Users \cup {Null}, cookie' \in Users \cup {Null},
           UNCHANGED granted, LoadAuthorization(r)
    PROVE  UserInv'
  <1>1. CASE cookie' = Null
    BY <1>1, EnterLoginAnew DEF LoadAuthorization
  <1>2. CASE cookie' # Null
    <2>1. /\ Shows("authorize", r) /\ accessToken' = Null /\ profile' = Null
          /\ calls' = [NoCalls EXCEPT ![AnyCall] = Call("context", cookie', r)]
      BY <1>2 DEF LoadAuthorization, EnterAuthorize
    <2>2. TypeOK'
      BY <2>1, CallIsTyped, NoCallsTyped, FreshIsTyped DEF UserInv, TypeOK, Shows, Functions
    <2>3. ContextInv' /\ CsrfInv' /\ ConsentShowsAddress' /\ AccountInv'
      BY <2>1, NoCallsTyped, FreshIsTyped, UserNullAssumption
         DEF ContextInv, CsrfInv, ConsentShowsAddress, AccountInv, Shows, NoCalls, Idle, Call,
             LoadFns, LoginFns, SaveFns
    <2>4. AuthorizeShowsACard'
      <3>1. calls'[AnyCall].fn = "context" /\ calls'[AnyCall].current
        BY <2>1, NoCallsTyped DEF NoCalls, Call
      <3> QED BY <2>1, <3>1, NoCallsTyped, FreshIsTyped DEF AuthorizeShowsACard, Shows
    <2>5. ApprovedIsShown'
      BY DEF UserInv, ApprovedIsShown
    <2> QED BY <2>2, <2>3, <2>4, <2>5 DEF UserInv
  <1> QED BY <1>1, <1>2

-----------------------------------------------------------------------------
(* Steps that change neither the calls nor what the invariant says of      *)
(* them: those of the other tabs and of the dialogs of /me.                *)
LEMMA QuietStep ==
    ASSUME UserInv, TypeOK', UNCHANGED <<page, address, auth, apiVars, calls, granted>>
    PROVE  UserInv'
  BY DEF UserInv, ContextInv, CsrfInv, AccountInv, ConsentShowsAddress, AuthorizeShowsACard,
      ApprovedIsShown, apiVars

(* The other tabs, and opening and closing the dialogs of /me.             *)
LEMMA QuietSteps ==
    ASSUME UserInv,
           \/ OtherTabLogout \/ \E u \in Users : OtherTabLogin(u)
           \/ OpenContact \/ OpenPassword \/ CloseDialog
    PROVE  UserInv'
  <1>1. CASE OtherTabLogout
    <2>1. TypeOK' BY <1>1 DEF UserInv, TypeOK, OtherTabLogout, routeVars, apiVars
    <2> QED BY <1>1, <2>1, QuietStep DEF OtherTabLogout, routeVars
  <1>2. ASSUME NEW u \in Users, OtherTabLogin(u) PROVE UserInv'
    <2>1. TypeOK' BY <1>2 DEF UserInv, TypeOK, OtherTabLogin, routeVars, apiVars
    <2> QED BY <1>2, <2>1, QuietStep DEF OtherTabLogin, routeVars
  <1>3. CASE OpenContact \/ OpenPassword
    <2>1. TypeOK'
      BY <1>3 DEF UserInv, TypeOK, OpenContact, OpenPassword, browserVars, apiVars
    <2> QED BY <1>3, <2>1, QuietStep DEF OpenContact, OpenPassword
  <1>4. CASE CloseDialog
    <2>1. TypeOK'
      BY <1>4, FreshIsTyped DEF UserInv, TypeOK, CloseDialog, browserVars, apiVars
    <2> QED BY <1>4, <2>1, QuietStep DEF CloseDialog
  <1> QED BY <1>1, <1>2, <1>3, <1>4

(* A function of /login, of the menu or of a dialog begins: it is none for *)
(* a context.                                                              *)
LEMMA BeginKeepsConsent ==
    ASSUME UserInv, NEW fn \in Functions \ {"context", "switchAccount"},
           NEW u \in Users \cup {Null}, Begin(Call(fn, u, Null)),
           page # "authorize", \A c \in Calls : calls[c].fn # "switchAccount",
           UNCHANGED <<page, address, auth, apiVars, granted>>
    PROVE  /\ calls' \in [Calls -> CallRecords]
           /\ ContextInv' /\ CsrfInv' /\ ConsentShowsAddress' /\ AuthorizeShowsACard'
           /\ ApprovedIsShown'
  <1>1. PICK c \in Calls : calls' = [calls EXCEPT ![c] = Call(fn, u, Null)]
    BY DEF Begin
  <1>2. Call(fn, u, Null) \in CallRecords
    BY CallIsTyped
  <1>3. calls' \in [Calls -> CallRecords]
    BY <1>1, <1>2 DEF UserInv, TypeOK
  <1>4. ContextInv'
    BY <1>1 DEF UserInv, TypeOK, ContextInv, Call
  <1>5. CsrfInv' /\ ConsentShowsAddress' /\ AuthorizeShowsACard' /\ ApprovedIsShown'
    BY DEF UserInv, CsrfInv, ConsentShowsAddress, AuthorizeShowsACard, ApprovedIsShown
  <1> QED BY <1>3, <1>4, <1>5

(* submitLogin: no other function of useUserApi runs.                      *)
LEMMA SubmitLoginStep ==
    ASSUME UserInv, NEW u \in Users, SubmitLogin(u)
    PROVE  UserInv'
  <1>1. \A c \in Calls : calls[c].fn \in {"idle", "context"}
    BY DEF SubmitLogin, Loading
  <1>2. /\ calls' \in [Calls -> CallRecords]
        /\ ContextInv' /\ CsrfInv' /\ ConsentShowsAddress' /\ AuthorizeShowsACard'
        /\ ApprovedIsShown'
    BY <1>1, BeginKeepsConsent DEF SubmitLogin, routeVars, Functions
  <1>3. TypeOK'
    BY <1>2 DEF UserInv, TypeOK, SubmitLogin, browserVars, routeVars, apiVars
  <1>4. AccountInv'
    <2>1. PICK c \in Calls : calls' = [calls EXCEPT ![c] = Call("login", u, Null)]
      BY DEF SubmitLogin, Begin
    <2> QED BY <1>1, <2>1
      DEF UserInv, TypeOK, AccountInv, SubmitLogin, routeVars, apiVars, Call, LoadFns, LoginFns,
          SaveFns
  <1> QED BY <1>2, <1>3, <1>4 DEF UserInv

(* exitUser needs a profile, which nobody has on /authorize.               *)
LEMMA ExitUserStep ==
    ASSUME UserInv, ExitUser
    PROVE  UserInv'
  <1>1. page # "authorize" /\ \A c \in Calls : calls[c].fn # "switchAccount"
    BY DEF UserInv, ContextInv, ExitUser
  <1>2. /\ calls' \in [Calls -> CallRecords]
        /\ ContextInv' /\ CsrfInv' /\ ConsentShowsAddress' /\ AuthorizeShowsACard'
        /\ ApprovedIsShown'
    BY <1>1, BeginKeepsConsent DEF ExitUser, routeVars, Functions
  <1>3. TypeOK'
    BY <1>2 DEF UserInv, TypeOK, ExitUser, browserVars, routeVars, apiVars
  <1>4. AccountInv'
    <2>1. PICK c \in Calls : IsIdle(c) /\ calls' = [calls EXCEPT ![c] = Call("logout", Null, Null)]
      BY DEF ExitUser, Begin
    <2> QED BY <2>1
      DEF UserInv, TypeOK, AccountInv, ExitUser, routeVars, apiVars, IsIdle, Call, LoadFns,
          LoginFns, SaveFns
  <1> QED BY <1>2, <1>3, <1>4 DEF UserInv

(* saveContact and savePassword send the tab's token.                      *)
LEMMA SaveStep ==
    ASSUME UserInv, NEW fn \in SaveFns, Save(fn)
    PROVE  UserInv'
  <1>1. page = "me" /\ accessToken # Null
    BY DEF Save, DialogOf
  <1>2. /\ calls' \in [Calls -> CallRecords]
        /\ ContextInv' /\ CsrfInv' /\ ConsentShowsAddress' /\ AuthorizeShowsACard'
        /\ ApprovedIsShown'
    BY <1>1, BeginKeepsConsent DEF UserInv, TypeOK, ContextInv, Save, SaveFns, Functions
  <1>3. TypeOK'
    BY <1>2 DEF UserInv, TypeOK, Save, browserVars, apiVars
  <1>4. AccountInv'
    <2>1. PICK c \in Calls : IsIdle(c) /\ calls' = [calls EXCEPT ![c] = Call(fn, accessToken, Null)]
      BY DEF Save, Begin
    <2> QED BY <1>1, <2>1
      DEF UserInv, TypeOK, AccountInv, Save, apiVars, IsIdle, Call, LoadFns, LoginFns, SaveFns
  <1> QED BY <1>2, <1>3, <1>4 DEF UserInv

-----------------------------------------------------------------------------
(* loadAuthorizationContext on /authorize: the new request is for the      *)
(* address, and no other one is newest any more.                           *)
LEMMA LoadContextStep ==
    ASSUME UserInv, NEW r \in Requests, page = "authorize", address' = r, LoadContext(r),
           UNCHANGED <<browserVars, page, me, apiVars, granted>>
    PROVE  UserInv'
  <1>1. PICK c \in Calls :
            /\ IsIdle(c)
            /\ calls' = [d \in Calls |-> IF d = c THEN Call("context", cookie, r)
                                         ELSE [calls[d] EXCEPT !.current = FALSE]]
            /\ auth' = [auth EXCEPT !.context = Null, !.loading = TRUE, !.failed = FALSE]
    BY DEF LoadContext
  <1>2. /\ calls' \in [Calls -> CallRecords]
        /\ calls'[c] = Call("context", cookie, r)
        /\ \A d \in Calls \ {c} : /\ calls'[d].fn = calls[d].fn /\ calls'[d].user = calls[d].user
                                  /\ calls'[d].arg = calls[d].arg /\ ~calls'[d].current
    <2>1. Call("context", cookie, r) \in CallRecords
      BY CallIsTyped DEF UserInv, TypeOK, Functions
    <2>2. \A d \in Calls : [calls[d] EXCEPT !.current = FALSE] \in CallRecords
      BY DEF UserInv, TypeOK, CallRecords
    <2>3. \A d \in Calls : LET e == [calls[d] EXCEPT !.current = FALSE]
                          IN /\ e.fn = calls[d].fn /\ e.user = calls[d].user
                             /\ e.arg = calls[d].arg /\ ~e.current
      BY DEF UserInv, TypeOK, CallRecords
    <2> QED BY <1>1, <2>1, <2>2, <2>3
  <1>3. /\ auth'.context = Null /\ auth'.loading /\ ~auth'.failed
        /\ auth' \in [context : Contexts \cup {Null}, loading : BOOLEAN,
                      switchingAccount : BOOLEAN, failed : BOOLEAN]
    BY <1>1 DEF UserInv, TypeOK
  <1>4. TypeOK'
    BY <1>2, <1>3 DEF UserInv, TypeOK, browserVars, apiVars
  <1>5. ContextInv'
    BY <1>2, UserNullAssumption DEF UserInv, ContextInv, Call, apiVars
  <1>6. CsrfInv' /\ ConsentShowsAddress' /\ ApprovedIsShown'
    BY <1>3 DEF UserInv, CsrfInv, ConsentShowsAddress, ApprovedIsShown
  <1>7. AuthorizeShowsACard'
    BY <1>2, <1>3 DEF AuthorizeShowsACard, Call
  <1>8. AccountInv'
    <2>1. \A d \in Calls : calls'[d].fn \notin LoginFns \cup LoadFns \cup SaveFns
      BY <1>2 DEF UserInv, ContextInv, Call, LoginFns, LoadFns, SaveFns
    <2>2. accessToken # Null => profile = accessToken
      BY DEF UserInv, ContextInv, AccountInv, LoadFns
    <2> QED BY <2>1, <2>2 DEF AccountInv, apiVars
  <1> QED BY <1>4, <1>5, <1>6, <1>7, <1>8 DEF UserInv

(* switchAccount from the form: the address is there to go on with.        *)
LEMMA SwitchAccountStep ==
    ASSUME UserInv, SwitchAccount
    PROVE  UserInv'
  <1>1. PICK c \in Calls :
            /\ IsIdle(c)
            /\ calls' = [calls EXCEPT ![c] = Call("switchAccount", Null, Null)]
    BY DEF SwitchAccount, Begin
  <1>2. Call("switchAccount", Null, Null) \in CallRecords
    BY CallIsTyped DEF Functions
  <1>3. /\ auth'.context = auth.context /\ auth'.loading = auth.loading
        /\ auth'.failed = auth.failed
        /\ auth' \in [context : Contexts \cup {Null}, loading : BOOLEAN,
                      switchingAccount : BOOLEAN, failed : BOOLEAN]
    BY DEF UserInv, TypeOK, SwitchAccount
  <1>4. TypeOK'
    BY <1>1, <1>2, <1>3 DEF UserInv, TypeOK, SwitchAccount, browserVars, apiVars
  <1>5. ContextInv'
    BY <1>1 DEF UserInv, TypeOK, ContextInv, SwitchAccount, FormShown, Call, apiVars
  <1>6. CsrfInv' /\ ConsentShowsAddress' /\ ApprovedIsShown'
    BY <1>3 DEF UserInv, CsrfInv, ConsentShowsAddress, ApprovedIsShown, SwitchAccount
  <1>7. AuthorizeShowsACard'
    BY <1>1, <1>3 DEF UserInv, TypeOK, AuthorizeShowsACard, SwitchAccount, FormShown, IsIdle, Call
  <1>8. AccountInv'
    BY <1>1 DEF UserInv, TypeOK, AccountInv, SwitchAccount, IsIdle, Call, apiVars, LoginFns,
        LoadFns, SaveFns
  <1> QED BY <1>4, <1>5, <1>6, <1>7, <1>8 DEF UserInv

(* A decision: the form is that of the address, and Core accepts it only   *)
(* for the user the form was made for.                                     *)
LEMMA DecideStep ==
    ASSUME UserInv, NEW approve \in BOOLEAN, Decide(approve)
    PROVE  UserInv'
  <1>1. auth.context \in Contexts /\ auth.context.request = address
    BY DEF UserInv, TypeOK, ConsentShowsAddress, Decide, FormShown
  <1>2. CoreVerifies(auth.context) => cookie = auth.context.user
    BY <1>1 DEF UserInv, CsrfInv, CoreVerifies, Decide, FormShown, Contexts
  <1>3. ApprovedIsShown'
    BY <1>1, <1>2 DEF UserInv, ApprovedIsShown, Decide
  <1>4. granted' \in [subject : Users, request : Requests, user : Users, address : Requests]
                   \cup {Null}
    BY <1>1, <1>2 DEF UserInv, TypeOK, Decide, Contexts
  <1>5. TypeOK'
    BY <1>4, NoCallsTyped, FreshIsTyped DEF UserInv, TypeOK, Decide, Shows, browserVars
  <1>6. ContextInv' /\ CsrfInv' /\ ConsentShowsAddress' /\ AuthorizeShowsACard' /\ AccountInv'
    BY FreshIsTyped DEF ContextInv, CsrfInv, ConsentShowsAddress, AuthorizeShowsACard, AccountInv,
        Decide, Shows, NoCalls, Idle, LoginFns, LoadFns, SaveFns
  <1> QED BY <1>3, <1>5, <1>6 DEF UserInv

-----------------------------------------------------------------------------
(* A function that is none for a context ends where it is: what is said of *)
(* contexts stays true.                                                    *)
LEMMA EndKeepsConsent ==
    ASSUME UserInv, NEW c \in Calls, calls' = Ended(c),
           calls[c].fn \notin {"idle", "context", "switchAccount"},
           UNCHANGED <<page, address, auth, granted>>
    PROVE  /\ calls' \in [Calls -> CallRecords]
           /\ ContextInv' /\ CsrfInv' /\ ConsentShowsAddress' /\ AuthorizeShowsACard'
           /\ ApprovedIsShown'
  <1>1. calls' \in [Calls -> CallRecords]
    BY CallIsTyped DEF UserInv, TypeOK, Ended
  <1>2. ContextInv'
    BY DEF UserInv, TypeOK, ContextInv, Ended, Idle
  <1>3. AuthorizeShowsACard'
    <2>1. \A d \in Calls : calls'[d].fn = "context" /\ calls'[d].current
                          <=> calls[d].fn = "context" /\ calls[d].current
      BY DEF UserInv, TypeOK, Ended, Idle
    <2>2. (\E d \in Calls : calls'[d].fn = "context" /\ calls'[d].current)
          = (\E d \in Calls : calls[d].fn = "context" /\ calls[d].current)
      BY <2>1
    <2> QED BY <2>2 DEF UserInv, AuthorizeShowsACard
  <1>4. CsrfInv' /\ ConsentShowsAddress' /\ ApprovedIsShown'
    BY DEF UserInv, CsrfInv, ConsentShowsAddress, ApprovedIsShown
  <1> QED BY <1>1, <1>2, <1>3, <1>4

(* The token goes, and the functions that go on are some of those before.  *)
LEMMA NoTokenKeepsAccount ==
    ASSUME UserInv, accessToken' = Null,
           \A d \in Calls : calls'[d].fn \in {"idle", calls[d].fn},
           page' # "me" \/ page' = page
    PROVE  AccountInv'
  BY DEF UserInv, AccountInv, LoginFns, LoadFns, SaveFns

(* login: its load is the only function for an account.                    *)
LEMMA LoginAnsweredStep ==
    ASSUME UserInv, NEW c \in Calls, LoginAnswered(c)
    PROVE  UserInv'
  <1>1. calls[c].fn = "login" /\ page # "authorize" /\ page # "me"
    BY DEF UserInv, ContextInv, AccountInv, LoginAnswered, LoginFns
  <1>2. calls' = [calls EXCEPT ![c] = Call("loginLoad", calls[c].user, Null)]
    BY DEF LoginAnswered
  <1>3. calls[c].user \in Users \cup {Null}
    BY DEF UserInv, TypeOK, CallRecords
  <1>4. Call("loginLoad", calls[c].user, Null) \in CallRecords
    BY <1>3, CallIsTyped DEF Functions
  <1>5. TypeOK'
    BY <1>2, <1>3, <1>4 DEF UserInv, TypeOK, LoginAnswered, routeVars
  <1>6. ContextInv'
    BY <1>1, <1>2 DEF UserInv, TypeOK, ContextInv, LoginAnswered, Call, routeVars
  <1>7. CsrfInv' /\ ConsentShowsAddress' /\ AuthorizeShowsACard' /\ ApprovedIsShown'
    BY <1>1 DEF UserInv, CsrfInv, ConsentShowsAddress, AuthorizeShowsACard, ApprovedIsShown,
        LoginAnswered, routeVars
  <1>8. AccountInv'
    BY <1>1, <1>2 DEF UserInv, TypeOK, AccountInv, LoginAnswered, Call, routeVars, LoginFns,
        LoadFns, SaveFns
  <1> QED BY <1>5, <1>6, <1>7, <1>8 DEF UserInv

(* A login that fails leaves no token.                                     *)
LEMMA LoginFailsStep ==
    ASSUME UserInv, NEW c \in Calls, LoginFails(c)
    PROVE  UserInv'
  <1>1. calls[c].fn = "login" /\ calls' = Ended(c) /\ profile' = Null
    BY DEF LoginFails, ClearToken
  <1>2. /\ calls' \in [Calls -> CallRecords]
        /\ ContextInv' /\ CsrfInv' /\ ConsentShowsAddress' /\ AuthorizeShowsACard'
        /\ ApprovedIsShown'
    BY <1>1, EndKeepsConsent DEF LoginFails, routeVars
  <1>3. TypeOK'
    BY <1>2 DEF UserInv, TypeOK, CallRecords, LoginFails, ClearToken, routeVars
  <1>4. AccountInv'
    BY <1>1, NoTokenKeepsAccount DEF UserInv, TypeOK, LoginFails, ClearToken, Ended, Idle, routeVars
  <1> QED BY <1>2, <1>3, <1>4 DEF UserInv

(* saveContact and savePassword end; a profile they bring is the token's.  *)
LEMMA SavedStep ==
    ASSUME UserInv, NEW c \in Calls, Saved(c)
    PROVE  UserInv'
  <1>1. calls[c].fn \in SaveFns /\ calls' = Ended(c)
    BY DEF Saved, SaveFns
  <1>2. /\ calls' \in [Calls -> CallRecords]
        /\ ContextInv' /\ CsrfInv' /\ ConsentShowsAddress' /\ AuthorizeShowsACard'
        /\ ApprovedIsShown'
    BY <1>1, EndKeepsConsent DEF Saved, SaveFns
  <1>3. TypeOK'
    BY <1>2, FreshIsTyped DEF UserInv, TypeOK, CallRecords, Saved, SaveDone, browserVars
  <1>4. AccountInv'
    BY <1>1 DEF UserInv, TypeOK, AccountInv, Saved, Ended, Idle, LoginFns, LoadFns, SaveFns
  <1> QED BY <1>2, <1>3, <1>4 DEF UserInv

(* A save that fails keeps the token, or drops it with the profile.        *)
LEMMA SaveFailsStep ==
    ASSUME UserInv, NEW c \in Calls, NEW unauthorized \in BOOLEAN, SaveFails(c, unauthorized)
    PROVE  UserInv'
  <1>1. calls[c].fn \in SaveFns /\ calls' = Ended(c)
    BY DEF SaveFails, SaveFns
  <1>2. /\ calls' \in [Calls -> CallRecords]
        /\ ContextInv' /\ CsrfInv' /\ ConsentShowsAddress' /\ AuthorizeShowsACard'
        /\ ApprovedIsShown'
    BY <1>1, EndKeepsConsent DEF SaveFails, SaveFns
  <1>3. TypeOK'
    BY <1>2, FreshIsTyped DEF UserInv, TypeOK, SaveFails, SaveDone, ClearToken, apiVars
  <1>4. AccountInv'
    BY <1>1 DEF UserInv, TypeOK, AccountInv, SaveFails, ClearToken, apiVars, Ended, Idle, LoginFns,
        LoadFns, SaveFns
  <1> QED BY <1>2, <1>3, <1>4 DEF UserInv

-----------------------------------------------------------------------------
(* A page other than /authorize is entered by a function that ends; the    *)
(* functions that go on are those before.                                  *)
LEMMA ElsewhereKeepsConsent ==
    ASSUME UserInv, page' \in {"login", "me"}, auth' = FreshAuth, UNCHANGED granted,
           \A d \in Calls : calls'[d].fn \in {"context", "switchAccount"}
                               => calls'[d].fn = calls[d].fn /\ calls'[d].arg = calls[d].arg,
           (\E d \in Calls : calls[d].fn = "switchAccount") =>
               /\ page' # "me" /\ address' # Null /\ profile' = Null
               /\ \A d \in Calls : calls'[d].fn \in {"idle", "context", "switchAccount"}
    PROVE  /\ ContextInv' /\ CsrfInv' /\ ConsentShowsAddress' /\ AuthorizeShowsACard'
           /\ ApprovedIsShown'
  <1>1. ContextInv'
    BY DEF UserInv, ContextInv
  <1>2. CsrfInv' /\ ConsentShowsAddress' /\ AuthorizeShowsACard' /\ ApprovedIsShown'
    BY FreshIsTyped
       DEF UserInv, CsrfInv, ConsentShowsAddress, AuthorizeShowsACard, ApprovedIsShown
  <1> QED BY <1>1, <1>2

(* The functions that go on when the one in c ends and its page is left.   *)
LEMMA EndedAndLeft ==
    ASSUME UserInv, NEW c \in Calls
    PROVE  /\ Left(Ended(c)) \in [Calls -> CallRecords]
           /\ Left(Ended(c))[c].fn = "idle"
           /\ \A d \in Calls \ {c} : /\ Left(Ended(c))[d].fn = calls[d].fn
                                     /\ Left(Ended(c))[d].user = calls[d].user
                                     /\ Left(Ended(c))[d].arg = calls[d].arg
                                     /\ Left(Ended(c))[d].current = calls[d].current
  <1>1. Ended(c) \in [Calls -> CallRecords]
    BY CallIsTyped DEF UserInv, TypeOK, Ended
  <1>2. Ended(c)[c].fn = "idle" /\ \A d \in Calls \ {c} : Ended(c)[d] = calls[d]
    BY DEF UserInv, TypeOK, Ended, Idle
  <1> QED BY <1>1, <1>2, LeftIsTyped

(* navigateTo('/login') after the token is gone.                           *)
LEMMA GoToLoginStep ==
    ASSUME UserInv, NEW c \in Calls, calls[c].fn \notin {"idle", "context", "switchAccount"},
           profile' = Null, stored' = Null, cookie' \in Users \cup {Null}, UNCHANGED granted,
           GoToLogin(c, Null)
    PROVE  UserInv'
  <1>1. CASE page = "login"
    <2>1. /\ address' = Null /\ calls' = Ended(c) /\ accessToken' = Null
          /\ UNCHANGED <<page, me, auth>>
      BY <1>1 DEF GoToLogin
    <2>2. calls' \in [Calls -> CallRecords]
      BY <2>1, CallIsTyped DEF UserInv, TypeOK, Ended
    <2>3. TypeOK'
      BY <2>1, <2>2 DEF UserInv, TypeOK
    <2>4. ContextInv'
      BY <1>1, <2>1 DEF UserInv, TypeOK, ContextInv, Ended, Idle
    <2>5. CsrfInv' /\ ConsentShowsAddress' /\ AuthorizeShowsACard' /\ ApprovedIsShown'
      BY <1>1, <2>1
         DEF UserInv, CsrfInv, ConsentShowsAddress, AuthorizeShowsACard, ApprovedIsShown
    <2>6. AccountInv'
      BY <2>1, NoTokenKeepsAccount DEF UserInv, TypeOK, Ended, Idle
    <2> QED BY <2>3, <2>4, <2>5, <2>6 DEF UserInv
  <1>2. CASE page # "login"
    <2>1. /\ Shows("login", Null) /\ accessToken' = Null /\ calls' = Left(Ended(c))
      BY <1>2 DEF GoToLogin, EnterLogin
    <2>2. TypeOK'
      BY <2>1, EndedAndLeft, FreshIsTyped DEF UserInv, TypeOK, Shows
    <2>3. \A d \in Calls : calls[d].fn # "switchAccount"
      BY DEF UserInv, ContextInv
    <2>4. /\ ContextInv' /\ CsrfInv' /\ ConsentShowsAddress' /\ AuthorizeShowsACard'
          /\ ApprovedIsShown'
      <3>1. \A d \in Calls : calls'[d].fn \in {"context", "switchAccount"}
                                => calls'[d].fn = calls[d].fn /\ calls'[d].arg = calls[d].arg
        BY <2>1, EndedAndLeft
      <3>2. page' = "login" /\ auth' = FreshAuth
        BY <2>1 DEF Shows
      <3> QED BY <2>3, <3>1, <3>2, ElsewhereKeepsConsent
    <2>5. AccountInv'
      BY <2>1, EndedAndLeft, NoTokenKeepsAccount DEF Shows
    <2> QED BY <2>2, <2>4, <2>5 DEF UserInv
  <1> QED BY <1>1, <1>2

(* The catch of loadMe.                                                    *)
LEMMA LoadMeFailsStep ==
    ASSUME UserInv, NEW c \in Calls, LoadMeFails(c)
    PROVE  UserInv'
  <1>1. CASE calls[c].fn = "meMounted"
    BY <1>1, GoToLoginStep DEF LoadMeFails, UserInv, TypeOK
  <1>2. CASE calls[c].fn # "meMounted"
    <2>1. /\ calls[c].fn \in {"loginLoad", "loginMounted"} /\ calls' = Ended(c)
          /\ accessToken' = Null /\ profile' = Null /\ stored' = Null
          /\ UNCHANGED <<cookie, granted, routeVars>>
      BY <1>2 DEF LoadMeFails
    <2>2. /\ calls' \in [Calls -> CallRecords]
          /\ ContextInv' /\ CsrfInv' /\ ConsentShowsAddress' /\ AuthorizeShowsACard'
          /\ ApprovedIsShown'
      BY <2>1, EndKeepsConsent DEF routeVars
    <2>3. TypeOK'
      BY <2>1, <2>2 DEF UserInv, TypeOK, routeVars
    <2>4. AccountInv'
      BY <2>1, NoTokenKeepsAccount DEF UserInv, TypeOK, Ended, Idle, routeVars
    <2> QED BY <2>2, <2>3, <2>4 DEF UserInv
  <1> QED BY <1>1, <1>2

(* An account switch whose page has gone leaves the application.           *)
LEMMA SwitchLeavesStep ==
    ASSUME UserInv, cookie' \in Users \cup {Null}, stored' = Null, profile' = Null,
           UNCHANGED granted, Shows("away", Null), calls' = NoCalls, accessToken' = Null
    PROVE  UserInv'
  <1>1. TypeOK'
    BY NoCallsTyped, FreshIsTyped DEF UserInv, TypeOK, Shows
  <1>2. ApprovedIsShown'
    BY DEF UserInv, ApprovedIsShown
  <1>3. ContextInv' /\ CsrfInv' /\ ConsentShowsAddress' /\ AuthorizeShowsACard' /\ AccountInv'
    BY FreshIsTyped DEF ContextInv, CsrfInv, ConsentShowsAddress, AuthorizeShowsACard, AccountInv,
        Shows, NoCalls, Idle, LoginFns, LoadFns, SaveFns
  <1> QED BY <1>1, <1>2, <1>3 DEF UserInv

(* logout: an account switch on its page still has the request to go on    *)
(* with.                                                                   *)
LEMMA LogoutAnsweredStep ==
    ASSUME UserInv, NEW c \in Calls, NEW reached \in BOOLEAN, LogoutAnswered(c, reached)
    PROVE  UserInv'
  <1>1. cookie' \in Users \cup {Null} /\ stored' = Null /\ profile' = Null /\ UNCHANGED granted
    BY DEF UserInv, TypeOK, LogoutAnswered
  <1>2. CASE calls[c].fn = "logout"
    BY <1>1, <1>2, GoToLoginStep DEF LogoutAnswered
  <1>3. CASE calls[c].fn = "switchAccount"
    <2>1. address \in Requests
      BY <1>3 DEF UserInv, TypeOK, ContextInv
    <2>2. SwitchAtCore
      BY <1>3 DEF LogoutAnswered
    <2>3. CASE LoadAuthorization(address)
      BY <1>1, <2>1, <2>3, LoadAuthorizationAnew
    <2>4. CASE Shows("away", Null) /\ calls' = NoCalls /\ accessToken' = Null
      BY <1>1, <2>4, SwitchLeavesStep
    <2> QED BY <2>2, <2>3, <2>4 DEF SwitchAtCore
  <1> QED BY <1>2, <1>3 DEF LogoutAnswered

-----------------------------------------------------------------------------
(* loadMe: the profile is that of the tab's token, or /me loads it anew.   *)
LEMMA MeLoadedStep ==
    ASSUME UserInv, NEW c \in Calls, MeLoaded(c)
    PROVE  UserInv'
  <1>1. UNCHANGED <<browserVars, granted>> /\ calls[c].fn \in LoadFns
    BY DEF MeLoaded, LoadFns
  <1>2. stored' \in Users \cup {Null} /\ cookie' \in Users \cup {Null}
    BY <1>1 DEF UserInv, TypeOK, browserVars
  <1>3. CASE calls[c].fn = "loginLoad" /\ address # Null
    <2>1. LoadAuthorization(address) /\ address \in Requests
      BY <1>3 DEF UserInv, TypeOK, MeLoaded, AuthorizationContinue
    <2> QED BY <1>1, <1>2, <2>1, LoadAuthorizationAnew
  <1>4. CASE calls[c].fn = "meMounted"
    <2>1. /\ profile' = calls[c].user /\ calls' = Ended(c)
          /\ UNCHANGED <<routeVars, accessToken>>
      BY <1>4 DEF MeLoaded
    <2>2. /\ calls' \in [Calls -> CallRecords]
          /\ ContextInv' /\ CsrfInv' /\ ConsentShowsAddress' /\ AuthorizeShowsACard'
          /\ ApprovedIsShown'
      BY <1>1, <1>4, <2>1, EndKeepsConsent DEF routeVars
    <2>3. TypeOK'
      BY <1>1, <2>1, <2>2 DEF UserInv, TypeOK, CallRecords, browserVars, routeVars
    <2>4. AccountInv'
      BY <1>4, <2>1 DEF UserInv, TypeOK, AccountInv, Ended, Idle, routeVars, LoginFns, LoadFns,
          SaveFns
    <2> QED BY <2>2, <2>3, <2>4 DEF UserInv
  <1>5. CASE calls[c].fn \in {"loginLoad", "loginMounted"} /\ profile' = calls[c].user
             /\ EnterMe(Left(Ended(c)), c)
    <2> DEFINE waiting == Left(Ended(c))
    <2>1. \A d \in Calls : /\ calls[d].fn # "switchAccount"
                           /\ waiting[d].fn \notin LoginFns \cup LoadFns \cup SaveFns
      BY <1>5, EndedAndLeft DEF UserInv, ContextInv, AccountInv, LoginFns, LoadFns, SaveFns
    <2>2. calls[c].user \in Users \cup {Null}
      BY DEF UserInv, TypeOK, CallRecords
    <2>3. auth' = FreshAuth /\ me' = FreshMe /\ address' = Null /\ accessToken' = stored'
      BY <1>5 DEF EnterMe, EnterLogin, Shows
    <2>4. \/ stored' = Null /\ page' = "login" /\ calls' = waiting
          \/ /\ stored' # Null /\ page' = "me"
             /\ calls' = [waiting EXCEPT ![c] = Call("meMounted", stored', Null)]
      BY <1>5 DEF EnterMe, EnterLogin, Shows
    <2>5. calls' \in [Calls -> CallRecords]
      <3>1. Call("meMounted", stored', Null) \in CallRecords
        BY <1>2, CallIsTyped DEF Functions
      <3> QED BY <2>4, <3>1, EndedAndLeft
    <2>6. TypeOK'
      BY <1>1, <1>2, <1>5, <2>2, <2>3, <2>4, <2>5, FreshIsTyped DEF UserInv, TypeOK
    <2>7. \A d \in Calls : calls'[d].fn \in {"context", "switchAccount"}
                              => calls'[d].fn = calls[d].fn /\ calls'[d].arg = calls[d].arg
      BY <2>4, EndedAndLeft DEF Call
    <2>8. /\ ContextInv' /\ CsrfInv' /\ ConsentShowsAddress' /\ AuthorizeShowsACard'
          /\ ApprovedIsShown'
      BY <1>1, <2>1, <2>3, <2>4, <2>7, ElsewhereKeepsConsent
    <2>9. AccountInv'
      <3>1. CASE stored' = Null
        BY <2>1, <2>3, <2>4, <3>1 DEF AccountInv
      <3>2. CASE stored' # Null
        <4>1. calls'[c].fn = "meMounted" /\ calls'[c].user = accessToken'
          BY <2>3, <2>4, <3>2, EndedAndLeft DEF Call
        <4>2. \A d \in Calls \ {c} : calls'[d].fn \notin LoginFns \cup LoadFns \cup SaveFns
          BY <2>1, <2>4, <3>2, EndedAndLeft
        <4> QED BY <4>1, <4>2 DEF AccountInv, LoginFns, LoadFns, SaveFns
      <3> QED BY <3>1, <3>2
    <2> QED BY <2>6, <2>8, <2>9 DEF UserInv
  <1> QED BY <1>1, <1>3, <1>4, <1>5 DEF MeLoaded, AuthorizationContinue, LoadFns

-----------------------------------------------------------------------------
(* A request for a context ends where it is; it was the only newest one on *)
(* /authorize, and auth is settled exactly then.                           *)
LEMMA ContextEnds ==
    ASSUME UserInv, NEW c \in Calls, calls[c].fn = "context", calls' = Ended(c),
           UNCHANGED <<browserVars, page, address, me, apiVars, granted>>,
           auth' \in [context : Contexts \cup {Null}, loading : BOOLEAN,
                     switchingAccount : BOOLEAN, failed : BOOLEAN],
           ~calls[c].current => UNCHANGED auth,
           calls[c].current => /\ ~auth'.loading /\ (auth'.failed \/ auth'.context # Null)
                               /\ \/ auth'.context = auth.context
                                  \/ auth'.context.request = calls[c].arg,
           CsrfInv'
    PROVE  UserInv'
  <1>1. calls' \in [Calls -> CallRecords]
    BY CallIsTyped DEF UserInv, TypeOK, Ended
  <1>2. calls'[c].fn = "idle" /\ \A d \in Calls \ {c} : calls'[d] = calls[d]
    BY DEF UserInv, TypeOK, Ended, Idle
  <1>3. TypeOK'
    BY <1>1 DEF UserInv, TypeOK, browserVars, apiVars
  <1>4. ContextInv'
    BY <1>2 DEF UserInv, ContextInv, apiVars
  <1>5. AccountInv'
    BY <1>2 DEF UserInv, AccountInv, apiVars, LoginFns, LoadFns, SaveFns
  <1>6. ConsentShowsAddress' /\ ApprovedIsShown'
    BY DEF UserInv, ContextInv, ConsentShowsAddress, ApprovedIsShown
  <1>7. AuthorizeShowsACard'
    <2>1. CASE page = "authorize" /\ calls[c].current
      <3>1. ~\E d \in Calls : calls'[d].fn = "context" /\ calls'[d].current
        BY <1>2, <2>1 DEF UserInv, ContextInv
      <3> QED BY <2>1, <3>1 DEF AuthorizeShowsACard
    <2>2. CASE page = "authorize" /\ ~calls[c].current
      <3>1. (\E d \in Calls : calls'[d].fn = "context" /\ calls'[d].current)
            = (\E d \in Calls : calls[d].fn = "context" /\ calls[d].current)
        BY <1>2, <2>2
      <3> QED BY <2>2, <3>1 DEF UserInv, AuthorizeShowsACard
    <2> QED BY <2>1, <2>2 DEF AuthorizeShowsACard
  <1> QED BY <1>3, <1>4, <1>5, <1>6, <1>7 DEF UserInv

(* The newest answer brings a context for the address.                     *)
LEMMA ContextAnsweredStep ==
    ASSUME UserInv, NEW c \in Calls, ContextAnswered(c)
    PROVE  UserInv'
  <1>1. calls[c].user \in Users /\ calls[c].arg \in Requests
    BY DEF UserInv, TypeOK, ContextInv, CallRecords, ContextAnswered
  <1>2. CASE ~calls[c].current
    <2>1. UNCHANGED auth
      BY <1>2 DEF ContextAnswered
    <2> QED BY <1>2, <2>1, ContextEnds DEF UserInv, TypeOK, CsrfInv, ContextAnswered
  <1>3. CASE calls[c].current
    <2> DEFINE answer == [request |-> calls[c].arg, user |-> calls[c].user,
                          csrf |-> [user |-> calls[c].user, request |-> calls[c].arg]]
    <2>1. answer \in Contexts /\ answer # Null
      <3>1. answer \in Contexts
        BY <1>1 DEF Contexts
      <3>2. answer # Null
        BY <3>1, ContextNullAssumption
      <3> QED BY <3>1, <3>2
    <2>2. auth' = [auth EXCEPT !.loading = FALSE, !.context = answer]
      BY <1>3 DEF ContextAnswered
    <2> HIDE DEF answer
    <2>3. /\ auth' \in [context : Contexts \cup {Null}, loading : BOOLEAN,
                        switchingAccount : BOOLEAN, failed : BOOLEAN]
          /\ ~auth'.loading /\ auth'.context = answer
      BY <2>1, <2>2 DEF UserInv, TypeOK
    <2>4. /\ answer.request = calls[c].arg
          /\ answer.csrf = [user |-> answer.user, request |-> answer.request]
      BY DEF answer
    <2>5. CsrfInv'
      BY <2>3, <2>4 DEF CsrfInv
    <2> QED BY <1>3, <2>1, <2>3, <2>4, <2>5, ContextEnds DEF ContextAnswered
  <1> QED BY <1>2, <1>3 DEF UserInv, TypeOK, CallRecords

(* The newest failure shows the error card.                                *)
LEMMA ContextFailsStep ==
    ASSUME UserInv, NEW c \in Calls, ContextFails(c)
    PROVE  UserInv'
  <1>1. CASE ~calls[c].current
    <2>1. UNCHANGED auth
      BY <1>1 DEF ContextFails
    <2> QED BY <1>1, <2>1, ContextEnds DEF UserInv, TypeOK, CsrfInv, ContextFails
  <1>2. CASE calls[c].current
    <2>1. /\ auth' \in [context : Contexts \cup {Null}, loading : BOOLEAN,
                        switchingAccount : BOOLEAN, failed : BOOLEAN]
          /\ ~auth'.loading /\ auth'.failed /\ auth'.context = auth.context
      BY <1>2 DEF UserInv, TypeOK, ContextFails
    <2>2. CsrfInv'
      BY <2>1 DEF UserInv, CsrfInv
    <2> QED BY <1>2, <2>1, <2>2, ContextEnds DEF ContextFails
  <1> QED BY <1>1, <1>2

(* 401: /login keeps the token, and the functions that go on.              *)
LEMMA ContextUnauthorizedStep ==
    ASSUME UserInv, NEW c \in Calls, ContextUnauthorized(c)
    PROVE  UserInv'
  <1>1. CASE ~calls[c].current
    <2>1. calls' = Ended(c) /\ UNCHANGED <<routeVars, accessToken>>
      BY <1>1 DEF ContextUnauthorized
    <2>2. auth \in [context : Contexts \cup {Null}, loading : BOOLEAN,
                    switchingAccount : BOOLEAN, failed : BOOLEAN]
      BY DEF UserInv, TypeOK
    <2>3. CsrfInv'
      BY <2>1 DEF UserInv, CsrfInv, routeVars
    <2> QED BY <1>1, <2>1, <2>2, <2>3, ContextEnds DEF ContextUnauthorized, routeVars, apiVars
  <1>2. CASE calls[c].current
    <2>1. calls[c].arg \in Requests
      BY DEF UserInv, TypeOK, ContextInv, CallRecords, ContextUnauthorized
    <2>2. /\ page' = "login" /\ address' = calls[c].arg /\ me' = FreshMe /\ auth' = FreshAuth
          /\ calls' = Left(Ended(c))
          /\ UNCHANGED <<accessToken, profile, browserVars, granted>>
      BY <1>2, <2>1, UserNullAssumption DEF ContextUnauthorized, EnterLogin, Shows
    <2>3. TypeOK'
      BY <2>1, <2>2, EndedAndLeft, FreshIsTyped DEF UserInv, TypeOK, browserVars
    <2>4. \A d \in Calls : calls'[d].fn \in {"context", "switchAccount"}
                              => calls'[d].fn = calls[d].fn /\ calls'[d].arg = calls[d].arg
      BY <2>2, EndedAndLeft
    <2>5. (\E d \in Calls : calls[d].fn = "switchAccount") =>
              /\ page' # "me" /\ address' # Null /\ profile' = Null
              /\ \A d \in Calls : calls'[d].fn \in {"idle", "context", "switchAccount"}
      BY <2>1, <2>2, EndedAndLeft, UserNullAssumption DEF UserInv, ContextInv
    <2>6. /\ ContextInv' /\ CsrfInv' /\ ConsentShowsAddress' /\ AuthorizeShowsACard'
          /\ ApprovedIsShown'
      BY <2>2, <2>4, <2>5, ElsewhereKeepsConsent
    <2>7. AccountInv'
      <3>1. calls[c].fn = "context"
        BY DEF ContextUnauthorized
      <3>2. calls'[c].fn = "idle" /\ \A d \in Calls \ {c} : /\ calls'[d].fn = calls[d].fn
                                                            /\ calls'[d].user = calls[d].user
        BY <2>2, EndedAndLeft
      <3> QED BY <2>2, <3>1, <3>2 DEF UserInv, AccountInv, LoginFns, LoadFns, SaveFns
    <2> QED BY <2>3, <2>6, <2>7 DEF UserInv
  <1> QED BY <1>1, <1>2

-----------------------------------------------------------------------------
(* Nothing is open and nothing waits.                                      *)
LEMMA UserInvInit == Init => UserInv
  <1> SUFFICES ASSUME Init PROVE UserInv
    OBVIOUS
  <1>1. calls \in [Calls -> CallRecords] /\ \A c \in Calls : calls[c].fn = "idle"
    BY CallIsTyped DEF Init, Idle
  <1>2. TypeOK
    BY <1>1, FreshIsTyped DEF Init, TypeOK
  <1>3. ContextInv /\ AccountInv
    BY <1>1 DEF Init, ContextInv, AccountInv, LoginFns, LoadFns, SaveFns
  <1>4. CsrfInv /\ ConsentShowsAddress /\ AuthorizeShowsACard /\ ApprovedIsShown
    BY FreshIsTyped DEF Init, CsrfInv, ConsentShowsAddress, AuthorizeShowsACard, ApprovedIsShown
  <1> QED BY <1>2, <1>3, <1>4 DEF UserInv

(* Every step keeps the invariant, one action after the other.             *)
LEMMA UserInvStep == UserInv /\ [Next]_vars => UserInv'
  <1> SUFFICES ASSUME UserInv, [Next]_vars PROVE UserInv'
    OBVIOUS
  <1>1. CASE UNCHANGED vars
    <2>1. TypeOK'
      BY <1>1 DEF UserInv, TypeOK, vars, browserVars, routeVars, apiVars
    <2> QED BY <1>1, <2>1, QuietStep DEF vars, routeVars
  <1>2. CASE OpenLogin
    BY <1>2, EnterLoginAnew DEF UserInv, TypeOK, OpenLogin, browserVars
  <1>3. CASE OpenMe
    BY <1>3, EnterMeAnew DEF UserInv, TypeOK, OpenMe, browserVars
  <1>4. ASSUME NEW r \in Requests, OpenAuthorization(r) PROVE UserInv'
    BY <1>4, LoadAuthorizationAnew DEF UserInv, TypeOK, OpenAuthorization, browserVars
  <1>5. ASSUME NEW r \in Requests, ChangeAddress(r) PROVE UserInv'
    BY <1>5, LoadContextStep DEF ChangeAddress
  <1>6. CASE Retry
    <2>1. address \in Requests /\ page = "authorize" /\ LoadContext(address)
          /\ UNCHANGED <<browserVars, page, address, me, apiVars, granted>>
      BY <1>6 DEF UserInv, TypeOK, ContextInv, Retry
    <2> QED BY <2>1, LoadContextStep
  <1>7. ASSUME NEW u \in Users, SubmitLogin(u) PROVE UserInv'
    BY <1>7, SubmitLoginStep
  <1>8. CASE ExitUser
    BY <1>8, ExitUserStep
  <1>9. CASE OpenContact \/ OpenPassword \/ CloseDialog \/ OtherTab
    BY <1>9, QuietSteps DEF OtherTab
  <1>10. ASSUME NEW fn \in {"updateContact", "changePassword"}, Save(fn) PROVE UserInv'
    BY <1>10, SaveStep DEF SaveFns
  <1>11. CASE SwitchAccount
    BY <1>11, SwitchAccountStep
  <1>12. ASSUME NEW approve \in BOOLEAN, Decide(approve) PROVE UserInv'
    BY <1>12, DecideStep
  <1>13. ASSUME NEW c \in Calls, Answer(c) PROVE UserInv'
    <2>1. CASE LoginAnswered(c) \/ LoginFails(c) \/ MeLoaded(c) \/ LoadMeFails(c)
      BY <2>1, LoginAnsweredStep, LoginFailsStep, MeLoadedStep, LoadMeFailsStep
    <2>2. ASSUME NEW reached \in BOOLEAN, LogoutAnswered(c, reached) PROVE UserInv'
      BY <2>2, LogoutAnsweredStep
    <2>3. CASE Saved(c)
      BY <2>3, SavedStep
    <2>4. ASSUME NEW unauthorized \in BOOLEAN, SaveFails(c, unauthorized) PROVE UserInv'
      BY <2>4, SaveFailsStep
    <2>5. CASE ContextAnswered(c) \/ ContextUnauthorized(c) \/ ContextFails(c)
      BY <2>5, ContextAnsweredStep, ContextUnauthorizedStep, ContextFailsStep
    <2> QED BY <1>13, <2>1, <2>2, <2>3, <2>4, <2>5 DEF Answer
  <1> QED BY <1>1, <1>2, <1>3, <1>4, <1>5, <1>6, <1>7, <1>8, <1>9, <1>10, <1>11, <1>12, <1>13
        DEF Next, User

(* The user pages, with the functions of useUserApi that outlive them,     *)
(* keep UserInv, whatever the other tabs do and in whatever order answers  *)
(* come.                                                                   *)
THEOREM UserPagesInvariant == Spec => []UserInv
  BY UserInvInit, UserInvStep, PTL DEF Spec

(* Core grants only what the consent form showed, to the user it showed it *)
(* to (authorize.vue, confirm_authorization).                              *)
THEOREM ConsentIsInformed == Spec => []ApprovedIsShown
  <1>1. UserInv => ApprovedIsShown
    BY DEF UserInv
  <1> QED BY <1>1, UserPagesInvariant, PTL

(* The consent form is that of the address in the browser, whichever       *)
(* answers of earlier addresses arrive late (loadAuthorizationContext).    *)
THEOREM ConsentIsOfTheAddress == Spec => []ConsentShowsAddress
  <1>1. UserInv => ConsentShowsAddress
    BY DEF UserInv
  <1> QED BY <1>1, UserPagesInvariant, PTL

(* /authorize always shows one of its cards, and is loading exactly while  *)
(* its newest request runs (loadAuthorizationContext).                     *)
THEOREM AuthorizeIsNeverBlank == Spec => []AuthorizeShowsACard
  <1>1. UserInv => AuthorizeShowsACard
    BY DEF UserInv
  <1> QED BY <1>1, UserPagesInvariant, PTL

(* A token at rest comes with the profile of its user (useUserApi).        *)
THEOREM TokensHaveTheirProfile == Spec => []TokenHasItsProfile
  <1>1. UserInv => TokenHasItsProfile
    BY DEF UserInv, AccountInv, TokenHasItsProfile, Loading, LoadFns
  <1> QED BY <1>1, UserPagesInvariant, PTL
=============================================================================
