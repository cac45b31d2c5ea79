---------------------------- MODULE OidcCodeFlow ----------------------------
(***************************************************************************)
(* The authorization code flow of the OIDC provider: a user logs in, is    *)
(* shown a confirmation page with a CSRF token and approves, which stores  *)
(* an authorization code; a client exchanges the code for tokens.  All     *)
(* handlers run at once, over PostgreSQL at READ COMMITTED, with the       *)
(* management handlers of OauthClients and the writers of users.           *)
(*                                                                         *)
(* An exchange deletes the code, then reads the client and then the user   *)
(* FOR UPDATE, in one transaction: codeLock, clientLock and userLock are   *)
(* the row locks.  A user's row is replaced by DELETE and INSERT in one    *)
(* transaction; the writers of users are one at a time, since each holds   *)
(* the row of sync_metadata first (StoreTransactions).                     *)
(*                                                                         *)
(* A code stands for its own digest.  That issuer, redirect URI and PKCE   *)
(* verifier of a token request agree with the code is one Boolean, bound.  *)
(***************************************************************************)
EXTENDS OauthClients, FiniteSets

CONSTANTS
    Users,
    Codes,         \* authorization codes: random, so stored at most once
    Approvals,     \* confirmation requests
    UserWriter,    \* the transaction that writes users holds a lock
    SessionTtl, CsrfTtl, CodeTtl,
    CleanupLimit,  \* AUTHORIZATION_CODE_CLEANUP_LIMIT
    MaxTime        \* bound: the clock stops here

ASSUME FlowAssumption ==
    /\ UserWriter \notin Exchanges \cup {Nobody}
    /\ Nobody \notin Users \cup Codes
    /\ {SessionTtl, CsrfTtl, CodeTtl, CleanupLimit} \subseteq Nat \ {0}
    /\ MaxTime \in Nat

VARIABLES
    now,
    session,     \* when the SSO cookie of each user expires
    userStatus, userLock, writer,
    csrf,        \* the CSRF tokens issued
    approval,    \* each confirmation request
    codes, codeLock,
    exchange,    \* each token request
    tokens,      \* how many token responses a code has had
    spent        \* the codes that a token request was answered about

userVars == <<userStatus, userLock, writer>>
codeVars == <<codes, codeLock, tokens, spent>>
vars == <<clientVars, now, session, userVars, csrf, approval, codeVars, exchange>>

Times == 0 .. MaxTime + CodeTtl + SessionTtl + CsrfTtl
UserStates == {"Absent", "Active", "Disabled"}

Csrf == [user : Users, client : Clients, scopes : SUBSET Scopes, expires : Times]

Approval ==
    [pc : {"idle", "user", "list", "delete", "store"}, user : Users \cup {Nobody},
     client : Clients \cup {Nobody}, scopes : SUBSET Scopes, time : Times,
     old : SUBSET Codes]
NoApproval ==
    [pc |-> "idle", user |-> Nobody, client |-> Nobody, scopes |-> {}, time |-> 0,
     old |-> {}]

CodeRow ==
    [state : {"unused", "stored", "gone"}, client : Clients \cup {Nobody},
     user : Users \cup {Nobody}, scopes : SUBSET Scopes, expires : Times]
NoCode ==
    [state |-> "unused", client |-> Nobody, user |-> Nobody, scopes |-> {}, expires |-> 0]

Exchange ==
    [pc : {"idle", "destroy", "take", "client", "user", "wait", "commit"},
     code : Codes \cup {Nobody}, client : Clients \cup {Nobody}, secret : Secrets,
     bound : BOOLEAN, time : Times, row : ClientRow, status : UserStates]
NoExchange ==
    [pc |-> "idle", code |-> Nobody, client |-> Nobody, secret |-> 0,
     bound |-> FALSE, time |-> 0, row |-> NoRow, status |-> "Absent"]

Writer ==
    [pc : {"idle", "codes", "commit"}, user : Users \cup {Nobody},
     status : UserStates, doomed : SUBSET Codes]
NoWriter == [pc |-> "idle", user |-> Nobody, status |-> "Absent", doomed |-> {}]

TypeOK ==
    /\ ClientTypeOK
    /\ now \in 0 .. MaxTime
    /\ session \in [Users -> Times]
    /\ userStatus \in [Users -> UserStates]
    /\ userLock \in [Users -> Exchanges \cup {Nobody, UserWriter}]
    /\ writer \in Writer
    /\ csrf \subseteq Csrf
    /\ approval \in [Approvals -> Approval]
    /\ codes \in [Codes -> CodeRow]
    /\ codeLock \in [Codes -> Exchanges \cup {Nobody, UserWriter}]
    /\ exchange \in [Exchanges -> Exchange]
    /\ tokens \in [Codes -> Nat]
    /\ spent \subseteq Codes

Init ==
    /\ ClientInit
    /\ now = 0
    /\ session = [u \in Users |-> 0]
    /\ userStatus = [u \in Users |-> "Absent"]
    /\ userLock = [u \in Users |-> Nobody]
    /\ writer = NoWriter
    /\ csrf = {}
    /\ approval = [a \in Approvals |-> NoApproval]
    /\ codes = [k \in Codes |-> NoCode]
    /\ codeLock = [k \in Codes |-> Nobody]
    /\ exchange = [e \in Exchanges |-> NoExchange]
    /\ tokens = [k \in Codes |-> 0]
    /\ spent = {}

Stored(k) == codes[k].state = "stored"

(* The rows of l that h holds are released; the others stay as they are.   *)
Released(l, h) == [r \in DOMAIN l |-> IF l[r] = h THEN Nobody ELSE l[r]]

Tick ==
    /\ now < MaxTime
    /\ now' = now + 1
    /\ UNCHANGED <<clientVars, session, userVars, csrf, approval, codeVars, exchange>>

-----------------------------------------------------------------------------
(* The writers of users.                                                   *)

(* upsert_directory, update_user_contact and                               *)
(* create_user_with_initial_credential up to their commit: the row is      *)
(* deleted and inserted again.                                             *)
ReplaceUser(u, status) ==
    /\ writer.pc = "idle" /\ userLock[u] = Nobody
    /\ status # "Absent"
    /\ writer' = [pc |-> "commit", user |-> u, status |-> status, doomed |-> {}]
    /\ userLock' = [userLock EXCEPT ![u] = UserWriter]
    /\ UNCHANGED <<clientVars, now, session, userStatus, csrf, approval, codeVars, exchange>>

(* Mutant: delete_user locks the row of the user before the codes.         *)
BeginDeleteUser_LocksUser(u) ==
    /\ writer.pc = "idle" /\ userStatus[u] # "Absent" /\ userLock[u] = Nobody
    /\ writer' = [pc |-> "codes", user |-> u, status |-> "Absent",
                  doomed |-> {k \in Codes : Stored(k) /\ codes[k].user = u}]
    /\ userLock' = [userLock EXCEPT ![u] = UserWriter]
    /\ UNCHANGED <<clientVars, now, session, userStatus, csrf, approval, codeVars, exchange>>

(* delete_user begins to delete the codes of the user that it can see.     *)
BeginDeleteUser(u) ==
    /\ writer.pc = "idle" /\ userStatus[u] # "Absent"
    /\ writer' = [pc |-> "codes", user |-> u, status |-> "Absent",
                  doomed |-> {k \in Codes : Stored(k) /\ codes[k].user = u}]
    /\ UNCHANGED <<clientVars, now, session, userStatus, userLock, csrf, approval,
                   codeVars, exchange>>

(* One of them: the DELETE waits for its lock, and skips a code that is    *)
(* gone by then.                                                           *)
DeleteUserCode(k) ==
    /\ writer.pc = "codes" /\ k \in writer.doomed
    /\ codeLock[k] = Nobody
    /\ writer' = [writer EXCEPT !.doomed = @ \ {k}]
    /\ codeLock' = IF Stored(k) THEN [codeLock EXCEPT ![k] = UserWriter] ELSE codeLock
    /\ UNCHANGED <<clientVars, now, session, userStatus, userLock, csrf, approval,
                   codes, tokens, spent, exchange>>

(* A transaction does not wait for a lock of its own.                      *)
DeleteUserRow ==
    /\ writer.pc = "codes" /\ writer.doomed = {}
    /\ userLock[writer.user] \in {Nobody, UserWriter}
    /\ writer' = [writer EXCEPT !.pc = "commit"]
    /\ userLock' = [userLock EXCEPT ![writer.user] = UserWriter]
    /\ UNCHANGED <<clientVars, now, session, userStatus, csrf, approval, codeVars, exchange>>

(* An exchange that waits for the row of the user finds, when the writer   *)
(* commits, that the row it waited for is deleted; when the writer rolls   *)
(* back it reads the row after all.                                        *)
WaitsForUser(e, u) == exchange[e].pc = "wait" /\ codes[exchange[e].code].user = u

CommitUserWrite ==
    LET u == writer.user
    IN  /\ writer.pc = "commit"
        /\ userStatus' = [userStatus EXCEPT ![u] = writer.status]
        /\ codes' = [k \in Codes |->
               IF codeLock[k] = UserWriter THEN [codes[k] EXCEPT !.state = "gone"]
                                           ELSE codes[k]]
        /\ exchange' = [e \in Exchanges |->
               IF WaitsForUser(e, u)
               THEN [exchange[e] EXCEPT !.pc = "commit", !.status = "Absent"]
               ELSE exchange[e]]
        /\ codeLock' = Released(codeLock, UserWriter)
        /\ userLock' = Released(userLock, UserWriter)
        /\ writer' = NoWriter
        /\ UNCHANGED <<clientVars, now, session, csrf, approval, tokens, spent>>

AbortUserWrite ==
    /\ writer.pc # "idle"
    /\ exchange' = [e \in Exchanges |->
           IF WaitsForUser(e, writer.user) THEN [exchange[e] EXCEPT !.pc = "user"]
                                           ELSE exchange[e]]
    /\ codeLock' = Released(codeLock, UserWriter)
    /\ userLock' = Released(userLock, UserWriter)
    /\ writer' = NoWriter
    /\ UNCHANGED <<clientVars, now, session, userStatus, csrf, approval, codes, tokens, spent>>

-----------------------------------------------------------------------------
(* Login and approval.                                                     *)

(* login issues a cookie to whoever has a row and the password, whatever   *)
(* the status.                                                             *)
Login(u) ==
    /\ userStatus[u] # "Absent"
    /\ session' = [session EXCEPT ![u] = now + SessionTtl]
    /\ UNCHANGED <<clientVars, now, userVars, csrf, approval, codeVars, exchange>>

SignedIn(u) == session[u] # 0 /\ now <= session[u]

(* validate_authorization: what it reads of the client.                    *)
MayAuthorize(c, scopes) ==
    Present(c) /\ clients[c].enabled /\ scopes \subseteq clients[c].scopes

(* authorization_context: the page that asks for confirmation.             *)
ShowContext(u, c, scopes) ==
    /\ MayAuthorize(c, scopes) /\ SignedIn(u) /\ userStatus[u] = "Active"
    /\ csrf' = csrf \cup {[user |-> u, client |-> c, scopes |-> scopes,
                           expires |-> now + CsrfTtl]}
    /\ UNCHANGED <<clientVars, now, session, userVars, approval, codeVars, exchange>>

(* confirm_authorization reads the client and verifies the cookie, ...     *)
ValidateAuthorization(a, u, c, scopes) ==
    /\ approval[a].pc = "idle"
    /\ MayAuthorize(c, scopes) /\ SignedIn(u)
    /\ approval' = [approval EXCEPT ![a] =
           [NoApproval EXCEPT !.pc = "user", !.user = u, !.client = c, !.scopes = scopes]]
    /\ UNCHANGED <<clientVars, now, session, userVars, csrf, codeVars, exchange>>

CsrfValid(u, c, scopes) ==
    \E t \in csrf : /\ t.user = u /\ t.client = c /\ t.scopes = scopes
                    /\ now <= t.expires

(* ... then reads the user, takes the time and verifies the CSRF token.    *)
CheckUser(a) ==
    LET q == approval[a]
    IN  /\ q.pc = "user"
        /\ userStatus[q.user] = "Active"
        /\ CsrfValid(q.user, q.client, q.scopes)
        /\ approval' = [approval EXCEPT ![a] = [q EXCEPT !.pc = "list", !.time = now]]
        /\ UNCHANGED <<clientVars, now, session, userVars, csrf, codeVars, exchange>>

(* Mutant: codes count as expired one second early.                        *)
Expired_Early(k, t) == Stored(k) /\ codes[k].expires <= t + 1

Expired(k, t) == Stored(k) /\ codes[k].expires <= t

(* delete_expired_authorization_codes: it lists the oldest, up to the      *)
(* limit, ...                                                              *)
ListExpired(a) ==
    LET expired == {k \in Codes : Expired(k, approval[a].time)}
    IN  /\ approval[a].pc = "list"
        /\ \E old \in SUBSET expired :
               /\ Cardinality(old) <= CleanupLimit
               /\ Cardinality(old) = CleanupLimit \/ old = expired
               /\ \A k \in old, j \in expired \ old : codes[k].expires <= codes[j].expires
               /\ approval' = [approval EXCEPT ![a] = [@ EXCEPT !.pc = "delete", !.old = old]]
        /\ UNCHANGED <<clientVars, now, session, userVars, csrf, codeVars, exchange>>

(* ... and deletes, in a second statement, those that are still there.     *)
DeleteExpired(a) ==
    LET old == approval[a].old
    IN  /\ approval[a].pc = "delete"
        /\ \A k \in old : codeLock[k] = Nobody
        /\ codes' = [k \in Codes |->
               IF k \in old THEN [codes[k] EXCEPT !.state = "gone"] ELSE codes[k]]
        /\ approval' = [approval EXCEPT ![a].pc = "store", ![a].old = {}]
        /\ UNCHANGED <<clientVars, now, session, userVars, csrf, codeLock, tokens, spent,
                       exchange>>

StoreCode(a, k) ==
    LET q == approval[a]
    IN  /\ q.pc = "store"
        /\ codes[k].state = "unused"
        /\ codes' = [codes EXCEPT ![k] =
               [state |-> "stored", client |-> q.client, user |-> q.user,
                scopes |-> q.scopes, expires |-> q.time + CodeTtl]]
        /\ approval' = [approval EXCEPT ![a] = NoApproval]
        /\ UNCHANGED <<clientVars, now, session, userVars, csrf, codeLock, tokens, spent,
                       exchange>>

(* Any refusal or failure on the way, the user's own decision included.    *)
EndApproval(a) ==
    /\ approval[a].pc # "idle"
    /\ approval' = [approval EXCEPT ![a] = NoApproval]
    /\ UNCHANGED <<clientVars, now, session, userVars, csrf, codeVars, exchange>>

-----------------------------------------------------------------------------
(* The exchange of a code for tokens.                                      *)

(* authenticate_token_client, on a row of the client.                      *)
Authentic(row, secret) ==
    IF row.type = "Web" THEN secret # 0 /\ row.secret = secret
                        ELSE secret = 0 /\ row.secret = 0

(* exchange_token up to its transaction.  The client is read without a     *)
(* lock; a client that is not there is refused before the code is touched, *)
(* and one that does not authenticate loses the code.                      *)
Authenticate(e, k, c, secret, bound) ==
    /\ exchange[e].pc = "idle"
    /\ codes[k].state # "unused"
    /\ Present(c)
    /\ exchange' = [exchange EXCEPT ![e] =
           [NoExchange EXCEPT !.pc = IF Authentic(clients[c], secret) THEN "take" ELSE "destroy",
                              !.code = k, !.client = c, !.secret = secret,
                              !.bound = bound, !.time = now]]
    /\ UNCHANGED <<clientVars, now, session, userVars, csrf, approval, codeVars>>

(* destroy_token_code: consume_authorization_code outside a transaction.   *)
DestroyCode(e) ==
    LET k == exchange[e].code
    IN  /\ exchange[e].pc = "destroy"
        /\ codeLock[k] = Nobody
        /\ codes' = [codes EXCEPT ![k].state = "gone"]
        /\ spent' = spent \cup {k}
        /\ exchange' = [exchange EXCEPT ![e] = NoExchange]
        /\ UNCHANGED <<clientVars, now, session, userVars, csrf, approval, codeLock, tokens>>

(* consume_authorization_code_for_exchange deletes the code.  It commits   *)
(* at once when there is none, or when it has expired, ...                 *)
TakeNothing(e) ==
    LET k == exchange[e].code
    IN  /\ exchange[e].pc = "take"
        /\ codeLock[k] = Nobody
        /\ Stored(k) => codes[k].expires <= exchange[e].time
        /\ codes' = [codes EXCEPT ![k].state = "gone"]
        /\ spent' = spent \cup {k}
        /\ exchange' = [exchange EXCEPT ![e] = NoExchange]
        /\ UNCHANGED <<clientVars, now, session, userVars, csrf, approval, codeLock, tokens>>

(* Mutant: the code is read, not deleted.                                  *)
TakeCode_Reads(e) ==
    LET k == exchange[e].code
    IN  /\ exchange[e].pc = "take"
        /\ codeLock[k] = Nobody
        /\ Stored(k) /\ codes[k].expires > exchange[e].time
        /\ exchange' = [exchange EXCEPT ![e].pc = "client"]
        /\ UNCHANGED <<clientVars, now, session, userVars, csrf, approval, codeVars>>

(* ... and goes on with the lock of the row it deleted, ...                *)
TakeCode(e) ==
    LET k == exchange[e].code
    IN  /\ exchange[e].pc = "take"
        /\ codeLock[k] = Nobody
        /\ Stored(k) /\ codes[k].expires > exchange[e].time
        /\ codeLock' = [codeLock EXCEPT ![k] = e]
        /\ exchange' = [exchange EXCEPT ![e].pc = "client"]
        /\ UNCHANGED <<clientVars, now, session, userVars, csrf, approval, codes, tokens, spent>>

(* Mutant: the client is read without FOR UPDATE.                          *)
LockClient_Reads(e) ==
    LET c == codes[exchange[e].code].client
    IN  /\ exchange[e].pc = "client"
        /\ exchange' = [exchange EXCEPT ![e].pc = "user", ![e].row = clients[c]]
        /\ UNCHANGED <<clientVars, now, session, userVars, csrf, approval, codeVars>>

(* ... to read the client of the code FOR UPDATE.                          *)
LockClient(e) ==
    LET c == codes[exchange[e].code].client
    IN  /\ exchange[e].pc = "client"
        /\ Unlocked(c)
        /\ clientLock' = IF Present(c) THEN [clientLock EXCEPT ![c] = e] ELSE clientLock
        /\ exchange' = [exchange EXCEPT ![e].pc = "user", ![e].row = clients[c]]
        /\ UNCHANGED <<clients, lastSecret, answered, edit, now, session, userVars, csrf,
                       approval, codeVars>>

(* Mutant: the user is read without FOR UPDATE.                            *)
LockUser_Reads(e) ==
    LET u == codes[exchange[e].code].user
    IN  /\ exchange[e].pc = "user"
        /\ exchange' = [exchange EXCEPT ![e].pc = "commit", ![e].status = userStatus[u]]
        /\ UNCHANGED <<clientVars, now, session, userVars, csrf, approval, codeVars>>

(* The user of the code, FOR UPDATE: a row that is not there is not waited *)
(* for, even when a writer is about to insert it.                          *)
LockUser(e) ==
    LET u == codes[exchange[e].code].user
    IN  /\ exchange[e].pc = "user"
        /\ userStatus[u] = "Absent" \/ userLock[u] = Nobody
        /\ userLock' = IF userStatus[u] = "Absent" THEN userLock
                                                   ELSE [userLock EXCEPT ![u] = e]
        /\ exchange' = [exchange EXCEPT ![e].pc = "commit", ![e].status = userStatus[u]]
        /\ UNCHANGED <<clientVars, now, session, userStatus, writer, csrf, approval, codeVars>>

WaitForUser(e) ==
    LET u == codes[exchange[e].code].user
    IN  /\ exchange[e].pc = "user"
        /\ userStatus[u] # "Absent" /\ userLock[u] = UserWriter
        /\ exchange' = [exchange EXCEPT ![e].pc = "wait"]
        /\ UNCHANGED <<clientVars, now, session, userVars, csrf, approval, codeVars>>

(* The checks of exchange_token on what its transaction returned.          *)
Due(q) ==
    /\ q.bound
    /\ q.row.state = "present" /\ q.row.enabled
    /\ q.client = codes[q.code].client
    /\ Authentic(q.row, q.secret)
    /\ codes[q.code].scopes \subseteq q.row.scopes
    /\ q.status = "Active"

EndTransaction(e) ==
    /\ codeLock' = Released(codeLock, e)
    /\ clientLock' = Released(clientLock, e)
    /\ userLock' = Released(userLock, e)
    /\ exchange' = [exchange EXCEPT ![e] = NoExchange]
    /\ UNCHANGED <<clients, lastSecret, answered, edit, now, session, userStatus, writer,
                   csrf, approval>>

(* The transaction commits and the checks, which read nothing more, follow. *)
CommitExchange(e) ==
    LET k == exchange[e].code
    IN  /\ exchange[e].pc = "commit"
        /\ codes' = [codes EXCEPT ![k].state = "gone"]
        /\ spent' = spent \cup {k}
        /\ tokens' = IF Due(exchange[e]) THEN [tokens EXCEPT ![k] = @ + 1] ELSE tokens
        /\ EndTransaction(e)

(* The answer to COMMIT is lost, or signing fails after it: server_error.  *)
CommitUnanswered(e) ==
    /\ exchange[e].pc = "commit"
    /\ codes' = [codes EXCEPT ![exchange[e].code].state = "gone"]
    /\ UNCHANGED <<tokens, spent>>
    /\ EndTransaction(e)

(* Mutant: a dropped request leaves its transaction open.                  *)
AbortExchange_LeavesOpen(e) ==
    /\ exchange[e].pc # "idle"
    /\ exchange' = [exchange EXCEPT ![e] = NoExchange]
    /\ UNCHANGED <<clientVars, now, session, userVars, csrf, approval, codeVars>>

(* The connection is lost or the request dropped: the transaction, if it   *)
(* has begun, is rolled back.                                              *)
AbortExchange(e) ==
    /\ exchange[e].pc # "idle"
    /\ UNCHANGED <<codes, tokens, spent>>
    /\ EndTransaction(e)

-----------------------------------------------------------------------------
ManageClients ==
    /\ ClientNext
    /\ UNCHANGED <<now, session, userVars, csrf, approval, codeVars, exchange>>

WriteUsers ==
    \/ \E u \in Users : BeginDeleteUser(u) \/ \E s \in UserStates : ReplaceUser(u, s)
    \/ \E k \in Codes : DeleteUserCode(k)
    \/ DeleteUserRow \/ CommitUserWrite \/ AbortUserWrite

Approve(a) ==
    \/ \E u \in Users, c \in Clients, scopes \in SUBSET Scopes :
           ValidateAuthorization(a, u, c, scopes)
    \/ CheckUser(a) \/ ListExpired(a) \/ DeleteExpired(a) \/ EndApproval(a)
    \/ \E k \in Codes : StoreCode(a, k)

Redeem(e) ==
    \/ \E k \in Codes, c \in Clients, secret \in Secrets, bound \in BOOLEAN :
           Authenticate(e, k, c, secret, bound)
    \/ DestroyCode(e) \/ TakeNothing(e) \/ TakeCode(e) \/ LockClient(e) \/ LockUser(e)
    \/ WaitForUser(e) \/ CommitExchange(e) \/ CommitUnanswered(e) \/ AbortExchange(e)

Next ==
    \/ Tick
    \/ ManageClients
    \/ WriteUsers
    \/ \E u \in Users :
           Login(u) \/ \E c \in Clients, scopes \in SUBSET Scopes : ShowContext(u, c, scopes)
    \/ \E a \in Approvals : Approve(a)
    \/ \E e \in Exchanges : Redeem(e)

Spec == Init /\ [][Next]_vars

(* A handler that can go on does, and PostgreSQL grants a row lock in the  *)
(* order in which it was asked for, so a statement that can get its lock   *)
(* again and again gets it.                                                *)
ExchangeProceeds(e) ==
    \/ DestroyCode(e) \/ TakeNothing(e) \/ TakeCode(e)
    \/ LockClient(e) \/ LockUser(e) \/ CommitExchange(e)

UserWriteProceeds ==
    (\E k \in Codes : DeleteUserCode(k)) \/ DeleteUserRow \/ CommitUserWrite

Fairness ==
    /\ \A e \in Exchanges : SF_vars(ExchangeProceeds(e))
    /\ SF_vars(UserWriteProceeds)

FairSpec == Spec /\ Fairness

-----------------------------------------------------------------------------
(* A code yields at most one token response, however many requests present *)
(* it at once, roll back, or are answered late; and once a request has     *)
(* been answered about it, with tokens or a refusal, no later request can  *)
(* use it.                                                                 *)
SingleUse ==
    \A k \in Codes : tokens[k] <= 1 /\ (k \in spent => ~Stored(k))

(* The rows as they are now allow what exchange e asks for.                *)
GrantAllowed(e) ==
    LET code == codes[exchange[e].code]
        client == clients[code.client]
    IN  /\ client.state = "present" /\ client.enabled
        /\ Authentic(client, exchange[e].secret)
        /\ code.scopes \subseteq client.scopes
        /\ code.expires > exchange[e].time
        /\ userStatus[code.user] = "Active"

Granted(e) == exchange[e].pc = "commit" /\ tokens'[exchange[e].code] > tokens[exchange[e].code]

(* When tokens are granted the rows that exist at that moment still allow  *)
(* it: the client is there, is enabled, has the secret that was presented  *)
(* and is allowed the scopes of the code, and the user is active.  What    *)
(* exchange_token checks it read one query at a time; only the row locks   *)
(* make it true together.                                                  *)
GrantIsDue == [][\A e \in Exchanges : Granted(e) => GrantAllowed(e)]_vars

(* Code k has expired, is presented, or is deleted with its user.          *)
MayGo(k) ==
    \/ codes[k].expires <= now
    \/ \E e \in Exchanges : exchange[e].pc # "idle" /\ exchange[e].code = k
    \/ writer.pc = "commit" /\ writer.user = codes[k].user

(* A code that nobody presents, of a user whom nobody deletes, stays until *)
(* it expires: the cleanup that precedes each new code, which works with   *)
(* the time its request took earlier, removes no code that is still good.  *)
LiveCodeSurvives ==
    [][\A k \in Codes : Stored(k) /\ codes'[k].state # "stored" => MayGo(k)]_vars

(* A client that was deleted never comes back, although an update or a     *)
(* regeneration that read it before the deletion may write after it.       *)
DeletedClientStays ==
    [][\A c \in Clients : clients[c].state = "deleted" => clients'[c] = clients[c]]_vars

(* What has become of each code, and which codes the rows of client and    *)
(* user permit.                                                            *)
Stage ==
    [k \in Codes |->
        IF tokens[k] > 1 THEN "granted again"
        ELSE IF tokens[k] = 1 THEN "granted"
        ELSE IF codes[k].state = "unused" THEN "unused"
        ELSE IF Stored(k) THEN "issued" ELSE "lost"]

Permitted ==
    {k \in Codes : LET client == clients[codes[k].client] IN
        /\ Stored(k)
        /\ client.state = "present" /\ client.enabled
        /\ codes[k].scopes \subseteq client.scopes
        /\ userStatus[codes[k].user] = "Active"}

(* Every code keeps the promise of CodePromise: however requests race, are *)
(* rolled back or stay unanswered, it is granted or lost once, and granted *)
(* only while its client and user permit it.                               *)
CodesPromise == INSTANCE CodePromise WITH stage <- Stage, permitted <- Permitted

CodesKeepPromise == CodesPromise!Spec

(* Exchanges and deletions of users take codes, clients and users in the   *)
(* same order, so nobody waits for ever and every token request ends.      *)
EveryExchangeEnds ==
    \A e \in Exchanges : exchange[e].pc # "idle" ~> exchange[e].pc = "idle"

Locked ==
    \/ \E k \in Codes : codeLock[k] # Nobody
    \/ \E c \in Clients : clientLock[c] # Nobody
    \/ \E u \in Users : userLock[u] # Nobody

(* The next statement of a transaction does not have to wait for a lock.   *)
ExchangeGetsOn(e) ==
    LET code == codes[exchange[e].code]
    IN  \/ exchange[e].pc = "client" /\ Unlocked(code.client)
        \/ /\ exchange[e].pc = "user"
           /\ userStatus[code.user] = "Absent" \/ userLock[code.user] = Nobody
        \/ exchange[e].pc = "commit"

UserWriteGetsOn ==
    \/ writer.pc = "codes" /\ \E k \in writer.doomed : codeLock[k] = Nobody
    \/ /\ writer.pc = "codes" /\ writer.doomed = {}
       /\ userLock[writer.user] \in {Nobody, UserWriter}
    \/ writer.pc = "commit"

(* As long as a row is locked, one of the transactions that hold locks     *)
(* gets on: exchanges, deletions and replacements of users never wait for  *)
(* each other in a circle, whatever each has locked so far.                *)
NoDeadlock == Locked => (\E e \in Exchanges : ExchangeGetsOn(e)) \/ UserWriteGetsOn

(* docs/reference/api-contract.md: a new secret replaces the old one at    *)
(* once.  The secret of a client is the one its owner was given last.      *)
NewSecretReplacesOld ==
    \A c \in Clients : Present(c) => clients[c].secret = answered[c]

-----------------------------------------------------------------------------
(* The inductive invariant behind the safety properties.                   *)
InTransaction(e) == exchange[e].pc \in {"client", "user", "wait", "commit"}

(* Requests under way name rows that exist, and carry times that are past. *)
RequestsInv ==
    /\ \A h \in Editors : edit[h].pc # "idle" =>
           edit[h].client \in Clients /\ edit[h].read.state = "present"
    /\ \A a \in Approvals : approval[a].pc # "idle" =>
           /\ approval[a].client \in Clients /\ approval[a].user \in Users
           /\ approval[a].time <= now
    /\ \A k \in Codes : codes[k].state # "unused" =>
           codes[k].client \in Clients /\ codes[k].user \in Users
    /\ \A e \in Exchanges : exchange[e].pc # "idle" =>
           /\ exchange[e].code \in Codes
           /\ codes[exchange[e].code].state # "unused"
    /\ writer.pc # "idle" => writer.user \in Users

(* A code is locked by the one transaction that deletes it, and is in the  *)
(* table as long as it is locked.                                          *)
CodeLockInv ==
    /\ \A k \in Codes : codeLock[k] # Nobody => Stored(k)
    /\ \A e \in Exchanges : InTransaction(e) =>
           /\ codeLock[exchange[e].code] = e
           /\ codes[exchange[e].code].expires > exchange[e].time
    /\ \A k \in Codes : codeLock[k] = UserWriter =>
           writer.pc # "idle" /\ codes[k].user = writer.user
    /\ \A k \in writer.doomed : codes[k].state # "unused" /\ codes[k].user = writer.user

(* What a transaction read FOR UPDATE is what the locked row still holds.  *)
RowLockInv ==
    /\ writer.pc = "commit" => userLock[writer.user] = UserWriter
    /\ \A e \in Exchanges : exchange[e].pc \in {"user", "wait", "commit"} =>
           LET c == codes[exchange[e].code].client
           IN  exchange[e].row.state = "present" =>
                   clientLock[c] = e /\ clients[c] = exchange[e].row
    /\ \A e \in Exchanges : exchange[e].pc = "commit" /\ exchange[e].status # "Absent" =>
           LET u == codes[exchange[e].code].user
           IN  userLock[u] = e /\ userStatus[u] = exchange[e].status

(* What a cleanup listed had expired, and still has when it is deleted.    *)
CleanupInv ==
    \A a \in Approvals : \A k \in approval[a].old :
        codes[k].state # "unused" /\ codes[k].expires <= approval[a].time

TokensInv ==
    \A k \in Codes :
        /\ tokens[k] <= 1
        /\ tokens[k] = 0 \/ k \in spent
        /\ k \in spent => codes[k].state = "gone"

FlowInv ==
    TypeOK /\ RequestsInv /\ CodeLockInv /\ RowLockInv /\ CleanupInv /\ TokensInv

(* Conversely, whoever holds a lock is past the statement that took it and *)
(* not yet at its end, and whoever waits for a user waits for the writer.  *)
HoldersInv ==
    /\ \A k \in Codes : codeLock[k] \in Exchanges => InTransaction(codeLock[k])
    /\ \A c \in Clients : clientLock[c] # Nobody =>
           exchange[clientLock[c]].pc \in {"user", "wait", "commit"}
    /\ \A u \in Users : userLock[u] \in Exchanges => exchange[userLock[u]].pc = "commit"
    /\ \A u \in Users : userLock[u] = UserWriter =>
           writer.pc = "commit" /\ writer.user = u
    /\ \A e \in Exchanges : exchange[e].pc = "wait" =>
           userLock[codes[exchange[e].code].user] = UserWriter
    /\ \A k \in writer.doomed : codeLock[k] # UserWriter

SignInInv == FlowInv /\ HoldersInv
=============================================================================
