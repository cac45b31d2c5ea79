----------------------------- MODULE OidcProofs -----------------------------
(***************************************************************************)
(* The authorization code flow of OidcCodeFlow is safe for any number of   *)
(* clients, users, codes and requests at once.  The argument is the        *)
(* invariant FlowInv: a code is locked by the transaction that deletes it, *)
(* and a row that was read FOR UPDATE does not change before the commit.   *)
(* With the holders of the locks it shows that nobody waits in a circle,   *)
(* and step by step it shows that the flow implements CodePromise.         *)
(***************************************************************************)
EXTENDS OidcCodeFlow, TLAPS

(* The clock runs: times taken earlier stay in the past.                   *)
LEMMA TickStep ==
    ASSUME FlowInv, Tick
    PROVE  FlowInv'
  <1>1. TypeOK'
    BY FlowAssumption DEF FlowInv, TypeOK, ClientTypeOK, Tick, clientVars, userVars, codeVars
  <1>2. RequestsInv'
    BY DEF FlowInv, RequestsInv, TypeOK, Approval, Times, Tick, clientVars, userVars, codeVars
  <1>3. CleanupInv'
    BY DEF FlowInv, CleanupInv, Tick, codeVars
  <1>4. CodeLockInv' /\ RowLockInv' /\ TokensInv'
    BY DEF FlowInv, CodeLockInv, InTransaction, Stored, RowLockInv, TokensInv, Tick, clientVars,
        userVars, codeVars
  <1> QED BY <1>1, <1>2, <1>3, <1>4 DEF FlowInv

(* upsert_directory, update_user_contact: the writer takes a free user     *)
(* row.                                                                    *)
LEMMA ReplaceUserStep ==
    ASSUME FlowInv, NEW u \in Users, NEW status \in UserStates, ReplaceUser(u, status)
    PROVE  FlowInv'
  <1>1. TypeOK'
    BY DEF FlowInv, TypeOK, ClientTypeOK, Writer, Csrf, ReplaceUser, clientVars, codeVars
  <1>2. RowLockInv'
    BY ClientsAssumption DEF FlowInv, RowLockInv, TypeOK, ReplaceUser, clientVars, codeVars
  <1>3. CleanupInv'
    BY DEF FlowInv, CleanupInv, ReplaceUser, codeVars
  <1>4. RequestsInv' /\ CodeLockInv' /\ TokensInv'
    BY DEF FlowInv, RequestsInv, CodeLockInv, InTransaction, Stored, TokensInv, ReplaceUser,
        clientVars, codeVars
  <1> QED BY <1>1, <1>2, <1>3, <1>4 DEF FlowInv

(* delete_user lists codes that exist, and locks nothing yet.              *)
LEMMA BeginDeleteUserStep ==
    ASSUME FlowInv, NEW u \in Users, BeginDeleteUser(u)
    PROVE  FlowInv'
  <1>1. TypeOK'
    BY DEF FlowInv, TypeOK, ClientTypeOK, Writer, Csrf, UserStates, BeginDeleteUser, clientVars,
        codeVars
  <1>2. CleanupInv'
    BY DEF FlowInv, CleanupInv, BeginDeleteUser, codeVars
  <1>3. RequestsInv' /\ CodeLockInv' /\ RowLockInv' /\ TokensInv'
    BY DEF FlowInv, RequestsInv, CodeLockInv, InTransaction, Stored, RowLockInv, TokensInv,
        BeginDeleteUser, clientVars, codeVars
  <1> QED BY <1>1, <1>2, <1>3 DEF FlowInv

(* delete_user locks a code only if no exchange holds it.                  *)
LEMMA DeleteUserCodeStep ==
    ASSUME FlowInv, NEW k \in Codes, DeleteUserCode(k)
    PROVE  FlowInv'
  <1>1. TypeOK'
    BY DEF FlowInv, TypeOK, ClientTypeOK, Writer, Csrf, DeleteUserCode, clientVars
  <1>2. CodeLockInv'
    BY ClientsAssumption DEF FlowInv, CodeLockInv, InTransaction, Stored, DeleteUserCode
  <1>3. CleanupInv'
    BY DEF FlowInv, CleanupInv, DeleteUserCode
  <1>4. RequestsInv' /\ RowLockInv' /\ TokensInv'
    BY DEF FlowInv, RequestsInv, RowLockInv, TokensInv, DeleteUserCode, clientVars
  <1> QED BY <1>1, <1>2, <1>3, <1>4 DEF FlowInv

(* delete_user takes the user row only when no exchange holds it.          *)
LEMMA DeleteUserRowStep ==
    ASSUME FlowInv, DeleteUserRow
    PROVE  FlowInv'
  <1>1. TypeOK'
    BY DEF FlowInv, TypeOK, ClientTypeOK, Writer, Csrf, DeleteUserRow, clientVars, codeVars
  <1>2. RowLockInv'
    BY ClientsAssumption DEF FlowInv, RowLockInv, RequestsInv, TypeOK, DeleteUserRow,
        clientVars, codeVars
  <1>3. CleanupInv'
    BY DEF FlowInv, CleanupInv, DeleteUserRow, codeVars
  <1>4. RequestsInv' /\ CodeLockInv' /\ TokensInv'
    BY DEF FlowInv, RequestsInv, CodeLockInv, InTransaction, Stored, TokensInv, DeleteUserRow,
        clientVars, codeVars
  <1> QED BY <1>1, <1>2, <1>3, <1>4 DEF FlowInv

(* The commit of a user write removes codes and replaces a row that no     *)
(* exchange holds; an exchange that waited for the row finds none.         *)
LEMMA CommitUserWriteStep ==
    ASSUME FlowInv, CommitUserWrite
    PROVE  FlowInv'
  <1> USE DEF FlowInv
  <1>0. /\ UNCHANGED <<clients, clientLock, edit, approval, now, tokens, spent>>
        /\ writer' = NoWriter /\ writer.pc = "commit"
        /\ userStatus' = [userStatus EXCEPT ![writer.user] = writer.status]
    BY DEF CommitUserWrite, clientVars
  <1>1. \A k \in Codes :
          /\ codes'[k] \in CodeRow
          /\ codes'[k].client = codes[k].client /\ codes'[k].user = codes[k].user
          /\ codes'[k].expires = codes[k].expires
          /\ codes'[k].state = IF codeLock[k] = UserWriter THEN "gone" ELSE codes[k].state
    BY DEF CommitUserWrite, TypeOK, CodeRow
  <1>2. \A e \in Exchanges :
          /\ exchange'[e] \in Exchange
          /\ exchange'[e].code = exchange[e].code /\ exchange'[e].row = exchange[e].row
          /\ exchange'[e].time = exchange[e].time
          /\ IF WaitsForUser(e, writer.user)
             THEN exchange'[e].pc = "commit" /\ exchange'[e].status = "Absent"
             ELSE exchange'[e].pc = exchange[e].pc /\ exchange'[e].status = exchange[e].status
    <2>1. \A e \in Exchanges :
             [exchange[e] EXCEPT !.pc = "commit", !.status = "Absent"] \in Exchange
      BY DEF TypeOK, Exchange, UserStates
    <2>2. \A e \in Exchanges : exchange[e] \in Exchange
      BY DEF TypeOK
    <2> QED BY <2>1, <2>2 DEF CommitUserWrite, Exchange
  <1>3. \A k \in Codes : codeLock'[k] = IF codeLock[k] = UserWriter THEN Nobody ELSE codeLock[k]
    BY DEF CommitUserWrite, TypeOK, Released
  <1>4. \A u \in Users : userLock'[u] = IF userLock[u] = UserWriter THEN Nobody ELSE userLock[u]
    BY DEF CommitUserWrite, TypeOK, Released
  <1>5. TypeOK'
    <2>1. codes' \in [Codes -> CodeRow] /\ exchange' \in [Exchanges -> Exchange]
      BY <1>1, <1>2 DEF CommitUserWrite
    <2>2. /\ codeLock' \in [Codes -> Exchanges \cup {Nobody, UserWriter}]
          /\ userLock' \in [Users -> Exchanges \cup {Nobody, UserWriter}]
      BY DEF CommitUserWrite, TypeOK, Released
    <2>3. userStatus' \in [Users -> UserStates] /\ writer' \in Writer
      BY <1>0 DEF TypeOK, Writer, NoWriter, UserStates
    <2> QED BY <2>1, <2>2, <2>3 DEF CommitUserWrite, TypeOK, ClientTypeOK, clientVars
  <1>6. RequestsInv'
    <2>1. \A k \in Codes : codes'[k].state # "unused" => codes[k].state # "unused"
      BY <1>1, FlowAssumption DEF CodeLockInv, Stored
    <2>2. \A k \in Codes : codes[k].state # "unused" => codes'[k].state # "unused"
      BY <1>1
    <2>3. \A e \in Exchanges : exchange'[e].pc # "idle" => exchange[e].pc # "idle"
      BY <1>2 DEF WaitsForUser
    <2>4. writer'.pc = "idle"
      BY <1>0 DEF NoWriter
    <2> QED BY <1>0, <1>1, <1>2, <2>1, <2>2, <2>3, <2>4 DEF RequestsInv
  <1>7. CodeLockInv'
    <2>1. \A e \in Exchanges : InTransaction(e)' => InTransaction(e) /\ exchange[e].code \in Codes
      BY <1>2 DEF InTransaction, WaitsForUser, RequestsInv
    <2>2. \A k \in Codes : codeLock'[k] # Nobody => Stored(k)'
      BY <1>1, <1>3 DEF CodeLockInv, Stored
    <2>3. ASSUME NEW e \in Exchanges, InTransaction(e)'
          PROVE  /\ codeLock'[exchange'[e].code] = e
                 /\ codes'[exchange'[e].code].expires > exchange'[e].time
      BY <1>1, <1>2, <1>3, <2>1, <2>3, FlowAssumption DEF CodeLockInv
    <2>4. \A k \in Codes : codeLock'[k] # UserWriter
      BY <1>3, FlowAssumption
    <2> QED BY <1>0, <2>2, <2>3, <2>4 DEF CodeLockInv, NoWriter
  <1>8. RowLockInv'
    <2>1. writer'.pc # "commit"
      BY <1>0 DEF NoWriter
    <2>2. ASSUME NEW e \in Exchanges, exchange'[e].pc \in {"user", "wait", "commit"},
                 exchange'[e].row.state = "present"
          PROVE  LET c == codes'[exchange'[e].code].client
                 IN  clientLock'[c] = e /\ clients'[c] = exchange'[e].row
      <3>1. exchange[e].pc \in {"user", "wait", "commit"} /\ exchange[e].code \in Codes
        BY <1>2, <2>2 DEF WaitsForUser, RequestsInv
      <3> QED BY <1>0, <1>1, <1>2, <2>2, <3>1 DEF RowLockInv
    <2>3. ASSUME NEW e \in Exchanges, exchange'[e].pc = "commit", exchange'[e].status # "Absent"
          PROVE  LET u == codes'[exchange'[e].code].user
                 IN  userLock'[u] = e /\ userStatus'[u] = exchange'[e].status
      <3>1. /\ exchange[e].pc = "commit" /\ exchange[e].status # "Absent"
            /\ exchange'[e].status = exchange[e].status
            /\ exchange[e].code \in Codes
        BY <1>2, <2>3 DEF RequestsInv
      <3> DEFINE u == codes[exchange[e].code].user
      <3>2. u \in Users /\ userLock[u] = e /\ userStatus[u] = exchange[e].status
        BY <3>1 DEF RowLockInv, RequestsInv
      <3>3. u # writer.user
        BY <1>0, <3>2, FlowAssumption DEF RowLockInv
      <3> QED BY <1>0, <1>1, <1>2, <1>4, <3>1, <3>2, <3>3, FlowAssumption DEF TypeOK
    <2> QED BY <2>1, <2>2, <2>3 DEF RowLockInv
  <1>9. CleanupInv'
    <2>1. \A a \in Approvals : approval[a].old \subseteq Codes
      BY DEF TypeOK, Approval
    <2> QED BY <1>0, <1>1, <2>1 DEF CleanupInv
  <1>10. TokensInv'
    BY <1>0, <1>1 DEF TokensInv, CodeLockInv, Stored
  <1> QED BY <1>5, <1>6, <1>7, <1>8, <1>9, <1>10

(* A user write that rolls back gives its locks back and changes no row.   *)
LEMMA AbortUserWriteStep ==
    ASSUME FlowInv, AbortUserWrite
    PROVE  FlowInv'
  <1>1. TypeOK'
    <2>1. exchange' \in [Exchanges -> Exchange]
      BY DEF FlowInv, TypeOK, AbortUserWrite, Exchange
    <2>2. codeLock' \in [Codes -> Exchanges \cup {Nobody, UserWriter}]
      BY DEF FlowInv, TypeOK, AbortUserWrite, Released
    <2>3. userLock' \in [Users -> Exchanges \cup {Nobody, UserWriter}]
      BY DEF FlowInv, TypeOK, AbortUserWrite, Released
    <2>4. writer' \in Writer
      BY DEF AbortUserWrite, Writer, NoWriter, UserStates
    <2> QED BY <2>1, <2>2, <2>3, <2>4 DEF FlowInv, TypeOK, ClientTypeOK, AbortUserWrite,
        clientVars
  <1>2. CodeLockInv'
    BY FlowAssumption DEF FlowInv, CodeLockInv, InTransaction, Stored, RequestsInv, TypeOK,
        AbortUserWrite, WaitsForUser, Released, NoWriter
  <1>3. RowLockInv'
    BY FlowAssumption DEF FlowInv, RowLockInv, RequestsInv, TypeOK, AbortUserWrite,
        WaitsForUser, Released, NoWriter, clientVars
  <1>4. CleanupInv'
    BY DEF FlowInv, CleanupInv, AbortUserWrite, WaitsForUser, Released
  <1>5. RequestsInv' /\ TokensInv'
    BY DEF FlowInv, RequestsInv, TokensInv, AbortUserWrite, WaitsForUser, Released, NoWriter,
        clientVars
  <1> QED BY <1>1, <1>2, <1>3, <1>4, <1>5 DEF FlowInv

(* login touches the cookie only.                                          *)
LEMMA LoginStep ==
    ASSUME FlowInv, NEW u \in Users, Login(u)
    PROVE  FlowInv'
  <1>1. TypeOK'
    BY FlowAssumption DEF FlowInv, TypeOK, ClientTypeOK, Times, Login, clientVars, userVars,
        codeVars
  <1>2. CleanupInv'
    BY DEF FlowInv, CleanupInv, Login, codeVars
  <1>3. RequestsInv' /\ CodeLockInv' /\ RowLockInv' /\ TokensInv'
    BY DEF FlowInv, RequestsInv, CodeLockInv, InTransaction, Stored, RowLockInv, TokensInv,
        Login, clientVars, userVars, codeVars
  <1> QED BY <1>1, <1>2, <1>3 DEF FlowInv

(* authorization_context adds a CSRF token and nothing else.               *)
LEMMA ShowContextStep ==
    ASSUME FlowInv, NEW u \in Users, NEW c \in Clients, NEW scopes \in SUBSET Scopes,
        ShowContext(u, c, scopes)
    PROVE  FlowInv'
  <1>1. TypeOK'
    BY FlowAssumption DEF FlowInv, TypeOK, ClientTypeOK, Writer, Csrf, Times, ShowContext,
        clientVars, userVars, codeVars
  <1>2. CleanupInv'
    BY DEF FlowInv, CleanupInv, ShowContext, codeVars
  <1>3. RequestsInv' /\ CodeLockInv' /\ RowLockInv' /\ TokensInv'
    BY DEF FlowInv, RequestsInv, CodeLockInv, InTransaction, Stored, RowLockInv, TokensInv,
        ShowContext, clientVars, userVars, codeVars
  <1> QED BY <1>1, <1>2, <1>3 DEF FlowInv

(* confirm_authorization begins with a client and a user that exist.       *)
LEMMA ValidateAuthorizationStep ==
    ASSUME FlowInv, NEW a \in Approvals, NEW u \in Users, NEW c \in Clients, NEW scopes \in
        SUBSET Scopes, ValidateAuthorization(a, u, c, scopes)
    PROVE  FlowInv'
  <1>1. TypeOK'
    <2>1. NoApproval \in Approval
      BY FlowAssumption DEF NoApproval, Approval, Times
    <2>2. approval'[a] \in Approval
      BY <2>1 DEF FlowInv, TypeOK, ValidateAuthorization, Approval
    <2>3. approval' \in [Approvals -> Approval]
      BY <2>2 DEF FlowInv, TypeOK, ValidateAuthorization
    <2> QED BY <2>1, <2>2, <2>3 DEF FlowInv, TypeOK, ClientTypeOK, ValidateAuthorization,
        clientVars, userVars, codeVars
  <1>2. RequestsInv'
    BY DEF FlowInv, RequestsInv, TypeOK, ValidateAuthorization, NoApproval, clientVars,
        userVars, codeVars
  <1>3. CleanupInv'
    BY DEF FlowInv, CleanupInv, ValidateAuthorization, NoApproval, codeVars
  <1>4. CodeLockInv' /\ RowLockInv' /\ TokensInv'
    BY DEF FlowInv, CodeLockInv, InTransaction, Stored, RowLockInv, TokensInv,
        ValidateAuthorization, clientVars, userVars, codeVars
  <1> QED BY <1>1, <1>2, <1>3, <1>4 DEF FlowInv

(* confirm_authorization takes its time from the clock.                    *)
LEMMA CheckUserStep ==
    ASSUME FlowInv, NEW a \in Approvals, CheckUser(a)
    PROVE  FlowInv'
  <1>1. TypeOK'
    <2>1. now \in Times
      BY FlowAssumption DEF FlowInv, TypeOK, Times
    <2>2. [approval[a] EXCEPT !.pc = "list", !.time = now] \in Approval
      BY <2>1 DEF FlowInv, TypeOK, Approval
    <2>3. approval' \in [Approvals -> Approval]
      BY <2>2 DEF FlowInv, TypeOK, CheckUser
    <2> QED BY <2>1, <2>2, <2>3 DEF FlowInv, TypeOK, ClientTypeOK, CheckUser, clientVars,
        userVars, codeVars
  <1>2. RequestsInv'
    BY DEF FlowInv, RequestsInv, TypeOK, CheckUser, clientVars, userVars, codeVars
  <1>3. CleanupInv'
    <2>1. \A b \in Approvals, k \in Codes :
             approval[b].time \in Nat /\ codes[k].expires \in Nat /\ now \in Nat
      BY DEF FlowInv, TypeOK, Approval, CodeRow, Times
    <2>2. approval[a].old \subseteq Codes /\ approval[a].time <= now
      BY DEF FlowInv, TypeOK, Approval, RequestsInv, CheckUser
    <2>3. /\ approval'[a].old = approval[a].old /\ approval'[a].time = now
          /\ \A b \in Approvals \ {a} : approval'[b] = approval[b]
      BY DEF FlowInv, TypeOK, Approval, CheckUser
    <2> QED BY <2>1, <2>2, <2>3 DEF FlowInv, CleanupInv, CheckUser, codeVars
  <1>4. CodeLockInv' /\ RowLockInv' /\ TokensInv'
    BY DEF FlowInv, CodeLockInv, InTransaction, Stored, RowLockInv, TokensInv, CheckUser,
        clientVars, userVars, codeVars
  <1> QED BY <1>1, <1>2, <1>3, <1>4 DEF FlowInv

(* The cleanup lists codes that have expired by the time of its request.   *)
LEMMA ListExpiredStep ==
    ASSUME FlowInv, NEW a \in Approvals, ListExpired(a)
    PROVE  FlowInv'
  <1>1. TypeOK'
    <2>1. \A old \in SUBSET Codes : [approval[a] EXCEPT !.pc = "delete", !.old = old] \in Approval
      BY DEF FlowInv, TypeOK, Approval
    <2>2. PICK old \in SUBSET Codes :
             approval' = [approval EXCEPT ![a] = [approval[a] EXCEPT !.pc = "delete", !.old = old]]
      BY DEF ListExpired
    <2>3. approval' \in [Approvals -> Approval]
      BY <2>1, <2>2 DEF FlowInv, TypeOK
    <2> QED BY <2>1, <2>2, <2>3 DEF FlowInv, TypeOK, ClientTypeOK, ListExpired, clientVars,
        userVars, codeVars
  <1>2. RequestsInv'
    BY DEF FlowInv, RequestsInv, ListExpired, Expired, clientVars, userVars, codeVars
  <1>3. CodeLockInv'
    BY DEF FlowInv, CodeLockInv, InTransaction, Stored, ListExpired, Expired, userVars, codeVars
  <1>4. RowLockInv'
    BY DEF FlowInv, RowLockInv, ListExpired, Expired, clientVars, userVars, codeVars
  <1>5. CleanupInv'
    BY DEF FlowInv, CleanupInv, ListExpired, Expired, Stored, codeVars
  <1>6. TokensInv'
    BY DEF FlowInv, TokensInv, ListExpired, Expired, codeVars
  <1> QED BY <1>1, <1>2, <1>3, <1>4, <1>5, <1>6 DEF FlowInv

(* The cleanup removes codes that it listed and that no transaction holds. *)
LEMMA DeleteExpiredStep ==
    ASSUME FlowInv, NEW a \in Approvals, DeleteExpired(a)
    PROVE  FlowInv'
  <1> USE DEF FlowInv
  <1>0. approval[a] \in Approval /\ approval[a].old \subseteq Codes
    BY DEF TypeOK, Approval
  <1>1. \A k \in Codes :
          /\ codes'[k] \in CodeRow
          /\ codes'[k].client = codes[k].client /\ codes'[k].user = codes[k].user
          /\ codes'[k].expires = codes[k].expires
          /\ \/ codes'[k].state = codes[k].state
             \/ codes'[k].state = "gone" /\ codeLock[k] = Nobody /\ codes[k].state # "unused"
    BY DEF DeleteExpired, TypeOK, CodeRow, CleanupInv
  <1>2. \A b \in Approvals :
          /\ approval'[b] \in Approval
          /\ approval'[b].client = approval[b].client /\ approval'[b].user = approval[b].user
          /\ approval'[b].time = approval[b].time
          /\ approval'[b].pc = IF b = a THEN "store" ELSE approval[b].pc
          /\ approval'[b].old \subseteq approval[b].old
    BY DEF DeleteExpired, TypeOK, Approval
  <1>3. codes' \in [Codes -> CodeRow] /\ approval' \in [Approvals -> Approval]
    BY <1>1, <1>2 DEF DeleteExpired, TypeOK
  <1>4. TypeOK'
    BY <1>3 DEF TypeOK, ClientTypeOK, DeleteExpired, clientVars, userVars
  <1>5. RequestsInv'
    <2>1. UNCHANGED <<edit, now, exchange, writer>> /\ approval[a].pc = "delete"
      BY DEF DeleteExpired, clientVars, userVars
    <2>2. \A k \in Codes : (codes'[k].state # "unused") = (codes[k].state # "unused")
      BY <1>1
    <2>3. \A b \in Approvals : approval'[b].pc # "idle" => approval[b].pc # "idle"
      BY <1>2, <2>1
    <2> QED BY <1>1, <1>2, <2>1, <2>2, <2>3 DEF RequestsInv
  <1>6. CodeLockInv'
    <2>1. \A k \in Codes : codeLock[k] # Nobody => Stored(k)'
      BY <1>1 DEF CodeLockInv, Stored
    <2>2. \A e \in Exchanges : InTransaction(e) =>
             codes'[exchange[e].code].expires = codes[exchange[e].code].expires
      BY <1>1 DEF InTransaction, RequestsInv
    <2>3. \A k \in Codes : codes'[k].user = codes[k].user
      BY <1>1
    <2>4. writer.doomed \subseteq Codes
      BY DEF TypeOK, Writer
    <2> QED BY <2>1, <2>2, <2>3, <2>4 DEF CodeLockInv, DeleteExpired, InTransaction, userVars
  <1>7. RowLockInv'
    <2>1. \A e \in Exchanges : exchange[e].pc # "idle" =>
             /\ codes'[exchange[e].code].client = codes[exchange[e].code].client
             /\ codes'[exchange[e].code].user = codes[exchange[e].code].user
      BY <1>1 DEF RequestsInv
    <2> QED BY <2>1 DEF RowLockInv, DeleteExpired, clientVars, userVars
  <1>8. CleanupInv'
    <2>1. \A b \in Approvals : approval[b].old \subseteq Codes
      BY DEF TypeOK, Approval
    <2> QED BY <1>1, <1>2, <2>1 DEF CleanupInv
  <1>9. TokensInv'
    BY <1>1 DEF TokensInv, DeleteExpired
  <1> QED BY <1>4, <1>5, <1>6, <1>7, <1>8, <1>9

(* store_authorization_code uses a code that nobody holds or has listed.   *)
LEMMA StoreCodeStep ==
    ASSUME FlowInv, NEW a \in Approvals, NEW k \in Codes, StoreCode(a, k)
    PROVE  FlowInv'
  <1>1. TypeOK'
    <2>1. approval[a].time + CodeTtl \in Times
      BY FlowAssumption DEF FlowInv, RequestsInv, TypeOK, StoreCode, Approval, Times
    <2>2. codes'[k] \in CodeRow
      BY <2>1 DEF FlowInv, TypeOK, StoreCode, Approval, CodeRow
    <2>3. codes' \in [Codes -> CodeRow]
      BY <2>2 DEF FlowInv, TypeOK, StoreCode
    <2>4. NoApproval \in Approval
      BY FlowAssumption DEF NoApproval, Approval, Times
    <2>5. approval' \in [Approvals -> Approval]
      BY <2>4 DEF FlowInv, TypeOK, StoreCode
    <2> QED BY <2>1, <2>2, <2>3, <2>4, <2>5 DEF FlowInv, TypeOK, ClientTypeOK, StoreCode,
        clientVars, userVars
  <1>2. CodeLockInv'
    <2>1. \A j \in Codes : j # k => codes'[j] = codes[j]
      BY DEF FlowInv, TypeOK, StoreCode
    <2>2. codes'[k].state = "stored" /\ codes[k].state = "unused"
      BY DEF FlowInv, TypeOK, StoreCode
    <2>3. codeLock[k] = Nobody
      BY <2>2 DEF FlowInv, CodeLockInv, Stored
    <2>4. \A e \in Exchanges : InTransaction(e) => exchange[e].code # k
      BY <2>2 DEF FlowInv, RequestsInv, InTransaction
    <2>5. writer.doomed \subseteq Codes
      BY DEF FlowInv, TypeOK, Writer
    <2>6. k \notin writer.doomed
      BY <2>2 DEF FlowInv, CodeLockInv
    <2>7. UNCHANGED <<codeLock, exchange, writer>>
      BY DEF StoreCode, userVars
    <2> QED BY <2>1, <2>2, <2>3, <2>4, <2>5, <2>6, <2>7, FlowAssumption DEF FlowInv,
        CodeLockInv, RequestsInv, InTransaction, Stored
  <1>3. RowLockInv'
    BY DEF FlowInv, RowLockInv, RequestsInv, StoreCode, clientVars, userVars
  <1>4. CleanupInv'
    BY DEF FlowInv, CleanupInv, StoreCode, NoApproval
  <1>5. RequestsInv' /\ TokensInv'
    BY DEF FlowInv, RequestsInv, TokensInv, StoreCode, NoApproval, clientVars, userVars
  <1> QED BY <1>1, <1>2, <1>3, <1>4, <1>5 DEF FlowInv

(* A refused confirmation leaves every row as it is.                       *)
LEMMA EndApprovalStep ==
    ASSUME FlowInv, NEW a \in Approvals, EndApproval(a)
    PROVE  FlowInv'
  <1>1. TypeOK'
    BY FlowAssumption DEF FlowInv, TypeOK, ClientTypeOK, Approval, Times, EndApproval,
        NoApproval, clientVars, userVars, codeVars
  <1>2. CleanupInv'
    BY DEF FlowInv, CleanupInv, EndApproval, NoApproval, codeVars
  <1>3. RequestsInv' /\ CodeLockInv' /\ RowLockInv' /\ TokensInv'
    BY DEF FlowInv, RequestsInv, CodeLockInv, InTransaction, Stored, RowLockInv, TokensInv,
        EndApproval, NoApproval, clientVars, userVars, codeVars
  <1> QED BY <1>1, <1>2, <1>3 DEF FlowInv

(* exchange_token begins with a code that was issued.                      *)
LEMMA AuthenticateStep ==
    ASSUME FlowInv, NEW e \in Exchanges, NEW k \in Codes, NEW c \in Clients, NEW secret \in
        Secrets, NEW bound \in BOOLEAN, Authenticate(e, k, c, secret, bound)
    PROVE  FlowInv'
  <1>1. TypeOK'
    <2>1. now \in Times
      BY FlowAssumption DEF FlowInv, TypeOK, Times
    <2>2. NoRow \in ClientRow
      BY ClientsAssumption DEF NoRow, ClientRow, ClientTypes, Secrets
    <2>3. exchange'[e] \in Exchange
      BY <2>1, <2>2 DEF FlowInv, TypeOK, Authenticate, Exchange, NoExchange, UserStates
    <2>4. exchange' \in [Exchanges -> Exchange]
      BY <2>3 DEF FlowInv, TypeOK, Authenticate
    <2> QED BY <2>1, <2>2, <2>3, <2>4 DEF FlowInv, TypeOK, ClientTypeOK, Authenticate,
        clientVars, userVars, codeVars
  <1>2. CleanupInv'
    BY DEF FlowInv, CleanupInv, Authenticate, codeVars
  <1>3. RequestsInv' /\ CodeLockInv' /\ RowLockInv' /\ TokensInv'
    BY DEF FlowInv, RequestsInv, CodeLockInv, InTransaction, Stored, RowLockInv, TokensInv,
        Authenticate, clientVars, userVars, codeVars
  <1> QED BY <1>1, <1>2, <1>3 DEF FlowInv

(* destroy_token_code removes a code that no transaction holds.            *)
LEMMA DestroyCodeStep ==
    ASSUME FlowInv, NEW e \in Exchanges, DestroyCode(e)
    PROVE  FlowInv'
  <1>1. TypeOK'
    <2>1. \/ [codes[exchange[e].code] EXCEPT !.state = "gone"] \in CodeRow
          \/ exchange[e].code \notin Codes
      BY DEF FlowInv, TypeOK, CodeRow
    <2>2. codes' \in [Codes -> CodeRow]
      BY <2>1 DEF FlowInv, TypeOK, DestroyCode
    <2>3. NoExchange \in Exchange
      BY FlowAssumption, ClientsAssumption DEF NoExchange, NoRow, Exchange, ClientRow,
          ClientTypes, Secrets, UserStates, Times
    <2>4. exchange' \in [Exchanges -> Exchange]
      BY <2>3 DEF FlowInv, TypeOK, DestroyCode
    <2>5. exchange[e].code \in Codes
      BY DEF FlowInv, RequestsInv, DestroyCode
    <2>6. spent' \subseteq Codes
      BY <2>5 DEF FlowInv, TypeOK, DestroyCode
    <2> QED BY <2>1, <2>2, <2>3, <2>4, <2>5, <2>6 DEF FlowInv, TypeOK, ClientTypeOK,
        DestroyCode, clientVars, userVars
  <1>2. CleanupInv'
    BY DEF FlowInv, CleanupInv, DestroyCode
  <1>3. TokensInv'
    BY DEF FlowInv, TokensInv, TypeOK, DestroyCode
  <1>4. RequestsInv' /\ CodeLockInv' /\ RowLockInv'
    BY DEF FlowInv, RequestsInv, CodeLockInv, InTransaction, Stored, RowLockInv, DestroyCode,
        NoExchange, NoRow, clientVars, userVars
  <1> QED BY <1>1, <1>2, <1>3, <1>4 DEF FlowInv

(* A code that is gone or expired is removed and answered for.             *)
LEMMA TakeNothingStep ==
    ASSUME FlowInv, NEW e \in Exchanges, TakeNothing(e)
    PROVE  FlowInv'
  <1>1. TypeOK'
    <2>1. \/ [codes[exchange[e].code] EXCEPT !.state = "gone"] \in CodeRow
          \/ exchange[e].code \notin Codes
      BY DEF FlowInv, TypeOK, CodeRow
    <2>2. codes' \in [Codes -> CodeRow]
      BY <2>1 DEF FlowInv, TypeOK, TakeNothing
    <2>3. NoExchange \in Exchange
      BY FlowAssumption, ClientsAssumption DEF NoExchange, NoRow, Exchange, ClientRow,
          ClientTypes, Secrets, UserStates, Times
    <2>4. exchange' \in [Exchanges -> Exchange]
      BY <2>3 DEF FlowInv, TypeOK, TakeNothing
    <2>5. exchange[e].code \in Codes
      BY DEF FlowInv, RequestsInv, TakeNothing
    <2>6. spent' \subseteq Codes
      BY <2>5 DEF FlowInv, TypeOK, TakeNothing
    <2> QED BY <2>1, <2>2, <2>3, <2>4, <2>5, <2>6 DEF FlowInv, TypeOK, ClientTypeOK,
        TakeNothing, clientVars, userVars
  <1>2. CleanupInv'
    BY DEF FlowInv, CleanupInv, TakeNothing
  <1>3. TokensInv'
    BY DEF FlowInv, TokensInv, TypeOK, TakeNothing
  <1>4. RequestsInv' /\ CodeLockInv' /\ RowLockInv'
    BY DEF FlowInv, RequestsInv, CodeLockInv, InTransaction, Stored, RowLockInv, TakeNothing,
        NoExchange, NoRow, clientVars, userVars
  <1> QED BY <1>1, <1>2, <1>3, <1>4 DEF FlowInv

(* A code that is good is locked by the exchange, which is then alone with *)
(* it.                                                                     *)
LEMMA TakeCodeStep ==
    ASSUME FlowInv, NEW e \in Exchanges, TakeCode(e)
    PROVE  FlowInv'
  <1>1. TypeOK'
    <2>1. [exchange[e] EXCEPT !.pc = "client"] \in Exchange
      BY DEF FlowInv, TypeOK, Exchange
    <2>2. exchange' \in [Exchanges -> Exchange]
      BY <2>1 DEF FlowInv, TypeOK, TakeCode
    <2>3. codeLock' \in [Codes -> Exchanges \cup {Nobody, UserWriter}]
      BY DEF FlowInv, TypeOK, TakeCode
    <2> QED BY <2>1, <2>2, <2>3 DEF FlowInv, TypeOK, ClientTypeOK, TakeCode, clientVars,
        userVars
  <1>2. CodeLockInv'
    BY ClientsAssumption, FlowAssumption DEF FlowInv, CodeLockInv, InTransaction, Stored,
        RequestsInv, TypeOK, TakeCode, userVars
  <1>3. CleanupInv'
    BY DEF FlowInv, CleanupInv, TakeCode
  <1>4. RequestsInv' /\ RowLockInv' /\ TokensInv'
    BY DEF FlowInv, RequestsInv, RowLockInv, TokensInv, TakeCode, clientVars, userVars
  <1> QED BY <1>1, <1>2, <1>3, <1>4 DEF FlowInv

(* The client that is read is the client that is locked.                   *)
LEMMA LockClientStep ==
    ASSUME FlowInv, NEW e \in Exchanges, LockClient(e)
    PROVE  FlowInv'
  <1>1. TypeOK'
    <2>1. codes[exchange[e].code].client \in Clients
      BY DEF FlowInv, RequestsInv, LockClient
    <2>2. [exchange[e] EXCEPT !.pc = "user",
                                !.row = clients[codes[exchange[e].code].client]] \in Exchange
      BY <2>1 DEF FlowInv, TypeOK, ClientTypeOK, Exchange
    <2>3. exchange' \in [Exchanges -> Exchange]
      BY <2>2 DEF FlowInv, TypeOK, LockClient
    <2>4. clientLock' \in [Clients -> Exchanges \cup {Nobody}]
      BY DEF FlowInv, TypeOK, ClientTypeOK, LockClient
    <2> QED BY <2>1, <2>2, <2>3, <2>4 DEF FlowInv, TypeOK, ClientTypeOK, LockClient, userVars,
        codeVars
  <1>2. RequestsInv'
    BY DEF FlowInv, RequestsInv, TypeOK, LockClient, userVars, codeVars
  <1>3. CodeLockInv'
    BY DEF FlowInv, CodeLockInv, InTransaction, Stored, TypeOK, LockClient, userVars, codeVars
  <1>4. RowLockInv'
    <2> DEFINE c == codes[exchange[e].code].client
    <2>1. exchange[e].pc = "client" /\ UNCHANGED <<clients, codes, userVars>>
      BY DEF LockClient, codeVars
    <2>2. c \in Clients /\ exchange[e] \in Exchange
      BY <2>1 DEF FlowInv, TypeOK, RequestsInv
    <2>3. /\ exchange'[e].code = exchange[e].code /\ exchange'[e].row = clients[c]
          /\ exchange'[e].pc = "user"
          /\ \A x \in Exchanges \ {e} : exchange'[x] = exchange[x]
      BY <2>2 DEF FlowInv, TypeOK, LockClient, Exchange
    <2>4. /\ clients[c].state = "present" => clientLock'[c] = e
          /\ \A d \in Clients : clientLock[d] # Nobody => clientLock'[d] = clientLock[d]
      BY <2>2 DEF FlowInv, TypeOK, ClientTypeOK, LockClient, Present, Unlocked
    <2>5. \A x \in Exchanges : exchange[x].pc # "idle" => codes[exchange[x].code].client \in Clients
      BY DEF FlowInv, RequestsInv
    <2>6. \A x \in Exchanges : exchange'[x].pc \in {"user", "wait", "commit"} =>
             LET d == codes'[exchange'[x].code].client
             IN  exchange'[x].row.state = "present" =>
                    clientLock'[d] = x /\ clients'[d] = exchange'[x].row
      BY <2>1, <2>3, <2>4, <2>5, ClientsAssumption DEF FlowInv, RowLockInv
    <2>7. \A x \in Exchanges : exchange'[x].pc = "commit" /\ exchange'[x].status # "Absent" =>
             LET v == codes'[exchange'[x].code].user
             IN  userLock'[v] = x /\ userStatus'[v] = exchange'[x].status
      BY <2>1, <2>3 DEF FlowInv, RowLockInv, userVars
    <2> QED BY <2>1, <2>6, <2>7 DEF FlowInv, RowLockInv, userVars
  <1>5. CleanupInv'
    BY DEF FlowInv, CleanupInv, LockClient, codeVars
  <1>6. TokensInv'
    BY DEF FlowInv, TokensInv, LockClient, codeVars
  <1> QED BY <1>1, <1>2, <1>3, <1>4, <1>5, <1>6 DEF FlowInv

(* The user that is read is the user that is locked.                       *)
LEMMA LockUserStep ==
    ASSUME FlowInv, NEW e \in Exchanges, LockUser(e)
    PROVE  FlowInv'
  <1>1. TypeOK'
    <2>1. codes[exchange[e].code].user \in Users
      BY DEF FlowInv, RequestsInv, LockUser
    <2>2. [exchange[e] EXCEPT !.pc = "commit",
                                !.status = userStatus[codes[exchange[e].code].user]] \in Exchange
      BY <2>1 DEF FlowInv, TypeOK, Exchange
    <2>3. exchange' \in [Exchanges -> Exchange]
      BY <2>2 DEF FlowInv, TypeOK, LockUser
    <2>4. userLock' \in [Users -> Exchanges \cup {Nobody, UserWriter}]
      BY DEF FlowInv, TypeOK, LockUser
    <2> QED BY <2>1, <2>2, <2>3, <2>4 DEF FlowInv, TypeOK, ClientTypeOK, LockUser, clientVars,
        codeVars
  <1>2. RequestsInv'
    BY DEF FlowInv, RequestsInv, TypeOK, LockUser, clientVars, codeVars
  <1>3. CodeLockInv'
    BY DEF FlowInv, CodeLockInv, InTransaction, Stored, TypeOK, LockUser, codeVars
  <1>4. RowLockInv'
    <2> DEFINE u == codes[exchange[e].code].user
    <2>0. exchange[e].pc = "user" /\ UNCHANGED <<clients, clientLock, codes, userStatus, writer>>
      BY DEF LockUser, clientVars, codeVars
    <2>1. u \in Users /\ exchange[e] \in Exchange
      BY DEF FlowInv, TypeOK, RequestsInv, LockUser
    <2>2. /\ exchange'[e].code = exchange[e].code /\ exchange'[e].row = exchange[e].row
          /\ exchange'[e].pc = "commit" /\ exchange'[e].status = userStatus[u]
          /\ \A x \in Exchanges \ {e} : exchange'[x] = exchange[x]
      BY <2>1 DEF FlowInv, TypeOK, LockUser, Exchange
    <2>3. /\ userStatus[u] # "Absent" => userLock[u] = Nobody /\ userLock'[u] = e
          /\ \A v \in Users : userLock[v] # Nobody => userLock'[v] = userLock[v]
      BY <2>1 DEF FlowInv, TypeOK, LockUser
    <2>4. \A x \in Exchanges : exchange[x].pc # "idle" => codes[exchange[x].code].user \in Users
      BY DEF FlowInv, RequestsInv
    <2>5. writer'.pc = "commit" => userLock'[writer'.user] = UserWriter
      BY <2>3, FlowAssumption DEF FlowInv, RowLockInv, RequestsInv, LockUser
    <2>6. \A x \in Exchanges : exchange'[x].pc \in {"user", "wait", "commit"} =>
             LET c == codes'[exchange'[x].code].client
             IN  exchange'[x].row.state = "present" =>
                    clientLock'[c] = x /\ clients'[c] = exchange'[x].row
      BY <2>0, <2>2 DEF FlowInv, RowLockInv
    <2>7. \A x \in Exchanges : exchange'[x].pc = "commit" /\ exchange'[x].status # "Absent" =>
             LET v == codes'[exchange'[x].code].user
             IN  userLock'[v] = x /\ userStatus'[v] = exchange'[x].status
      BY <2>0, <2>2, <2>3, <2>4, ClientsAssumption DEF FlowInv, RowLockInv
    <2> QED BY <2>5, <2>6, <2>7 DEF RowLockInv
  <1>5. CleanupInv'
    BY DEF FlowInv, CleanupInv, LockUser, codeVars
  <1>6. TokensInv'
    BY DEF FlowInv, TokensInv, LockUser, clientVars, codeVars
  <1> QED BY <1>1, <1>2, <1>3, <1>4, <1>5, <1>6 DEF FlowInv

(* An exchange that waits for the user keeps the locks it has.             *)
LEMMA WaitForUserStep ==
    ASSUME FlowInv, NEW e \in Exchanges, WaitForUser(e)
    PROVE  FlowInv'
  <1>1. TypeOK'
    <2>1. [exchange[e] EXCEPT !.pc = "wait"] \in Exchange
      BY DEF FlowInv, TypeOK, Exchange
    <2>2. exchange' \in [Exchanges -> Exchange]
      BY <2>1 DEF FlowInv, TypeOK, WaitForUser
    <2> QED BY <2>1, <2>2 DEF FlowInv, TypeOK, ClientTypeOK, WaitForUser, clientVars, userVars,
        codeVars
  <1>2. CleanupInv'
    BY DEF FlowInv, CleanupInv, WaitForUser, codeVars
  <1>3. RequestsInv' /\ CodeLockInv' /\ RowLockInv' /\ TokensInv'
    BY DEF FlowInv, RequestsInv, CodeLockInv, InTransaction, Stored, RowLockInv, TokensInv,
        WaitForUser, clientVars, userVars, codeVars
  <1> QED BY <1>1, <1>2, <1>3 DEF FlowInv

(* A commit removes the code, so the one token response it may cause is    *)
(* the first and the last.                                                 *)
LEMMA CommitExchangeStep ==
    ASSUME FlowInv, NEW e \in Exchanges, CommitExchange(e)
    PROVE  FlowInv'
  <1>1. TypeOK'
    <2>1. exchange[e].code \in Codes
      BY DEF FlowInv, RequestsInv, CommitExchange
    <2>2. [codes[exchange[e].code] EXCEPT !.state = "gone"] \in CodeRow
      BY <2>1 DEF FlowInv, TypeOK, CodeRow
    <2>3. codes' \in [Codes -> CodeRow]
      BY <2>2 DEF FlowInv, TypeOK, CommitExchange
    <2>4. NoExchange \in Exchange
      BY FlowAssumption, ClientsAssumption DEF NoExchange, NoRow, Exchange, ClientRow,
          ClientTypes, Secrets, UserStates, Times
    <2>5. exchange' \in [Exchanges -> Exchange]
      BY <2>4 DEF FlowInv, TypeOK, CommitExchange, EndTransaction
    <2>6. spent' \subseteq Codes /\ tokens' \in [Codes -> Nat]
      BY <2>1 DEF FlowInv, TypeOK, CommitExchange
    <2>7. codeLock' \in [Codes -> Exchanges \cup {Nobody, UserWriter}]
      BY DEF FlowInv, TypeOK, CommitExchange, EndTransaction, Released
    <2>8. userLock' \in [Users -> Exchanges \cup {Nobody, UserWriter}]
      BY DEF FlowInv, TypeOK, CommitExchange, EndTransaction, Released
    <2>9. clientLock' \in [Clients -> Exchanges \cup {Nobody}]
      BY DEF FlowInv, TypeOK, ClientTypeOK, CommitExchange, EndTransaction, Released
    <2> QED BY <2>1, <2>2, <2>3, <2>4, <2>5, <2>6, <2>7, <2>8, <2>9 DEF FlowInv, TypeOK,
        ClientTypeOK, CommitExchange, EndTransaction
  <1>2. CodeLockInv'
    BY FlowAssumption DEF FlowInv, CodeLockInv, InTransaction, Stored, RequestsInv, TypeOK,
        CommitExchange, EndTransaction, Released, NoExchange, NoRow
  <1>3. RowLockInv'
    <2>1. /\ UNCHANGED <<clients, userStatus, writer>>
          /\ \A x \in Exchanges : x # e => exchange'[x] = exchange[x]
          /\ exchange'[e].pc = "idle"
      BY DEF FlowInv, TypeOK, CommitExchange, EndTransaction, NoExchange
    <2>2. \A k \in Codes : codes'[k].client = codes[k].client /\ codes'[k].user = codes[k].user
      BY DEF FlowInv, TypeOK, CodeRow, CommitExchange
    <2>3. \A c \in Clients : clientLock[c] # e => clientLock'[c] = clientLock[c]
      BY DEF FlowInv, TypeOK, ClientTypeOK, CommitExchange, EndTransaction, Released
    <2>4. \A u \in Users : userLock[u] # e => userLock'[u] = userLock[u]
      BY DEF FlowInv, TypeOK, CommitExchange, EndTransaction, Released
    <2>5. \A x \in Exchanges : exchange[x].pc # "idle" =>
             /\ exchange[x].code \in Codes
             /\ codes[exchange[x].code].client \in Clients
             /\ codes[exchange[x].code].user \in Users
      BY DEF FlowInv, RequestsInv
    <2> QED BY <2>1, <2>2, <2>3, <2>4, <2>5, FlowAssumption DEF FlowInv, RowLockInv, RequestsInv
  <1>4. CleanupInv'
    BY DEF FlowInv, CleanupInv, CommitExchange, EndTransaction, Released
  <1>5. TokensInv'
    BY ClientsAssumption DEF FlowInv, TokensInv, CodeLockInv, InTransaction, Stored, TypeOK,
        CommitExchange, EndTransaction, Released
  <1>6. RequestsInv'
    BY DEF FlowInv, RequestsInv, CommitExchange, EndTransaction, Released, NoExchange, NoRow
  <1> QED BY <1>1, <1>2, <1>3, <1>4, <1>5, <1>6 DEF FlowInv

(* A commit whose answer is lost removes the code without a token          *)
(* response.                                                               *)
LEMMA CommitUnansweredStep ==
    ASSUME FlowInv, NEW e \in Exchanges, CommitUnanswered(e)
    PROVE  FlowInv'
  <1>1. TypeOK'
    <2>1. exchange[e].code \in Codes
      BY DEF FlowInv, RequestsInv, CommitUnanswered
    <2>2. [codes[exchange[e].code] EXCEPT !.state = "gone"] \in CodeRow
      BY <2>1 DEF FlowInv, TypeOK, CodeRow
    <2>3. codes' \in [Codes -> CodeRow]
      BY <2>2 DEF FlowInv, TypeOK, CommitUnanswered
    <2>4. NoExchange \in Exchange
      BY FlowAssumption, ClientsAssumption DEF NoExchange, NoRow, Exchange, ClientRow,
          ClientTypes, Secrets, UserStates, Times
    <2>5. exchange' \in [Exchanges -> Exchange]
      BY <2>4 DEF FlowInv, TypeOK, CommitUnanswered, EndTransaction
    <2>6. spent' \subseteq Codes /\ tokens' \in [Codes -> Nat]
      BY <2>1 DEF FlowInv, TypeOK, CommitUnanswered
    <2>7. codeLock' \in [Codes -> Exchanges \cup {Nobody, UserWriter}]
      BY DEF FlowInv, TypeOK, CommitUnanswered, EndTransaction, Released
    <2>8. userLock' \in [Users -> Exchanges \cup {Nobody, UserWriter}]
      BY DEF FlowInv, TypeOK, CommitUnanswered, EndTransaction, Released
    <2>9. clientLock' \in [Clients -> Exchanges \cup {Nobody}]
      BY DEF FlowInv, TypeOK, ClientTypeOK, CommitUnanswered, EndTransaction, Released
    <2> QED BY <2>1, <2>2, <2>3, <2>4, <2>5, <2>6, <2>7, <2>8, <2>9 DEF FlowInv, TypeOK,
        ClientTypeOK, CommitUnanswered, EndTransaction
  <1>2. CodeLockInv'
    BY FlowAssumption DEF FlowInv, CodeLockInv, InTransaction, Stored, RequestsInv, TypeOK,
        CommitUnanswered, EndTransaction, Released, NoExchange, NoRow
  <1>3. RowLockInv'
    BY FlowAssumption DEF FlowInv, RowLockInv, RequestsInv, TypeOK, ClientTypeOK,
        CommitUnanswered, EndTransaction, Released, NoExchange, NoRow
  <1>4. CleanupInv'
    BY DEF FlowInv, CleanupInv, CommitUnanswered, EndTransaction, Released
  <1>5. RequestsInv' /\ TokensInv'
    BY DEF FlowInv, RequestsInv, TokensInv, CommitUnanswered, EndTransaction, Released,
        NoExchange, NoRow
  <1> QED BY <1>1, <1>2, <1>3, <1>4, <1>5 DEF FlowInv

(* An exchange that rolls back gives its locks back and the code stays.    *)
LEMMA AbortExchangeStep ==
    ASSUME FlowInv, NEW e \in Exchanges, AbortExchange(e)
    PROVE  FlowInv'
  <1>1. TypeOK'
    BY ClientsAssumption, FlowAssumption DEF FlowInv, TypeOK, ClientTypeOK, ClientRow, Edit,
        Exchange, Times, Secrets, ClientTypes, UserStates, AbortExchange, EndTransaction,
        Released, NoExchange, NoRow
  <1>2. CodeLockInv'
    BY FlowAssumption DEF FlowInv, CodeLockInv, InTransaction, Stored, RequestsInv, TypeOK,
        AbortExchange, EndTransaction, Released, NoExchange, NoRow
  <1>3. RowLockInv'
    BY FlowAssumption DEF FlowInv, RowLockInv, RequestsInv, TypeOK, ClientTypeOK, AbortExchange,
        EndTransaction, Released, NoExchange, NoRow
  <1>4. CleanupInv'
    BY DEF FlowInv, CleanupInv, AbortExchange, EndTransaction, Released
  <1>5. RequestsInv' /\ TokensInv'
    BY DEF FlowInv, RequestsInv, TokensInv, AbortExchange, EndTransaction, Released, NoExchange,
        NoRow
  <1> QED BY <1>1, <1>2, <1>3, <1>4, <1>5 DEF FlowInv

(* create_oauth_client uses a new id, which no transaction has locked.     *)
LEMMA CreateClientStep ==
    ASSUME FlowInv, NEW c \in Clients, NEW type \in ClientTypes, NEW enabled \in BOOLEAN, NEW
        scopes \in SUBSET Scopes, CreateClient(c, type, enabled, scopes), UNCHANGED <<now,
        session, userVars, csrf, approval, codeVars, exchange>>
    PROVE  FlowInv'
  <1>1. TypeOK'
    BY ClientsAssumption DEF FlowInv, TypeOK, ClientTypeOK, Edit, ClientRow, Secrets,
        ClientTypes, CreateClient, userVars, codeVars
  <1>2. CleanupInv'
    BY DEF FlowInv, CleanupInv, CreateClient, codeVars
  <1>3. RequestsInv' /\ CodeLockInv' /\ RowLockInv' /\ TokensInv'
    BY DEF FlowInv, RequestsInv, CodeLockInv, InTransaction, Stored, RowLockInv, TokensInv,
        CreateClient, userVars, codeVars
  <1> QED BY <1>1, <1>2, <1>3 DEF FlowInv

(* delete_oauth_client waits for the exchange that holds the row.          *)
LEMMA DeleteClientStep ==
    ASSUME FlowInv, NEW c \in Clients, DeleteClient(c), UNCHANGED <<now, session, userVars,
        csrf, approval, codeVars, exchange>>
    PROVE  FlowInv'
  <1>1. TypeOK'
    <2>1. [clients[c] EXCEPT !.state = "deleted"] \in ClientRow
      BY DEF FlowInv, TypeOK, ClientTypeOK, ClientRow
    <2>2. clients' \in [Clients -> ClientRow]
      BY <2>1 DEF FlowInv, TypeOK, ClientTypeOK, DeleteClient
    <2> QED BY <2>1, <2>2 DEF FlowInv, TypeOK, ClientTypeOK, DeleteClient, userVars, codeVars
  <1>2. RowLockInv'
    BY ClientsAssumption DEF FlowInv, RowLockInv, DeleteClient, Present, Unlocked, userVars,
        codeVars
  <1>3. CleanupInv'
    BY DEF FlowInv, CleanupInv, DeleteClient, codeVars
  <1>4. RequestsInv' /\ CodeLockInv' /\ TokensInv'
    BY DEF FlowInv, RequestsInv, CodeLockInv, InTransaction, Stored, TokensInv, DeleteClient,
        userVars, codeVars
  <1> QED BY <1>1, <1>2, <1>3, <1>4 DEF FlowInv

(* update_oauth_client reads a row that exists.                            *)
LEMMA ReadForUpdateStep ==
    ASSUME FlowInv, NEW h \in Editors, NEW c \in Clients, NEW enabled \in BOOLEAN, NEW scopes
        \in SUBSET Scopes, ReadForUpdate(h, c, enabled, scopes), UNCHANGED <<now, session,
        userVars, csrf, approval, codeVars, exchange>>
    PROVE  FlowInv'
  <1>1. TypeOK'
    BY DEF FlowInv, TypeOK, ClientTypeOK, Edit, Secrets, ClientTypes, ReadForUpdate, userVars,
        codeVars
  <1>2. CleanupInv'
    BY DEF FlowInv, CleanupInv, ReadForUpdate, codeVars
  <1>3. RequestsInv' /\ CodeLockInv' /\ RowLockInv' /\ TokensInv'
    BY DEF FlowInv, RequestsInv, CodeLockInv, InTransaction, Stored, RowLockInv, TokensInv,
        ReadForUpdate, Present, userVars, codeVars
  <1> QED BY <1>1, <1>2, <1>3 DEF FlowInv

(* regenerate_oauth_client_secret reads a row that exists.                 *)
LEMMA ReadForRegenerateStep ==
    ASSUME FlowInv, NEW h \in Editors, NEW c \in Clients, ReadForRegenerate(h, c), UNCHANGED
        <<now, session, userVars, csrf, approval, codeVars, exchange>>
    PROVE  FlowInv'
  <1>1. TypeOK'
    BY DEF FlowInv, TypeOK, ClientTypeOK, Edit, Secrets, ClientTypes, ReadForRegenerate,
        Present, NoEdit, userVars, codeVars
  <1>2. CleanupInv'
    BY DEF FlowInv, CleanupInv, ReadForRegenerate, codeVars
  <1>3. RequestsInv' /\ CodeLockInv' /\ RowLockInv' /\ TokensInv'
    BY DEF FlowInv, RequestsInv, CodeLockInv, InTransaction, Stored, RowLockInv, TokensInv,
        ReadForRegenerate, Present, NoEdit, userVars, codeVars
  <1> QED BY <1>1, <1>2, <1>3 DEF FlowInv

(* The write of an update waits for the exchange that holds the row.       *)
LEMMA WriteUpdateStep ==
    ASSUME FlowInv, NEW h \in Editors, WriteUpdate(h), UNCHANGED <<now, session, userVars, csrf,
        approval, codeVars, exchange>>
    PROVE  FlowInv'
  <1>1. TypeOK'
    <2>1. edit[h] \in Edit
      BY DEF FlowInv, TypeOK, ClientTypeOK
    <2>2. UpdatedRow(h) \in ClientRow
      BY <2>1 DEF UpdatedRow, Edit, ClientRow
    <2>3. clients' \in [Clients -> ClientRow]
      BY <2>2 DEF FlowInv, TypeOK, ClientTypeOK, WriteUpdate, WriteRow
    <2>4. NoEdit \in Edit
      BY ClientsAssumption DEF NoEdit, NoRow, Edit, ClientRow, ClientTypes, Secrets
    <2>5. edit' \in [Editors -> Edit]
      BY <2>4 DEF FlowInv, TypeOK, ClientTypeOK, WriteUpdate, EndEdit
    <2> QED BY <2>1, <2>2, <2>3, <2>4, <2>5 DEF FlowInv, TypeOK, ClientTypeOK, WriteUpdate,
        userVars, codeVars
  <1>2. RowLockInv'
    BY ClientsAssumption DEF FlowInv, RowLockInv, WriteUpdate, WriteRow, UpdatedRow, EndEdit,
        Present, Unlocked, NoEdit, NoRow, userVars, codeVars
  <1>3. CleanupInv'
    BY DEF FlowInv, CleanupInv, WriteUpdate, WriteRow, UpdatedRow, EndEdit, codeVars
  <1>4. RequestsInv' /\ CodeLockInv' /\ TokensInv'
    BY DEF FlowInv, RequestsInv, CodeLockInv, InTransaction, Stored, TokensInv, WriteUpdate,
        WriteRow, UpdatedRow, EndEdit, Present, Unlocked, NoEdit, NoRow, userVars, codeVars
  <1> QED BY <1>1, <1>2, <1>3, <1>4 DEF FlowInv

(* The write of a new secret waits for the exchange that holds the row.    *)
LEMMA WriteRegenerateStep ==
    ASSUME FlowInv, NEW h \in Editors, WriteRegenerate(h), UNCHANGED <<now, session, userVars,
        csrf, approval, codeVars, exchange>>
    PROVE  FlowInv'
  <1>1. TypeOK'
    <2>1. edit[h].client \in Clients
      BY DEF FlowInv, RequestsInv, WriteRegenerate
    <2>2. lastSecret[edit[h].client] + 1 \in Secrets
      BY <2>1 DEF FlowInv, TypeOK, ClientTypeOK, WriteRegenerate, Secrets
    <2>3. edit[h].read \in ClientRow
      BY DEF FlowInv, TypeOK, ClientTypeOK, Edit
    <2>4. [edit[h].read EXCEPT !.secret = lastSecret[edit[h].client] + 1] \in ClientRow
      BY <2>3, <2>1, <2>2 DEF ClientRow
    <2>5. clients' \in [Clients -> ClientRow]
      BY <2>4 DEF FlowInv, TypeOK, ClientTypeOK, WriteRegenerate, WriteRow
    <2>6. NoEdit \in Edit
      BY ClientsAssumption DEF NoEdit, NoRow, Edit, ClientRow, ClientTypes, Secrets
    <2>7. edit' \in [Editors -> Edit]
      BY <2>6 DEF FlowInv, TypeOK, ClientTypeOK, WriteRegenerate, EndEdit
    <2>8. lastSecret' \in [Clients -> Secrets] /\ answered' \in [Clients -> Secrets]
      BY <2>1, <2>2 DEF FlowInv, TypeOK, ClientTypeOK, WriteRegenerate
    <2> QED BY <2>1, <2>2, <2>3, <2>4, <2>5, <2>6, <2>7, <2>8 DEF FlowInv, TypeOK, ClientTypeOK,
        WriteRegenerate, userVars, codeVars
  <1>2. RowLockInv'
    BY ClientsAssumption DEF FlowInv, RowLockInv, WriteRegenerate, WriteRow, EndEdit, Present,
        Unlocked, NoEdit, NoRow, userVars, codeVars
  <1>3. CleanupInv'
    BY DEF FlowInv, CleanupInv, WriteRegenerate, WriteRow, EndEdit, codeVars
  <1>4. RequestsInv' /\ CodeLockInv' /\ TokensInv'
    BY DEF FlowInv, RequestsInv, CodeLockInv, InTransaction, Stored, TokensInv, WriteRegenerate,
        WriteRow, EndEdit, Present, Unlocked, NoEdit, NoRow, userVars, codeVars
  <1> QED BY <1>1, <1>2, <1>3, <1>4 DEF FlowInv

(* A management request that fails leaves the row as it is.                *)
LEMMA AbortEditStep ==
    ASSUME FlowInv, NEW h \in Editors, AbortEdit(h), UNCHANGED <<now, session, userVars, csrf,
        approval, codeVars, exchange>>
    PROVE  FlowInv'
  <1>1. TypeOK'
    BY ClientsAssumption DEF FlowInv, TypeOK, ClientTypeOK, Edit, ClientRow, Secrets,
        ClientTypes, AbortEdit, EndEdit, NoEdit, NoRow, userVars, codeVars
  <1>2. CleanupInv'
    BY DEF FlowInv, CleanupInv, AbortEdit, EndEdit, codeVars
  <1>3. RequestsInv' /\ CodeLockInv' /\ RowLockInv' /\ TokensInv'
    BY DEF FlowInv, RequestsInv, CodeLockInv, InTransaction, Stored, RowLockInv, TokensInv,
        AbortEdit, EndEdit, NoEdit, NoRow, userVars, codeVars
  <1> QED BY <1>1, <1>2, <1>3 DEF FlowInv

(* A step of a management handler leaves the flow as it is.                *)
LEMMA ManageClientsStep ==
    ASSUME FlowInv, ManageClients
    PROVE  FlowInv'
  <1>1. UNCHANGED <<now, session, userVars, csrf, approval, codeVars, exchange>>
    BY DEF ManageClients
  <1> QED
    BY <1>1, CreateClientStep, DeleteClientStep, ReadForUpdateStep, ReadForRegenerateStep,
        WriteUpdateStep, WriteRegenerateStep, AbortEditStep DEF ManageClients, ClientNext

(* A step of a token request keeps the invariant.                          *)
LEMMA RedeemStep ==
    ASSUME FlowInv, NEW e \in Exchanges, Redeem(e)
    PROVE  FlowInv'
  BY AuthenticateStep, DestroyCodeStep, TakeNothingStep, TakeCodeStep, LockClientStep,
     LockUserStep, WaitForUserStep, CommitExchangeStep, CommitUnansweredStep, AbortExchangeStep
  DEF Redeem

(* Empty tables satisfy the invariant.                                     *)
LEMMA InitialInvariant == Init => FlowInv
  <1> SUFFICES ASSUME Init PROVE FlowInv
    OBVIOUS
  <1>1. NoRow \in ClientRow
    BY ClientsAssumption DEF NoRow, ClientRow, ClientTypes, Secrets
  <1>2. NoExchange \in Exchange /\ NoEdit \in Edit /\ NoApproval \in Approval
    BY <1>1, ClientsAssumption, FlowAssumption DEF NoExchange, Exchange, NoEdit, Edit,
        NoApproval, Approval, Secrets, Times, UserStates
  <1>3. NoCode \in CodeRow /\ NoWriter \in Writer
    BY FlowAssumption DEF NoCode, CodeRow, NoWriter, Writer, Times, UserStates
  <1>4. ClientTypeOK
    BY <1>1, <1>2, ClientsAssumption DEF Init, ClientInit, ClientTypeOK, Secrets
  <1>5. TypeOK
    BY <1>2, <1>3, <1>4, FlowAssumption DEF Init, TypeOK, Times, UserStates
  <1>6. RequestsInv
    BY DEF Init, ClientInit, NoEdit, NoApproval, NoExchange, NoCode, NoWriter, RequestsInv
  <1>7. CodeLockInv
    BY FlowAssumption DEF Init, NoExchange, NoWriter, CodeLockInv, InTransaction
  <1>8. RowLockInv /\ TokensInv
    BY DEF Init, NoExchange, NoWriter, RowLockInv, TokensInv
  <1>9. CleanupInv
    BY DEF Init, NoApproval, CleanupInv
  <1> QED BY <1>5, <1>6, <1>7, <1>8, <1>9 DEF FlowInv

(* FlowInv is inductive.                                                   *)
LEMMA InvariantStep == FlowInv /\ [Next]_vars => FlowInv'
  <1> SUFFICES ASSUME FlowInv, [Next]_vars PROVE FlowInv'
    OBVIOUS
  <1>1. CASE Tick \/ ManageClients
    BY <1>1, TickStep, ManageClientsStep
  <1>2. CASE WriteUsers
    BY <1>2, ReplaceUserStep, BeginDeleteUserStep, DeleteUserCodeStep, DeleteUserRowStep,
        CommitUserWriteStep, AbortUserWriteStep DEF WriteUsers
  <1>3. ASSUME NEW u \in Users, Login(u) PROVE FlowInv'
    BY <1>3, LoginStep
  <1>4. ASSUME NEW u \in Users, NEW c \in Clients, NEW scopes \in SUBSET Scopes,
               ShowContext(u, c, scopes)
        PROVE  FlowInv'
    BY <1>4, ShowContextStep
  <1>5. ASSUME NEW a \in Approvals, Approve(a) PROVE FlowInv'
    BY <1>5, ValidateAuthorizationStep, CheckUserStep, ListExpiredStep, DeleteExpiredStep,
        StoreCodeStep, EndApprovalStep DEF Approve
  <1>6. ASSUME NEW e \in Exchanges, Redeem(e) PROVE FlowInv'
    BY <1>6, RedeemStep
  <1>7. CASE UNCHANGED vars
    BY <1>7 DEF vars, clientVars, userVars, codeVars, FlowInv, TypeOK, ClientTypeOK,
        RequestsInv, CodeLockInv, RowLockInv, CleanupInv, TokensInv, InTransaction, Stored
  <1> QED BY <1>1, <1>2, <1>3, <1>4, <1>5, <1>6, <1>7 DEF Next

(* The types, the locks and the tokens of the flow are as FlowInv says, in *)
(* every behaviour.                                                        *)
THEOREM FlowInvariant == Spec => []FlowInv
  BY InitialInvariant, InvariantStep, PTL DEF Spec

(* consume_authorization_code_for_exchange: one code, at most one token    *)
(* response, and none after a request was answered about it.               *)
THEOREM CodesAreSingleUse == Spec => []SingleUse
  <1>1. FlowInv => SingleUse
    BY DEF FlowInv, TokensInv, SingleUse, Stored
  <1> QED BY <1>1, FlowInvariant, PTL

-----------------------------------------------------------------------------
(* Only a commit that is due counts a token response.                      *)
LEMMA TokensChange ==
    ASSUME [Next]_vars, tokens' # tokens
    PROVE  \E x \in Exchanges :
              /\ exchange[x].pc = "commit" /\ Due(exchange[x])
              /\ tokens' = [tokens EXCEPT ![exchange[x].code] = @ + 1]
  <1>1. CASE \E e \in Exchanges : CommitExchange(e)
    BY <1>1 DEF CommitExchange
  <1>2. CASE Tick \/ ManageClients \/ WriteUsers
    BY <1>2 DEF Tick, ManageClients, WriteUsers, ReplaceUser, BeginDeleteUser, DeleteUserCode,
        DeleteUserRow, CommitUserWrite, AbortUserWrite, codeVars
  <1>3. CASE \E u \in Users :
               Login(u) \/ \E c \in Clients, scopes \in SUBSET Scopes : ShowContext(u, c, scopes)
    BY <1>3 DEF Login, ShowContext, codeVars
  <1>4. CASE \E a \in Approvals : Approve(a)
    BY <1>4 DEF Approve, ValidateAuthorization, CheckUser, ListExpired, DeleteExpired,
        EndApproval, StoreCode, codeVars
  <1>5. CASE \E e \in Exchanges : Redeem(e) /\ ~CommitExchange(e)
    BY <1>5 DEF Redeem, Authenticate, DestroyCode, TakeNothing, TakeCode, LockClient, LockUser,
        WaitForUser, CommitUnanswered, AbortExchange, codeVars
  <1>6. CASE UNCHANGED vars
    BY <1>6 DEF vars, codeVars
  <1> QED BY <1>1, <1>2, <1>3, <1>4, <1>5, <1>6 DEF Next

(* What a granting transaction read is still so when it commits.           *)
LEMMA GrantStep ==
    ASSUME FlowInv, [Next]_vars, NEW e \in Exchanges, Granted(e)
    PROVE  GrantAllowed(e)
  <1>1. exchange[e].pc = "commit" /\ exchange[e].code \in Codes
    BY DEF Granted, FlowInv, RequestsInv
  <1>2. tokens' # tokens
    BY <1>1 DEF Granted, FlowInv, TypeOK
  <1>3. PICK x \in Exchanges :
           /\ exchange[x].pc = "commit" /\ Due(exchange[x])
           /\ tokens' = [tokens EXCEPT ![exchange[x].code] = @ + 1]
    BY <1>2, TokensChange
  <1>4. exchange[x].code = exchange[e].code
    BY <1>1, <1>3 DEF Granted, FlowInv, TypeOK
  <1>5. x = e
    BY <1>1, <1>3, <1>4 DEF FlowInv, CodeLockInv, InTransaction
  <1>6. Due(exchange[e])
    BY <1>3, <1>5
  <1>7. clients[codes[exchange[e].code].client] = exchange[e].row
    BY <1>1, <1>6 DEF FlowInv, RowLockInv, Due
  <1>8. userStatus[codes[exchange[e].code].user] = "Active"
    BY <1>1, <1>6 DEF FlowInv, RowLockInv, Due
  <1>9. codes[exchange[e].code].expires > exchange[e].time
    BY <1>1 DEF FlowInv, CodeLockInv, InTransaction
  <1> QED BY <1>6, <1>7, <1>8, <1>9 DEF Due, GrantAllowed

(* exchange_token: the rows it read one after the other allow the grant at *)
(* the moment of the commit.                                               *)
THEOREM GrantsAreDue == Spec => GrantIsDue
  <1>1. FlowInv /\ [Next]_vars => [\A e \in Exchanges : Granted(e) => GrantAllowed(e)]_vars
    BY GrantStep
  <1> QED BY <1>1, FlowInvariant, PTL DEF Spec, GrantIsDue

(* A stored code goes only with its user, by cleanup, or by an exchange    *)
(* that presents it.                                                       *)
LEMMA CodeGoes ==
    ASSUME FlowInv, [Next]_vars, NEW k \in Codes, Stored(k), codes'[k].state # "stored"
    PROVE  MayGo(k)
  <1>1. CASE CommitUserWrite
    BY <1>1 DEF CommitUserWrite, FlowInv, CodeLockInv, Stored, MayGo
  <1>2. ASSUME NEW a \in Approvals, DeleteExpired(a) PROVE MayGo(k)
    <2>1. codes[k].expires <= approval[a].time
      BY <1>2 DEF DeleteExpired, FlowInv, CleanupInv, Stored
    <2>2. approval[a].time <= now
      BY <1>2 DEF FlowInv, RequestsInv, DeleteExpired
    <2>3. codes[k].expires \in Nat /\ approval[a].time \in Nat /\ now \in Nat
      BY DEF FlowInv, TypeOK, CodeRow, Approval, Times
    <2> QED BY <2>1, <2>2, <2>3 DEF MayGo
  <1>3. ASSUME NEW a \in Approvals, NEW j \in Codes, StoreCode(a, j) PROVE MayGo(k)
    BY <1>3 DEF StoreCode, Stored, FlowInv, TypeOK
  <1>4. ASSUME NEW e \in Exchanges,
               \/ DestroyCode(e) \/ TakeNothing(e) \/ CommitExchange(e) \/ CommitUnanswered(e)
        PROVE  MayGo(k)
    <2>1. exchange[e].pc # "idle"
      BY <1>4 DEF DestroyCode, TakeNothing, CommitExchange, CommitUnanswered
    <2>2. exchange[e].code = k
      BY <1>4 DEF DestroyCode, TakeNothing, CommitExchange, CommitUnanswered, Stored, FlowInv,
          TypeOK
    <2> QED BY <2>1, <2>2 DEF MayGo
  <1>5. CASE UNCHANGED codes
    BY <1>5 DEF Stored
  <1>6. CASE Tick \/ ManageClients \/ (WriteUsers /\ ~CommitUserWrite)
    BY <1>5, <1>6 DEF Tick, ManageClients, WriteUsers, ReplaceUser, BeginDeleteUser,
        DeleteUserCode, DeleteUserRow, AbortUserWrite, codeVars
  <1>7. CASE \E u \in Users :
               Login(u) \/ \E c \in Clients, scopes \in SUBSET Scopes : ShowContext(u, c, scopes)
    BY <1>5, <1>7 DEF Login, ShowContext, codeVars
  <1>8. ASSUME NEW a \in Approvals, Approve(a) PROVE MayGo(k)
    BY <1>2, <1>3, <1>5, <1>8 DEF Approve, ValidateAuthorization, CheckUser, ListExpired,
        EndApproval, codeVars
  <1>9. ASSUME NEW e \in Exchanges, Redeem(e) PROVE MayGo(k)
    BY <1>4, <1>5, <1>9 DEF Redeem, Authenticate, TakeCode, LockClient, LockUser, WaitForUser,
        AbortExchange, codeVars
  <1>10. CASE UNCHANGED vars
    BY <1>5, <1>10 DEF vars, codeVars
  <1> QED BY <1>1, <1>6, <1>7, <1>8, <1>9, <1>10 DEF Next

(* approve_authorization and delete_expired_authorization_codes: the       *)
(* cleanup takes no code before its time.                                  *)
THEOREM LiveCodesSurvive == Spec => LiveCodeSurvives
  <1>1. FlowInv /\ [Next]_vars =>
          [\A k \in Codes : Stored(k) /\ codes'[k].state # "stored" => MayGo(k)]_vars
    BY CodeGoes
  <1> QED BY <1>1, FlowInvariant, PTL DEF Spec, LiveCodeSurvives

-----------------------------------------------------------------------------
(* Only the management handlers write clients.                             *)
LEMMA ClientsChange ==
    ASSUME [Next]_vars PROVE UNCHANGED clients \/ ClientNext
  <1>1. CASE ManageClients
    BY <1>1 DEF ManageClients
  <1>2. CASE Tick \/ WriteUsers
    BY <1>2 DEF Tick, WriteUsers, ReplaceUser, BeginDeleteUser, DeleteUserCode, DeleteUserRow,
        CommitUserWrite, AbortUserWrite, clientVars
  <1>3. CASE \E u \in Users :
               Login(u) \/ \E c \in Clients, scopes \in SUBSET Scopes : ShowContext(u, c, scopes)
    BY <1>3 DEF Login, ShowContext, clientVars
  <1>4. CASE \E a \in Approvals : Approve(a)
    BY <1>4 DEF Approve, ValidateAuthorization, CheckUser, ListExpired, DeleteExpired,
        EndApproval, StoreCode, clientVars
  <1>5. CASE \E e \in Exchanges : Redeem(e)
    BY <1>5 DEF Redeem, Authenticate, DestroyCode, TakeNothing, TakeCode, LockClient, LockUser,
        WaitForUser, CommitExchange, CommitUnanswered, AbortExchange, EndTransaction, clientVars
  <1>6. CASE UNCHANGED vars
    BY <1>6 DEF vars, clientVars
  <1> QED BY <1>1, <1>2, <1>3, <1>4, <1>5, <1>6 DEF Next

(* update_oauth_client and regenerate_oauth_client_secret: a write that    *)
(* comes after the deletion finds no row.                                  *)
THEOREM DeletedClientsStay == Spec => DeletedClientStays
  <1>1. FlowInv /\ [Next]_vars =>
          [\A c \in Clients : clients[c].state = "deleted" => clients'[c] = clients[c]]_vars
    <2> SUFFICES ASSUME FlowInv, [Next]_vars, NEW c \in Clients, clients[c].state = "deleted"
                 PROVE  clients'[c] = clients[c]
      OBVIOUS
    <2>1. clients \in [Clients -> ClientRow]
      BY DEF FlowInv, TypeOK, ClientTypeOK
    <2>2. CASE ClientNext
      BY <2>1, <2>2 DEF ClientNext, CreateClient, DeleteClient, ReadForUpdate,
          ReadForRegenerate, WriteUpdate, WriteRegenerate, WriteRow, AbortEdit, Present
    <2> QED BY <2>2, ClientsChange
  <1> QED BY <1>1, FlowInvariant, PTL DEF Spec, DeletedClientStays

-----------------------------------------------------------------------------
(* Where no lock, no exchange and no writer changes, the holders stay: a   *)
(* stored code keeps its user.                                             *)
LEMMA SameHolders ==
    ASSUME SignInInv, UNCHANGED <<codeLock, clientLock, userLock, exchange, writer>>,
           \A k \in Codes : codes[k].state # "unused" => codes'[k].user = codes[k].user
    PROVE  HoldersInv'
  BY DEF SignInInv, FlowInv, RequestsInv, HoldersInv, InTransaction

(* The writer's own steps up to its end: no exchange and no client lock    *)
(* changes.                                                                *)
LEMMA WriterHolds ==
    ASSUME SignInInv,
           \/ \E u \in Users : BeginDeleteUser(u) \/ \E s \in UserStates : ReplaceUser(u, s)
           \/ \E k \in Codes : DeleteUserCode(k)
           \/ DeleteUserRow
    PROVE  HoldersInv'
  <1>1. ASSUME NEW u \in Users, BeginDeleteUser(u) PROVE HoldersInv'
    <2>1. \A k \in Codes : codeLock[k] # UserWriter
      BY <1>1 DEF BeginDeleteUser, SignInInv, FlowInv, CodeLockInv
    <2>2. \A v \in Users : userLock[v] # UserWriter
      BY <1>1 DEF BeginDeleteUser, SignInInv, HoldersInv
    <2> QED BY <1>1, <2>1, <2>2 DEF BeginDeleteUser, SignInInv, HoldersInv, InTransaction,
          clientVars, codeVars
  <1>2. ASSUME NEW u \in Users, NEW s \in UserStates, ReplaceUser(u, s) PROVE HoldersInv'
    <2>1. \A v \in Users : userLock[v] # UserWriter
      BY <1>2 DEF ReplaceUser, SignInInv, HoldersInv
    <2>2. /\ userLock' \in [Users -> Exchanges \cup {Nobody, UserWriter}]
          /\ userLock'[u] = UserWriter
          /\ \A v \in Users \ {u} : userLock'[v] = userLock[v]
      BY <1>2 DEF ReplaceUser, SignInInv, FlowInv, TypeOK
    <2>3. \A e \in Exchanges : exchange[e].pc # "wait"
      BY <2>1 DEF SignInInv, FlowInv, RequestsInv, HoldersInv
    <2> QED BY <1>2, <2>1, <2>2, <2>3, FlowAssumption DEF ReplaceUser, SignInInv, HoldersInv,
          InTransaction, clientVars, codeVars
  <1>3. ASSUME NEW k \in Codes, DeleteUserCode(k) PROVE HoldersInv'
    <2>1. /\ writer' = [writer EXCEPT !.doomed = @ \ {k}] /\ writer \in Writer
          /\ \A j \in Codes \ {k} : codeLock'[j] = codeLock[j]
          /\ codeLock'[k] \in {codeLock[k], UserWriter}
      BY <1>3 DEF DeleteUserCode, SignInInv, FlowInv, TypeOK
    <2>2. writer'.pc = writer.pc /\ writer'.user = writer.user
          /\ writer'.doomed = writer.doomed \ {k} /\ writer.doomed \subseteq Codes
      BY <2>1 DEF Writer
    <2>3. UNCHANGED <<clientLock, userLock, exchange, codes>>
      BY <1>3 DEF DeleteUserCode, clientVars
    <2> QED BY <2>1, <2>2, <2>3, FlowAssumption DEF SignInInv, HoldersInv, InTransaction
  <1>4. CASE DeleteUserRow
    <2>1. \A v \in Users : userLock[v] # UserWriter
      BY <1>4 DEF DeleteUserRow, SignInInv, HoldersInv
    <2>2. writer \in Writer /\ writer.user \in Users
      BY <1>4 DEF DeleteUserRow, SignInInv, FlowInv, TypeOK, RequestsInv
    <2>3. writer'.pc = "commit" /\ writer'.user = writer.user /\ writer'.doomed = writer.doomed
      BY <1>4, <2>2 DEF DeleteUserRow, Writer
    <2>4. /\ userLock'[writer.user] = UserWriter
          /\ \A v \in Users \ {writer.user} : userLock'[v] = userLock[v]
      BY <1>4, <2>2 DEF DeleteUserRow, SignInInv, FlowInv, TypeOK
    <2>5. \A e \in Exchanges : exchange[e].pc # "wait"
      BY <2>1 DEF SignInInv, FlowInv, RequestsInv, HoldersInv
    <2>6. UNCHANGED <<clientLock, codeLock, exchange, codes>>
      BY <1>4 DEF DeleteUserRow, clientVars, codeVars
    <2> QED BY <2>1, <2>2, <2>3, <2>4, <2>5, <2>6, FlowAssumption
        DEF SignInInv, HoldersInv, InTransaction
  <1> QED BY <1>1, <1>2, <1>3, <1>4

(* At its end the writer has no lock, and nobody waits for it.             *)
LEMMA WriterReleases ==
    ASSUME SignInInv, CommitUserWrite \/ AbortUserWrite
    PROVE  HoldersInv'
  <1>1. writer.pc # "idle" /\ writer' = NoWriter /\ clientLock' = clientLock
    BY DEF CommitUserWrite, AbortUserWrite, clientVars
  <1>2. /\ \A k \in Codes : codeLock'[k] \in {codeLock[k], Nobody} /\ codeLock'[k] # UserWriter
        /\ \A u \in Users : userLock'[u] \in {userLock[u], Nobody} /\ userLock'[u] # UserWriter
    BY FlowAssumption DEF CommitUserWrite, AbortUserWrite, Released, SignInInv, FlowInv, TypeOK
  <1>3. \A e \in Exchanges : exchange[e].pc = "wait" => WaitsForUser(e, writer.user)
    BY DEF SignInInv, FlowInv, RequestsInv, HoldersInv, WaitsForUser
  <1>4. \A e \in Exchanges :
           /\ exchange[e].pc = "wait" => exchange'[e].pc \in {"user", "commit"}
           /\ exchange[e].pc # "wait" => exchange'[e] = exchange[e]
    <2>1. ASSUME NEW e \in Exchanges, exchange[e].pc # "wait" PROVE exchange'[e] = exchange[e]
      BY <2>1 DEF CommitUserWrite, AbortUserWrite, WaitsForUser
    <2>2. ASSUME NEW e \in Exchanges, exchange[e].pc = "wait"
          PROVE  exchange'[e].pc \in {"user", "commit"}
      <3>1. exchange[e] \in Exchange
        BY DEF SignInInv, FlowInv, TypeOK
      <3>2. WaitsForUser(e, writer.user)
        BY <1>3, <2>2
      <3>3. \/ exchange'[e] = [exchange[e] EXCEPT !.pc = "commit", !.status = "Absent"]
            \/ exchange'[e] = [exchange[e] EXCEPT !.pc = "user"]
        BY <3>2 DEF CommitUserWrite, AbortUserWrite
      <3> QED BY <3>1, <3>3 DEF Exchange
    <2> QED BY <2>1, <2>2
  <1>5. \A e \in Exchanges : exchange[e].pc \in {"user", "wait", "commit"} =>
           exchange'[e].pc \in {"user", "wait", "commit"}
    BY <1>4
  <1>6. \A k \in Codes : codeLock'[k] \in Exchanges =>
           exchange'[codeLock'[k]].pc \in {"client", "user", "wait", "commit"}
    BY <1>2, <1>4, ClientsAssumption DEF SignInInv, HoldersInv, InTransaction
  <1>7. \A c \in Clients : clientLock'[c] # Nobody =>
           exchange'[clientLock'[c]].pc \in {"user", "wait", "commit"}
    BY <1>1, <1>5 DEF SignInInv, FlowInv, TypeOK, ClientTypeOK, HoldersInv
  <1>8. \A u \in Users : userLock'[u] \in Exchanges => exchange'[userLock'[u]].pc = "commit"
    BY <1>2, <1>4, ClientsAssumption DEF SignInInv, HoldersInv
  <1>9. /\ \A u \in Users : userLock'[u] # UserWriter
        /\ \A e \in Exchanges : exchange'[e].pc # "wait"
        /\ writer'.doomed = {}
    BY <1>1, <1>2, <1>4 DEF NoWriter
  <1> QED BY <1>6, <1>7, <1>8, <1>9 DEF HoldersInv, InTransaction

(* A code that goes away keeps the user it was for.                        *)
LEMMA GoneKeepsUser ==
    ASSUME codes \in [Codes -> CodeRow], NEW j,
           codes' = [codes EXCEPT ![j].state = "gone"]
    PROVE  \A k \in Codes : codes'[k].user = codes[k].user
  <1> SUFFICES ASSUME NEW k \in Codes PROVE codes'[k].user = codes[k].user
    OBVIOUS
  <1>1. codes[k] \in CodeRow
    OBVIOUS
  <1>2. codes'[k] = IF k = j THEN [codes[k] EXCEPT !.state = "gone"] ELSE codes[k]
    OBVIOUS
  <1> QED BY <1>1, <1>2 DEF CodeRow

(* An exchange takes one lock at a time, and gives all of them back when   *)
(* it ends.                                                                *)
LEMMA ExchangeHolds ==
    ASSUME SignInInv, NEW e \in Exchanges, Redeem(e)
    PROVE  HoldersInv'
  <1>types. /\ exchange \in [Exchanges -> Exchange] /\ codes \in [Codes -> CodeRow]
            /\ codeLock \in [Codes -> Exchanges \cup {Nobody, UserWriter}]
            /\ clientLock \in [Clients -> Exchanges \cup {Nobody}]
            /\ userLock \in [Users -> Exchanges \cup {Nobody, UserWriter}]
            /\ writer \in Writer
    BY DEF SignInInv, FlowInv, TypeOK, ClientTypeOK
  <1>held. HoldersInv
    BY DEF SignInInv
  <1>named. \A x \in Exchanges : exchange[x].pc # "idle" =>
               /\ exchange[x].code \in Codes
               /\ codes[exchange[x].code].client \in Clients
               /\ codes[exchange[x].code].user \in Users
    BY DEF SignInInv, FlowInv, RequestsInv
  <1>1. CASE \E k \in Codes, c \in Clients, secret \in Secrets, bound \in BOOLEAN :
               Authenticate(e, k, c, secret, bound)
    <2>1. /\ exchange[e].pc = "idle" /\ exchange'[e].pc \in {"take", "destroy"}
          /\ \A x \in Exchanges \ {e} : exchange'[x] = exchange[x]
          /\ UNCHANGED <<codes, codeLock, clientLock, userLock, writer>>
      BY <1>1, <1>types DEF Authenticate, clientVars, userVars, codeVars, NoExchange
    <2> QED BY <2>1, <1>types, <1>held, ClientsAssumption DEF HoldersInv, InTransaction
  <1>2. CASE DestroyCode(e) \/ TakeNothing(e)
    <2>1. /\ exchange[e].pc \in {"take", "destroy"} /\ exchange'[e].pc = "idle"
          /\ \A x \in Exchanges \ {e} : exchange'[x] = exchange[x]
          /\ UNCHANGED <<codeLock, clientLock, userLock, writer>>
      BY <1>2, <1>types DEF DestroyCode, TakeNothing, clientVars, userVars, NoExchange
    <2>2. \A k \in Codes : codes'[k].user = codes[k].user
      <3>1. codes' = [codes EXCEPT ![exchange[e].code].state = "gone"]
        BY <1>2 DEF DestroyCode, TakeNothing
      <3> QED BY <3>1, <1>types, GoneKeepsUser
    <2> QED BY <2>1, <2>2, <1>types, <1>held, <1>named, ClientsAssumption
        DEF HoldersInv, InTransaction
  <1>3. CASE TakeCode(e)
    <2>1. /\ exchange[e].pc = "take" /\ exchange'[e].pc = "client"
          /\ \A x \in Exchanges \ {e} : exchange'[x] = exchange[x]
          /\ \A k \in Codes : codeLock'[k] \in {codeLock[k], e}
          /\ UNCHANGED <<codes, clientLock, userLock, writer>>
      BY <1>3, <1>types DEF TakeCode, clientVars, userVars, Exchange
    <2> QED BY <2>1, <1>types, <1>held, ClientsAssumption, FlowAssumption
        DEF HoldersInv, InTransaction, Writer
  <1>4. CASE LockClient(e)
    <2>1. /\ exchange[e].pc = "client" /\ exchange'[e].pc = "user"
          /\ exchange'[e].code = exchange[e].code
          /\ \A x \in Exchanges \ {e} : exchange'[x] = exchange[x]
          /\ \A c \in Clients : clientLock'[c] \in {clientLock[c], e}
          /\ UNCHANGED <<codes, codeLock, userLock, writer>>
      BY <1>4, <1>types, <1>named DEF LockClient, userVars, codeVars, Exchange
    <2> QED BY <2>1, <1>types, <1>held, ClientsAssumption DEF HoldersInv, InTransaction
  <1>5. CASE LockUser(e)
    <2>1. /\ exchange[e].pc = "user" /\ exchange'[e].pc = "commit"
          /\ \A x \in Exchanges \ {e} : exchange'[x] = exchange[x]
          /\ UNCHANGED <<codes, codeLock, clientLock, writer>>
      BY <1>5, <1>types DEF LockUser, clientVars, codeVars, Exchange
    <2>2. \A u \in Users : \/ userLock'[u] = userLock[u]
                           \/ userLock'[u] = e /\ userLock[u] = Nobody
      BY <1>5, <1>types, <1>named DEF LockUser
    <2> QED BY <2>1, <2>2, <1>types, <1>held, <1>named, ClientsAssumption, FlowAssumption
        DEF HoldersInv, InTransaction
  <1>6. CASE WaitForUser(e)
    <2>1. /\ exchange[e].pc = "user" /\ exchange'[e].pc = "wait"
          /\ exchange'[e].code = exchange[e].code
          /\ userLock[codes[exchange[e].code].user] = UserWriter
          /\ \A x \in Exchanges \ {e} : exchange'[x] = exchange[x]
          /\ UNCHANGED <<codes, codeLock, clientLock, userLock, writer>>
      BY <1>6, <1>types DEF WaitForUser, clientVars, userVars, codeVars, Exchange
    <2> QED BY <2>1, <1>types, <1>held, ClientsAssumption DEF HoldersInv, InTransaction
  <1>7. CASE CommitExchange(e) \/ CommitUnanswered(e) \/ AbortExchange(e)
    <2>1. EndTransaction(e)
      BY <1>7 DEF CommitExchange, CommitUnanswered, AbortExchange
    <2>2. \A k \in Codes : codes'[k].user = codes[k].user
      <3>1. CASE codes' = [codes EXCEPT ![exchange[e].code].state = "gone"]
        BY <3>1, <1>types, GoneKeepsUser
      <3>2. CASE codes' = codes
        BY <3>2
      <3> QED BY <1>7, <3>1, <3>2 DEF CommitExchange, CommitUnanswered, AbortExchange
    <2>3. /\ exchange'[e].pc = "idle" /\ UNCHANGED writer
          /\ \A x \in Exchanges \ {e} : exchange'[x] = exchange[x]
      BY <2>1, <1>types DEF EndTransaction, NoExchange
    <2>4. /\ \A k \in Codes : IF codeLock[k] = e THEN codeLock'[k] = Nobody
                                                ELSE codeLock'[k] = codeLock[k]
          /\ \A c \in Clients : IF clientLock[c] = e THEN clientLock'[c] = Nobody
                                                    ELSE clientLock'[c] = clientLock[c]
          /\ \A u \in Users : IF userLock[u] = e THEN userLock'[u] = Nobody
                                                ELSE userLock'[u] = userLock[u]
      BY <2>1, <1>types DEF EndTransaction, Released
    <2> QED BY <2>2, <2>3, <2>4, <1>types, <1>held, <1>named, ClientsAssumption, FlowAssumption
        DEF HoldersInv, InTransaction, Writer
  <1> QED BY <1>1, <1>2, <1>3, <1>4, <1>5, <1>6, <1>7 DEF Redeem

(* Nothing else takes a lock or gives one back.                            *)
LEMMA OthersHoldNothing ==
    ASSUME SignInInv,
           \/ Tick \/ ManageClients
           \/ \E u \in Users :
                  Login(u) \/ \E c \in Clients, scopes \in SUBSET Scopes : ShowContext(u, c, scopes)
           \/ \E a \in Approvals : Approve(a)
           \/ UNCHANGED vars
    PROVE  HoldersInv'
  <1>1. UNCHANGED <<codeLock, clientLock, userLock, exchange, writer>>
    BY DEF Tick, ManageClients, ClientNext, CreateClient, DeleteClient, ReadForUpdate,
        ReadForRegenerate, WriteUpdate, WriteRegenerate, AbortEdit, Login, ShowContext, Approve,
        ValidateAuthorization, CheckUser, ListExpired, DeleteExpired, StoreCode, EndApproval,
        vars, clientVars, userVars, codeVars
  <1>2. ASSUME NEW a \in Approvals, Approve(a), NEW k \in Codes, codes[k].state # "unused"
        PROVE  codes'[k].user = codes[k].user
    <2>1. codes \in [Codes -> CodeRow]
      BY DEF SignInInv, FlowInv, TypeOK
    <2>2. CASE DeleteExpired(a)
      BY <2>1, <2>2 DEF DeleteExpired, CodeRow
    <2>3. CASE \E j \in Codes : StoreCode(a, j)
      BY <1>2, <2>1, <2>3 DEF StoreCode
    <2>4. CASE ~DeleteExpired(a) /\ ~\E j \in Codes : StoreCode(a, j)
      BY <1>2, <2>4 DEF Approve, ValidateAuthorization, CheckUser, ListExpired, EndApproval,
          codeVars
    <2> QED BY <2>2, <2>3, <2>4
  <1>3. (\A a \in Approvals : ~Approve(a)) => UNCHANGED codes
    BY DEF Tick, ManageClients, Login, ShowContext, vars, codeVars
  <1>4. \A k \in Codes : codes[k].state # "unused" => codes'[k].user = codes[k].user
    BY <1>2, <1>3
  <1> QED BY <1>1, <1>4, SameHolders

(* The invariant with the holders, in every behaviour.                     *)
THEOREM SignInInvariant == Spec => []SignInInv
  <1>1. Init => HoldersInv
    BY ClientsAssumption, FlowAssumption DEF Init, ClientInit, NoExchange, NoWriter, HoldersInv
  <1>2. ASSUME SignInInv, [Next]_vars PROVE HoldersInv'
    <2>1. CASE WriteUsers
      BY <1>2, <2>1, WriterHolds, WriterReleases DEF WriteUsers
    <2>2. CASE \E e \in Exchanges : Redeem(e)
      BY <1>2, <2>2, ExchangeHolds
    <2>3. CASE ~WriteUsers /\ ~\E e \in Exchanges : Redeem(e)
      BY <1>2, <2>3, OthersHoldNothing DEF Next
    <2> QED BY <2>1, <2>2, <2>3
  <1>3. Init => SignInInv
    BY <1>1, InitialInvariant DEF SignInInv
  <1>4. SignInInv /\ [Next]_vars => SignInInv'
    BY <1>2, InvariantStep DEF SignInInv
  <1> QED BY <1>3, <1>4, PTL DEF Spec

(* consume_authorization_code_for_exchange and delete_user: codes are      *)
(* locked before clients, and clients before users, and only a replacement *)
(* waits for nothing after it has locked its user.  So the one that has    *)
(* got furthest gets on.                                                   *)
THEOREM NobodyWaitsInACircle == Spec => []NoDeadlock
  <1>1. ASSUME SignInInv, Locked
        PROVE  (\E e \in Exchanges : ExchangeGetsOn(e)) \/ UserWriteGetsOn
    <2> SUFFICES ASSUME ~UserWriteGetsOn, \A e \in Exchanges : ~ExchangeGetsOn(e)
                 PROVE  FALSE
      BY <1>1
    <2>types. /\ exchange \in [Exchanges -> Exchange] /\ writer \in Writer
              /\ codeLock \in [Codes -> Exchanges \cup {Nobody, UserWriter}]
              /\ clientLock \in [Clients -> Exchanges \cup {Nobody}]
              /\ userLock \in [Users -> Exchanges \cup {Nobody, UserWriter}]
      BY <1>1 DEF SignInInv, FlowInv, TypeOK, ClientTypeOK
    <2>named. \A x \in Exchanges : exchange[x].pc # "idle" =>
                 /\ exchange[x].code \in Codes
                 /\ codes[exchange[x].code].client \in Clients
                 /\ codes[exchange[x].code].user \in Users
      BY <1>1 DEF SignInInv, FlowInv, RequestsInv
    <2>1. writer.pc # "commit" /\ \A e \in Exchanges : exchange[e].pc # "commit"
      BY DEF UserWriteGetsOn, ExchangeGetsOn
    <2>2. \A u \in Users : userLock[u] = Nobody
      BY <1>1, <2>1, <2>types DEF SignInInv, HoldersInv
    <2>3. \A e \in Exchanges : exchange[e].pc \notin {"user", "wait"}
      <3>1. \A e \in Exchanges : exchange[e].pc # "user"
        BY <2>2, <2>named DEF ExchangeGetsOn
      <3>2. \A e \in Exchanges : exchange[e].pc # "wait"
        BY <1>1, <2>2, <2>named, FlowAssumption DEF SignInInv, HoldersInv
      <3> QED BY <3>1, <3>2
    <2>4. \A c \in Clients : clientLock[c] = Nobody
      BY <1>1, <2>1, <2>3, <2>types DEF SignInInv, HoldersInv
    <2>5. \A e \in Exchanges : ~InTransaction(e)
      BY <2>1, <2>3, <2>4, <2>named DEF ExchangeGetsOn, InTransaction, Unlocked
    <2>6. \A k \in Codes : codeLock[k] \in {Nobody, UserWriter}
      BY <1>1, <2>5, <2>types DEF SignInInv, HoldersInv
    <2>7. writer.pc = "idle"
      <3>1. writer.pc = "codes" => writer.user \in Users
        BY <1>1 DEF SignInInv, FlowInv, RequestsInv
      <3>2. \A k \in writer.doomed : codeLock[k] = Nobody
        BY <1>1, <2>6, <2>types DEF SignInInv, HoldersInv, Writer
      <3>3. writer.pc # "codes"
        BY <2>2, <3>1, <3>2 DEF UserWriteGetsOn
      <3> QED BY <2>1, <2>types, <3>3 DEF Writer
    <2>8. \A k \in Codes : codeLock[k] = Nobody
      BY <1>1, <2>6, <2>7 DEF SignInInv, FlowInv, CodeLockInv
    <2> QED BY <1>1, <2>2, <2>4, <2>8 DEF Locked
  <1>2. SignInInv => NoDeadlock
    BY <1>1 DEF NoDeadlock
  <1> QED BY <1>2, SignInInvariant, PTL

-----------------------------------------------------------------------------
(* What a step does to the codes: one is stored, one is granted, or some   *)
(* are gone.                                                               *)
LEMMA CodesStep ==
    ASSUME FlowInv, [Next]_vars
    PROVE  \/ \E j \in Codes, row \in CodeRow :
                 /\ codes[j].state = "unused" /\ row.state = "stored"
                 /\ codes' = [codes EXCEPT ![j] = row] /\ tokens' = tokens
           \/ \E e \in Exchanges : CommitExchange(e) /\ Due(exchange[e])
           \/ /\ tokens' = tokens
              /\ \A k \in Codes : \/ codes'[k].state = codes[k].state
                                  \/ Stored(k) /\ codes'[k].state = "gone"
  <1> DEFINE Gone == /\ tokens' = tokens
                     /\ \A k \in Codes : \/ codes'[k].state = codes[k].state
                                         \/ Stored(k) /\ codes'[k].state = "gone"
  <1>types. codes \in [Codes -> CodeRow] /\ tokens \in [Codes -> Nat]
    BY DEF FlowInv, TypeOK
  <1>1. CASE UNCHANGED <<codes, tokens>>
    BY <1>1
  <1>2. CASE CommitUserWrite
    <2>1. \A k \in Codes : \/ codes'[k].state = codes[k].state
                           \/ codeLock[k] = UserWriter /\ codes'[k].state = "gone"
      <3> SUFFICES ASSUME NEW k \in Codes
                   PROVE  \/ codes'[k].state = codes[k].state
                          \/ codeLock[k] = UserWriter /\ codes'[k].state = "gone"
        OBVIOUS
      <3>1. codes[k] \in CodeRow
        BY <1>types
      <3>2. codes'[k] = IF codeLock[k] = UserWriter THEN [codes[k] EXCEPT !.state = "gone"]
                                                   ELSE codes[k]
        BY <1>2 DEF CommitUserWrite
      <3> QED BY <3>1, <3>2 DEF CodeRow
    <2>2. \A k \in Codes : codeLock[k] = UserWriter => Stored(k)
      BY FlowAssumption DEF FlowInv, CodeLockInv
    <2> QED BY <1>2, <2>1, <2>2 DEF CommitUserWrite
  <1>3. ASSUME NEW a \in Approvals, DeleteExpired(a) PROVE Gone
    <2>1. \A k \in Codes : \/ codes'[k].state = codes[k].state
                           \/ k \in approval[a].old /\ codes'[k].state = "gone"
      <3> SUFFICES ASSUME NEW k \in Codes
                   PROVE  \/ codes'[k].state = codes[k].state
                          \/ k \in approval[a].old /\ codes'[k].state = "gone"
        OBVIOUS
      <3>1. codes[k] \in CodeRow
        BY <1>types
      <3>2. codes'[k] = IF k \in approval[a].old THEN [codes[k] EXCEPT !.state = "gone"]
                                                 ELSE codes[k]
        BY <1>3 DEF DeleteExpired
      <3> QED BY <3>1, <3>2 DEF CodeRow
    <2>2. \A k \in Codes : k \in approval[a].old => codes[k].state # "unused"
      BY DEF FlowInv, CleanupInv
    <2>3. \A k \in Codes : codes[k].state \in {"unused", "stored", "gone"}
      BY <1>types DEF CodeRow
    <2> QED BY <1>3, <2>1, <2>2, <2>3 DEF DeleteExpired, Stored
  <1>4. ASSUME NEW a \in Approvals, NEW j \in Codes, StoreCode(a, j)
        PROVE  \E row \in CodeRow :
                 /\ codes[j].state = "unused" /\ row.state = "stored"
                 /\ codes' = [codes EXCEPT ![j] = row] /\ tokens' = tokens
    <2> DEFINE q == approval[a]
               row == [state |-> "stored", client |-> q.client, user |-> q.user,
                       scopes |-> q.scopes, expires |-> q.time + CodeTtl]
    <2>1. codes'[j] = row /\ codes' = [codes EXCEPT ![j] = row] /\ tokens' = tokens
      BY <1>4, <1>types DEF StoreCode
    <2>2. codes' \in [Codes -> CodeRow]
      BY <1>4, StoreCodeStep DEF FlowInv, TypeOK
    <2>3. row \in CodeRow /\ row.state = "stored"
      BY <2>1, <2>2
    <2> QED BY <1>4, <2>1, <2>3 DEF StoreCode
  <1>5. ASSUME NEW e \in Exchanges,
               \/ DestroyCode(e) \/ TakeNothing(e) \/ CommitUnanswered(e)
               \/ CommitExchange(e) /\ ~Due(exchange[e])
        PROVE  Gone
    <2>1. exchange[e].pc # "idle" /\ tokens' = tokens
          /\ codes' = [codes EXCEPT ![exchange[e].code].state = "gone"]
      BY <1>5 DEF DestroyCode, TakeNothing, CommitExchange, CommitUnanswered
    <2>2. exchange[e].code \in Codes /\ codes[exchange[e].code].state # "unused"
      BY <2>1 DEF FlowInv, RequestsInv
    <2>3. codes[exchange[e].code].state \in {"unused", "stored", "gone"}
      BY <2>2, <1>types DEF CodeRow
    <2>4. \A k \in Codes \ {exchange[e].code} : codes'[k] = codes[k]
      BY <2>1, <1>types
    <2>5. codes'[exchange[e].code].state = "gone"
      BY <2>1, <2>2, <1>types DEF CodeRow
    <2> QED BY <2>1, <2>2, <2>3, <2>4, <2>5 DEF Stored
  <1>6. CASE Tick \/ ManageClients \/ (WriteUsers /\ ~CommitUserWrite)
    BY <1>1, <1>6 DEF Tick, ManageClients, WriteUsers, ReplaceUser, BeginDeleteUser,
        DeleteUserCode, DeleteUserRow, AbortUserWrite, codeVars
  <1>7. CASE \E u \in Users :
               Login(u) \/ \E c \in Clients, scopes \in SUBSET Scopes : ShowContext(u, c, scopes)
    BY <1>1, <1>7 DEF Login, ShowContext, codeVars
  <1>8. CASE \E a \in Approvals : Approve(a)
    BY <1>1, <1>3, <1>4, <1>8 DEF Approve, ValidateAuthorization, CheckUser, ListExpired,
        EndApproval, codeVars
  <1>9. CASE \E e \in Exchanges : Redeem(e)
    BY <1>1, <1>5, <1>9 DEF Redeem, Authenticate, TakeCode, LockClient, LockUser, WaitForUser,
        AbortExchange, codeVars
  <1>10. CASE UNCHANGED vars
    BY <1>1, <1>10 DEF vars, codeVars
  <1> QED BY <1>2, <1>6, <1>7, <1>8, <1>9, <1>10 DEF Next

(* A code that is not gone has had no token response.                      *)
LEMMA StageOfCode ==
    ASSUME FlowInv, NEW k \in Codes
    PROVE  /\ codes[k].state = "unused" => Stage[k] = "unused"
           /\ Stored(k) => Stage[k] = "issued"
           /\ codes[k].state = "gone" => Stage[k] = IF tokens[k] = 0 THEN "lost" ELSE "granted"
  <1>1. tokens[k] \in {0, 1} /\ (codes[k].state # "gone" => tokens[k] = 0)
    BY DEF FlowInv, TypeOK, TokensInv
  <1>2. Stage[k] = IF tokens[k] > 1 THEN "granted again"
                   ELSE IF tokens[k] = 1 THEN "granted"
                   ELSE IF codes[k].state = "unused" THEN "unused"
                   ELSE IF codes[k].state = "stored" THEN "issued" ELSE "lost"
    BY DEF Stage, Stored
  <1>3. CASE tokens[k] = 1
    BY <1>1, <1>2, <1>3 DEF Stored
  <1>4. CASE tokens[k] = 0
    BY <1>2, <1>4 DEF Stored
  <1> QED BY <1>1, <1>3, <1>4

(* The flow implements the promise: a step stores a code and issues it,    *)
(* grants one while the rows that were locked permit it, or removes some.  *)
THEOREM CodePromiseKept == Spec => CodesKeepPromise
  <1>1. Init => CodesPromise!Init
    BY DEF Init, CodesPromise!Init, Stage, Permitted, NoCode, Stored
  <1>2. ASSUME FlowInv, FlowInv', [Next]_vars
        PROVE  CodesPromise!Next \/ UNCHANGED CodesPromise!vars
    <2>types. /\ codes \in [Codes -> CodeRow] /\ tokens \in [Codes -> Nat]
              /\ codes' \in [Codes -> CodeRow] /\ tokens' \in [Codes -> Nat]
      BY <1>2 DEF FlowInv, TypeOK
    <2>states. \A k \in Codes : /\ codes[k].state \in {"unused", "stored", "gone"}
                                /\ codes'[k].state \in {"unused", "stored", "gone"}
      BY <2>types DEF CodeRow
    <2>before. \A k \in Codes :
                  /\ codes[k].state = "unused" => Stage[k] = "unused"
                  /\ codes[k].state = "stored" => Stage[k] = "issued"
                  /\ codes[k].state = "gone" =>
                        Stage[k] = IF tokens[k] = 0 THEN "lost" ELSE "granted"
      BY <1>2, StageOfCode DEF Stored
    <2>after. \A k \in Codes :
                  /\ codes'[k].state = "unused" => Stage'[k] = "unused"
                  /\ codes'[k].state = "stored" => Stage'[k] = "issued"
                  /\ codes'[k].state = "gone" =>
                        Stage'[k] = IF tokens'[k] = 0 THEN "lost" ELSE "granted"
      <3> SUFFICES ASSUME NEW k \in Codes
                   PROVE  /\ codes'[k].state = "unused" => Stage'[k] = "unused"
                          /\ codes'[k].state = "stored" => Stage'[k] = "issued"
                          /\ codes'[k].state = "gone" =>
                                Stage'[k] = IF tokens'[k] = 0 THEN "lost" ELSE "granted"
        OBVIOUS
      <3>1. tokens'[k] \in {0, 1} /\ (codes'[k].state # "gone" => tokens'[k] = 0)
        <4>1. TokensInv' /\ tokens'[k] \in Nat
          BY <1>2, <2>types DEF FlowInv
        <4> QED BY <4>1 DEF TokensInv
      <3>2. Stage'[k] = IF tokens'[k] > 1 THEN "granted again"
                        ELSE IF tokens'[k] = 1 THEN "granted"
                        ELSE IF codes'[k].state = "unused" THEN "unused"
                        ELSE IF codes'[k].state = "stored" THEN "issued" ELSE "lost"
        BY DEF Stage, Stored
      <3>3. CASE tokens'[k] = 1
        BY <3>1, <3>2, <3>3
      <3>4. CASE tokens'[k] = 0
        BY <3>2, <3>4
      <3> QED BY <3>1, <3>3, <3>4
    <2>domain. Stage = [k \in Codes |-> Stage[k]] /\ Stage' = [k \in Codes |-> Stage'[k]]
      BY DEF Stage
    <2>permitted. Permitted' \in SUBSET {k \in Codes : Stage'[k] = "issued"}
      BY <2>after DEF Permitted, Stored
    <2>fresh. \A k \in Codes : codes[k].state # "gone" => tokens[k] = 0
      BY <1>2 DEF FlowInv, TypeOK, TokensInv
    <2>1. ASSUME NEW j \in Codes, NEW row \in CodeRow,
                 codes[j].state = "unused", row.state = "stored",
                 codes' = [codes EXCEPT ![j] = row], tokens' = tokens
          PROVE  CodesPromise!Issue(j)
      <3>1. Stage[j] = "unused" /\ Stage'[j] = "issued"
        BY <2>1, <2>before, <2>after, <2>types
      <3>2. \A k \in Codes \ {j} : Stage'[k] = Stage[k]
        <4>1. \A k \in Codes \ {j} : codes'[k] = codes[k] /\ tokens'[k] = tokens[k]
          BY <2>1, <2>types
        <4> QED BY <4>1, <2>before, <2>after, <2>states
      <3>3. Stage' = [Stage EXCEPT ![j] = "issued"]
        BY <3>1, <3>2, <2>domain
      <3> QED BY <3>1, <3>3 DEF CodesPromise!Issue
    <2>2. ASSUME NEW e \in Exchanges, CommitExchange(e), Due(exchange[e])
          PROVE  \E j \in Codes : CodesPromise!Grant(j)
      <3> DEFINE j == exchange[e].code
      <3>1. j \in Codes /\ exchange[e].pc = "commit"
        BY <1>2, <2>2 DEF CommitExchange, FlowInv, RequestsInv
      <3>2. codes[j].state = "stored"
        BY <1>2, <2>2, <3>1, ClientsAssumption DEF FlowInv, CodeLockInv, InTransaction, Stored
      <3>3. /\ codes'[j].state = "gone" /\ tokens'[j] = 1
            /\ \A k \in Codes \ {j} : codes'[k] = codes[k] /\ tokens'[k] = tokens[k]
        BY <2>2, <3>1, <3>2, <2>fresh, <2>types DEF CommitExchange, CodeRow
      <3>4. Granted(e)
        BY <3>1, <3>2, <3>3, <2>fresh DEF Granted
      <3>5. j \in Permitted
        <4>1. GrantAllowed(e)
          BY <1>2, <3>4, GrantStep
        <4> QED BY <4>1, <3>1, <3>2 DEF GrantAllowed, Permitted, Stored
      <3>6. Stage[j] = "issued" /\ Stage'[j] = "granted"
        BY <3>1, <3>2, <3>3, <2>before, <2>after
      <3>7. \A k \in Codes \ {j} : Stage'[k] = Stage[k]
        BY <3>3, <2>before, <2>after, <2>states
      <3>8. Stage' = [Stage EXCEPT ![j] = "granted"]
        BY <3>1, <3>6, <3>7, <2>domain
      <3> QED BY <3>1, <3>5, <3>6, <3>8 DEF CodesPromise!Grant
    <2>3. ASSUME tokens' = tokens,
                 \A k \in Codes : \/ codes'[k].state = codes[k].state
                                  \/ Stored(k) /\ codes'[k].state = "gone"
          PROVE  \E K \in SUBSET Codes : CodesPromise!Lose(K)
      <3> DEFINE K == {k \in Codes : codes'[k].state # codes[k].state}
      <3>1. \A k \in K : Stage[k] = "issued" /\ Stage'[k] = "lost"
        BY <2>3, <2>before, <2>after, <2>fresh DEF Stored
      <3>2. \A k \in Codes \ K : Stage'[k] = Stage[k]
        BY <2>3, <2>before, <2>after, <2>states
      <3>3. Stage' = [k \in Codes |-> IF k \in K THEN "lost" ELSE Stage[k]]
        BY <3>1, <3>2, <2>domain
      <3>4. K \in SUBSET Codes /\ CodesPromise!Lose(K)
        BY <3>1, <3>3 DEF CodesPromise!Lose
      <3> QED BY <3>4
    <2>4. (\E k \in Codes : CodesPromise!Issue(k) \/ CodesPromise!Grant(k))
          \/ \E K \in SUBSET Codes : CodesPromise!Lose(K)
      BY <1>2, <2>1, <2>2, <2>3, CodesStep
    <2> QED BY <2>4, <2>permitted DEF CodesPromise!Next
  <1>3. FlowInv /\ FlowInv' /\ [Next]_vars => [CodesPromise!Next]_(CodesPromise!vars)
    BY <1>2
  <1> QED BY <1>1, <1>3, FlowInvariant, PTL DEF Spec, CodesKeepPromise, CodesPromise!Spec
=============================================================================
