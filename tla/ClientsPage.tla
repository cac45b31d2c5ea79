---------------------------- MODULE ClientsPage ----------------------------
(***************************************************************************)
(* The page of OAuth clients: its table, the drawer that shows the editor  *)
(* or a secret, and Core's handlers behind them.  Name, redirect URIs and  *)
(* scopes are left out.  The console has at most one request for a client  *)
(* in flight, so a handler is one step here; module OauthClients has the   *)
(* statements of handlers that overlap.                                    *)
(***************************************************************************)
EXTENDS AdminApi

VARIABLE cli  \* the refs of the page

ClientRefs ==
    [drawerOpen : BOOLEAN, drawerView : {"editor", "secret"},
     selectedClientId : Clients \cup {Null},
     secret : [id : Clients, value : Nat] \cup {Null},
     editorForm : ClientRows]

BlankEditorForm == [web |-> TRUE, enabled |-> TRUE]

FreshClients ==
    [drawerOpen |-> FALSE, drawerView |-> "editor", selectedClientId |-> Null,
     secret |-> Null, editorForm |-> BlankEditorForm]

OnClients == page = "clients" /\ authenticated /\ ~cli.drawerOpen /\ dialog = Null

(* The buttons of a row of the table.                                      *)
ClientButtons(k) == OnClients /\ ~Busy /\ k \in Rows(lists.clients)

(* Mutant: the secret and the view of the last time stay.                  *)
OpenClientEditor_KeepsSecret(k) ==
    /\ ClientButtons(k) \/ (k = Null /\ OnClients /\ ~Busy)
    /\ cli' = [cli EXCEPT !.drawerOpen = TRUE, !.selectedClientId = k]
    /\ UNCHANGED <<apiVars, pageVars>>

(* openEditor with a row of the table, or for a new client.                *)
OpenClientEditor(k) ==
    /\ ClientButtons(k) \/ (k = Null /\ OnClients /\ ~Busy)
    /\ cli' = [FreshClients EXCEPT
                   !.drawerOpen = TRUE, !.selectedClientId = k,
                   !.editorForm = IF k = Null THEN @ ELSE lists.clients[k]]
    /\ UNCHANGED <<apiVars, pageVars>>

(* Mutant: the drawer can be closed while a request runs.                  *)
CloseClientDrawer_WhileSaving ==
    /\ page = "clients" /\ authenticated /\ cli.drawerOpen /\ dialog = Null
    /\ cli' = [cli EXCEPT !.drawerOpen = FALSE]
    /\ UNCHANGED <<apiVars, pageVars>>

(* The drawer, which is blocked while a request runs.                      *)
ClientDrawer ==
    page = "clients" /\ authenticated /\ cli.drawerOpen /\ dialog = Null /\ ~saving

CloseClientDrawer ==
    /\ ClientDrawer
    /\ cli' = [cli EXCEPT !.drawerOpen = FALSE]
    /\ UNCHANGED <<apiVars, pageVars>>

(* What the editor lets an administrator enter: a type for a new client.   *)
ClientInputs ==
    [web : IF cli.selectedClientId = Null THEN BOOLEAN ELSE {cli.editorForm.web},
     enabled : BOOLEAN]

(* saveClient with a name and at least one redirect URI.                   *)
SaveClient ==
    /\ ClientDrawer /\ cli.drawerView = "editor"
    /\ \E form \in ClientInputs :
           /\ cli' = [cli EXCEPT !.editorForm = form]
           /\ Submit("saveClient", [target |-> cli.selectedClientId, web |-> form.web,
                                    enabled |-> form.enabled])
    /\ UNCHANGED dialog

(* toggleClient writes the row of the cached list back, switched.          *)
ToggleClient(k) ==
    /\ ClientButtons(k)
    /\ Submit("toggleClient", [target |-> k, enabled |-> ~lists.clients[k].enabled])
    /\ UNCHANGED <<dialog, cli>>

(* removeClient until the confirmation.                                    *)
AskRemoveClient(k) ==
    /\ ClientButtons(k)
    /\ dialog' = [fn |-> "removeClient", target |-> k]
    /\ UNCHANGED <<apiVars, page, saving, cli>>

(* regenerateSecret until the confirmation, offered for web clients.       *)
AskRegenerateSecret ==
    /\ ClientDrawer /\ cli.drawerView = "editor"
    /\ cli.selectedClientId # Null /\ cli.editorForm.web
    /\ dialog' = [fn |-> "regenerateSecret", target |-> cli.selectedClientId]
    /\ UNCHANGED <<apiVars, page, saving, cli>>

-----------------------------------------------------------------------------
(* The client IDs no row has had: they are random.                         *)
FreshClientIds == {k \in Clients : \A i \in DOMAIN history : history[i].clients[k] = Null}

(* create_oauth_client: a web client gets a secret.                        *)
CoreCreatesClient(c) ==
    /\ SentTo(c, "saveClient") /\ calls[c].arg.target = Null
    /\ \E k \in FreshClientIds :
           /\ CoreBecomes([Core EXCEPT
                  !.clients[k] = [web |-> calls[c].arg.web, enabled |-> calls[c].arg.enabled],
                  !.secret[k] = IF calls[c].arg.web THEN Version + 1 ELSE 0])
           /\ calls' = [calls EXCEPT ![c].step = "applied", ![c].since = Version + 1,
                                     ![c].arg = [target |-> k, created |-> TRUE]]
           /\ UNCHANGED <<authenticated, lists, pageVars>>

(* update_oauth_client                                                     *)
CoreUpdatesClient(c) ==
    /\ SentTo(c, "saveClient") \/ SentTo(c, "toggleClient")
    /\ calls[c].arg.target # Null
    /\ LET k == calls[c].arg.target IN
       IF Core.clients[k] = Null THEN Refuses(c)
       ELSE Applies(c, [Core EXCEPT !.clients[k].enabled = calls[c].arg.enabled])

(* delete_oauth_client                                                     *)
CoreDeletesClient(c) ==
    /\ SentTo(c, "removeClient")
    /\ LET k == calls[c].arg.target IN
       IF Core.clients[k] = Null THEN Refuses(c)
       ELSE Applies(c, [Core EXCEPT !.clients[k] = Null, !.secret[k] = 0])

(* regenerate_oauth_client_secret                                          *)
CoreRegeneratesSecret(c) ==
    /\ SentTo(c, "regenerateSecret")
    /\ LET k == calls[c].arg.target IN
       IF Core.clients[k] = Null \/ ~Core.clients[k].web THEN Refuses(c)
       ELSE Applies(c, [Core EXCEPT !.secret[k] = Version + 1])

-----------------------------------------------------------------------------
(* A function of this page ends with the answer to its request; `table' is *)
(* the cached list from then on.                                           *)
ClientDone(c, table) ==
    /\ EndCall(c) /\ saving' = FALSE
    /\ lists' = [lists EXCEPT !.clients = table]
    /\ UNCHANGED <<authenticated, history, page, dialog>>

AnsweredRow(c) == history[calls[c].since].clients[calls[c].arg.target]

(* saveClient after createOAuthClient, which appends the row.              *)
ClientCreated(c) ==
    /\ Answered(c, "saveClient") /\ "created" \in DOMAIN calls[c].arg
    /\ LET k == calls[c].arg.target
           value == history[calls[c].since].secret[k]
       IN /\ ClientDone(c, [lists.clients EXCEPT ![k] = AnsweredRow(c)])
          /\ cli' = IF AnsweredRow(c).web
                    THEN [cli EXCEPT !.selectedClientId = k, !.drawerView = "secret",
                                     !.secret = [id |-> k, value |-> value]]
                    ELSE [cli EXCEPT !.selectedClientId = k, !.drawerOpen = FALSE]

(* updateOAuthClient replaces the row if the list has it.                  *)
ListUpdated(c) ==
    LET k == calls[c].arg.target IN
    IF lists.clients[k] = Null THEN lists.clients
    ELSE [lists.clients EXCEPT ![k] = AnsweredRow(c)]

ClientUpdated(c) ==
    /\ \/ /\ Answered(c, "saveClient") /\ "created" \notin DOMAIN calls[c].arg
          /\ cli' = [cli EXCEPT !.drawerOpen = FALSE]
       \/ /\ Answered(c, "toggleClient") /\ UNCHANGED cli
    /\ ClientDone(c, ListUpdated(c))

ClientRemoved(c) ==
    /\ Answered(c, "removeClient")
    /\ ClientDone(c, [lists.clients EXCEPT ![calls[c].arg.target] = Null])
    /\ UNCHANGED cli

SecretRegenerated(c) ==
    /\ Answered(c, "regenerateSecret")
    /\ LET k == calls[c].arg.target IN
       cli' = [cli EXCEPT !.drawerView = "secret",
                          !.secret = [id |-> k, value |-> history[calls[c].since].secret[k]]]
    /\ ClientDone(c, lists.clients)

-----------------------------------------------------------------------------
ClientsNext ==
    \/ \E k \in Clients \cup {Null} : OpenClientEditor(k)
    \/ \E k \in Clients : ToggleClient(k) \/ AskRemoveClient(k)
    \/ CloseClientDrawer \/ SaveClient \/ AskRegenerateSecret

ClientsAnswers(c) ==
    ClientCreated(c) \/ ClientUpdated(c) \/ ClientRemoved(c) \/ SecretRegenerated(c)

ClientsCore(c) ==
    \/ CoreCreatesClient(c) \/ CoreUpdatesClient(c) \/ CoreDeletesClient(c)
    \/ CoreRegeneratesSecret(c)
=============================================================================
