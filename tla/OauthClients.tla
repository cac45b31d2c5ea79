---------------------------- MODULE OauthClients ----------------------------
(***************************************************************************)
(* The table of OAuth clients and the management handlers that write it.   *)
(* Creation and deletion are single statements.  An update and a           *)
(* regeneration of the secret are a read, a computation and a write of the *)
(* WHOLE row, without a transaction around them, so two handlers may both  *)
(* read before either writes.  A write waits for the row lock that the     *)
(* exchange of an authorization code holds (OidcCodeFlow).                 *)
(*                                                                         *)
(* A secret is the number of its generation; 0 stands for no secret.  Name *)
(* and redirect URIs, which nothing here depends on, are left out.         *)
(***************************************************************************)
EXTENDS Naturals

CONSTANTS
    Clients,    \* client ids: random, so an id is never used twice
    Scopes,     \* the scopes a client may be allowed
    Editors,    \* management requests that read and then write a client
    Exchanges,  \* token requests, which lock the client they read
    Nobody,     \* holds the lock of a row that is not locked
    MaxSecret   \* bound: secrets generated for a client

ASSUME ClientsAssumption ==
    /\ Nobody \notin Clients \cup Exchanges
    /\ MaxSecret \in Nat \ {0}

VARIABLES
    clients,     \* the row of each client id
    clientLock,  \* the exchange that holds the row
    lastSecret,  \* the secret generated last
    answered,    \* the secret that the client's owner was given last
    edit         \* what each editor is doing

clientVars == <<clients, clientLock, lastSecret, answered, edit>>

ClientTypes == {"Web", "Desktop"}
Secrets == 0 .. MaxSecret

ClientRow ==
    [state : {"unused", "present", "deleted"}, type : ClientTypes,
     enabled : BOOLEAN, secret : Secrets, scopes : SUBSET Scopes]
NoRow ==
    [state |-> "unused", type |-> "Desktop", enabled |-> FALSE,
     secret |-> 0, scopes |-> {}]

Edit ==
    [pc : {"idle", "update", "regenerate"}, client : Clients \cup {Nobody},
     read : ClientRow, enabled : BOOLEAN, scopes : SUBSET Scopes]
NoEdit ==
    [pc |-> "idle", client |-> Nobody, read |-> NoRow, enabled |-> FALSE, scopes |-> {}]

ClientTypeOK ==
    /\ clients \in [Clients -> ClientRow]
    /\ clientLock \in [Clients -> Exchanges \cup {Nobody}]
    /\ lastSecret \in [Clients -> Secrets]
    /\ answered \in [Clients -> Secrets]
    /\ edit \in [Editors -> Edit]

ClientInit ==
    /\ clients = [c \in Clients |-> NoRow]
    /\ clientLock = [c \in Clients |-> Nobody]
    /\ lastSecret = [c \in Clients |-> 0]
    /\ answered = [c \in Clients |-> 0]
    /\ edit = [h \in Editors |-> NoEdit]

Present(c) == clients[c].state = "present"
Unlocked(c) == clientLock[c] = Nobody

-----------------------------------------------------------------------------
(* create_oauth_client: a fresh id, and a secret for a Web client.         *)
CreateClient(c, type, enabled, scopes) ==
    LET secret == IF type = "Web" THEN 1 ELSE 0
    IN  /\ clients[c].state = "unused"
        /\ clients' = [clients EXCEPT ![c] =
               [state |-> "present", type |-> type, enabled |-> enabled,
                secret |-> secret, scopes |-> scopes]]
        /\ lastSecret' = [lastSecret EXCEPT ![c] = secret]
        /\ answered' = [answered EXCEPT ![c] = secret]
        /\ UNCHANGED <<clientLock, edit>>

DeleteClient(c) ==
    /\ Present(c) /\ Unlocked(c)
    /\ clients' = [clients EXCEPT ![c].state = "deleted"]
    /\ UNCHANGED <<clientLock, lastSecret, answered, edit>>

(* update_oauth_client up to its await: the row, and what to make of it.   *)
ReadForUpdate(h, c, enabled, scopes) ==
    /\ edit[h].pc = "idle" /\ Present(c)
    /\ edit' = [edit EXCEPT ![h] =
           [pc |-> "update", client |-> c, read |-> clients[c],
            enabled |-> enabled, scopes |-> scopes]]
    /\ UNCHANGED <<clients, clientLock, lastSecret, answered>>

(* regenerate_oauth_client_secret up to its await; Desktop is refused.     *)
ReadForRegenerate(h, c) ==
    /\ edit[h].pc = "idle" /\ Present(c)
    /\ clients[c].type = "Web"
    /\ edit' = [edit EXCEPT ![h] =
           [NoEdit EXCEPT !.pc = "regenerate", !.client = c, !.read = clients[c]]]
    /\ UNCHANGED <<clients, clientLock, lastSecret, answered>>

(* Mutant: the row is inserted when it is not there.                       *)
WriteRow_Inserts(c, row) ==
    /\ Unlocked(c)
    /\ clients' = [clients EXCEPT ![c] = row]

(* Repository::update_oauth_client: UPDATE ... WHERE client_id, which finds *)
(* no row once the client is deleted.                                      *)
WriteRow(c, row) ==
    /\ Unlocked(c)
    /\ clients' = IF Present(c) THEN [clients EXCEPT ![c] = row] ELSE clients

EndEdit(h) == edit' = [edit EXCEPT ![h] = NoEdit]

(* The row an update writes: the request's fields, and the rest as it read *)
(* them, the digest of the secret too.                                     *)
UpdatedRow(h) ==
    [edit[h].read EXCEPT !.enabled = edit[h].enabled, !.scopes = edit[h].scopes]

WriteUpdate(h) ==
    /\ edit[h].pc = "update"
    /\ WriteRow(edit[h].client, UpdatedRow(h))
    /\ EndEdit(h)
    /\ UNCHANGED <<clientLock, lastSecret, answered>>

WriteRegenerate(h) ==
    LET c == edit[h].client
        secret == lastSecret[c] + 1
    IN  /\ edit[h].pc = "regenerate"
        /\ secret <= MaxSecret
        /\ WriteRow(c, [edit[h].read EXCEPT !.secret = secret])
        /\ lastSecret' = [lastSecret EXCEPT ![c] = secret]
        /\ answered' = IF Present(c) THEN [answered EXCEPT ![c] = secret] ELSE answered
        /\ EndEdit(h)
        /\ UNCHANGED clientLock

(* The statement fails, or the request is dropped before it is sent.       *)
AbortEdit(h) ==
    /\ edit[h].pc # "idle"
    /\ EndEdit(h)
    /\ UNCHANGED <<clients, clientLock, lastSecret, answered>>

ClientNext ==
    \/ \E c \in Clients :
           \/ \E type \in ClientTypes, enabled \in BOOLEAN, scopes \in SUBSET Scopes :
                  CreateClient(c, type, enabled, scopes)
           \/ DeleteClient(c)
    \/ \E h \in Editors :
           \/ \E c \in Clients, enabled \in BOOLEAN, scopes \in SUBSET Scopes :
                  ReadForUpdate(h, c, enabled, scopes)
           \/ \E c \in Clients : ReadForRegenerate(h, c)
           \/ WriteUpdate(h)
           \/ WriteRegenerate(h)
           \/ AbortEdit(h)
=============================================================================
