------------------------------ MODULE AdminApi ------------------------------
(***************************************************************************)
(* useAdminApi and AdminShell: what every page of the Portal's management  *)
(* console shares in one browser tab.  The session (csrfToken and          *)
(* authenticated, which the code sets and clears together) is              *)
(* `authenticated'; `lists' holds the cached lists; `calls' the            *)
(* asynchronous functions that wait for an answer.  `history' is the       *)
(* sequence of states of Core's tables, so that an answer can hold what    *)
(* Core knew at any moment between the request and the answer.             *)
(*                                                                         *)
(* A function that awaits occupies one call: first for its own request,    *)
(* then for the loads of a Promise.all.  Every call has a request in       *)
(* flight, so the counter `pending' of trackRequest is positive exactly    *)
(* when there is a call.  Core may answer 401 to any request (the          *)
(* management session expires, or another tab ends it), and any request    *)
(* or answer may be lost.                                                  *)
(***************************************************************************)
EXTENDS Naturals, Sequences

CONSTANTS
    OrganizationalUnits, Users, Groups, Clients, Domains,
    Lists,       \* the cached lists that are modelled
    Calls,       \* bound: how many asynchronous functions wait at a time
    MaxVersion,  \* bound: the length of the history
    Root,        \* parent_id null of an organizational unit
    Null         \* no row, no selection, no answer

ListNames == {"ous", "users", "groups", "clients", "domains", "sync"}

ASSUME ListsAssumption == Lists \subseteq ListNames
ASSUME MaxVersionAssumption == MaxVersion \in Nat \ {0}
ASSUME NullAssumption ==
    Null \notin OrganizationalUnits \cup Users \cup Groups \cup Clients \cup Domains \cup {Root}

VARIABLES
    authenticated,  \* csrfToken and authenticated
    lists,          \* domains, organizationalUnits, users, groups, oauthClients
    calls,          \* the functions that await, one record for each
    history,        \* the states of Core's tables, oldest first
    page,           \* the page that is mounted
    saving,         \* its ref `saving'
    dialog          \* the open confirmation: Null, or the function and the row it is for

apiVars == <<authenticated, lists, calls, history>>
pageVars == <<page, saving, dialog>>

(* Core's tables: an organizational unit has a parent, a user and a group  *)
(* an organizational unit, a group members, a client a type and a state.   *)
(* Secrets and Syncer keys, which no list shows, are named by the version  *)
(* of the tables that holds them first.                                    *)
GroupRows == [ou : OrganizationalUnits, members : SUBSET Users]
ClientRows == [web : BOOLEAN, enabled : BOOLEAN]

(* The lists of the console, which are tables at some moment; no editor    *)
(* reads the list of sync states.                                          *)
CachedLists ==
    [ous : [OrganizationalUnits -> OrganizationalUnits \cup {Root, Null}],
     users : [Users -> OrganizationalUnits \cup {Null}],
     groups : [Groups -> GroupRows \cup {Null}],
     clients : [Clients -> ClientRows \cup {Null}],
     domains : [Domains -> Domains \cup {Null}],
     sync : {Null}]

Tables ==
    [ous : [OrganizationalUnits -> OrganizationalUnits \cup {Root, Null}],
     users : [Users -> OrganizationalUnits \cup {Null}],
     groups : [Groups -> GroupRows \cup {Null}],
     clients : [Clients -> ClientRows \cup {Null}],
     domains : [Domains -> Domains \cup {Null}],
     sync : {Null},
     secret : [Clients -> Nat],
     key : [Domains -> Nat]]

EmptyLists ==
    [ous |-> [o \in OrganizationalUnits |-> Null], users |-> [u \in Users |-> Null],
     groups |-> [g \in Groups |-> Null], clients |-> [c \in Clients |-> Null],
     domains |-> [d \in Domains |-> Null], sync |-> Null]

Version == Len(history)
Core == history[Version]

(* A write of Core: the tables enter their next state.                     *)
CoreBecomes(tables) == Version < MaxVersion /\ history' = Append(history, tables)

Idle == [fn |-> "idle", step |-> "none", arg |-> Null, loads |-> {}, since |-> 0]

IsIdle(c) == calls[c].fn = "idle"
Pending == \E c \in Calls : ~IsIdle(c)
FreeCall == CHOOSE c \in Calls : IsIdle(c)
Busy == saving \/ Pending

Rows(table) == {k \in DOMAIN table : table[k] # Null}

-----------------------------------------------------------------------------
(***************************************************************************)
(* Requests.  A call's step is "sent" while its own request has no effect  *)
(* yet, "applied" or "refused" when Core has dealt with it, "loads" while  *)
(* it waits for its loads, and "failed" when it has given up and answers   *)
(* to its loads are still to come.                                         *)
(***************************************************************************)

Sent(fn, arg) == [fn |-> fn, step |-> "sent", arg |-> arg, loads |-> {}, since |-> Version]

(* adminFetch with a valid session, or fetch: a function sends its request *)
Begin(fn, arg) ==
    /\ \E c \in Calls : IsIdle(c)
    /\ calls' = [calls EXCEPT ![FreeCall] = Sent(fn, arg)]

(* The load of a list that is left out is left out too, unless a function  *)
(* awaits nothing else; loadSyncDomains fills a list that no editor reads. *)
Modelled(names) == IF names \cap Lists = {} THEN {"sync"} ELSE names \cap Lists

(* loadOus, loadUsers, loadGroups, loadDomains, loadSyncDomains and        *)
(* loadOAuthClients under one Promise.all.                                 *)
Loading(fn, names) ==
    [fn |-> fn, step |-> "loads", arg |-> Null, loads |-> Modelled(names), since |-> Version]

EndCall(c) == calls' = [calls EXCEPT ![c] = Idle]

ClearSession == authenticated' = FALSE /\ lists' = EmptyLists

(* The page's own functions, under runAction: `saving' is set before the   *)
(* request and reset when the function ends, and a function that goes on   *)
(* without a session ends, because adminFetch throws.                      *)
Submit(fn, arg) ==
    /\ saving' = TRUE
    /\ Begin(fn, arg)
    /\ UNCHANGED <<authenticated, lists, history, page>>

SentTo(c, fn) == calls[c].fn = fn /\ calls[c].step = "sent"
Answered(c, fn) == calls[c].fn = fn /\ calls[c].step = "applied"

GoesOn(c, next) ==
    /\ calls' = [calls EXCEPT ![c] = IF authenticated THEN next ELSE Idle]
    /\ saving' = (saving /\ authenticated)
    /\ UNCHANGED <<authenticated, lists, history, page, dialog>>

(* A confirmation is accepted, or dismissed.  Without a session adminFetch *)
(* throws, and to accept is to dismiss.                                    *)
Confirm ==
    /\ dialog # Null /\ authenticated
    /\ Submit(dialog.fn, [target |-> dialog.target])
    /\ dialog' = Null

Dismiss ==
    /\ dialog # Null
    /\ dialog' = Null
    /\ UNCHANGED <<apiVars, page, saving>>

(* Core carries the request of a call out, or refuses it.                  *)
Applies(c, tables) ==
    /\ CoreBecomes(tables)
    /\ calls' = [calls EXCEPT ![c].step = "applied", ![c].since = Version + 1]
    /\ UNCHANGED <<authenticated, lists, pageVars>>

Refuses(c) ==
    /\ calls' = [calls EXCEPT ![c].step = "refused"]
    /\ UNCHANGED <<authenticated, lists, history, pageVars>>

-----------------------------------------------------------------------------
(* The answer to one of a call's loads: the table at a moment since the    *)
(* load was sent.  The list is replaced whatever happened meanwhile.       *)
LoadedList(c, l, v) ==
    /\ v \in calls[c].since .. Version
    /\ lists' = [lists EXCEPT ![l] = history[v][l]]
    /\ UNCHANGED authenticated

(* The last load of a call that has not failed ends it.                    *)
IsLastLoad(c, l) == calls[c].loads = {l}

(* Mutant: nothing ends the function.                                      *)
DropLoad_LeavesEmpty(c, l) == calls' = [calls EXCEPT ![c].loads = @ \ {l}]

DropLoad(c, l) ==
    IF IsLastLoad(c, l) THEN EndCall(c)
    ELSE calls' = [calls EXCEPT ![c].loads = @ \ {l}]

(* Promise.all rejects with the first failure; the other loads go on.      *)
FailLoad(c, l) ==
    IF IsLastLoad(c, l) THEN EndCall(c)
    ELSE calls' = [calls EXCEPT ![c].loads = @ \ {l}, ![c].step = "failed"]

EndsSession(c, unauthorized) ==
    \/ unauthorized
    \/ calls[c].fn \in {"restoreSession", "authenticateToken"} /\ calls[c].step # "failed"

(* The session after a failed request: adminFetch clears it on 401,        *)
(* restoreSession and authenticateToken on every failure.                  *)
AfterFailure(c, unauthorized) ==
    IF EndsSession(c, unauthorized) THEN ClearSession
    ELSE UNCHANGED <<authenticated, lists>>

-----------------------------------------------------------------------------
(* AdminShell mounted: restoreSession asks for the session.                *)
RestoreSession == Begin("restoreSession", Null) /\ UNCHANGED <<authenticated, lists, history>>

(* The shell shows the credential form and its button is enabled, or it    *)
(* shows the navigation bar, whose items are disabled while requests run.  *)
CredentialForm == ~authenticated /\ ~Pending
NavigationBar == authenticated /\ ~Pending

(* submitCredential                                                        *)
AuthenticateToken ==
    /\ CredentialForm
    /\ Begin("authenticateToken", Null)
    /\ UNCHANGED <<authenticated, lists, history>>

(* exitManagement from the menu of the bar.                                *)
Logout ==
    /\ NavigationBar
    /\ Begin("logout", Null)
    /\ UNCHANGED <<authenticated, lists, history>>

(* The answer to GET or POST /api/admin/session: the session is there, and *)
(* loadAll starts.                                                         *)
SessionAnswered(c) ==
    /\ calls[c].fn \in {"restoreSession", "authenticateToken"} /\ calls[c].step = "sent"
    /\ authenticated' = TRUE
    /\ calls' = [calls EXCEPT ![c] = Loading(calls[c].fn, ListNames)]
    /\ UNCHANGED <<lists, history>>

(* Mutant: the local session is cleared only when Core answers.            *)
LogoutAnswered_OnlyOnSuccess(c) ==
    /\ calls[c].fn = "logout"
    /\ EndCall(c) /\ (ClearSession \/ UNCHANGED <<authenticated, lists>>)
    /\ UNCHANGED history

(* The answer to DELETE /api/admin/session, whatever it is.                *)
LogoutAnswered(c) ==
    /\ calls[c].fn = "logout"
    /\ EndCall(c) /\ ClearSession
    /\ UNCHANGED history

(* refreshDirectory, refreshClients, refreshDomains: never disabled, and   *)
(* without a session adminFetch throws before it sends anything.           *)
Refresh(names) ==
    /\ authenticated
    /\ \E c \in Calls : IsIdle(c)
    /\ calls' = [calls EXCEPT ![FreeCall] = Loading("refresh", names)]
    /\ UNCHANGED <<authenticated, lists, history>>
=============================================================================
