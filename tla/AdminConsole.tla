---------------------------- MODULE AdminConsole ----------------------------
(***************************************************************************)
(* The management console in one browser tab: the shared session and       *)
(* lists, the pages, the navigation between them, Core's handlers, and     *)
(* another administrator who changes the directory.                        *)
(***************************************************************************)
EXTENDS DirectoryPage, ClientsPage, DomainsPage

CONSTANTS
    Pages,          \* the pages that are modelled
    InitialTables   \* Core's tables when the console is opened

ASSUME PagesAssumption == Pages # {} /\ Pages \subseteq {"directory", "clients", "domains"}
ASSUME InitialTablesAssumption == InitialTables \subseteq Tables

vars == <<apiVars, pageVars, dir, cli, dom>>

(* The functions that set `saving'.                                        *)
SaveFns ==
    {"saveOu", "saveUser", "saveGroup", "saveMembers", "resetUserPassword", "removeOu",
     "removeUser", "saveClient", "toggleClient", "removeClient", "regenerateSecret",
     "saveDomain"}

(* A page is opened: AdminShell is mounted and restoreSession has started. *)
Init ==
    /\ history \in {<<tables>> : tables \in InitialTables}
    /\ authenticated = FALSE /\ lists = EmptyLists
    /\ calls = [c \in Calls |-> IF c = (CHOOSE d \in Calls : TRUE)
                                THEN Sent("restoreSession", Null) ELSE Idle]
    /\ page \in Pages /\ saving = FALSE /\ dialog = Null
    /\ dir = FreshDirectory /\ cli = FreshClients /\ dom = FreshDomains

(* onNavigationClick: another page is set up with refs of its own, and its *)
(* shell restores the session.                                             *)
Navigate(p) ==
    /\ NavigationBar /\ dialog = Null
    /\ dir.editor = Null /\ dir.resetPasswordTarget = Null
    /\ ~cli.drawerOpen /\ ~dom.drawerOpen
    /\ p # page /\ page' = p
    /\ cli' = FreshClients /\ dom' = FreshDomains
    /\ \E o \in IF p # "directory" \/ TreeItems = {} THEN {Null} ELSE TreeItems :
           dir' = [FreshDirectory EXCEPT !.selectedOuId = o]
    /\ RestoreSession
    /\ UNCHANGED <<saving, dialog>>

RefreshButton ==
    /\ dialog = Null
    /\ \/ OnDirectory /\ Refresh({"ous", "users", "groups", "sync"})
       \/ OnClients /\ Refresh({"clients"})
       \/ OnDomains /\ Refresh({"domains", "sync"})
    /\ UNCHANGED <<pageVars, dir, cli, dom>>

(* The watch of the directory page when a list of units replaces another.  *)
Watched(refs, shown) ==
    IF page # "directory" THEN {refs}
    ELSE {[refs EXCEPT !.selectedOuId = o] : o \in Reselected(shown)}

-----------------------------------------------------------------------------
(* A request fails: it is lost, Core refuses it, or its answer is lost.    *)
RequestFails(c, unauthorized) ==
    /\ ~IsIdle(c) /\ calls[c].fn # "logout"
    /\ calls[c].step \in IF unauthorized THEN {"sent"} ELSE {"sent", "read", "applied", "refused"}
    /\ EndCall(c) /\ AfterFailure(c, unauthorized)
    /\ saving' = (saving /\ calls[c].fn \notin SaveFns)
    /\ dir' \in IF EndsSession(c, unauthorized) THEN Watched(dir, {}) ELSE {dir}
    /\ UNCHANGED <<history, page, dialog, cli, dom>>

(* The answer to a load; the last one ends its function.                   *)
LoadAnswered(c, l) ==
    /\ \E v \in calls[c].since .. Version : LoadedList(c, l, v)
    /\ DropLoad(c, l)
    /\ LET ends == IsLastLoad(c, l) /\ calls[c].step = "loads"
           refs == IF ends THEN DirectoryCompleted(calls[c].fn, dir) ELSE dir
       IN /\ saving' = (saving /\ ~(ends /\ calls[c].fn \in SaveFns))
          /\ dir' \in IF l = "ous" THEN Watched(refs, Rows(lists'.ous)) ELSE {refs}
    /\ UNCHANGED <<history, page, dialog, cli, dom>>

(* Mutant: a failed load leaves `saving' set.                              *)
LoadFails_KeepsSaving(c, l, unauthorized) ==
    /\ FailLoad(c, l) /\ AfterFailure(c, unauthorized)
    /\ dir' \in IF EndsSession(c, unauthorized) THEN Watched(dir, {}) ELSE {dir}
    /\ UNCHANGED <<history, page, saving, dialog, cli, dom>>

LoadFails(c, l, unauthorized) ==
    /\ FailLoad(c, l) /\ AfterFailure(c, unauthorized)
    /\ saving' = (saving /\ ~(calls[c].step = "loads" /\ calls[c].fn \in SaveFns))
    /\ dir' \in IF EndsSession(c, unauthorized) THEN Watched(dir, {}) ELSE {dir}
    /\ UNCHANGED <<history, page, dialog, cli, dom>>

(* Another administrator deletes or moves a user, or deletes an empty unit *)
OtherAdministrator ==
    /\ \/ \E u \in Rows(Core.users) :
              \/ CoreBecomes(WithoutUser(Core, u))
              \/ \E o \in Rows(Core.ous) \ {Core.users[u]} :
                     CoreBecomes([Core EXCEPT !.users[u] = o])
       \/ \E o \in Rows(Core.ous) : IsEmptyOu(o) /\ CoreBecomes([Core EXCEPT !.ous[o] = Null])
    /\ UNCHANGED <<authenticated, lists, calls, pageVars, dir, cli, dom>>

-----------------------------------------------------------------------------
Administrator ==
    \/ \E p \in Pages : Navigate(p)
    \/ (AuthenticateToken \/ Logout) /\ UNCHANGED <<pageVars, dir, cli, dom>>
    \/ RefreshButton
    \/ (Confirm \/ Dismiss) /\ UNCHANGED <<dir, cli, dom>>
    \/ DirectoryNext /\ UNCHANGED <<cli, dom>>
    \/ ClientsNext /\ UNCHANGED <<dir, dom>>
    \/ DomainsNext /\ UNCHANGED <<dir, cli>>

CoreHandles(c) ==
    /\ DirectoryCore(c) \/ ClientsCore(c) \/ CoreWritesDomain(c)
    /\ UNCHANGED <<dir, cli, dom>>

Answer(c) ==
    \/ SessionAnswered(c) /\ UNCHANGED <<pageVars, dir, cli, dom>>
    \/ LogoutAnswered(c) /\ dir' \in Watched(dir, {}) /\ UNCHANGED <<pageVars, cli, dom>>
    \/ DirectoryAnswers(c) /\ UNCHANGED <<cli, dom>>
    \/ ClientsAnswers(c) /\ UNCHANGED <<dir, dom>>
    \/ DomainSaved(c) /\ UNCHANGED <<dir, cli>>
    \/ \E unauthorized \in BOOLEAN :
           \/ RequestFails(c, unauthorized)
           \/ \E l \in calls[c].loads : LoadFails(c, l, unauthorized)
    \/ \E l \in calls[c].loads : LoadAnswered(c, l)

Next ==
    \/ Administrator
    \/ OtherAdministrator
    \/ \E c \in Calls : CoreHandles(c) \/ Answer(c)

Spec == Init /\ [][Next]_vars

(* The browser settles every fetch: with an answer or with an error.       *)
FairSpec == Spec /\ \A c \in Calls : WF_vars(Answer(c))

-----------------------------------------------------------------------------
(***************************************************************************)
(* Properties                                                              *)
(***************************************************************************)

SessionFns == {"restoreSession", "authenticateToken", "logout", "refresh", "openUserEditor"}

(* What a function sends: the row it is for, and what the form holds.      *)
OuArgs ==
    [target : OrganizationalUnits \cup {Null}, id : OrganizationalUnits,
     parent : OrganizationalUnits \cup {Root}]
UserArgs ==
    [target : Users \cup {Null}, id : Users \cup {Null}, ou : OrganizationalUnits]
GroupArgs ==
    [target : Groups \cup {Null}, id : Groups, ou : OrganizationalUnits, members : SUBSET Users]
MembersArgs == [target : Groups \cup {Null}, id : Groups, members : SUBSET Users]
RowArgs == [target : OrganizationalUnits \cup Users \cup Clients]
ClientArgs == [target : Clients \cup {Null}, web : BOOLEAN, enabled : BOOLEAN]
CreatedArgs == [target : Clients, created : {TRUE}]
ToggleArgs == [target : Clients, enabled : BOOLEAN]
DomainArgs == [target : Domains, creates : BOOLEAN]

Args ==
    {Null} \cup OuArgs \cup UserArgs \cup GroupArgs \cup MembersArgs \cup RowArgs
    \cup ClientArgs \cup CreatedArgs \cup ToggleArgs \cup DomainArgs

CallRecords ==
    [fn : SaveFns \cup SessionFns \cup {"idle"},
     step : {"none", "sent", "read", "applied", "refused", "loads", "failed"},
     arg : Args, loads : SUBSET ListNames, since : Nat]

(* A function waits for loads exactly as long as some have not been        *)
(* answered, and began at a moment of the history.                         *)
IsCall(call) ==
    \/ call = Idle
    \/ /\ call.fn # "idle" /\ call.step # "none" /\ call.since \in 1 .. Version
       /\ call.loads # {} <=> call.step \in {"loads", "failed"}

(* Types; and a function waits for loads exactly as long as some have not  *)
(* been answered (useAdminApi).                                            *)
ConsoleTypeOK ==
    /\ authenticated \in BOOLEAN /\ saving \in BOOLEAN /\ page \in Pages
    /\ history \in Seq(Tables) /\ Version \in 1 .. MaxVersion
    /\ lists \in CachedLists
    /\ calls \in [Calls -> CallRecords] /\ \A c \in Calls : IsCall(calls[c])
    /\ dir \in DirectoryRefs /\ cli \in ClientRefs /\ dom \in DomainRefs
    /\ dialog # Null => dialog.fn \in {"removeOu", "removeUser", "removeClient",
                                       "regenerateSecret"}

InSave(c) == calls[c].fn \in SaveFns /\ calls[c].step # "failed"

(* `saving' is set exactly while one function of the page saves, and never *)
(* two: the flag and the counter of pending requests disable every control *)
(* that could start another (directory.vue busy, saving).                  *)
SavingIsOneSave ==
    /\ saving = \E c \in Calls : InSave(c)
    /\ \A c, d \in Calls : InSave(c) /\ InSave(d) => c = d

(* What is written to a row was typed into a form that was filled from     *)
(* this row, whatever answers came in between (openUserEditor awaits       *)
(* before it replaces target and form).                                    *)
FormMatchesTarget ==
    /\ dir.editingOuId # Null => dir.ouForm.id = dir.editingOuId
    /\ dir.editingUserId # Null => dir.userForm.id = dir.editingUserId
    /\ dir.editingGroupId # Null => dir.groupForm.id = dir.editingGroupId
    /\ \A c \in Calls : calls[c].fn \in {"saveOu", "saveUser", "saveGroup"}
                        /\ calls[c].step \in {"sent", "read", "applied", "refused"}
                        /\ calls[c].arg.target # Null
                        => calls[c].arg.id = calls[c].arg.target

(* The members of a group go to that group or to none, although saveGroup  *)
(* reads the target again after its first request.                         *)
MembersGoToTheirGroup ==
    \A c \in Calls : calls[c].fn = "saveMembers" /\ calls[c].step \in {"sent", "read", "applied"}
                     => calls[c].arg.target \in {calls[c].arg.id, Null}

(* A secret that is shown is the one Core has for the client whose drawer  *)
(* is open, and a Syncer key the one of the selected domain.               *)
ShownSecretIsCurrent ==
    /\ cli.drawerOpen /\ cli.drawerView = "secret" /\ cli.secret # Null =>
           /\ cli.secret.id = cli.selectedClientId
           /\ Core.secret[cli.secret.id] = cli.secret.value
    /\ dom.drawerOpen /\ dom.syncerKey # Null =>
           Core.key[dom.selectedDomainId] = dom.syncerKey

(* While a secret or a key that can be shown only once is on its way, the  *)
(* drawer that will show it stays open: for a regenerated secret on its    *)
(* client, for a key without an older one.                                 *)
SecretHasADrawer ==
    \A c \in Calls : calls[c].step \in {"sent", "applied"} =>
        /\ calls[c].fn = "regenerateSecret" =>
               cli.drawerOpen /\ cli.selectedClientId = calls[c].arg.target
        /\ calls[c].fn = "saveClient" => cli.drawerOpen
        /\ calls[c].fn = "saveDomain" => dom.drawerOpen /\ dom.syncerKey = Null

(* Every save ends, and the controls come back.                            *)
SaveEnds == saving ~> ~saving

(* Leaving the console ends the local session even when Core cannot be     *)
(* reached.                                                                *)
ExitClearsSession == (\E c \in Calls : calls[c].fn = "logout") ~> ~authenticated
=============================================================================
