--------------------------- MODULE DirectoryPage ---------------------------
(***************************************************************************)
(* The directory page: the tree of organizational units, the tables of     *)
(* users and groups, one drawer with the editor of a unit, a user or a     *)
(* group, the password dialog, and Core's handlers behind them.            *)
(*                                                                         *)
(* Of a row only the identifier and its references to other rows are kept. *)
(* What an administrator types is chosen when the form is submitted.  The  *)
(* tab (users or groups) is left out: its buttons are never disabled.      *)
(* Drawers and dialogs cover the page (external: @stellar/ui), so a click  *)
(* reaches the page only when none is open.                                *)
(***************************************************************************)
EXTENDS AdminApi

ASSUME EditorAssumption == Null \notin {"ou", "user", "group"}

VARIABLE dir  \* the refs of the directory page

(* The forms: of a unit its parent is kept, of a user and a group the unit *)
(* they are in.                                                            *)
BlankOuForm == [id |-> Null, parent |-> Root]
BlankUserForm == [id |-> Null, ou |-> Null]
BlankGroupForm == [id |-> Null, ou |-> Null, members |-> {}]

(* The refs when the page is set up, before the watch on the cached list.  *)
FreshDirectory ==
    [selectedOuId |-> Null, editor |-> Null,
     editingOuId |-> Null, editingUserId |-> Null, editingGroupId |-> Null,
     ouForm |-> BlankOuForm, userForm |-> BlankUserForm, groupForm |-> BlankGroupForm,
     resetPasswordTarget |-> Null]

DirectoryRefs ==
    [selectedOuId : OrganizationalUnits \cup {Null},
     editor : {Null, "ou", "user", "group"},
     editingOuId : OrganizationalUnits \cup {Null},
     editingUserId : Users \cup {Null},
     editingGroupId : Groups \cup {Null},
     ouForm : [id : OrganizationalUnits \cup {Null}, parent : OrganizationalUnits \cup {Root}],
     userForm : [id : Users \cup {Null}, ou : OrganizationalUnits \cup {Null}],
     groupForm : [id : Groups \cup {Null}, ou : OrganizationalUnits \cup {Null},
                  members : SUBSET Users],
     resetPasswordTarget : Users \cup {Null}]

(* watch(organizationalUnits): the selection is kept while it is in the    *)
(* list, and is otherwise the first unit of sortOus, here any of the list. *)
Reselected(shown) ==
    IF shown = {} THEN {Null}
    ELSE IF dir.selectedOuId \in shown THEN {dir.selectedOuId} ELSE shown

(* The shell shows the page and nothing covers it.                         *)
OnDirectory ==
    /\ page = "directory" /\ authenticated
    /\ dir.editor = Null /\ dir.resetPasswordTarget = Null /\ dialog = Null

(* The units the tree shows and the editors offer (treeItems, treeData).   *)
TreeItems == Rows(lists.ous)

(* The part of the page for the selected unit, and the rows of its tables. *)
SelectedOu == dir.selectedOuId \in TreeItems
SelectedUsers == {u \in Users : SelectedOu /\ lists.users[u] = dir.selectedOuId}
SelectedGroups ==
    {g \in Rows(lists.groups) : SelectedOu /\ lists.groups[g].ou = dir.selectedOuId}

(* The buttons of the tree, of the selected unit and of a user's row; a    *)
(* click on the row itself works while the page is busy, too.              *)
OuButtons == OnDirectory /\ ~Busy
NewButtons == OnDirectory /\ ~Busy /\ SelectedOu
UserButtons(u) == OnDirectory /\ ~Busy /\ u \in SelectedUsers
UserRow(u) == OnDirectory /\ u \in SelectedUsers
GroupRow(g) == OnDirectory /\ g \in SelectedGroups

SelectOu ==
    /\ OnDirectory
    /\ \E o \in (TreeItems \cup {Null}) \ {dir.selectedOuId} :
           dir' = [dir EXCEPT !.selectedOuId = o]
    /\ UNCHANGED <<apiVars, pageVars>>

-----------------------------------------------------------------------------
(***************************************************************************)
(* Opening and closing editors.                                            *)
(***************************************************************************)

(* An editor opens: its target, its form, and no target for the others.    *)
Opened(editor, ou, user, group) ==
    [dir EXCEPT !.editor = editor, !.editingOuId = ou, !.editingUserId = user,
                !.editingGroupId = group]

(* The parent a form begins with: a unit's own; but the selected unit for  *)
(* a new one, and also for one at the root.                                *)
InitialParent(ou) ==
    IF ou # Null /\ lists.ous[ou] # Root THEN lists.ous[ou]
    ELSE IF dir.selectedOuId = Null THEN Root ELSE dir.selectedOuId

(* openOuEditor for a new unit below the selected one, or editOuNode.      *)
OpenOuEditor ==
    /\ OuButtons
    /\ \E ou \in TreeItems \cup {Null} :
           dir' = [Opened("ou", ou, Null, Null) EXCEPT !.ouForm =
                       [id |-> ou, parent |-> InitialParent(ou)]]
    /\ UNCHANGED <<apiVars, pageVars>>

(* openUserEditor with a row of the selected unit.                         *)
OpenUserEditor(u) ==
    /\ UserRow(u)
    /\ dir' = [Opened("user", Null, u, Null) EXCEPT !.userForm =
                   [id |-> u, ou |-> lists.users[u]]]
    /\ UNCHANGED <<apiVars, pageVars>>

(* openUserEditor for a new user: the editor opens when the preview of the *)
(* employee ID has come.                                                   *)
RequestEmployeeId ==
    /\ NewButtons
    /\ Begin("openUserEditor", Null)
    /\ UNCHANGED <<authenticated, lists, history, pageVars, dir>>

(* The IDs that no row has had: the sequence of IDs only moves forward.    *)
FreshUsers == {u \in Users : \A i \in DOMAIN history : history[i].users[u] = Null}

(* Mutant: the target is not reset after the await.                        *)
EmployeeIdAnswered_KeepsTarget(c) ==
    /\ calls[c].fn = "openUserEditor" /\ calls[c].step = "sent"
    /\ \E u \in FreshUsers :
           dir' = [dir EXCEPT !.editor = "user",
                              !.userForm = [id |-> u, ou |-> dir.selectedOuId]]
    /\ EndCall(c)
    /\ UNCHANGED <<authenticated, lists, history, pageVars>>

(* The rest of openUserEditor: whatever is open by now is replaced.        *)
EmployeeIdAnswered(c) ==
    /\ calls[c].fn = "openUserEditor" /\ calls[c].step = "sent"
    /\ \E u \in FreshUsers :
           dir' = [Opened("user", Null, Null, Null) EXCEPT !.userForm =
                       [id |-> u, ou |-> dir.selectedOuId]]
    /\ EndCall(c)
    /\ UNCHANGED <<authenticated, lists, history, pageVars>>

(* openGroupEditor with a row of the selected unit.                        *)
OpenGroupEditor(g) ==
    /\ GroupRow(g)
    /\ dir' = [Opened("group", Null, Null, g) EXCEPT !.groupForm =
                   [id |-> g, ou |-> lists.groups[g].ou, members |-> lists.groups[g].members]]
    /\ UNCHANGED <<apiVars, pageVars>>

(* openGroupEditor for a new group.                                        *)
OpenNewGroup ==
    /\ NewButtons
    /\ dir' = [Opened("group", Null, Null, Null) EXCEPT !.groupForm =
                   [id |-> Null, ou |-> dir.selectedOuId, members |-> {}]]
    /\ UNCHANGED <<apiVars, pageVars>>

(* The drawer closed.  An opening editor sets every target and fills its   *)
(* form before anything reads them, so what they held is dropped here.     *)
Closed(refs) ==
    [FreshDirectory EXCEPT !.selectedOuId = refs.selectedOuId,
                           !.resetPasswordTarget = refs.resetPasswordTarget]

(* Mutant: the drawer can be closed while its form is being saved.         *)
CloseEditor_WhileSaving ==
    /\ page = "directory" /\ authenticated /\ dir.editor # Null
    /\ dir' = [dir EXCEPT !.editor = Null]
    /\ UNCHANGED <<apiVars, pageVars>>

(* ouEditorOpen, userEditorOpen and groupEditorOpen set to false.          *)
CloseEditor ==
    /\ page = "directory" /\ authenticated /\ dir.editor # Null /\ ~saving
    /\ dir' = Closed(dir)
    /\ UNCHANGED <<apiVars, pageVars>>

OpenResetPassword(u) ==
    /\ UserButtons(u)
    /\ dir' = [dir EXCEPT !.resetPasswordTarget = u]
    /\ UNCHANGED <<apiVars, pageVars>>

(* The password dialog, with its controls enabled.                         *)
ResettingPassword ==
    page = "directory" /\ authenticated /\ dir.resetPasswordTarget # Null /\ ~saving

(* resetPasswordOpen set to false.                                         *)
CloseResetPassword ==
    /\ ResettingPassword
    /\ dir' = [dir EXCEPT !.resetPasswordTarget = Null]
    /\ UNCHANGED <<apiVars, pageVars>>

-----------------------------------------------------------------------------
(***************************************************************************)
(* Submitting.  The request is sent with what the form holds, and the form *)
(* is kept: the functions read it again after the answer.                  *)
(***************************************************************************)

(* Mutant: a form can be submitted again while it is saved.                *)
Editing_WhileSaving(editor) ==
    page = "directory" /\ authenticated /\ dir.editor = editor /\ dialog = Null

(* The drawer's form can be submitted.                                     *)
Editing(editor) ==
    page = "directory" /\ authenticated /\ dir.editor = editor /\ ~saving /\ dialog = Null

(* What the editors let an administrator enter: an identifier only for a   *)
(* new row; a parent that is not the unit itself, or the one the form      *)
(* began with; a unit of the list, or the one the form began with.         *)
OuInputs ==
    [id : IF dir.editingOuId = Null THEN OrganizationalUnits ELSE {dir.editingOuId},
     parent : ((TreeItems \cup {Root}) \ {dir.editingOuId}) \cup {dir.ouForm.parent}]

UserInputs == [id : {dir.userForm.id}, ou : (TreeItems \cup {dir.userForm.ou}) \ {Null}]

GroupInputs ==
    [id : IF dir.editingGroupId = Null THEN Groups ELSE {dir.editingGroupId},
     ou : (TreeItems \cup {dir.groupForm.ou}) \ {Null}, members : SUBSET Users]

SaveOu ==
    /\ Editing("ou")
    /\ \E form \in OuInputs :
           /\ dir' = [dir EXCEPT !.ouForm = form]
           /\ Submit("saveOu", [target |-> dir.editingOuId, id |-> form.id,
                                parent |-> form.parent])
    /\ UNCHANGED dialog

SaveUser ==
    /\ Editing("user")
    /\ \E form \in UserInputs :
           /\ dir' = [dir EXCEPT !.userForm = form]
           /\ Submit("saveUser", [target |-> dir.editingUserId, id |-> form.id, ou |-> form.ou])
    /\ UNCHANGED dialog

(* saveGroup until its first await; splitMembers gives the members.        *)
SaveGroup ==
    /\ Editing("group")
    /\ \E form \in GroupInputs :
           /\ dir' = [dir EXCEPT !.groupForm = form]
           /\ Submit("saveGroup", [target |-> dir.editingGroupId, id |-> form.id, ou |-> form.ou,
                                   members |-> form.members])
    /\ UNCHANGED dialog

ResetUserPassword ==
    /\ ResettingPassword
    /\ Submit("resetUserPassword", [target |-> dir.resetPasswordTarget])
    /\ UNCHANGED <<dialog, dir>>

(* removeOu until the confirmation: the cached lists show no row below it. *)
AskRemoveOu(o) ==
    /\ OuButtons /\ o \in TreeItems
    /\ \A p \in TreeItems : lists.ous[p] # o
    /\ \A u \in Rows(lists.users) : lists.users[u] # o
    /\ \A g \in Rows(lists.groups) : lists.groups[g].ou # o
    /\ dialog' = [fn |-> "removeOu", target |-> o]
    /\ UNCHANGED <<apiVars, page, saving, dir>>

(* removeUser until the confirmation.                                      *)
AskRemoveUser(u) ==
    /\ UserButtons(u)
    /\ dialog' = [fn |-> "removeUser", target |-> u]
    /\ UNCHANGED <<apiVars, page, saving, dir>>

-----------------------------------------------------------------------------
(***************************************************************************)
(* Core's handlers.  A write is one transaction, except that the handlers  *)
(* of a group read it first and write it back in another transaction.      *)
(***************************************************************************)

(* create_organizational_unit and update_organizational_unit               *)
CoreWritesOu(c) ==
    /\ SentTo(c, "saveOu")
    /\ Applies(c, [Core EXCEPT !.ous[calls[c].arg.id] = calls[c].arg.parent])

IsEmptyOu(o) ==
    /\ \A p \in Rows(Core.ous) : Core.ous[p] # o
    /\ \A u \in Rows(Core.users) : Core.users[u] # o
    /\ \A g \in Rows(Core.groups) : Core.groups[g].ou # o

(* delete_organizational_unit                                              *)
CoreDeletesOu(c) ==
    /\ SentTo(c, "removeOu")
    /\ LET o == calls[c].arg.target IN
       IF Core.ous[o] # Null /\ IsEmptyOu(o) THEN Applies(c, [Core EXCEPT !.ous[o] = Null])
       ELSE Refuses(c)

(* update_user writes the row whether or not there is one; create_user     *)
(* takes the next employee ID, or refuses a username that is taken.        *)
CoreWritesUser(c) ==
    /\ SentTo(c, "saveUser")
    /\ \/ /\ calls[c].arg.target # Null
          /\ Applies(c, [Core EXCEPT !.users[calls[c].arg.target] = calls[c].arg.ou])
       \/ /\ calls[c].arg.target = Null
          /\ \/ \E u \in FreshUsers : Applies(c, [Core EXCEPT !.users[u] = calls[c].arg.ou])
             \/ Refuses(c)

WithoutUser(tables, u) ==
    [tables EXCEPT
        !.users[u] = Null,
        !.groups = [g \in Groups |-> IF @[g] = Null THEN Null
                                     ELSE [ou |-> @[g].ou, members |-> @[g].members \ {u}]]]

(* delete_user                                                             *)
CoreDeletesUser(c) ==
    /\ SentTo(c, "removeUser")
    /\ LET u == calls[c].arg.target IN
       IF Core.users[u] # Null THEN Applies(c, WithoutUser(Core, u)) ELSE Refuses(c)

(* reset_user_password: the credential is not part of these tables.        *)
CoreResetsPassword(c) ==
    /\ SentTo(c, "resetUserPassword")
    /\ calls' = [calls EXCEPT ![c].step = "applied"]
    /\ UNCHANGED <<authenticated, lists, history, pageVars>>

(* create_group: the row is written with no members, over an existing one. *)
CoreCreatesGroup(c) ==
    /\ SentTo(c, "saveGroup") /\ calls[c].arg.target = Null
    /\ Applies(c, [Core EXCEPT !.groups[calls[c].arg.id] =
                       [ou |-> calls[c].arg.ou, members |-> {}]])

(* update_group and replace_group_members read the row.                    *)
CoreReadsGroup(c) ==
    /\ \/ SentTo(c, "saveGroup") /\ calls[c].arg.target # Null
       \/ SentTo(c, "saveMembers")
    /\ LET g == calls[c].arg.target IN
       IF g # Null /\ Core.groups[g] # Null
       THEN /\ calls' = [calls EXCEPT ![c].step = "read", ![c].since = Version]
            /\ UNCHANGED <<authenticated, lists, history, pageVars>>
       ELSE Refuses(c)

(* write_group with the fields of the request and those that were read     *)
CoreWritesGroup(c) ==
    /\ calls[c].step = "read"
    /\ LET g == calls[c].arg.target
           existing == history[calls[c].since].groups[g]
       IN Applies(c, [Core EXCEPT !.groups[g] =
              IF calls[c].fn = "saveGroup"
              THEN [ou |-> calls[c].arg.ou, members |-> existing.members]
              ELSE [ou |-> existing.ou, members |-> calls[c].arg.members]])

-----------------------------------------------------------------------------
(***************************************************************************)
(* The answers.  Each function goes on to its next request or to its       *)
(* loads.                                                                  *)
(***************************************************************************)

OuSaved(c) ==
    /\ Answered(c, "saveOu")
    /\ GoesOn(c, Loading(calls[c].fn, {"ous", "sync"}))
    /\ dir' = IF calls[c].arg.target = Null
              THEN [dir EXCEPT !.selectedOuId = dir.ouForm.id] ELSE dir

OuRemoved(c) ==
    /\ Answered(c, "removeOu")
    /\ GoesOn(c, Loading(calls[c].fn, {"ous", "users", "groups", "sync"}))
    /\ LET o == calls[c].arg.target
           deselected == IF dir.selectedOuId = o THEN [dir EXCEPT !.selectedOuId = Null] ELSE dir
       IN dir' = IF dir.editingOuId = o
                 THEN Closed(deselected)
                 ELSE deselected

UserSaved(c) ==
    /\ Answered(c, "saveUser")
    /\ GoesOn(c, Loading(calls[c].fn, {"users", "sync"}))
    /\ dir' = [dir EXCEPT !.selectedOuId = dir.userForm.ou]

UserRemoved(c) ==
    /\ Answered(c, "removeUser")
    /\ GoesOn(c, Loading(calls[c].fn, {"users", "groups", "sync"}))
    /\ LET u == calls[c].arg.target
           closed == IF dir.editingUserId = u
                     THEN Closed(dir) ELSE dir
       IN dir' = IF dir.resetPasswordTarget = u
                 THEN [closed EXCEPT !.resetPasswordTarget = Null] ELSE closed

PasswordReset(c) ==
    /\ Answered(c, "resetUserPassword")
    /\ GoesOn(c, Loading(calls[c].fn, {"sync"}))
    /\ UNCHANGED dir

(* saveGroup after PATCH or POST: the group that is to get the members is  *)
(* read from the refs again.                                               *)
MembersTarget(c) == IF calls[c].arg.target # Null THEN dir.editingGroupId ELSE dir.groupForm.id

SendsMembers(c) == calls[c].arg.target # Null \/ calls[c].arg.members # {}

GroupSaved(c) ==
    /\ Answered(c, "saveGroup")
    /\ IF SendsMembers(c)
       THEN /\ GoesOn(c, Sent("saveMembers",
                   [target |-> MembersTarget(c), id |-> calls[c].arg.id,
                    members |-> calls[c].arg.members]))
            /\ UNCHANGED dir
       ELSE /\ GoesOn(c, Loading(calls[c].fn, {"groups", "sync"}))
            /\ dir' = [dir EXCEPT !.selectedOuId = dir.groupForm.ou]

MembersSaved(c) ==
    /\ Answered(c, "saveMembers")
    /\ GoesOn(c, Loading(calls[c].fn, {"groups", "sync"}))
    /\ dir' = [dir EXCEPT !.selectedOuId = dir.groupForm.ou]

(* The refs when the last load of a function has come.                     *)
DirectoryCompleted(fn, refs) ==
    IF fn \in {"saveOu", "saveUser", "saveGroup", "saveMembers"}
    THEN Closed(refs)
    ELSE IF fn = "resetUserPassword" THEN [refs EXCEPT !.resetPasswordTarget = Null]
    ELSE refs

-----------------------------------------------------------------------------
DirectoryNext ==
    \/ SelectOu \/ OpenOuEditor \/ RequestEmployeeId \/ OpenNewGroup
    \/ \E u \in Users : OpenUserEditor(u) \/ OpenResetPassword(u) \/ AskRemoveUser(u)
    \/ \E g \in Groups : OpenGroupEditor(g)
    \/ \E o \in OrganizationalUnits : AskRemoveOu(o)
    \/ CloseEditor \/ CloseResetPassword
    \/ SaveOu \/ SaveUser \/ SaveGroup \/ ResetUserPassword

DirectoryAnswers(c) ==
    \/ EmployeeIdAnswered(c)
    \/ OuSaved(c) \/ OuRemoved(c) \/ UserSaved(c) \/ UserRemoved(c) \/ PasswordReset(c)
    \/ GroupSaved(c) \/ MembersSaved(c)

DirectoryCore(c) ==
    \/ CoreWritesOu(c) \/ CoreDeletesOu(c) \/ CoreWritesUser(c) \/ CoreDeletesUser(c)
    \/ CoreResetsPassword(c) \/ CoreCreatesGroup(c) \/ CoreReadsGroup(c) \/ CoreWritesGroup(c)
=============================================================================
