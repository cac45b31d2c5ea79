--------------------------- MODULE ConsoleProofs ---------------------------
(***************************************************************************)
(* The management console is safe for any number of rows, of functions     *)
(* that wait at once and of changes in Core: one save at a time, a form    *)
(* goes to the row it was filled from, members go to their group, and a    *)
(* secret that is shown is Core's.  The argument is the invariant          *)
(* ConsoleInv of ConsoleInvariant, here in the form of what it says of     *)
(* each function (CallOK) and of the page.                                 *)
(***************************************************************************)
EXTENDS ConsoleInvariant, TLAPS

IsSave(call) == call.fn \in SaveFns /\ call.step # "failed"

(* What the invariant says of one function that waits.                     *)
CallOK(call) ==
    /\ IsCall(call)
    /\ Requesting(call) => ArgsMatch(call)
    /\ call.step = "read" =>
           /\ call.fn \in {"saveGroup", "saveMembers"} /\ call.arg.target # Null
           /\ history[call.since].groups[call.arg.target] # Null
    /\ call.fn \in {"saveOu", "saveUser", "saveGroup"} /\ Requesting(call)
       /\ call.arg.target # Null => call.arg.id = call.arg.target
    /\ call.fn = "saveGroup" /\ Requesting(call) =>
           /\ dir.editor # Null /\ dir.editingGroupId \in {call.arg.target, Null}
           /\ call.arg.target = Null => dir.groupForm.id = call.arg.id
    /\ call.fn = "saveMembers" /\ call.step \in {"sent", "read", "applied"} =>
           call.arg.target \in {call.arg.id, Null}
    /\ call.step \in {"sent", "applied"} =>
           /\ call.fn = "regenerateSecret" =>
                  cli.drawerOpen /\ cli.selectedClientId = call.arg.target
           /\ call.fn = "saveClient" => cli.drawerOpen
           /\ call.fn = "saveDomain" => dom.drawerOpen /\ dom.syncerKey = Null
    /\ call.fn \in ClientFns =>
           /\ call.step \in {"sent", "applied", "refused"}
           /\ cli.drawerOpen => cli.drawerView = "editor"
    /\ call.step = "applied" =>
           /\ call.fn \in {"saveClient", "regenerateSecret"} =>
                  history[call.since].secret[call.arg.target] = Core.secret[call.arg.target]
           /\ call.fn = "saveDomain" =>
                  history[call.since].key[call.arg.target] = Core.key[call.arg.target]

(* The forms of the directory page are those of their targets.             *)
FormsOK ==
    /\ dir.editingOuId # Null => dir.ouForm.id = dir.editingOuId
    /\ dir.editingUserId # Null => dir.userForm.id = dir.editingUserId
    /\ dir.editingGroupId # Null => dir.groupForm.id = dir.editingGroupId

(* The invariant, taken apart by function and by page.                     *)
LEMMA InvariantByCall ==
    ASSUME ConsoleInv
    PROVE  /\ ConsoleTypeOK /\ SavingIsOneSave /\ DialogIsAlone
           /\ FormsOK /\ ShownSecretIsCurrent
           /\ \A c \in Calls : CallOK(calls[c])
  BY DEF ConsoleInv, ConsoleTypeOK, FormsOK, FormMatchesTarget, CallOK, RequestsMatch,
      ReadGroupsExist, GroupRefsKept, MembersGoToTheirGroup, SecretHasADrawer,
      ClientSaveHidesSecret, MadeIsCurrent, Requesting

(* And put together again.                                                 *)
LEMMA InvariantFromCalls ==
    ASSUME ConsoleTypeOK', SavingIsOneSave', DialogIsAlone', FormsOK', ShownSecretIsCurrent',
           \A c \in Calls : CallOK(calls[c])'
    PROVE  ConsoleInv'
  BY DEF ConsoleInv, FormsOK, FormMatchesTarget, CallOK, RequestsMatch,
      ReadGroupsExist, GroupRefsKept, MembersGoToTheirGroup, SecretHasADrawer,
      ClientSaveHidesSecret, MadeIsCurrent, Requesting

-----------------------------------------------------------------------------
(* What a function does to its record.                                     *)

(* A function begins in a call that is free.                               *)
LEMMA FreeCallIsIdle ==
    ASSUME \E c \in Calls : IsIdle(c)
    PROVE  FreeCall \in Calls /\ IsIdle(FreeCall)
  BY Zenon DEF FreeCall

(* The load of some list is always modelled.                               *)
LEMMA ModelledLists ==
    ASSUME NEW names \in SUBSET ListNames
    PROVE  Modelled(names) \in SUBSET ListNames /\ Modelled(names) # {}
  BY DEF Modelled, ListNames

(* The records of functions that wait for nothing, a request or loads.     *)
LEMMA RecordsAreTyped ==
    ASSUME Version \in Nat
    PROVE  /\ Idle \in CallRecords
           /\ \A fn \in SaveFns \cup SessionFns, arg \in Args : Sent(fn, arg) \in CallRecords
           /\ \A fn \in SaveFns \cup SessionFns, names \in SUBSET ListNames :
                  Loading(fn, names) \in CallRecords
  <1>1. Null \in Args BY DEF Args
  <1> QED BY <1>1, ModelledLists DEF Idle, Sent, Loading, CallRecords

(* A step of one function leaves the records of the others alone.          *)
LEMMA OneRecordChanges ==
    ASSUME calls \in [Calls -> CallRecords], NEW c \in Calls, NEW new \in CallRecords,
           calls' = [calls EXCEPT ![c] = new]
    PROVE  /\ calls' \in [Calls -> CallRecords] /\ calls'[c] = new
           /\ \A d \in Calls \ {c} : calls'[d] = calls[d]
  OBVIOUS

(* Core's tables are those of the last version.                            *)
LEMMA CoreIsTyped ==
    ASSUME ConsoleTypeOK
    PROVE  /\ Version \in Nat /\ Version \in 1 .. MaxVersion /\ Core = history[Version]
           /\ Core \in Tables /\ \A i \in 1 .. Version : history[i] \in Tables
  BY MaxVersionAssumption DEF ConsoleTypeOK, Core, Version

(* A write of Core adds a version and keeps the others.                    *)
LEMMA HistoryGrows ==
    ASSUME ConsoleTypeOK, NEW tables \in Tables, CoreBecomes(tables)
    PROVE  /\ history' \in Seq(Tables) /\ Version' = Version + 1 /\ Version' \in 1 .. MaxVersion
           /\ history'[Version + 1] = tables /\ Core' = tables
           /\ \A i \in 1 .. Version : history'[i] = history[i]
  <1>1. Version \in Nat /\ history \in Seq(Tables) /\ Version = Len(history)
    BY CoreIsTyped DEF ConsoleTypeOK, Version
  <1>2. history' = Append(history, tables) /\ Version < MaxVersion
    BY DEF CoreBecomes
  <1>3. history' \in Seq(Tables) /\ Len(history') = Version + 1
        /\ history'[Version + 1] = tables /\ \A i \in 1 .. Version : history'[i] = history[i]
    BY <1>1, <1>2
  <1> QED BY <1>1, <1>2, <1>3, MaxVersionAssumption DEF Version, Core

-----------------------------------------------------------------------------
(* How a step keeps the invariant.                                         *)

(* What Core keeps while it is not writing a secret or a key, and what the *)
(* directory page keeps while a group is being saved.                      *)
VersionsKept ==
    Version' \in Nat /\ Version <= Version' /\ \A i \in 1 .. Version : history'[i] = history[i]

RefsKept ==
    /\ Core'.secret = Core.secret /\ Core'.key = Core.key
    /\ UNCHANGED cli
    /\ dom.drawerOpen => UNCHANGED dom
    /\ dir.editor # Null => /\ dir'.editor # Null
                            /\ dir'.editingGroupId \in {dir.editingGroupId, Null}
                            /\ dir'.groupForm.id = dir.groupForm.id

(* A function that waits is not disturbed by a step that keeps what it     *)
(* will read; one that does not save reads nothing of it.                  *)
LEMMA OtherCallKept ==
    ASSUME ConsoleTypeOK, NEW d \in Calls, calls[d] \in CallRecords, calls'[d] = calls[d],
           CallOK(calls[d]), VersionsKept, IsSave(calls[d]) => RefsKept
    PROVE  CallOK(calls[d])'
  <1>1. Version \in Nat BY CoreIsTyped
  <1>2. IsCall(calls[d])'
    BY <1>1 DEF CallOK, IsCall, VersionsKept, Idle
  <1>3. calls[d] # Idle => history'[calls[d].since] = history[calls[d].since]
    BY <1>1 DEF CallOK, IsCall, VersionsKept
  <1>4. calls[d] = Idle => calls[d].fn = "idle" /\ calls[d].step = "none"
    BY DEF Idle
  <1>5. CASE IsSave(calls[d])
    BY <1>2, <1>3, <1>4, <1>5
       DEF CallOK, RefsKept, Requesting, ArgsMatch, ClientFns, IsSave, SaveFns
  <1>6. CASE ~IsSave(calls[d])
    BY <1>2, <1>3, <1>4, <1>6 DEF CallOK, Requesting, ArgsMatch, ClientFns, IsSave, SaveFns
  <1> QED BY <1>5, <1>6

(* `saving' follows the function that saves.                               *)
LEMMA SavingFollows ==
    ASSUME SavingIsOneSave, NEW c \in Calls, \A d \in Calls \ {c} : calls'[d] = calls[d],
           \/ (IsSave(calls[c])' <=> IsSave(calls[c])) /\ saving' = saving
           \/ ~saving /\ IsSave(calls[c])' /\ saving' = TRUE
           \/ IsSave(calls[c]) /\ ~IsSave(calls[c])' /\ saving' = FALSE
    PROVE  SavingIsOneSave'
  <1> DEFINE S(d) == IsSave(calls[d])
  <1>1. /\ saving = \E d \in Calls : S(d)
        /\ \A d, e \in Calls : S(d) /\ S(e) => d = e
    BY DEF SavingIsOneSave, InSave, IsSave
  <1>2. \A d \in Calls \ {c} : S(d)' <=> S(d)
    BY DEF IsSave
  <1>3. /\ saving' = \E d \in Calls : S(d)'
        /\ \A d, e \in Calls : S(d)' /\ S(e)' => d = e
    <2>1. CASE (S(c)' <=> S(c)) /\ saving' = saving
      <3>1. \A d \in Calls : S(d)' <=> S(d) BY <1>2, <2>1
      <3>2. (\E d \in Calls : S(d)') = \E d \in Calls : S(d)
        <4> HIDE DEF S
        <4> QED BY <3>1, Zenon
      <3> HIDE DEF S
      <3> QED BY <1>1, <2>1, <3>1, <3>2
    <2>2. CASE ~saving /\ S(c)' /\ saving' = TRUE
      <3>1. \A d \in Calls \ {c} : ~S(d)' 
        <4> HIDE DEF S
        <4> QED BY <1>1, <1>2, <2>2
      <3> HIDE DEF S
      <3> QED BY <3>1, <2>2
    <2>3. CASE S(c) /\ ~S(c)' /\ saving' = FALSE
      <3>1. \A d \in Calls : ~S(d)'
        <4> HIDE DEF S
        <4> QED BY <1>1, <1>2, <2>3
      <3> HIDE DEF S
      <3> QED BY <3>1, <2>3
    <2> QED BY <2>1, <2>2, <2>3
  <1> QED BY <1>3 DEF SavingIsOneSave, InSave, IsSave

(* The types of everything but the functions that wait.                    *)
StateTyped ==
    /\ authenticated \in BOOLEAN /\ saving \in BOOLEAN /\ page \in Pages
    /\ history \in Seq(Tables) /\ Version \in 1 .. MaxVersion
    /\ lists \in CachedLists
    /\ dir \in DirectoryRefs /\ cli \in ClientRefs /\ dom \in DomainRefs

(* Without a write of Core the versions are the same.                      *)
LEMMA SameVersions ==
    ASSUME ConsoleTypeOK, UNCHANGED history
    PROVE  VersionsKept /\ Core' = Core /\ Version' = Version
  BY CoreIsTyped DEF VersionsKept, Version, Core

(* The step of one function: the others are kept, because they do not save *)
(* or the step keeps what the one that saves will read.                    *)
LEMMA CallStep ==
    ASSUME ConsoleInv, NEW c \in Calls, NEW new \in CallRecords,
           calls' = [calls EXCEPT ![c] = new], CallOK(calls[c])', StateTyped',
           VersionsKept, saving /\ ~IsSave(calls[c]) => RefsKept,
           \/ (IsSave(new) <=> IsSave(calls[c])) /\ saving' = saving
           \/ ~saving /\ IsSave(new) /\ saving' = TRUE
           \/ IsSave(calls[c]) /\ ~IsSave(new) /\ saving' = FALSE,
           DialogIsAlone', FormsOK', ShownSecretIsCurrent'
    PROVE  ConsoleInv'
  <1>1. ConsoleTypeOK /\ SavingIsOneSave /\ \A d \in Calls : CallOK(calls[d])
    BY InvariantByCall
  <1>2. calls \in [Calls -> CallRecords] BY <1>1 DEF ConsoleTypeOK
  <1>3. /\ calls' \in [Calls -> CallRecords] /\ calls'[c] = new
        /\ \A d \in Calls \ {c} : calls'[d] = calls[d]
    BY <1>2, OneRecordChanges
  <1>4. SavingIsOneSave'
    BY <1>1, <1>3, SavingFollows DEF IsSave
  <1>5. ASSUME NEW d \in Calls \ {c} PROVE CallOK(calls[d])'
    <2>1. calls[d] \in CallRecords /\ calls'[d] = calls[d] BY <1>2, <1>3
    <2>2. IsSave(calls[d]) => RefsKept
      BY <1>1, <1>5 DEF SavingIsOneSave, InSave, IsSave
    <2>3. CallOK(calls[d]) BY <1>1
    <2> QED BY <1>1, <2>1, <2>2, <2>3, OtherCallKept
  <1>6. \A d \in Calls : CallOK(calls[d])'
    BY <1>5
  <1>7. ConsoleTypeOK'
    BY <1>3, <1>6 DEF StateTyped, ConsoleTypeOK, CallOK, DialogIsAlone
  <1> QED BY <1>4, <1>6, <1>7, InvariantFromCalls

(* A step of the page, or of another administrator: no function moves.     *)
LEMMA PageStep ==
    ASSUME ConsoleInv, UNCHANGED <<calls, saving>>, StateTyped', VersionsKept,
           saving => RefsKept, DialogIsAlone', FormsOK', ShownSecretIsCurrent'
    PROVE  ConsoleInv'
  <1>1. ConsoleTypeOK /\ SavingIsOneSave /\ \A d \in Calls : CallOK(calls[d])
    BY InvariantByCall
  <1>2. calls \in [Calls -> CallRecords] BY <1>1 DEF ConsoleTypeOK
  <1>4. SavingIsOneSave'
    BY <1>1 DEF SavingIsOneSave, InSave
  <1>5. ASSUME NEW d \in Calls PROVE CallOK(calls[d])'
    <2>1. calls[d] \in CallRecords /\ calls'[d] = calls[d] BY <1>2
    <2>2. IsSave(calls[d]) => RefsKept
      BY <1>1, <1>5 DEF SavingIsOneSave, InSave, IsSave
    <2>3. CallOK(calls[d]) BY <1>1
    <2> QED BY <1>1, <2>1, <2>2, <2>3, OtherCallKept
  <1>7. ConsoleTypeOK'
    BY <1>2, <1>5 DEF StateTyped, ConsoleTypeOK, CallOK, DialogIsAlone
  <1> QED BY <1>4, <1>5, <1>7, InvariantFromCalls

(* An open confirmation stays alone while the page stays as it is.         *)
LEMMA DialogStays ==
    ASSUME DialogIsAlone, UNCHANGED <<page, dialog>>,
           dialog # Null => /\ saving' => saving
                            /\ cli' = cli
                            /\ dir.resetPasswordTarget = Null => dir'.resetPasswordTarget = Null
    PROVE  DialogIsAlone'
  BY DEF DialogIsAlone

(* What is shown stays Core's while Core writes no secret and no key.      *)
LEMMA ShownStays ==
    ASSUME ShownSecretIsCurrent, UNCHANGED <<cli, dom>>,
           Core'.secret = Core.secret, Core'.key = Core.key
    PROVE  ShownSecretIsCurrent'
  BY DEF ShownSecretIsCurrent

-----------------------------------------------------------------------------
(* The steps of the administrator that send nothing.                       *)

(* A step that changes only the refs of the directory page.                *)
LEMMA DirectoryStep ==
    ASSUME ConsoleInv, UNCHANGED <<apiVars, pageVars, cli, dom>>, dir' \in DirectoryRefs,
           FormsOK',
           saving /\ dir.editor # Null =>
               /\ dir'.editor # Null /\ dir'.editingGroupId \in {dir.editingGroupId, Null}
               /\ dir'.groupForm.id = dir.groupForm.id,
           dialog # Null /\ dir.resetPasswordTarget = Null => dir'.resetPasswordTarget = Null
    PROVE  ConsoleInv'
  <1>1. ConsoleTypeOK /\ DialogIsAlone /\ ShownSecretIsCurrent BY InvariantByCall
  <1>2. VersionsKept /\ Core' = Core /\ Version' = Version
    BY <1>1, SameVersions DEF apiVars
  <1>3. StateTyped' BY <1>1, <1>2 DEF StateTyped, ConsoleTypeOK, apiVars, pageVars
  <1>4. saving => RefsKept BY <1>2 DEF RefsKept
  <1>5. DialogIsAlone' BY <1>1, DialogStays DEF pageVars
  <1>6. ShownSecretIsCurrent' BY <1>1, <1>2, ShownStays
  <1> QED BY <1>2, <1>3, <1>4, <1>5, <1>6, PageStep DEF apiVars, pageVars

(* Closing an editor leaves blank forms.                                   *)
LEMMA ClosedIsTyped ==
    ASSUME NEW refs \in DirectoryRefs
    PROVE  /\ Closed(refs) \in DirectoryRefs
           /\ Closed(refs).editingOuId = Null /\ Closed(refs).editingUserId = Null
           /\ Closed(refs).editingGroupId = Null
           /\ Closed(refs).resetPasswordTarget = refs.resetPasswordTarget
  BY DEF Closed, FreshDirectory, DirectoryRefs, BlankOuForm, BlankUserForm, BlankGroupForm

(* The watch on the list of units only moves the selection.                *)
LEMMA ReselectedIsTyped ==
    ASSUME dir \in DirectoryRefs, NEW shown \in SUBSET OrganizationalUnits
    PROVE  Reselected(shown) \subseteq OrganizationalUnits \cup {Null}
  BY DEF Reselected, DirectoryRefs

(* What the page offers are rows of its lists.                             *)
LEMMA OfferedRows ==
    ASSUME ConsoleTypeOK
    PROVE  /\ TreeItems \subseteq OrganizationalUnits
           /\ \A o \in TreeItems : lists.ous[o] \in OrganizationalUnits \cup {Root}
           /\ SelectedUsers \subseteq Users /\ SelectedGroups \subseteq Groups
           /\ \A u \in SelectedUsers : lists.users[u] \in OrganizationalUnits
           /\ \A g \in SelectedGroups : lists.groups[g] \in GroupRows
           /\ \A k \in Rows(lists.clients) : k \in Clients /\ lists.clients[k] \in ClientRows
  BY DEF ConsoleTypeOK, CachedLists, TreeItems, Rows, SelectedUsers, SelectedGroups, SelectedOu,
      DirectoryRefs

(* Selecting a unit.                                                       *)
LEMMA SelectOuStep ==
    ASSUME ConsoleInv, SelectOu, UNCHANGED <<cli, dom>>
    PROVE  ConsoleInv'
  <1>1. ConsoleTypeOK /\ FormsOK BY InvariantByCall
  <1>2. PICK o \in TreeItems \cup {Null} : dir' = [dir EXCEPT !.selectedOuId = o]
    BY DEF SelectOu
  <1>3. dir \in DirectoryRefs /\ o \in OrganizationalUnits \cup {Null}
    BY <1>1, <1>2, OfferedRows DEF ConsoleTypeOK
  <1>4. dir' \in DirectoryRefs BY <1>2, <1>3 DEF DirectoryRefs
  <1>5. FormsOK' BY <1>1, <1>2, <1>3 DEF FormsOK, DirectoryRefs
  <1> QED BY <1>2, <1>3, <1>4, <1>5, DirectoryStep DEF SelectOu, DirectoryRefs

(* openOuEditor: only while nothing saves.                                 *)
LEMMA OpenOuEditorStep ==
    ASSUME ConsoleInv, OpenOuEditor, UNCHANGED <<cli, dom>>
    PROVE  ConsoleInv'
  <1>1. ConsoleTypeOK /\ FormsOK BY InvariantByCall
  <1>2. PICK ou \in TreeItems \cup {Null} :
            dir' = [Opened("ou", ou, Null, Null) EXCEPT !.ouForm =
                        [id |-> ou, parent |-> InitialParent(ou)]]
    BY DEF OpenOuEditor
  <1>3. dir \in DirectoryRefs /\ ou \in OrganizationalUnits \cup {Null}
    BY <1>1, <1>2, OfferedRows DEF ConsoleTypeOK
  <1>4. InitialParent(ou) \in OrganizationalUnits \cup {Root}
    BY <1>1, <1>2, <1>3, OfferedRows DEF InitialParent, DirectoryRefs
  <1>5. dir' \in DirectoryRefs BY <1>2, <1>3, <1>4 DEF DirectoryRefs, Opened
  <1>6. FormsOK' BY <1>2, <1>3 DEF FormsOK, DirectoryRefs, Opened
  <1>7. ~saving /\ dialog = Null BY DEF OpenOuEditor, OuButtons, OnDirectory, Busy
  <1> QED BY <1>5, <1>6, <1>7, DirectoryStep DEF OpenOuEditor

(* openUserEditor with a row: possible while something saves, but then no  *)
(* editor is open and no group is being saved.                             *)
LEMMA OpenUserEditorStep ==
    ASSUME ConsoleInv, NEW u \in Users, OpenUserEditor(u), UNCHANGED <<cli, dom>>
    PROVE  ConsoleInv'
  <1>1. ConsoleTypeOK /\ FormsOK BY InvariantByCall
  <1>2. dir' = [Opened("user", Null, u, Null) EXCEPT !.userForm = [id |-> u, ou |-> lists.users[u]]]
    BY DEF OpenUserEditor
  <1>3. dir \in DirectoryRefs /\ lists.users[u] \in OrganizationalUnits
    BY <1>1, OfferedRows DEF ConsoleTypeOK, OpenUserEditor, UserRow
  <1>4. dir' \in DirectoryRefs BY <1>2, <1>3 DEF DirectoryRefs, Opened
  <1>5. FormsOK' BY <1>2, <1>3 DEF FormsOK, DirectoryRefs, Opened
  <1>6. dir.editor = Null /\ dialog = Null BY DEF OpenUserEditor, UserRow, OnDirectory
  <1> QED BY <1>4, <1>5, <1>6, DirectoryStep DEF OpenUserEditor

(* openGroupEditor with a row.                                             *)
LEMMA OpenGroupEditorStep ==
    ASSUME ConsoleInv, NEW g \in Groups, OpenGroupEditor(g), UNCHANGED <<cli, dom>>
    PROVE  ConsoleInv'
  <1>1. ConsoleTypeOK /\ FormsOK BY InvariantByCall
  <1>2. dir' = [Opened("group", Null, Null, g) EXCEPT !.groupForm =
                    [id |-> g, ou |-> lists.groups[g].ou, members |-> lists.groups[g].members]]
    BY DEF OpenGroupEditor
  <1>3. dir \in DirectoryRefs /\ lists.groups[g] \in GroupRows
    BY <1>1, OfferedRows DEF ConsoleTypeOK, OpenGroupEditor, GroupRow
  <1>4. dir' \in DirectoryRefs BY <1>2, <1>3 DEF DirectoryRefs, Opened, GroupRows
  <1>5. FormsOK' BY <1>2, <1>3 DEF FormsOK, DirectoryRefs, Opened
  <1>6. dir.editor = Null /\ dialog = Null BY DEF OpenGroupEditor, GroupRow, OnDirectory
  <1> QED BY <1>4, <1>5, <1>6, DirectoryStep DEF OpenGroupEditor

(* openGroupEditor for a new group.                                        *)
LEMMA OpenNewGroupStep ==
    ASSUME ConsoleInv, OpenNewGroup, UNCHANGED <<cli, dom>>
    PROVE  ConsoleInv'
  <1>1. ConsoleTypeOK /\ FormsOK BY InvariantByCall
  <1>2. dir' = [Opened("group", Null, Null, Null) EXCEPT !.groupForm =
                    [id |-> Null, ou |-> dir.selectedOuId, members |-> {}]]
    BY DEF OpenNewGroup
  <1>3. dir \in DirectoryRefs BY <1>1 DEF ConsoleTypeOK
  <1>4. dir' \in DirectoryRefs BY <1>2, <1>3 DEF DirectoryRefs, Opened
  <1>5. FormsOK' BY <1>2, <1>3 DEF FormsOK, DirectoryRefs, Opened
  <1>6. dir.editor = Null /\ dialog = Null BY DEF OpenNewGroup, NewButtons, OnDirectory
  <1> QED BY <1>4, <1>5, <1>6, DirectoryStep DEF OpenNewGroup

(* Closing the editor: not while something saves.                          *)
LEMMA CloseEditorStep ==
    ASSUME ConsoleInv, CloseEditor, UNCHANGED <<cli, dom>>
    PROVE  ConsoleInv'
  <1>1. ConsoleTypeOK /\ FormsOK BY InvariantByCall
  <1>2. dir' = Closed(dir) /\ dir \in DirectoryRefs /\ ~saving
    BY <1>1 DEF CloseEditor, ConsoleTypeOK
  <1>3. dir' \in DirectoryRefs /\ dir'.resetPasswordTarget = dir.resetPasswordTarget /\ FormsOK'
    BY <1>2, ClosedIsTyped DEF FormsOK
  <1> QED BY <1>2, <1>3, DirectoryStep DEF CloseEditor

(* Opening and closing the password dialog.                                *)
LEMMA ResetPasswordDialogStep ==
    ASSUME ConsoleInv, UNCHANGED <<cli, dom>>,
           CloseResetPassword \/ \E u \in Users : OpenResetPassword(u)
    PROVE  ConsoleInv'
  <1>1. ConsoleTypeOK /\ FormsOK /\ dir \in DirectoryRefs
    BY InvariantByCall DEF ConsoleTypeOK
  <1>2. PICK u \in Users \cup {Null} :
            /\ dir' = [dir EXCEPT !.resetPasswordTarget = u]
            /\ UNCHANGED <<apiVars, pageVars>> /\ ~saving
            /\ u = Null \/ dialog = Null
    BY DEF CloseResetPassword, OpenResetPassword, ResettingPassword, UserButtons, OnDirectory,
        Busy
  <1>3. dir' \in DirectoryRefs BY <1>1, <1>2 DEF DirectoryRefs
  <1>4. FormsOK' BY <1>1, <1>2 DEF FormsOK, DirectoryRefs
  <1>5. dialog # Null => dir'.resetPasswordTarget = Null BY <1>1, <1>2 DEF DirectoryRefs
  <1> QED BY <1>2, <1>3, <1>4, <1>5, DirectoryStep

(* A confirmation is asked for, from a page on which nothing saves.        *)
LEMMA AskStep ==
    ASSUME ConsoleInv, UNCHANGED <<apiVars, page, saving, dir, cli, dom>>, DialogIsAlone'
    PROVE  ConsoleInv'
  <1>1. ConsoleTypeOK /\ ShownSecretIsCurrent /\ FormsOK BY InvariantByCall
  <1>2. VersionsKept /\ Core' = Core /\ Version' = Version
    BY <1>1, SameVersions DEF apiVars
  <1>3. StateTyped' BY <1>1, <1>2 DEF StateTyped, ConsoleTypeOK, apiVars
  <1>4. saving => RefsKept BY <1>2 DEF RefsKept
  <1>5. FormsOK' BY <1>1 DEF FormsOK
  <1>6. ShownSecretIsCurrent' BY <1>1, <1>2, ShownStays
  <1> QED BY <1>2, <1>3, <1>4, <1>5, <1>6, PageStep DEF apiVars

(* removeOu, removeUser, removeClient and regenerateSecret until their     *)
(* confirmation, and a confirmation that is dismissed.                     *)
LEMMA AskSteps ==
    ASSUME ConsoleInv, UNCHANGED <<dir, cli, dom>>,
           \/ \E o \in OrganizationalUnits : AskRemoveOu(o)
           \/ \E u \in Users : AskRemoveUser(u)
           \/ \E k \in Clients : AskRemoveClient(k)
           \/ AskRegenerateSecret \/ Dismiss
    PROVE  ConsoleInv'
  <1>1. ConsoleTypeOK BY InvariantByCall
  <1>2. ASSUME NEW o \in OrganizationalUnits, AskRemoveOu(o) PROVE ConsoleInv'
    <2>1. DialogIsAlone' BY <1>2 DEF AskRemoveOu, OuButtons, OnDirectory, Busy, DialogIsAlone
    <2> QED BY <1>2, <2>1, AskStep DEF AskRemoveOu
  <1>3. ASSUME NEW u \in Users, AskRemoveUser(u) PROVE ConsoleInv'
    <2>1. DialogIsAlone' BY <1>3 DEF AskRemoveUser, UserButtons, OnDirectory, Busy, DialogIsAlone
    <2> QED BY <1>3, <2>1, AskStep DEF AskRemoveUser
  <1>4. ASSUME NEW k \in Clients, AskRemoveClient(k) PROVE ConsoleInv'
    <2>1. DialogIsAlone' BY <1>4 DEF AskRemoveClient, ClientButtons, OnClients, Busy, DialogIsAlone
    <2> QED BY <1>4, <2>1, AskStep DEF AskRemoveClient
  <1>5. CASE AskRegenerateSecret
    <2>1. cli.selectedClientId \in Clients
      BY <1>1, <1>5 DEF AskRegenerateSecret, ConsoleTypeOK, ClientRefs
    <2>2. DialogIsAlone' BY <1>5, <2>1 DEF AskRegenerateSecret, ClientDrawer, DialogIsAlone
    <2> QED BY <1>5, <2>2, AskStep DEF AskRegenerateSecret
  <1>6. CASE Dismiss
    <2>1. DialogIsAlone' BY <1>6 DEF Dismiss, DialogIsAlone
    <2> QED BY <1>6, <2>1, AskStep DEF Dismiss
  <1> QED BY <1>2, <1>3, <1>4, <1>5, <1>6

(* Opening and closing the drawer of the clients page: not while something *)
(* saves, and an editor that opens shows no secret.                        *)
LEMMA ClientDrawerStep ==
    ASSUME ConsoleInv, UNCHANGED <<dir, dom>>,
           CloseClientDrawer \/ \E k \in Clients \cup {Null} : OpenClientEditor(k)
    PROVE  ConsoleInv'
  <1>1. ConsoleTypeOK /\ FormsOK /\ ShownSecretIsCurrent BY InvariantByCall
  <1>2. UNCHANGED <<apiVars, pageVars>> /\ ~saving /\ dialog = Null
    BY DEF CloseClientDrawer, OpenClientEditor, ClientDrawer, ClientButtons, OnClients, Busy
  <1>3. VersionsKept /\ Core' = Core /\ Version' = Version
    BY <1>1, <1>2, SameVersions DEF apiVars
  <1>4. cli' \in ClientRefs /\ ShownSecretIsCurrent'
    <2>1. CASE CloseClientDrawer
      <3>1. cli' = [cli EXCEPT !.drawerOpen = FALSE] /\ cli \in ClientRefs
        BY <1>1, <2>1 DEF CloseClientDrawer, ConsoleTypeOK
      <3>2. cli' \in ClientRefs /\ ~cli'.drawerOpen BY <3>1 DEF ClientRefs
      <3> QED BY <1>1, <1>3, <3>2 DEF ShownSecretIsCurrent
    <2>2. ASSUME NEW k \in Clients \cup {Null}, OpenClientEditor(k)
          PROVE  cli' \in ClientRefs /\ ShownSecretIsCurrent'
      <3>1. cli' = [FreshClients EXCEPT !.drawerOpen = TRUE, !.selectedClientId = k,
                        !.editorForm = IF k = Null THEN @ ELSE lists.clients[k]]
        BY <2>2 DEF OpenClientEditor
      <3>2. k # Null => lists.clients[k] \in ClientRows
        BY <1>1, <2>2, OfferedRows DEF OpenClientEditor, ClientButtons
      <3>3. cli' \in ClientRefs /\ cli'.secret = Null
        BY <3>1, <3>2 DEF ClientRefs, FreshClients, BlankEditorForm, ClientRows
      <3> QED BY <1>1, <1>3, <3>3 DEF ShownSecretIsCurrent
    <2> QED BY <2>1, <2>2
  <1>5. StateTyped' BY <1>1, <1>2, <1>3, <1>4 DEF StateTyped, ConsoleTypeOK, apiVars, pageVars
  <1>6. DialogIsAlone' /\ FormsOK' BY <1>1, <1>2 DEF DialogIsAlone, FormsOK, pageVars
  <1> QED BY <1>2, <1>3, <1>4, <1>5, <1>6, PageStep DEF apiVars, pageVars

(* Opening and closing the drawer of the domains page: a row can be opened *)
(* while something saves, but then no drawer is open.                      *)
LEMMA DomainDrawerStep ==
    ASSUME ConsoleInv, UNCHANGED <<dir, cli>>,
           CloseDomainDrawer \/ \E d \in Domains \cup {Null} : OpenDomainEditor(d)
    PROVE  ConsoleInv'
  <1>1. ConsoleTypeOK /\ FormsOK /\ ShownSecretIsCurrent /\ DialogIsAlone BY InvariantByCall
  <1>2. UNCHANGED <<apiVars, pageVars>> /\ (saving => ~dom.drawerOpen)
    BY DEF CloseDomainDrawer, OpenDomainEditor, DomainDrawer, DomainRow, OnDomains, Busy
  <1>3. VersionsKept /\ Core' = Core /\ Version' = Version
    BY <1>1, <1>2, SameVersions DEF apiVars
  <1>4. dom' \in DomainRefs /\ ShownSecretIsCurrent'
    <2>1. CASE CloseDomainDrawer
      <3>1. dom' \in DomainRefs /\ ~dom'.drawerOpen
        BY <1>1, <2>1 DEF CloseDomainDrawer, ConsoleTypeOK, DomainRefs
      <3> QED BY <1>1, <1>3, <3>1 DEF ShownSecretIsCurrent
    <2>2. ASSUME NEW d \in Domains \cup {Null}, OpenDomainEditor(d)
          PROVE  dom' \in DomainRefs /\ ShownSecretIsCurrent'
      <3>1. dom' \in DomainRefs /\ dom'.syncerKey = Null
        BY <2>2 DEF OpenDomainEditor, DomainRefs
      <3> QED BY <1>1, <1>3, <3>1 DEF ShownSecretIsCurrent
    <2> QED BY <2>1, <2>2
  <1>5. StateTyped' BY <1>1, <1>2, <1>3, <1>4 DEF StateTyped, ConsoleTypeOK, apiVars, pageVars
  <1>6. DialogIsAlone' /\ FormsOK' BY <1>1, <1>2 DEF DialogIsAlone, FormsOK, pageVars
  <1>7. saving => RefsKept BY <1>2, <1>3 DEF RefsKept
  <1> QED BY <1>2, <1>3, <1>4, <1>5, <1>6, <1>7, PageStep DEF apiVars, pageVars

-----------------------------------------------------------------------------
(* The steps that send a request.                                          *)

(* A call that is idle again needs nothing.                                *)
LEMMA IdleIsOK ==
    ASSUME NEW c \in Calls, calls'[c] = Idle
    PROVE  CallOK(calls[c])' /\ ~IsSave(Idle)
  BY DEF CallOK, IsCall, Idle, Requesting, ClientFns, IsSave, SaveFns

(* A function that waits for its loads needs nothing but the lists.        *)
LEMMA LoadingIsOK ==
    ASSUME ConsoleTypeOK, UNCHANGED history, NEW c \in Calls,
           NEW fn \in (SaveFns \cup SessionFns) \ ClientFns, NEW names \in SUBSET ListNames,
           calls'[c] = Loading(fn, names)
    PROVE  /\ CallOK(calls[c])' /\ Loading(fn, names) \in CallRecords
           /\ IsSave(Loading(fn, names)) <=> fn \in SaveFns
  <1>1. Version \in Nat /\ Version \in 1 .. Version /\ Version' = Version
    BY CoreIsTyped, SameVersions
  <1>2. Loading(fn, names) \in CallRecords BY <1>1, RecordsAreTyped
  <1>3. Modelled(names) # {} BY ModelledLists
  <1>4. fn # "idle" BY DEF SaveFns, SessionFns
  <1>5. /\ calls'[c].fn = fn /\ calls'[c].step = "loads" /\ calls'[c].since = Version
        /\ calls'[c].loads # {}
    BY <1>3 DEF Loading
  <1>6. IsCall(calls[c])' BY <1>1, <1>4, <1>5 DEF IsCall
  <1>7. CallOK(calls[c])' BY <1>5, <1>6 DEF CallOK, Requesting
  <1> QED BY <1>2, <1>7 DEF Loading, IsSave

(* A function that has sent its request needs what CallOK says of the      *)
(* function it is.                                                         *)
LEMMA SentIsTyped ==
    ASSUME ConsoleTypeOK, UNCHANGED history, NEW c \in Calls,
           NEW fn \in SaveFns \cup SessionFns, NEW arg \in Args,
           calls'[c] = Sent(fn, arg)
    PROVE  /\ Sent(fn, arg) \in CallRecords /\ IsCall(calls[c])'
           /\ calls'[c].fn = fn /\ calls'[c].step = "sent" /\ calls'[c].arg = arg
           /\ IsSave(Sent(fn, arg)) <=> fn \in SaveFns
  <1>1. Version \in Nat /\ Version \in 1 .. Version /\ Version' = Version
    BY CoreIsTyped, SameVersions
  <1>2. Sent(fn, arg) \in CallRecords BY <1>1, RecordsAreTyped
  <1>3. fn # "idle" BY DEF SaveFns, SessionFns
  <1>4. /\ calls'[c].fn = fn /\ calls'[c].step = "sent" /\ calls'[c].since = Version
        /\ calls'[c].loads = {} /\ calls'[c].arg = arg
    BY DEF Sent
  <1>5. IsCall(calls[c])' BY <1>1, <1>3, <1>4 DEF IsCall
  <1> QED BY <1>2, <1>4, <1>5 DEF Sent, IsSave

(* The functions of the session depend on nothing else.                    *)
LEMMA SessionCallIsOK ==
    ASSUME ConsoleTypeOK, UNCHANGED history, NEW c \in Calls, NEW fn \in SessionFns,
           calls'[c] = Sent(fn, Null)
    PROVE  CallOK(calls[c])' /\ Sent(fn, Null) \in CallRecords /\ ~IsSave(Sent(fn, Null))
  <1>1. Null \in Args BY DEF Args
  <1>2. /\ Sent(fn, Null) \in CallRecords /\ IsCall(calls[c])'
        /\ calls'[c].fn = fn /\ calls'[c].step = "sent"
        /\ IsSave(Sent(fn, Null)) <=> fn \in SaveFns
    BY <1>1, SentIsTyped
  <1>3. fn \notin SaveFns BY DEF SaveFns, SessionFns
  <1>4. CallOK(calls[c])' BY <1>2, <1>3 DEF CallOK, Requesting, ArgsMatch, ClientFns, SaveFns
  <1> QED BY <1>2, <1>3, <1>4

(* A function that saves nothing begins.                                   *)
LEMMA BeginStep ==
    ASSUME ConsoleInv, NEW fn \in SessionFns, Begin(fn, Null),
           UNCHANGED <<authenticated, lists, history, pageVars, dir, cli, dom>>
    PROVE  ConsoleInv'
  <1>1. ConsoleTypeOK /\ DialogIsAlone /\ ShownSecretIsCurrent /\ FormsOK
        /\ calls \in [Calls -> CallRecords]
    BY InvariantByCall DEF ConsoleTypeOK
  <1>2. VersionsKept /\ Core' = Core /\ Version' = Version
    BY <1>1, SameVersions
  <1>3. PICK c \in Calls : c = FreeCall /\ IsIdle(c) BY FreeCallIsIdle DEF Begin
  <1>4. calls' = [calls EXCEPT ![c] = Sent(fn, Null)] BY <1>3 DEF Begin
  <1>5. calls'[c] = Sent(fn, Null) BY <1>1, <1>3, <1>4
  <1>6. CallOK(calls[c])' /\ Sent(fn, Null) \in CallRecords /\ ~IsSave(Sent(fn, Null))
    BY <1>1, <1>3, <1>5, SessionCallIsOK
  <1>7. ~IsSave(calls[c]) BY <1>3 DEF IsIdle, IsSave, SaveFns
  <1>8. StateTyped' BY <1>1, <1>2 DEF StateTyped, ConsoleTypeOK, pageVars
  <1>9. RefsKept BY <1>2 DEF RefsKept
  <1>10. DialogIsAlone' BY <1>1, DialogStays DEF pageVars
  <1>11. ShownSecretIsCurrent' /\ FormsOK' BY <1>1, <1>2, ShownStays DEF FormsOK
  <1> QED BY <1>2, <1>3, <1>4, <1>6, <1>7, <1>8, <1>9, <1>10, <1>11, CallStep DEF pageVars

(* The refresh button.                                                     *)
LEMMA RefreshStep ==
    ASSUME ConsoleInv, RefreshButton
    PROVE  ConsoleInv'
  <1>1. ConsoleTypeOK /\ DialogIsAlone /\ ShownSecretIsCurrent /\ FormsOK
        /\ calls \in [Calls -> CallRecords]
    BY InvariantByCall DEF ConsoleTypeOK
  <1>2. PICK names \in SUBSET ListNames : Refresh(names)
    <2>1. {"ous", "users", "groups", "sync"} \in SUBSET ListNames
          /\ {"clients"} \in SUBSET ListNames /\ {"domains", "sync"} \in SUBSET ListNames
      BY DEF ListNames
    <2> QED BY <2>1 DEF RefreshButton
  <1>3. UNCHANGED <<authenticated, lists, history, pageVars, dir, cli, dom>>
    BY <1>2 DEF RefreshButton, Refresh
  <1>4. VersionsKept /\ Core' = Core /\ Version' = Version
    BY <1>1, <1>3, SameVersions
  <1>5. PICK c \in Calls : c = FreeCall /\ IsIdle(c) BY <1>2, FreeCallIsIdle DEF Refresh
  <1>6. calls' = [calls EXCEPT ![c] = Loading("refresh", names)] BY <1>2, <1>5 DEF Refresh
  <1>7. calls'[c] = Loading("refresh", names) BY <1>1, <1>5, <1>6
  <1>8. "refresh" \in SessionFns /\ "refresh" \notin SaveFns /\ "refresh" \notin ClientFns
    BY DEF SessionFns, SaveFns, ClientFns
  <1>9. /\ CallOK(calls[c])' /\ Loading("refresh", names) \in CallRecords
        /\ ~IsSave(Loading("refresh", names))
    BY <1>1, <1>3, <1>5, <1>7, <1>8, LoadingIsOK
  <1>10. ~IsSave(calls[c]) BY <1>5 DEF IsIdle, IsSave, SaveFns
  <1>11. StateTyped' BY <1>1, <1>3, <1>4 DEF StateTyped, ConsoleTypeOK, pageVars
  <1>12. RefsKept BY <1>3, <1>4 DEF RefsKept
  <1>13. DialogIsAlone' BY <1>1, <1>3, DialogStays DEF pageVars
  <1>14. ShownSecretIsCurrent' /\ FormsOK' BY <1>1, <1>3, <1>4, ShownStays DEF FormsOK
  <1> QED BY <1>3, <1>4, <1>5, <1>6, <1>9, <1>10, <1>11, <1>12, <1>13, <1>14, CallStep
          DEF pageVars

(* Another page: nothing waits, and its refs are fresh.                    *)
LEMMA NavigateStep ==
    ASSUME ConsoleInv, NEW p \in Pages, Navigate(p)
    PROVE  ConsoleInv'
  <1>1. ConsoleTypeOK /\ SavingIsOneSave /\ calls \in [Calls -> CallRecords]
    BY InvariantByCall DEF ConsoleTypeOK
  <1>2. ~saving
    BY <1>1 DEF Navigate, NavigationBar, Pending, IsIdle, SavingIsOneSave, InSave, SaveFns
  <1>3. /\ UNCHANGED <<authenticated, lists, history, saving, dialog>> /\ dialog = Null
        /\ page' = p /\ cli' = FreshClients /\ dom' = FreshDomains
        /\ Begin("restoreSession", Null)
    BY DEF Navigate, RestoreSession
  <1>4. VersionsKept /\ Core' = Core /\ Version' = Version
    BY <1>1, <1>3, SameVersions
  <1>5. PICK c \in Calls : c = FreeCall /\ IsIdle(c) BY <1>3, FreeCallIsIdle DEF Begin
  <1>6. calls' = [calls EXCEPT ![c] = Sent("restoreSession", Null)] BY <1>3, <1>5 DEF Begin
  <1>7. calls'[c] = Sent("restoreSession", Null) BY <1>1, <1>5, <1>6
  <1>8. /\ CallOK(calls[c])' /\ Sent("restoreSession", Null) \in CallRecords
        /\ ~IsSave(Sent("restoreSession", Null))
    BY <1>1, <1>3, <1>5, <1>7, SessionCallIsOK DEF SessionFns
  <1>9. ~IsSave(calls[c]) BY <1>5 DEF IsIdle, IsSave, SaveFns
  <1>10. PICK o \in TreeItems \cup {Null} : dir' = [FreshDirectory EXCEPT !.selectedOuId = o]
    BY DEF Navigate
  <1>11. o \in OrganizationalUnits \cup {Null} BY <1>1, OfferedRows
  <1>12. dir' \in DirectoryRefs /\ FormsOK'
    BY <1>10, <1>11 DEF FreshDirectory, DirectoryRefs, FormsOK, BlankOuForm, BlankUserForm,
        BlankGroupForm
  <1>13. /\ cli' \in ClientRefs /\ dom' \in DomainRefs
         /\ ~cli'.drawerOpen /\ ~dom'.drawerOpen
    BY <1>3 DEF FreshClients, FreshDomains, ClientRefs, DomainRefs, BlankEditorForm, ClientRows
  <1>14. StateTyped' BY <1>1, <1>3, <1>4, <1>12, <1>13 DEF StateTyped, ConsoleTypeOK
  <1>15. DialogIsAlone' /\ ShownSecretIsCurrent'
    BY <1>3, <1>13 DEF DialogIsAlone, ShownSecretIsCurrent
  <1> QED BY <1>2, <1>3, <1>4, <1>5, <1>6, <1>8, <1>9, <1>12, <1>14, <1>15, CallStep

(* The steps of the session that begin a function.                         *)
LEMMA SessionSteps ==
    ASSUME ConsoleInv,
           \/ (AuthenticateToken \/ Logout) /\ UNCHANGED <<pageVars, dir, cli, dom>>
           \/ RequestEmployeeId /\ UNCHANGED <<cli, dom>>
    PROVE  ConsoleInv'
  BY BeginStep DEF AuthenticateToken, Logout, RequestEmployeeId, SessionFns

-----------------------------------------------------------------------------
(* A function that saves begins, while none does.                          *)
LEMMA SubmitStep ==
    ASSUME ConsoleInv, NEW fn \in SaveFns, NEW arg \in Args, Submit(fn, arg),
           NEW c \in Calls, c = FreeCall,
           ~saving, dialog' = Null, CallOK(calls[c])',
           dir' \in DirectoryRefs, cli' \in ClientRefs, UNCHANGED dom,
           FormsOK', ShownSecretIsCurrent'
    PROVE  ConsoleInv'
  <1>1. ConsoleTypeOK /\ calls \in [Calls -> CallRecords]
    BY InvariantByCall DEF ConsoleTypeOK
  <1>2. UNCHANGED <<authenticated, lists, history, page>> /\ saving' = TRUE
    BY DEF Submit
  <1>3. VersionsKept /\ Core' = Core /\ Version' = Version
    BY <1>1, <1>2, SameVersions
  <1>5. calls' = [calls EXCEPT ![c] = Sent(fn, arg)] BY DEF Submit, Begin
  <1>6. calls'[c] = Sent(fn, arg) BY <1>1, <1>5
  <1>7. Sent(fn, arg) \in CallRecords /\ IsSave(Sent(fn, arg))
    BY <1>1, <1>2, <1>6, SentIsTyped
  <1>8. StateTyped' BY <1>1, <1>2, <1>3 DEF StateTyped, ConsoleTypeOK
  <1>9. DialogIsAlone' BY DEF DialogIsAlone
  <1> QED BY <1>2, <1>3, <1>5, <1>7, <1>8, <1>9, CallStep

(* What is known of the record of a function that has just been submitted. *)
LEMMA Submitted ==
    ASSUME ConsoleInv, NEW fn \in SaveFns, NEW arg \in Args, Submit(fn, arg),
           NEW c \in Calls, c = FreeCall
    PROVE  /\ IsCall(calls[c])'
           /\ calls'[c].fn = fn /\ calls'[c].step = "sent"
           /\ calls'[c].arg = arg /\ Core' = Core
  <1>1. ConsoleTypeOK /\ calls \in [Calls -> CallRecords]
    BY InvariantByCall DEF ConsoleTypeOK
  <1>3. calls'[c] = Sent(fn, arg) BY <1>1 DEF Submit, Begin
  <1>4. UNCHANGED history BY DEF Submit
  <1> QED BY <1>1, <1>3, <1>4, SentIsTyped, SameVersions

(* saveOu *)
LEMMA SaveOuStep ==
    ASSUME ConsoleInv, SaveOu, UNCHANGED <<cli, dom>>
    PROVE  ConsoleInv'
  <1>1. ConsoleTypeOK /\ FormsOK /\ ShownSecretIsCurrent /\ dir \in DirectoryRefs
        /\ cli \in ClientRefs
    BY InvariantByCall DEF ConsoleTypeOK
  <1>2. PICK form \in OuInputs :
            /\ dir' = [dir EXCEPT !.ouForm = form]
            /\ Submit("saveOu", [target |-> dir.editingOuId, id |-> form.id,
                                 parent |-> form.parent])
    BY DEF SaveOu
  <1> DEFINE arg == [target |-> dir.editingOuId, id |-> form.id, parent |-> form.parent]
  <1>3. form \in [id : OrganizationalUnits, parent : OrganizationalUnits \cup {Root}]
        /\ (dir.editingOuId # Null => form.id = dir.editingOuId)
    BY <1>1, <1>2, OfferedRows DEF OuInputs, DirectoryRefs
  <1>4. dir' \in DirectoryRefs /\ FormsOK' BY <1>1, <1>2, <1>3 DEF DirectoryRefs, FormsOK
  <1>5. arg \in OuArgs /\ arg \in Args BY <1>1, <1>3 DEF OuArgs, Args, DirectoryRefs
  <1>6. arg.target # Null => arg.id = arg.target BY <1>3
  <1>7. "saveOu" \in SaveFns BY DEF SaveFns
  <1> HIDE DEF arg
  <1>8. Submit("saveOu", arg) BY <1>2 DEF arg
  <1>c. PICK c \in Calls : c = FreeCall BY <1>8, FreeCallIsIdle DEF Submit, Begin
  <1>9. CallOK(calls[c])'
    <2>1. /\ IsCall(calls[c])' /\ calls'[c].fn = "saveOu"
          /\ calls'[c].step = "sent" /\ calls'[c].arg = arg
      BY <1>5, <1>7, <1>8, <1>c, Submitted
    <2> QED BY <1>5, <1>6, <2>1 DEF CallOK, Requesting, ArgsMatch, ClientFns
  <1>10. ShownSecretIsCurrent' BY <1>1, <1>5, <1>7, <1>8, <1>c, Submitted, ShownStays
  <1>11. ~saving /\ dialog' = Null BY DEF SaveOu, Editing
  <1> QED BY <1>1, <1>4, <1>5, <1>7, <1>8, <1>c, <1>9, <1>10, <1>11, SubmitStep

(* saveUser *)
LEMMA SaveUserStep ==
    ASSUME ConsoleInv, SaveUser, UNCHANGED <<cli, dom>>
    PROVE  ConsoleInv'
  <1>1. ConsoleTypeOK /\ FormsOK /\ ShownSecretIsCurrent /\ dir \in DirectoryRefs
        /\ cli \in ClientRefs
    BY InvariantByCall DEF ConsoleTypeOK
  <1>2. PICK form \in UserInputs :
            /\ dir' = [dir EXCEPT !.userForm = form]
            /\ Submit("saveUser", [target |-> dir.editingUserId, id |-> form.id, ou |-> form.ou])
    BY DEF SaveUser
  <1> DEFINE arg == [target |-> dir.editingUserId, id |-> form.id, ou |-> form.ou]
  <1>3. form \in [id : Users \cup {Null}, ou : OrganizationalUnits]
        /\ form.id = dir.userForm.id
    BY <1>1, <1>2, OfferedRows DEF UserInputs, DirectoryRefs
  <1>4. dir' \in DirectoryRefs /\ FormsOK' BY <1>1, <1>2, <1>3 DEF DirectoryRefs, FormsOK
  <1>5. arg \in UserArgs /\ arg \in Args BY <1>1, <1>3 DEF UserArgs, Args, DirectoryRefs
  <1>6. arg.target # Null => arg.id = arg.target BY <1>1, <1>3 DEF FormsOK
  <1>7. "saveUser" \in SaveFns BY DEF SaveFns
  <1> HIDE DEF arg
  <1>8. Submit("saveUser", arg) BY <1>2 DEF arg
  <1>c. PICK c \in Calls : c = FreeCall BY <1>8, FreeCallIsIdle DEF Submit, Begin
  <1>9. CallOK(calls[c])'
    <2>1. /\ IsCall(calls[c])' /\ calls'[c].fn = "saveUser"
          /\ calls'[c].step = "sent" /\ calls'[c].arg = arg
      BY <1>5, <1>7, <1>8, <1>c, Submitted
    <2> QED BY <1>5, <1>6, <2>1 DEF CallOK, Requesting, ArgsMatch, ClientFns
  <1>10. ShownSecretIsCurrent' BY <1>1, <1>5, <1>7, <1>8, <1>c, Submitted, ShownStays
  <1>11. ~saving /\ dialog' = Null BY DEF SaveUser, Editing
  <1> QED BY <1>1, <1>4, <1>5, <1>7, <1>8, <1>c, <1>9, <1>10, <1>11, SubmitStep

(* saveGroup: the editor is open on the group that is sent.                *)
LEMMA SaveGroupStep ==
    ASSUME ConsoleInv, SaveGroup, UNCHANGED <<cli, dom>>
    PROVE  ConsoleInv'
  <1>1. ConsoleTypeOK /\ FormsOK /\ ShownSecretIsCurrent /\ dir \in DirectoryRefs
        /\ cli \in ClientRefs
    BY InvariantByCall DEF ConsoleTypeOK
  <1>2. PICK form \in GroupInputs :
            /\ dir' = [dir EXCEPT !.groupForm = form]
            /\ Submit("saveGroup", [target |-> dir.editingGroupId, id |-> form.id,
                                    ou |-> form.ou, members |-> form.members])
    BY DEF SaveGroup
  <1> DEFINE arg == [target |-> dir.editingGroupId, id |-> form.id, ou |-> form.ou,
                     members |-> form.members]
  <1>3. form \in [id : Groups, ou : OrganizationalUnits, members : SUBSET Users]
        /\ (dir.editingGroupId # Null => form.id = dir.editingGroupId)
    BY <1>1, <1>2, OfferedRows DEF GroupInputs, DirectoryRefs
  <1>4. dir' \in DirectoryRefs /\ FormsOK' BY <1>1, <1>2, <1>3 DEF DirectoryRefs, FormsOK
  <1>5. arg \in GroupArgs /\ arg \in Args BY <1>1, <1>3 DEF GroupArgs, Args, DirectoryRefs
  <1>6. /\ arg.target # Null => arg.id = arg.target
        /\ dir'.editor # Null /\ dir'.editingGroupId = arg.target /\ dir'.groupForm.id = arg.id
    <2>1. "group" # Null BY EditorAssumption
    <2> QED BY <1>1, <1>2, <1>3, <2>1 DEF DirectoryRefs, SaveGroup, Editing
  <1>7. "saveGroup" \in SaveFns BY DEF SaveFns
  <1> HIDE DEF arg
  <1>8. Submit("saveGroup", arg) BY <1>2 DEF arg
  <1>c. PICK c \in Calls : c = FreeCall BY <1>8, FreeCallIsIdle DEF Submit, Begin
  <1>9. CallOK(calls[c])'
    <2>1. /\ IsCall(calls[c])' /\ calls'[c].fn = "saveGroup"
          /\ calls'[c].step = "sent" /\ calls'[c].arg = arg
      BY <1>5, <1>7, <1>8, <1>c, Submitted
    <2> QED BY <1>5, <1>6, <2>1 DEF CallOK, Requesting, ArgsMatch, ClientFns
  <1>10. ShownSecretIsCurrent' BY <1>1, <1>5, <1>7, <1>8, <1>c, Submitted, ShownStays
  <1>11. ~saving /\ dialog' = Null BY DEF SaveGroup, Editing
  <1> QED BY <1>1, <1>4, <1>5, <1>7, <1>8, <1>c, <1>9, <1>10, <1>11, SubmitStep

(* resetUserPassword: its dialog and a confirmation are never both open.   *)
LEMMA ResetUserPasswordStep ==
    ASSUME ConsoleInv, ResetUserPassword, UNCHANGED <<cli, dom>>
    PROVE  ConsoleInv'
  <1>1. ConsoleTypeOK /\ FormsOK /\ ShownSecretIsCurrent /\ DialogIsAlone
        /\ dir \in DirectoryRefs /\ cli \in ClientRefs
    BY InvariantByCall DEF ConsoleTypeOK
  <1> DEFINE arg == [target |-> dir.resetPasswordTarget]
  <1>2. arg \in [target : Users] /\ arg \in Args
    BY <1>1 DEF ResetUserPassword, ResettingPassword, DirectoryRefs, Args, RowArgs
  <1>3. Submit("resetUserPassword", arg) /\ ~saving /\ UNCHANGED <<dialog, dir>>
    BY DEF ResetUserPassword, ResettingPassword
  <1>4. dialog' = Null
    BY <1>1, <1>3 DEF DialogIsAlone, ResetUserPassword, ResettingPassword
  <1>5. "resetUserPassword" \in SaveFns BY DEF SaveFns
  <1> HIDE DEF arg
  <1>6. PICK c \in Calls : c = FreeCall BY <1>3, FreeCallIsIdle DEF Submit, Begin
  <1>7. CallOK(calls[c])'
    <2>1. /\ IsCall(calls[c])' /\ calls'[c].fn = "resetUserPassword"
          /\ calls'[c].step = "sent" /\ calls'[c].arg = arg
      BY <1>2, <1>3, <1>5, <1>6, Submitted
    <2> QED BY <1>2, <2>1 DEF CallOK, Requesting, ArgsMatch, ClientFns
  <1>8. ShownSecretIsCurrent' /\ FormsOK'
    BY <1>1, <1>2, <1>3, <1>5, <1>6, Submitted, ShownStays DEF FormsOK
  <1> QED BY <1>1, <1>2, <1>3, <1>4, <1>5, <1>6, <1>7, <1>8, SubmitStep

(* A confirmation is accepted: nothing saves while it is open.             *)
LEMMA ConfirmStep ==
    ASSUME ConsoleInv, Confirm, UNCHANGED <<dir, cli, dom>>
    PROVE  ConsoleInv'
  <1>1. ConsoleTypeOK /\ FormsOK /\ ShownSecretIsCurrent /\ DialogIsAlone
        /\ dir \in DirectoryRefs /\ cli \in ClientRefs
    BY InvariantByCall DEF ConsoleTypeOK
  <1> DEFINE fn == dialog.fn
             arg == [target |-> dialog.target]
  <1>2. /\ fn \in {"removeOu", "removeUser", "removeClient", "regenerateSecret"} /\ ~saving
        /\ fn = "removeOu" => arg \in [target : OrganizationalUnits]
        /\ fn = "removeUser" => arg \in [target : Users]
        /\ fn \in {"removeClient", "regenerateSecret"} => arg \in [target : Clients]
        /\ fn = "removeClient" => ~cli.drawerOpen
        /\ fn = "regenerateSecret" => /\ cli.drawerOpen /\ cli.drawerView = "editor"
                                      /\ cli.selectedClientId = arg.target
    BY <1>1 DEF Confirm, DialogIsAlone
  <1>3. Submit(fn, arg) /\ dialog' = Null BY DEF Confirm
  <1> HIDE DEF fn, arg
  <1>4. arg \in Args BY <1>2 DEF Args, RowArgs
  <1>5. fn \in SaveFns BY <1>2 DEF SaveFns
  <1>6. PICK c \in Calls : c = FreeCall BY <1>3, FreeCallIsIdle DEF Submit, Begin
  <1>7. CallOK(calls[c])'
    <2>1. /\ IsCall(calls[c])' /\ calls'[c].fn = fn
          /\ calls'[c].step = "sent" /\ calls'[c].arg = arg
      BY <1>3, <1>4, <1>5, <1>6, Submitted
    <2> QED BY <1>2, <2>1 DEF CallOK, Requesting, ArgsMatch, ClientFns
  <1>8. ShownSecretIsCurrent' /\ FormsOK'
    BY <1>1, <1>3, <1>4, <1>5, <1>6, Submitted, ShownStays DEF FormsOK
  <1> QED BY <1>1, <1>2, <1>3, <1>4, <1>5, <1>6, <1>7, <1>8, SubmitStep

(* saveClient: the drawer shows the editor.                                *)
LEMMA SaveClientStep ==
    ASSUME ConsoleInv, SaveClient, UNCHANGED <<dir, dom>>
    PROVE  ConsoleInv'
  <1>1. ConsoleTypeOK /\ FormsOK /\ ShownSecretIsCurrent
        /\ dir \in DirectoryRefs /\ cli \in ClientRefs
    BY InvariantByCall DEF ConsoleTypeOK
  <1>2. PICK form \in ClientInputs :
            /\ cli' = [cli EXCEPT !.editorForm = form]
            /\ Submit("saveClient", [target |-> cli.selectedClientId, web |-> form.web,
                                     enabled |-> form.enabled])
    BY DEF SaveClient
  <1>3. form \in ClientRows BY <1>1, <1>2 DEF ClientInputs, ClientRefs, ClientRows
  <1> DEFINE arg == [target |-> cli.selectedClientId, web |-> form.web,
                     enabled |-> form.enabled]
  <1>4. arg \in ClientArgs /\ arg \in Args
    BY <1>1, <1>3 DEF ClientRefs, ClientRows, ClientArgs, Args
  <1>5. /\ Submit("saveClient", arg) /\ ~saving /\ dialog' = Null
        /\ cli.drawerOpen /\ cli.drawerView = "editor"
    BY <1>2 DEF SaveClient, ClientDrawer
  <1>6. "saveClient" \in SaveFns BY DEF SaveFns
  <1> HIDE DEF arg
  <1>7. cli' \in ClientRefs /\ cli'.drawerOpen /\ cli'.drawerView = "editor"
    BY <1>1, <1>2, <1>3, <1>5 DEF ClientRefs
  <1>8. PICK c \in Calls : c = FreeCall BY <1>5, FreeCallIsIdle DEF Submit, Begin
  <1>9. /\ IsCall(calls[c])' /\ calls'[c].fn = "saveClient"
        /\ calls'[c].step = "sent" /\ calls'[c].arg = arg /\ Core' = Core
    BY <1>4, <1>5, <1>6, <1>8, Submitted
  <1>10. CallOK(calls[c])'
    BY <1>4, <1>7, <1>9 DEF CallOK, Requesting, ArgsMatch, ClientFns
  <1>11. ShownSecretIsCurrent' /\ FormsOK'
    BY <1>1, <1>7, <1>9 DEF ShownSecretIsCurrent, FormsOK
  <1> QED BY <1>1, <1>4, <1>5, <1>6, <1>7, <1>8, <1>10, <1>11, SubmitStep

(* toggleClient: the drawer is closed.                                     *)
LEMMA ToggleClientStep ==
    ASSUME ConsoleInv, NEW k \in Clients, ToggleClient(k), UNCHANGED <<dir, dom>>
    PROVE  ConsoleInv'
  <1>1. ConsoleTypeOK /\ FormsOK /\ ShownSecretIsCurrent
        /\ dir \in DirectoryRefs /\ cli \in ClientRefs
    BY InvariantByCall DEF ConsoleTypeOK
  <1> DEFINE arg == [target |-> k, enabled |-> ~lists.clients[k].enabled]
  <1>2. lists.clients[k] \in ClientRows
    BY <1>1, OfferedRows DEF ToggleClient, ClientButtons
  <1>3. arg \in ToggleArgs /\ arg \in Args
    BY <1>2 DEF ClientRows, ToggleArgs, Args
  <1>4. /\ Submit("toggleClient", arg) /\ ~saving /\ dialog' = Null
        /\ UNCHANGED cli /\ ~cli.drawerOpen
    BY DEF ToggleClient, ClientButtons, OnClients, Busy
  <1>5. "toggleClient" \in SaveFns BY DEF SaveFns
  <1> HIDE DEF arg
  <1>6. PICK c \in Calls : c = FreeCall BY <1>4, FreeCallIsIdle DEF Submit, Begin
  <1>7. /\ IsCall(calls[c])' /\ calls'[c].fn = "toggleClient"
        /\ calls'[c].step = "sent" /\ calls'[c].arg = arg /\ Core' = Core
    BY <1>3, <1>4, <1>5, <1>6, Submitted
  <1>8. CallOK(calls[c])'
    BY <1>3, <1>4, <1>7 DEF CallOK, Requesting, ArgsMatch, ClientFns
  <1>9. ShownSecretIsCurrent' /\ FormsOK' BY <1>1, <1>4, <1>7, ShownStays DEF FormsOK
  <1> QED BY <1>1, <1>3, <1>4, <1>5, <1>6, <1>8, <1>9, SubmitStep

(* saveDomain: the drawer is open and shows no key.                        *)
LEMMA SaveDomainStep ==
    ASSUME ConsoleInv, SaveDomain, UNCHANGED <<dir, cli>>
    PROVE  ConsoleInv'
  <1>1. ConsoleTypeOK /\ FormsOK /\ ShownSecretIsCurrent /\ DialogIsAlone
        /\ dir \in DirectoryRefs /\ cli \in ClientRefs /\ dom \in DomainRefs
    BY InvariantByCall DEF ConsoleTypeOK
  <1>2. PICK d \in DomainInputs :
            Submit("saveDomain", [target |-> d, creates |-> dom.selectedDomainId = Null])
    BY DEF SaveDomain
  <1> DEFINE arg == [target |-> d, creates |-> dom.selectedDomainId = Null]
  <1>3. d \in Domains BY <1>1, <1>2 DEF DomainInputs, DomainRefs
  <1>4. arg \in DomainArgs /\ arg \in Args BY <1>3 DEF DomainArgs, Args
  <1>5. /\ Submit("saveDomain", arg) /\ ~saving /\ UNCHANGED <<dialog, dom>>
        /\ dom.drawerOpen /\ dom.syncerKey = Null
    BY <1>2 DEF SaveDomain, DomainDrawer
  <1>6. dialog' = Null BY <1>1, <1>5 DEF DialogIsAlone, SaveDomain, DomainDrawer
  <1>7. "saveDomain" \in SaveFns BY DEF SaveFns
  <1> HIDE DEF arg
  <1>8. PICK c \in Calls : c = FreeCall BY <1>5, FreeCallIsIdle DEF Submit, Begin
  <1>9. /\ IsCall(calls[c])' /\ calls'[c].fn = "saveDomain"
        /\ calls'[c].step = "sent" /\ calls'[c].arg = arg /\ Core' = Core
    BY <1>4, <1>5, <1>7, <1>8, Submitted
  <1>10. CallOK(calls[c])'
    BY <1>4, <1>5, <1>9 DEF CallOK, Requesting, ArgsMatch, ClientFns
  <1>11. ShownSecretIsCurrent' /\ FormsOK' BY <1>1, <1>5, <1>9, ShownStays DEF FormsOK
  <1> QED BY <1>1, <1>4, <1>5, <1>6, <1>7, <1>8, <1>10, <1>11, SubmitStep

-----------------------------------------------------------------------------
(* Core's handlers.                                                        *)

(* Core changes the record of a function that saves, and the page does not *)
(* notice.                                                                 *)
LEMMA CoreStep ==
    ASSUME ConsoleInv, NEW c \in Calls, NEW new \in CallRecords,
           calls' = [calls EXCEPT ![c] = new], IsSave(calls[c]), IsSave(new),
           CallOK(calls[c])', VersionsKept, history' \in Seq(Tables),
           Version' \in 1 .. MaxVersion, ShownSecretIsCurrent',
           UNCHANGED <<authenticated, lists, pageVars, dir, cli, dom>>
    PROVE  ConsoleInv'
  <1>1. ConsoleTypeOK /\ FormsOK /\ DialogIsAlone
    BY InvariantByCall
  <1>2. StateTyped' BY <1>1 DEF StateTyped, ConsoleTypeOK, pageVars
  <1>3. DialogIsAlone' BY <1>1, DialogStays DEF pageVars
  <1>4. FormsOK' BY <1>1 DEF FormsOK
  <1> QED BY <1>2, <1>3, <1>4, CallStep DEF pageVars

(* What is known of a function whose request has not been answered.        *)
LEMMA RequestIsKnown ==
    ASSUME ConsoleInv, NEW c \in Calls, Requesting(calls[c])
    PROVE  /\ ConsoleTypeOK /\ ShownSecretIsCurrent /\ CallOK(calls[c]) /\ ArgsMatch(calls[c])
           /\ calls \in [Calls -> CallRecords] /\ calls[c] \in CallRecords
           /\ calls[c].loads = {} /\ calls[c].since \in 1 .. Version /\ calls[c].fn # "idle"
           /\ Version \in Nat /\ Version \in 1 .. MaxVersion /\ Core \in Tables
  <1>1. ConsoleTypeOK /\ CallOK(calls[c]) /\ ShownSecretIsCurrent BY InvariantByCall
  <1>2. calls \in [Calls -> CallRecords] /\ calls[c] \in CallRecords
    BY <1>1 DEF ConsoleTypeOK
  <1>3. Version \in Nat /\ Version \in 1 .. MaxVersion /\ Core \in Tables BY <1>1, CoreIsTyped
  <1> QED BY <1>1, <1>2, <1>3 DEF CallOK, Requesting, IsCall, Idle

(* A handler carries the request out.                                      *)
LEMMA AppliesStep ==
    ASSUME ConsoleInv, NEW c \in Calls, calls[c].step \in {"sent", "read"},
           calls[c].fn \in SaveFns, NEW tables \in Tables, Applies(c, tables),
           calls[c].fn = "saveClient" => calls[c].arg.target \in Clients,
           Core' = tables => ShownSecretIsCurrent',
           UNCHANGED <<dir, cli, dom>>
    PROVE  ConsoleInv'
  <1>a. PICK new : new = [calls[c] EXCEPT !.step = "applied", !.since = Version + 1]
    OBVIOUS
  <1>1. Requesting(calls[c]) BY DEF Requesting
  <1>2. /\ ConsoleTypeOK /\ CallOK(calls[c]) /\ ArgsMatch(calls[c])
        /\ calls \in [Calls -> CallRecords] /\ calls[c] \in CallRecords
        /\ calls[c].loads = {} /\ calls[c].fn # "idle"
        /\ Version \in Nat /\ Version \in 1 .. MaxVersion
    BY <1>1, RequestIsKnown
  <1>3. /\ history' \in Seq(Tables) /\ Version' = Version + 1 /\ Version' \in 1 .. MaxVersion
        /\ history'[Version + 1] = tables /\ Core' = tables
        /\ \A i \in 1 .. Version : history'[i] = history[i]
    BY <1>2, HistoryGrows DEF Applies
  <1>4. /\ new \in CallRecords /\ new.fn = calls[c].fn /\ new.arg = calls[c].arg
        /\ new.step = "applied" /\ new.since = Version + 1 /\ new.loads = {}
    <2>1. PICK r \in CallRecords : r = calls[c] BY <1>2
    <2>2. PICK n \in Nat : n = Version + 1 BY <1>2
    <2>3. new = [r EXCEPT !.step = "applied", !.since = n] BY <1>a, <2>1, <2>2
    <2>4. /\ new \in CallRecords /\ new.fn = r.fn /\ new.arg = r.arg
          /\ new.step = "applied" /\ new.since = n /\ new.loads = r.loads
      BY <2>3 DEF CallRecords
    <2> QED BY <1>2, <2>1, <2>2, <2>4
  <1>5. calls' = [calls EXCEPT ![c] = new] BY <1>2, <1>a DEF Applies
  <1>6. calls'[c] = new BY <1>2, <1>5
  <1>7. IsCall(calls[c])' BY <1>2, <1>3, <1>4, <1>6 DEF IsCall
  <1>8. /\ calls'[c].fn = calls[c].fn /\ calls'[c].arg = calls[c].arg
        /\ calls'[c].step = "applied" /\ calls'[c].since = Version + 1
        /\ history'[calls'[c].since] = Core'
    BY <1>3, <1>4, <1>6
  <1>9. ArgsMatch(calls[c])' BY <1>2, <1>8 DEF ArgsMatch
  <1>10. CallOK(calls[c])'
    BY <1>1, <1>2, <1>7, <1>8, <1>9 DEF CallOK, Requesting, Applies, ClientFns
  <1>11. VersionsKept BY <1>2, <1>3 DEF VersionsKept
  <1>12. IsSave(calls[c]) /\ IsSave(new) BY <1>4 DEF IsSave
  <1> QED BY <1>3, <1>4, <1>5, <1>10, <1>11, <1>12, CoreStep DEF Applies

(* A handler moves a request on without a write.                           *)
LEMMA StepStep ==
    ASSUME ConsoleInv, NEW c \in Calls, calls[c].step = "sent", calls[c].fn \in SaveFns,
           NEW step \in {"read", "applied", "refused"}, NEW since \in 1 .. Version,
           calls' = [calls EXCEPT ![c].step = step, ![c].since = since],
           step = "read" => /\ calls[c].fn \in {"saveGroup", "saveMembers"}
                            /\ calls[c].arg.target # Null
                            /\ history[since].groups[calls[c].arg.target] # Null,
           step = "applied" => calls[c].fn = "resetUserPassword",
           UNCHANGED <<authenticated, lists, history, pageVars, dir, cli, dom>>
    PROVE  ConsoleInv'
  <1>a. PICK new : new = [calls[c] EXCEPT !.step = step, !.since = since]
    OBVIOUS
  <1>1. Requesting(calls[c]) BY DEF Requesting
  <1>2. /\ ConsoleTypeOK /\ ShownSecretIsCurrent /\ CallOK(calls[c]) /\ ArgsMatch(calls[c])
        /\ calls \in [Calls -> CallRecords] /\ calls[c] \in CallRecords
        /\ calls[c].loads = {} /\ calls[c].fn # "idle"
        /\ Version \in Nat /\ Version \in 1 .. MaxVersion
    BY <1>1, RequestIsKnown
  <1>3. VersionsKept /\ Core' = Core /\ Version' = Version BY <1>2, SameVersions
  <1>4. /\ new \in CallRecords /\ new.fn = calls[c].fn /\ new.arg = calls[c].arg
        /\ new.step = step /\ new.since = since /\ new.loads = {}
    <2>1. PICK r \in CallRecords : r = calls[c] BY <1>2
    <2>2. PICK n \in Nat : n = since BY <1>2
    <2>3. new = [r EXCEPT !.step = step, !.since = n] BY <1>a, <2>1, <2>2
    <2>4. /\ new \in CallRecords /\ new.fn = r.fn /\ new.arg = r.arg
          /\ new.step = step /\ new.since = n /\ new.loads = r.loads
      BY <2>3 DEF CallRecords
    <2> QED BY <1>2, <2>1, <2>2, <2>4
  <1>5. calls' = [calls EXCEPT ![c] = new] BY <1>2, <1>a
  <1>6. calls'[c] = new BY <1>2, <1>5
  <1>7. IsCall(calls[c])' BY <1>2, <1>3, <1>4, <1>6 DEF IsCall
  <1>8. /\ calls'[c].fn = calls[c].fn /\ calls'[c].arg = calls[c].arg
        /\ calls'[c].step = step /\ calls'[c].since = since
    BY <1>4, <1>6
  <1>9. ArgsMatch(calls[c])' BY <1>2, <1>8 DEF ArgsMatch
  <1>10. CallOK(calls[c])'
    BY <1>1, <1>2, <1>3, <1>7, <1>8, <1>9 DEF CallOK, Requesting, ClientFns
  <1>11. IsSave(calls[c]) /\ IsSave(new) BY <1>4 DEF IsSave
  <1>12. history' \in Seq(Tables) /\ Version' \in 1 .. MaxVersion
    BY <1>2, <1>3 DEF ConsoleTypeOK
  <1>13. ShownSecretIsCurrent' BY <1>2, <1>3, ShownStays
  <1> QED BY <1>3, <1>4, <1>5, <1>10, <1>11, <1>12, <1>13, CoreStep

(* A handler refuses the request.                                          *)
LEMMA RefusesStep ==
    ASSUME ConsoleInv, NEW c \in Calls, calls[c].step = "sent", calls[c].fn \in SaveFns,
           Refuses(c), UNCHANGED <<dir, cli, dom>>
    PROVE  ConsoleInv'
  <1>1. Requesting(calls[c]) BY DEF Requesting
  <1>2. calls \in [Calls -> CallRecords] /\ calls[c] \in CallRecords
        /\ calls[c].since \in 1 .. Version
    BY <1>1, RequestIsKnown
  <1>3. calls' = [calls EXCEPT ![c].step = "refused", ![c].since = calls[c].since]
    BY <1>2 DEF Refuses, CallRecords
  <1> QED BY <1>2, <1>3, StepStep DEF Refuses

(* A handler that writes no secret and no key.                             *)
LEMMA AppliesQuietly ==
    ASSUME ConsoleInv, NEW c \in Calls, calls[c].step \in {"sent", "read"},
           calls[c].fn \in SaveFns, NEW tables \in Tables, Applies(c, tables),
           calls[c].fn = "saveClient" => calls[c].arg.target \in Clients,
           tables.secret = Core.secret, tables.key = Core.key, UNCHANGED <<dir, cli, dom>>
    PROVE  ConsoleInv'
  <1>1. ShownSecretIsCurrent BY InvariantByCall
  <1>2. Core' = tables => ShownSecretIsCurrent' BY <1>1, ShownStays
  <1> QED BY <1>2, AppliesStep

(* create_organizational_unit and update_organizational_unit               *)
LEMMA CoreWritesOuStep ==
    ASSUME ConsoleInv, NEW c \in Calls, CoreWritesOu(c), UNCHANGED <<dir, cli, dom>>
    PROVE  ConsoleInv'
  <1>1. Requesting(calls[c]) /\ calls[c].fn = "saveOu" /\ calls[c].step = "sent"
    BY DEF CoreWritesOu, SentTo, Requesting
  <1>2. ArgsMatch(calls[c]) /\ Core \in Tables BY <1>1, RequestIsKnown
  <1>3. PICK arg \in OuArgs : arg = calls[c].arg BY <1>1, <1>2 DEF ArgsMatch
  <1>4. PICK tables : tables = [Core EXCEPT !.ous[arg.id] = arg.parent] OBVIOUS
  <1>5. tables \in Tables /\ tables.secret = Core.secret /\ tables.key = Core.key
    BY <1>2, <1>3, <1>4 DEF Tables, OuArgs
  <1>6. Applies(c, tables) BY <1>3, <1>4 DEF CoreWritesOu
  <1> QED BY <1>1, <1>5, <1>6, AppliesQuietly DEF SaveFns

(* delete_organizational_unit                                              *)
LEMMA CoreDeletesOuStep ==
    ASSUME ConsoleInv, NEW c \in Calls, CoreDeletesOu(c), UNCHANGED <<dir, cli, dom>>
    PROVE  ConsoleInv'
  <1>1. Requesting(calls[c]) /\ calls[c].fn = "removeOu" /\ calls[c].step = "sent"
    BY DEF CoreDeletesOu, SentTo, Requesting
  <1>2. ArgsMatch(calls[c]) /\ Core \in Tables BY <1>1, RequestIsKnown
  <1>3. PICK o \in OrganizationalUnits : o = calls[c].arg.target BY <1>1, <1>2 DEF ArgsMatch
  <1>4. PICK tables : tables = [Core EXCEPT !.ous[o] = Null] OBVIOUS
  <1>5. tables \in Tables /\ tables.secret = Core.secret /\ tables.key = Core.key
    BY <1>2, <1>3, <1>4 DEF Tables
  <1>6. Applies(c, tables) \/ Refuses(c) BY <1>3, <1>4 DEF CoreDeletesOu
  <1> QED BY <1>1, <1>5, <1>6, AppliesQuietly, RefusesStep DEF SaveFns

(* create_user and update_user                                             *)
LEMMA CoreWritesUserStep ==
    ASSUME ConsoleInv, NEW c \in Calls, CoreWritesUser(c), UNCHANGED <<dir, cli, dom>>
    PROVE  ConsoleInv'
  <1>1. Requesting(calls[c]) /\ calls[c].fn = "saveUser" /\ calls[c].step = "sent"
    BY DEF CoreWritesUser, SentTo, Requesting
  <1>2. ArgsMatch(calls[c]) /\ Core \in Tables BY <1>1, RequestIsKnown
  <1>3. PICK arg \in UserArgs : arg = calls[c].arg BY <1>1, <1>2 DEF ArgsMatch
  <1>4. CASE Refuses(c) BY <1>1, <1>4, RefusesStep DEF SaveFns
  <1>5. CASE \E u \in Users : Applies(c, [Core EXCEPT !.users[u] = arg.ou])
    <2>1. PICK u \in Users : Applies(c, [Core EXCEPT !.users[u] = arg.ou]) BY <1>5
    <2>2. PICK tables : tables = [Core EXCEPT !.users[u] = arg.ou] OBVIOUS
    <2>3. tables \in Tables /\ tables.secret = Core.secret /\ tables.key = Core.key
      BY <1>2, <1>3, <2>2 DEF Tables, UserArgs
    <2>4. Applies(c, tables) BY <2>1, <2>2
    <2> QED BY <1>1, <2>3, <2>4, AppliesQuietly DEF SaveFns
  <1>6. Refuses(c) \/ \E u \in Users : Applies(c, [Core EXCEPT !.users[u] = arg.ou])
    BY <1>3 DEF CoreWritesUser, UserArgs, FreshUsers
  <1> QED BY <1>4, <1>5, <1>6

(* Without a user the groups lose a member and nothing else.               *)
LEMMA WithoutUserIsTyped ==
    ASSUME NEW t \in Tables, NEW u \in Users
    PROVE  /\ WithoutUser(t, u) \in Tables
           /\ WithoutUser(t, u).secret = t.secret /\ WithoutUser(t, u).key = t.key
           /\ WithoutUser(t, u).ous = t.ous
  BY DEF WithoutUser, Tables, GroupRows

(* delete_user                                                             *)
LEMMA CoreDeletesUserStep ==
    ASSUME ConsoleInv, NEW c \in Calls, CoreDeletesUser(c), UNCHANGED <<dir, cli, dom>>
    PROVE  ConsoleInv'
  <1>1. Requesting(calls[c]) /\ calls[c].fn = "removeUser" /\ calls[c].step = "sent"
    BY DEF CoreDeletesUser, SentTo, Requesting
  <1>2. ArgsMatch(calls[c]) /\ Core \in Tables BY <1>1, RequestIsKnown
  <1>3. PICK u \in Users : u = calls[c].arg.target BY <1>1, <1>2 DEF ArgsMatch
  <1>4. PICK tables : tables = WithoutUser(Core, u) OBVIOUS
  <1>5. tables \in Tables /\ tables.secret = Core.secret /\ tables.key = Core.key
    BY <1>2, <1>3, <1>4, WithoutUserIsTyped
  <1>6. Applies(c, tables) \/ Refuses(c) BY <1>3, <1>4 DEF CoreDeletesUser
  <1> QED BY <1>1, <1>5, <1>6, AppliesQuietly, RefusesStep DEF SaveFns

(* reset_user_password                                                     *)
LEMMA CoreResetsPasswordStep ==
    ASSUME ConsoleInv, NEW c \in Calls, CoreResetsPassword(c), UNCHANGED <<dir, cli, dom>>
    PROVE  ConsoleInv'
  <1>1. /\ Requesting(calls[c]) /\ calls[c].fn = "resetUserPassword" /\ calls[c].step = "sent"
        /\ calls' = [calls EXCEPT ![c].step = "applied"]
        /\ UNCHANGED <<authenticated, lists, history, pageVars>>
    BY DEF CoreResetsPassword, SentTo, Requesting
  <1>2. calls \in [Calls -> CallRecords] /\ calls[c] \in CallRecords
        /\ calls[c].since \in 1 .. Version
    BY <1>1, RequestIsKnown
  <1>3. calls' = [calls EXCEPT ![c].step = "applied", ![c].since = calls[c].since]
    BY <1>1, <1>2 DEF CallRecords
  <1> QED BY <1>1, <1>2, <1>3, StepStep DEF SaveFns

(* create_group *)
LEMMA CoreCreatesGroupStep ==
    ASSUME ConsoleInv, NEW c \in Calls, CoreCreatesGroup(c), UNCHANGED <<dir, cli, dom>>
    PROVE  ConsoleInv'
  <1>1. Requesting(calls[c]) /\ calls[c].fn = "saveGroup" /\ calls[c].step = "sent"
    BY DEF CoreCreatesGroup, SentTo, Requesting
  <1>2. ArgsMatch(calls[c]) /\ Core \in Tables BY <1>1, RequestIsKnown
  <1>3. PICK arg \in GroupArgs : arg = calls[c].arg BY <1>1, <1>2 DEF ArgsMatch
  <1>4. PICK row \in GroupRows : row = [ou |-> arg.ou, members |-> {}]
    BY <1>3 DEF GroupArgs, GroupRows
  <1>5. PICK tables : tables = [Core EXCEPT !.groups[arg.id] = row] OBVIOUS
  <1>6. tables \in Tables /\ tables.secret = Core.secret /\ tables.key = Core.key
    BY <1>2, <1>3, <1>5 DEF Tables, GroupArgs
  <1>7. Applies(c, tables) BY <1>3, <1>4, <1>5 DEF CoreCreatesGroup
  <1> QED BY <1>1, <1>6, <1>7, AppliesQuietly DEF SaveFns

(* update_group and replace_group_members read the row.                    *)
LEMMA CoreReadsGroupStep ==
    ASSUME ConsoleInv, NEW c \in Calls, CoreReadsGroup(c), UNCHANGED <<dir, cli, dom>>
    PROVE  ConsoleInv'
  <1>1. /\ Requesting(calls[c]) /\ calls[c].fn \in {"saveGroup", "saveMembers"}
        /\ calls[c].step = "sent"
    BY DEF CoreReadsGroup, SentTo, Requesting
  <1>2. ConsoleTypeOK /\ Version \in Nat /\ Version \in 1 .. MaxVersion
    BY <1>1, RequestIsKnown
  <1>3. CASE Refuses(c) BY <1>1, <1>3, RefusesStep DEF SaveFns
  <1>4. CASE ~Refuses(c)
    <2>1. /\ calls[c].arg.target # Null /\ Core.groups[calls[c].arg.target] # Null
          /\ calls' = [calls EXCEPT ![c].step = "read", ![c].since = Version]
          /\ UNCHANGED <<authenticated, lists, history, pageVars>>
      BY <1>4 DEF CoreReadsGroup
    <2>2. Version \in 1 .. Version /\ history[Version] = Core BY <1>2 DEF Core
    <2> QED BY <1>1, <2>1, <2>2, StepStep DEF SaveFns
  <1> QED BY <1>3, <1>4

(* write_group with what was read before.                                  *)
LEMMA CoreWritesGroupStep ==
    ASSUME ConsoleInv, NEW c \in Calls, CoreWritesGroup(c), UNCHANGED <<dir, cli, dom>>
    PROVE  ConsoleInv'
  <1>1. Requesting(calls[c]) /\ calls[c].step = "read"
    BY DEF CoreWritesGroup, Requesting
  <1>2. /\ ConsoleTypeOK /\ CallOK(calls[c]) /\ ArgsMatch(calls[c]) /\ Core \in Tables
        /\ calls[c].since \in 1 .. Version
    BY <1>1, RequestIsKnown
  <1>3. calls[c].fn \in {"saveGroup", "saveMembers"} /\ calls[c].arg.target # Null
        /\ history[calls[c].since].groups[calls[c].arg.target] # Null
    BY <1>1, <1>2 DEF CallOK
  <1>4. PICK g \in Groups : g = calls[c].arg.target
    BY <1>2, <1>3 DEF ArgsMatch, GroupArgs, MembersArgs
  <1>5. PICK read \in Tables : read = history[calls[c].since] BY <1>2, CoreIsTyped
  <1>6. PICK existing \in GroupRows : existing = read.groups[g]
    BY <1>3, <1>4, <1>5 DEF Tables
  <1>7. PICK row \in GroupRows :
            row = IF calls[c].fn = "saveGroup"
                  THEN [ou |-> calls[c].arg.ou, members |-> existing.members]
                  ELSE [ou |-> existing.ou, members |-> calls[c].arg.members]
    BY <1>2, <1>3, <1>6 DEF ArgsMatch, GroupArgs, MembersArgs, GroupRows
  <1>8. PICK tables : tables = [Core EXCEPT !.groups[g] = row] OBVIOUS
  <1>9. tables \in Tables /\ tables.secret = Core.secret /\ tables.key = Core.key
    BY <1>2, <1>4, <1>7, <1>8 DEF Tables
  <1>10. Applies(c, tables)
    BY <1>4, <1>5, <1>6, <1>7, <1>8 DEF CoreWritesGroup
  <1> QED BY <1>1, <1>3, <1>9, <1>10, AppliesQuietly DEF SaveFns

(* Core's handlers for the directory page.                                 *)
LEMMA DirectoryCoreStep ==
    ASSUME ConsoleInv, NEW c \in Calls, DirectoryCore(c), UNCHANGED <<dir, cli, dom>>
    PROVE  ConsoleInv'
  BY CoreWritesOuStep, CoreDeletesOuStep, CoreWritesUserStep, CoreDeletesUserStep,
     CoreResetsPasswordStep, CoreCreatesGroupStep, CoreReadsGroupStep, CoreWritesGroupStep
     DEF DirectoryCore

(* While a function of the clients page waits, no secret is shown, and     *)
(* Core may write one.                                                     *)
LEMMA SecretMayChange ==
    ASSUME ShownSecretIsCurrent, NEW c \in Calls, CallOK(calls[c]), calls[c].fn \in ClientFns,
           UNCHANGED <<cli, dom>>, Core'.key = Core.key
    PROVE  ShownSecretIsCurrent'
  BY DEF ShownSecretIsCurrent, CallOK

(* create_oauth_client                                                     *)
LEMMA CoreCreatesClientStep ==
    ASSUME ConsoleInv, NEW c \in Calls, CoreCreatesClient(c), UNCHANGED <<dir, cli, dom>>
    PROVE  ConsoleInv'
  <1>1. Requesting(calls[c]) /\ calls[c].fn = "saveClient" /\ calls[c].step = "sent"
    BY DEF CoreCreatesClient, SentTo, Requesting
  <1>2. /\ ConsoleTypeOK /\ ShownSecretIsCurrent /\ CallOK(calls[c]) /\ ArgsMatch(calls[c])
        /\ calls \in [Calls -> CallRecords] /\ calls[c] \in CallRecords
        /\ calls[c].loads = {} /\ Version \in Nat /\ Version \in 1 .. MaxVersion
        /\ Core \in Tables
    BY <1>1, RequestIsKnown
  <1>3. PICK arg \in ClientArgs : arg = calls[c].arg BY <1>1, <1>2 DEF ArgsMatch
  <1>4. PICK k \in FreshClientIds :
            /\ CoreBecomes([Core EXCEPT
                   !.clients[k] = [web |-> calls[c].arg.web, enabled |-> calls[c].arg.enabled],
                   !.secret[k] = IF calls[c].arg.web THEN Version + 1 ELSE 0])
            /\ calls' = [calls EXCEPT ![c].step = "applied", ![c].since = Version + 1,
                                      ![c].arg = [target |-> k, created |-> TRUE]]
            /\ UNCHANGED <<authenticated, lists, pageVars>>
    BY DEF CoreCreatesClient
  <1>5. k \in Clients BY <1>4 DEF FreshClientIds
  <1>6. PICK row \in ClientRows : row = [web |-> arg.web, enabled |-> arg.enabled]
    BY <1>3 DEF ClientArgs, ClientRows
  <1>7. PICK value \in Nat : value = IF arg.web THEN Version + 1 ELSE 0 BY <1>2
  <1>8. PICK tables : tables = [Core EXCEPT !.clients[k] = row, !.secret[k] = value] OBVIOUS
  <1>9. tables \in Tables /\ tables.key = Core.key
    BY <1>2, <1>5, <1>8 DEF Tables
  <1>10. CoreBecomes(tables) BY <1>3, <1>4, <1>6, <1>7, <1>8
  <1>11. /\ history' \in Seq(Tables) /\ Version' = Version + 1 /\ Version' \in 1 .. MaxVersion
         /\ history'[Version + 1] = tables /\ Core' = tables
         /\ \A i \in 1 .. Version : history'[i] = history[i]
    BY <1>2, <1>9, <1>10, HistoryGrows
  <1>12. PICK created \in Args : created = [target |-> k, created |-> TRUE]
    BY <1>5 DEF Args, CreatedArgs
  <1>13. PICK new : new = [calls[c] EXCEPT !.step = "applied", !.since = Version + 1,
                                           !.arg = created]
    OBVIOUS
  <1>14. /\ new \in CallRecords /\ new.fn = "saveClient" /\ new.arg = created
         /\ new.step = "applied" /\ new.since = Version + 1 /\ new.loads = {}
    <2>1. PICK r \in CallRecords : r = calls[c] BY <1>2
    <2>2. PICK n \in Nat : n = Version + 1 BY <1>2
    <2>3. new = [r EXCEPT !.step = "applied", !.since = n, !.arg = created]
      BY <1>13, <2>1, <2>2
    <2>4. /\ new \in CallRecords /\ new.fn = r.fn /\ new.arg = created
          /\ new.step = "applied" /\ new.since = n /\ new.loads = r.loads
      BY <2>3, <1>12 DEF CallRecords
    <2> QED BY <1>1, <1>2, <2>1, <2>2, <2>4
  <1>15. calls' = [calls EXCEPT ![c] = new] BY <1>2, <1>4, <1>12, <1>13
  <1>16. calls'[c] = new BY <1>2, <1>15
  <1>17. IsCall(calls[c])' BY <1>2, <1>11, <1>14, <1>16 DEF IsCall
  <1>18. cli.drawerOpen /\ cli.drawerView = "editor"
    BY <1>1, <1>2 DEF CallOK, ClientFns
  <1>19. CallOK(calls[c])'
    BY <1>5, <1>11, <1>12, <1>14, <1>16, <1>17, <1>18
       DEF CallOK, Requesting, ArgsMatch, ClientFns
  <1>20. VersionsKept
    <2>1. Version \in Nat BY <1>2
    <2>2. Version' = Version + 1 /\ \A i \in 1 .. Version : history'[i] = history[i] BY <1>11
    <2> QED BY <2>1, <2>2 DEF VersionsKept
  <1>21. IsSave(calls[c]) /\ IsSave(new) BY <1>1, <1>14 DEF IsSave, SaveFns
  <1>22. ShownSecretIsCurrent' BY <1>1, <1>2, <1>9, <1>11, SecretMayChange DEF ClientFns
  <1> QED BY <1>4, <1>11, <1>14, <1>15, <1>19, <1>20, <1>21, <1>22, CoreStep

(* update_oauth_client                                                     *)
LEMMA CoreUpdatesClientStep ==
    ASSUME ConsoleInv, NEW c \in Calls, CoreUpdatesClient(c), UNCHANGED <<dir, cli, dom>>
    PROVE  ConsoleInv'
  <1>1. /\ Requesting(calls[c]) /\ calls[c].fn \in {"saveClient", "toggleClient"}
        /\ calls[c].step = "sent"
    BY DEF CoreUpdatesClient, SentTo, Requesting
  <1>2. ArgsMatch(calls[c]) /\ Core \in Tables BY <1>1, RequestIsKnown
  <1>3. PICK k \in Clients : k = calls[c].arg.target
    BY <1>1, <1>2 DEF ArgsMatch, ClientArgs, ToggleArgs, CoreUpdatesClient
  <1>4. PICK enabled \in BOOLEAN : enabled = calls[c].arg.enabled
    BY <1>1, <1>2 DEF ArgsMatch, ClientArgs, ToggleArgs
  <1>5. CASE Core.clients[k] = Null
    <2>1. Refuses(c) BY <1>3, <1>5 DEF CoreUpdatesClient
    <2> QED BY <1>1, <2>1, RefusesStep DEF SaveFns
  <1>6. CASE Core.clients[k] # Null
    <2>1. Core.clients[k] \in ClientRows BY <1>2, <1>6 DEF Tables
    <2>2. PICK row \in ClientRows : row = [Core.clients[k] EXCEPT !.enabled = enabled]
      BY <2>1 DEF ClientRows
    <2>3. PICK tables : tables = [Core EXCEPT !.clients[k] = row] OBVIOUS
    <2>4. tables \in Tables /\ tables.secret = Core.secret /\ tables.key = Core.key
      BY <1>2, <2>3 DEF Tables
    <2>5. tables = [Core EXCEPT !.clients[k].enabled = enabled]
      BY <1>2, <2>2, <2>3 DEF Tables
    <2>6. Applies(c, tables) BY <1>3, <1>4, <1>6, <2>5 DEF CoreUpdatesClient
    <2> QED BY <1>1, <1>3, <2>4, <2>6, AppliesQuietly DEF SaveFns
  <1> QED BY <1>5, <1>6

(* delete_oauth_client                                                     *)
LEMMA CoreDeletesClientStep ==
    ASSUME ConsoleInv, NEW c \in Calls, CoreDeletesClient(c), UNCHANGED <<dir, cli, dom>>
    PROVE  ConsoleInv'
  <1>1. Requesting(calls[c]) /\ calls[c].fn = "removeClient" /\ calls[c].step = "sent"
    BY DEF CoreDeletesClient, SentTo, Requesting
  <1>2. /\ ArgsMatch(calls[c]) /\ CallOK(calls[c]) /\ ShownSecretIsCurrent /\ Core \in Tables
    BY <1>1, RequestIsKnown
  <1>3. PICK k \in Clients : k = calls[c].arg.target BY <1>1, <1>2 DEF ArgsMatch
  <1>4. PICK tables : tables = [Core EXCEPT !.clients[k] = Null, !.secret[k] = 0] OBVIOUS
  <1>5. tables \in Tables /\ tables.key = Core.key BY <1>2, <1>4 DEF Tables
  <1>6. Applies(c, tables) \/ Refuses(c) BY <1>3, <1>4 DEF CoreDeletesClient
  <1>7. Core' = tables => ShownSecretIsCurrent'
    BY <1>1, <1>2, <1>5, SecretMayChange DEF ClientFns
  <1> QED BY <1>1, <1>5, <1>6, <1>7, AppliesStep, RefusesStep DEF SaveFns

(* regenerate_oauth_client_secret                                          *)
LEMMA CoreRegeneratesSecretStep ==
    ASSUME ConsoleInv, NEW c \in Calls, CoreRegeneratesSecret(c), UNCHANGED <<dir, cli, dom>>
    PROVE  ConsoleInv'
  <1>1. Requesting(calls[c]) /\ calls[c].fn = "regenerateSecret" /\ calls[c].step = "sent"
    BY DEF CoreRegeneratesSecret, SentTo, Requesting
  <1>2. /\ ArgsMatch(calls[c]) /\ CallOK(calls[c]) /\ ShownSecretIsCurrent /\ Core \in Tables
        /\ Version \in Nat
    BY <1>1, RequestIsKnown
  <1>3. PICK k \in Clients : k = calls[c].arg.target BY <1>1, <1>2 DEF ArgsMatch
  <1>4. PICK tables : tables = [Core EXCEPT !.secret[k] = Version + 1] OBVIOUS
  <1>5. tables \in Tables /\ tables.key = Core.key BY <1>2, <1>4 DEF Tables
  <1>6. Applies(c, tables) \/ Refuses(c) BY <1>3, <1>4 DEF CoreRegeneratesSecret
  <1>7. Core' = tables => ShownSecretIsCurrent'
    BY <1>1, <1>2, <1>5, SecretMayChange DEF ClientFns
  <1> QED BY <1>1, <1>5, <1>6, <1>7, AppliesStep, RefusesStep DEF SaveFns

(* create_domain and update_domain: no key is shown meanwhile.             *)
LEMMA CoreWritesDomainStep ==
    ASSUME ConsoleInv, NEW c \in Calls, CoreWritesDomain(c), UNCHANGED <<dir, cli, dom>>
    PROVE  ConsoleInv'
  <1>1. Requesting(calls[c]) /\ calls[c].fn = "saveDomain" /\ calls[c].step = "sent"
    BY DEF CoreWritesDomain, SentTo, Requesting
  <1>2. /\ ArgsMatch(calls[c]) /\ CallOK(calls[c]) /\ ShownSecretIsCurrent /\ Core \in Tables
        /\ Version \in Nat
    BY <1>1, RequestIsKnown
  <1>3. PICK d \in Domains : d = calls[c].arg.target BY <1>1, <1>2 DEF ArgsMatch, DomainArgs
  <1>4. PICK tables : tables = [Core EXCEPT !.domains[d] = d, !.key[d] = Version + 1] OBVIOUS
  <1>5. tables \in Tables /\ tables.secret = Core.secret
    <2>1. PICK t \in Tables : t = Core BY <1>2
    <2>2. PICK n \in Nat : n = Version + 1 BY <1>2
    <2>3. tables = [t EXCEPT !.domains[d] = d, !.key[d] = n] BY <1>4, <2>1, <2>2
    <2>4. tables \in Tables /\ tables.secret = t.secret BY <2>3 DEF Tables
    <2> QED BY <2>1, <2>4
  <1>6. Applies(c, tables) \/ Refuses(c) BY <1>3, <1>4 DEF CoreWritesDomain
  <1>7. dom.syncerKey = Null BY <1>1, <1>2 DEF CallOK
  <1>8. Core' = tables => ShownSecretIsCurrent'
    BY <1>2, <1>5, <1>7 DEF ShownSecretIsCurrent
  <1> QED BY <1>1, <1>5, <1>6, <1>8, AppliesStep, RefusesStep DEF SaveFns

(* Core's handlers.                                                        *)
LEMMA CoreHandlesStep ==
    ASSUME ConsoleInv, NEW c \in Calls, CoreHandles(c)
    PROVE  ConsoleInv'
  BY DirectoryCoreStep, CoreCreatesClientStep, CoreUpdatesClientStep, CoreDeletesClientStep,
     CoreRegeneratesSecretStep, CoreWritesDomainStep DEF CoreHandles, ClientsCore

(* Another administrator writes neither secrets nor keys.                  *)
LEMMA OtherAdministratorStep ==
    ASSUME ConsoleInv, OtherAdministrator
    PROVE  ConsoleInv'
  <1>1. ConsoleTypeOK /\ DialogIsAlone /\ ShownSecretIsCurrent /\ FormsOK
        /\ Core \in Tables /\ Version \in Nat
    BY InvariantByCall, CoreIsTyped
  <1>2. UNCHANGED <<authenticated, lists, calls, pageVars, dir, cli, dom>>
    BY DEF OtherAdministrator
  <1>3. PICK tables \in Tables :
            CoreBecomes(tables) /\ tables.secret = Core.secret /\ tables.key = Core.key
    <2>1. ASSUME NEW u \in Rows(Core.users), CoreBecomes(WithoutUser(Core, u))
          PROVE  \E tables \in Tables : /\ CoreBecomes(tables)
                                        /\ tables.secret = Core.secret /\ tables.key = Core.key
      <3>1. u \in Users BY <1>1 DEF Rows, Tables
      <3> QED BY <1>1, <2>1, <3>1, WithoutUserIsTyped
    <2>2. ASSUME NEW u \in Rows(Core.users), NEW o \in Rows(Core.ous),
                 CoreBecomes([Core EXCEPT !.users[u] = o])
          PROVE  \E tables \in Tables : /\ CoreBecomes(tables)
                                        /\ tables.secret = Core.secret /\ tables.key = Core.key
      <3>1. u \in Users /\ o \in OrganizationalUnits BY <1>1 DEF Rows, Tables
      <3>2. PICK tables : tables = [Core EXCEPT !.users[u] = o] OBVIOUS
      <3>3. tables \in Tables /\ tables.secret = Core.secret /\ tables.key = Core.key
        BY <1>1, <3>1, <3>2 DEF Tables
      <3> QED BY <2>2, <3>2, <3>3
    <2>3. ASSUME NEW o \in Rows(Core.ous), CoreBecomes([Core EXCEPT !.ous[o] = Null])
          PROVE  \E tables \in Tables : /\ CoreBecomes(tables)
                                        /\ tables.secret = Core.secret /\ tables.key = Core.key
      <3>1. o \in OrganizationalUnits BY <1>1 DEF Rows, Tables
      <3>2. PICK tables : tables = [Core EXCEPT !.ous[o] = Null] OBVIOUS
      <3>3. tables \in Tables /\ tables.secret = Core.secret /\ tables.key = Core.key
        BY <1>1, <3>1, <3>2 DEF Tables
      <3> QED BY <2>3, <3>2, <3>3
    <2> QED BY <2>1, <2>2, <2>3 DEF OtherAdministrator
  <1>4. /\ history' \in Seq(Tables) /\ Version' = Version + 1 /\ Version' \in 1 .. MaxVersion
        /\ Core' = tables /\ \A i \in 1 .. Version : history'[i] = history[i]
    BY <1>1, <1>3, HistoryGrows
  <1>5. VersionsKept BY <1>1, <1>4 DEF VersionsKept
  <1>6. StateTyped' BY <1>1, <1>2, <1>4 DEF StateTyped, ConsoleTypeOK, pageVars
  <1>7. RefsKept BY <1>2, <1>3, <1>4 DEF RefsKept
  <1>8. DialogIsAlone' BY <1>1, <1>2, DialogStays DEF pageVars
  <1>9. ShownSecretIsCurrent' /\ FormsOK' BY <1>1, <1>2, <1>3, <1>4, ShownStays DEF FormsOK
  <1> QED BY <1>2, <1>5, <1>6, <1>7, <1>8, <1>9, PageStep DEF pageVars

-----------------------------------------------------------------------------
(* The answers.                                                            *)

(* openUserEditor goes on: whatever is open is replaced, and no target is  *)
(* left.                                                                   *)
LEMMA EmployeeIdAnsweredStep ==
    ASSUME ConsoleInv, NEW c \in Calls, EmployeeIdAnswered(c), UNCHANGED <<cli, dom>>
    PROVE  ConsoleInv'
  <1>1. ConsoleTypeOK /\ DialogIsAlone /\ ShownSecretIsCurrent
        /\ calls \in [Calls -> CallRecords] /\ dir \in DirectoryRefs
    BY InvariantByCall DEF ConsoleTypeOK
  <1>2. /\ UNCHANGED <<authenticated, lists, history, pageVars>>
        /\ calls' = [calls EXCEPT ![c] = Idle] /\ calls[c].fn = "openUserEditor"
    BY DEF EmployeeIdAnswered, EndCall
  <1>3. VersionsKept /\ Core' = Core /\ Version' = Version BY <1>1, <1>2, SameVersions
  <1>4. Idle \in CallRecords BY <1>1, CoreIsTyped, RecordsAreTyped
  <1>5. calls'[c] = Idle BY <1>1, <1>2
  <1>6. CallOK(calls[c])' /\ ~IsSave(Idle) BY <1>5, IdleIsOK
  <1>7. ~IsSave(calls[c]) BY <1>2 DEF IsSave, SaveFns
  <1>8. PICK u \in Users :
            dir' = [Opened("user", Null, Null, Null) EXCEPT !.userForm =
                        [id |-> u, ou |-> dir.selectedOuId]]
    BY DEF EmployeeIdAnswered, FreshUsers
  <1>9. /\ dir' \in DirectoryRefs /\ dir'.editor = "user" /\ dir'.editingOuId = Null
        /\ dir'.editingUserId = Null /\ dir'.editingGroupId = Null
        /\ dir'.groupForm = dir.groupForm
        /\ dir'.resetPasswordTarget = dir.resetPasswordTarget
    BY <1>1, <1>8 DEF DirectoryRefs, Opened
  <1>10. FormsOK' BY <1>9 DEF FormsOK
  <1>11. RefsKept BY <1>3, <1>9, EditorAssumption DEF RefsKept
  <1>12. StateTyped' BY <1>1, <1>2, <1>3, <1>9 DEF StateTyped, ConsoleTypeOK, pageVars
  <1>13. DialogIsAlone' BY <1>1, <1>2, <1>9, DialogStays DEF pageVars
  <1>14. ShownSecretIsCurrent' BY <1>1, <1>3, ShownStays
  <1> QED BY <1>2, <1>3, <1>4, <1>6, <1>7, <1>10, <1>11, <1>12, <1>13, <1>14, CallStep
          DEF pageVars

(* A function that saves goes on to its next request or its loads, or ends *)
(* without a session.                                                      *)
LEMMA GoesOnStep ==
    ASSUME ConsoleInv, NEW c \in Calls, Requesting(calls[c]), IsSave(calls[c]),
           NEW next \in CallRecords, GoesOn(c, next), IsSave(next),
           calls'[c] = next => CallOK(calls[c])',
           dir' \in DirectoryRefs, dom' \in DomainRefs, UNCHANGED cli,
           FormsOK', ShownSecretIsCurrent'
    PROVE  ConsoleInv'
  <1>1. ConsoleTypeOK /\ DialogIsAlone /\ SavingIsOneSave
        /\ calls \in [Calls -> CallRecords] /\ saving \in BOOLEAN /\ authenticated \in BOOLEAN
    BY InvariantByCall DEF ConsoleTypeOK
  <1>2. saving BY <1>1 DEF SavingIsOneSave, InSave, IsSave
  <1>3. dialog = Null /\ DialogIsAlone' BY <1>1, <1>2 DEF DialogIsAlone, GoesOn
  <1>4. VersionsKept /\ Core' = Core /\ Version' = Version BY <1>1, SameVersions DEF GoesOn
  <1>5. StateTyped' BY <1>1, <1>4 DEF StateTyped, ConsoleTypeOK, GoesOn
  <1>6. CASE authenticated
    <2>1. calls' = [calls EXCEPT ![c] = next] /\ saving' = saving
      BY <1>1, <1>6 DEF GoesOn
    <2>2. CallOK(calls[c])' BY <1>1, <2>1
    <2> QED BY <1>3, <1>4, <1>5, <2>1, <2>2, CallStep
  <1>7. CASE ~authenticated
    <2>1. calls' = [calls EXCEPT ![c] = Idle] /\ saving' = FALSE
      BY <1>1, <1>7 DEF GoesOn
    <2>2. Idle \in CallRecords BY <1>1, CoreIsTyped, RecordsAreTyped
    <2>3. calls'[c] = Idle BY <1>1, <2>1
    <2>4. CallOK(calls[c])' /\ ~IsSave(Idle) BY <2>3, IdleIsOK
    <2> QED BY <1>3, <1>4, <1>5, <2>1, <2>2, <2>4, CallStep
  <1> QED BY <1>1, <1>6, <1>7

(* A function of the directory page goes on to its loads.                  *)
LEMMA GoesOnToLoads ==
    ASSUME ConsoleInv, NEW c \in Calls, calls[c].step = "applied",
           calls[c].fn \in SaveFns \ ClientFns, NEW names \in SUBSET ListNames,
           GoesOn(c, Loading(calls[c].fn, names)), UNCHANGED <<cli, dom>>,
           dir' \in DirectoryRefs, FormsOK'
    PROVE  ConsoleInv'
  <1>1. Requesting(calls[c]) /\ IsSave(calls[c]) BY DEF Requesting, IsSave
  <1>2. ConsoleTypeOK /\ ShownSecretIsCurrent /\ dom \in DomainRefs
    BY InvariantByCall DEF ConsoleTypeOK
  <1>3. UNCHANGED history /\ Core' = Core BY <1>2, SameVersions DEF GoesOn
  <1>4. PICK fn \in SaveFns \ ClientFns : fn = calls[c].fn OBVIOUS
  <1>5. Version \in Nat BY <1>2, CoreIsTyped
  <1>6. Loading(fn, names) \in CallRecords BY <1>5, RecordsAreTyped
  <1>7. IsSave(Loading(fn, names)) BY DEF IsSave, Loading
  <1>8. calls'[c] = Loading(fn, names) => CallOK(calls[c])'
    BY <1>2, <1>3, LoadingIsOK
  <1>9. ShownSecretIsCurrent' BY <1>2, <1>3, ShownStays
  <1>10. GoesOn(c, Loading(fn, names)) BY <1>4
  <1> QED BY <1>1, <1>2, <1>6, <1>7, <1>8, <1>9, <1>10, GoesOnStep

(* saveOu, saveUser, removeOu, removeUser and resetUserPassword after      *)
(* their answer.                                                           *)
LEMMA OuSavedStep ==
    ASSUME ConsoleInv, NEW c \in Calls, OuSaved(c), UNCHANGED <<cli, dom>>
    PROVE  ConsoleInv'
  <1>1. dir \in DirectoryRefs /\ FormsOK BY InvariantByCall DEF ConsoleTypeOK
  <1>2. /\ calls[c].step = "applied" /\ calls[c].fn \in SaveFns \ ClientFns
        /\ GoesOn(c, Loading(calls[c].fn, {"ous", "sync"}))
    BY DEF OuSaved, Answered, SaveFns, ClientFns
  <1>3. {"ous", "sync"} \in SUBSET ListNames BY DEF ListNames
  <1>4. dir' \in DirectoryRefs /\ FormsOK' BY <1>1 DEF OuSaved, DirectoryRefs, FormsOK
  <1> QED BY <1>2, <1>3, <1>4, GoesOnToLoads

(* removeOu *)
LEMMA OuRemovedStep ==
    ASSUME ConsoleInv, NEW c \in Calls, OuRemoved(c), UNCHANGED <<cli, dom>>
    PROVE  ConsoleInv'
  <1>1. dir \in DirectoryRefs /\ FormsOK BY InvariantByCall DEF ConsoleTypeOK
  <1>2. /\ calls[c].step = "applied" /\ calls[c].fn \in SaveFns \ ClientFns
        /\ GoesOn(c, Loading(calls[c].fn, {"ous", "users", "groups", "sync"}))
    BY DEF OuRemoved, Answered, SaveFns, ClientFns
  <1>3. {"ous", "users", "groups", "sync"} \in SUBSET ListNames BY DEF ListNames
  <1>4. PICK deselected : deselected = IF dir.selectedOuId = calls[c].arg.target
                                       THEN [dir EXCEPT !.selectedOuId = Null] ELSE dir
    OBVIOUS
  <1>5. /\ deselected \in DirectoryRefs /\ deselected.editingOuId = dir.editingOuId
        /\ deselected.editingUserId = dir.editingUserId
        /\ deselected.editingGroupId = dir.editingGroupId
        /\ deselected.ouForm = dir.ouForm /\ deselected.userForm = dir.userForm
        /\ deselected.groupForm = dir.groupForm
    BY <1>1, <1>4 DEF DirectoryRefs
  <1>6. dir' = Closed(deselected) \/ dir' = deselected BY <1>4 DEF OuRemoved
  <1>7. dir' \in DirectoryRefs /\ FormsOK' BY <1>1, <1>5, <1>6, ClosedIsTyped DEF FormsOK
  <1> QED BY <1>2, <1>3, <1>7, GoesOnToLoads

(* saveUser *)
LEMMA UserSavedStep ==
    ASSUME ConsoleInv, NEW c \in Calls, UserSaved(c), UNCHANGED <<cli, dom>>
    PROVE  ConsoleInv'
  <1>1. dir \in DirectoryRefs /\ FormsOK BY InvariantByCall DEF ConsoleTypeOK
  <1>2. /\ calls[c].step = "applied" /\ calls[c].fn \in SaveFns \ ClientFns
        /\ GoesOn(c, Loading(calls[c].fn, {"users", "sync"}))
    BY DEF UserSaved, Answered, SaveFns, ClientFns
  <1>3. {"users", "sync"} \in SUBSET ListNames BY DEF ListNames
  <1>4. dir' \in DirectoryRefs /\ FormsOK' BY <1>1 DEF UserSaved, DirectoryRefs, FormsOK
  <1> QED BY <1>2, <1>3, <1>4, GoesOnToLoads

(* removeUser *)
LEMMA UserRemovedStep ==
    ASSUME ConsoleInv, NEW c \in Calls, UserRemoved(c), UNCHANGED <<cli, dom>>
    PROVE  ConsoleInv'
  <1>1. dir \in DirectoryRefs /\ FormsOK BY InvariantByCall DEF ConsoleTypeOK
  <1>2. /\ calls[c].step = "applied" /\ calls[c].fn \in SaveFns \ ClientFns
        /\ GoesOn(c, Loading(calls[c].fn, {"users", "groups", "sync"}))
    BY DEF UserRemoved, Answered, SaveFns, ClientFns
  <1>3. {"users", "groups", "sync"} \in SUBSET ListNames BY DEF ListNames
  <1>4. PICK closed : closed = IF dir.editingUserId = calls[c].arg.target
                               THEN Closed(dir) ELSE dir
    OBVIOUS
  <1>5. /\ closed \in DirectoryRefs
        /\ closed.editingOuId # Null => closed.ouForm.id = closed.editingOuId
        /\ closed.editingUserId # Null => closed.userForm.id = closed.editingUserId
        /\ closed.editingGroupId # Null => closed.groupForm.id = closed.editingGroupId
    BY <1>1, <1>4, ClosedIsTyped DEF FormsOK
  <1>6. dir' = [closed EXCEPT !.resetPasswordTarget = Null] \/ dir' = closed
    BY <1>4 DEF UserRemoved
  <1>7. dir' \in DirectoryRefs /\ FormsOK' BY <1>5, <1>6 DEF FormsOK, DirectoryRefs
  <1> QED BY <1>2, <1>3, <1>7, GoesOnToLoads

(* resetUserPassword *)
LEMMA PasswordResetStep ==
    ASSUME ConsoleInv, NEW c \in Calls, PasswordReset(c), UNCHANGED <<cli, dom>>
    PROVE  ConsoleInv'
  <1>1. dir \in DirectoryRefs /\ FormsOK BY InvariantByCall DEF ConsoleTypeOK
  <1>2. /\ calls[c].step = "applied" /\ calls[c].fn \in SaveFns \ ClientFns
        /\ GoesOn(c, Loading(calls[c].fn, {"sync"}))
    BY DEF PasswordReset, Answered, SaveFns, ClientFns
  <1>3. {"sync"} \in SUBSET ListNames BY DEF ListNames
  <1>4. dir' \in DirectoryRefs /\ FormsOK' BY <1>1 DEF PasswordReset, FormsOK
  <1> QED BY <1>2, <1>3, <1>4, GoesOnToLoads

(* saveGroup after its first answer: the group that gets the members is    *)
(* the one whose members they are, because the refs were kept.             *)
LEMMA GroupSavedStep ==
    ASSUME ConsoleInv, NEW c \in Calls, GroupSaved(c), UNCHANGED <<cli, dom>>
    PROVE  ConsoleInv'
  <1>1. dir \in DirectoryRefs /\ FormsOK /\ ConsoleTypeOK /\ CallOK(calls[c])
        /\ ShownSecretIsCurrent /\ dom \in DomainRefs
    BY InvariantByCall DEF ConsoleTypeOK
  <1>2. calls[c].step = "applied" /\ calls[c].fn = "saveGroup"
    BY DEF GroupSaved, Answered
  <1>3. CASE ~SendsMembers(c)
    <2>1. GoesOn(c, Loading(calls[c].fn, {"groups", "sync"}))
          /\ dir' = [dir EXCEPT !.selectedOuId = dir.groupForm.ou]
      BY <1>3 DEF GroupSaved
    <2>2. {"groups", "sync"} \in SUBSET ListNames BY DEF ListNames
    <2>3. dir' \in DirectoryRefs /\ FormsOK' BY <1>1, <2>1 DEF DirectoryRefs, FormsOK
    <2> QED BY <1>2, <2>1, <2>2, <2>3, GoesOnToLoads DEF SaveFns, ClientFns
  <1>4. CASE SendsMembers(c)
    <2>1. PICK arg : arg = [target |-> MembersTarget(c), id |-> calls[c].arg.id,
                            members |-> calls[c].arg.members]
      OBVIOUS
    <2>2. GoesOn(c, Sent("saveMembers", arg)) /\ UNCHANGED dir
      BY <1>4, <2>1 DEF GroupSaved
    <2>3. Requesting(calls[c]) /\ IsSave(calls[c])
      BY <1>2 DEF Requesting, IsSave, SaveFns
    <2>4. calls[c].arg \in GroupArgs BY <1>1, <1>2, <2>3 DEF CallOK, ArgsMatch
    <2>5. MembersTarget(c) \in Groups \cup {Null} /\ MembersTarget(c) \in {calls[c].arg.id, Null}
      BY <1>1, <1>2, <2>3, <2>4 DEF MembersTarget, CallOK, DirectoryRefs, GroupArgs
    <2>6. arg \in MembersArgs /\ arg \in Args /\ arg.target \in {arg.id, Null}
      BY <2>1, <2>4, <2>5 DEF MembersArgs, GroupArgs, Args
    <2>7. UNCHANGED history /\ Core' = Core BY <1>1, <2>2, SameVersions DEF GoesOn
    <2>8. "saveMembers" \in SaveFns BY DEF SaveFns
    <2>9. Sent("saveMembers", arg) \in CallRecords /\ IsSave(Sent("saveMembers", arg))
      <3>1. Version \in Nat BY <1>1, CoreIsTyped
      <3>2. Sent("saveMembers", arg) \in CallRecords BY <2>6, <2>8, <3>1, RecordsAreTyped
      <3> QED BY <2>8, <3>2 DEF IsSave, Sent
    <2>10. ASSUME calls'[c] = Sent("saveMembers", arg) PROVE CallOK(calls[c])'
      <3>1. /\ IsCall(calls[c])' /\ calls'[c].fn = "saveMembers" /\ calls'[c].step = "sent"
            /\ calls'[c].arg = arg
        BY <1>1, <2>6, <2>7, <2>8, <2>10, SentIsTyped
      <3> QED BY <2>6, <3>1 DEF CallOK, Requesting, ArgsMatch, ClientFns
    <2>11. dir' \in DirectoryRefs /\ FormsOK' /\ dom' \in DomainRefs
      BY <1>1, <2>2 DEF FormsOK
    <2>12. ShownSecretIsCurrent' BY <1>1, <2>7, ShownStays
    <2> QED BY <2>2, <2>3, <2>9, <2>10, <2>11, <2>12, GoesOnStep
  <1> QED BY <1>3, <1>4

(* saveGroup after its second answer.                                      *)
LEMMA MembersSavedStep ==
    ASSUME ConsoleInv, NEW c \in Calls, MembersSaved(c), UNCHANGED <<cli, dom>>
    PROVE  ConsoleInv'
  <1>1. dir \in DirectoryRefs /\ FormsOK BY InvariantByCall DEF ConsoleTypeOK
  <1>2. /\ calls[c].step = "applied" /\ calls[c].fn \in SaveFns \ ClientFns
        /\ GoesOn(c, Loading(calls[c].fn, {"groups", "sync"}))
    BY DEF MembersSaved, Answered, SaveFns, ClientFns
  <1>3. {"groups", "sync"} \in SUBSET ListNames BY DEF ListNames
  <1>4. dir' \in DirectoryRefs /\ FormsOK' BY <1>1 DEF MembersSaved, DirectoryRefs, FormsOK
  <1> QED BY <1>2, <1>3, <1>4, GoesOnToLoads

(* saveDomain: the key that is shown is the one Core made.                 *)
LEMMA DomainSavedStep ==
    ASSUME ConsoleInv, NEW c \in Calls, DomainSaved(c), UNCHANGED <<dir, cli>>
    PROVE  ConsoleInv'
  <1>1. /\ dir \in DirectoryRefs /\ FormsOK /\ ConsoleTypeOK /\ CallOK(calls[c])
        /\ ShownSecretIsCurrent /\ dom \in DomainRefs
    BY InvariantByCall DEF ConsoleTypeOK
  <1>2. calls[c].step = "applied" /\ calls[c].fn = "saveDomain"
    BY DEF DomainSaved, Answered
  <1>3. Requesting(calls[c]) /\ IsSave(calls[c]) BY <1>2 DEF Requesting, IsSave, SaveFns
  <1>4. PICK d \in Domains : d = calls[c].arg.target
    BY <1>1, <1>2, <1>3 DEF CallOK, ArgsMatch, DomainArgs
  <1>5. UNCHANGED history /\ Core' = Core BY <1>1, SameVersions DEF DomainSaved, GoesOn
  <1>6. Version \in Nat /\ Core \in Tables BY <1>1, CoreIsTyped
  <1>7. /\ dom' = [dom EXCEPT !.selectedDomainId = d, !.syncerKey = Core.key[d]]
        /\ GoesOn(c, Loading("saveDomain", {"domains", "sync"}))
    BY <1>1, <1>2, <1>4 DEF DomainSaved, CallOK
  <1>8. Core.key[d] \in Nat BY <1>6 DEF Tables
  <1>9. dom' \in DomainRefs /\ dom'.selectedDomainId = d /\ dom'.syncerKey = Core.key[d]
    BY <1>1, <1>7, <1>8 DEF DomainRefs
  <1>10. ShownSecretIsCurrent' BY <1>1, <1>5, <1>9 DEF ShownSecretIsCurrent
  <1>11. {"domains", "sync"} \in SUBSET ListNames BY DEF ListNames
  <1>12. "saveDomain" \in (SaveFns \cup SessionFns) \ ClientFns BY DEF SaveFns, ClientFns
  <1>13. Loading("saveDomain", {"domains", "sync"}) \in CallRecords
    BY <1>6, <1>11, <1>12, RecordsAreTyped
  <1>14. IsSave(Loading("saveDomain", {"domains", "sync"})) BY DEF IsSave, Loading, SaveFns
  <1>15. calls'[c] = Loading("saveDomain", {"domains", "sync"}) => CallOK(calls[c])'
    BY <1>1, <1>5, <1>11, <1>12, LoadingIsOK
  <1>16. dir' \in DirectoryRefs /\ FormsOK' BY <1>1 DEF FormsOK
  <1> QED BY <1>3, <1>7, <1>9, <1>10, <1>13, <1>14, <1>15, <1>16, GoesOnStep

(* A function of the clients page ends with its answer.                    *)
LEMMA ClientDoneStep ==
    ASSUME ConsoleInv, NEW c \in Calls, calls[c].fn \in ClientFns,
           NEW table \in [Clients -> ClientRows \cup {Null}], ClientDone(c, table),
           cli' \in ClientRefs, UNCHANGED <<dir, dom>>, ShownSecretIsCurrent'
    PROVE  ConsoleInv'
  <1>1. ConsoleTypeOK /\ DialogIsAlone /\ SavingIsOneSave /\ FormsOK /\ CallOK(calls[c])
        /\ calls \in [Calls -> CallRecords]
    BY InvariantByCall DEF ConsoleTypeOK
  <1>2. IsSave(calls[c]) BY <1>1 DEF CallOK, IsSave, ClientFns, SaveFns
  <1>3. saving BY <1>1, <1>2 DEF SavingIsOneSave, InSave, IsSave
  <1>4. DialogIsAlone' BY <1>1, <1>3 DEF DialogIsAlone, ClientDone
  <1>5. VersionsKept /\ Core' = Core /\ Version' = Version BY <1>1, SameVersions DEF ClientDone
  <1>6. lists' \in CachedLists BY <1>1 DEF ClientDone, ConsoleTypeOK, CachedLists
  <1>7. StateTyped' BY <1>1, <1>5, <1>6 DEF StateTyped, ConsoleTypeOK, ClientDone
  <1>8. calls' = [calls EXCEPT ![c] = Idle] /\ saving' = FALSE BY DEF ClientDone, EndCall
  <1>9. Idle \in CallRecords BY <1>1, CoreIsTyped, RecordsAreTyped
  <1>10. calls'[c] = Idle BY <1>1, <1>8
  <1>11. CallOK(calls[c])' /\ ~IsSave(Idle) BY <1>10, IdleIsOK
  <1>12. FormsOK' BY <1>1 DEF FormsOK
  <1> QED BY <1>2, <1>4, <1>5, <1>7, <1>8, <1>9, <1>11, <1>12, CallStep

(* What an answer of Core to the clients page holds.                       *)
LEMMA AnswerIsKnown ==
    ASSUME ConsoleInv, NEW c \in Calls, calls[c].step = "applied", calls[c].fn \in ClientFns
    PROVE  /\ calls[c].arg.target \in Clients /\ AnsweredRow(c) \in ClientRows \cup {Null}
           /\ history[calls[c].since].secret[calls[c].arg.target] \in Nat
           /\ calls[c].fn \in {"saveClient", "regenerateSecret"} =>
                  history[calls[c].since].secret[calls[c].arg.target]
                      = Core.secret[calls[c].arg.target]
           /\ calls[c].fn = "regenerateSecret" => cli.selectedClientId = calls[c].arg.target
           /\ ShownSecretIsCurrent /\ cli \in ClientRefs
           /\ lists.clients \in [Clients -> ClientRows \cup {Null}]
  <1>1. Requesting(calls[c]) BY DEF Requesting
  <1>2. /\ ConsoleTypeOK /\ ShownSecretIsCurrent /\ CallOK(calls[c]) /\ ArgsMatch(calls[c])
        /\ calls[c].since \in 1 .. Version
    BY <1>1, RequestIsKnown
  <1>3. calls[c].arg.target \in Clients BY <1>2 DEF ArgsMatch, ClientFns, ToggleArgs
  <1>4. PICK t \in Tables : t = history[calls[c].since] BY <1>2, CoreIsTyped
  <1>5. AnsweredRow(c) \in ClientRows \cup {Null}
        /\ history[calls[c].since].secret[calls[c].arg.target] \in Nat
    BY <1>3, <1>4 DEF AnsweredRow, Tables
  <1>6. cli \in ClientRefs /\ lists.clients \in [Clients -> ClientRows \cup {Null}]
    BY <1>2 DEF ConsoleTypeOK, CachedLists
  <1> QED BY <1>2, <1>3, <1>5, <1>6 DEF CallOK

(* saveClient after createOAuthClient                                      *)
LEMMA ClientCreatedStep ==
    ASSUME ConsoleInv, NEW c \in Calls, ClientCreated(c), UNCHANGED <<dir, dom>>
    PROVE  ConsoleInv'
  <1>1. calls[c].fn = "saveClient" /\ calls[c].step = "applied"
    BY DEF ClientCreated, Answered
  <1>2. /\ calls[c].arg.target \in Clients /\ AnsweredRow(c) \in ClientRows \cup {Null}
        /\ history[calls[c].since].secret[calls[c].arg.target] \in Nat
        /\ history[calls[c].since].secret[calls[c].arg.target]
               = Core.secret[calls[c].arg.target]
        /\ ShownSecretIsCurrent /\ cli \in ClientRefs
        /\ lists.clients \in [Clients -> ClientRows \cup {Null}]
    BY <1>1, AnswerIsKnown DEF ClientFns
  <1>3. PICK k \in Clients : k = calls[c].arg.target BY <1>2
  <1>4. PICK value \in Nat : value = history[calls[c].since].secret[calls[c].arg.target]
    BY <1>2
  <1>5. PICK table : table = [lists.clients EXCEPT ![k] = AnsweredRow(c)] OBVIOUS
  <1>6. table \in [Clients -> ClientRows \cup {Null}] BY <1>2, <1>5
  <1>7. ClientDone(c, table) BY <1>3, <1>5 DEF ClientCreated
  <1>8. \/ cli' = [cli EXCEPT !.selectedClientId = k, !.drawerView = "secret",
                             !.secret = [id |-> k, value |-> value]]
        \/ cli' = [cli EXCEPT !.selectedClientId = k, !.drawerOpen = FALSE]
    BY <1>3, <1>4 DEF ClientCreated
  <1>9. Core' = Core
    <2>1. ConsoleTypeOK /\ UNCHANGED history BY <1>7, InvariantByCall DEF ClientDone
    <2> QED BY <2>1, SameVersions
  <1>10. value = Core.secret[k] BY <1>2, <1>3, <1>4
  <1>11. CASE cli' = [cli EXCEPT !.selectedClientId = k, !.drawerView = "secret",
                                 !.secret = [id |-> k, value |-> value]]
    <2>1. cli' \in ClientRefs /\ cli'.selectedClientId = k
          /\ cli'.secret = [id |-> k, value |-> value]
      BY <1>2, <1>11 DEF ClientRefs
    <2>2. ShownSecretIsCurrent' BY <1>2, <1>9, <1>10, <2>1 DEF ShownSecretIsCurrent
    <2> QED BY <1>1, <1>6, <1>7, <2>1, <2>2, ClientDoneStep DEF ClientFns
  <1>12. CASE cli' = [cli EXCEPT !.selectedClientId = k, !.drawerOpen = FALSE]
    <2>1. cli' \in ClientRefs /\ ~cli'.drawerOpen BY <1>2, <1>12 DEF ClientRefs
    <2>2. ShownSecretIsCurrent' BY <1>2, <1>9, <2>1 DEF ShownSecretIsCurrent
    <2> QED BY <1>1, <1>6, <1>7, <2>1, <2>2, ClientDoneStep DEF ClientFns
  <1> QED BY <1>8, <1>11, <1>12

(* saveClient and toggleClient after updateOAuthClient, and removeClient.  *)
LEMMA ClientChangedStep ==
    ASSUME ConsoleInv, NEW c \in Calls, ClientUpdated(c) \/ ClientRemoved(c),
           UNCHANGED <<dir, dom>>
    PROVE  ConsoleInv'
  <1>1. calls[c].fn \in ClientFns /\ calls[c].step = "applied"
    BY DEF ClientUpdated, ClientRemoved, Answered, ClientFns
  <1>2. /\ calls[c].arg.target \in Clients /\ AnsweredRow(c) \in ClientRows \cup {Null}
        /\ ShownSecretIsCurrent /\ cli \in ClientRefs
        /\ lists.clients \in [Clients -> ClientRows \cup {Null}]
    BY <1>1, AnswerIsKnown
  <1>3. ListUpdated(c) \in [Clients -> ClientRows \cup {Null}] BY <1>2 DEF ListUpdated
  <1>4. PICK table \in [Clients -> ClientRows \cup {Null}] : ClientDone(c, table)
    <2>1. CASE ClientUpdated(c) BY <1>3, <2>1 DEF ClientUpdated
    <2>2. CASE ClientRemoved(c)
      <3>1. [lists.clients EXCEPT ![calls[c].arg.target] = Null]
                \in [Clients -> ClientRows \cup {Null}]
        BY <1>2
      <3> QED BY <2>2, <3>1 DEF ClientRemoved
    <2> QED BY <2>1, <2>2
  <1>5. Core' = Core
    <2>1. ConsoleTypeOK /\ UNCHANGED history BY <1>4, InvariantByCall DEF ClientDone
    <2> QED BY <2>1, SameVersions
  <1>6. cli' = [cli EXCEPT !.drawerOpen = FALSE] \/ cli' = cli
    BY DEF ClientUpdated, ClientRemoved
  <1>7. cli' \in ClientRefs /\ (cli' = cli \/ ~cli'.drawerOpen) BY <1>2, <1>6 DEF ClientRefs
  <1>8. ShownSecretIsCurrent' BY <1>2, <1>5, <1>7 DEF ShownSecretIsCurrent
  <1> QED BY <1>1, <1>4, <1>7, <1>8, ClientDoneStep

(* regenerateSecret: the drawer is still open on the client.               *)
LEMMA SecretRegeneratedStep ==
    ASSUME ConsoleInv, NEW c \in Calls, SecretRegenerated(c), UNCHANGED <<dir, dom>>
    PROVE  ConsoleInv'
  <1>1. calls[c].fn = "regenerateSecret" /\ calls[c].step = "applied"
    BY DEF SecretRegenerated, Answered
  <1>2. /\ calls[c].arg.target \in Clients /\ cli.selectedClientId = calls[c].arg.target
        /\ history[calls[c].since].secret[calls[c].arg.target] \in Nat
        /\ history[calls[c].since].secret[calls[c].arg.target]
               = Core.secret[calls[c].arg.target]
        /\ ShownSecretIsCurrent /\ cli \in ClientRefs
        /\ lists.clients \in [Clients -> ClientRows \cup {Null}]
    BY <1>1, AnswerIsKnown DEF ClientFns
  <1>3. PICK k \in Clients : k = calls[c].arg.target BY <1>2
  <1>4. PICK value \in Nat : value = history[calls[c].since].secret[calls[c].arg.target]
    BY <1>2
  <1>5. cli' = [cli EXCEPT !.drawerView = "secret", !.secret = [id |-> k, value |-> value]]
        /\ ClientDone(c, lists.clients)
    BY <1>3, <1>4 DEF SecretRegenerated
  <1>6. Core' = Core
    <2>1. ConsoleTypeOK /\ UNCHANGED history BY <1>5, InvariantByCall DEF ClientDone
    <2> QED BY <2>1, SameVersions
  <1>7. cli' \in ClientRefs /\ cli'.selectedClientId = k
        /\ cli'.secret = [id |-> k, value |-> value]
    BY <1>2, <1>3, <1>5 DEF ClientRefs
  <1>8. ShownSecretIsCurrent' BY <1>2, <1>3, <1>4, <1>6, <1>7 DEF ShownSecretIsCurrent
  <1> QED BY <1>1, <1>2, <1>5, <1>7, <1>8, ClientDoneStep DEF ClientFns

-----------------------------------------------------------------------------
(* The lists that a session ends with are typed.                           *)
LEMMA EmptyListsTyped == EmptyLists \in CachedLists
  BY DEF EmptyLists, CachedLists

(* And so are the lists when one is replaced by a table.                   *)
LEMMA LoadedListsTyped ==
    ASSUME NEW cached \in CachedLists, NEW t \in Tables, NEW l \in ListNames
    PROVE  [cached EXCEPT ![l] = t[l]] \in CachedLists
  <1>1. l \in {"ous", "users", "groups", "clients", "domains", "sync"} BY DEF ListNames
  <1>2. CASE l = "ous" BY <1>2 DEF CachedLists, Tables
  <1>3. CASE l = "users" BY <1>3 DEF CachedLists, Tables
  <1>4. CASE l = "groups" BY <1>4 DEF CachedLists, Tables
  <1>5. CASE l = "clients" BY <1>5 DEF CachedLists, Tables
  <1>6. CASE l = "domains" BY <1>6 DEF CachedLists, Tables
  <1>7. CASE l = "sync" BY <1>7 DEF CachedLists, Tables
  <1> QED BY <1>1, <1>2, <1>3, <1>4, <1>5, <1>6, <1>7

(* The refs of the directory page, but for the selection.                  *)
SameEditor(new, refs) ==
    /\ new \in DirectoryRefs /\ new.editor = refs.editor
    /\ new.editingOuId = refs.editingOuId /\ new.editingUserId = refs.editingUserId
    /\ new.editingGroupId = refs.editingGroupId
    /\ new.ouForm = refs.ouForm /\ new.userForm = refs.userForm
    /\ new.groupForm = refs.groupForm
    /\ new.resetPasswordTarget = refs.resetPasswordTarget

(* The watch moves only the selection.                                     *)
LEMMA WatchedMoves ==
    ASSUME dir \in DirectoryRefs, NEW refs \in DirectoryRefs,
           NEW shown \in SUBSET OrganizationalUnits, NEW new \in Watched(refs, shown)
    PROVE  SameEditor(new, refs)
  <1>1. Reselected(shown) \subseteq OrganizationalUnits \cup {Null} BY ReselectedIsTyped
  <1>2. CASE new = refs BY <1>2 DEF SameEditor
  <1>3. CASE \E o \in Reselected(shown) : new = [refs EXCEPT !.selectedOuId = o]
    BY <1>1, <1>3 DEF SameEditor, DirectoryRefs
  <1> QED BY <1>2, <1>3 DEF Watched

(* A function gets an answer or an error that only its own record, the     *)
(* session and the lists depend on; `saving' ends with a save.             *)
LEMMA SettleStep ==
    ASSUME ConsoleInv, NEW c \in Calls, NEW new \in CallRecords,
           calls' = [calls EXCEPT ![c] = new], CallOK(calls[c])',
           authenticated' \in BOOLEAN, lists' \in CachedLists,
           UNCHANGED <<history, page, dialog, cli, dom>>,
           dir' \in DirectoryRefs, FormsOK',
           dir.resetPasswordTarget = Null => dir'.resetPasswordTarget = Null,
           ~IsSave(calls[c]) => SameEditor(dir', dir),
           IsSave(new) => IsSave(calls[c]),
           saving' = (saving /\ (IsSave(calls[c]) => IsSave(new)))
    PROVE  ConsoleInv'
  <1>1. ConsoleTypeOK /\ DialogIsAlone /\ ShownSecretIsCurrent /\ saving \in BOOLEAN
    BY InvariantByCall DEF ConsoleTypeOK
  <1>2. VersionsKept /\ Core' = Core /\ Version' = Version BY <1>1, SameVersions
  <1>3. saving' \in BOOLEAN /\ (saving' => saving) BY <1>1
  <1>4. StateTyped' BY <1>1, <1>2, <1>3 DEF StateTyped, ConsoleTypeOK
  <1>5. ~IsSave(calls[c]) => RefsKept BY <1>2 DEF RefsKept, SameEditor
  <1>6. DialogIsAlone' BY <1>1, <1>3, DialogStays
  <1>7. ShownSecretIsCurrent' BY <1>1, <1>2, ShownStays
  <1>8. \/ (IsSave(new) <=> IsSave(calls[c])) /\ saving' = saving
        \/ IsSave(calls[c]) /\ ~IsSave(new) /\ saving' = FALSE
    BY <1>1
  <1> QED BY <1>2, <1>4, <1>5, <1>6, <1>7, <1>8, CallStep

(* The editor of the directory page is its own.                            *)
LEMMA SameEditorForms ==
    ASSUME FormsOK, SameEditor(dir', dir)
    PROVE  FormsOK' /\ dir' \in DirectoryRefs
           /\ dir'.resetPasswordTarget = dir.resetPasswordTarget
  BY DEF FormsOK, SameEditor

(* The session is there, and loadAll starts.                               *)
LEMMA SessionAnsweredStep ==
    ASSUME ConsoleInv, NEW c \in Calls, SessionAnswered(c), UNCHANGED <<pageVars, dir, cli, dom>>
    PROVE  ConsoleInv'
  <1>1. ConsoleTypeOK /\ FormsOK /\ calls \in [Calls -> CallRecords] /\ dir \in DirectoryRefs
        /\ lists \in CachedLists /\ saving \in BOOLEAN
    BY InvariantByCall DEF ConsoleTypeOK
  <1>2. PICK fn \in {"restoreSession", "authenticateToken"} : fn = calls[c].fn
    BY DEF SessionAnswered
  <1>3. /\ calls' = [calls EXCEPT ![c] = Loading(fn, ListNames)] /\ authenticated' = TRUE
        /\ UNCHANGED <<lists, history>>
    BY <1>2 DEF SessionAnswered
  <1>4. fn \in (SaveFns \cup SessionFns) \ ClientFns /\ fn \notin SaveFns
    BY DEF SaveFns, SessionFns, ClientFns
  <1>5. calls'[c] = Loading(fn, ListNames) BY <1>1, <1>3
  <1>6. /\ CallOK(calls[c])' /\ Loading(fn, ListNames) \in CallRecords
        /\ ~IsSave(Loading(fn, ListNames))
    BY <1>1, <1>3, <1>4, <1>5, LoadingIsOK
  <1>7. ~IsSave(calls[c]) BY <1>2, <1>4 DEF IsSave
  <1>8. SameEditor(dir', dir) BY <1>1 DEF SameEditor
  <1>9. saving' = (saving /\ (IsSave(calls[c]) => IsSave(Loading(fn, ListNames))))
    BY <1>1, <1>7 DEF pageVars
  <1> QED BY <1>1, <1>3, <1>6, <1>7, <1>8, <1>9, SameEditorForms, SettleStep DEF pageVars

(* exitManagement ends, whatever the answer is.                            *)
LEMMA LogoutAnsweredStep ==
    ASSUME ConsoleInv, NEW c \in Calls, LogoutAnswered(c), dir' \in Watched(dir, {}),
           UNCHANGED <<pageVars, cli, dom>>
    PROVE  ConsoleInv'
  <1>1. ConsoleTypeOK /\ FormsOK /\ calls \in [Calls -> CallRecords] /\ dir \in DirectoryRefs
        /\ saving \in BOOLEAN
    BY InvariantByCall DEF ConsoleTypeOK
  <1>2. /\ calls[c].fn = "logout" /\ calls' = [calls EXCEPT ![c] = Idle] /\ UNCHANGED history
        /\ authenticated' = FALSE /\ lists' = EmptyLists
    BY DEF LogoutAnswered, EndCall, ClearSession
  <1>3. calls'[c] = Idle BY <1>1, <1>2
  <1>4. CallOK(calls[c])' /\ ~IsSave(Idle) BY <1>3, IdleIsOK
  <1>5. Idle \in CallRecords BY <1>1, CoreIsTyped, RecordsAreTyped
  <1>6. ~IsSave(calls[c]) BY <1>2 DEF IsSave, SaveFns
  <1>7. SameEditor(dir', dir) BY <1>1, WatchedMoves
  <1>8. saving' = (saving /\ (IsSave(calls[c]) => IsSave(Idle))) BY <1>1, <1>6 DEF pageVars
  <1> QED BY <1>1, <1>2, <1>4, <1>5, <1>6, <1>7, <1>8, EmptyListsTyped, SameEditorForms,
             SettleStep DEF pageVars

(* A failed request, or a failed load, may end the session.                *)
LEMMA FailureIsTyped ==
    ASSUME ConsoleInv, NEW c \in Calls, NEW unauthorized \in BOOLEAN,
           AfterFailure(c, unauthorized),
           dir' \in IF EndsSession(c, unauthorized) THEN Watched(dir, {}) ELSE {dir}
    PROVE  /\ authenticated' \in BOOLEAN /\ lists' \in CachedLists /\ SameEditor(dir', dir)
           /\ FormsOK' /\ dir' \in DirectoryRefs
           /\ dir'.resetPasswordTarget = dir.resetPasswordTarget
  <1>1. FormsOK /\ dir \in DirectoryRefs /\ authenticated \in BOOLEAN /\ lists \in CachedLists
    BY InvariantByCall DEF ConsoleTypeOK
  <1>2. authenticated' \in BOOLEAN /\ lists' \in CachedLists
    BY <1>1, EmptyListsTyped DEF AfterFailure, ClearSession
  <1>3. dir' = dir \/ dir' \in Watched(dir, {}) OBVIOUS
  <1>4. SameEditor(dir', dir)
    <2>1. CASE dir' = dir BY <1>1, <2>1 DEF SameEditor
    <2>2. CASE dir' \in Watched(dir, {}) BY <1>1, <2>2, WatchedMoves
    <2> QED BY <1>3, <2>1, <2>2
  <1> QED BY <1>1, <1>2, <1>4, SameEditorForms

(* A request fails.                                                        *)
LEMMA RequestFailsStep ==
    ASSUME ConsoleInv, NEW c \in Calls, NEW unauthorized \in BOOLEAN,
           RequestFails(c, unauthorized)
    PROVE  ConsoleInv'
  <1>1. ConsoleTypeOK /\ calls \in [Calls -> CallRecords] /\ saving \in BOOLEAN
    BY InvariantByCall DEF ConsoleTypeOK
  <1>2. /\ calls' = [calls EXCEPT ![c] = Idle] /\ AfterFailure(c, unauthorized)
        /\ saving' = (saving /\ calls[c].fn \notin SaveFns)
        /\ dir' \in IF EndsSession(c, unauthorized) THEN Watched(dir, {}) ELSE {dir}
        /\ UNCHANGED <<history, page, dialog, cli, dom>>
        /\ calls[c].step # "failed"
    BY DEF RequestFails, EndCall
  <1>3. calls'[c] = Idle BY <1>1, <1>2
  <1>4. CallOK(calls[c])' /\ ~IsSave(Idle) BY <1>3, IdleIsOK
  <1>5. Idle \in CallRecords BY <1>1, CoreIsTyped, RecordsAreTyped
  <1>6. saving' = (saving /\ (IsSave(calls[c]) => IsSave(Idle)))
    BY <1>1, <1>2, <1>4 DEF IsSave
  <1>7. /\ authenticated' \in BOOLEAN /\ lists' \in CachedLists /\ SameEditor(dir', dir)
        /\ FormsOK' /\ dir' \in DirectoryRefs
        /\ dir'.resetPasswordTarget = dir.resetPasswordTarget
    BY <1>2, FailureIsTyped
  <1> QED BY <1>2, <1>4, <1>5, <1>6, <1>7, SettleStep

(* What is known of a function that waits for loads.                       *)
LEMMA LoadsAreKnown ==
    ASSUME ConsoleInv, NEW c \in Calls, NEW l \in calls[c].loads
    PROVE  /\ calls[c].step \in {"loads", "failed"} /\ calls[c].fn \notin ClientFns
           /\ calls[c].fn # "idle" /\ calls[c].since \in 1 .. Version /\ l \in ListNames
           /\ calls \in [Calls -> CallRecords] /\ calls[c] \in CallRecords /\ ConsoleTypeOK
           /\ saving \in BOOLEAN
  <1>1. ConsoleTypeOK /\ CallOK(calls[c]) /\ calls \in [Calls -> CallRecords]
        /\ saving \in BOOLEAN
    BY InvariantByCall DEF ConsoleTypeOK
  <1>2. calls[c] \in CallRecords BY <1>1
  <1>3. calls[c] # Idle BY DEF Idle
  <1>4. l \in ListNames BY <1>2 DEF CallRecords
  <1> QED BY <1>1, <1>2, <1>3, <1>4 DEF CallOK, IsCall

(* A function that has some loads left needs nothing else.                 *)
LEMMA LoadsLeftIsOK ==
    ASSUME ConsoleInv, NEW c \in Calls, NEW l \in calls[c].loads, calls[c].loads # {l},
           NEW step \in {"loads", "failed"}, UNCHANGED history,
           NEW new, new = [calls[c] EXCEPT !.loads = calls[c].loads \ {l}, !.step = step],
           calls'[c] = new
    PROVE  /\ new \in CallRecords /\ CallOK(calls[c])'
           /\ IsSave(new) <=> calls[c].fn \in SaveFns /\ step # "failed"
  <1>1. /\ calls[c].fn \notin ClientFns /\ calls[c].fn # "idle"
        /\ calls[c].since \in 1 .. Version /\ calls[c] \in CallRecords /\ ConsoleTypeOK
    BY LoadsAreKnown
  <1>2. PICK r \in CallRecords : r = calls[c] BY <1>1
  <1>3. PICK left \in SUBSET ListNames : left = calls[c].loads \ {l}
    BY <1>1 DEF CallRecords
  <1>4. new = [r EXCEPT !.loads = left, !.step = step] BY <1>2, <1>3
  <1>5. /\ new \in CallRecords /\ new.fn = r.fn /\ new.step = step /\ new.since = r.since
        /\ new.loads = left
    BY <1>4 DEF CallRecords
  <1>6. left # {} BY <1>3
  <1>7. Version' = Version BY <1>1, SameVersions
  <1>8. IsCall(calls[c])' BY <1>1, <1>2, <1>5, <1>6, <1>7 DEF IsCall
  <1>9. CallOK(calls[c])' BY <1>1, <1>2, <1>5, <1>8 DEF CallOK, Requesting
  <1> QED BY <1>2, <1>5, <1>9 DEF IsSave

(* A load fails: the function has failed, and ends with its last load.     *)
LEMMA LoadFailsStep ==
    ASSUME ConsoleInv, NEW c \in Calls, NEW l \in calls[c].loads,
           NEW unauthorized \in BOOLEAN, LoadFails(c, l, unauthorized)
    PROVE  ConsoleInv'
  <1>1. /\ calls[c].step \in {"loads", "failed"} /\ calls \in [Calls -> CallRecords]
        /\ calls[c] \in CallRecords /\ ConsoleTypeOK /\ saving \in BOOLEAN
    BY LoadsAreKnown
  <1>2. /\ AfterFailure(c, unauthorized)
        /\ saving' = (saving /\ ~(calls[c].step = "loads" /\ calls[c].fn \in SaveFns))
        /\ dir' \in IF EndsSession(c, unauthorized) THEN Watched(dir, {}) ELSE {dir}
        /\ UNCHANGED <<history, page, dialog, cli, dom>>
    BY DEF LoadFails
  <1>3. /\ authenticated' \in BOOLEAN /\ lists' \in CachedLists /\ SameEditor(dir', dir)
        /\ FormsOK' /\ dir' \in DirectoryRefs
        /\ dir'.resetPasswordTarget = dir.resetPasswordTarget
    BY <1>2, FailureIsTyped
  <1>4. IsSave(calls[c]) <=> calls[c].step = "loads" /\ calls[c].fn \in SaveFns
    BY <1>1 DEF IsSave
  <1>5. CASE calls[c].loads = {l}
    <2>1. calls' = [calls EXCEPT ![c] = Idle]
      BY <1>5 DEF LoadFails, FailLoad, IsLastLoad, EndCall
    <2>2. calls'[c] = Idle BY <1>1, <2>1
    <2>3. CallOK(calls[c])' /\ ~IsSave(Idle) BY <2>2, IdleIsOK
    <2>4. Idle \in CallRecords BY <1>1, CoreIsTyped, RecordsAreTyped
    <2>5. saving' = (saving /\ (IsSave(calls[c]) => IsSave(Idle)))
      BY <1>1, <1>2, <1>4, <2>3
    <2> QED BY <1>2, <1>3, <2>1, <2>3, <2>4, <2>5, SettleStep
  <1>6. CASE calls[c].loads # {l}
    <2>1. PICK new : new = [calls[c] EXCEPT !.loads = calls[c].loads \ {l}, !.step = "failed"]
      OBVIOUS
    <2>2. calls' = [calls EXCEPT ![c] = new]
      BY <1>1, <1>6, <2>1 DEF LoadFails, FailLoad, IsLastLoad
    <2>3. calls'[c] = new BY <1>1, <2>2
    <2>4. new \in CallRecords /\ CallOK(calls[c])' /\ ~IsSave(new)
      BY <1>2, <1>6, <2>1, <2>3, LoadsLeftIsOK
    <2>5. saving' = (saving /\ (IsSave(calls[c]) => IsSave(new)))
      BY <1>1, <1>2, <1>4, <2>4
    <2> QED BY <1>2, <1>3, <2>2, <2>4, <2>5, SettleStep
  <1> QED BY <1>5, <1>6

(* A save that ends closes its drawer or its dialog and opens none.        *)
LEMMA CompletedIsTyped ==
    ASSUME NEW fn, dir \in DirectoryRefs, FormsOK,
           NEW refs, refs = DirectoryCompleted(fn, dir)
    PROVE  /\ refs \in DirectoryRefs
           /\ refs.editingOuId # Null => refs.ouForm.id = refs.editingOuId
           /\ refs.editingUserId # Null => refs.userForm.id = refs.editingUserId
           /\ refs.editingGroupId # Null => refs.groupForm.id = refs.editingGroupId
           /\ dir.resetPasswordTarget = Null => refs.resetPasswordTarget = Null
           /\ fn \notin SaveFns => refs = dir
  <1>1. CASE fn \in {"saveOu", "saveUser", "saveGroup", "saveMembers"}
    <2>1. refs = Closed(dir) /\ fn \in SaveFns BY <1>1 DEF DirectoryCompleted, SaveFns
    <2> QED BY <2>1, ClosedIsTyped
  <1>2. CASE fn = "resetUserPassword"
    <2>1. refs = [dir EXCEPT !.resetPasswordTarget = Null] /\ fn \in SaveFns
      BY <1>2 DEF DirectoryCompleted, SaveFns
    <2> QED BY <2>1 DEF DirectoryRefs, FormsOK
  <1>3. CASE fn \notin {"saveOu", "saveUser", "saveGroup", "saveMembers", "resetUserPassword"}
    <2>1. refs = dir BY <1>3 DEF DirectoryCompleted
    <2> QED BY <2>1 DEF FormsOK
  <1> QED BY <1>1, <1>2, <1>3

(* The directory page when a load is answered: only a save that ends with  *)
(* it closes anything.                                                     *)
LEMMA LoadedRefsTyped ==
    ASSUME ConsoleInv, NEW c \in Calls, NEW l \in calls[c].loads, LoadAnswered(c, l),
           lists' \in CachedLists
    PROVE  /\ dir' \in DirectoryRefs /\ FormsOK'
           /\ dir.resetPasswordTarget = Null => dir'.resetPasswordTarget = Null
           /\ ~IsSave(calls[c]) => SameEditor(dir', dir)
  <1>1. dir \in DirectoryRefs /\ FormsOK BY InvariantByCall DEF ConsoleTypeOK
  <1>2. PICK refs :
            /\ refs = IF IsLastLoad(c, l) /\ calls[c].step = "loads"
                      THEN DirectoryCompleted(calls[c].fn, dir) ELSE dir
            /\ dir' \in IF l = "ous" THEN Watched(refs, Rows(lists'.ous)) ELSE {refs}
    BY DEF LoadAnswered
  <1>3. /\ refs \in DirectoryRefs
        /\ refs.editingOuId # Null => refs.ouForm.id = refs.editingOuId
        /\ refs.editingUserId # Null => refs.userForm.id = refs.editingUserId
        /\ refs.editingGroupId # Null => refs.groupForm.id = refs.editingGroupId
        /\ dir.resetPasswordTarget = Null => refs.resetPasswordTarget = Null
        /\ ~IsSave(calls[c]) => refs = dir
    <2>1. CASE refs = dir BY <1>1, <2>1 DEF FormsOK
    <2>2. CASE calls[c].step = "loads" /\ refs = DirectoryCompleted(calls[c].fn, dir)
      <3>1. calls[c].fn \notin SaveFns => ~IsSave(calls[c]) BY DEF IsSave
      <3>2. ~IsSave(calls[c]) => calls[c].fn \notin SaveFns BY <2>2 DEF IsSave
      <3> QED BY <1>1, <2>2, <3>2, CompletedIsTyped
    <2> QED BY <1>2, <2>1, <2>2
  <1>4. SameEditor(dir', refs)
    <2>1. CASE dir' = refs BY <1>3, <2>1 DEF SameEditor
    <2>2. CASE dir' \in Watched(refs, Rows(lists'.ous))
      <3>1. Rows(lists'.ous) \in SUBSET OrganizationalUnits BY DEF Rows, CachedLists
      <3> QED BY <1>1, <1>3, <2>2, <3>1, WatchedMoves
    <2> QED BY <1>2, <2>1, <2>2
  <1> QED BY <1>3, <1>4 DEF SameEditor, FormsOK

(* A load is answered; the last one ends its function.                     *)
LEMMA LoadAnsweredStep ==
    ASSUME ConsoleInv, NEW c \in Calls, NEW l \in calls[c].loads, LoadAnswered(c, l)
    PROVE  ConsoleInv'
  <1>1. /\ calls[c].step \in {"loads", "failed"} /\ calls \in [Calls -> CallRecords]
        /\ calls[c] \in CallRecords /\ ConsoleTypeOK /\ saving \in BOOLEAN
        /\ calls[c].since \in 1 .. Version /\ l \in ListNames
    BY LoadsAreKnown
  <1>2. PICK v \in calls[c].since .. Version :
            lists' = [lists EXCEPT ![l] = history[v][l]] /\ UNCHANGED authenticated
    BY DEF LoadAnswered, LoadedList
  <1>3. Version \in Nat /\ \A i \in 1 .. Version : history[i] \in Tables
    BY <1>1, CoreIsTyped
  <1>4. v \in 1 .. Version BY <1>1, <1>3
  <1>5. authenticated' \in BOOLEAN /\ lists' \in CachedLists
    BY <1>1, <1>2, <1>3, <1>4, LoadedListsTyped DEF ConsoleTypeOK
  <1>6. /\ dir' \in DirectoryRefs /\ FormsOK'
        /\ dir.resetPasswordTarget = Null => dir'.resetPasswordTarget = Null
        /\ ~IsSave(calls[c]) => SameEditor(dir', dir)
    BY <1>5, LoadedRefsTyped
  <1>7. /\ UNCHANGED <<history, page, dialog, cli, dom>> /\ DropLoad(c, l)
        /\ saving' = (saving /\ ~(/\ IsLastLoad(c, l) /\ calls[c].step = "loads"
                                  /\ calls[c].fn \in SaveFns))
    BY DEF LoadAnswered
  <1>8. IsSave(calls[c]) <=> calls[c].step = "loads" /\ calls[c].fn \in SaveFns
    BY <1>1 DEF IsSave
  <1>9. CASE calls[c].loads = {l}
    <2>1. calls' = [calls EXCEPT ![c] = Idle]
      BY <1>7, <1>9 DEF DropLoad, IsLastLoad, EndCall
    <2>2. calls'[c] = Idle BY <1>1, <2>1
    <2>3. CallOK(calls[c])' /\ ~IsSave(Idle) BY <2>2, IdleIsOK
    <2>4. Idle \in CallRecords BY <1>1, CoreIsTyped, RecordsAreTyped
    <2>5. saving' = (saving /\ (IsSave(calls[c]) => IsSave(Idle)))
      BY <1>1, <1>7, <1>8, <1>9, <2>3 DEF IsLastLoad
    <2> QED BY <1>5, <1>6, <1>7, <2>1, <2>3, <2>4, <2>5, SettleStep
  <1>10. CASE calls[c].loads # {l}
    <2>1. PICK step \in {"loads", "failed"} : step = calls[c].step BY <1>1
    <2>2. PICK new : new = [calls[c] EXCEPT !.loads = calls[c].loads \ {l}, !.step = step]
      OBVIOUS
    <2>3. new = [calls[c] EXCEPT !.loads = calls[c].loads \ {l}]
      BY <1>1, <2>1, <2>2 DEF CallRecords
    <2>4. calls' = [calls EXCEPT ![c] = new]
      BY <1>1, <1>7, <1>10, <2>3 DEF DropLoad, IsLastLoad
    <2>5. calls'[c] = new BY <1>1, <2>4
    <2>6. /\ new \in CallRecords /\ CallOK(calls[c])'
          /\ IsSave(new) <=> calls[c].fn \in SaveFns /\ step # "failed"
      BY <1>7, <1>10, <2>2, <2>5, LoadsLeftIsOK
    <2>7. /\ saving' = (saving /\ (IsSave(calls[c]) => IsSave(new)))
          /\ IsSave(new) => IsSave(calls[c])
      BY <1>1, <1>7, <1>8, <1>10, <2>1, <2>6 DEF IsLastLoad
    <2> QED BY <1>5, <1>6, <1>7, <2>4, <2>6, <2>7, SettleStep
  <1> QED BY <1>9, <1>10

-----------------------------------------------------------------------------
(* Every step keeps the invariant.                                         *)

(* What the browser gives a function: an answer, or an error.              *)
LEMMA AnswerStep ==
    ASSUME ConsoleInv, NEW c \in Calls, Answer(c)
    PROVE  ConsoleInv'
  <1>1. CASE SessionAnswered(c) /\ UNCHANGED <<pageVars, dir, cli, dom>>
    BY <1>1, SessionAnsweredStep
  <1>2. CASE LogoutAnswered(c) /\ dir' \in Watched(dir, {}) /\ UNCHANGED <<pageVars, cli, dom>>
    BY <1>2, LogoutAnsweredStep
  <1>3. CASE DirectoryAnswers(c) /\ UNCHANGED <<cli, dom>>
    BY <1>3, EmployeeIdAnsweredStep, OuSavedStep, OuRemovedStep, UserSavedStep,
       UserRemovedStep, PasswordResetStep, GroupSavedStep, MembersSavedStep
       DEF DirectoryAnswers
  <1>4. CASE ClientsAnswers(c) /\ UNCHANGED <<dir, dom>>
    BY <1>4, ClientCreatedStep, ClientChangedStep, SecretRegeneratedStep DEF ClientsAnswers
  <1>5. CASE DomainSaved(c) /\ UNCHANGED <<dir, cli>> BY <1>5, DomainSavedStep
  <1>6. CASE \E unauthorized \in BOOLEAN : RequestFails(c, unauthorized)
    BY <1>6, RequestFailsStep
  <1>7. CASE \E unauthorized \in BOOLEAN, l \in calls[c].loads : LoadFails(c, l, unauthorized)
    BY <1>7, LoadFailsStep
  <1>8. CASE \E l \in calls[c].loads : LoadAnswered(c, l) BY <1>8, LoadAnsweredStep
  <1> QED BY <1>1, <1>2, <1>3, <1>4, <1>5, <1>6, <1>7, <1>8 DEF Answer

(* What the administrator does.                                            *)
LEMMA AdministratorStep ==
    ASSUME ConsoleInv, Administrator
    PROVE  ConsoleInv'
  <1>1. CASE \E p \in Pages : Navigate(p) BY <1>1, NavigateStep
  <1>2. CASE (AuthenticateToken \/ Logout) /\ UNCHANGED <<pageVars, dir, cli, dom>>
    BY <1>2, SessionSteps
  <1>3. CASE RefreshButton BY <1>3, RefreshStep
  <1>4. CASE (Confirm \/ Dismiss) /\ UNCHANGED <<dir, cli, dom>>
    BY <1>4, ConfirmStep, AskSteps
  <1>5. CASE DirectoryNext /\ UNCHANGED <<cli, dom>>
    <2>1. CASE \/ \E o \in OrganizationalUnits : AskRemoveOu(o)
               \/ \E u \in Users : AskRemoveUser(u)
      <3>1. UNCHANGED dir BY <2>1 DEF AskRemoveOu, AskRemoveUser
      <3> QED BY <1>5, <2>1, <3>1, AskSteps
    <2>2. CASE CloseResetPassword \/ \E u \in Users : OpenResetPassword(u)
      BY <1>5, <2>2, ResetPasswordDialogStep
    <2>3. CASE \E u \in Users : OpenUserEditor(u) BY <1>5, <2>3, OpenUserEditorStep
    <2>4. CASE \E g \in Groups : OpenGroupEditor(g) BY <1>5, <2>4, OpenGroupEditorStep
    <2>5. CASE SelectOu \/ OpenOuEditor \/ OpenNewGroup \/ CloseEditor
      BY <1>5, <2>5, SelectOuStep, OpenOuEditorStep, OpenNewGroupStep, CloseEditorStep
    <2>6. CASE RequestEmployeeId BY <1>5, <2>6, SessionSteps
    <2>7. CASE SaveOu \/ SaveUser \/ SaveGroup \/ ResetUserPassword
      BY <1>5, <2>7, SaveOuStep, SaveUserStep, SaveGroupStep, ResetUserPasswordStep
    <2> QED BY <1>5, <2>1, <2>2, <2>3, <2>4, <2>5, <2>6, <2>7 DEF DirectoryNext
  <1>6. CASE ClientsNext /\ UNCHANGED <<dir, dom>>
    <2>1. CASE CloseClientDrawer \/ \E k \in Clients \cup {Null} : OpenClientEditor(k)
      BY <1>6, <2>1, ClientDrawerStep
    <2>2. CASE AskRegenerateSecret \/ \E k \in Clients : AskRemoveClient(k)
      <3>1. UNCHANGED cli BY <2>2 DEF AskRegenerateSecret, AskRemoveClient
      <3> QED BY <1>6, <2>2, <3>1, AskSteps
    <2>3. CASE \E k \in Clients : ToggleClient(k) BY <1>6, <2>3, ToggleClientStep
    <2>4. CASE SaveClient BY <1>6, <2>4, SaveClientStep
    <2> QED BY <1>6, <2>1, <2>2, <2>3, <2>4 DEF ClientsNext
  <1>7. CASE DomainsNext /\ UNCHANGED <<dir, cli>>
    BY <1>7, DomainDrawerStep, SaveDomainStep DEF DomainsNext
  <1> QED BY <1>1, <1>2, <1>3, <1>4, <1>5, <1>6, <1>7 DEF Administrator

(* A step that changes nothing.                                            *)
LEMMA StutterStep ==
    ASSUME ConsoleInv, UNCHANGED vars
    PROVE  ConsoleInv'
  <1>1. /\ ConsoleTypeOK /\ DialogIsAlone /\ FormsOK /\ ShownSecretIsCurrent
    BY InvariantByCall
  <1>2. VersionsKept /\ Core' = Core /\ Version' = Version
    BY <1>1, SameVersions DEF vars, apiVars
  <1>3. StateTyped' BY <1>1, <1>2 DEF StateTyped, ConsoleTypeOK, vars, apiVars, pageVars
  <1>4. RefsKept BY <1>2 DEF RefsKept, vars
  <1>5. DialogIsAlone' BY <1>1 DEF DialogIsAlone, vars, pageVars
  <1>6. FormsOK' BY <1>1 DEF FormsOK, vars
  <1>7. ShownSecretIsCurrent' BY <1>1, <1>2 DEF ShownSecretIsCurrent, vars
  <1> QED BY <1>2, <1>3, <1>4, <1>5, <1>6, <1>7, PageStep DEF vars, apiVars, pageVars

(* Every step of the console, of Core and of the other administrator.      *)
LEMMA NextStep ==
    ASSUME ConsoleInv, [Next]_vars
    PROVE  ConsoleInv'
  BY AdministratorStep, OtherAdministratorStep, CoreHandlesStep, AnswerStep, StutterStep
     DEF Next

(* A page is opened: only its shell waits, and nothing is open on it.      *)
LEMMA InitStep ==
    ASSUME Init
    PROVE  ConsoleInv
  <1>1. PICK tables \in Tables : history = <<tables>>
    BY InitialTablesAssumption DEF Init
  <1>2. Version = 1 /\ history \in Seq(Tables) /\ Version \in 1 .. MaxVersion
    BY <1>1, MaxVersionAssumption DEF Version
  <1>3. PICK sent : sent = Sent("restoreSession", Null) OBVIOUS
  <1>4. /\ sent.fn = "restoreSession" /\ sent.step = "sent" /\ sent.loads = {} /\ sent.since = 1
        /\ sent \in CallRecords /\ Idle \in CallRecords
    <2>1. Null \in Args BY DEF Args
    <2> QED BY <1>2, <1>3, <2>1, RecordsAreTyped DEF Sent, SessionFns
  <1>5. calls \in [Calls -> {sent, Idle}] BY <1>3 DEF Init
  <1>6. calls \in [Calls -> CallRecords] BY <1>4, <1>5
  <1>7. ASSUME NEW c \in Calls PROVE CallOK(calls[c]) /\ ~InSave(c)
    <2>1. CASE calls[c] = sent
      <3>1. sent.fn \notin SaveFns /\ sent.fn \notin ClientFns BY <1>4 DEF SaveFns, ClientFns
      <3>2. IsCall(sent) BY <1>2, <1>4 DEF IsCall
      <3> QED BY <1>4, <2>1, <3>1, <3>2 DEF CallOK, Requesting, ArgsMatch, InSave, SaveFns
    <2>2. CASE calls[c] = Idle
      BY <2>2 DEF CallOK, IsCall, Idle, Requesting, ClientFns, InSave, SaveFns
    <2> QED BY <1>5, <2>1, <2>2
  <1>8. dir \in DirectoryRefs /\ cli \in ClientRefs /\ dom \in DomainRefs /\ lists \in CachedLists
    BY EmptyListsTyped DEF Init, FreshDirectory, DirectoryRefs, BlankOuForm, BlankUserForm,
       BlankGroupForm, FreshClients, ClientRefs, BlankEditorForm, ClientRows, FreshDomains,
       DomainRefs
  <1>9. ConsoleTypeOK BY <1>2, <1>6, <1>7, <1>8 DEF ConsoleTypeOK, CallOK, Init
  <1>10. SavingIsOneSave BY <1>7 DEF SavingIsOneSave, Init
  <1>11. DialogIsAlone BY DEF DialogIsAlone, Init
  <1>12. FormsOK BY DEF FormsOK, Init, FreshDirectory
  <1>13. ShownSecretIsCurrent BY DEF ShownSecretIsCurrent, Init, FreshClients, FreshDomains
  <1>14. \A c \in Calls : CallOK(calls[c]) BY <1>7
  <1> QED BY <1>9, <1>10, <1>11, <1>12, <1>13, <1>14
          DEF ConsoleInv, FormsOK, FormMatchesTarget, CallOK, RequestsMatch, ReadGroupsExist,
              GroupRefsKept, MembersGoToTheirGroup, SecretHasADrawer, ClientSaveHidesSecret,
              MadeIsCurrent, Requesting

(* The invariant of the console.                                           *)
THEOREM ConsoleInvariantHolds == Spec => []ConsoleInv
  <1>1. Init => ConsoleInv BY InitStep
  <1>2. ConsoleInv /\ [Next]_vars => ConsoleInv' BY NextStep
  <1> QED BY <1>1, <1>2, PTL DEF Spec

(* `saving' is set exactly while one function of a page saves, and never   *)
(* two, however many requests run and whatever is clicked (busy, saving).  *)
THEOREM OneSaveAtATime == Spec => []SavingIsOneSave
  BY ConsoleInvariantHolds, PTL DEF ConsoleInv

(* What is written to a row was typed into a form filled from this row,    *)
(* whatever answers came in between (openUserEditor, saveOu, saveUser,     *)
(* saveGroup).                                                             *)
THEOREM FormsGoToTheirRows == Spec => []FormMatchesTarget
  BY ConsoleInvariantHolds, PTL DEF ConsoleInv

(* The members that saveGroup sends after its first answer go to the group *)
(* of the form, or to none.                                                *)
THEOREM MembersReachTheirGroup == Spec => []MembersGoToTheirGroup
  BY ConsoleInvariantHolds, PTL DEF ConsoleInv

(* A secret or a Syncer key that a drawer shows is the one Core has        *)
(* (SecretRegenerated, ClientCreated, DomainSaved).                        *)
THEOREM ShownSecretsAreCurrent == Spec => []ShownSecretIsCurrent
  BY ConsoleInvariantHolds, PTL DEF ConsoleInv

(* The drawer that will show a secret or a key stays open while it is on   *)
(* its way, for a regenerated secret on its client (regenerateSecret,      *)
(* saveClient, saveDomain).                                                *)
THEOREM SecretsArriveInADrawer == Spec => []SecretHasADrawer
  BY ConsoleInvariantHolds, PTL DEF ConsoleInv

=============================================================================
