-------------------------- MODULE ConsoleInvariant --------------------------
(***************************************************************************)
(* The inductive invariant behind the safety of AdminConsole, in named     *)
(* parts.  The idea: one function of the page saves at a time, because a   *)
(* confirmation that could start one is open only while none does; and as  *)
(* long as a function saves, what it reads again after its answer (the     *)
(* refs of the editor, the drawer that shows a secret, the row that Core   *)
(* wrote) is what it was when its request was sent.                        *)
(***************************************************************************)
EXTENDS AdminConsole

Requesting(call) == call.step \in {"sent", "read", "applied", "refused"}

(* What a function sends is what Core's handler for it takes.              *)
ArgsMatch(call) ==
    /\ call.fn = "saveOu" => call.arg \in OuArgs
    /\ call.fn = "saveUser" => call.arg \in UserArgs
    /\ call.fn = "saveGroup" => call.arg \in GroupArgs
    /\ call.fn = "saveMembers" => call.arg \in MembersArgs
    /\ call.fn = "removeOu" => call.arg \in [target : OrganizationalUnits]
    /\ call.fn \in {"removeUser", "resetUserPassword"} => call.arg \in [target : Users]
    /\ call.fn \in {"removeClient", "regenerateSecret"} => call.arg \in [target : Clients]
    /\ call.fn = "saveClient" /\ call.step # "applied" => call.arg \in ClientArgs
    /\ call.fn = "saveClient" /\ call.step = "applied" => call.arg.target \in Clients
    /\ call.fn = "toggleClient" => call.arg \in ToggleArgs
    /\ call.fn = "saveDomain" => call.arg \in DomainArgs

RequestsMatch == \A c \in Calls : Requesting(calls[c]) => ArgsMatch(calls[c])

(* A handler that has read a group writes it back from a row that was      *)
(* there.                                                                  *)
ReadGroupsExist ==
    \A c \in Calls : calls[c].step = "read" =>
        /\ calls[c].fn \in {"saveGroup", "saveMembers"} /\ calls[c].arg.target # Null
        /\ history[calls[c].since].groups[calls[c].arg.target] # Null

(* The confirmation covers the page from which it was asked, while nothing *)
(* saves and nothing else on the page could begin to.                      *)
DialogIsAlone ==
    dialog # Null =>
        /\ ~saving
        /\ \/ /\ dialog \in [fn : {"removeOu"}, target : OrganizationalUnits]
              /\ page = "directory" /\ dir.resetPasswordTarget = Null
           \/ /\ dialog \in [fn : {"removeUser"}, target : Users]
              /\ page = "directory" /\ dir.resetPasswordTarget = Null
           \/ /\ dialog \in [fn : {"removeClient"}, target : Clients]
              /\ page = "clients" /\ ~cli.drawerOpen
           \/ /\ dialog \in [fn : {"regenerateSecret"}, target : Clients]
              /\ page = "clients" /\ cli.drawerOpen /\ cli.drawerView = "editor"
              /\ cli.selectedClientId = dialog.target

(* While saveGroup waits for its first answer an editor stays open, and    *)
(* the refs from which it will take the group are this group's or none's.  *)
GroupRefsKept ==
    \A c \in Calls : calls[c].fn = "saveGroup" /\ Requesting(calls[c]) =>
        /\ dir.editor # Null /\ dir.editingGroupId \in {calls[c].arg.target, Null}
        /\ calls[c].arg.target = Null => dir.groupForm.id = calls[c].arg.id

ClientFns == {"saveClient", "toggleClient", "removeClient", "regenerateSecret"}

(* A function of the clients page ends with its answer, and no secret is   *)
(* shown until then.                                                       *)
ClientSaveHidesSecret ==
    \A c \in Calls : calls[c].fn \in ClientFns =>
        /\ calls[c].step \in {"sent", "applied", "refused"}
        /\ cli.drawerOpen => cli.drawerView = "editor"

(* A secret or a key that Core has made is still Core's when its answer    *)
(* comes.                                                                  *)
MadeIsCurrent ==
    \A c \in Calls : calls[c].step = "applied" =>
        /\ calls[c].fn \in {"saveClient", "regenerateSecret"} =>
               history[calls[c].since].secret[calls[c].arg.target]
                   = Core.secret[calls[c].arg.target]
        /\ calls[c].fn = "saveDomain" =>
               history[calls[c].since].key[calls[c].arg.target] = Core.key[calls[c].arg.target]

(* The inductive invariant.                                                *)
ConsoleInv ==
    /\ ConsoleTypeOK /\ RequestsMatch /\ ReadGroupsExist
    /\ SavingIsOneSave /\ DialogIsAlone
    /\ FormMatchesTarget /\ GroupRefsKept /\ MembersGoToTheirGroup
    /\ SecretHasADrawer /\ ClientSaveHidesSecret /\ MadeIsCurrent /\ ShownSecretIsCurrent
=============================================================================
