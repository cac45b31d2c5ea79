--------------------------- MODULE SyncInvariant ---------------------------
(***************************************************************************)
(* The inductive invariant behind the safety of SyncProtocol, in named     *)
(* parts.  The idea: a revision that is confirmed, or for which a confirm  *)
(* request is under way, covers only rows that Active Directory already    *)
(* holds; a row that changed since the batch was read has a fresh          *)
(* revision, beyond every revision that may still be confirmed.            *)
(***************************************************************************)
EXTENDS SyncProtocol

(* Every revision recorded anywhere was allocated.                         *)
RevisionsAllocated ==
    /\ StoreRevisionsAllocated
    /\ batchRevision <= directoryRevision
    /\ credentialBatchRevision <= credentialRevision

ReadingAllocated ==
    /\ \A r \in revisions : r <= directoryRevision
    /\ pc \in PcReadDirectory => serverRevision <= directoryRevision
    /\ pc = "collectCredentials" => serverRevision <= credentialRevision

(* An accepted confirmation that is still to be saved is in Core.          *)
AcceptedIsApplied ==
    reply = "accepted" =>
        \/ pc = "confirmDirectory" /\ batchRevision <= appliedDirectory
        \/ pc = "confirmCredential" /\ credentialBatchRevision <= appliedCredential

(* A batch holds nothing before its reads, and nothing past its revision.  *)
BatchBounded ==
    /\ \A k \in Objects : batch[k] <= batchRevision
    /\ \A u \in Users : batchDeleted[u] <= batchRevision
    /\ \A u \in Users : credentialBatch[u] <= credentialBatchRevision

BatchNotRead ==
    /\ pc \in {"idle", "directoryProgress", "collectOus", "collectUsers",
               "collectGroups", "collectDeleted"} => batch = NoRows /\ batchDeleted = NoUserRows
    /\ pc \in {"idle", "directoryProgress", "credentialProgress", "collectCredentials"}
                 \cup PcReadDirectory => credentialBatch = NoUserRows

(* Completeness, table by table, from the read of the table on.            *)
UsersRead == {"readGroups", "readOus", "readDeleted"} \cup PcReadCredentials \cup PcExecute
GroupsRead == {"readOus", "readDeleted"} \cup PcReadCredentials \cup PcExecute
OusRead == {"readDeleted"} \cup PcReadCredentials \cup PcExecute

TableComplete(pcs, table) ==
    pc \in pcs => \A k \in table : InBatch(changed[k]) => batch[k] = changed[k]

TablesComplete ==
    /\ TableComplete(UsersRead, Users)
    /\ TableComplete(GroupsRead, Groups)
    /\ TableComplete(OusRead, OrganizationalUnits)
    /\ DirectoryRead => \A u \in Users : InBatch(deleted[u]) => batchDeleted[u] = deleted[u]

(* A revision that no confirmation, past or under way, can cover.          *)
Fresh(r) ==
    /\ r > batchRevision /\ r > appliedDirectory
    /\ \A m \in confirms : m.channel = "Directory" => r > m.revision

FreshCredential(r) ==
    /\ r > credentialBatchRevision /\ r > appliedCredential
    /\ \A m \in confirms : m.channel = "Credential" => r > m.revision

StaleIsFresh ==
    /\ \A k \in Objects :
         (batch[k] # 0 /\ changed[k] # 0 /\ changed[k] # batch[k]) => Fresh(changed[k])
    /\ \A u \in Users : (batch[u] # 0 /\ Deleted(u)) => Fresh(deleted[u])
    /\ \A u \in Users :
         (batchDeleted[u] # 0 /\ changed[u] # 0 /\ ~Tombstoned(u)) => Fresh(changed[u])

StaleCredentialIsFresh ==
    \A u \in Users :
        (credentialBatch[u] # 0 /\ credential[u] # 0 /\ credential[u] # credentialBatch[u])
            => FreshCredential(credential[u])

(* Rows up to r stand in Active Directory.                                 *)
Covered(r) ==
    /\ \A k \in Objects :
         (changed[k] # 0 /\ changed[k] <= r) =>
             /\ adObject[k] = changed[k]
             /\ k \in Linked /\ ~Tombstoned(k) => adLinks[k] = changed[k]
    /\ \A u \in Users : (Deleted(u) /\ deleted[u] <= r) => adLinks[u] = 0

CredentialsCovered(r) ==
    \A u \in Users : (credential[u] # 0 /\ credential[u] <= r) => adPassword[u] = credential[u]

ConfirmationsCovered ==
    /\ Covered(appliedDirectory)
    /\ \A m \in confirms : m.channel = "Directory" => Covered(m.revision)

CredentialConfirmationsCovered ==
    /\ CredentialsCovered(appliedCredential)
    /\ \A m \in confirms : m.channel = "Credential" => CredentialsCovered(m.revision)

(* While a plan is executed, what is no longer to do is done.              *)
Todo(kind, k) == [kind |-> kind, subject |-> k] \in todo

PlanProgress ==
    pc = "directory" =>
        /\ \A k \in Objects : batch[k] # 0 =>
              \/ adObject[k] = batch[k]
              \/ Todo("EnsureOu", k) \/ Todo("EnsureUser", k) \/ Todo("EnsureGroup", k)
        /\ \A k \in Linked : batch[k] # 0 =>
              \/ adLinks[k] = batch[k]
              \/ Todo("EnsureUserPlacement", k) \/ Todo("MoveUserToQuarantine", k)
              \/ Todo("EnsureGroupMembers", k)
        /\ \A u \in Users : (batchDeleted[u] # 0 /\ batch[u] = 0) =>
              adLinks[u] = 0 \/ Todo("RetireUser", u)

CredentialProgressMade ==
    pc = "credentials" =>
        \A u \in Users : credentialBatch[u] # 0 =>
            adPassword[u] = credentialBatch[u] \/ SetPassword(u) \in todo

(* The plan's operations have what they need in the batch.                 *)
PlanFromBatch ==
    /\ pc = "directory" =>
         \A op \in todo :
            IF op.kind = "RetireUser" THEN batchDeleted[op.subject] # 0 /\ batch[op.subject] = 0
            ELSE op.kind # "SetPassword" /\ batch[op.subject] # 0
    /\ pc \in {"credentials", "readStatuses"} =>
         \A op \in todo : op.kind = "SetPassword" /\ credentialBatch[op.subject] # 0

(* Active Directory never holds a version newer than Core's or the batch's.*)
MirrorNotAhead ==
    /\ \A k \in Objects :
         /\ adObject[k] <= directoryRevision
         /\ changed[k] # 0 => adObject[k] <= changed[k]
         /\ batch[k] # 0 => adObject[k] <= batch[k]
    /\ \A u \in Users :
         /\ adPassword[u] <= credentialRevision
         /\ credential[u] # 0 => adPassword[u] <= credential[u]
         /\ credentialBatch[u] # 0 => adPassword[u] <= credentialBatch[u]

DirectoryInv ==
    /\ BatchNotRead /\ TablesComplete /\ StaleIsFresh /\ ConfirmationsCovered
    /\ PlanProgress /\ PlanFromBatch

CredentialInv ==
    /\ CredentialBatchComplete /\ StaleCredentialIsFresh
    /\ CredentialConfirmationsCovered /\ CredentialProgressMade

(* The inductive invariant.                                                *)
IInv ==
    /\ TypeOK
    /\ ProgressBounded /\ RevisionsAllocated /\ ReadingAllocated /\ BatchBounded
    /\ AcceptedIsApplied /\ TombstoneIsOlder
    /\ DirectoryInv /\ CredentialInv
    /\ MirrorNotAhead

-----------------------------------------------------------------------------
(***************************************************************************)
(* userAccountControl, which both channels write: the directory channel    *)
(* from the status in the batch, the credential channel from a status read *)
(* after it.                                                               *)
(***************************************************************************)

(* The status in a batch is the row's, as long as the row is in the batch. *)
BatchStatusIsRow ==
    \A u \in Users : (batch[u] # 0 /\ changed[u] = batch[u]) => batchStatus[u] = status[u]

(* A row that a confirmation may cover.                                    *)
Coverable(u) == changed[u] # 0 /\ ~Fresh(changed[u])

(* The status that came with a credential is still that of such a row.     *)
CredentialStatusIsCurrent ==
    pc \in {"readStatuses"} \cup PcExecute =>
        \A u \in Users :
            (/\ credentialBatch[u] # 0 /\ Coverable(u)
             /\ ~(pc = "readStatuses" /\ SetPassword(u) \in todo))
                => credentialStatus[u] = status[u]

(* With rows up to r in Active Directory, the disabled users are disabled; *)
(* with passwords up to s too, the active ones are enabled.                *)
DisabledCovered(r) ==
    \A u \in Users :
        (changed[u] # 0 /\ changed[u] <= r /\ status[u] = "Disabled") => u \notin adEnabled

EnabledCovered(r, s) ==
    \A u \in Users :
        (/\ changed[u] # 0 /\ changed[u] <= r /\ status[u] = "Active" /\ ~Tombstoned(u)
         /\ credential[u] # 0 /\ credential[u] <= s) => u \in adEnabled

(* The revisions of a channel that are confirmed or may be.                *)
Confirmable(channel) ==
    {IF channel = "Directory" THEN appliedDirectory ELSE appliedCredential}
      \cup {m.revision : m \in {c \in confirms : c.channel = channel}}

AccountsCovered ==
    /\ \A r \in Confirmable("Directory") : DisabledCovered(r)
    /\ \A r \in Confirmable("Directory"), s \in Confirmable("Credential") : EnabledCovered(r, s)

(* While the batches are executed, the accounts no longer to do are right. *)
PlanSetsAccounts ==
    pc = "directory" =>
        /\ \A u \in Users : (batch[u] # 0 /\ batchStatus[u] = "Disabled") =>
              u \notin adEnabled \/ Todo("DisableUser", u)
        /\ \A u \in Users : (batch[u] # 0 /\ batchStatus[u] = "Active" /\ adPassword[u] # 0) =>
              u \in adEnabled \/ Todo("EnsureUser", u)
        /\ \A u \in Users : Todo("DisableUser", u) => batchStatus[u] = "Disabled"

CredentialsEnable ==
    pc = "credentials" =>
        \A u \in Users :
            (credentialBatch[u] # 0 /\ Coverable(u) /\ status[u] = "Active" /\ ~Tombstoned(u)) =>
                u \in adEnabled \/ SetPassword(u) \in todo

(* set_password requires the account, and no account is ever removed.      *)
PasswordHasAccount == \A u \in Users : adPassword[u] # 0 => adObject[u] # 0

(* Inductive together with IInv.                                           *)
AccountInv ==
    /\ BatchStatusIsRow /\ CredentialStatusIsCurrent /\ AccountsCovered
    /\ PlanSetsAccounts /\ CredentialsEnable /\ PasswordHasAccount

SyncInv == IInv /\ AccountInv

=============================================================================
