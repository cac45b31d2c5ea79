---------------------------- MODULE SyncProtocol ----------------------------
(***************************************************************************)
(* The synchronisation protocol between Core and the Syncer of one domain. *)
(*                                                                         *)
(* Core keeps the directory (organizational units, users, groups and the   *)
(* tombstones of deleted users) and the user credentials in PostgreSQL.    *)
(* Every row carries the global revision of its last change.  The Syncer   *)
(* polls Core: it loads its local state file, asks for everything changed  *)
(* after its applied revisions, executes the directory batch and then the  *)
(* credential batch against Active Directory, confirms each batch to Core  *)
(* and saves its state file once the confirmation is accepted.             *)
(*                                                                         *)
(* Core answers a sync request with separate reads that share no           *)
(* transaction, so administrators' writes fall between any two of them.    *)
(* Requests and answers can be lost or arrive late, LDAP operations can    *)
(* fail with or without having taken effect, the Syncer can crash, and its *)
(* state file can be lost or damaged.                                      *)
(***************************************************************************)
EXTENDS CoreStore, FiniteSets

CONSTANTS
    Adoptable,              \* users whose username names an unmanaged AD account
    BatchLimit,             \* AppState.batch_limit: revisions per batch
    MaxFaults               \* bound on failures, losses and crashes

ASSUME SyncAssumption ==
    /\ Adoptable \subseteq Users
    /\ BatchLimit \in Nat \ {0}
    /\ MaxFaults \in Nat

VARIABLES
    (* Core: the domain's row in domains *)
    appliedDirectory, appliedCredential,
    (* Syncer: the state file, and what one run_once holds in memory *)
    stateFile, pc, local, mode,
    (* the answer under construction, then the batches being executed *)
    serverRevision, revisions,
    batchRevision, batch, batchStatus, batchDeleted,
    credentialBatchRevision, credentialBatch, credentialStatus,
    todo,
    (* confirm requests on their way to Core, and the answer to the last one *)
    confirms, reply,
    (* Active Directory, as the LDAP operations leave it *)
    adObject, adLinks, adEnabled, adPassword,
    faults

domainVars == <<appliedDirectory, appliedCredential>>
batchVars == <<batchRevision, batch, batchStatus, batchDeleted>>
credentialBatchVars == <<credentialBatchRevision, credentialBatch, credentialStatus>>
readVars == <<serverRevision, revisions, batchVars, credentialBatchVars>>
adVars == <<adObject, adLinks, adEnabled, adPassword>>
netVars == <<confirms, reply>>
cycleVars == <<stateFile, pc, local, mode, readVars, todo>>
vars == <<storeVars, domainVars, cycleVars, netVars, adVars, faults>>

Channels == {"Directory", "Credential"}

(* stateFile.kind: the file is absent, cannot be parsed, or holds a state. *)
FileKinds == {"absent", "damaged", "saved"}

Linked == Users \cup Groups   \* objects with a placement or a member list

Operation ==
    [kind : {"EnsureOu"}, subject : OrganizationalUnits]
      \cup [kind : {"EnsureUser", "EnsureUserPlacement", "DisableUser",
                    "MoveUserToQuarantine", "RetireUser", "SetPassword"},
            subject : Users]
      \cup [kind : {"EnsureGroup", "EnsureGroupMembers"}, subject : Groups]

PcReadDirectory ==
    {"collectOus", "collectUsers", "collectGroups", "collectDeleted",
     "readUsers", "readGroups", "readOus", "readDeleted"}
PcReadCredentials ==
    {"credentialProgress", "collectCredentials", "readCredentials", "readStatuses"}
PcExecute ==
    {"planDirectory", "directory", "confirmDirectory",
     "planCredentials", "credentials", "confirmCredential"}
Pcs == {"idle", "directoryProgress"} \cup PcReadDirectory \cup PcReadCredentials \cup PcExecute

NoProgress == [directory |-> 0, credential |-> 0]

TypeOK ==
    /\ StoreTypeOK
    /\ appliedDirectory \in Nat /\ appliedCredential \in Nat
    /\ stateFile \in [kind : FileKinds, directory : Nat, credential : Nat]
    /\ pc \in Pcs
    /\ local \in [directory : Nat, credential : Nat] /\ mode \in {"resume", "rebuild"}
    /\ serverRevision \in Nat /\ revisions \in SUBSET Nat
    /\ batchRevision \in Nat /\ batch \in [Objects -> Nat]
    /\ batchStatus \in [Users -> Status] /\ batchDeleted \in [Users -> Nat]
    /\ credentialBatchRevision \in Nat /\ credentialBatch \in [Users -> Nat]
    /\ credentialStatus \in [Users -> Status]
    /\ todo \in SUBSET Operation
    /\ confirms \in SUBSET [channel : Channels, revision : Nat]
    /\ reply \in {"none", "accepted", "rejected"}
    /\ adObject \in [Objects -> Nat] /\ adLinks \in [Linked -> Nat]
    /\ adEnabled \in SUBSET Users /\ adPassword \in [Users -> Nat]
    /\ faults \in Nat

Init ==
    /\ StoreInit
    /\ appliedDirectory = 0 /\ appliedCredential = 0
    /\ stateFile = [kind |-> "absent", directory |-> 0, credential |-> 0]
    /\ pc = "idle" /\ local = NoProgress /\ mode = "resume"
    /\ serverRevision = 0 /\ revisions = {}
    /\ batchRevision = 0 /\ batch = NoRows
    /\ batchStatus = AllActive /\ batchDeleted = NoUserRows
    /\ credentialBatchRevision = 0 /\ credentialBatch = NoUserRows
    /\ credentialStatus = AllActive
    /\ todo = {}
    /\ confirms = {} /\ reply = "none"
    /\ adObject = NoRows /\ adLinks = [k \in Linked |-> 0]
    /\ adEnabled = {} /\ adPassword = NoUserRows
    /\ faults = 0

-----------------------------------------------------------------------------

(* A write of Core, between any two steps of the synchronisation.          *)
OnlyStore == UNCHANGED <<domainVars, cycleVars, netVars, adVars, faults>>

CoreWrite == StoreNext /\ OnlyStore

-----------------------------------------------------------------------------
(***************************************************************************)
(* The Syncer starts a run: load_for_sync, then the sync request.          *)
(***************************************************************************)
LoadState ==
    /\ pc = "idle"
    /\ local' = IF stateFile.kind = "saved"
                THEN [directory |-> stateFile.directory, credential |-> stateFile.credential]
                ELSE NoProgress
    /\ mode' = IF stateFile.kind = "damaged" THEN "rebuild" ELSE "resume"
    /\ pc' = "directoryProgress"
    /\ UNCHANGED <<storeVars, domainVars, stateFile, readVars, todo, netVars, adVars, faults>>

(* What run_once and the request handler held is dropped.                  *)
EndRun ==
    /\ pc' = "idle" /\ local' = NoProgress /\ mode' = "resume"
    /\ serverRevision' = 0 /\ revisions' = {}
    /\ batchRevision' = 0 /\ batch' = NoRows
    /\ batchStatus' = AllActive /\ batchDeleted' = NoUserRows
    /\ credentialBatchRevision' = 0 /\ credentialBatch' = NoUserRows
    /\ credentialStatus' = AllActive
    /\ todo' = {} /\ reply' = "none"

(***************************************************************************)
(* list_directory_changed_after.  The collect steps gather the changed     *)
(* revisions above the threshold, table by table; the last one fixes the   *)
(* batch revision; the read steps fetch the rows up to it.                 *)
(***************************************************************************)
DirectoryThreshold == IF mode = "rebuild" THEN 0 ELSE local.directory
CredentialThreshold == IF mode = "rebuild" THEN 0 ELSE local.credential

(* The limit-th smallest of the sorted, deduplicated revisions, the last   *)
(* one when there are fewer, the server revision when there is none.       *)
IsBatchRevision(b, found, server) ==
    IF found = {}
    THEN b = server
    ELSE /\ b \in found
         /\ Cardinality({r \in found : r <= b}) =
              IF Cardinality(found) < BatchLimit THEN Cardinality(found) ELSE BatchLimit

UnchangedByReads == UNCHANGED <<storeVars, domainVars, stateFile, local, mode, todo,
                                netVars, adVars, faults>>

DirectoryProgress ==
    /\ pc = "directoryProgress"
    /\ local.directory <= appliedDirectory
    /\ mode = "rebuild" \/ local.directory <= directoryRevision
    /\ serverRevision' = directoryRevision
    /\ pc' = "collectOus"
    /\ UNCHANGED <<revisions, batchVars, credentialBatchVars>>
    /\ UnchangedByReads

Collect(here, column, next) ==
    /\ pc = here
    /\ revisions' = revisions \cup {r \in column : r > DirectoryThreshold}
    /\ pc' = next
    /\ UNCHANGED <<serverRevision, batchVars, credentialBatchVars>>
    /\ UnchangedByReads

CollectOuRevisions ==
    Collect("collectOus", {changed[o] : o \in OrganizationalUnits}, "collectUsers")
CollectUserRevisions ==
    Collect("collectUsers", {changed[u] : u \in Users}, "collectGroups")
CollectGroupRevisions ==
    Collect("collectGroups", {changed[g] : g \in Groups}, "collectDeleted")

CollectDeletedRevisions ==
    /\ pc = "collectDeleted"
    /\ LET found == revisions \cup {r \in {deleted[u] : u \in Users} : r > DirectoryThreshold}
       IN  \E b \in found \cup {serverRevision} :
             /\ IsBatchRevision(b, found, serverRevision)
             /\ batchRevision' = b
    /\ revisions' = {} /\ serverRevision' = 0
    /\ pc' = "readUsers"
    /\ UNCHANGED <<batch, batchStatus, batchDeleted, credentialBatchVars>>
    /\ UnchangedByReads

InBatch(revision) == DirectoryThreshold < revision /\ revision <= batchRevision

(* Mutant: the rows at the batch revision itself are not read.             *)
ReadRows_ExcludesLast(here, table, next) ==
    /\ pc = here
    /\ batch' = [k \in Objects |-> IF k \in table /\ InBatch(changed[k]) /\ changed[k] < batchRevision
                                   THEN changed[k] ELSE batch[k]]
    /\ pc' = next
    /\ UNCHANGED <<serverRevision, revisions, batchRevision, batchDeleted, credentialBatchVars>>
    /\ UnchangedByReads

ReadRows(here, table, next) ==
    /\ pc = here
    /\ batch' = [k \in Objects |-> IF k \in table /\ InBatch(changed[k])
                                   THEN changed[k] ELSE batch[k]]
    /\ pc' = next
    /\ UNCHANGED <<serverRevision, revisions, batchRevision, batchDeleted, credentialBatchVars>>
    /\ UnchangedByReads

ReadUsers ==
    /\ ReadRows("readUsers", Users, "readGroups")
    /\ batchStatus' = [u \in Users |-> IF InBatch(changed[u]) THEN status[u] ELSE batchStatus[u]]
ReadGroups == ReadRows("readGroups", Groups, "readOus") /\ UNCHANGED batchStatus
ReadOus == ReadRows("readOus", OrganizationalUnits, "readDeleted") /\ UNCHANGED batchStatus

ReadDeleted ==
    /\ pc = "readDeleted"
    /\ batchDeleted' = [u \in Users |-> IF InBatch(deleted[u]) THEN deleted[u] ELSE 0]
    /\ pc' = "credentialProgress"
    /\ UNCHANGED <<serverRevision, revisions, batchRevision, batch, batchStatus, credentialBatchVars>>
    /\ UnchangedByReads

(***************************************************************************)
(* list_credentials_changed_after_for_domain: the same scheme over one     *)
(* table, then one read of users for each credential of the batch.         *)
(***************************************************************************)
CredentialProgress ==
    /\ pc = "credentialProgress"
    /\ local.credential <= appliedCredential
    /\ mode = "rebuild" \/ local.credential <= credentialRevision
    /\ serverRevision' = credentialRevision
    /\ pc' = "collectCredentials"
    /\ UNCHANGED <<revisions, batchVars, credentialBatchVars>>
    /\ UnchangedByReads

CollectCredentialRevisions ==
    /\ pc = "collectCredentials"
    /\ LET found == {r \in {credential[u] : u \in Users} : r > CredentialThreshold}
       IN  \E b \in found \cup {serverRevision} :
             /\ IsBatchRevision(b, found, serverRevision)
             /\ credentialBatchRevision' = b
    /\ serverRevision' = 0
    /\ pc' = "readCredentials"
    /\ UNCHANGED <<revisions, batchVars, credentialBatch, credentialStatus>>
    /\ UnchangedByReads

(* The users whose status is still to be read, in the order of the batch,  *)
(* are the SetPassword operations in todo.                                 *)
SetPassword(u) == [kind |-> "SetPassword", subject |-> u]

(* Mutant: the credentials at the batch revision itself are not read.      *)
ReadCredentials_ExcludesLast ==
    /\ pc = "readCredentials"
    /\ credentialBatch' = [u \in Users |->
         IF CredentialThreshold < credential[u] /\ credential[u] < credentialBatchRevision
         THEN credential[u] ELSE 0]
    /\ todo' = {SetPassword(u) : u \in {v \in Users : credentialBatch'[v] # 0}}
    /\ pc' = "readStatuses"
    /\ UNCHANGED <<storeVars, domainVars, stateFile, local, mode, serverRevision, revisions,
                   batchVars, credentialBatchRevision, credentialStatus, netVars, adVars, faults>>

ReadCredentials ==
    /\ pc = "readCredentials"
    /\ credentialBatch' = [u \in Users |->
         IF CredentialThreshold < credential[u] /\ credential[u] <= credentialBatchRevision
         THEN credential[u] ELSE 0]
    /\ todo' = {SetPassword(u) : u \in {v \in Users : credentialBatch'[v] # 0}}
    /\ pc' = "readStatuses"
    /\ UNCHANGED <<storeVars, domainVars, stateFile, local, mode, serverRevision, revisions,
                   batchVars, credentialBatchRevision, credentialStatus, netVars, adVars, faults>>

IsNextCredential(u) ==
    /\ SetPassword(u) \in todo
    /\ \A v \in Users : SetPassword(v) \in todo => credentialBatch[u] <= credentialBatch[v]

(* Mutant: the status is not looked up.                                    *)
ReadStatus_AlwaysActive(u) ==
    /\ pc = "readStatuses"
    /\ IsNextCredential(u)
    /\ credentialStatus' = [credentialStatus EXCEPT ![u] = "Active"]
    /\ todo' = todo \ {SetPassword(u)}
    /\ UNCHANGED <<storeVars, domainVars, stateFile, pc, local, mode, serverRevision, revisions,
                   batchVars, credentialBatchRevision, credentialBatch, netVars, adVars, faults>>

ReadStatus(u) ==
    /\ pc = "readStatuses"
    /\ IsNextCredential(u)
    /\ credentialStatus' = [credentialStatus EXCEPT
                              ![u] = IF changed[u] # 0 THEN status[u] ELSE "Active"]
    /\ todo' = todo \ {SetPassword(u)}
    /\ UNCHANGED <<storeVars, domainVars, stateFile, pc, local, mode, serverRevision, revisions,
                   batchVars, credentialBatchRevision, credentialBatch, netVars, adVars, faults>>

(* The handler answers and the Syncer receives both batches.               *)
ReceiveBatches ==
    /\ pc = "readStatuses" /\ todo = {}
    /\ pc' = "planDirectory"
    /\ UNCHANGED <<storeVars, domainVars, stateFile, local, mode, readVars, todo,
                   netVars, adVars, faults>>

CoreRead ==
    \/ DirectoryProgress
    \/ CollectOuRevisions \/ CollectUserRevisions
    \/ CollectGroupRevisions \/ CollectDeletedRevisions
    \/ ReadUsers \/ ReadGroups \/ ReadOus \/ ReadDeleted
    \/ CredentialProgress \/ CollectCredentialRevisions \/ ReadCredentials
    \/ \E u \in Users : ReadStatus(u)
    \/ ReceiveBatches

-----------------------------------------------------------------------------
(***************************************************************************)
(* The Syncer executes the batches: execute_directory_batch with           *)
(* DirectoryPlan::try_from_batch, then execute_credential_batch.           *)
(***************************************************************************)
Fault == faults < MaxFaults /\ faults' = faults + 1

Rank == [EnsureOu |-> 1, EnsureUser |-> 2, EnsureUserPlacement |-> 3, EnsureGroup |-> 4,
         EnsureGroupMembers |-> 5, DisableUser |-> 6, MoveUserToQuarantine |-> 6,
         RetireUser |-> 7]

Ensure(kind, table) == {[kind |-> kind, subject |-> k] : k \in {j \in table : batch[j] # 0}}

UsersWith(s) == {u \in Users : batchStatus[u] = s}

(* Mutant: deletions are left out of the plan.                             *)
DirectoryPlan_IgnoresDeletions ==
    UNION {Ensure("EnsureOu", OrganizationalUnits),
           Ensure("EnsureUser", Users),
           Ensure("EnsureUserPlacement", UsersWith("Active")),
           Ensure("EnsureGroup", Groups),
           Ensure("EnsureGroupMembers", Groups),
           Ensure("DisableUser", UsersWith("Disabled")),
           Ensure("MoveUserToQuarantine", UsersWith("Disabled"))}

DirectoryPlan ==
    UNION {Ensure("EnsureOu", OrganizationalUnits),
           Ensure("EnsureUser", Users),
           Ensure("EnsureUserPlacement", UsersWith("Active")),
           Ensure("EnsureGroup", Groups),
           Ensure("EnsureGroupMembers", Groups),
           Ensure("DisableUser", UsersWith("Disabled")),
           Ensure("MoveUserToQuarantine", UsersWith("Disabled")),
           {[kind |-> "RetireUser", subject |-> u] :
              u \in {v \in Users : batchDeleted[v] # 0 /\ batch[v] = 0}}}

(* Mutant: a batch without users is taken for empty.                       *)
BatchIsEmpty_UsersOnly == \A u \in Users : batch[u] = 0

(* A batch without organizational units, users and groups is taken for     *)
(* empty, whatever deletions it holds: it is neither executed nor          *)
(* confirmed.                                                              *)
BatchIsEmpty == \A k \in Objects : batch[k] = 0

OnlyPlan == UNCHANGED <<storeVars, domainVars, stateFile, local, mode, readVars,
                        netVars, adVars, faults>>

SkipDirectory ==
    /\ pc = "planDirectory" /\ BatchIsEmpty
    /\ pc' = "planCredentials"
    /\ UNCHANGED todo
    /\ OnlyPlan

PlanDirectory ==
    /\ pc = "planDirectory" /\ ~BatchIsEmpty
    /\ todo' = DirectoryPlan
    /\ pc' = "directory"
    /\ OnlyPlan

(* The plan's order: by rank, and a disabled user is disabled before it is *)
(* moved.  The order within a kind does not matter here.                   *)
IsNextOperation(op) ==
    /\ op \in todo
    /\ \A other \in todo :
         /\ Rank[op.kind] <= Rank[other.kind]
         /\ ~(/\ op.kind = "MoveUserToQuarantine"
              /\ other = [kind |-> "DisableUser", subject |-> op.subject])

(* userAccountControl 512, enabled, or 514, disabled.                      *)
SetAccountControl(u, enabled) ==
    adEnabled' = IF enabled THEN adEnabled \cup {u} ELSE adEnabled \ {u}

(* What a successful operation does to Active Directory.  A new account is *)
(* added disabled; an existing or adopted one gets the status's            *)
(* userAccountControl.                                                     *)
Effect(op) ==
    \/ /\ op.kind \in {"EnsureOu", "EnsureGroup"}
       /\ adObject' = [adObject EXCEPT ![op.subject] = batch[op.subject]]
       /\ UNCHANGED <<adLinks, adEnabled, adPassword>>
    \/ /\ op.kind = "EnsureUser"
       /\ adObject' = [adObject EXCEPT ![op.subject] = batch[op.subject]]
       /\ SetAccountControl(op.subject,
            /\ adObject[op.subject] # 0 \/ op.subject \in Adoptable
            /\ batchStatus[op.subject] = "Active")
       /\ UNCHANGED <<adLinks, adPassword>>
    \/ /\ op.kind \in {"EnsureUserPlacement", "EnsureGroupMembers", "MoveUserToQuarantine"}
       /\ adLinks' = [adLinks EXCEPT ![op.subject] = batch[op.subject]]
       /\ UNCHANGED <<adObject, adEnabled, adPassword>>
    \/ /\ op.kind = "DisableUser"
       /\ SetAccountControl(op.subject, FALSE)
       /\ UNCHANGED <<adObject, adLinks, adPassword>>
    \/ /\ op.kind = "RetireUser"
       /\ SetAccountControl(op.subject, FALSE)
       /\ adLinks' = [adLinks EXCEPT ![op.subject] = 0]
       /\ UNCHANGED <<adObject, adPassword>>

(* An operation of two LDAP requests can stop after the first.  A group    *)
(* that was moved and not modified still counts as the old version.        *)
PartialEffect(op) ==
    /\ op.kind = "RetireUser"
    /\ SetAccountControl(op.subject, FALSE)
    /\ UNCHANGED <<adObject, adLinks, adPassword>>

OnlyExecution == UNCHANGED <<storeVars, domainVars, stateFile, local, mode, readVars, netVars>>

(* Mutant: retiring a user deletes the account.                            *)
ApplyOperation_RetireDeletes(op) ==
    /\ pc = "directory" /\ IsNextOperation(op)
    /\ IF op.kind = "RetireUser"
       THEN /\ SetAccountControl(op.subject, FALSE)
            /\ adObject' = [adObject EXCEPT ![op.subject] = 0]
            /\ adLinks' = [adLinks EXCEPT ![op.subject] = 0]
            /\ UNCHANGED adPassword
       ELSE Effect(op)
    /\ todo' = todo \ {op}
    /\ UNCHANGED <<pc, faults>>
    /\ OnlyExecution

ApplyOperation(op) ==
    /\ pc = "directory" /\ IsNextOperation(op)
    /\ Effect(op)
    /\ todo' = todo \ {op}
    /\ UNCHANGED <<pc, faults>>
    /\ OnlyExecution

(* Mutant: the plan goes on after a failed operation.                      *)
OperationFails_GoesOn(op) ==
    /\ pc = "directory" /\ IsNextOperation(op)
    /\ Effect(op) \/ PartialEffect(op) \/ UNCHANGED adVars
    /\ todo' = todo \ {op}
    /\ UNCHANGED pc
    /\ Fault
    /\ OnlyExecution

(* An error or a timeout: the operation may have taken effect, the rest of *)
(* the plan is skipped.  The failed confirmation changes nothing in Core.  *)
OperationFails(op) ==
    /\ pc = "directory" /\ IsNextOperation(op)
    /\ Effect(op) \/ PartialEffect(op) \/ UNCHANGED adVars
    /\ todo' = {}
    /\ pc' = "planCredentials"
    /\ Fault
    /\ OnlyExecution

(* The plan or its context is rejected, the LDAP session cannot be opened, *)
(* or closing it fails after the last operation.                           *)
DirectorySessionFails ==
    /\ \/ pc = "planDirectory" /\ ~BatchIsEmpty
       \/ pc = "directory" /\ todo = {}
    /\ pc' = "planCredentials"
    /\ UNCHANGED <<todo, adVars>>
    /\ Fault
    /\ OnlyExecution

FinishDirectory ==
    /\ pc = "directory" /\ todo = {}
    /\ LET toConfirm == batchRevision > local.directory
           request == [channel |-> "Directory", revision |-> batchRevision]
       IN  /\ confirms' = IF toConfirm THEN confirms \cup {request} ELSE confirms
           /\ pc' = IF toConfirm THEN "confirmDirectory" ELSE "planCredentials"
    /\ UNCHANGED <<storeVars, domainVars, stateFile, local, mode, readVars, todo,
                   reply, adVars, faults>>

PlanCredentials ==
    /\ pc = "planCredentials"
    /\ todo' = {SetPassword(u) : u \in {v \in Users : credentialBatch[v] # 0}}
    /\ pc' = "credentials"
    /\ OnlyPlan

(* Mutant: only the password is set.                                       *)
ApplyPassword_PasswordOnly(u) ==
    /\ pc = "credentials" /\ IsNextCredential(u)
    /\ adObject[u] # 0
    /\ adPassword' = [adPassword EXCEPT ![u] = credentialBatch[u]]
    /\ todo' = todo \ {SetPassword(u)}
    /\ UNCHANGED <<pc, adObject, adLinks, adEnabled, faults>>
    /\ OnlyExecution

(* set_password requires the account, writes unicodePwd and then the       *)
(* userAccountControl of the status that came with the credential.         *)
ApplyPassword(u) ==
    /\ pc = "credentials" /\ IsNextCredential(u)
    /\ adObject[u] # 0
    /\ adPassword' = [adPassword EXCEPT ![u] = credentialBatch[u]]
    /\ SetAccountControl(u, credentialStatus[u] = "Active")
    /\ todo' = todo \ {SetPassword(u)}
    /\ UNCHANGED <<pc, adObject, adLinks, faults>>
    /\ OnlyExecution

(* set_password finds no account: the rest of the batch is skipped.        *)
AccountMissing(u) ==
    /\ pc = "credentials" /\ IsNextCredential(u)
    /\ adObject[u] = 0
    /\ EndRun
    /\ UNCHANGED <<storeVars, domainVars, stateFile, confirms, adVars, faults>>

(* Mutant: the batch goes on after a password that was not set.            *)
PasswordFails_GoesOn(u) ==
    /\ pc = "credentials" /\ IsNextCredential(u)
    /\ adObject[u] # 0
    /\ todo' = todo \ {SetPassword(u)}
    /\ Fault
    /\ UNCHANGED <<pc, adVars>>
    /\ OnlyExecution

(* The password was written, and the userAccountControl perhaps.  A        *)
(* failure without any effect, or of the session, is an Abandon.           *)
PasswordFails(u) ==
    /\ pc = "credentials" /\ IsNextCredential(u)
    /\ adObject[u] # 0
    /\ adPassword' = [adPassword EXCEPT ![u] = credentialBatch[u]]
    /\ \/ SetAccountControl(u, credentialStatus[u] = "Active")
       \/ UNCHANGED adEnabled
    /\ EndRun
    /\ Fault
    /\ UNCHANGED <<storeVars, domainVars, stateFile, confirms, adObject, adLinks>>

CredentialsToConfirm ==
    /\ \E u \in Users : credentialBatch[u] # 0
    /\ credentialBatchRevision > local.credential

FinishCredentials ==
    /\ pc = "credentials" /\ todo = {}
    /\ CredentialsToConfirm
    /\ confirms' = confirms \cup {[channel |-> "Credential", revision |-> credentialBatchRevision]}
    /\ pc' = "confirmCredential"
    /\ UNCHANGED <<storeVars, domainVars, stateFile, local, mode, readVars, todo,
                   reply, adVars, faults>>

NothingToConfirm ==
    /\ pc = "credentials" /\ todo = {}
    /\ ~CredentialsToConfirm
    /\ EndRun
    /\ UNCHANGED <<storeVars, domainVars, stateFile, confirms, adVars, faults>>

-----------------------------------------------------------------------------
(***************************************************************************)
(* Confirmation.  Core's UPDATE advances the domain's applied revision     *)
(* only forwards and never past the server revision.                       *)
(***************************************************************************)
Awaited(m) ==
    \/ pc = "confirmDirectory" /\ m = [channel |-> "Directory", revision |-> batchRevision]
    \/ pc = "confirmCredential" /\ m = [channel |-> "Credential", revision |-> credentialBatchRevision]

(* Mutant: a confirmation may take the applied revision back.              *)
CanConfirm_Backwards(m) ==
    \/ m.channel = "Directory" /\ m.revision <= directoryRevision
    \/ m.channel = "Credential" /\ m.revision <= credentialRevision

CanConfirm(m) ==
    \/ m.channel = "Directory" /\ appliedDirectory <= m.revision /\ m.revision <= directoryRevision
    \/ m.channel = "Credential" /\ appliedCredential <= m.revision /\ m.revision <= credentialRevision

CoreConfirm(m) ==
    /\ m \in confirms
    /\ confirms' = confirms \ {m}
    /\ appliedDirectory' = IF m.channel = "Directory" /\ CanConfirm(m)
                           THEN m.revision ELSE appliedDirectory
    /\ appliedCredential' = IF m.channel = "Credential" /\ CanConfirm(m)
                            THEN m.revision ELSE appliedCredential
    /\ reply' = IF ~Awaited(m) THEN reply ELSE IF CanConfirm(m) THEN "accepted" ELSE "rejected"
    /\ UNCHANGED <<storeVars, cycleVars, adVars, faults>>

(* confirm_channel after its request: run_once goes on with the in-memory  *)
(* state l, to the credentials or to its end.                              *)
Continue(l) ==
    /\ \/ /\ pc = "confirmDirectory"
          /\ pc' = "planCredentials" /\ local' = l /\ reply' = "none"
          /\ UNCHANGED <<mode, readVars, todo>>
       \/ /\ pc = "confirmCredential"
          /\ EndRun
    /\ UNCHANGED <<storeVars, domainVars, adVars>>

Advanced ==
    IF pc = "confirmDirectory" THEN [local EXCEPT !.directory = batchRevision]
                               ELSE [local EXCEPT !.credential = credentialBatchRevision]

(* The whole state, both channels, is saved by an atomic file replacement. *)
ConfirmAccepted ==
    /\ reply = "accepted"
    /\ stateFile' = [kind |-> "saved", directory |-> Advanced.directory,
                     credential |-> Advanced.credential]
    /\ Continue(Advanced)
    /\ UNCHANGED <<confirms, faults>>

SaveFails ==
    /\ reply = "accepted"
    /\ UNCHANGED <<stateFile, confirms>>
    /\ Continue(Advanced)
    /\ Fault

ConfirmRejected ==
    /\ reply = "rejected"
    /\ UNCHANGED <<stateFile, confirms, faults>>
    /\ Continue(local)

(* Mutant: no answer is taken for an accepted confirmation.                *)
ConfirmTimesOut_AsAccepted ==
    /\ confirms' \in {confirms, {m \in confirms : ~Awaited(m)}}
    /\ UNCHANGED stateFile
    /\ Continue(Advanced)
    /\ Fault

(* The Syncer gives up on the answer.  Its request is lost, or may still   *)
(* reach Core, or has been answered.                                       *)
ConfirmTimesOut ==
    /\ confirms' \in {confirms, {m \in confirms : ~Awaited(m)}}
    /\ UNCHANGED stateFile
    /\ Continue(local)
    /\ Fault

-----------------------------------------------------------------------------
(* The Syncer crashes, or its sync request fails or times out: run_once    *)
(* ends and the service loop starts the next one.                          *)
Abandon ==
    /\ pc # "idle"
    /\ EndRun
    /\ Fault
    /\ UNCHANGED <<storeVars, domainVars, stateFile, confirms, adVars>>

(* The state file disappears or can no longer be parsed.                   *)
LoseStateFile(kind) ==
    /\ stateFile.kind = "saved"
    /\ stateFile' = [kind |-> kind, directory |-> 0, credential |-> 0]
    /\ Fault
    /\ UNCHANGED <<storeVars, domainVars, pc, local, mode, readVars, todo, netVars, adVars>>

Execute ==
    \/ SkipDirectory \/ PlanDirectory
    \/ \E op \in todo : ApplyOperation(op)
    \/ FinishDirectory
    \/ PlanCredentials
    \/ \E u \in Users : ApplyPassword(u)
    \/ \E u \in Users : AccountMissing(u)
    \/ FinishCredentials \/ NothingToConfirm
    \/ ConfirmAccepted \/ ConfirmRejected

Faulty ==
    \/ \E op \in todo : OperationFails(op)
    \/ DirectorySessionFails
    \/ \E u \in Users : PasswordFails(u)
    \/ SaveFails \/ ConfirmTimesOut \/ Abandon
    \/ \E kind \in {"absent", "damaged"} : LoseStateFile(kind)

SyncerStep == LoadState \/ CoreRead \/ Execute

Next ==
    \/ CoreWrite
    \/ SyncerStep
    \/ \E m \in confirms : CoreConfirm(m)
    \/ Faulty

Spec == Init /\ [][Next]_vars

(* The service loop runs run_once again and again, Core answers requests,  *)
(* and requests under way arrive.  Writes and faults need not happen.      *)
FairSpec ==
    /\ Spec
    /\ WF_vars(SyncerStep)
    /\ WF_vars(\E m \in confirms : CoreConfirm(m))

-----------------------------------------------------------------------------
(* Safety *)

(* No progress is ahead of the truth: what the Syncer's memory, its state  *)
(* file and every confirm request under way claim was confirmed or may be  *)
(* confirmed, and the domain's row never passes the global revision.       *)
ProgressBounded ==
    /\ appliedDirectory <= directoryRevision /\ appliedCredential <= credentialRevision
    /\ stateFile.directory <= appliedDirectory /\ stateFile.credential <= appliedCredential
    /\ local.directory <= appliedDirectory /\ local.credential <= appliedCredential
    /\ \A m \in confirms : m.revision <= (IF m.channel = "Directory" THEN directoryRevision
                                                                     ELSE credentialRevision)

DirectoryRead == pc \in PcReadCredentials \cup PcExecute

(* The reads of one answer share no transaction, yet the batch misses      *)
(* nothing: a row or tombstone that is still at a revision between the     *)
(* request's progress and batch_revision is in the batch, at that revision.*)
BatchComplete ==
    DirectoryRead =>
        /\ \A k \in Objects : InBatch(changed[k]) => batch[k] = changed[k]
        /\ \A u \in Users : InBatch(deleted[u]) => batchDeleted[u] = deleted[u]

(* The same for the credentials of the answer.                             *)
CredentialBatchComplete ==
    pc \in {"readStatuses"} \cup PcExecute =>
        \A u \in Users :
            (CredentialThreshold < credential[u] /\ credential[u] <= credentialBatchRevision)
              => credentialBatch[u] = credential[u]

(* Confirmed means applied: every row at or below the domain's applied     *)
(* directory revision stands in Active Directory in exactly that version,  *)
(* attributes and placement or members alike.  Only the placement of a     *)
(* user with a tombstone left beside its row is not certain: a rebuild may *)
(* retire it again.                                                        *)
ConfirmedIsApplied ==
    \A k \in Objects :
        (changed[k] # 0 /\ changed[k] <= appliedDirectory) =>
            /\ adObject[k] = changed[k]
            /\ k \in Linked /\ ~Tombstoned(k) => adLinks[k] = changed[k]

(* A confirmed deletion left the account out of its organizational unit.   *)
ConfirmedDeletionIsQuarantined ==
    \A u \in Users : (Deleted(u) /\ deleted[u] <= appliedDirectory) => adLinks[u] = 0

(* A confirmed password is the account's password.                         *)
ConfirmedPasswordIsSet ==
    \A u \in Users :
        (credential[u] # 0 /\ credential[u] <= appliedCredential) => adPassword[u] = credential[u]

(* The state file and the Syncer's memory are true: what they say has been *)
(* synchronised is in Active Directory, in Core's current version, whether *)
(* a save failed, a run was abandoned or a file of an older run was left.  *)
Applied(progress) ==
    /\ \A k \in Objects :
         (changed[k] # 0 /\ changed[k] <= progress.directory) => adObject[k] = changed[k]
    /\ \A u \in Users :
         (credential[u] # 0 /\ credential[u] <= progress.credential)
             => adPassword[u] = credential[u]

SavedIsApplied == Applied(stateFile) /\ Applied(local)

(* Both channels write userAccountControl, the credential channel from a   *)
(* status read later than the directory batch.  A user whose disabling is  *)
(* confirmed is disabled in Active Directory all the same.                 *)
ConfirmedDisabledIsDisabled ==
    \A u \in Users :
        (changed[u] # 0 /\ changed[u] <= appliedDirectory /\ status[u] = "Disabled")
            => u \notin adEnabled

(* A user who is active, with directory row and password confirmed, can    *)
(* log on: new accounts are added disabled, and the credential channel     *)
(* enables them.                                                           *)
ConfirmedActiveIsEnabled ==
    \A u \in Users :
        (/\ changed[u] # 0 /\ changed[u] <= appliedDirectory /\ status[u] = "Active"
         /\ ~Tombstoned(u)
         /\ credential[u] # 0 /\ credential[u] <= appliedCredential)
            => u \in adEnabled

(* Active Directory never goes back to an older version of an object or a  *)
(* password, whatever was retried, abandoned or rebuilt.                   *)
DirectoryNeverRegresses ==
    [][/\ \A k \in Objects : adObject'[k] >= adObject[k]
       /\ \A u \in Users : adPassword'[u] >= adPassword[u]]_vars

(* Each channel keeps the promise of ChannelPromise, with the domain's     *)
(* applied revision as its watermark.                                      *)
DirectoryChannel == INSTANCE ChannelPromise WITH
    Items <- Objects, revision <- directoryRevision, source <- changed,
    mirror <- adObject, watermark <- appliedDirectory

CredentialChannel == INSTANCE ChannelPromise WITH
    Items <- Users, revision <- credentialRevision, source <- credential,
    mirror <- adPassword, watermark <- appliedCredential

(* The directory channel implements the promise: late, repeated and lost   *)
(* confirmations, retries and rebuilds never confirm an object that Active *)
(* Directory does not hold in its current version, nor take it back.       *)
DirectoryChannelKeepsPromise == DirectoryChannel!Spec

(* The credential channel implements it too, for passwords.                *)
CredentialChannelKeepsPromise == CredentialChannel!Spec

-----------------------------------------------------------------------------
(* Liveness *)

NoTombstones == \A u \in Users : deleted[u] = 0

DirectoryCurrent ==
    \A k \in Objects :
        changed[k] # 0 => /\ adObject[k] = changed[k]
                          /\ k \in Linked => adLinks[k] = changed[k]

(* When writes and faults cease and no user is left deleted, every row of  *)
(* Core ends up in Active Directory.  Operations fail here by a fault only,*)
(* never for want of a parent or a member that a later batch would bring.  *)
DirectoryConverges == <>[]NoTombstones => <>[]DirectoryCurrent

(* When moreover every credential belongs to a user, so does every         *)
(* password.                                                               *)
PasswordsConverge ==
    (<>[]NoTombstones /\ <>[](\A u \in Users : credential[u] # 0 => changed[u] # 0))
        => <>[](\A u \in Users : credential[u] # 0 => adPassword[u] = credential[u])

(* What the documentation says of a deleted user: its account ends up      *)
(* disabled and in the quarantine.                                         *)
DeletedUsersAreRetired ==
    \A u \in Users :
        <>[]Deleted(u) => <>[](u \notin adEnabled /\ adLinks[u] = 0)

=============================================================================
