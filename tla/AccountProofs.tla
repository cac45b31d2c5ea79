--------------------------- MODULE AccountProofs ---------------------------
(***************************************************************************)
(* userAccountControl is right for what is confirmed.  Both channels write *)
(* it, the credential channel from a status that was read later than the   *)
(* directory batch; the argument is that a status can only differ from     *)
(* Core's when the user's row has a fresh revision, which no confirmation  *)
(* covers.                                                                 *)
(***************************************************************************)
EXTENDS SyncProofs

USE DEF storeVars, domainVars, batchVars, credentialBatchVars, readVars, adVars, netVars,
        cycleVars, StoreTypeOK, StoreRevisionsAllocated, Tombstoned, Deleted

-----------------------------------------------------------------------------
(* Freshness *)

(* What a confirmation covers is not fresh, and was allocated.             *)
LEMMA ConfirmableIsNotFresh ==
    ASSUME IInv, NEW r \in Confirmable("Directory")
    PROVE  /\ r \in Nat /\ r <= directoryRevision
           /\ \A v \in Nat : v <= r => ~Fresh(v)
  BY DEF IInv, TypeOK, Confirmable, Fresh, ProgressBounded

(* The revisions of the credential channel were allocated too.             *)
LEMMA ConfirmableCredential ==
    ASSUME IInv, NEW s \in Confirmable("Credential")
    PROVE  s \in Nat /\ s <= credentialRevision /\ CredentialsCovered(s)
  BY DEF IInv, TypeOK, Confirmable, ProgressBounded, CredentialInv, CredentialConfirmationsCovered,
         Channels

(* A row that is in the batch in another version is fresh, and so is one   *)
(* whose deletion is in the batch.                                         *)
LEMMA CoverableIsInBatch ==
    ASSUME IInv, BatchStatusIsRow, NEW u \in Users, Coverable(u)
    PROVE  /\ batch[u] # 0 => changed[u] = batch[u] /\ batchStatus[u] = status[u]
           /\ batchDeleted[u] # 0 => Tombstoned(u)
  BY DEF IInv, DirectoryInv, StaleIsFresh, Coverable, BatchStatusIsRow, Objects

-----------------------------------------------------------------------------
(* Steps that leave the accounts alone *)

(* Confirmations that arrive or are lost add no revision to the            *)
(* confirmable ones.                                                       *)
LEMMA CoveredKept ==
    ASSUME AccountsCovered, UNCHANGED <<storeVars, adEnabled>>, confirms' \subseteq confirms,
           appliedDirectory' \in Confirmable("Directory"),
           appliedCredential' \in Confirmable("Credential")
    PROVE  AccountsCovered'
  <1>1. /\ \A r \in Confirmable("Directory")' : r \in Confirmable("Directory")
        /\ \A s \in Confirmable("Credential")' : s \in Confirmable("Credential")
    BY DEF Confirmable
  <1>2. ASSUME NEW r, DisabledCovered(r) PROVE DisabledCovered(r)'
    BY <1>2 DEF DisabledCovered
  <1>3. ASSUME NEW r, NEW s, EnabledCovered(r, s) PROVE EnabledCovered(r, s)'
    BY <1>3 DEF EnabledCovered
  <1> QED BY <1>1, <1>2, <1>3 DEF AccountsCovered

(* The same, when the domain's row does not change.                        *)
LEMMA CoveredKeptByDomain ==
    ASSUME AccountsCovered, UNCHANGED <<storeVars, adEnabled, domainVars>>,
           confirms' \subseteq confirms
    PROVE  AccountsCovered'
  <1>1. /\ appliedDirectory' \in Confirmable("Directory")
        /\ appliedCredential' \in Confirmable("Credential")
    BY DEF Confirmable
  <1> QED BY <1>1, CoveredKept

(* A run that ends forgets its batches.                                    *)
LEMMA EndRunAccounts ==
    ASSUME EndRun, AccountsCovered', PasswordHasAccount' PROVE AccountInv'
  BY DEF EndRun, AccountInv, BatchStatusIsRow, NoRows, CredentialStatusIsCurrent, NoUserRows,
         PcExecute, PlanSetsAccounts, CredentialsEnable, Objects

(* What is fresh stays fresh while the batch revision stays, whatever of   *)
(* the batch is confirmed.                                                 *)
LEMMA CoverableKept ==
    ASSUME UNCHANGED <<changed, batchRevision>>, appliedDirectory' \in Confirmable("Directory"),
           \A m \in confirms' :
             m.channel = "Directory" => m \in confirms \/ m.revision = batchRevision
    PROVE  \A u \in Users : Coverable(u)' => Coverable(u)
  BY DEF Coverable, Fresh, Confirmable

-----------------------------------------------------------------------------
(* Writes of Core *)

(* A write that changes a user's status gives its row a new revision.      *)
LEMMA StatusWrite ==
    ASSUME StoreTypeOK, StoreNext
    PROVE  \A u \in Users : status'[u] = status[u] \/ changed'[u] = directoryRevision + 1
  <1> USE DEF AllocateDirectoryRevision, AllocateCredentialRevision, Objects
  <1>1. ASSUME NEW k \in OrganizationalUnits \cup Groups, UpsertRow(k) PROVE UNCHANGED status
    BY <1>1 DEF UpsertRow
  <1>2. ASSUME NEW v \in Users, NEW s \in Status, UpsertUser(v, s) \/ CreateUser(v, s)
        PROVE  \A u \in Users : status'[u] = status[u] \/ changed'[u] = directoryRevision + 1
    BY <1>2 DEF UpsertUser, CreateUser
  <1>3. ASSUME NEW u \in Users, UpdateUserContact(u) PROVE UNCHANGED status
    BY <1>3 DEF UpdateUserContact
  <1>4. ASSUME NEW o \in OrganizationalUnits, DeleteOu(o) PROVE UNCHANGED status
    BY <1>4 DEF DeleteOu
  <1>5. ASSUME NEW u \in Users, NEW G \in SUBSET Groups, DeleteUser(u, G) PROVE UNCHANGED status
    BY <1>5 DEF DeleteUser
  <1>6. ASSUME NEW u \in Users, ChangeUserPassword(u) PROVE UNCHANGED status
    BY <1>6 DEF ChangeUserPassword
  <1> QED BY <1>1, <1>2, <1>3, <1>4, <1>5, <1>6 DEF StoreNext

(* A write preserves the invariant: the rows it does not touch are as they *)
(* were, and those it does are beyond every batch and confirmation.        *)
LEMMA WriteAccounts ==
    ASSUME IInv, AccountInv, CoreWrite PROVE AccountInv'
  <1> USE DEF AccountInv, OnlyStore
  <1>1. WriteStep /\ OnlyStore
    BY WriteShape DEF IInv, TypeOK, RevisionsAllocated, StoreInv, CoreWrite
  <1>2. ASSUME NEW u \in Users, changed'[u] # 0, changed'[u] # directoryRevision + 1
        PROVE  /\ changed'[u] = changed[u] /\ status'[u] = status[u]
               /\ ~Tombstoned(u)' => ~Tombstoned(u)
    BY <1>1, <1>2, StatusWrite DEF CoreWrite, IInv, TypeOK, WriteStep, Rewritten, Objects
  <1>3. ASSUME NEW r, r = directoryRevision + 1 PROVE Fresh(r)'
    BY <1>1, <1>3 DEF IInv, TypeOK, Fresh, ProgressBounded, RevisionsAllocated
  <1>4. ASSUME NEW u \in Users, Coverable(u)'
        PROVE  /\ Coverable(u) /\ changed'[u] = changed[u] /\ status'[u] = status[u]
               /\ ~Tombstoned(u)' => ~Tombstoned(u)
    <2>1. changed'[u] # 0 /\ changed'[u] # directoryRevision + 1
      <3>1. changed'[u] # 0 /\ ~Fresh(changed[u])'
        BY <1>4 DEF Coverable
      <3> QED BY <1>3, <3>1
    <2>2. ASSUME NEW r PROVE Fresh(r) => Fresh(r)'
      BY <1>1 DEF Fresh
    <2> QED BY <1>2, <1>4, <2>1, <2>2 DEF Coverable
  <1>5. BatchStatusIsRow'
    <2>1. \A u \in Users : batch[u] # directoryRevision + 1
      BY DEF IInv, TypeOK, BatchBounded, RevisionsAllocated, Objects
    <2> QED BY <1>1, <1>2, <2>1 DEF BatchStatusIsRow
  <1>6. CredentialStatusIsCurrent' /\ CredentialsEnable'
    BY <1>1, <1>4 DEF CredentialStatusIsCurrent, CredentialsEnable
  <1>7. AccountsCovered'
    <2>1. /\ Confirmable("Directory")' = Confirmable("Directory")
          /\ Confirmable("Credential")' = Confirmable("Credential")
      BY <1>1 DEF Confirmable
    <2>2. ASSUME NEW r \in Confirmable("Directory"), NEW u \in Users,
                 changed'[u] # 0, changed'[u] <= r
          PROVE  changed'[u] # directoryRevision + 1
      BY <2>2, ConfirmableIsNotFresh DEF IInv, TypeOK
    <2>3. ASSUME NEW r \in Confirmable("Directory") PROVE DisabledCovered(r)'
      BY <1>1, <1>2, <2>2 DEF AccountsCovered, DisabledCovered
    <2>4. ASSUME NEW r \in Confirmable("Directory"), NEW s \in Confirmable("Credential")
          PROVE  EnabledCovered(r, s)'
      <3>1. ASSUME NEW u \in Users, credential'[u] # 0, credential'[u] <= s
            PROVE  credential'[u] = credential[u]
        BY <1>1, <3>1, ConfirmableCredential DEF IInv, TypeOK, WriteStep, Rewritten
      <3> QED BY <1>1, <1>2, <2>2, <3>1 DEF AccountsCovered, EnabledCovered
    <2> QED BY <2>1, <2>3, <2>4 DEF AccountsCovered
  <1>8. PlanSetsAccounts' /\ PasswordHasAccount'
    BY <1>1 DEF PlanSetsAccounts, Todo, PasswordHasAccount
  <1> QED BY <1>5, <1>6, <1>7, <1>8

-----------------------------------------------------------------------------
(* The sync request *)

(* The parts that the reads do not concern.                                *)
LEMMA ReadKeepsAccounts ==
    ASSUME AccountInv, ReadFrame
    PROVE  AccountsCovered' /\ PlanSetsAccounts' /\ CredentialsEnable' /\ PasswordHasAccount'
  <1> USE DEF AccountInv, ReadFrame
  <1>1. AccountsCovered'
    BY CoveredKeptByDomain
  <1>2. PlanSetsAccounts' /\ CredentialsEnable' /\ PasswordHasAccount'
    BY DEF PlanSetsAccounts, CredentialsEnable, PasswordHasAccount, PcReadDirectory,
           PcReadCredentials
  <1> QED BY <1>1, <1>2

(* Reading preserves the invariant: ReadUsers takes the status with the    *)
(* row, and a status read later is that of the row as it is then.          *)
LEMMA ReadAccounts ==
    ASSUME IInv, AccountInv, LoadState \/ CoreRead PROVE AccountInv'
  <1> USE DEF AccountInv
  <1>f. ReadFrame
    BY ReadShape DEF LoadState, ReadFrame
  <1>k. AccountsCovered' /\ PlanSetsAccounts' /\ CredentialsEnable' /\ PasswordHasAccount'
    BY <1>f, ReadKeepsAccounts
  <1>q. ASSUME UNCHANGED <<batch, batchStatus>>, pc' \notin {"readStatuses"} \cup PcExecute
        PROVE  BatchStatusIsRow' /\ CredentialStatusIsCurrent'
    BY <1>f, <1>q DEF ReadFrame, BatchStatusIsRow, CredentialStatusIsCurrent
  <1>1. CASE LoadState \/ DirectoryProgress \/ CredentialProgress \/ ReadDeleted
             \/ CollectCredentialRevisions \/ CollectDeletedRevisions
    <2>1. UNCHANGED <<batch, batchStatus>> /\ pc' \notin {"readStatuses"} \cup PcExecute
      BY <1>1 DEF LoadState, DirectoryProgress, CredentialProgress, ReadDeleted,
                  CollectCredentialRevisions, CollectDeletedRevisions, UnchangedByReads, PcExecute
    <2> QED BY <1>k, <1>q, <2>1
  <1>2. CASE CollectOuRevisions \/ CollectUserRevisions \/ CollectGroupRevisions
    <2>1. UNCHANGED <<batch, batchStatus>> /\ pc' \notin {"readStatuses"} \cup PcExecute
      BY <1>2 DEF CollectOuRevisions, CollectUserRevisions, CollectGroupRevisions, Collect,
                  PcExecute
    <2> QED BY <1>k, <1>q, <2>1
  <1>3. CASE ReadUsers
    <2> USE <1>3 DEF ReadUsers, ReadRows, UnchangedByReads
    <2>1. \A u \in Users : /\ batch'[u] = IF InBatch(changed[u]) THEN changed[u] ELSE batch[u]
                           /\ batchStatus'[u] = IF InBatch(changed[u]) THEN status[u]
                                                                       ELSE batchStatus[u]
      BY DEF Objects
    <2>2. BatchStatusIsRow'
      BY <2>1 DEF BatchStatusIsRow
    <2> QED BY <1>k, <2>2 DEF CredentialStatusIsCurrent, PcExecute
  <1>4. CASE ReadGroups \/ ReadOus
    <2>1. \A u \in Users : batch'[u] = batch[u]
      BY <1>4, ObjectsAssumption DEF ReadGroups, ReadOus, ReadRows, Objects, IInv, TypeOK
    <2>2. BatchStatusIsRow' /\ CredentialStatusIsCurrent'
      BY <1>4, <1>f, <2>1 DEF ReadGroups, ReadOus, ReadRows, BatchStatusIsRow, ReadFrame,
         CredentialStatusIsCurrent, PcExecute
    <2> QED BY <1>k, <2>2
  <1>5. CASE ReadCredentials
    <2> USE <1>5 DEF ReadCredentials
    <2>1. BatchStatusIsRow'
      BY DEF BatchStatusIsRow
    <2>2. CredentialStatusIsCurrent'
      BY DEF CredentialStatusIsCurrent
    <2> QED BY <1>k, <2>1, <2>2
  <1>6. ASSUME NEW u \in Users, ReadStatus(u) PROVE AccountInv'
    <2> USE <1>6 DEF ReadStatus
    <2>1. BatchStatusIsRow'
      BY DEF BatchStatusIsRow
    <2>2. \A v \in Users : Coverable(v)' => Coverable(v)
      BY CoverableKept DEF Confirmable
    <2>3. ASSUME NEW v \in Users, credentialBatch[v] # 0, Coverable(v), SetPassword(v) \notin todo'
          PROVE  credentialStatus'[v] = status[v]
      <3>1. CASE v = u
        BY <2>3, <3>1 DEF IInv, TypeOK, Coverable
      <3>2. CASE v # u
        <4>1. SetPassword(v) \notin todo /\ credentialStatus'[v] = credentialStatus[v]
          BY <2>3, <3>2 DEF SetPassword, IInv, TypeOK
        <4> QED BY <2>3, <4>1 DEF CredentialStatusIsCurrent
      <3> QED BY <3>1, <3>2
    <2>4. CredentialStatusIsCurrent'
      BY <2>2, <2>3 DEF CredentialStatusIsCurrent, SetPassword
    <2> QED BY <1>k, <2>1, <2>4
  <1>7. CASE ReceiveBatches
    <2> USE <1>7 DEF ReceiveBatches
    <2>1. \A v \in Users : Coverable(v)' => Coverable(v)
      BY CoverableKept DEF Confirmable
    <2>2. BatchStatusIsRow' /\ CredentialStatusIsCurrent'
      BY <2>1 DEF BatchStatusIsRow, CredentialStatusIsCurrent
    <2> QED BY <1>k, <2>2
  <1> QED BY <1>1, <1>2, <1>3, <1>4, <1>5, <1>6, <1>7 DEF CoreRead

-----------------------------------------------------------------------------
(* The execution of the batches *)

(* What an operation of the plan can do to an account: set it to the       *)
(* status in the batch, enabled only if it was there before, or disable    *)
(* the account of a deletion.                                              *)
SetFromBatch(u) ==
    /\ batch[u] # 0
    /\ u \in adEnabled' => batchStatus[u] = "Active"
    /\ (batchStatus[u] = "Active" /\ adPassword[u] # 0) => u \in adEnabled'

Retired(u) == batchDeleted[u] # 0 /\ batch[u] = 0 /\ u \notin adEnabled'

AccountEffect ==
    /\ \A u \in Users : (u \in adEnabled' <=> u \in adEnabled) \/ SetFromBatch(u) \/ Retired(u)
    /\ \A u \in Users : adPassword'[u] = adPassword[u] /\ (adObject[u] # 0 => adObject'[u] # 0)

(* The operations of a plan made from the batch have no other effect.      *)
LEMMA AccountEffectShape ==
    ASSUME IInv, AccountInv, pc = "directory", NEW op \in todo,
           Effect(op) \/ PartialEffect(op) \/ UNCHANGED adVars
    PROVE  AccountEffect
  <1> USE DEF IInv, TypeOK, AccountEffect, SetFromBatch, Retired
  <1>0. /\ op \in Operation
        /\ op.kind = "RetireUser" => batchDeleted[op.subject] # 0 /\ batch[op.subject] = 0
        /\ op.kind # "RetireUser" => batch[op.subject] # 0
    BY DEF DirectoryInv, PlanFromBatch
  <1>1. ASSUME Effect(op) \/ PartialEffect(op) \/ UNCHANGED adVars
        PROVE  \A u \in Users : /\ adPassword'[u] = adPassword[u]
                               /\ adObject[u] # 0 => adObject'[u] # 0
    BY <1>0, <1>1, EffectShape DEF DirectoryEffect, Objects
  <1>2. CASE op.kind = "EnsureUser" /\ Effect(op)
    <2>1. op.subject \in Users
      BY <1>0, <1>2 DEF Operation
    <2>2. adObject[op.subject] # 0 \/ adPassword[op.subject] = 0
      BY <2>1 DEF AccountInv, PasswordHasAccount
    <2> QED BY <1>0, <1>1, <1>2, <2>1, <2>2 DEF Effect, SetAccountControl, Status
  <1>3. CASE op.kind = "DisableUser" /\ Effect(op)
    <2>1. op.subject \in Users /\ op = [kind |-> "DisableUser", subject |-> op.subject]
      BY <1>0, <1>3 DEF Operation
    <2>2. batchStatus[op.subject] = "Disabled"
      BY <2>1 DEF AccountInv, PlanSetsAccounts, Todo
    <2> QED BY <1>0, <1>1, <1>3, <2>1, <2>2 DEF Effect, SetAccountControl
  <1>4. CASE op.kind = "RetireUser" /\ (Effect(op) \/ PartialEffect(op))
    <2>1. op.subject \in Users
      BY <1>0, <1>4 DEF Operation
    <2> QED BY <1>0, <1>1, <1>4, <2>1 DEF Effect, PartialEffect, SetAccountControl
  <1>5. CASE op.kind \notin {"EnsureUser", "DisableUser", "RetireUser"} /\ Effect(op)
    BY <1>1, <1>5 DEF Effect
  <1>6. CASE UNCHANGED adVars
    BY <1>1, <1>6
  <1> QED BY <1>2, <1>3, <1>4, <1>5, <1>6 DEF PartialEffect

(* It keeps what is confirmed: the batch's status of a row that a          *)
(* confirmation covers is Core's, and its account was there if its         *)
(* password was set.                                                       *)
LEMMA AccountEffectKeeps ==
    ASSUME IInv, AccountInv, AccountEffect, UNCHANGED <<storeVars, domainVars, confirms>>
    PROVE  AccountsCovered' /\ PasswordHasAccount'
  <1> USE DEF AccountInv, AccountEffect, SetFromBatch, Retired
  <1>1. /\ Confirmable("Directory")' = Confirmable("Directory")
        /\ Confirmable("Credential")' = Confirmable("Credential")
    BY DEF Confirmable
  <1>2. ASSUME NEW r \in Confirmable("Directory"), NEW u \in Users,
               changed[u] # 0, changed[u] <= r
        PROVE  /\ batch[u] # 0 => batchStatus[u] = status[u]
               /\ batchDeleted[u] # 0 => Tombstoned(u) /\ changed[u] # 0
    <2>1. Coverable(u)
      BY <1>2, ConfirmableIsNotFresh DEF Coverable, IInv, TypeOK, Objects
    <2> QED BY <1>2, <2>1, CoverableIsInBatch
  <1>3. ASSUME NEW r \in Confirmable("Directory") PROVE DisabledCovered(r)'
    BY <1>2 DEF AccountsCovered, DisabledCovered
  <1>4. ASSUME NEW r \in Confirmable("Directory"), NEW s \in Confirmable("Credential")
        PROVE  EnabledCovered(r, s)'
    <2>1. ASSUME NEW u \in Users, credential[u] # 0, credential[u] <= s
          PROVE  adPassword[u] # 0
      BY <2>1, ConfirmableCredential DEF CredentialsCovered
    <2> QED BY <1>2, <2>1 DEF AccountsCovered, EnabledCovered
  <1>5. PasswordHasAccount'
    BY DEF PasswordHasAccount
  <1> QED BY <1>1, <1>3, <1>4, <1>5 DEF AccountsCovered

(* What an execution step leaves alone.                                    *)
LEMMA ExecuteKeepsAccounts ==
    ASSUME AccountInv, UNCHANGED <<storeVars, domainVars, readVars, confirms>>, pc \in PcExecute
    PROVE  /\ BatchStatusIsRow' /\ CredentialStatusIsCurrent'
           /\ \A u \in Users : Coverable(u)' => Coverable(u)
  <1>1. \A u \in Users : Coverable(u)' => Coverable(u)
    BY CoverableKept DEF Confirmable
  <1>2. BatchStatusIsRow'
    BY DEF AccountInv, BatchStatusIsRow
  <1>3. CredentialStatusIsCurrent'
    BY <1>1 DEF AccountInv, CredentialStatusIsCurrent, PcExecute
  <1> QED BY <1>1, <1>2, <1>3

(* An applied operation is done, and the others are done or still to do.   *)
LEMMA ApplyOperationAccounts ==
    ASSUME IInv, AccountInv, NEW op \in todo, ApplyOperation(op) PROVE AccountInv'
  <1> USE DEF ApplyOperation, OnlyExecution
  <1>1. AccountEffect
    BY AccountEffectShape
  <1>2. AccountsCovered' /\ PasswordHasAccount'
    BY <1>1, AccountEffectKeeps
  <1>3. BatchStatusIsRow' /\ CredentialStatusIsCurrent'
    BY ExecuteKeepsAccounts DEF PcExecute
  <1>4. PlanSetsAccounts'
    <2> USE DEF IInv, TypeOK, AccountInv, PlanSetsAccounts, Todo, AccountEffect, SetFromBatch,
                Retired
    <2>1. ASSUME NEW u \in Users, batch[u] # 0, batchStatus[u] = "Disabled"
          PROVE  u \notin adEnabled' \/ Todo("DisableUser", u)'
      <3>1. CASE u \notin adEnabled
        BY <1>1, <2>1, <3>1
      <3>2. CASE op = [kind |-> "DisableUser", subject |-> u]
        BY <3>2 DEF Effect, SetAccountControl
      <3> QED BY <2>1, <3>1, <3>2
    <2>2. ASSUME NEW u \in Users, batch[u] # 0, batchStatus[u] = "Active", adPassword'[u] # 0
          PROVE  u \in adEnabled' \/ Todo("EnsureUser", u)'
      <3>1. adPassword[u] # 0 /\ adObject[u] # 0
        BY <1>1, <2>2 DEF PasswordHasAccount
      <3>2. CASE u \in adEnabled
        BY <1>1, <2>2, <3>1, <3>2
      <3>3. CASE op = [kind |-> "EnsureUser", subject |-> u]
        BY <2>2, <3>1, <3>3 DEF Effect, SetAccountControl
      <3> QED BY <2>2, <3>1, <3>2, <3>3
    <2> QED BY <2>1, <2>2
  <1>5. CredentialsEnable'
    BY DEF CredentialsEnable
  <1> QED BY <1>2, <1>3, <1>4, <1>5 DEF AccountInv

(* Planning, skipping and failing leave nothing to be said of the plan but *)
(* that it follows from the batch.                                         *)
LEMMA PlanAccounts ==
    ASSUME IInv, AccountInv,
           \/ SkipDirectory \/ PlanDirectory \/ PlanCredentials \/ DirectorySessionFails
           \/ \E op \in todo : OperationFails(op)
    PROVE  AccountInv'
  <1>1. /\ UNCHANGED <<storeVars, domainVars, readVars, confirms>> /\ pc \in PcExecute
        /\ pc' \in {"planCredentials", "directory", "credentials"}
    BY DEF SkipDirectory, PlanDirectory, PlanCredentials, DirectorySessionFails, OnlyPlan,
           OnlyExecution, OperationFails, PcExecute
  <1>2. AccountsCovered' /\ PasswordHasAccount'
    <2>1. ASSUME NEW op \in todo, OperationFails(op) PROVE AccountsCovered' /\ PasswordHasAccount'
      BY <1>1, <2>1, AccountEffectShape, AccountEffectKeeps DEF OperationFails
    <2>2. ASSUME UNCHANGED adVars PROVE AccountsCovered' /\ PasswordHasAccount'
      BY <1>1, <2>2, CoveredKeptByDomain DEF AccountInv, PasswordHasAccount
    <2> QED BY <2>1, <2>2 DEF SkipDirectory, PlanDirectory, PlanCredentials,
                             DirectorySessionFails, OnlyPlan
  <1>3. BatchStatusIsRow' /\ CredentialStatusIsCurrent'
    BY <1>1, ExecuteKeepsAccounts
  <1>4. PlanSetsAccounts'
    <2>1. CASE PlanDirectory
      <3>1. \A u \in Users : batch[u] # 0 =>
               /\ [kind |-> "EnsureUser", subject |-> u] \in todo'
               /\ batchStatus[u] = "Disabled" => [kind |-> "DisableUser", subject |-> u] \in todo'
        BY <2>1 DEF PlanDirectory, DirectoryPlan, Ensure, UsersWith
      <3>2. \A op \in todo' : op.kind = "DisableUser" => batchStatus[op.subject] = "Disabled"
        BY <2>1 DEF PlanDirectory, DirectoryPlan, Ensure, UsersWith
      <3> QED BY <1>1, <3>1, <3>2 DEF PlanSetsAccounts, Todo
    <2>2. CASE ~PlanDirectory
      <3>1. pc' # "directory"
        BY <2>2 DEF SkipDirectory, PlanCredentials, DirectorySessionFails, OperationFails
      <3> QED BY <3>1 DEF PlanSetsAccounts
    <2> QED BY <2>1, <2>2
  <1>5. CredentialsEnable'
    <2>1. CASE PlanCredentials
      <3>1. \A u \in Users : credentialBatch[u] # 0 => SetPassword(u) \in todo'
        BY <2>1 DEF PlanCredentials
      <3> QED BY <1>1, <3>1 DEF CredentialsEnable, SetPassword
    <2>2. CASE ~PlanCredentials
      <3>1. pc' # "credentials"
        BY <2>2 DEF SkipDirectory, PlanDirectory, DirectorySessionFails, OperationFails
      <3> QED BY <3>1 DEF CredentialsEnable
    <2> QED BY <2>1, <2>2
  <1> QED BY <1>2, <1>3, <1>4, <1>5 DEF AccountInv

(* A password is set with a status that is Core's, if the row is covered.  *)
LEMMA PasswordAccounts ==
    ASSUME IInv, AccountInv, pc = "credentials", NEW u \in Users, SetPassword(u) \in todo,
           adObject[u] # 0,
           adPassword' = [adPassword EXCEPT ![u] = credentialBatch[u]],
           SetAccountControl(u, credentialStatus[u] = "Active") \/ UNCHANGED adEnabled,
           UNCHANGED <<storeVars, domainVars, confirms, adObject>>
    PROVE  /\ AccountsCovered' /\ PasswordHasAccount'
           /\ (Coverable(u) /\ status[u] = "Active") => u \in adEnabled' \/ UNCHANGED adEnabled
           /\ \A v \in Users : v # u => (v \in adEnabled' <=> v \in adEnabled)
  <1> USE DEF AccountInv
  <1>1. /\ Confirmable("Directory")' = Confirmable("Directory")
        /\ Confirmable("Credential")' = Confirmable("Credential")
    BY DEF Confirmable
  <1>2. \A v \in Users : v # u => (v \in adEnabled' <=> v \in adEnabled)
    BY DEF SetAccountControl
  <1>3. Coverable(u) => credentialStatus[u] = status[u]
    BY DEF CredentialStatusIsCurrent, PcExecute, IInv, DirectoryInv, PlanFromBatch, SetPassword
  <1>4. Coverable(u) => /\ status[u] = "Active" => u \in adEnabled' \/ UNCHANGED adEnabled
                        /\ status[u] = "Disabled" => u \notin adEnabled' \/ UNCHANGED adEnabled
    BY <1>3 DEF SetAccountControl
  <1>5. ASSUME NEW r \in Confirmable("Directory"), NEW v \in Users,
               changed[v] # 0, changed[v] <= r
        PROVE  Coverable(v)
    BY <1>5, ConfirmableIsNotFresh DEF Coverable, IInv, TypeOK, Objects
  <1>6. ASSUME NEW r \in Confirmable("Directory") PROVE DisabledCovered(r)'
    BY <1>2, <1>4, <1>5 DEF AccountsCovered, DisabledCovered
  <1>7. ASSUME NEW r \in Confirmable("Directory"), NEW s \in Confirmable("Credential")
        PROVE  EnabledCovered(r, s)'
    BY <1>2, <1>4, <1>5 DEF AccountsCovered, EnabledCovered
  <1>8. PasswordHasAccount'
    BY DEF IInv, TypeOK, PasswordHasAccount
  <1> QED BY <1>1, <1>2, <1>4, <1>6, <1>7, <1>8 DEF AccountsCovered

(* set_password enables the account of an active user whose row is         *)
(* covered; the others are done or still to do.                            *)
LEMMA ApplyPasswordAccounts ==
    ASSUME IInv, AccountInv, NEW u \in Users, ApplyPassword(u) PROVE AccountInv'
  <1> USE DEF ApplyPassword, OnlyExecution
  <1>1. /\ AccountsCovered' /\ PasswordHasAccount'
        /\ \A v \in Users : v # u => (v \in adEnabled' <=> v \in adEnabled)
    BY PasswordAccounts DEF IsNextCredential
  <1>2. /\ BatchStatusIsRow' /\ CredentialStatusIsCurrent'
        /\ \A v \in Users : Coverable(v)' => Coverable(v)
    BY ExecuteKeepsAccounts DEF PcExecute
  <1>3. ASSUME Coverable(u), status[u] = "Active" PROVE u \in adEnabled'
    <2>1. credentialBatch[u] # 0
      BY DEF IsNextCredential, IInv, DirectoryInv, PlanFromBatch, SetPassword
    <2>2. credentialStatus[u] = "Active"
      BY <1>3, <2>1 DEF AccountInv, CredentialStatusIsCurrent, PcExecute
    <2> QED BY <2>2 DEF SetAccountControl
  <1>4. CredentialsEnable'
    <2>1. ASSUME NEW v \in Users, v # u, SetPassword(v) \in todo PROVE SetPassword(v) \in todo'
      BY <2>1 DEF SetPassword
    <2> QED BY <1>1, <1>2, <1>3, <2>1 DEF AccountInv, CredentialsEnable, SetPassword
  <1>5. PlanSetsAccounts'
    BY DEF PlanSetsAccounts
  <1> QED BY <1>1, <1>2, <1>4, <1>5 DEF AccountInv

-----------------------------------------------------------------------------
(* Confirmation and the end of a run *)

(* With the whole directory batch executed, the accounts of the rows up to *)
(* its revision are right.                                                 *)
LEMMA ExecutedAccountsCovered ==
    ASSUME IInv, AccountInv, pc = "directory", todo = {}
    PROVE  /\ DisabledCovered(batchRevision)
           /\ \A s \in Confirmable("Credential") : EnabledCovered(batchRevision, s)
  <1> USE DEF IInv, AccountInv
  <1>0. appliedDirectory \in Confirmable("Directory")
    BY DEF Confirmable
  <1>1. ASSUME NEW u \in Users, changed[u] # 0, changed[u] <= batchRevision
        PROVE  changed[u] <= appliedDirectory \/ (batch[u] # 0 /\ batchStatus[u] = status[u])
    <2>1. CASE InBatch(changed[u])
      <3>1. batch[u] = changed[u]
        BY <2>1 DEF DirectoryInv, TablesComplete, TableComplete, UsersRead, PcExecute
      <3> QED BY <1>1, <3>1 DEF BatchStatusIsRow
    <2>2. CASE ~InBatch(changed[u])
      BY <1>1, <2>2 DEF TypeOK, Objects, InBatch, DirectoryThreshold, ProgressBounded
    <2> QED BY <2>1, <2>2
  <1>2. DisabledCovered(batchRevision)
    BY <1>0, <1>1 DEF PlanSetsAccounts, Todo, AccountsCovered, DisabledCovered
  <1>3. ASSUME NEW s \in Confirmable("Credential") PROVE EnabledCovered(batchRevision, s)
    <2>1. ASSUME NEW u \in Users, credential[u] # 0, credential[u] <= s
          PROVE  adPassword[u] # 0
      BY <2>1, ConfirmableCredential DEF CredentialsCovered
    <2> QED BY <1>0, <1>1, <2>1 DEF PlanSetsAccounts, Todo, AccountsCovered, EnabledCovered
  <1> QED BY <1>2, <1>3

(* With the credentials executed, the active users whose rows are covered  *)
(* are enabled.                                                            *)
LEMMA ExecutedCredentialsEnable ==
    ASSUME IInv, AccountInv, pc = "credentials", todo = {}
    PROVE  \A r \in Confirmable("Directory") : EnabledCovered(r, credentialBatchRevision)
  <1> USE DEF IInv, AccountInv
  <1>0. appliedCredential \in Confirmable("Credential")
    BY DEF Confirmable
  <1>1. ASSUME NEW u \in Users, credential[u] # 0, credential[u] <= credentialBatchRevision
        PROVE  credential[u] <= appliedCredential \/ credentialBatch[u] # 0
    <2>1. CASE CredentialThreshold < credential[u]
      BY <1>1, <2>1 DEF CredentialInv, CredentialBatchComplete, PcExecute
    <2>2. CASE ~(CredentialThreshold < credential[u])
      BY <1>1, <2>2 DEF TypeOK, CredentialThreshold, ProgressBounded
    <2> QED BY <2>1, <2>2
  <1>2. ASSUME NEW r \in Confirmable("Directory"), NEW u \in Users,
               changed[u] # 0, changed[u] <= r
        PROVE  Coverable(u)
    BY <1>2, ConfirmableIsNotFresh DEF Coverable, TypeOK, Objects
  <1> QED BY <1>0, <1>1, <1>2 DEF CredentialsEnable, AccountsCovered, EnabledCovered

(* Sending a confirmation of the batch just executed.                      *)
LEMMA FinishAccounts ==
    ASSUME IInv, AccountInv, FinishDirectory \/ FinishCredentials PROVE AccountInv'
  <1>1. /\ UNCHANGED <<storeVars, domainVars, readVars, todo, adVars>>
        /\ pc \in {"directory", "credentials"} /\ todo = {}
        /\ pc' \in {"confirmDirectory", "planCredentials", "confirmCredential"}
    BY DEF FinishDirectory, FinishCredentials
  <1>2. \A r \in Confirmable("Directory")' :
          r \in Confirmable("Directory") \/ (pc = "directory" /\ r = batchRevision)
    BY DEF FinishDirectory, FinishCredentials, Confirmable
  <1>3. \A s \in Confirmable("Credential")' :
          s \in Confirmable("Credential") \/ (pc = "credentials" /\ s = credentialBatchRevision)
    BY DEF FinishDirectory, FinishCredentials, Confirmable
  <1>4. ASSUME NEW r, DisabledCovered(r) PROVE DisabledCovered(r)'
    BY <1>1, <1>4 DEF DisabledCovered
  <1>5. ASSUME NEW r, NEW s, EnabledCovered(r, s) PROVE EnabledCovered(r, s)'
    BY <1>1, <1>5 DEF EnabledCovered
  <1>6. AccountsCovered'
    <2>1. CASE pc = "directory"
      <3>1. \A r \in Confirmable("Directory")' : DisabledCovered(r)
        BY <1>1, <1>2, <2>1, ExecutedAccountsCovered DEF AccountInv, AccountsCovered
      <3>2. \A r \in Confirmable("Directory")', s \in Confirmable("Credential")' :
              EnabledCovered(r, s)
        BY <1>1, <1>2, <1>3, <2>1, ExecutedAccountsCovered DEF AccountInv, AccountsCovered
      <3> QED BY <1>4, <1>5, <3>1, <3>2 DEF AccountsCovered
    <2>2. CASE pc = "credentials"
      <3>1. \A r \in Confirmable("Directory")' : DisabledCovered(r)
        BY <1>2, <2>2 DEF AccountInv, AccountsCovered
      <3>2. \A r \in Confirmable("Directory")', s \in Confirmable("Credential")' :
              EnabledCovered(r, s)
        BY <1>1, <1>2, <1>3, <2>2, ExecutedCredentialsEnable DEF AccountInv, AccountsCovered
      <3> QED BY <1>4, <1>5, <3>1, <3>2 DEF AccountsCovered
    <2> QED BY <1>1, <2>1, <2>2
  <1>7. \A u \in Users : Coverable(u)' => Coverable(u)
    <2>1. /\ appliedDirectory' \in Confirmable("Directory")
          /\ \A m \in confirms' :
               m.channel = "Directory" => m \in confirms \/ m.revision = batchRevision
      BY DEF FinishDirectory, FinishCredentials, Confirmable
    <2> QED BY <1>1, <2>1, CoverableKept
  <1>8. BatchStatusIsRow' /\ CredentialStatusIsCurrent'
    BY <1>1, <1>7 DEF AccountInv, BatchStatusIsRow, CredentialStatusIsCurrent, PcExecute
  <1>9. PlanSetsAccounts' /\ CredentialsEnable' /\ PasswordHasAccount'
    BY <1>1 DEF AccountInv, PlanSetsAccounts, CredentialsEnable, PasswordHasAccount
  <1> QED BY <1>6, <1>8, <1>9 DEF AccountInv

(* Core confirms what is covered.                                          *)
LEMMA CoreConfirmAccounts ==
    ASSUME AccountInv, NEW m \in confirms, CoreConfirm(m) PROVE AccountInv'
  <1> USE DEF CoreConfirm
  <1>1. /\ appliedDirectory' \in Confirmable("Directory")
        /\ appliedCredential' \in Confirmable("Credential")
    BY DEF Confirmable
  <1>2. AccountsCovered'
    BY <1>1, CoveredKept DEF AccountInv
  <1>3. \A u \in Users : Coverable(u)' => Coverable(u)
    BY <1>1, CoverableKept
  <1>4. BatchStatusIsRow' /\ CredentialStatusIsCurrent' /\ CredentialsEnable'
    BY <1>3 DEF AccountInv, BatchStatusIsRow, CredentialStatusIsCurrent, CredentialsEnable
  <1>5. PlanSetsAccounts' /\ PasswordHasAccount'
    BY DEF AccountInv, PlanSetsAccounts, Todo, PasswordHasAccount
  <1> QED BY <1>2, <1>4, <1>5 DEF AccountInv

(* The other steps leave Active Directory, the store and the domain's row  *)
(* alone.  Some end the run.                                               *)
LEMMA EndedAccounts ==
    ASSUME AccountInv, EndRun, UNCHANGED <<storeVars, domainVars, adVars>>,
           confirms' \subseteq confirms
    PROVE  AccountInv'
  <1>1. AccountsCovered' /\ PasswordHasAccount'
    BY CoveredKeptByDomain DEF AccountInv, PasswordHasAccount
  <1> QED BY <1>1, EndRunAccounts

(* Others keep its batches.                                                *)
LEMMA QuietAccounts ==
    ASSUME AccountInv, UNCHANGED <<storeVars, domainVars, adVars, readVars, todo>>,
           confirms' \subseteq confirms,
           pc' = pc \/ (pc = "confirmDirectory" /\ pc' = "planCredentials")
    PROVE  AccountInv'
  <1>1. AccountsCovered' /\ PasswordHasAccount'
    BY CoveredKeptByDomain DEF AccountInv, PasswordHasAccount
  <1>2. \A u \in Users : Coverable(u)' => Coverable(u)
    BY CoverableKept DEF Confirmable
  <1>3. BatchStatusIsRow' /\ CredentialStatusIsCurrent' /\ CredentialsEnable'
    BY <1>2 DEF AccountInv, BatchStatusIsRow, CredentialStatusIsCurrent, CredentialsEnable,
                PcExecute
  <1>4. PlanSetsAccounts'
    BY DEF AccountInv, PlanSetsAccounts, Todo
  <1> QED BY <1>1, <1>3, <1>4 DEF AccountInv

-----------------------------------------------------------------------------
(* The invariant and what it implies *)

(* There is no row, batch or account at the start.                         *)
LEMMA InitAccounts == Init => AccountInv
  <1> SUFFICES ASSUME Init PROVE AccountInv
    OBVIOUS
  <1> USE DEF Init, StoreInit, NoRows, NoUserRows
  <1>1. BatchStatusIsRow /\ CredentialStatusIsCurrent /\ PasswordHasAccount
    BY DEF BatchStatusIsRow, CredentialStatusIsCurrent, PcExecute, PasswordHasAccount, Objects
  <1>2. AccountsCovered
    BY DEF AccountsCovered, DisabledCovered, EnabledCovered, Objects
  <1>3. PlanSetsAccounts /\ CredentialsEnable
    BY DEF PlanSetsAccounts, CredentialsEnable
  <1> QED BY <1>1, <1>2, <1>3 DEF AccountInv

(* Every step preserves the invariant.                                     *)
LEMMA AccountStep ==
    ASSUME IInv, AccountInv, [Next]_vars PROVE AccountInv'
  <1>1. CASE CoreWrite
    BY <1>1, WriteAccounts
  <1>2. CASE LoadState \/ CoreRead
    BY <1>2, ReadAccounts
  <1>3. ASSUME NEW op \in todo, ApplyOperation(op) PROVE AccountInv'
    BY <1>3, ApplyOperationAccounts
  <1>4. CASE \/ SkipDirectory \/ PlanDirectory \/ PlanCredentials \/ DirectorySessionFails
             \/ \E op \in todo : OperationFails(op)
    BY <1>4, PlanAccounts
  <1>5. CASE FinishDirectory \/ FinishCredentials
    BY <1>5, FinishAccounts
  <1>6. ASSUME NEW u \in Users, ApplyPassword(u) PROVE AccountInv'
    BY <1>6, ApplyPasswordAccounts
  <1>7. ASSUME NEW u \in Users, PasswordFails(u) PROVE AccountInv'
    BY <1>7, PasswordAccounts, EndRunAccounts DEF PasswordFails, IsNextCredential
  <1>8. CASE NothingToConfirm \/ Abandon \/ \E u \in Users : AccountMissing(u)
    BY <1>8, EndedAccounts DEF NothingToConfirm, Abandon, AccountMissing
  <1>9. CASE ConfirmAccepted \/ SaveFails \/ ConfirmRejected \/ ConfirmTimesOut
    <2>1. confirms' \subseteq confirms /\ (Continue(Advanced) \/ Continue(local))
      BY <1>9 DEF ConfirmAccepted, SaveFails, ConfirmRejected, ConfirmTimesOut
    <2> QED BY <2>1, EndedAccounts, QuietAccounts DEF Continue
  <1>10. CASE \E kind \in {"absent", "damaged"} : LoseStateFile(kind)
    BY <1>10, QuietAccounts DEF LoseStateFile
  <1>11. ASSUME NEW m \in confirms, CoreConfirm(m) PROVE AccountInv'
    BY <1>11, CoreConfirmAccounts
  <1>12. CASE UNCHANGED vars
    BY <1>12, QuietAccounts DEF vars
  <1> QED
    BY <1>1, <1>2, <1>3, <1>4, <1>5, <1>6, <1>7, <1>8, <1>9, <1>10, <1>11, <1>12
    DEF Next, SyncerStep, Execute, Faulty

(* The invariant of the protocol and its accounts holds in every reachable *)
(* state, whatever is written between the reads of one answer and whatever *)
(* fails, is lost or comes late.                                           *)
THEOREM SyncInvariantHolds == Spec => []SyncInv
  <1>1. Init => SyncInv
    BY InitInv, InitAccounts DEF SyncInv
  <1>2. SyncInv /\ [Next]_vars => SyncInv'
    BY InvStep, AccountStep DEF SyncInv
  <1> QED BY <1>1, <1>2, PTL DEF Spec

(* A user whose disabling Core recorded as applied is disabled in Active   *)
(* Directory, although set_password writes userAccountControl too, from a  *)
(* status read later than the batch.                                       *)
THEOREM DisabledAccountsStayDisabled == Spec => []ConfirmedDisabledIsDisabled
  <1>1. SyncInv => ConfirmedDisabledIsDisabled
    BY DEF SyncInv, AccountInv, AccountsCovered, Confirmable, DisabledCovered,
           ConfirmedDisabledIsDisabled
  <1> QED BY <1>1, SyncInvariantHolds, PTL

(* An active user with row and password recorded as applied can log on:    *)
(* new accounts are added disabled, and set_password enables them.         *)
THEOREM ActiveAccountsAreEnabled == Spec => []ConfirmedActiveIsEnabled
  <1>1. SyncInv => ConfirmedActiveIsEnabled
    BY DEF SyncInv, AccountInv, AccountsCovered, Confirmable, EnabledCovered,
           ConfirmedActiveIsEnabled
  <1> QED BY <1>1, SyncInvariantHolds, PTL

=============================================================================
