----------------------------- MODULE SyncProofs -----------------------------
(***************************************************************************)
(* The safety of SyncProtocol, for every set of objects, every batch       *)
(* limit and every number of writes and faults.                            *)
(***************************************************************************)
EXTENDS SyncInvariant, CoreStoreProofs

USE DEF storeVars, domainVars, batchVars, credentialBatchVars, readVars, adVars, netVars,
        cycleVars, StoreTypeOK, StoreRevisionsAllocated, Tombstoned, Deleted

-----------------------------------------------------------------------------
(* Types *)

(* Ending a run leaves values of the right type.                           *)
LEMMA EndRunType ==
    ASSUME TypeOK, EndRun,
           stateFile' \in [kind : FileKinds, directory : Nat, credential : Nat],
           confirms' \subseteq confirms, adPassword' \in [Users -> Nat],
           adEnabled' \in SUBSET Users, faults' \in Nat,
           UNCHANGED <<storeVars, domainVars, adObject, adLinks>>
    PROVE  TypeOK'
  BY DEF TypeOK, EndRun, NoRows, NoUserRows, AllActive, NoProgress, Pcs, Status

(* A directory operation leaves Active Directory's values of the right     *)
(* type.                                                                   *)
LEMMA EffectType ==
    ASSUME TypeOK, NEW op \in todo, Effect(op)
    PROVE  /\ adObject' \in [Objects -> Nat] /\ adLinks' \in [Linked -> Nat]
           /\ adEnabled' \in SUBSET Users /\ adPassword' \in [Users -> Nat]
  <1>0. op \in Operation
    BY DEF TypeOK
  <1>1. CASE op.kind \in {"EnsureOu", "EnsureGroup"}
    BY <1>1 DEF TypeOK, Effect, Objects
  <1>2. CASE op.kind = "EnsureUser"
    <2>1. op.subject \in Users
      BY <1>0, <1>2 DEF Operation
    <2> QED BY <1>2, <2>1 DEF TypeOK, Effect, Objects, SetAccountControl
  <1>3. CASE op.kind \in {"EnsureUserPlacement", "EnsureGroupMembers", "MoveUserToQuarantine"}
    <2>1. op.subject \in Objects
      BY <1>0, <1>3 DEF Operation, Objects
    <2> QED BY <1>3, <2>1 DEF TypeOK, Effect
  <1>4. CASE op.kind \in {"DisableUser", "RetireUser"}
    <2>1. op.subject \in Users
      BY <1>0, <1>4 DEF Operation
    <2> QED BY <1>4, <2>1 DEF TypeOK, Effect, SetAccountControl
  <1> QED BY <1>1, <1>2, <1>3, <1>4 DEF Effect

(* Every step keeps the types.                                             *)
LEMMA TypeStep ==
    ASSUME TypeOK, [Next]_vars PROVE TypeOK'
  <1> USE SyncAssumption
  <1>1. ASSUME CoreWrite PROVE TypeOK'
    BY <1>1, StoreTypeStep DEF TypeOK, CoreWrite, OnlyStore
  <1>2. ASSUME LoadState PROVE TypeOK'
    BY <1>2 DEF TypeOK, LoadState, NoProgress, Pcs
  <1>3. ASSUME CoreRead PROVE TypeOK'
    <2>a. ASSUME NEW T \in SUBSET Objects PROVE {changed[k] : k \in T} \in SUBSET Nat
      BY DEF TypeOK
    <2>b. ASSUME NEW here, NEW column \in SUBSET Nat, NEW next \in Pcs,
                 Collect(here, column, next)
          PROVE  TypeOK'
      BY <2>b DEF TypeOK, Collect, UnchangedByReads
    <2> USE DEF TypeOK, UnchangedByReads, Pcs, PcReadDirectory, PcReadCredentials, PcExecute
    <2>1. CASE DirectoryProgress
      BY <2>1 DEF DirectoryProgress
    <2>2. CASE CollectOuRevisions
      BY <2>2, <2>a, <2>b DEF CollectOuRevisions, Objects
    <2>3. CASE CollectUserRevisions
      BY <2>3, <2>a, <2>b DEF CollectUserRevisions, Objects
    <2>4. CASE CollectGroupRevisions
      BY <2>4, <2>a, <2>b DEF CollectGroupRevisions, Objects
    <2>5. CASE CollectDeletedRevisions
      BY <2>5 DEF CollectDeletedRevisions
    <2>6. CASE ReadUsers
      BY <2>6 DEF ReadUsers, ReadRows, Objects
    <2>7. CASE ReadGroups
      BY <2>7 DEF ReadGroups, ReadRows, Objects
    <2>8. CASE ReadOus
      BY <2>8 DEF ReadOus, ReadRows, Objects
    <2>9. CASE ReadDeleted
      BY <2>9 DEF ReadDeleted
    <2>10. CASE CredentialProgress
      BY <2>10 DEF CredentialProgress
    <2>11. CASE CollectCredentialRevisions
      BY <2>11 DEF CollectCredentialRevisions
    <2>12. CASE ReadCredentials
      BY <2>12 DEF ReadCredentials, SetPassword, Operation
    <2>13. ASSUME NEW u \in Users, ReadStatus(u) PROVE TypeOK'
      BY <2>13 DEF ReadStatus, Status
    <2>14. CASE ReceiveBatches
      BY <2>14 DEF ReceiveBatches
    <2> QED BY <1>3, <2>1, <2>2, <2>3, <2>4, <2>5, <2>6, <2>7, <2>8, <2>9, <2>10, <2>11,
               <2>12, <2>13, <2>14 DEF CoreRead
  <1>4. ASSUME NEW op \in todo, ApplyOperation(op) PROVE TypeOK'
    BY <1>4, EffectType DEF TypeOK, ApplyOperation, OnlyExecution
  <1>5. ASSUME NEW op \in todo, OperationFails(op) PROVE TypeOK'
    <2>1. /\ adObject' \in [Objects -> Nat] /\ adLinks' \in [Linked -> Nat]
          /\ adEnabled' \in SUBSET Users /\ adPassword' \in [Users -> Nat]
      <3>1. CASE Effect(op)
        BY <3>1, EffectType
      <3>2. CASE PartialEffect(op)
        BY <3>2 DEF TypeOK, PartialEffect, SetAccountControl, Operation
      <3>3. CASE UNCHANGED adVars
        BY <3>3 DEF TypeOK
      <3> QED BY <1>5, <3>1, <3>2, <3>3 DEF OperationFails
    <2> QED BY <1>5, <2>1 DEF TypeOK, OperationFails, OnlyExecution, Fault, Pcs, PcExecute
  <1>6. ASSUME SkipDirectory \/ PlanDirectory \/ PlanCredentials PROVE TypeOK'
    <2>1. CASE SkipDirectory
      BY <2>1 DEF TypeOK, SkipDirectory, OnlyPlan, Pcs, PcExecute
    <2>2. CASE PlanDirectory
      BY <2>2 DEF TypeOK, PlanDirectory, OnlyPlan, DirectoryPlan, Ensure, UsersWith, Operation,
                  Pcs, PcExecute
    <2>3. CASE PlanCredentials
      BY <2>3 DEF TypeOK, PlanCredentials, OnlyPlan, SetPassword, Operation, Pcs, PcExecute
    <2> QED BY <1>6, <2>1, <2>2, <2>3
  <1>7. ASSUME DirectorySessionFails PROVE TypeOK'
    BY <1>7 DEF TypeOK, DirectorySessionFails, OnlyExecution, Fault, Pcs, PcExecute
  <1>8. ASSUME FinishDirectory \/ FinishCredentials PROVE TypeOK'
    <2>1. CASE FinishDirectory
      BY <2>1 DEF TypeOK, FinishDirectory, Pcs, PcExecute, Channels
    <2>2. CASE FinishCredentials
      BY <2>2 DEF TypeOK, FinishCredentials, Pcs, PcExecute, Channels
    <2> QED BY <1>8, <2>1, <2>2
  <1>9. ASSUME NEW u \in Users, ApplyPassword(u) PROVE TypeOK'
    BY <1>9 DEF TypeOK, ApplyPassword, SetAccountControl, OnlyExecution
  <1>10. ASSUME NEW u \in Users, PasswordFails(u) PROVE TypeOK'
    <2>1. /\ adPassword' \in [Users -> Nat] /\ adEnabled' \in SUBSET Users /\ faults' \in Nat
      BY <1>10 DEF TypeOK, PasswordFails, SetAccountControl, Fault
    <2> QED BY <1>10, <2>1, EndRunType DEF PasswordFails, TypeOK
  <1>11. ASSUME NEW u \in Users, AccountMissing(u) PROVE TypeOK'
    BY <1>11, EndRunType DEF AccountMissing, TypeOK
  <1>12. ASSUME NothingToConfirm PROVE TypeOK'
    BY <1>12, EndRunType DEF NothingToConfirm, TypeOK
  <1>13. ASSUME Abandon PROVE TypeOK'
    BY <1>13, EndRunType DEF Abandon, Fault, TypeOK
  <1>14. ASSUME NEW l, Continue(l), l \in [directory : Nat, credential : Nat],
                confirms' \subseteq confirms, faults' \in Nat,
                stateFile' \in [kind : FileKinds, directory : Nat, credential : Nat]
         PROVE  TypeOK'
    <2>1. CASE pc = "confirmDirectory"
      BY <1>14, <2>1 DEF TypeOK, Continue, Pcs, PcExecute
    <2>2. CASE pc = "confirmCredential"
      BY <1>14, <2>2, EndRunType DEF TypeOK, Continue
    <2> QED BY <1>14, <2>1, <2>2 DEF Continue
  <1>15. Advanced \in [directory : Nat, credential : Nat]
    BY DEF TypeOK, Advanced
  <1>16. ASSUME ConfirmAccepted \/ SaveFails \/ ConfirmRejected \/ ConfirmTimesOut
         PROVE  TypeOK'
    BY <1>14, <1>15, <1>16 DEF TypeOK, FileKinds, ConfirmAccepted, SaveFails, ConfirmRejected,
                               ConfirmTimesOut, Fault
  <1>17. ASSUME NEW kind \in {"absent", "damaged"}, LoseStateFile(kind) PROVE TypeOK'
    BY <1>17 DEF TypeOK, LoseStateFile, FileKinds, Fault
  <1>18. ASSUME NEW m \in confirms, CoreConfirm(m) PROVE TypeOK'
    BY <1>18 DEF TypeOK, CoreConfirm
  <1>19. ASSUME UNCHANGED vars PROVE TypeOK'
    BY <1>19 DEF TypeOK, vars
  <1> QED
    BY <1>1, <1>2, <1>3, <1>4, <1>5, <1>6, <1>7, <1>8, <1>9, <1>10, <1>11, <1>12, <1>13,
       <1>16, <1>17, <1>18, <1>19 DEF Next, SyncerStep, Execute, Faulty

-----------------------------------------------------------------------------
(* Writes of Core *)

(* A write preserves the invariant: what it rewrites is beyond every batch *)
(* revision and every confirmation.                                        *)
LEMMA WritePreserves ==
    ASSUME IInv, TypeOK', WriteStep, OnlyStore PROVE IInv'
  <1> USE DEF IInv, WriteStep, Rewritten, OnlyStore
  <1>1. ProgressBounded' /\ RevisionsAllocated'
    BY DEF TypeOK, ProgressBounded, RevisionsAllocated
  <1>2. ReadingAllocated' /\ BatchBounded' /\ AcceptedIsApplied'
    BY DEF TypeOK, ReadingAllocated, BatchBounded, AcceptedIsApplied
  <1>3. BatchNotRead' /\ PlanProgress' /\ PlanFromBatch' /\ CredentialProgressMade'
    BY DEF DirectoryInv, CredentialInv, BatchNotRead, PlanProgress, PlanFromBatch, Todo,
           CredentialProgressMade
  <1>4. TablesComplete'
    <2>1. ASSUME NEW k \in Objects, InBatch(changed[k])' PROVE changed'[k] = changed[k]
      BY <2>1 DEF TypeOK, InBatch, DirectoryThreshold, RevisionsAllocated
    <2>2. ASSUME NEW u \in Users, InBatch(deleted[u])' PROVE deleted'[u] = deleted[u]
      BY <2>2 DEF TypeOK, InBatch, DirectoryThreshold, RevisionsAllocated
    <2>3. ASSUME NEW r PROVE InBatch(r)' <=> InBatch(r)
      BY DEF InBatch, DirectoryThreshold
    <2>4. ASSUME NEW pcs, NEW table \in SUBSET Objects, TableComplete(pcs, table)
          PROVE  TableComplete(pcs, table)'
      BY <2>1, <2>3, <2>4 DEF TableComplete
    <2>5. TableComplete(UsersRead, Users)' /\ TableComplete(GroupsRead, Groups)'
          /\ TableComplete(OusRead, OrganizationalUnits)'
      BY <2>4 DEF DirectoryInv, TablesComplete, Objects
    <2> QED BY <2>2, <2>3, <2>5 DEF DirectoryInv, TablesComplete, DirectoryRead
  <1>5. StaleIsFresh'
    <2>1. ASSUME NEW r \in Nat, r > directoryRevision PROVE Fresh(r)'
      BY <2>1 DEF TypeOK, Fresh, ProgressBounded, RevisionsAllocated
    <2>2. ASSUME NEW r \in Nat, Fresh(r) PROVE Fresh(r)'
      BY <2>2 DEF Fresh
    <2> QED BY <2>1, <2>2 DEF TypeOK, DirectoryInv, StaleIsFresh, Objects
  <1>6. ConfirmationsCovered'
    <2>1. ASSUME NEW r \in Nat, r <= directoryRevision, Covered(r) PROVE Covered(r)'
      BY <2>1 DEF TypeOK, Covered, Linked, Objects
    <2> QED BY <2>1 DEF TypeOK, DirectoryInv, ConfirmationsCovered, ProgressBounded
  <1>7. CredentialBatchComplete'
    BY DEF TypeOK, CredentialInv, CredentialBatchComplete, CredentialThreshold,
           RevisionsAllocated
  <1>8. StaleCredentialIsFresh'
    <2>1. ASSUME NEW r \in Nat, r > credentialRevision PROVE FreshCredential(r)'
      BY <2>1 DEF TypeOK, FreshCredential, ProgressBounded, RevisionsAllocated
    <2>2. ASSUME NEW r \in Nat, FreshCredential(r) PROVE FreshCredential(r)'
      BY <2>2 DEF FreshCredential
    <2> QED BY <2>1, <2>2 DEF TypeOK, CredentialInv, StaleCredentialIsFresh
  <1>9. CredentialConfirmationsCovered'
    <2>1. ASSUME NEW r \in Nat, r <= credentialRevision, CredentialsCovered(r)
          PROVE  CredentialsCovered(r)'
      BY <2>1 DEF TypeOK, CredentialsCovered
    <2> QED BY <2>1 DEF TypeOK, CredentialInv, CredentialConfirmationsCovered, ProgressBounded
  <1>10. MirrorNotAhead'
    BY DEF TypeOK, MirrorNotAhead
  <1> QED
    BY <1>1, <1>2, <1>3, <1>4, <1>5, <1>6, <1>7, <1>8, <1>9, <1>10 DEF DirectoryInv, CredentialInv

-----------------------------------------------------------------------------
(* The sync request *)

(* The reads of a request touch neither the store nor Active Directory nor *)
(* the confirmations.                                                      *)
ReadFrame ==
    /\ UNCHANGED <<storeVars, domainVars, stateFile, netVars, adVars>>
    /\ pc \in {"idle", "directoryProgress"} \cup PcReadDirectory \cup PcReadCredentials
    /\ pc' \in {"directoryProgress", "planDirectory"} \cup PcReadDirectory \cup PcReadCredentials

(* Every step of the request has that frame.                               *)
LEMMA ReadShape ==
    ASSUME CoreRead
    PROVE  ReadFrame /\ UNCHANGED <<local, mode>>
  BY DEF CoreRead, ReadFrame, UnchangedByReads, PcReadDirectory, PcReadCredentials,
         DirectoryProgress, CollectOuRevisions, CollectUserRevisions, CollectGroupRevisions,
         Collect, CollectDeletedRevisions, ReadUsers, ReadGroups, ReadOus, ReadRows,
         ReadDeleted, CredentialProgress, CollectCredentialRevisions, ReadCredentials,
         ReadStatus, ReceiveBatches

(* The parts of the invariant the reads do not concern.                    *)
ReadInv ==
    /\ TombstoneIsOlder /\ AcceptedIsApplied
    /\ ConfirmationsCovered /\ CredentialConfirmationsCovered
    /\ PlanProgress /\ CredentialProgressMade

(* They leave it alone.                                                    *)
LEMMA ReadKeeps ==
    ASSUME IInv, ReadFrame PROVE ReadInv'
  <1> USE DEF IInv, DirectoryInv, CredentialInv, ReadFrame, ReadInv
  <1>1. TombstoneIsOlder' /\ ConfirmationsCovered' /\ CredentialConfirmationsCovered'
    BY DEF TombstoneIsOlder, ConfirmationsCovered, Covered, CredentialConfirmationsCovered,
           CredentialsCovered
  <1>2. AcceptedIsApplied' /\ PlanProgress' /\ CredentialProgressMade'
    BY DEF AcceptedIsApplied, PlanProgress, CredentialProgressMade, PcReadDirectory,
           PcReadCredentials
  <1> QED BY <1>1, <1>2

(* The parts about a batch that was read.                                  *)
BatchInv ==
    /\ RevisionsAllocated /\ BatchBounded /\ BatchNotRead
    /\ TablesComplete /\ StaleIsFresh
    /\ CredentialBatchComplete /\ StaleCredentialIsFresh
    /\ MirrorNotAhead

(* A step of the request that leaves the batches alone and does not pass   *)
(* the read of a table.                                                    *)
LEMMA SameBatches ==
    ASSUME IInv, ReadFrame, UNCHANGED <<batchVars, credentialBatchVars>>,
           UNCHANGED <<local, mode>> \/ pc' = "directoryProgress",
           \A pcs \in {UsersRead, GroupsRead, OusRead, PcReadCredentials \cup PcExecute,
                       {"readStatuses"} \cup PcExecute} : pc' \in pcs => pc \in pcs,
           \/ pc \in {"idle", "directoryProgress", "collectOus", "collectUsers", "collectGroups"}
           \/ pc = "credentialProgress" /\ pc' = "collectCredentials"
           \/ pc = "readStatuses" /\ pc' \in {"readStatuses", "planDirectory"}
    PROVE  BatchInv'
  <1> USE DEF IInv, DirectoryInv, CredentialInv, ReadFrame, BatchInv
  <1>1. RevisionsAllocated' /\ BatchBounded' /\ MirrorNotAhead'
    BY DEF RevisionsAllocated, BatchBounded, MirrorNotAhead
  <1>2. StaleIsFresh' /\ StaleCredentialIsFresh'
    BY DEF StaleIsFresh, Fresh, StaleCredentialIsFresh, FreshCredential
  <1>3. BatchNotRead'
    BY DEF BatchNotRead, PcReadDirectory, PcReadCredentials
  <1>4. TablesComplete' /\ CredentialBatchComplete'
    <2>1. CASE pc' = "directoryProgress"
      BY <2>1 DEF TablesComplete, TableComplete, UsersRead, GroupsRead, OusRead, DirectoryRead,
                  CredentialBatchComplete, PcReadCredentials, PcExecute
    <2>2. CASE UNCHANGED <<local, mode>>
      BY <2>2 DEF TablesComplete, TableComplete, DirectoryRead, InBatch, DirectoryThreshold,
                  CredentialBatchComplete, CredentialThreshold
    <2> QED BY <2>1, <2>2
  <1> QED BY <1>1, <1>2, <1>3, <1>4

(* The batch is fixed, or a table is read into it.                         *)
LEMMA BatchesRead ==
    ASSUME IInv, TypeOK', CoreRead PROVE BatchInv' /\ ReadingAllocated' /\ PlanFromBatch'
  <1> USE DEF IInv, DirectoryInv, CredentialInv, BatchInv, UnchangedByReads
  <1>f. ReadFrame /\ UNCHANGED <<local, mode>>
    BY ReadShape
  <1>r. ASSUME NEW r PROVE InBatch(r)' <=> (DirectoryThreshold < r /\ r <= batchRevision')
    BY <1>f DEF InBatch, DirectoryThreshold
  <1>1. CASE DirectoryProgress \/ CredentialProgress
    <2>1. BatchInv'
      BY <1>1, <1>f, SameBatches DEF DirectoryProgress, CredentialProgress, UsersRead, GroupsRead,
         OusRead, PcReadCredentials, PcExecute
    <2>2. ReadingAllocated' /\ PlanFromBatch'
      BY <1>1 DEF DirectoryProgress, CredentialProgress, TypeOK, ReadingAllocated, PlanFromBatch,
                  PcReadDirectory
    <2> QED BY <2>1, <2>2
  <1>2. CASE CollectOuRevisions \/ CollectUserRevisions \/ CollectGroupRevisions
    <2>1. BatchInv'
      BY <1>2, <1>f, SameBatches DEF CollectOuRevisions, CollectUserRevisions,
         CollectGroupRevisions, Collect, UsersRead, GroupsRead, OusRead, PcReadCredentials,
         PcExecute
    <2>2. \A r \in revisions' : r <= directoryRevision'
      BY <1>2 DEF CollectOuRevisions, CollectUserRevisions, CollectGroupRevisions, Collect,
                  RevisionsAllocated, ReadingAllocated, Objects
    <2>3. ReadingAllocated' /\ PlanFromBatch'
      BY <1>2, <2>2 DEF CollectOuRevisions, CollectUserRevisions, CollectGroupRevisions, Collect,
                        ReadingAllocated, PlanFromBatch, PcReadDirectory
    <2> QED BY <2>1, <2>3
  <1>3. CASE CollectDeletedRevisions
    <2> USE <1>3 DEF CollectDeletedRevisions
    <2>1. batchRevision' <= directoryRevision
      BY DEF RevisionsAllocated, ReadingAllocated, PcReadDirectory, IsBatchRevision
    <2>2. batch = NoRows /\ batchDeleted = NoUserRows
      BY DEF BatchNotRead
    <2>3. RevisionsAllocated' /\ BatchBounded' /\ MirrorNotAhead' /\ BatchNotRead'
      BY <2>1, <2>2 DEF TypeOK, RevisionsAllocated, BatchBounded, NoRows, NoUserRows,
                        MirrorNotAhead, BatchNotRead, PcReadDirectory
    <2>4. TablesComplete' /\ CredentialBatchComplete'
      BY DEF TablesComplete, TableComplete, UsersRead, GroupsRead, OusRead, DirectoryRead,
             CredentialBatchComplete, PcReadCredentials, PcExecute
    <2>5. StaleIsFresh' /\ StaleCredentialIsFresh'
      BY <2>2 DEF StaleIsFresh, NoRows, NoUserRows, StaleCredentialIsFresh, FreshCredential, Objects
    <2>6. ReadingAllocated' /\ PlanFromBatch'
      BY DEF TypeOK, ReadingAllocated, PlanFromBatch
    <2> QED BY <2>3, <2>4, <2>5, <2>6
  <1>4. ASSUME NEW table \in SUBSET Objects, NEW here, NEW next, ReadRows(here, table, next),
               <<here, table, next>> \in {<<"readUsers", Users, "readGroups">>,
                                          <<"readGroups", Groups, "readOus">>,
                                          <<"readOus", OrganizationalUnits, "readDeleted">>}
        PROVE  BatchInv' /\ ReadingAllocated' /\ PlanFromBatch'
    <2> USE <1>4 DEF ReadRows
    <2>1. RevisionsAllocated' /\ BatchBounded' /\ BatchNotRead'
      BY DEF TypeOK, RevisionsAllocated, BatchBounded, InBatch, BatchNotRead, PcReadDirectory
    <2>2. StaleIsFresh' /\ StaleCredentialIsFresh'
      BY DEF TypeOK, TombstoneIsOlder, StaleIsFresh, Fresh, StaleCredentialIsFresh, FreshCredential,
             Objects
    <2>3. MirrorNotAhead'
      BY DEF TypeOK, MirrorNotAhead, InBatch, DirectoryThreshold
    <2>4. TablesComplete'
      BY <1>r DEF TypeOK, TablesComplete, TableComplete, UsersRead, GroupsRead, OusRead,
             DirectoryRead, InBatch, PcReadCredentials, PcExecute, Objects
    <2>5. CredentialBatchComplete' /\ ReadingAllocated' /\ PlanFromBatch'
      BY DEF CredentialBatchComplete, PcExecute, ReadingAllocated, PlanFromBatch, PcReadDirectory
    <2> QED BY <2>1, <2>2, <2>3, <2>4, <2>5
  <1>5. CASE ReadUsers \/ ReadGroups \/ ReadOus
    BY <1>4, <1>5 DEF ReadUsers, ReadGroups, ReadOus, Objects
  <1>6. CASE ReadDeleted
    <2> USE <1>6 DEF ReadDeleted
    <2>1. RevisionsAllocated' /\ BatchBounded' /\ BatchNotRead' /\ MirrorNotAhead'
      BY DEF TypeOK, RevisionsAllocated, BatchBounded, InBatch, BatchNotRead, PcReadDirectory,
             MirrorNotAhead
    <2>2. StaleIsFresh' /\ StaleCredentialIsFresh'
      BY DEF TypeOK, TombstoneIsOlder, StaleIsFresh, Fresh, StaleCredentialIsFresh, FreshCredential,
             Objects, InBatch
    <2>3. TablesComplete'
      BY <1>r DEF TablesComplete, TableComplete, UsersRead, GroupsRead, OusRead, InBatch,
             DirectoryRead
    <2>4. CredentialBatchComplete' /\ ReadingAllocated' /\ PlanFromBatch'
      BY DEF CredentialBatchComplete, PcExecute, ReadingAllocated, PlanFromBatch, PcReadDirectory
    <2> QED BY <2>1, <2>2, <2>3, <2>4
  <1>7. CASE CollectCredentialRevisions
    <2> USE <1>7 DEF CollectCredentialRevisions
    <2>1. credentialBatchRevision' <= credentialRevision
      BY DEF RevisionsAllocated, ReadingAllocated, IsBatchRevision
    <2>2. credentialBatch = NoUserRows
      BY DEF BatchNotRead
    <2>3. RevisionsAllocated' /\ BatchBounded' /\ MirrorNotAhead' /\ BatchNotRead'
      BY <2>1, <2>2 DEF TypeOK, RevisionsAllocated, BatchBounded, NoUserRows,
                        MirrorNotAhead, BatchNotRead, PcReadDirectory
    <2>4. TablesComplete' /\ CredentialBatchComplete'
      BY <1>r DEF TablesComplete, TableComplete, UsersRead, GroupsRead, OusRead, DirectoryRead,
             InBatch, CredentialBatchComplete, PcReadCredentials, PcExecute
    <2>5. StaleIsFresh' /\ StaleCredentialIsFresh'
      BY <2>2 DEF StaleIsFresh, Fresh, NoUserRows, StaleCredentialIsFresh
    <2>6. ReadingAllocated' /\ PlanFromBatch'
      BY DEF TypeOK, ReadingAllocated, PlanFromBatch, PcReadDirectory
    <2> QED BY <2>3, <2>4, <2>5, <2>6
  <1>8. CASE ReadCredentials
    <2> USE <1>8 DEF ReadCredentials
    <2>1. RevisionsAllocated' /\ BatchBounded' /\ BatchNotRead' /\ MirrorNotAhead'
      BY DEF TypeOK, RevisionsAllocated, BatchBounded, BatchNotRead, PcReadDirectory,
             MirrorNotAhead
    <2>2. StaleIsFresh' /\ StaleCredentialIsFresh'
      BY DEF TypeOK, StaleIsFresh, Fresh, StaleCredentialIsFresh
    <2>3. TablesComplete'
      BY <1>r DEF TablesComplete, TableComplete, UsersRead, GroupsRead, OusRead, InBatch,
             DirectoryRead, PcReadCredentials
    <2>4. CredentialBatchComplete' /\ ReadingAllocated'
      BY DEF CredentialBatchComplete, CredentialThreshold, ReadingAllocated, PcReadDirectory
    <2>5. PlanFromBatch'
      BY DEF PlanFromBatch, SetPassword
    <2> QED BY <2>1, <2>2, <2>3, <2>4, <2>5
  <1>9. ASSUME NEW u \in Users, ReadStatus(u)
        PROVE  BatchInv' /\ ReadingAllocated' /\ PlanFromBatch'
    <2> USE <1>9 DEF ReadStatus
    <2>1. BatchInv'
      <3>1. RevisionsAllocated' /\ BatchBounded' /\ MirrorNotAhead' /\ BatchNotRead'
        BY DEF RevisionsAllocated, BatchBounded, MirrorNotAhead, BatchNotRead
      <3>2. StaleIsFresh' /\ StaleCredentialIsFresh'
        BY DEF StaleIsFresh, Fresh, StaleCredentialIsFresh, FreshCredential
      <3>3. TablesComplete' /\ CredentialBatchComplete'
        BY <1>r DEF TablesComplete, TableComplete, DirectoryRead, InBatch, CredentialBatchComplete,
                    CredentialThreshold
      <3> QED BY <3>1, <3>2, <3>3
    <2>2. ReadingAllocated' /\ PlanFromBatch'
      BY DEF ReadingAllocated, PlanFromBatch
    <2> QED BY <2>1, <2>2
  <1>10. CASE ReceiveBatches
    <2> USE <1>10 DEF ReceiveBatches
    <2>1. BatchInv'
      BY <1>f, SameBatches DEF UsersRead, GroupsRead, OusRead, PcReadCredentials, PcExecute
    <2>2. ReadingAllocated' /\ PlanFromBatch'
      BY DEF ReadingAllocated, PlanFromBatch, PcReadDirectory
    <2> QED BY <2>1, <2>2
  <1> QED BY <1>1, <1>2, <1>3, <1>5, <1>6, <1>7, <1>8, <1>9, <1>10 DEF CoreRead

(* Reading for a request preserves the invariant.                          *)
LEMMA ReadPreserves ==
    ASSUME IInv, TypeOK', CoreRead PROVE IInv'
  <1>1. ReadInv'
    BY ReadShape, ReadKeeps
  <1>2. ProgressBounded'
    BY ReadShape DEF IInv, ProgressBounded, ReadFrame
  <1> QED BY <1>1, <1>2, BatchesRead DEF IInv, DirectoryInv, CredentialInv, ReadInv, BatchInv

(* So does loading the local state: what it holds was confirmed.           *)
LEMMA LoadPreserves ==
    ASSUME IInv, TypeOK', LoadState PROVE IInv'
  <1>1. ReadFrame
    BY DEF LoadState, ReadFrame
  <1>2. BatchInv'
    BY <1>1, SameBatches DEF LoadState, UsersRead, GroupsRead, OusRead, PcReadCredentials, PcExecute
  <1>3. ProgressBounded' /\ ReadingAllocated' /\ PlanFromBatch'
    BY DEF IInv, DirectoryInv, LoadState, TypeOK, ProgressBounded, NoProgress, ReadingAllocated,
           PcReadDirectory, PlanFromBatch
  <1> QED BY <1>1, <1>2, <1>3, ReadKeeps DEF IInv, DirectoryInv, CredentialInv, ReadInv, BatchInv

-----------------------------------------------------------------------------
(* The execution of the batches *)

(* A step of the execution: it changes Active Directory, the operations    *)
(* left and the program counter, nothing else.                             *)
ExecuteFrame ==
    /\ UNCHANGED <<storeVars, domainVars, stateFile, local, mode, readVars, netVars>>
    /\ pc \in PcExecute \ {"confirmDirectory", "confirmCredential"}
    /\ pc' \in PcExecute

ExecuteInv ==
    /\ ProgressBounded /\ RevisionsAllocated /\ ReadingAllocated /\ BatchBounded
    /\ AcceptedIsApplied /\ TombstoneIsOlder
    /\ BatchNotRead /\ TablesComplete /\ StaleIsFresh
    /\ CredentialBatchComplete /\ StaleCredentialIsFresh

(* What it leaves alone.                                                   *)
LEMMA ExecuteKeeps ==
    ASSUME IInv, ExecuteFrame PROVE ExecuteInv'
  <1> USE DEF IInv, DirectoryInv, CredentialInv, ExecuteFrame, ExecuteInv
  <1>1. ProgressBounded' /\ RevisionsAllocated' /\ ReadingAllocated' /\ BatchBounded'
    BY DEF ProgressBounded, RevisionsAllocated, ReadingAllocated, PcReadDirectory, PcExecute,
           BatchBounded
  <1>2. AcceptedIsApplied' /\ TombstoneIsOlder' /\ BatchNotRead'
    BY DEF AcceptedIsApplied, TombstoneIsOlder, BatchNotRead, PcReadDirectory, PcExecute
  <1>3. TablesComplete' /\ CredentialBatchComplete'
    BY DEF TablesComplete, TableComplete, UsersRead, GroupsRead, OusRead, DirectoryRead, InBatch,
           DirectoryThreshold, CredentialBatchComplete, CredentialThreshold
  <1>4. StaleIsFresh' /\ StaleCredentialIsFresh'
    BY DEF StaleIsFresh, Fresh, StaleCredentialIsFresh, FreshCredential
  <1> QED BY <1>1, <1>2, <1>3, <1>4

(* What a directory operation can do to the mirror: take an object, its    *)
(* placement or its members to the version of the batch, or move the       *)
(* account of a deletion out.                                              *)
DirectoryEffect ==
    /\ \A k \in Objects : adObject'[k] = adObject[k] \/ (batch[k] # 0 /\ adObject'[k] = batch[k])
    /\ \A k \in Linked :
         \/ adLinks'[k] = adLinks[k]
         \/ batch[k] # 0 /\ adLinks'[k] = batch[k]
         \/ k \in Users /\ batchDeleted[k] # 0 /\ batch[k] = 0 /\ adLinks'[k] = 0
    /\ UNCHANGED adPassword

(* The operations of a plan made from the batch have no other effect.      *)
LEMMA EffectShape ==
    ASSUME IInv, pc = "directory", NEW op \in todo,
           Effect(op) \/ PartialEffect(op) \/ UNCHANGED adVars
    PROVE  DirectoryEffect
  <1> USE DEF IInv, TypeOK, DirectoryEffect
  <1>0. /\ op \in Operation
        /\ op.kind = "RetireUser" => batchDeleted[op.subject] # 0 /\ batch[op.subject] = 0
        /\ op.kind # "RetireUser" => batch[op.subject] # 0
    BY DEF DirectoryInv, PlanFromBatch
  <1>1. CASE op.kind # "RetireUser" /\ Effect(op)
    BY <1>0, <1>1 DEF Effect
  <1>2. CASE op.kind = "RetireUser" /\ Effect(op)
    <2>1. op.subject \in Users
      BY <1>0, <1>2 DEF Operation
    <2> QED BY <1>0, <1>2, <2>1 DEF Effect
  <1>3. CASE PartialEffect(op) \/ UNCHANGED adVars
    BY <1>3 DEF PartialEffect
  <1> QED BY <1>1, <1>2, <1>3

(* It takes nothing back that is confirmed or about to be: what the batch  *)
(* holds is current, or Core's version is fresh.                           *)
LEMMA EffectKeeps ==
    ASSUME IInv, DirectoryEffect, UNCHANGED <<storeVars, domainVars, readVars, confirms>>
    PROVE  ConfirmationsCovered' /\ CredentialConfirmationsCovered' /\ MirrorNotAhead'
  <1> USE DEF IInv, DirectoryInv, CredentialInv, DirectoryEffect
  <1>1. ASSUME NEW r \in Nat, Covered(r),
               \A s \in Nat : Fresh(s) => s > r
        PROVE  Covered(r)'
    BY <1>1 DEF TypeOK, Covered, StaleIsFresh, Linked, Objects
  <1>2. ConfirmationsCovered'
    BY <1>1 DEF TypeOK, ConfirmationsCovered, Fresh
  <1>3. CredentialConfirmationsCovered'
    BY DEF CredentialConfirmationsCovered, CredentialsCovered
  <1>4. MirrorNotAhead'
    <2>1. ASSUME NEW k \in Objects, batch[k] # 0
          PROVE  batch[k] <= directoryRevision /\ (changed[k] # 0 => batch[k] <= changed[k])
      BY <2>1 DEF TypeOK, BatchBounded, RevisionsAllocated, StaleIsFresh, Fresh
    <2> QED BY <2>1 DEF TypeOK, MirrorNotAhead
  <1> QED BY <1>2, <1>3, <1>4

(* An operation's fields.                                                  *)
LEMMA OperationFields ==
    ASSUME NEW kinds, NEW k, NEW op,
           \E kind \in kinds : op = [kind |-> kind, subject |-> k]
    PROVE  op.kind \in kinds /\ op.subject = k
  OBVIOUS

(* An applied operation is done, and the others are done or still to do.   *)
LEMMA ApplyOperationPreserves ==
    ASSUME IInv, TypeOK', NEW op \in todo, ApplyOperation(op) PROVE IInv'
  <1> USE DEF ApplyOperation, OnlyExecution
  <1>1. ExecuteFrame
    BY DEF ExecuteFrame, PcExecute
  <1>2. DirectoryEffect
    BY EffectShape
  <1>3. ConfirmationsCovered' /\ CredentialConfirmationsCovered' /\ MirrorNotAhead'
    BY <1>2, EffectKeeps
  <1>4. PlanFromBatch' /\ CredentialProgressMade'
    BY DEF IInv, DirectoryInv, PlanFromBatch, CredentialProgressMade
  <1>5. PlanProgress'
    <2> USE DEF IInv, TypeOK, DirectoryInv, PlanProgress, PlanFromBatch, Todo, Effect
    <2>0. op \in Operation
      OBVIOUS
    <2>1. ASSUME NEW k \in Objects, batch[k] # 0
          PROVE  \/ adObject'[k] = batch[k]
                 \/ Todo("EnsureOu", k)' \/ Todo("EnsureUser", k)' \/ Todo("EnsureGroup", k)'
      <3>1. CASE adObject[k] = batch[k]
        BY <1>2, <3>1 DEF DirectoryEffect
      <3>2. CASE \E kind \in {"EnsureOu", "EnsureUser", "EnsureGroup"} :
                    op = [kind |-> kind, subject |-> k]
        <4>1. op.kind \in {"EnsureOu", "EnsureUser", "EnsureGroup"} /\ op.subject = k
          BY ONLY <3>2, OperationFields
        <4>2. adObject' = [adObject EXCEPT ![k] = batch[k]]
          BY <4>1
        <4> QED BY <4>2
      <3> QED BY <2>1, <3>1, <3>2
    <2>2. ASSUME NEW k \in Linked, batch[k] # 0
          PROVE  \/ adLinks'[k] = batch[k]
                 \/ Todo("EnsureUserPlacement", k)' \/ Todo("MoveUserToQuarantine", k)'
                 \/ Todo("EnsureGroupMembers", k)'
      <3>1. CASE adLinks[k] = batch[k]
        BY <1>2, <2>2, <3>1 DEF DirectoryEffect
      <3>2. CASE \E kind \in {"EnsureUserPlacement", "MoveUserToQuarantine", "EnsureGroupMembers"} :
                    op = [kind |-> kind, subject |-> k]
        <4>1. /\ op.kind \in {"EnsureUserPlacement", "MoveUserToQuarantine", "EnsureGroupMembers"}
              /\ op.subject = k
          BY ONLY <3>2, OperationFields
        <4>2. adLinks' = [adLinks EXCEPT ![k] = batch[k]]
          BY <4>1
        <4> QED BY <4>2
      <3> QED BY <2>2, <3>1, <3>2
    <2>3. ASSUME NEW u \in Users, batchDeleted[u] # 0, batch[u] = 0
          PROVE  adLinks'[u] = 0 \/ Todo("RetireUser", u)'
      <3>1. CASE adLinks[u] = 0
        BY <1>2, <2>3, <3>1 DEF DirectoryEffect, Linked
      <3>2. CASE op = [kind |-> "RetireUser", subject |-> u]
        BY <2>3, <3>2 DEF Linked
      <3> QED BY <2>3, <3>1, <3>2
    <2> QED BY <2>1, <2>2, <2>3
  <1> QED BY <1>1, <1>3, <1>4, <1>5, ExecuteKeeps DEF IInv, DirectoryInv, CredentialInv, ExecuteInv

(* A failed operation sends no confirmation.                               *)
LEMMA OperationFailsPreserves ==
    ASSUME IInv, TypeOK', NEW op \in todo, OperationFails(op) PROVE IInv'
  <1> USE DEF OperationFails, OnlyExecution
  <1>1. ExecuteFrame
    BY DEF ExecuteFrame, PcExecute
  <1>2. ConfirmationsCovered' /\ CredentialConfirmationsCovered' /\ MirrorNotAhead'
    BY EffectShape, EffectKeeps
  <1>3. PlanProgress' /\ PlanFromBatch' /\ CredentialProgressMade'
    BY DEF PlanProgress, PlanFromBatch, CredentialProgressMade
  <1> QED BY <1>1, <1>2, <1>3, ExecuteKeeps DEF IInv, DirectoryInv, CredentialInv, ExecuteInv

(* Skipping, planning and giving up on a session leave Active Directory    *)
(* alone.                                                                  *)
LEMMA PlanPreserves ==
    ASSUME IInv, TypeOK', SkipDirectory \/ PlanDirectory \/ PlanCredentials \/ DirectorySessionFails
    PROVE  IInv'
  <1> USE DEF SkipDirectory, PlanDirectory, PlanCredentials, DirectorySessionFails, OnlyPlan,
              OnlyExecution
  <1>1. ExecuteFrame
    BY DEF ExecuteFrame, PcExecute
  <1>2. ConfirmationsCovered' /\ CredentialConfirmationsCovered' /\ MirrorNotAhead'
    BY DEF IInv, DirectoryInv, CredentialInv, ConfirmationsCovered, Covered,
           CredentialConfirmationsCovered, CredentialsCovered, MirrorNotAhead
  <1>3. PlanProgress' /\ PlanFromBatch' /\ CredentialProgressMade'
    <2>1. CASE PlanDirectory
      <3>1. PlanProgress'
        BY <2>1 DEF IInv, TypeOK, PlanProgress, Todo, DirectoryPlan, Ensure, UsersWith, Status,
                    Linked, Objects
      <3>2. PlanFromBatch' /\ CredentialProgressMade'
        BY <2>1 DEF PlanFromBatch, DirectoryPlan, Ensure, UsersWith, CredentialProgressMade
      <3> QED BY <3>1, <3>2
    <2>2. CASE PlanCredentials
      BY <2>2 DEF PlanProgress, PlanFromBatch, CredentialProgressMade, SetPassword
    <2>3. CASE SkipDirectory \/ DirectorySessionFails
      BY <2>3 DEF PlanProgress, PlanFromBatch, CredentialProgressMade
    <2> QED BY <2>1, <2>2, <2>3
  <1> QED BY <1>1, <1>2, <1>3, ExecuteKeeps DEF IInv, DirectoryInv, CredentialInv, ExecuteInv

(* A password of the batch is current, or Core's is fresh.                 *)
LEMMA PasswordKeeps ==
    ASSUME IInv, NEW u \in Users, credentialBatch[u] # 0,
           adPassword' = [adPassword EXCEPT ![u] = credentialBatch[u]],
           UNCHANGED <<storeVars, domainVars, adObject, adLinks, confirms>>
    PROVE  /\ ConfirmationsCovered' /\ CredentialConfirmationsCovered'
           /\ adPassword'[u] <= credentialRevision
           /\ credential[u] # 0 => adPassword'[u] <= credential[u]
  <1> USE DEF IInv, DirectoryInv, CredentialInv
  <1>1. ConfirmationsCovered'
    BY DEF ConfirmationsCovered, Covered
  <1>2. ASSUME NEW r \in Nat, CredentialsCovered(r), \A s \in Nat : FreshCredential(s) => s > r
        PROVE  CredentialsCovered(r)'
    BY <1>2 DEF TypeOK, CredentialsCovered, StaleCredentialIsFresh
  <1>3. CredentialConfirmationsCovered'
    BY <1>2 DEF TypeOK, CredentialConfirmationsCovered, FreshCredential
  <1>4. /\ credentialBatch[u] <= credentialRevision
        /\ credential[u] # 0 => credentialBatch[u] <= credential[u]
    BY DEF TypeOK, BatchBounded, RevisionsAllocated, StaleCredentialIsFresh, FreshCredential
  <1> QED BY <1>1, <1>3, <1>4 DEF TypeOK

(* An applied password is done, and the others are done or still to do.    *)
LEMMA ApplyPasswordPreserves ==
    ASSUME IInv, TypeOK', NEW u \in Users, ApplyPassword(u) PROVE IInv'
  <1> USE DEF ApplyPassword, OnlyExecution
  <1>1. ExecuteFrame
    BY DEF ExecuteFrame, PcExecute
  <1>2. credentialBatch[u] # 0
    BY DEF IInv, DirectoryInv, PlanFromBatch, IsNextCredential, SetPassword
  <1>3. ConfirmationsCovered' /\ CredentialConfirmationsCovered'
    BY <1>2, PasswordKeeps
  <1>4. MirrorNotAhead'
    <2>1. /\ adPassword'[u] = credentialBatch[u] /\ adPassword'[u] <= credentialRevision
          /\ credential[u] # 0 => adPassword'[u] <= credential[u]
      BY <1>2, PasswordKeeps DEF IInv, TypeOK
    <2>2. \A v \in Users : v # u => adPassword'[v] = adPassword[v]
      BY DEF IInv, TypeOK
    <2> QED BY <2>1, <2>2 DEF IInv, TypeOK, MirrorNotAhead
  <1>5. PlanProgress' /\ PlanFromBatch' /\ CredentialProgressMade'
    BY DEF IInv, TypeOK, DirectoryInv, CredentialInv, PlanProgress, PlanFromBatch,
           CredentialProgressMade, SetPassword
  <1> QED
    BY <1>1, <1>3, <1>4, <1>5, ExecuteKeeps DEF IInv, DirectoryInv, CredentialInv, ExecuteInv

-----------------------------------------------------------------------------
(* Confirmation and the end of a run *)

(* With the whole batch executed, everything up to its revision is in      *)
(* Active Directory: up to the request's progress it was confirmed before, *)
(* and beyond it the batch is complete.                                    *)
LEMMA ExecutedIsCovered ==
    ASSUME IInv, pc = "directory", todo = {} PROVE Covered(batchRevision)
  <1> USE DEF IInv, DirectoryInv
  <1>1. ASSUME NEW r \in Nat, r # 0, r <= batchRevision, ~InBatch(r)
        PROVE  r <= appliedDirectory
    BY <1>1 DEF TypeOK, InBatch, DirectoryThreshold, ProgressBounded
  <1>2. ASSUME NEW k \in Objects, changed[k] # 0, changed[k] <= batchRevision
        PROVE  /\ adObject[k] = changed[k]
               /\ k \in Linked /\ ~Tombstoned(k) => adLinks[k] = changed[k]
    <2>1. CASE InBatch(changed[k])
      <3>1. batch[k] = changed[k]
        BY <2>1 DEF TablesComplete, TableComplete, UsersRead, GroupsRead, OusRead, PcExecute,
                    Objects
      <3> QED BY <1>2, <3>1 DEF PlanProgress, Todo
    <2>2. CASE ~InBatch(changed[k])
      BY <1>1, <1>2, <2>2 DEF TypeOK, ConfirmationsCovered, Covered
    <2> QED BY <2>1, <2>2
  <1>3. ASSUME NEW u \in Users, Deleted(u), deleted[u] <= batchRevision
        PROVE  adLinks[u] = 0
    <2>1. CASE InBatch(deleted[u])
      <3>1. batchDeleted[u] = deleted[u]
        BY <2>1 DEF TablesComplete, DirectoryRead, PcExecute
      <3>2. batch[u] = 0
        BY <1>3 DEF TypeOK, StaleIsFresh, Fresh
      <3> QED BY <1>3, <3>1, <3>2 DEF PlanProgress, Todo
    <2>2. CASE ~InBatch(deleted[u])
      BY <1>1, <1>3, <2>2 DEF TypeOK, ConfirmationsCovered, Covered
    <2> QED BY <2>1, <2>2
  <1> QED BY <1>2, <1>3 DEF Covered

(* The same for the passwords.                                             *)
LEMMA ExecutedCredentialsCovered ==
    ASSUME IInv, pc = "credentials", todo = {} PROVE CredentialsCovered(credentialBatchRevision)
  <1> USE DEF IInv, CredentialInv
  <1>1. ASSUME NEW u \in Users, credential[u] # 0, credential[u] <= credentialBatchRevision
        PROVE  adPassword[u] = credential[u]
    <2>1. CASE CredentialThreshold < credential[u]
      BY <1>1, <2>1 DEF CredentialBatchComplete, CredentialProgressMade, PcExecute
    <2>2. CASE ~(CredentialThreshold < credential[u])
      BY <1>1, <2>2 DEF TypeOK, CredentialThreshold, ProgressBounded,
                        CredentialConfirmationsCovered, CredentialsCovered
    <2> QED BY <2>1, <2>2
  <1> QED BY <1>1 DEF CredentialsCovered

(* Sending a confirmation of the batch just executed.                      *)
LEMMA FinishPreserves ==
    ASSUME IInv, TypeOK', FinishDirectory \/ FinishCredentials PROVE IInv'
  <1> USE DEF IInv, DirectoryInv, CredentialInv
  <1>1. /\ UNCHANGED <<storeVars, domainVars, stateFile, local, mode, readVars, todo, reply, adVars>>
        /\ pc \in {"directory", "credentials"}
        /\ pc' \in {"confirmDirectory", "planCredentials", "confirmCredential"}
    BY DEF FinishDirectory, FinishCredentials
  <1>2. \A m \in confirms' :
          \/ m \in confirms
          \/ m.channel = "Directory" /\ m.revision = batchRevision /\ Covered(batchRevision)
          \/ /\ m.channel = "Credential" /\ m.revision = credentialBatchRevision
             /\ CredentialsCovered(credentialBatchRevision)
    <2>1. CASE FinishDirectory
      <3>1. Covered(batchRevision)
        BY <2>1, ExecutedIsCovered DEF FinishDirectory
      <3> QED BY <2>1, <3>1 DEF FinishDirectory
    <2>2. CASE FinishCredentials
      <3>1. CredentialsCovered(credentialBatchRevision)
        BY <2>2, ExecutedCredentialsCovered DEF FinishCredentials
      <3> QED BY <2>2, <3>1 DEF FinishCredentials
    <2> QED BY <2>1, <2>2
  <1>3. ProgressBounded'
    BY <1>1, <1>2 DEF ProgressBounded, RevisionsAllocated
  <1>4. RevisionsAllocated' /\ ReadingAllocated' /\ BatchBounded' /\ MirrorNotAhead'
    BY <1>1 DEF RevisionsAllocated, ReadingAllocated, BatchBounded, MirrorNotAhead,
                PcReadDirectory
  <1>5. AcceptedIsApplied' /\ TombstoneIsOlder' /\ BatchNotRead'
    BY <1>1 DEF AcceptedIsApplied, TombstoneIsOlder, BatchNotRead, PcReadDirectory
  <1>6. TablesComplete' /\ CredentialBatchComplete'
    BY <1>1 DEF TablesComplete, TableComplete, UsersRead, GroupsRead, OusRead, DirectoryRead,
                InBatch, DirectoryThreshold, CredentialBatchComplete, CredentialThreshold, PcExecute
  <1>7. StaleIsFresh' /\ StaleCredentialIsFresh'
    <2>1. ASSUME NEW r, Fresh(r) PROVE Fresh(r)'
      BY <1>1, <1>2, <2>1 DEF Fresh
    <2>2. ASSUME NEW r, FreshCredential(r) PROVE FreshCredential(r)'
      BY <1>1, <1>2, <2>2 DEF FreshCredential
    <2> QED BY <1>1, <2>1, <2>2 DEF StaleIsFresh, StaleCredentialIsFresh
  <1>8. ConfirmationsCovered' /\ CredentialConfirmationsCovered'
    <2>1. ASSUME NEW r PROVE /\ Covered(r) => Covered(r)'
                             /\ CredentialsCovered(r) => CredentialsCovered(r)'
      BY <1>1 DEF Covered, CredentialsCovered
    <2> QED BY <1>1, <1>2, <2>1 DEF ConfirmationsCovered, CredentialConfirmationsCovered
  <1>9. PlanProgress' /\ PlanFromBatch' /\ CredentialProgressMade'
    BY <1>1 DEF PlanProgress, PlanFromBatch, CredentialProgressMade
  <1> QED BY <1>3, <1>4, <1>5, <1>6, <1>7, <1>8, <1>9

(* Core confirms only what is covered.                                     *)
LEMMA CoreConfirmPreserves ==
    ASSUME IInv, TypeOK', NEW m \in confirms, CoreConfirm(m) PROVE IInv'
  <1> USE DEF IInv, DirectoryInv, CredentialInv, CoreConfirm
  <1>0. m \in [channel : Channels, revision : Nat]
    BY DEF TypeOK
  <1>1. /\ \/ appliedDirectory' = appliedDirectory
           \/ /\ m.channel = "Directory" /\ appliedDirectory' = m.revision
              /\ appliedDirectory <= m.revision
        /\ \/ appliedCredential' = appliedCredential
           \/ /\ m.channel = "Credential" /\ appliedCredential' = m.revision
              /\ appliedCredential <= m.revision
    BY <1>0 DEF CanConfirm, Channels
  <1>2. ProgressBounded'
    <2>1. /\ appliedDirectory <= appliedDirectory' /\ appliedDirectory' <= directoryRevision
          /\ appliedCredential <= appliedCredential' /\ appliedCredential' <= credentialRevision
      BY <1>0, <1>1 DEF TypeOK, ProgressBounded
    <2> QED BY <2>1 DEF TypeOK, ProgressBounded
  <1>3. RevisionsAllocated' /\ ReadingAllocated' /\ BatchBounded' /\ MirrorNotAhead'
        /\ TombstoneIsOlder' /\ BatchNotRead'
    BY DEF RevisionsAllocated, ReadingAllocated, BatchBounded, MirrorNotAhead, TombstoneIsOlder,
           BatchNotRead
  <1>4. AcceptedIsApplied'
    <2>1. CASE Awaited(m) /\ CanConfirm(m)
      BY <2>1 DEF TypeOK, AcceptedIsApplied, Awaited, CanConfirm
    <2>2. CASE Awaited(m) /\ ~CanConfirm(m)
      BY <2>2 DEF AcceptedIsApplied
    <2>3. CASE ~Awaited(m)
      BY <1>0, <1>1, <2>3 DEF TypeOK, AcceptedIsApplied
    <2> QED BY <2>1, <2>2, <2>3
  <1>5. TablesComplete' /\ CredentialBatchComplete'
    BY DEF TablesComplete, TableComplete, DirectoryRead, InBatch, DirectoryThreshold,
           CredentialBatchComplete, CredentialThreshold
  <1>6. StaleIsFresh' /\ StaleCredentialIsFresh'
    <2>1. ASSUME NEW r, Fresh(r) PROVE Fresh(r)'
      BY <1>1, <2>1 DEF Fresh
    <2>2. ASSUME NEW r, FreshCredential(r) PROVE FreshCredential(r)'
      BY <1>1, <2>2 DEF FreshCredential
    <2> QED BY <2>1, <2>2 DEF StaleIsFresh, StaleCredentialIsFresh
  <1>7. ConfirmationsCovered' /\ CredentialConfirmationsCovered'
    <2>1. ASSUME NEW r PROVE /\ Covered(r) => Covered(r)'
                             /\ CredentialsCovered(r) => CredentialsCovered(r)'
      BY DEF Covered, CredentialsCovered
    <2> QED BY <1>1, <2>1 DEF ConfirmationsCovered, CredentialConfirmationsCovered
  <1>8. PlanProgress' /\ PlanFromBatch' /\ CredentialProgressMade'
    BY DEF PlanProgress, PlanFromBatch, CredentialProgressMade, Todo
  <1> QED BY <1>2, <1>3, <1>4, <1>5, <1>6, <1>7, <1>8

(* A run that ends forgets its batches.                                    *)
LEMMA EndRunPreserves ==
    ASSUME IInv, TypeOK', EndRun, UNCHANGED <<storeVars, domainVars, adObject>>,
           confirms' \subseteq confirms,
           stateFile'.directory <= appliedDirectory, stateFile'.credential <= appliedCredential,
           ConfirmationsCovered', CredentialConfirmationsCovered',
           \A u \in Users : /\ adPassword'[u] <= credentialRevision
                            /\ credential[u] # 0 => adPassword'[u] <= credential[u]
    PROVE  IInv'
  <1> USE DEF IInv, DirectoryInv, CredentialInv, EndRun
  <1>1. ProgressBounded' /\ RevisionsAllocated' /\ ReadingAllocated' /\ BatchBounded'
    BY DEF TypeOK, ProgressBounded, NoProgress, RevisionsAllocated, ReadingAllocated,
           PcReadDirectory, BatchBounded, NoRows, NoUserRows
  <1>2. AcceptedIsApplied' /\ TombstoneIsOlder' /\ BatchNotRead'
    BY DEF AcceptedIsApplied, TombstoneIsOlder, BatchNotRead
  <1>3. TablesComplete' /\ CredentialBatchComplete'
    BY DEF TablesComplete, TableComplete, UsersRead, GroupsRead, OusRead, DirectoryRead,
           CredentialBatchComplete, PcReadCredentials, PcExecute
  <1>4. StaleIsFresh' /\ StaleCredentialIsFresh'
    BY DEF StaleIsFresh, StaleCredentialIsFresh, NoRows, NoUserRows, Objects
  <1>5. PlanProgress' /\ PlanFromBatch' /\ CredentialProgressMade'
    BY DEF PlanProgress, PlanFromBatch, CredentialProgressMade
  <1>6. MirrorNotAhead'
    BY DEF MirrorNotAhead, NoRows, NoUserRows
  <1> QED BY <1>1, <1>2, <1>3, <1>4, <1>5, <1>6

(* The run goes on after a confirmation, or ends, with progress that is    *)
(* confirmed.                                                              *)
LEMMA ContinuePreserves ==
    ASSUME IInv, TypeOK', NEW l, Continue(l), confirms' \subseteq confirms,
           l.directory <= appliedDirectory, l.credential <= appliedCredential,
           stateFile'.directory <= appliedDirectory, stateFile'.credential <= appliedCredential,
           pc = "confirmDirectory" => l = local \/ l = [local EXCEPT !.directory = batchRevision]
    PROVE  IInv'
  <1> USE DEF IInv, DirectoryInv, CredentialInv, Continue
  <1>1. ConfirmationsCovered' /\ CredentialConfirmationsCovered'
    <2>1. ASSUME NEW r PROVE /\ Covered(r) => Covered(r)'
                             /\ CredentialsCovered(r) => CredentialsCovered(r)'
      BY DEF Covered, CredentialsCovered
    <2> QED BY <2>1 DEF ConfirmationsCovered, CredentialConfirmationsCovered
  <1>2. CASE pc = "confirmCredential"
    BY <1>1, <1>2, EndRunPreserves DEF MirrorNotAhead
  <1>3. CASE pc = "confirmDirectory"
    <2> USE <1>3
    <2>1. ProgressBounded' /\ RevisionsAllocated' /\ ReadingAllocated' /\ BatchBounded'
          /\ MirrorNotAhead'
      BY DEF ProgressBounded, RevisionsAllocated, ReadingAllocated, PcReadDirectory, BatchBounded,
             MirrorNotAhead
    <2>2. AcceptedIsApplied' /\ TombstoneIsOlder' /\ BatchNotRead'
      BY DEF AcceptedIsApplied, TombstoneIsOlder, BatchNotRead, PcReadDirectory
    <2>3. ASSUME NEW r \in Nat, InBatch(r)' PROVE InBatch(r)
      <3>1. CASE mode = "rebuild" \/ local' = local
        BY <2>3, <3>1 DEF InBatch, DirectoryThreshold
      <3>2. CASE mode # "rebuild" /\ local' = [local EXCEPT !.directory = batchRevision]
        <4>1. DirectoryThreshold' = batchRevision /\ batchRevision' = batchRevision
          BY <3>2 DEF TypeOK, DirectoryThreshold
        <4> QED BY <2>3, <4>1 DEF TypeOK, InBatch
      <3> QED BY <3>1, <3>2
    <2>4. CredentialThreshold' = CredentialThreshold
      BY DEF TypeOK, CredentialThreshold
    <2>5. TablesComplete' /\ CredentialBatchComplete'
      BY <2>3, <2>4 DEF TypeOK, Objects, TablesComplete, TableComplete, UsersRead, GroupsRead, OusRead,
                        DirectoryRead, CredentialBatchComplete, PcExecute
    <2>6. StaleIsFresh' /\ StaleCredentialIsFresh'
      BY DEF StaleIsFresh, Fresh, StaleCredentialIsFresh, FreshCredential
    <2>7. PlanProgress' /\ PlanFromBatch' /\ CredentialProgressMade'
      BY DEF PlanProgress, PlanFromBatch, CredentialProgressMade
    <2> QED BY <1>1, <2>1, <2>2, <2>5, <2>6, <2>7
  <1> QED BY <1>2, <1>3

-----------------------------------------------------------------------------
(* The invariant and what it implies *)

(* Nothing is written, read or confirmed at the start.                     *)
LEMMA InitInv == Init => IInv
  <1> SUFFICES ASSUME Init PROVE IInv
    OBVIOUS
  <1> USE DEF Init, StoreInit, NoRows, NoUserRows, NoProgress
  <1>1. TypeOK
    BY DEF TypeOK, AllActive, Status, FileKinds, Pcs
  <1>2. ProgressBounded /\ RevisionsAllocated /\ ReadingAllocated /\ BatchBounded
    BY DEF ProgressBounded, RevisionsAllocated, ReadingAllocated, BatchBounded, PcReadDirectory
  <1>3. AcceptedIsApplied /\ TombstoneIsOlder /\ BatchNotRead
    BY DEF AcceptedIsApplied, TombstoneIsOlder, BatchNotRead, Objects
  <1>4. TablesComplete /\ CredentialBatchComplete
    BY DEF TablesComplete, TableComplete, UsersRead, GroupsRead, OusRead, DirectoryRead,
           CredentialBatchComplete, PcReadCredentials, PcExecute
  <1>5. StaleIsFresh /\ StaleCredentialIsFresh /\ MirrorNotAhead
    BY DEF StaleIsFresh, StaleCredentialIsFresh, MirrorNotAhead, Objects
  <1>6. ConfirmationsCovered /\ CredentialConfirmationsCovered
    BY DEF ConfirmationsCovered, Covered, CredentialConfirmationsCovered, CredentialsCovered,
           Objects
  <1>7. PlanProgress /\ PlanFromBatch /\ CredentialProgressMade
    BY DEF PlanProgress, PlanFromBatch, CredentialProgressMade
  <1> QED BY <1>1, <1>2, <1>3, <1>4, <1>5, <1>6, <1>7 DEF IInv, DirectoryInv, CredentialInv

(* Every step preserves the invariant.                                     *)
LEMMA InvStep ==
    ASSUME IInv, [Next]_vars PROVE IInv'
  <1>t. TypeOK'
    BY TypeStep DEF IInv
  <1>c. ASSUME UNCHANGED <<storeVars, domainVars, adObject, adLinks, adPassword>>,
               confirms' \subseteq confirms
        PROVE  ConfirmationsCovered' /\ CredentialConfirmationsCovered'
    <2>1. ASSUME NEW r PROVE /\ Covered(r) => Covered(r)'
                             /\ CredentialsCovered(r) => CredentialsCovered(r)'
      BY <1>c DEF Covered, CredentialsCovered
    <2> QED BY <1>c, <2>1 DEF IInv, DirectoryInv, CredentialInv, ConfirmationsCovered,
                              CredentialConfirmationsCovered
  <1>1. ASSUME CoreWrite PROVE IInv'
    BY <1>1, <1>t, WriteShape, WritePreserves
    DEF IInv, TypeOK, RevisionsAllocated, StoreInv, CoreWrite
  <1>2. ASSUME LoadState \/ CoreRead PROVE IInv'
    BY <1>2, <1>t, LoadPreserves, ReadPreserves
  <1>3. ASSUME NEW op \in todo, ApplyOperation(op) \/ OperationFails(op) PROVE IInv'
    BY <1>3, <1>t, ApplyOperationPreserves, OperationFailsPreserves
  <1>4. ASSUME SkipDirectory \/ PlanDirectory \/ PlanCredentials \/ DirectorySessionFails PROVE IInv'
    BY <1>4, <1>t, PlanPreserves
  <1>5. ASSUME FinishDirectory \/ FinishCredentials PROVE IInv'
    BY <1>5, <1>t, FinishPreserves
  <1>6. ASSUME NEW u \in Users, ApplyPassword(u) PROVE IInv'
    BY <1>6, <1>t, ApplyPasswordPreserves
  <1>7. ASSUME NEW u \in Users, PasswordFails(u) PROVE IInv'
    <2> USE <1>7 DEF PasswordFails
    <2>1. credentialBatch[u] # 0
      BY DEF IInv, DirectoryInv, PlanFromBatch, IsNextCredential, SetPassword
    <2>2. /\ ConfirmationsCovered' /\ CredentialConfirmationsCovered'
          /\ adPassword'[u] <= credentialRevision
          /\ credential[u] # 0 => adPassword'[u] <= credential[u]
      BY <2>1, PasswordKeeps
    <2>3. \A v \in Users : v # u => adPassword'[v] = adPassword[v]
      BY DEF IInv, TypeOK
    <2>4. \A v \in Users : /\ adPassword'[v] <= credentialRevision
                           /\ credential[v] # 0 => adPassword'[v] <= credential[v]
      BY <2>2, <2>3 DEF IInv, MirrorNotAhead
    <2> QED BY <1>t, <2>2, <2>4, EndRunPreserves DEF IInv, ProgressBounded
  <1>8. ASSUME NothingToConfirm \/ Abandon \/ \E u \in Users : AccountMissing(u) PROVE IInv'
    <2>1. /\ EndRun
          /\ UNCHANGED <<storeVars, domainVars, stateFile, confirms, adVars>>
      BY <1>8 DEF NothingToConfirm, Abandon, AccountMissing
    <2>2. ConfirmationsCovered' /\ CredentialConfirmationsCovered'
      BY <1>c, <2>1
    <2> QED BY <1>t, <2>1, <2>2, EndRunPreserves DEF IInv, ProgressBounded, MirrorNotAhead
  <1>9. ASSUME ConfirmAccepted \/ SaveFails PROVE IInv'
    <2>1. /\ Continue(Advanced)
          /\ reply = "accepted" /\ UNCHANGED confirms
          /\ \/ stateFile' = stateFile
             \/ stateFile' = [kind |-> "saved", directory |-> Advanced.directory,
                              credential |-> Advanced.credential]
      BY <1>9 DEF ConfirmAccepted, SaveFails
    <2>2. Advanced.directory <= appliedDirectory /\ Advanced.credential <= appliedCredential
      BY <2>1 DEF IInv, TypeOK, AcceptedIsApplied, ProgressBounded, Advanced
    <2>3. stateFile'.directory <= appliedDirectory /\ stateFile'.credential <= appliedCredential
      BY <2>1, <2>2 DEF IInv, ProgressBounded
    <2> QED BY <1>t, <2>1, <2>2, <2>3, ContinuePreserves DEF Advanced
  <1>10. ASSUME ConfirmRejected \/ ConfirmTimesOut PROVE IInv'
    <2>1. Continue(local) /\ UNCHANGED stateFile /\ confirms' \subseteq confirms
      BY <1>10 DEF ConfirmRejected, ConfirmTimesOut
    <2> QED BY <1>t, <2>1, ContinuePreserves DEF IInv, ProgressBounded
  <1>11. ASSUME NEW kind \in {"absent", "damaged"}, LoseStateFile(kind) PROVE IInv'
    <2> USE <1>11 DEF LoseStateFile
    <2>1. ProgressBounded'
      BY DEF IInv, TypeOK, ProgressBounded
    <2>2. RevisionsAllocated' /\ ReadingAllocated' /\ BatchBounded' /\ AcceptedIsApplied'
          /\ TombstoneIsOlder' /\ MirrorNotAhead'
      BY DEF IInv, RevisionsAllocated, ReadingAllocated, BatchBounded, AcceptedIsApplied,
             TombstoneIsOlder, MirrorNotAhead
    <2>3. DirectoryInv'
      BY <1>c DEF IInv, DirectoryInv, BatchNotRead, TablesComplete, TableComplete, DirectoryRead,
             InBatch, DirectoryThreshold, StaleIsFresh, Fresh, PlanProgress, Todo, PlanFromBatch
    <2>4. CredentialInv'
      BY <1>c DEF IInv, CredentialInv, CredentialBatchComplete, CredentialThreshold,
             StaleCredentialIsFresh, FreshCredential, CredentialProgressMade
    <2> QED BY <1>t, <2>1, <2>2, <2>3, <2>4 DEF IInv
  <1>12. ASSUME NEW m \in confirms, CoreConfirm(m) PROVE IInv'
    BY <1>12, <1>t, CoreConfirmPreserves
  <1>13. ASSUME UNCHANGED vars PROVE IInv'
    <2> USE <1>13 DEF vars
    <2>1. ProgressBounded' /\ RevisionsAllocated' /\ ReadingAllocated' /\ BatchBounded'
          /\ AcceptedIsApplied' /\ TombstoneIsOlder' /\ MirrorNotAhead'
      BY DEF IInv, ProgressBounded, RevisionsAllocated, ReadingAllocated, BatchBounded,
             AcceptedIsApplied, TombstoneIsOlder, MirrorNotAhead
    <2>2. DirectoryInv'
      BY <1>c DEF IInv, DirectoryInv, BatchNotRead, TablesComplete, TableComplete, DirectoryRead,
             InBatch, DirectoryThreshold, StaleIsFresh, Fresh, PlanProgress, Todo, PlanFromBatch
    <2>3. CredentialInv'
      BY <1>c DEF IInv, CredentialInv, CredentialBatchComplete, CredentialThreshold,
             StaleCredentialIsFresh, FreshCredential, CredentialProgressMade
    <2> QED BY <1>t, <2>1, <2>2, <2>3 DEF IInv
  <1> QED
    BY <1>1, <1>2, <1>3, <1>4, <1>5, <1>6, <1>7, <1>8, <1>9, <1>10, <1>11, <1>12, <1>13
    DEF Next, SyncerStep, Execute, Faulty

(* The inductive invariant holds in every reachable state of the protocol, *)
(* whatever the interleaving of administrators' writes, reads, executions, *)
(* confirmations and faults.                                               *)
THEOREM InvariantHolds == Spec => []IInv
  <1>1. Init => IInv
    BY InitInv
  <1>2. IInv /\ [Next]_vars => IInv'
    BY InvStep
  <1> QED BY <1>1, <1>2, PTL DEF Spec

(* list_directory_changed_after reads its tables without a transaction;    *)
(* the directory batch it returns is complete all the same.                *)
THEOREM BatchesAreComplete == Spec => []BatchComplete
  <1>1. IInv => BatchComplete
    BY DEF IInv, DirectoryInv, BatchComplete, TablesComplete, TableComplete, UsersRead, GroupsRead,
           OusRead, DirectoryRead, Objects
  <1> QED BY <1>1, InvariantHolds, PTL

(* list_credentials_changed_after_for_domain misses no password either,    *)
(* whatever is written between its reads.                                  *)
THEOREM CredentialBatchesAreComplete == Spec => []CredentialBatchComplete
  <1>1. IInv => CredentialBatchComplete
    BY DEF IInv, CredentialInv
  <1> QED BY <1>1, InvariantHolds, PTL

(* A directory revision that Core recorded as applied is applied: every    *)
(* row up to it, with its placement or members.                            *)
THEOREM ConfirmationsAreTrue == Spec => []ConfirmedIsApplied
  <1>1. IInv => ConfirmedIsApplied
    BY DEF IInv, DirectoryInv, ConfirmationsCovered, Covered, ConfirmedIsApplied
  <1> QED BY <1>1, InvariantHolds, PTL

(* A deletion that Core recorded as applied left the account quarantined,  *)
(* and no late step moves it back.                                         *)
THEOREM DeletionsAreQuarantined == Spec => []ConfirmedDeletionIsQuarantined
  <1>1. IInv => ConfirmedDeletionIsQuarantined
    BY DEF IInv, DirectoryInv, ConfirmationsCovered, Covered, ConfirmedDeletionIsQuarantined
  <1> QED BY <1>1, InvariantHolds, PTL

(* A password whose revision Core recorded as applied is the account's.    *)
THEOREM ConfirmedPasswordsAreSet == Spec => []ConfirmedPasswordIsSet
  <1>1. IInv => ConfirmedPasswordIsSet
    BY DEF IInv, CredentialInv, CredentialConfirmationsCovered, CredentialsCovered,
           ConfirmedPasswordIsSet
  <1> QED BY <1>1, InvariantHolds, PTL

(* The Syncer's memory and its state file never run ahead of the domain's  *)
(* progress, nor that of Core, and a tombstone beside a row is the older.  *)
THEOREM ProgressIsBounded == Spec => [](ProgressBounded /\ TombstoneIsOlder)
  <1>1. IInv => ProgressBounded /\ TombstoneIsOlder
    BY DEF IInv
  <1> QED BY <1>1, InvariantHolds, PTL

(* runtime.rs and state.rs: whatever happened between a confirmation and   *)
(* the save of its progress, a Syncer that starts from its state file      *)
(* skips nothing that Active Directory does not hold.                      *)
THEOREM StateFileIsTrue == Spec => []SavedIsApplied
  <1>1. ASSUME IInv, NEW progress \in [directory : Nat, credential : Nat],
               progress.directory <= appliedDirectory, progress.credential <= appliedCredential
        PROVE  Applied(progress)
    <2>1. /\ changed \in [Objects -> Nat] /\ credential \in [Users -> Nat]
          /\ appliedDirectory \in Nat /\ appliedCredential \in Nat
      BY <1>1 DEF IInv, TypeOK
    <2>2. \A k \in Objects : changed[k] <= progress.directory => changed[k] <= appliedDirectory
      BY <1>1, <2>1
    <2>3. \A u \in Users :
             credential[u] <= progress.credential => credential[u] <= appliedCredential
      BY <1>1, <2>1
    <2>4. Covered(appliedDirectory) /\ CredentialsCovered(appliedCredential)
      BY <1>1 DEF IInv, DirectoryInv, ConfirmationsCovered, CredentialInv,
                  CredentialConfirmationsCovered
    <2> QED BY <2>2, <2>3, <2>4 DEF Applied, Covered, CredentialsCovered
  <1>2. ASSUME IInv PROVE SavedIsApplied
    <2>1. local \in [directory : Nat, credential : Nat]
      BY <1>2 DEF IInv, TypeOK
    <2>2. stateFile.directory \in Nat /\ stateFile.credential \in Nat
      BY <1>2 DEF IInv, TypeOK
    <2>3. /\ local.directory <= appliedDirectory /\ local.credential <= appliedCredential
          /\ stateFile.directory <= appliedDirectory /\ stateFile.credential <= appliedCredential
      BY <1>2 DEF IInv, ProgressBounded
    <2> DEFINE saved == [directory |-> stateFile.directory, credential |-> stateFile.credential]
    <2>4. Applied(saved)
      BY <1>1, <1>2, <2>2, <2>3
    <2>5. Applied(stateFile)
      BY <2>4 DEF Applied
    <2>6. Applied(local)
      BY <1>1, <1>2, <2>1, <2>3
    <2> QED BY <2>5, <2>6 DEF SavedIsApplied
  <1> QED BY <1>2, InvariantHolds, PTL

-----------------------------------------------------------------------------
(* What one step does to Active Directory *)

(* One step of the protocol copies at most one object or one password, to  *)
(* the version of the batch, and while it does so Core stands still.       *)
CopyObject(k) ==
    /\ batch[k] # 0
    /\ adObject' = [adObject EXCEPT ![k] = batch[k]]
    /\ UNCHANGED <<storeVars, domainVars, adPassword>>

CopyPassword(u) ==
    /\ credentialBatch[u] # 0
    /\ adPassword' = [adPassword EXCEPT ![u] = credentialBatch[u]]
    /\ UNCHANGED <<storeVars, domainVars, adObject>>

CoreStep == CoreWrite \/ \E m \in confirms : CoreConfirm(m)

(* Every step is one of Core, one of these copies, or leaves both alone.   *)
LEMMA StepShape ==
    ASSUME IInv, [Next]_vars
    PROVE  \/ CoreStep /\ UNCHANGED adVars
           \/ UNCHANGED <<storeVars, domainVars, adObject, adPassword>>
           \/ \E k \in Objects : CopyObject(k)
           \/ \E u \in Users : CopyPassword(u)
  <1> DEFINE Quiet == UNCHANGED <<storeVars, domainVars, adObject, adPassword>>
  <1>1. ASSUME CoreWrite PROVE UNCHANGED adVars
    BY <1>1 DEF CoreWrite, OnlyStore
  <1>2. ASSUME NEW m \in confirms, CoreConfirm(m) PROVE UNCHANGED adVars
    BY <1>2 DEF CoreConfirm
  <1>3. ASSUME LoadState \/ CoreRead PROVE Quiet
    BY <1>3, ReadShape DEF LoadState, ReadFrame
  <1>4. ASSUME SkipDirectory \/ PlanDirectory \/ PlanCredentials \/ DirectorySessionFails
               \/ FinishDirectory \/ FinishCredentials
        PROVE  Quiet
    BY <1>4 DEF SkipDirectory, PlanDirectory, PlanCredentials, DirectorySessionFails, OnlyPlan,
                OnlyExecution, FinishDirectory, FinishCredentials
  <1>5. ASSUME NothingToConfirm \/ Abandon \/ (\E u \in Users : AccountMissing(u))
               \/ (\E kind \in {"absent", "damaged"} : LoseStateFile(kind))
        PROVE  Quiet
    BY <1>5 DEF NothingToConfirm, Abandon, AccountMissing, LoseStateFile
  <1>6. ASSUME ConfirmAccepted \/ SaveFails \/ ConfirmRejected \/ ConfirmTimesOut PROVE Quiet
    BY <1>6 DEF ConfirmAccepted, SaveFails, ConfirmRejected, ConfirmTimesOut, Continue
  <1>7. ASSUME NEW op \in todo, ApplyOperation(op) \/ OperationFails(op)
        PROVE  Quiet \/ \E k \in Objects : CopyObject(k)
    <2>1. /\ UNCHANGED <<storeVars, domainVars>> /\ pc = "directory"
          /\ Effect(op) \/ PartialEffect(op) \/ UNCHANGED adVars
      BY <1>7 DEF ApplyOperation, OperationFails, OnlyExecution
    <2>2. op \in Operation /\ (op.kind # "RetireUser" => batch[op.subject] # 0)
      BY <2>1 DEF IInv, TypeOK, DirectoryInv, PlanFromBatch
    <2>3. op.kind \in {"EnsureOu", "EnsureGroup", "EnsureUser"} => op.subject \in Objects
      BY <2>2 DEF Operation, Objects
    <2>4. CASE Effect(op)
      BY <2>1, <2>2, <2>3, <2>4 DEF Effect, CopyObject
    <2>5. CASE PartialEffect(op) \/ UNCHANGED adVars
      BY <2>1, <2>5 DEF PartialEffect
    <2> QED BY <2>1, <2>4, <2>5
  <1>8. ASSUME NEW u \in Users, ApplyPassword(u) \/ PasswordFails(u) PROVE CopyPassword(u)
    <2>1. credentialBatch[u] # 0
      BY <1>8 DEF IInv, DirectoryInv, PlanFromBatch, ApplyPassword, PasswordFails,
                  IsNextCredential, SetPassword
    <2> QED BY <1>8, <2>1 DEF CopyPassword, ApplyPassword, PasswordFails, OnlyExecution
  <1>9. ASSUME UNCHANGED vars PROVE Quiet
    BY <1>9 DEF vars
  <1> QED
    BY <1>1, <1>2, <1>3, <1>4, <1>5, <1>6, <1>7, <1>8, <1>9
    DEF Next, SyncerStep, Execute, Faulty, CoreStep

(* No step takes an object or a password of Active Directory back to an    *)
(* older version: a retried, late or rebuilt batch never holds an older    *)
(* version than an earlier one applied.                                    *)
THEOREM MirrorNeverRegresses == Spec => DirectoryNeverRegresses
  <1>1. IInv /\ [Next]_vars =>
          [/\ \A k \in Objects : adObject'[k] >= adObject[k]
           /\ \A u \in Users : adPassword'[u] >= adPassword[u]]_vars
    <2> SUFFICES ASSUME IInv, [Next]_vars
                 PROVE  /\ \A k \in Objects : adObject'[k] >= adObject[k]
                        /\ \A u \in Users : adPassword'[u] >= adPassword[u]
      OBVIOUS
    <2>1. CASE UNCHANGED <<adObject, adPassword>>
      BY <2>1 DEF IInv, TypeOK
    <2>2. ASSUME NEW k \in Objects, CopyObject(k)
          PROVE  /\ \A j \in Objects : adObject'[j] >= adObject[j]
                 /\ \A u \in Users : adPassword'[u] >= adPassword[u]
      BY <2>2 DEF IInv, TypeOK, MirrorNotAhead, CopyObject
    <2>3. ASSUME NEW u \in Users, CopyPassword(u)
          PROVE  /\ \A k \in Objects : adObject'[k] >= adObject[k]
                 /\ \A v \in Users : adPassword'[v] >= adPassword[v]
      BY <2>3 DEF IInv, TypeOK, MirrorNotAhead, CopyPassword
    <2> QED BY <2>1, <2>2, <2>3, StepShape
  <1> QED BY <1>1, InvariantHolds, PTL DEF Spec, DirectoryNeverRegresses

-----------------------------------------------------------------------------
(* Refinement *)

(* The directory channel keeps the promise of ChannelPromise: every step   *)
(* is a write, a removal, a copy of a version that is not older, a         *)
(* confirmation of what is copied, or no step of the channel at all.       *)
THEOREM DirectoryPromiseKept == Spec => DirectoryChannelKeepsPromise
  <1>1. Init => DirectoryChannel!Init
    BY DEF Init, StoreInit, DirectoryChannel!Init, NoRows
  <1>2. IInv /\ [Next]_vars => [DirectoryChannel!Next]_(DirectoryChannel!vars)
    <2> SUFFICES ASSUME IInv, [Next]_vars
                 PROVE  DirectoryChannel!Next \/ UNCHANGED DirectoryChannel!vars
      OBVIOUS
    <2>1. ASSUME CoreWrite, UNCHANGED adVars
          PROVE  DirectoryChannel!Next \/ UNCHANGED DirectoryChannel!vars
      <3>1. WriteStep
        BY <2>1, WriteShape DEF IInv, TypeOK, RevisionsAllocated, StoreInv, CoreWrite
      <3> DEFINE W == {k \in Objects : changed'[k] = directoryRevision + 1}
                 R == {k \in Objects : changed'[k] = 0}
      <3>2. changed' \in [Objects -> Nat] /\ UNCHANGED appliedDirectory
        BY <2>1, TypeStep DEF IInv, TypeOK, CoreWrite, OnlyStore
      <3>3. CASE directoryRevision' = directoryRevision + 1
        <4>1. changed' = [k \in Objects |-> IF k \in W THEN directoryRevision + 1
                                            ELSE IF k \in R THEN 0 ELSE changed[k]]
          BY <3>1, <3>2, <3>3 DEF WriteStep, Rewritten
        <4>2. DirectoryChannel!Write(W, R)
          BY <2>1, <3>2, <3>3, <4>1 DEF DirectoryChannel!Write
        <4> QED BY <4>2 DEF DirectoryChannel!Next
      <3>4. CASE directoryRevision' = directoryRevision
        <4>1. changed' = [k \in Objects |-> IF k \in R THEN 0 ELSE changed[k]]
          BY <3>1, <3>2, <3>4 DEF WriteStep, Rewritten, IInv, TypeOK
        <4>2. DirectoryChannel!Remove(R)
          BY <2>1, <3>2, <3>4, <4>1 DEF DirectoryChannel!Remove
        <4> QED BY <4>2 DEF DirectoryChannel!Next
      <3> QED BY <3>1, <3>3, <3>4 DEF WriteStep
    <2>2. ASSUME NEW m \in confirms, CoreConfirm(m), UNCHANGED adVars
          PROVE  DirectoryChannel!Next \/ UNCHANGED DirectoryChannel!vars
      <3>1. CASE m.channel = "Directory" /\ CanConfirm(m)
        <4>1. /\ m.revision \in Nat /\ appliedDirectory <= m.revision
              /\ m.revision <= directoryRevision /\ Covered(m.revision)
          BY <3>1 DEF IInv, TypeOK, DirectoryInv, ConfirmationsCovered, CanConfirm
        <4>2. DirectoryChannel!Confirm(m.revision)
          BY <2>2, <3>1, <4>1 DEF CoreConfirm, DirectoryChannel!Confirm, Covered
        <4>3. m.revision \in appliedDirectory..directoryRevision
          BY <4>1 DEF IInv, TypeOK
        <4> QED BY <4>2, <4>3 DEF DirectoryChannel!Next
      <3>2. CASE ~(m.channel = "Directory" /\ CanConfirm(m))
        BY <2>2, <3>2 DEF CoreConfirm, DirectoryChannel!vars
      <3> QED BY <3>1, <3>2
    <2>3. ASSUME NEW k \in Objects, CopyObject(k) PROVE DirectoryChannel!Next
      <3>1. /\ batch[k] \in Nat /\ adObject[k] <= batch[k] /\ batch[k] <= directoryRevision
            /\ (changed[k] # 0 /\ changed[k] <= appliedDirectory) => batch[k] = changed[k]
        BY <2>3 DEF CopyObject, IInv, TypeOK, MirrorNotAhead, BatchBounded, RevisionsAllocated,
                    DirectoryInv, StaleIsFresh, Fresh
      <3>2. DirectoryChannel!Copy(k, batch[k])
        BY <2>3, <3>1 DEF CopyObject, DirectoryChannel!Copy
      <3>3. batch[k] \in 0..directoryRevision
        BY <3>1 DEF IInv, TypeOK
      <3> QED BY <3>2, <3>3 DEF DirectoryChannel!Next
    <2>4. ASSUME (\E u \in Users : CopyPassword(u))
                 \/ UNCHANGED <<storeVars, domainVars, adObject, adPassword>>
          PROVE  UNCHANGED DirectoryChannel!vars
      BY <2>4 DEF CopyPassword, DirectoryChannel!vars
    <2> QED BY <2>1, <2>2, <2>3, <2>4, StepShape DEF CoreStep
  <1> QED
    BY <1>1, <1>2, InvariantHolds, PTL DEF Spec, DirectoryChannelKeepsPromise, DirectoryChannel!Spec

(* The credential channel keeps it too.  Deleting a user removes its       *)
(* credential without a revision of this channel.                          *)
THEOREM CredentialPromiseKept == Spec => CredentialChannelKeepsPromise
  <1>1. Init => CredentialChannel!Init
    BY DEF Init, StoreInit, CredentialChannel!Init, NoUserRows
  <1>2. IInv /\ [Next]_vars => [CredentialChannel!Next]_(CredentialChannel!vars)
    <2> SUFFICES ASSUME IInv, [Next]_vars
                 PROVE  CredentialChannel!Next \/ UNCHANGED CredentialChannel!vars
      OBVIOUS
    <2>1. ASSUME CoreWrite, UNCHANGED adVars
          PROVE  CredentialChannel!Next \/ UNCHANGED CredentialChannel!vars
      <3>1. WriteStep
        BY <2>1, WriteShape DEF IInv, TypeOK, RevisionsAllocated, StoreInv, CoreWrite
      <3> DEFINE W == {u \in Users : credential'[u] = credentialRevision + 1}
                 R == {u \in Users : credential'[u] = 0}
      <3>2. credential' \in [Users -> Nat] /\ UNCHANGED appliedCredential
        BY <2>1, TypeStep DEF IInv, TypeOK, CoreWrite, OnlyStore
      <3>3. CASE credentialRevision' = credentialRevision + 1
        <4>1. credential' = [u \in Users |-> IF u \in W THEN credentialRevision + 1
                                             ELSE IF u \in R THEN 0 ELSE credential[u]]
          BY <3>1, <3>2, <3>3 DEF WriteStep, Rewritten
        <4>2. CredentialChannel!Write(W, R)
          BY <2>1, <3>2, <3>3, <4>1 DEF CredentialChannel!Write
        <4> QED BY <4>2 DEF CredentialChannel!Next
      <3>4. CASE credentialRevision' = credentialRevision
        <4>1. credential' = [u \in Users |-> IF u \in R THEN 0 ELSE credential[u]]
          BY <3>1, <3>2, <3>4 DEF WriteStep, Rewritten, IInv, TypeOK
        <4>2. CredentialChannel!Remove(R)
          BY <2>1, <3>2, <3>4, <4>1 DEF CredentialChannel!Remove
        <4> QED BY <4>2 DEF CredentialChannel!Next
      <3> QED BY <3>1, <3>3, <3>4 DEF WriteStep
    <2>2. ASSUME NEW m \in confirms, CoreConfirm(m), UNCHANGED adVars
          PROVE  CredentialChannel!Next \/ UNCHANGED CredentialChannel!vars
      <3>1. CASE m.channel = "Credential" /\ CanConfirm(m)
        <4>1. /\ m.revision \in Nat /\ appliedCredential <= m.revision
              /\ m.revision <= credentialRevision /\ CredentialsCovered(m.revision)
          BY <3>1 DEF IInv, TypeOK, CredentialInv, CredentialConfirmationsCovered, CanConfirm
        <4>2. CredentialChannel!Confirm(m.revision)
          BY <2>2, <3>1, <4>1 DEF CoreConfirm, CredentialChannel!Confirm, CredentialsCovered
        <4>3. m.revision \in appliedCredential..credentialRevision
          BY <4>1 DEF IInv, TypeOK
        <4> QED BY <4>2, <4>3 DEF CredentialChannel!Next
      <3>2. CASE ~(m.channel = "Credential" /\ CanConfirm(m))
        BY <2>2, <3>2 DEF CoreConfirm, CredentialChannel!vars
      <3> QED BY <3>1, <3>2
    <2>3. ASSUME NEW u \in Users, CopyPassword(u) PROVE CredentialChannel!Next
      <3>1. /\ credentialBatch[u] \in Nat /\ adPassword[u] <= credentialBatch[u]
            /\ credentialBatch[u] <= credentialRevision
            /\ (credential[u] # 0 /\ credential[u] <= appliedCredential)
                 => credentialBatch[u] = credential[u]
        BY <2>3 DEF CopyPassword, IInv, TypeOK, MirrorNotAhead, BatchBounded, RevisionsAllocated,
                    CredentialInv, StaleCredentialIsFresh, FreshCredential
      <3>2. CredentialChannel!Copy(u, credentialBatch[u])
        BY <2>3, <3>1 DEF CopyPassword, CredentialChannel!Copy
      <3>3. credentialBatch[u] \in 0..credentialRevision
        BY <3>1 DEF IInv, TypeOK
      <3> QED BY <3>2, <3>3 DEF CredentialChannel!Next
    <2>4. ASSUME (\E k \in Objects : CopyObject(k))
                 \/ UNCHANGED <<storeVars, domainVars, adObject, adPassword>>
          PROVE  UNCHANGED CredentialChannel!vars
      BY <2>4 DEF CopyObject, CredentialChannel!vars
    <2> QED BY <2>1, <2>2, <2>3, <2>4, StepShape DEF CoreStep
  <1> QED
    BY <1>1, <1>2, InvariantHolds, PTL
    DEF Spec, CredentialChannelKeepsPromise, CredentialChannel!Spec

=============================================================================
