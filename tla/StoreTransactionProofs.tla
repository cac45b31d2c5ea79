----------------------- MODULE StoreTransactionProofs -----------------------
(***************************************************************************)
(* The transactions of StoreTransactions implement the atomic writes of    *)
(* CoreStore, for any number of handlers, retries and revisions.           *)
(***************************************************************************)
EXTENDS StoreTransactions, CoreStoreProofs

(* The steps that end a transaction without a trace.                       *)
RollsBack(w) == pc[w] # "idle" /\ Rollback(w)

(* The kind of a write determines what its subject is.                     *)
LEMMA Subjects ==
    ASSUME TypeOK, NEW w \in Writers
    PROVE  /\ op[w].kind = "UpsertRow" => op[w].subject \in OrganizationalUnits \cup Groups
           /\ op[w].kind = "DeleteOu" => op[w].subject \in OrganizationalUnits
           /\ op[w].kind \in {"UpsertUser", "CreateUser", "UpdateUserContact", "DeleteUser",
                              "ChangeUserPassword"} => op[w].subject \in Users
           /\ op[w].status \in Status
  BY DEF TypeOK, Write, NoWrite, Status

(* Every step begins, goes on, rolls back or commits.                      *)
LEMMA NextShape ==
    ASSUME Next
    PROVE  \E w \in Writers :
             \/ \E o \in Write : Begin(w, o)
             \/ ClearTombstone(w) \/ LoadMetadata(w) \/ AllocateRevision(w) \/ Retry(w)
             \/ WriteRows(w) \/ RollsBack(w) \/ Commit(w)
  BY DEF Next, Step, RollsBack, RevisionsExhausted, GiveUp, Reject, DeadlockVictim, WaitsFor, Abort

(* A commit is a step of the abstract store: the committing transaction    *)
(* holds sync_metadata, so the revision it read is current and its checks  *)
(* still hold.                                                             *)
LEMMA CommitIsStoreStep ==
    ASSUME TxInv, NEW w \in Writers, Commit(w) PROVE StoreNext
  <1> DEFINE o == op[w]
  <1>1. /\ expected[w] = CurrentRevision(o) /\ expected[w] < LastRevision(o) /\ Possible(o)
    BY DEF TxInv, HolderIsNext, Commit
  <1>2. CASE o.kind \in {"UpsertRow", "UpdateUserContact"} /\ CommitUpsertRow(o.subject, expected[w] + 1)
    <2>1. AllocateDirectoryRevision
      BY <1>1, <1>2 DEF CommitUpsertRow, CurrentRevision, LastRevision, IsPasswordChange,
                        AllocateDirectoryRevision
    <2>2. CASE o.kind = "UpsertRow"
      BY <1>2, <2>1, <2>2, Subjects DEF TxInv, CommitUpsertRow, UpsertRow, StoreNext
    <2>3. CASE o.kind = "UpdateUserContact"
      BY <1>1, <1>2, <2>1, <2>3, Subjects
      DEF TxInv, CommitUpsertRow, UpdateUserContact, Possible, StoreNext
    <2> QED BY <1>2, <2>2, <2>3
  <1>3. CASE o.kind = "UpsertUser" /\ CommitUpsertUser(o.subject, o.status, expected[w] + 1)
    BY <1>1, <1>3, Subjects
    DEF TxInv, CommitUpsertUser, UpsertUser, CurrentRevision, LastRevision, IsPasswordChange,
        AllocateDirectoryRevision, StoreNext
  <1>4. CASE /\ o.kind = "CreateUser"
             /\ CommitCreateUser(o.subject, o.status, expected[w] + 1, tombstoneLock[o.subject] = w)
    BY <1>1, <1>4, Subjects
    DEF TxInv, CommitCreateUser, CreateUser, CurrentRevision, LastRevision, IsPasswordChange,
        Possible, AllocateDirectoryRevision, AllocateCredentialRevision, StoreNext
  <1>5. CASE o.kind = "DeleteOu" /\ CommitDeleteOu(o.subject, expected[w] + 1)
    BY <1>1, <1>5, Subjects
    DEF TxInv, CommitDeleteOu, DeleteOu, CurrentRevision, LastRevision, IsPasswordChange,
        Possible, AllocateDirectoryRevision, StoreNext
  <1>6. CASE o.kind = "DeleteUser" /\ CommitDeleteUser(o.subject, expected[w] + 1)
    <2>1. PICK G \in SUBSET {g \in Groups : changed[g] # 0} :
            changed' = [k \in Objects |-> IF k = o.subject THEN 0
                                          ELSE IF k \in G THEN expected[w] + 1 ELSE changed[k]]
      BY <1>6 DEF CommitDeleteUser
    <2>2. directoryRevision' = expected[w] + 1 /\ AllocateDirectoryRevision
      BY <1>1, <1>6 DEF CommitDeleteUser, CurrentRevision, LastRevision, IsPasswordChange,
                        AllocateDirectoryRevision
    <2>3. DeleteUser(o.subject, G)
      BY <1>1, <1>6, <2>1, <2>2 DEF CommitDeleteUser, DeleteUser, Possible
    <2> QED BY <1>6, <2>3, Subjects DEF TxInv, StoreNext
  <1>7. CASE o.kind = "ChangeUserPassword" /\ CommitChangeUserPassword(o.subject, expected[w] + 1)
    BY <1>1, <1>7, Subjects
    DEF TxInv, CommitChangeUserPassword, ChangeUserPassword, CurrentRevision, LastRevision,
        IsPasswordChange, AllocateCredentialRevision, StoreNext
  <1> QED BY <1>2, <1>3, <1>4, <1>5, <1>6, <1>7 DEF Commit

(* The steps before the commit leave the store alone.                      *)
LEMMA StoreStandsStill ==
    ASSUME NEW w \in Writers,
           \/ \E o \in Write : Begin(w, o)
           \/ ClearTombstone(w) \/ LoadMetadata(w) \/ AllocateRevision(w) \/ Retry(w)
           \/ WriteRows(w) \/ RollsBack(w)
    PROVE  UNCHANGED storeVars
  BY DEF Begin, ClearTombstone, LoadMetadata, AllocateRevision, Retry, WriteRows, RollsBack, Rollback

(* Every step keeps the types.                                             *)
LEMMA TxTypeStep ==
    ASSUME TxInv, [Next]_vars PROVE TypeOK'
  <1> USE WritersAssumption DEF TxInv, TypeOK
  <1>1. ASSUME NEW w \in Writers, NEW o \in Write, Begin(w, o) PROVE TypeOK'
    BY <1>1 DEF Begin, storeVars, StoreTypeOK, FirstStep, Pcs
  <1>2. ASSUME NEW w \in Writers, ClearTombstone(w) \/ LoadMetadata(w) \/ AllocateRevision(w)
        PROVE  TypeOK'
    BY <1>2 DEF ClearTombstone, LoadMetadata, AllocateRevision, storeVars, StoreTypeOK,
                CurrentRevision, Pcs
  <1>3. ASSUME NEW w \in Writers, Retry(w) PROVE TypeOK'
    BY <1>3 DEF Retry, ReleaseLocks, storeVars, StoreTypeOK, FirstStep, Pcs
  <1>4. ASSUME NEW w \in Writers, WriteRows(w) PROVE TypeOK'
    BY <1>4 DEF WriteRows, storeVars, StoreTypeOK, Pcs
  <1>5. ASSUME NEW w \in Writers, ReleaseLocks(w), Return(w), StoreTypeOK' PROVE TypeOK'
    BY <1>5 DEF ReleaseLocks, Return, Pcs
  <1>6. ASSUME NEW w \in Writers, RollsBack(w) PROVE TypeOK'
    BY <1>5, <1>6 DEF RollsBack, Rollback, storeVars, StoreTypeOK
  <1>7. ASSUME NEW w \in Writers, Commit(w) PROVE TypeOK'
    <2>1. StoreTypeOK'
      BY <1>7, CommitIsStoreStep, StoreTypeStep
    <2> QED BY <1>5, <1>7, <2>1 DEF Commit
  <1>8. CASE UNCHANGED vars
    BY <1>8 DEF vars, txVars, storeVars, StoreTypeOK
  <1> QED BY <1>1, <1>2, <1>3, <1>4, <1>6, <1>7, <1>8, NextShape

(* Every step keeps the lock discipline: one holder, with the next         *)
(* revision, whose checks stay valid until it commits.                     *)
LEMMA HolderStep ==
    ASSUME TxInv, [Next]_vars PROVE HolderIsNext'
  <1> USE WritersAssumption DEF TxInv
  <1>a. ASSUME UNCHANGED storeVars, NEW o
        PROVE  /\ CurrentRevision(o)' = CurrentRevision(o)
               /\ LastRevision(o)' = LastRevision(o)
               /\ Possible(o)' <=> Possible(o)
    BY <1>a DEF storeVars, CurrentRevision, LastRevision, Possible
  <1>1. ASSUME NEW w \in Writers, NEW o \in Write, Begin(w, o) PROVE HolderIsNext'
    BY <1>1, <1>a DEF TypeOK, Begin, FirstStep, HolderIsNext
  <1>2. ASSUME NEW w \in Writers, ClearTombstone(w) \/ LoadMetadata(w) PROVE HolderIsNext'
    BY <1>2, <1>a DEF TypeOK, ClearTombstone, LoadMetadata, HolderIsNext
  <1>3. ASSUME NEW w \in Writers, AllocateRevision(w) PROVE HolderIsNext'
    BY <1>3, <1>a DEF TypeOK, AllocateRevision, HolderIsNext
  <1>4. ASSUME NEW w \in Writers, Retry(w) PROVE HolderIsNext'
    BY <1>4, <1>a DEF TypeOK, Retry, ReleaseLocks, FirstStep, HolderIsNext
  <1>5. ASSUME NEW w \in Writers, WriteRows(w) PROVE HolderIsNext'
    BY <1>5, <1>a DEF TypeOK, WriteRows, HolderIsNext
  <1>6. ASSUME NEW w \in Writers, RollsBack(w) PROVE HolderIsNext'
    BY <1>6, <1>a DEF TypeOK, RollsBack, Rollback, ReleaseLocks, Return, HolderIsNext
  <1>7. ASSUME NEW w \in Writers, Commit(w) PROVE HolderIsNext'
    <2>1. metadataLock = w
      BY <1>7 DEF HolderIsNext, Commit
    <2>2. \A v \in Writers : pc'[v] \notin {"write", "commit"} /\ metadataLock' # v
      BY <1>7, <2>1 DEF TypeOK, HolderIsNext, Commit, ReleaseLocks, Return
    <2>3. \A v \in Writers : pc'[v] = "allocate" => expected'[v] < LastRevision(op[v])'
      BY <1>7 DEF TypeOK, HolderIsNext, Commit, Return, LastRevision
    <2> QED BY <2>2, <2>3 DEF HolderIsNext
  <1>8. CASE UNCHANGED vars
    BY <1>8, <1>a DEF vars, txVars, HolderIsNext
  <1> QED BY <1>1, <1>2, <1>3, <1>4, <1>5, <1>6, <1>7, <1>8, NextShape

(* The holder of sync_metadata will commit the next revision, whatever the *)
(* other handlers do.                                                      *)
THEOREM HolderCommitsNext == Spec => []TxInv
  <1>1. Init => TxInv
    BY WritersAssumption
    DEF Init, TxInv, TypeOK, HolderIsNext, StoreInit, StoreTypeOK, NoRows, NoUserRows, AllActive,
        Status, Pcs
  <1>2. TxInv /\ [Next]_vars => TxInv'
    BY TxTypeStep, HolderStep DEF TxInv
  <1> QED BY <1>1, <1>2, PTL DEF Spec

(* Concurrent transactions with bounded retries, roll backs and deadlock   *)
(* victims implement the atomic writes of CoreStore.                       *)
THEOREM StoreTransactionsAreAtomic == Spec => TransactionsAreAtomic
  <1>1. Init => StoreInit
    BY DEF Init
  <1>2. TxInv /\ [Next]_vars => [StoreNext]_storeVars
    BY NextShape, CommitIsStoreStep, StoreStandsStill DEF vars
  <1> QED BY <1>1, <1>2, HolderCommitsNext, PTL DEF Spec, TransactionsAreAtomic, StoreSpec

(* So a tombstone beside a row is older than the row in every interleaving *)
(* of the transactions.                                                    *)
THEOREM TombstonesStayOlder == Spec => []TombstoneIsOlder
  <1>1. StoreInv => TombstoneIsOlder
    BY DEF StoreInv
  <1> QED BY <1>1, StoreTransactionsAreAtomic, StoreInvariant, PTL DEF TransactionsAreAtomic

=============================================================================
