------------------------- MODULE StoreTransactions -------------------------
(***************************************************************************)
(* The transactions behind the writes of CoreStore.  Core runs many        *)
(* request handlers at once, each writing through a transaction of its own *)
(* in PostgreSQL at READ COMMITTED.  A transaction allocates its revision  *)
(* by reading sync_metadata and updating it where the revision is still    *)
(* the one it read; the update takes the row lock that it keeps until it   *)
(* ends.  When another transaction was faster it rolls back and starts     *)
(* again, a bounded number of times.  create_user_with_initial_credential  *)
(* deletes the user's tombstone before all that, and so locks the          *)
(* tombstone and sync_metadata in the opposite order to the others.        *)
(*                                                                         *)
(* What a transaction writes shows when it commits.  It reads the rows it  *)
(* depends on while it holds the lock of sync_metadata.                    *)
(***************************************************************************)
EXTENDS CoreStore

CONSTANTS
    Writers,      \* the request handlers that write
    NoWriter,
    MaxAttempts   \* MAX_REVISION_ALLOCATION_ATTEMPTS

ASSUME WritersAssumption == NoWriter \notin Writers /\ MaxAttempts \in Nat \ {0}

VARIABLES
    metadataLock,   \* the transaction that updated the row of sync_metadata
    tombstoneLock,  \* the transaction that wrote a user's row of deleted_users
    pc, op,         \* each handler's place in its operation
    attempt,        \* the transaction it is on
    expected        \* the revision it read from sync_metadata

txVars == <<metadataLock, tombstoneLock, pc, op, attempt, expected>>
vars == <<storeVars, txVars>>

Write ==
    [kind : {"UpsertRow"}, subject : OrganizationalUnits \cup Groups, status : {"Active"}]
      \cup [kind : {"UpsertUser", "CreateUser"}, subject : Users, status : Status]
      \cup [kind : {"UpdateUserContact", "DeleteUser", "ChangeUserPassword"},
            subject : Users, status : {"Active"}]
      \cup [kind : {"DeleteOu"}, subject : OrganizationalUnits, status : {"Active"}]
NoWrite == [kind |-> "None", subject |-> NoWriter, status |-> "Active"]

Pcs == {"idle", "clear", "load", "allocate", "write", "commit"}

TypeOK ==
    /\ StoreTypeOK
    /\ metadataLock \in Writers \cup {NoWriter}
    /\ tombstoneLock \in [Users -> Writers \cup {NoWriter}]
    /\ pc \in [Writers -> Pcs]
    /\ op \in [Writers -> Write \cup {NoWrite}]
    /\ attempt \in [Writers -> 0..MaxAttempts]
    /\ expected \in [Writers -> Nat]

Init ==
    /\ StoreInit
    /\ metadataLock = NoWriter
    /\ tombstoneLock = [u \in Users |-> NoWriter]
    /\ pc = [w \in Writers |-> "idle"]
    /\ op = [w \in Writers |-> NoWrite]
    /\ attempt = [w \in Writers |-> 0]
    /\ expected = [w \in Writers |-> 0]

-----------------------------------------------------------------------------
(* The end of a transaction releases its locks.                            *)
ReleaseLocks(w) ==
    /\ metadataLock' = IF metadataLock = w THEN NoWriter ELSE metadataLock
    /\ tombstoneLock' = [u \in Users |-> IF tombstoneLock[u] = w THEN NoWriter
                                                                 ELSE tombstoneLock[u]]

(* The handler returns.                                                    *)
Return(w) ==
    /\ pc' = [pc EXCEPT ![w] = "idle"]
    /\ op' = [op EXCEPT ![w] = NoWrite]
    /\ attempt' = [attempt EXCEPT ![w] = 0]
    /\ expected' = [expected EXCEPT ![w] = 0]

(* Mutant: a handler returns while its transaction stays open.             *)
Rollback_LeavesOpen(w) ==
    /\ Return(w)
    /\ UNCHANGED <<storeVars, metadataLock, tombstoneLock>>

(* The transaction leaves no trace, and the handler returns an error, or   *)
(* "not found", or "already exists".                                       *)
Rollback(w) ==
    /\ ReleaseLocks(w)
    /\ Return(w)
    /\ UNCHANGED storeVars

FirstStep(o) == IF o.kind = "CreateUser" THEN "clear" ELSE "load"

Begin(w, o) ==
    /\ pc[w] = "idle"
    /\ pc' = [pc EXCEPT ![w] = FirstStep(o)]
    /\ op' = [op EXCEPT ![w] = o]
    /\ attempt' = [attempt EXCEPT ![w] = 1]
    /\ UNCHANGED <<storeVars, metadataLock, tombstoneLock, expected>>

(* clear_deleted_user in create_user_with_initial_credential.  Only a row  *)
(* that is committed can be deleted, and its lock is waited for.           *)
ClearTombstone(w) ==
    LET u == op[w].subject
    IN  /\ pc[w] = "clear"
        /\ tombstoneLock[u] = NoWriter
        /\ tombstoneLock' = IF deleted[u] # 0 THEN [tombstoneLock EXCEPT ![u] = w]
                                              ELSE tombstoneLock
        /\ pc' = [pc EXCEPT ![w] = "load"]
        /\ UNCHANGED <<storeVars, metadataLock, op, attempt, expected>>

IsPasswordChange(o) == o.kind = "ChangeUserPassword"
CurrentRevision(o) == IF IsPasswordChange(o) THEN credentialRevision ELSE directoryRevision
LastRevision(o) == IF IsPasswordChange(o) THEN MaxCredentialRevision ELSE MaxDirectoryRevision

(* load_metadata, and checked_add on the revision it read.                 *)
LoadMetadata(w) ==
    /\ pc[w] = "load"
    /\ CurrentRevision(op[w]) < LastRevision(op[w])
    /\ expected' = [expected EXCEPT ![w] = CurrentRevision(op[w])]
    /\ pc' = [pc EXCEPT ![w] = "allocate"]
    /\ UNCHANGED <<storeVars, metadataLock, tombstoneLock, op, attempt>>

RevisionsExhausted(w) ==
    /\ pc[w] = "load"
    /\ CurrentRevision(op[w]) = LastRevision(op[w])
    /\ Rollback(w)

(* Mutant: the update has no WHERE on the revision.                        *)
AllocateRevision_Blind(w) ==
    /\ pc[w] = "allocate" /\ metadataLock = NoWriter
    /\ metadataLock' = w
    /\ pc' = [pc EXCEPT ![w] = "write"]
    /\ UNCHANGED <<storeVars, tombstoneLock, op, attempt, expected>>

(* The compare-and-update of sync_metadata: it waits for the row lock, and *)
(* compares with the revision it then finds.                               *)
AllocateRevision(w) ==
    /\ pc[w] = "allocate" /\ metadataLock = NoWriter
    /\ expected[w] = CurrentRevision(op[w])
    /\ metadataLock' = w
    /\ pc' = [pc EXCEPT ![w] = "write"]
    /\ UNCHANGED <<storeVars, tombstoneLock, op, attempt, expected>>

(* It updates no row: roll back and try again.                             *)
Retry(w) ==
    /\ pc[w] = "allocate" /\ metadataLock = NoWriter
    /\ expected[w] # CurrentRevision(op[w])
    /\ attempt[w] < MaxAttempts
    /\ ReleaseLocks(w)
    /\ pc' = [pc EXCEPT ![w] = FirstStep(op[w])]
    /\ attempt' = [attempt EXCEPT ![w] = attempt[w] + 1]
    /\ UNCHANGED <<storeVars, op, expected>>

GiveUp(w) ==
    /\ pc[w] = "allocate" /\ metadataLock = NoWriter
    /\ expected[w] # CurrentRevision(op[w])
    /\ attempt[w] = MaxAttempts
    /\ Rollback(w)

(* Mutant: a user that another handler has deleted is not missed.          *)
Possible_IgnoresRow(o) ==
    o.kind = "CreateUser" => /\ changed[o.subject] = 0 /\ credential[o.subject] = 0
                             /\ credentialRevision < MaxCredentialRevision

(* What the operation asks of the rows it finds.  Creating a user also     *)
(* allocates a credential revision, under the lock it already has, and     *)
(* inserts the credential, which fails when a row is there.                *)
Possible(o) ==
    /\ o.kind = "CreateUser" => /\ changed[o.subject] = 0 /\ credential[o.subject] = 0
                                /\ credentialRevision < MaxCredentialRevision
    /\ o.kind \in {"UpdateUserContact", "DeleteUser", "DeleteOu"} => changed[o.subject] # 0

Reject(w) ==
    /\ pc[w] = "write" /\ ~Possible(op[w])
    /\ Rollback(w)

(* The statements after the allocation.  Upserting or deleting a user      *)
(* writes the user's tombstone row, and waits for its lock if there is one.*)
WriteRows(w) ==
    LET u == op[w].subject
        tombstone == op[w].kind \in {"UpsertUser", "DeleteUser"}
    IN  /\ pc[w] = "write" /\ Possible(op[w])
        /\ tombstone => tombstoneLock[u] = NoWriter
        /\ tombstoneLock' = IF tombstone /\ deleted[u] # 0
                            THEN [tombstoneLock EXCEPT ![u] = w] ELSE tombstoneLock
        /\ pc' = [pc EXCEPT ![w] = "commit"]
        /\ UNCHANGED <<storeVars, metadataLock, op, attempt, expected>>

-----------------------------------------------------------------------------
(* What the operation's statements wrote, stamped with the revision that   *)
(* was allocated from the one read.                                        *)
CommitUpsertRow(k, revision) ==
    /\ directoryRevision' = revision
    /\ changed' = [changed EXCEPT ![k] = revision]
    /\ UNCHANGED <<credentialRevision, deleted, status, credential>>

CommitUpsertUser(u, s, revision) ==
    /\ directoryRevision' = revision
    /\ changed' = [changed EXCEPT ![u] = revision]
    /\ deleted' = [deleted EXCEPT ![u] = 0]
    /\ status' = [status EXCEPT ![u] = s]
    /\ UNCHANGED <<credentialRevision, credential>>

CommitCreateUser(u, s, revision, cleared) ==
    /\ directoryRevision' = revision
    /\ credentialRevision' = credentialRevision + 1
    /\ changed' = [changed EXCEPT ![u] = revision]
    /\ deleted' = IF cleared THEN [deleted EXCEPT ![u] = 0] ELSE deleted
    /\ status' = [status EXCEPT ![u] = s]
    /\ credential' = [credential EXCEPT ![u] = credentialRevision + 1]

CommitDeleteOu(o, revision) ==
    /\ directoryRevision' = revision
    /\ changed' = [changed EXCEPT ![o] = 0]
    /\ UNCHANGED <<credentialRevision, deleted, status, credential>>

(* Mutant: the row stays beside its tombstone.                             *)
CommitDeleteUser_KeepsRow(u, revision) ==
    /\ directoryRevision' = revision
    /\ deleted' = [deleted EXCEPT ![u] = revision]
    /\ credential' = [credential EXCEPT ![u] = 0]
    /\ UNCHANGED <<changed, credentialRevision, status>>

(* The groups that list the user are rewritten without it.                 *)
CommitDeleteUser(u, revision) ==
    /\ directoryRevision' = revision
    /\ \E G \in SUBSET {g \in Groups : changed[g] # 0} :
         changed' = [k \in Objects |-> IF k = u THEN 0 ELSE IF k \in G THEN revision
                                                                       ELSE changed[k]]
    /\ deleted' = [deleted EXCEPT ![u] = revision]
    /\ credential' = [credential EXCEPT ![u] = 0]
    /\ UNCHANGED <<credentialRevision, status>>

CommitChangeUserPassword(u, revision) ==
    /\ credentialRevision' = revision
    /\ credential' = [credential EXCEPT ![u] = revision]
    /\ UNCHANGED <<directoryRevision, changed, deleted, status>>

Commit(w) ==
    LET o == op[w]
        revision == expected[w] + 1
    IN  /\ pc[w] = "commit"
        /\ \/ o.kind \in {"UpsertRow", "UpdateUserContact"} /\ CommitUpsertRow(o.subject, revision)
           \/ o.kind = "UpsertUser" /\ CommitUpsertUser(o.subject, o.status, revision)
           \/ /\ o.kind = "CreateUser"
              /\ CommitCreateUser(o.subject, o.status, revision, tombstoneLock[o.subject] = w)
           \/ o.kind = "DeleteOu" /\ CommitDeleteOu(o.subject, revision)
           \/ o.kind = "DeleteUser" /\ CommitDeleteUser(o.subject, revision)
           \/ o.kind = "ChangeUserPassword" /\ CommitChangeUserPassword(o.subject, revision)
        /\ ReleaseLocks(w)
        /\ Return(w)

-----------------------------------------------------------------------------
(* A statement fails, the connection is lost, the request is cancelled or  *)
(* Core stops.                                                             *)
Abort(w) == pc[w] # "idle" /\ Rollback(w)

(* A transaction waits for the lock of another one.                        *)
WaitsFor(w, v) ==
    \/ pc[w] = "clear" /\ tombstoneLock[op[w].subject] = v
    \/ pc[w] = "allocate" /\ metadataLock = v
    \/ /\ pc[w] = "write" /\ op[w].kind \in {"UpsertUser", "DeleteUser"} /\ Possible(op[w])
       /\ tombstoneLock[op[w].subject] = v

(* PostgreSQL breaks a cycle of waiting transactions.                      *)
DeadlockVictim(w) ==
    /\ \E v \in Writers : v # w /\ WaitsFor(w, v) /\ WaitsFor(v, w)
    /\ Rollback(w)

Step(w) ==
    \/ ClearTombstone(w) \/ LoadMetadata(w) \/ RevisionsExhausted(w)
    \/ AllocateRevision(w) \/ Retry(w) \/ GiveUp(w)
    \/ Reject(w) \/ WriteRows(w) \/ Commit(w)

Next ==
    \E w \in Writers :
        \/ \E o \in Write : Begin(w, o)
        \/ Step(w)
        \/ DeadlockVictim(w)
        \/ Abort(w)

Spec == Init /\ [][Next]_vars

(* Handlers go on, a row lock is granted in the order of the requests, and *)
(* PostgreSQL looks for deadlocks.                                         *)
FairSpec ==
    /\ Spec
    /\ \A w \in Writers : SF_vars(Step(w)) /\ WF_vars(DeadlockVictim(w))

-----------------------------------------------------------------------------
(* The transaction that holds sync_metadata, and no other, is past its     *)
(* allocation; the revision it will commit is the one after the last       *)
(* committed, so revisions appear in order and none twice; and what it     *)
(* found possible is still possible when it commits.                       *)
HolderIsNext ==
    \A w \in Writers :
        /\ pc[w] \in {"write", "commit"} <=> metadataLock = w
        /\ metadataLock = w => expected[w] = CurrentRevision(op[w])
        /\ pc[w] \in {"allocate", "write", "commit"} => expected[w] < LastRevision(op[w])
        /\ pc[w] = "commit" => Possible(op[w])

(* The inductive invariant.                                                *)
TxInv == TypeOK /\ HolderIsNext

(* Transactions that run side by side, retry, fail or are aborted do what  *)
(* the single steps of CoreStore do, one after another.                    *)
TransactionsAreAtomic == StoreSpec

(* Every handler returns, however its transaction ends: retries are        *)
(* bounded and no lock is left behind.                                     *)
EveryTransactionEnds == \A w \in Writers : (pc[w] # "idle") ~> (pc[w] = "idle")

=============================================================================
