----------------------------- MODULE CoreStore -----------------------------
(***************************************************************************)
(* The part of Core's PostgreSQL store that synchronisation reads: the two *)
(* global revisions of sync_metadata, and for every organizational unit,   *)
(* user, group, tombstone and credential the revision of its last change.  *)
(* The operations are those of Repository that write these tables, each as *)
(* one atomic step; module StoreTransactions shows the transactions that   *)
(* implement them, module SyncProtocol the Syncer that reads the result.   *)
(*                                                                         *)
(* Data is abstracted to versions: the content of a row is named by the    *)
(* revision that wrote it, 0 standing for "no row".  A user's status is    *)
(* kept, because the credential channel acts on it.                        *)
(***************************************************************************)
EXTENDS Naturals

CONSTANTS
    OrganizationalUnits, Users, Groups,  \* the identifiers of the objects
    MaxDirectoryRevision,   \* the last directory revision: i64::MAX in the code
    MaxCredentialRevision   \* the last credential revision

Objects == OrganizationalUnits \cup Users \cup Groups

ASSUME ObjectsAssumption ==
    /\ OrganizationalUnits \cap Users = {}
    /\ OrganizationalUnits \cap Groups = {}
    /\ Users \cap Groups = {}

ASSUME RevisionsAssumption ==
    MaxDirectoryRevision \in Nat /\ MaxCredentialRevision \in Nat

VARIABLES
    directoryRevision, credentialRevision,  \* sync_metadata
    changed,      \* changed_revision of organizational_units, users and groups
    deleted,      \* changed_revision of deleted_users, the tombstones
    status,       \* users.status
    credential    \* changed_revision of user_credentials

storeVars == <<directoryRevision, credentialRevision, changed, deleted, status, credential>>

Status == {"Active", "Disabled"}

NoRows == [k \in Objects |-> 0]
NoUserRows == [u \in Users |-> 0]
AllActive == [u \in Users |-> "Active"]

StoreTypeOK ==
    /\ directoryRevision \in Nat /\ credentialRevision \in Nat
    /\ changed \in [Objects -> Nat] /\ deleted \in [Users -> Nat]
    /\ status \in [Users -> Status] /\ credential \in [Users -> Nat]

(* ensure_metadata on an empty database.                                   *)
StoreInit ==
    /\ directoryRevision = 0 /\ credentialRevision = 0
    /\ changed = NoRows /\ deleted = NoUserRows
    /\ status = AllActive /\ credential = NoUserRows

-----------------------------------------------------------------------------
(***************************************************************************)
(* Core's writes.  Each one allocates the next revision, or fails when     *)
(* there is none left, and stamps the rows it writes with it.              *)
(***************************************************************************)

AllocateDirectoryRevision ==
    /\ directoryRevision < MaxDirectoryRevision
    /\ directoryRevision' = directoryRevision + 1

AllocateCredentialRevision ==
    /\ credentialRevision < MaxCredentialRevision
    /\ credentialRevision' = credentialRevision + 1

(* Mutant: the row is stamped with the revision before the allocation.     *)
UpsertRow_OldRevision(k) ==
    /\ AllocateDirectoryRevision
    /\ changed' = [changed EXCEPT ![k] = directoryRevision]
    /\ UNCHANGED <<credentialRevision, deleted, status, credential>>

(* upsert_directory with one organizational unit or one group, the only    *)
(* shapes write_organizational_unit and write_group use.                   *)
UpsertRow(k) ==
    /\ AllocateDirectoryRevision
    /\ changed' = [changed EXCEPT ![k] = directoryRevision']
    /\ UNCHANGED <<credentialRevision, deleted, status, credential>>

(* upsert_directory with one user: update_user and the write of            *)
(* set_user_status.  It creates the row when there is none and clears the  *)
(* user's tombstone.                                                       *)
UpsertUser(u, s) ==
    /\ AllocateDirectoryRevision
    /\ changed' = [changed EXCEPT ![u] = directoryRevision']
    /\ deleted' = [deleted EXCEPT ![u] = 0]
    /\ status' = [status EXCEPT ![u] = s]
    /\ UNCHANGED <<credentialRevision, credential>>

(* create_user_with_initial_credential: fails when the user or its         *)
(* credential row exists.  It clears the tombstone before it takes the     *)
(* lock of sync_metadata, so a deletion that commits in between leaves its *)
(* tombstone beside the new row.                                           *)
CreateUser(u, s) ==
    /\ changed[u] = 0 /\ credential[u] = 0
    /\ AllocateDirectoryRevision
    /\ AllocateCredentialRevision
    /\ changed' = [changed EXCEPT ![u] = directoryRevision']
    /\ deleted' \in {[deleted EXCEPT ![u] = 0], deleted}
    /\ status' = [status EXCEPT ![u] = s]
    /\ credential' = [credential EXCEPT ![u] = credentialRevision']

(* update_user_contact: rolls back for an unknown user.                    *)
UpdateUserContact(u) ==
    /\ changed[u] # 0
    /\ AllocateDirectoryRevision
    /\ changed' = [changed EXCEPT ![u] = directoryRevision']
    /\ UNCHANGED <<credentialRevision, deleted, status, credential>>

(* delete_ou: allocates a revision, removes the row, leaves no tombstone.  *)
(* The emptiness check depends on placements, which are not kept here.     *)
DeleteOu(o) ==
    /\ changed[o] # 0
    /\ AllocateDirectoryRevision
    /\ changed' = [changed EXCEPT ![o] = 0]
    /\ UNCHANGED <<credentialRevision, deleted, status, credential>>

(* delete_user: removes the user and its credential, drops it from the     *)
(* groups G that list it, and records the tombstone, at one revision.      *)
DeleteUser(u, G) ==
    /\ changed[u] # 0
    /\ \A g \in G : changed[g] # 0
    /\ AllocateDirectoryRevision
    /\ changed' = [k \in Objects |->
                     IF k = u THEN 0 ELSE IF k \in G THEN directoryRevision' ELSE changed[k]]
    /\ deleted' = [deleted EXCEPT ![u] = directoryRevision']
    /\ credential' = [credential EXCEPT ![u] = 0]
    /\ UNCHANGED <<credentialRevision, status>>

(* Mutant: the credential is stamped with the revision before the          *)
(* allocation.                                                             *)
ChangeUserPassword_OldRevision(u) ==
    /\ AllocateCredentialRevision
    /\ credential' = [credential EXCEPT ![u] = credentialRevision]
    /\ UNCHANGED <<directoryRevision, changed, deleted, status>>

(* change_user_password: it does not look at the users table.              *)
ChangeUserPassword(u) ==
    /\ AllocateCredentialRevision
    /\ credential' = [credential EXCEPT ![u] = credentialRevision']
    /\ UNCHANGED <<directoryRevision, changed, deleted, status>>

StoreNext ==
    \/ \E k \in OrganizationalUnits \cup Groups : UpsertRow(k)
    \/ \E u \in Users, s \in Status : UpsertUser(u, s)
    \/ \E u \in Users, s \in Status : CreateUser(u, s)
    \/ \E u \in Users : UpdateUserContact(u)
    \/ \E o \in OrganizationalUnits : DeleteOu(o)
    \/ \E u \in Users, G \in SUBSET Groups : DeleteUser(u, G)
    \/ \E u \in Users : ChangeUserPassword(u)

StoreSpec == StoreInit /\ [][StoreNext]_storeVars

-----------------------------------------------------------------------------
Tombstoned(k) == k \in Users /\ deleted[k] # 0   \* possibly beside a row
Deleted(u) == deleted[u] # 0 /\ changed[u] = 0

(* A tombstone left beside a row is older than the row, so a batch that    *)
(* reaches the row never ends with the user retired.                       *)
TombstoneIsOlder == \A u \in Users : changed[u] # 0 => deleted[u] < changed[u]

(* Every revision in a row was allocated.                                  *)
StoreRevisionsAllocated ==
    /\ \A k \in Objects : changed[k] <= directoryRevision
    /\ \A u \in Users : deleted[u] <= directoryRevision /\ credential[u] <= credentialRevision

StoreInv == StoreTypeOK /\ StoreRevisionsAllocated /\ TombstoneIsOlder

=============================================================================
