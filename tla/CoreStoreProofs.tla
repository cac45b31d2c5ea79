-------------------------- MODULE CoreStoreProofs --------------------------
(***************************************************************************)
(* What the writes of CoreStore preserve, for every set of objects and     *)
(* every last revision.                                                    *)
(***************************************************************************)
EXTENDS CoreStore, TLAPS

(* A write keeps the types.                                                *)
LEMMA StoreTypeStep ==
    ASSUME StoreTypeOK, StoreNext PROVE StoreTypeOK'
  <1>1. ASSUME NEW k \in OrganizationalUnits \cup Groups, UpsertRow(k) PROVE StoreTypeOK'
    BY <1>1 DEF StoreTypeOK, UpsertRow, AllocateDirectoryRevision, Objects
  <1>2. ASSUME NEW u \in Users, NEW s \in Status, UpsertUser(u, s) PROVE StoreTypeOK'
    BY <1>2 DEF StoreTypeOK, UpsertUser, AllocateDirectoryRevision, Objects
  <1>3. ASSUME NEW u \in Users, NEW s \in Status, CreateUser(u, s) PROVE StoreTypeOK'
    BY <1>3 DEF StoreTypeOK, CreateUser, AllocateDirectoryRevision, AllocateCredentialRevision,
                Objects
  <1>4. ASSUME NEW u \in Users, UpdateUserContact(u) PROVE StoreTypeOK'
    BY <1>4 DEF StoreTypeOK, UpdateUserContact, AllocateDirectoryRevision, Objects
  <1>5. ASSUME NEW o \in OrganizationalUnits, DeleteOu(o) PROVE StoreTypeOK'
    BY <1>5 DEF StoreTypeOK, DeleteOu, AllocateDirectoryRevision, Objects
  <1>6. ASSUME NEW u \in Users, NEW G \in SUBSET Groups, DeleteUser(u, G) PROVE StoreTypeOK'
    BY <1>6 DEF StoreTypeOK, DeleteUser, AllocateDirectoryRevision, Objects
  <1>7. ASSUME NEW u \in Users, ChangeUserPassword(u) PROVE StoreTypeOK'
    BY <1>7 DEF StoreTypeOK, ChangeUserPassword, AllocateCredentialRevision
  <1> QED BY <1>1, <1>2, <1>3, <1>4, <1>5, <1>6, <1>7 DEF StoreNext

(* What the writes have in common: a row or tombstone is left alone, goes  *)
(* away, or gets a revision that was just allocated.                       *)
Rewritten(old, new, revision, nextRevision) ==
    \/ new \in {0, old}
    \/ new = nextRevision /\ revision < nextRevision

WriteStep ==
    /\ directoryRevision' \in {directoryRevision, directoryRevision + 1}
    /\ credentialRevision' \in {credentialRevision, credentialRevision + 1}
    /\ \A k \in Objects :
         Rewritten(changed[k], changed'[k], directoryRevision, directoryRevision')
    /\ \A u \in Users :
         Rewritten(deleted[u], deleted'[u], directoryRevision, directoryRevision')
    /\ \A u \in Users :
         Rewritten(credential[u], credential'[u], credentialRevision, credentialRevision')
    /\ \A u \in Users :
         /\ Deleted(u)' => \/ Deleted(u) /\ deleted'[u] = deleted[u]
                           \/ deleted'[u] = directoryRevision + 1
         /\ changed'[u] # 0 /\ ~Tombstoned(u)' =>
              \/ changed'[u] = changed[u] /\ ~Tombstoned(u)
              \/ changed'[u] = directoryRevision + 1
    /\ TombstoneIsOlder'

(* Every write of Core has that shape.                                     *)
LEMMA WriteShape ==
    ASSUME StoreInv, StoreNext PROVE WriteStep
  <1> USE DEF StoreInv, StoreTypeOK, StoreRevisionsAllocated, TombstoneIsOlder, WriteStep, Rewritten,
              Tombstoned, Deleted, AllocateDirectoryRevision, AllocateCredentialRevision, Objects
  <1>0. \A u \in Users : u \notin OrganizationalUnits /\ u \notin Groups
    BY ObjectsAssumption
  <1>1. ASSUME NEW k \in OrganizationalUnits \cup Groups, UpsertRow(k) PROVE WriteStep
    BY <1>0, <1>1 DEF UpsertRow
  <1>2. ASSUME NEW u \in Users, NEW s \in Status, UpsertUser(u, s) PROVE WriteStep
    BY <1>2 DEF UpsertUser
  <1>3. ASSUME NEW u \in Users, NEW s \in Status, CreateUser(u, s) PROVE WriteStep
    BY <1>3 DEF CreateUser
  <1>4. ASSUME NEW u \in Users, UpdateUserContact(u) PROVE WriteStep
    BY <1>4 DEF UpdateUserContact
  <1>5. ASSUME NEW o \in OrganizationalUnits, DeleteOu(o) PROVE WriteStep
    BY <1>0, <1>5 DEF DeleteOu
  <1>6. ASSUME NEW u \in Users, NEW G \in SUBSET Groups, DeleteUser(u, G) PROVE WriteStep
    BY <1>0, <1>6 DEF DeleteUser
  <1>7. ASSUME NEW u \in Users, ChangeUserPassword(u) PROVE WriteStep
    BY <1>7 DEF ChangeUserPassword
  <1> QED BY <1>1, <1>2, <1>3, <1>4, <1>5, <1>6, <1>7 DEF StoreNext

(* The store's invariant: every revision in a row was allocated, and a     *)
(* tombstone left beside a row by a racing deletion is older than the row. *)
THEOREM StoreInvariant == StoreSpec => []StoreInv
  <1>1. StoreInit => StoreInv
    BY DEF StoreInit, StoreInv, StoreTypeOK, StoreRevisionsAllocated, TombstoneIsOlder, NoRows,
           NoUserRows, AllActive, Status, Objects
  <1>2. StoreInv /\ [StoreNext]_storeVars => StoreInv'
    <2> SUFFICES ASSUME StoreInv, [StoreNext]_storeVars PROVE StoreInv'
      OBVIOUS
    <2>1. CASE StoreNext
      <3>1. StoreTypeOK' /\ WriteStep
        BY <2>1, StoreTypeStep, WriteShape DEF StoreInv
      <3>2. StoreRevisionsAllocated'
        BY <3>1 DEF StoreInv, StoreTypeOK, StoreRevisionsAllocated, WriteStep, Rewritten
      <3> QED BY <3>1, <3>2 DEF StoreInv, WriteStep
    <2>2. CASE UNCHANGED storeVars
      BY <2>2 DEF storeVars, StoreInv, StoreTypeOK, StoreRevisionsAllocated, TombstoneIsOlder
    <2> QED BY <2>1, <2>2
  <1> QED BY <1>1, <1>2, PTL DEF StoreSpec

=============================================================================
