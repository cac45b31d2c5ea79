# Verification of adscope-identity in TLA+

adscope-identity keeps an organisation's accounts in one place, **Core**, and
mirrors them into Active Directory. Core is an HTTP service over PostgreSQL. A
**Syncer** per AD domain polls Core and applies what changed over LDAP. Core is
also an **OIDC provider**, and a **Portal** serves the web interface.

This directory holds TLA+ modules for the three parts that carry the system's
main promises. Synchronisation: what an administrator changes in Core ends up in
Active Directory, and Core never believes a change to be there that is not.
Sign-in: an authorization code is exchanged at most once, for a client and a user
that still may. The web interface: what an administrator or a user sees, types
and confirms is what is written, although answers come late, out of order or not
at all. The models are checked by TLC on small instances, and most safety
results are proved by TLAPS for every value of the constants.

## 1. Inventory

| Component | State | Operations | What is hard | What makes it correct |
|---|---|---|---|---|
| Core store, writes (`crates/store`) | `sync_metadata`, a `changed_revision` in every row, `deleted_users` | `upsert_directory`, `create_user_with_initial_credential`, `update_user_contact`, `delete_ou`, `delete_user`, `change_user_password` | concurrent transactions, revision allocation by compare-and-update, bounded retries, two lock orders | revisions appear in order, none twice; every transaction is atomic; a tombstone is older than the row beside it |
| Core store, sync answers | the domain's applied revisions | `list_directory_changed_after`, `list_credentials_changed_after`, `confirm_*_revision` | up to a dozen reads without a common transaction; late and repeated confirmations | a batch misses nothing in its range; applied revisions go forwards only |
| Syncer runtime (`syncer/src/runtime.rs`, `state.rs`, `process.rs`) | the state file | `run_once`, `confirm_channel`, `load_for_sync`, `save` | crashes between any two steps, lost answers, a damaged file | progress is never ahead of what was applied; everything converges |
| Directory plan and LDAP execution (`crates/protocol`, `syncer/src/directory`) | Active Directory | the eight directory operations, `set_password` | failure of one of many operations, operations of two requests, unknown outcome after a timeout; two channels writing `userAccountControl` | what is confirmed is applied; a confirmed status is the account's status |
| Administrative handlers (`core/src/routes`) | none of their own | read, change, write back | the read and the write are two transactions | no update is lost, no deletion is undone |
| OIDC provider (`core/src/oidc`) | authorization codes, clients | authorize, approve, token, userinfo | racing exchanges of one code; a user or client that changes in between | a code is used once, by its client, for a user who is still active |
| OAuth clients, sessions, employee IDs, domains | client records, signed tokens, a sequence | create, update, regenerate, allocate | read-modify-write; the sequence meets IDs entered by hand | no secret is brought back; IDs are unique |
| Portal, management console (`portal/web/app/pages/admin`, `composables/useAdminApi.ts`) | a session, cached lists, one drawer or dialog, `saving`, the functions that wait | load, refresh, edit, save, delete, rotate a secret or key | parallel loads that fail one by one, late answers that replace an open editor, controls that are not disabled, lists older than Core | one save at a time; a form is written to the row it was filled from; a secret that is shown once is current and is seen |
| Portal, user pages (`pages/login.vue`, `me.vue`, `authorize.vue`, `composables/useUserApi.ts`) | token and profile of the tab, the browser's storage and cookie | login, logout, contact and password, consent, account switch | functions that outlive their page, other tabs, two contexts in flight | consent is for what is shown; a token has its own profile; logout works without Core |
| Portal server (`portal/src`) | none | forwarding, static files | - | not modelled |
| Configuration, command line, logging, service control, hashing and encryption | none that is shared | start-up, I/O, cryptography | - | not modelled |

Components interact in four ways. Handlers in Core share the database and meet
only there, through row locks. The Syncer and Core exchange two kinds of
requests, `sync` and `confirm`; any request or answer can be lost, and a
request the Syncer has given up on can still reach Core. The Syncer and Active
Directory exchange LDAP requests within a session per batch; a failed request
may have taken effect. A browser tab and Core exchange requests that the pages
await; several are under way at once, and another tab or another administrator
changes the cookie, the stored token or Core's rows in between.

## 2. Modules

| Module | What it models |
|---|---|
| `CoreStore` | The tables that synchronisation reads, and each `Repository` write as one atomic step |
| `StoreTransactions` | The same writes as transactions of concurrent handlers; implements `CoreStore` |
| `SyncProtocol` | The Syncer of one domain, Core's answers to it and Active Directory, over `CoreStore` |
| `ChannelPromise` | Abstract: what one channel promises. `SyncProtocol` implements it twice |
| `SyncInvariant` | The inductive invariant of `SyncProtocol`, in two parts |
| `OauthClients` | The table of OAuth clients and the management handlers that write it |
| `OidcCodeFlow` | Login, confirmation and exchange of authorization codes, with the writers of users, over `OauthClients` |
| `AdminApi` | `useAdminApi` and `AdminShell`: the session, the cached lists and the requests under way, shared by the pages of the console |
| `DirectoryPage`, `ClientsPage`, `DomainsPage` | One page each, with Core's handlers behind it, over `AdminApi` |
| `AdminConsole` | The composition: pages, navigation, failures, another administrator |
| `ConsoleInvariant` | The inductive invariant of `AdminConsole` |
| `OuTree` | The tree of organizational units as `utils/directory.ts` builds it, over `AdminConsole` |
| `CodePromise` | Abstract: what becomes of an authorization code. `OidcCodeFlow` implements it |
| `UserPages` | `/login`, `/me`, `/authorize` and `useUserApi` in one tab of a browser |
| `CoreStoreProofs`, `StoreTransactionProofs`, `SyncProofs`, `AccountProofs`, `OidcProofs`, `UserPagesProofs`, `ConsoleProofs`, `OuTreeProofs` | Theorems |
| `MCStore`, `MCSync`, `MCOidc`, `MCConsole`, `MCUser` | Instances for TLC |

### CoreStore

Row contents are abstracted to versions: `changed[k]` is the
`changed_revision` of the row of unit, user or group `k`, 0 when there is no
row. Since every write stamps its row with a fresh revision, the revision names
the content. `deleted[u]` is the tombstone's revision, `credential[u]` the
credential's, and `status[u]` the user's status, kept because the credential
channel acts on it. `i64::MAX` is the constant `MaxDirectoryRevision` (and its
counterpart for credentials): `checked_add` fails there, and so does the write.

Group membership is not kept, so `DeleteUser` rewrites an arbitrary set of
existing groups. Placement is not kept either, so `DeleteOu` may always find
the unit empty. Both allow more than the code does. The authorization codes
`delete_user` drops are in `OidcCodeFlow`.

### StoreTransactions

A handler's transaction is a sequence of steps: `ClearTombstone` (creation
only), `LoadMetadata`, `AllocateRevision` (the compare-and-update, which takes
and keeps the row lock of `sync_metadata`), `WriteRows`, `Commit`. A lost race
leads to `Retry`, or to `GiveUp` after `MaxAttempts`. `Reject` is a rollback
because of what the rows say, `Abort` any other failure. What a transaction
wrote shows at its commit (READ COMMITTED); the rows it depends on it reads
under the lock. The locks of tombstone rows are modelled because
`create_user_with_initial_credential` takes one before the lock of
`sync_metadata` and the other operations after it: PostgreSQL resolves the
deadlock (`DeadlockVictim`). The early clearing has a consequence of its own: a
deletion that commits between it and the lock leaves its tombstone beside the
user that is then created. The effect is limited, since that tombstone is older
than the row (`TombstoneIsOlder`, proved) and a plan that has both does not retire
the user. A cycle always has two members: a transaction waiting for
`sync_metadata` holds at most its own tombstone, and only the holder of
`sync_metadata` waits for one while holding a lock.

### SyncProtocol

`pc` is the place in one pass of `run_once`, including the part Core executes
to answer it:

- `LoadState`: `load_for_sync`. The state file is absent, damaged (both
  rebuild flags) or saved.
- `DirectoryProgress`, four `Collect...` steps, four `Read...` steps:
  `list_directory_changed_after`, one step per query. `CoreWrite` can happen
  between any two. The two bails of `DirectoryProgress` are its guard;
  `ProgressBounded` shows they never fire.
- `CredentialProgress`, `CollectCredentialRevisions`, `ReadCredentials`,
  `ReadStatus` once per credential: `list_credentials_changed_after_for_domain`.
- `SkipDirectory`, `PlanDirectory`, `ApplyOperation`, `OperationFails`,
  `DirectorySessionFails`, `FinishDirectory`: `execute_directory_batch` and
  `execute_directory_plan_with_timeout`. `todo` holds the operations left;
  `IsNextOperation` is the order of `DirectoryPlan::try_from_batch`.
- `PlanCredentials`, `ApplyPassword`, `AccountMissing`, `PasswordFails`,
  `FinishCredentials`, `NothingToConfirm`: the credential batch.
- `CoreConfirm`: `syncer_confirm` with the conditional update. `confirms` holds
  the requests on their way, so one that the Syncer no longer waits for can
  still arrive. A report of failure (`confirm_failed_channel`) changes nothing
  in Core; that it is sent is part of `OperationFails` and its like.
- `ConfirmAccepted`, `SaveFails`, `ConfirmRejected`, `ConfirmTimesOut`: the rest
  of `confirm_channel`. A failed save leaves the advanced state in memory, as
  the code does, and the old one on disk.
- `Abandon`, `LoseStateFile`: a crash or a failed request; a lost or damaged
  file.

Active Directory is what the operations leave: `adObject[k]` the version of an
object's attributes, `adLinks[k]` the version of a user's placement or a
group's members (0 when retired or never set), `adEnabled` the accounts with
`userAccountControl` 512, `adPassword[u]` the version of the password.

Abstractions to keep in mind: operations fail by a fault, not for want of a
parent, a unit or a member (see section 7); an operation's effect happens
before the Syncer goes on or not at all; one domain; the domain's row and the
server revision are read in one step (both only grow); the domain's
configuration does not change.

### ChannelPromise

A versioned source, a mirror and a watermark. The mirror and the watermark go
forwards only, and the watermark passes only items whose current version is in
the mirror. For the directory the mirror is `adObject`, for credentials
`adPassword`; the watermark is the domain's applied revision.

### OauthClients

A row is the client's type, whether it is enabled, its secret and its scopes. A
secret is the number of its generation, 0 for none; `answered` is the one the
owner was given last. `CreateClient` and `DeleteClient` are single statements.
`update_oauth_client` and `regenerate_oauth_client_secret` read the row
(`ReadForUpdate`, `ReadForRegenerate`) and write all of it later
(`WriteUpdate`, `WriteRegenerate`), with no transaction around the two; a write
that finds no row changes nothing (`WriteRow`). A write waits for the row lock
of an exchange.

### OidcCodeFlow

- `Login`, `ShowContext`: a session cookie, and a confirmation page with a CSRF
  token.
- `ValidateAuthorization`, `CheckUser`, `ListExpired`, `DeleteExpired`,
  `StoreCode`: `confirm_authorization` and `approve_authorization`, statement by
  statement. The cleanup lists expired codes and deletes them in a second
  statement, with the time its request took before.
- `Authenticate`: `exchange_token` reads the client without a lock and takes the
  time. A client that does not authenticate loses the code (`DestroyCode`).
- `TakeCode`, `LockClient`, `LockUser`, `CommitExchange`: the transaction of
  `consume_authorization_code_for_exchange`, one step per statement; each takes
  the row lock it waits for. The checks of `exchange_token` (`Due`) read nothing
  more and belong to the commit. `TakeNothing` is the early commit,
  `CommitUnanswered` a commit whose answer or token is lost, `AbortExchange` a
  rollback.
- `ReplaceUser`, or `BeginDeleteUser`, `DeleteUserCode` for each code and
  `DeleteUserRow`, then `CommitUserWrite`: the transactions that write users. All
  of them hold `sync_metadata` first (`StoreTransactions`), so one at a time is
  enough. A replaced row is deleted and inserted, so an exchange that waited for
  it finds, at READ COMMITTED, that it is gone (`WaitForUser`,
  `CommitUserWrite`).

`tokens` counts the token responses of a code; `spent` holds the codes about
which a request was answered. Abstractions: that issuer, redirect URI and PKCE
verifier agree with the code is one Boolean; a code stands for its digest; a
user has the session of the last login only; the reads of the confirmation page
are one step, since it changes no row; the client that `exchange_token` reads
before its transaction and the time it takes are one step.

### AdminApi, the pages and AdminConsole

`calls` holds the asynchronous functions that wait, one record each: the
function, what it was called with, and how far it is (`step`). A function first
waits for its own request ("sent", then "applied" or "refused" when Core has
dealt with it; "read" between the two transactions of a group handler), then for
the loads of its `Promise.all` ("loads"; "failed" once one has failed and the
others are still to come). `history` is the sequence of states of Core's tables,
so that the answer to a load is the table at *some* moment since the load was
sent (`LoadedList`): answers overtake each other, and a list may go backwards.

- `useAdminApi`: `RestoreSession`, `AuthenticateToken`, `SessionAnswered`,
  `Logout`, `LogoutAnswered`, `Refresh`; `AfterFailure` is the 401 branch of
  `adminFetch` and the catch clauses of the session functions.
- `Submit` is `runAction` with `saving`; `GoesOn` the code after an await, which
  ends when the session is gone; `Confirm` and `Dismiss` the confirmation.
- `DirectoryPage`: the openers (`OpenOuEditor`, `OpenUserEditor`,
  `RequestEmployeeId` and `EmployeeIdAnswered` for the one that awaits,
  `OpenGroupEditor`, `OpenNewGroup`), the savers (`SaveOu`, `SaveUser`,
  `SaveGroup` with its second request in `GroupSaved`, `ResetUserPassword`), the
  removers (`AskRemoveOu`, `AskRemoveUser`), and what follows each answer
  (`OuSaved` ... `MembersSaved`, `DirectoryCompleted`). `dir` holds the refs of
  the page. Which control is enabled when is `OuButtons`, `NewButtons`,
  `UserButtons`, `UserRow`, `GroupRow`, `Editing`: clicks on rows, unlike
  buttons, are not disabled while requests run.
- `Core...` actions are the handlers of `routes/admin.rs` and
  `routes/oauth_clients.rs`, in one step when they are one transaction. The
  handlers of a group read (`CoreReadsGroup`) and write back (`CoreWritesGroup`).
- `ClientsPage`, `DomainsPage`: drawers, editors, the secret and the Syncer key.
  A secret or key is named by the version of the tables that has it first.
- `AdminConsole`: `Navigate` (fresh refs, a new `restoreSession`),
  `RefreshButton`, `RequestFails`, `LoadAnswered`, `LoadFails`,
  `OtherAdministrator`.
- `OuTree`: `FlattenOus` and `BuildOuTree` with an explicit stack for the
  recursion, checked against what a reader of the tree expects on every list the
  page can hold.

Abstractions: of a row only identifier and references are kept; what is typed is
chosen at submission; drawers and dialogs of `@stellar/ui` cover the page, so no
click reaches it beneath them; the forms of a closed drawer are dropped
(`Closed`), since every opener fills them again; the loads of lists that an
instance leaves out are left out (`Modelled`); the loading flags of single lists,
messages and the tab are left out; a request reported as failed has no effect
afterwards; the other administrator writes only the directory; there is no
browser history.

### UserPages

A token stands for its user. `stored` and `cookie` belong to the browser and are
changed by `OtherTabLogin` and `OtherTabLogout` as well. A call records the user
whose token or cookie was sent, whether its page is still mounted, and whether it
is the newest of its generation (`requestGeneration`). A full page load
(`Open...`, `window.location.assign`, the post of a decision) drops the waiting
functions; `navigateTo` keeps them (`Left`), so `logout`, `loadMe` or a save can
finish after its page is gone. `Enter...` are the `onMounted` hooks with their
redirects; `LoadAuthorization` is Core's redirect at `/oauth2/authorize`.
`Decide` is the post of the consent form, together with `confirm_authorization`'s
check of session and csrf token (`CoreVerifies`); `granted` remembers the last
approval and what the form showed. What follows in Core is `OidcCodeFlow`.

## 3. Runs

| Run | Shows | States |
|---|---|---|
| `store_transactions` | transactions implement the atomic writes; the lock holder commits the next revision; tombstones are older; every handler returns | 263 k |
| `sync_directory` | complete batches, true confirmations, quarantined deletions, no regression, the directory promise, the inductive invariant | 1.7 M |
| `sync_accounts` | complete credential batches, true passwords, the credential promise; a confirmed status is the account's status although two channels write it; rows and passwords converge | 719 k |
| `oidc_race` | single use of codes, the inductive invariant, no circle of waits, every token request ends | 51 k |
| `oidc_grant` | rows permit a grant at its commit, and its code had not expired when the request began; no live code is cleaned up; a deleted client stays deleted | 2.7 M |
| `console_users` | one save at a time; a form is written to the row it was filled from; every unit is listed once, and nested if its parents lead to the root | 979 k |
| `console_groups` | the members of a group go to it or to nobody; the inductive invariant of the console | 921 k |
| `console_secrets` | a shown secret or key is current, and has a drawer while it is on its way; saves end; leaving ends the session | 232 k |
| `user_pages` | consent is for the address and the user shown; `/authorize` always shows a card; a token has its own profile; logout ends the login; the inductive invariant | 25 k |
| `sync_rebuild` | *violation*: a rebuild that never finishes (finding 1) | |
| `sync_deletion` | *violation*: a deletion that is never executed (finding 2) | |
| `oidc_secret` | *violation*: a regenerated secret is undone (finding 3) | |

### Bounds

- *Objects.* One unit, one user, one group in `sync_directory`: the three
  tables are read in different steps, and no guard compares two objects of one
  table except in the choice of the batch revision, which two tables exercise
  as well. One unit and one user in `store_transactions`: all kinds of
  transactions, without a group for a deletion to rewrite.
- *Revisions.* Three directory revisions with a batch limit of one: enough for
  a row to change while a batch that holds it is read, executed and confirmed,
  and for a batch to leave something behind; in `store_transactions`, enough to
  create, delete and create again. `sync_accounts` has three as well, and two
  credential revisions, so that a password changes under a batch; its batches
  have room for all current rows, since a rebuild in several batches does not end
  (finding 1). The bound is also the code's limit (`checked_add`), so its error
  path is exercised. `sync_directory` has one credential revision, so that a
  password is on its way beside the directory batch.
- *Faults.* `MaxFaults` bounds losses, failures and crashes: two in
  `sync_directory`, so that a confirmation can be delayed and a later run be
  disturbed too; one elsewhere.
- *Writers.* Two writers with two attempts each: one pair races, and a race can
  be lost for good.
- *Sign-in.* One client and one user: no step compares two clients or two users.
  `oidc_race` has one code and two exchanges, with the clock stopped and no edits
  of the client. `oidc_grant` has one code and one exchange against an editor
  that can disable or delete the client and renew its secret, and a clock that
  ticks once, as long as a code lives: the code expires while it is listed,
  presented and deleted. It has no scopes, which would multiply its states; that a
  scope taken away is not granted is part of `GrantIsDue` and proved.
- *Console.* Two functions wait at a time: one whose answer comes late, and one
  that overtakes it, which is what every hazard listed for it takes. Core's tables change
  twice (three versions): once by the save and once by somebody else, or by two
  saves. `console_users` has two units, so that there are parents, moves and
  cycles, and two users, one of them new. `console_groups` has two groups, so that
  members could reach the wrong one. `console_secrets` has two clients and two
  domains, one of each new.
- *User pages.* Two users, two authorization requests and two functions that
  wait; nothing else is bounded, and the proofs hold for any number.

No symmetry is used.

### Fairness

`SyncProtocol!FairSpec` assumes weak fairness of the Syncer's steps (Core's
reads for it included) and of the arrival of confirmations. The service loop
runs `run_once` for ever and each step ends by a timeout at the latest. Writes
and faults are not fair. `StoreTransactions!FairSpec` assumes strong fairness of
a handler's steps, because PostgreSQL grants a row lock in the order of the
requests and so never passes over one for ever, and weak fairness of deadlock
detection. `OidcCodeFlow!FairSpec` assumes, for the same reason, strong fairness
of the steps of an exchange and of a user write; no deadlock detection is needed
there. `AdminConsole!FairSpec` and `UserPages!FairSpec` assume weak fairness of
the answers: a browser settles every fetch, with an answer or an error. Neither
the people nor Core are assumed to act.

Convergence is stated for writes that cease: the bound on revisions makes them
cease. `DirectoryConverges` supposes that no user stays deleted (finding 2) and
`PasswordsConverge` that no credential stays without its user (section 4,
observation a).

## 4. Findings

1. **A rebuild of more than one batch never ends** (`repository.rs:1421`). With
   a damaged state file the Syncer asks from 0, gets the first `batch_limit`
   revisions, and its confirmation is below the domain's applied revision and
   rejected. The file is never overwritten and each run repeats the first
   batch; later changes never arrive.
2. **A batch of deletions only is not executed** (`runtime.rs:266`). The test
   for an empty batch ignores `deleted_users`. A deleted user keeps an enabled
   account until some other change falls into the same batch.
3. **A regenerated secret is undone** (`oauth_clients.rs:131`).
   `update_oauth_client` writes back the digest it read. When a regeneration
   comes between its read and its write, the old secret is valid again and the
   one that was just handed out is not.

Observed while modelling, without a run: nothing in the repository says
otherwise, or the consequence lies outside the model.

- a. **A retired account is enabled again** (`repository.rs:1281`). A password
  change that commits after the deletion leaves a credential without a user;
  its status defaults to Active, and `set_password` writes 512.
- b. **An exchange is refused although the user is active** (`repository.rs:311`).
  The exchange waits for a user row that `upsert_directory` or
  `update_user_contact` deletes and inserts again; at READ COMMITTED the lock
  request finds the old version deleted and returns no row. The answer is
  `invalid_grant` and the code is gone, so the user has to start again. The
  failure is on the safe side (`GrantIsDue`, proved).
- c. **A unit at the root becomes its own child** (`directory.vue:158`). The
  editor of a unit without parent begins with the *selected* unit as parent,
  because `ou?.parent_id ?? parentId` does not tell "no parent" from "new unit".
  The drop-down disables the unit itself as a choice but keeps the value, and Core
  stores it. The lists of the page bear it and show the unit at the margin
  (`TreeShowsEveryUnit`); a batch with a
  cycle is refused by the Syncer (`docs/reference/syncer-sync-protocol.md:84`).
- d. **Stale writes** (`admin.rs:316`, `406`, `467`). An editor opened before its
  user was deleted brings the user back, without a credential; a group created
  under an identifier in use replaces the group and empties it; of two concurrent
  changes to a group one is lost.
- e. **An editor is replaced** (`directory.vue:368`). When the preview of an
  employee ID answers late, the new-user editor takes the place of whatever is
  open. While a group is being saved this sends its members to the group `null`,
  which Core refuses: the members are not saved, but reach no other group
  (`MembersGoToTheirGroup`).

## 5. Proofs

All theorems are about arbitrary sets of objects and writers, arbitrary bounds
and any number of faults, under the named assumptions `ObjectsAssumption` (the
three sets of identifiers are disjoint), `RevisionsAssumption`,
`SyncAssumption` (the batch limit is positive, as `max(1)` in `state.rs` makes
it), `WritersAssumption`, `ClientsAssumption` and `FlowAssumption` (the markers
for "nobody" and "the writer of users" are no request; lifetimes and the cleanup
limit are positive), `UserNullAssumption`, `ContextNullAssumption` and
`CallsAssumption` (`null` is no user, request or context; a function can run),
`NullAssumption` and `EditorAssumption` (`null` is no identifier and no kind of
editor), `ListsAssumption`, `PagesAssumption`, `InitialTablesAssumption` (lists,
pages and tables are of the modelled kinds), `UnitsAssumption` (there are finitely
many organizational units, so that a list of them comes to an end) and
`MaxVersionAssumption` (Core's tables have a first version).

| Theorem | Statement |
|---|---|
| `StoreInvariant` | `StoreSpec => []StoreInv` |
| `HolderCommitsNext` | `Spec => []TxInv` |
| `StoreTransactionsAreAtomic` | the transactions implement `StoreSpec` |
| `TombstonesStayOlder` | follows from the two before and `StoreInvariant` |
| `InvariantHolds` | `Spec => []IInv` |
| `BatchesAreComplete`, `CredentialBatchesAreComplete` | `BatchComplete`, `CredentialBatchComplete` |
| `ConfirmationsAreTrue` | `ConfirmedIsApplied` |
| `DeletionsAreQuarantined` | `ConfirmedDeletionIsQuarantined` |
| `ConfirmedPasswordsAreSet` | `ConfirmedPasswordIsSet` |
| `ProgressIsBounded` | `ProgressBounded`, `TombstoneIsOlder` |
| `StateFileIsTrue` | `SavedIsApplied` |
| `MirrorNeverRegresses` | `DirectoryNeverRegresses` |
| `DirectoryPromiseKept`, `CredentialPromiseKept` | each channel implements `ChannelPromise` |
| `SyncInvariantHolds` | `Spec => []SyncInv`, that is `IInv` and `AccountInv` |
| `DisabledAccountsStayDisabled` | `ConfirmedDisabledIsDisabled` |
| `ActiveAccountsAreEnabled` | `ConfirmedActiveIsEnabled` |
| `FlowInvariant` | `Spec => []FlowInv` |
| `CodesAreSingleUse` | `SingleUse` |
| `GrantsAreDue` | `GrantIsDue` |
| `LiveCodesSurvive` | `LiveCodeSurvives` |
| `DeletedClientsStay` | `DeletedClientStays` |
| `SignInInvariant` | `Spec => []SignInInv`, that is `FlowInv` and `HoldersInv` |
| `NobodyWaitsInACircle` | `NoDeadlock` |
| `CodePromiseKept` | the flow implements `CodePromise` |
| `UserPagesInvariant` | `Spec => []UserInv` |
| `ConsentIsInformed` | `ApprovedIsShown` |
| `ConsentIsOfTheAddress` | `ConsentShowsAddress` |
| `AuthorizeIsNeverBlank` | `AuthorizeShowsACard` |
| `TokensHaveTheirProfile` | `TokenHasItsProfile` |
| `ConsoleInvariantHolds` | `Spec => []ConsoleInv` |
| `OneSaveAtATime` | `SavingIsOneSave` |
| `FormsGoToTheirRows` | `FormMatchesTarget` |
| `MembersReachTheirGroup` | `MembersGoToTheirGroup` |
| `ShownSecretsAreCurrent` | `ShownSecretIsCurrent` |
| `SecretsArriveInADrawer` | `SecretHasADrawer` |
| `EveryUnitIsShown` | `TreeShowsEveryUnit` |

**Transactions.** `TxInv` says that exactly the holder of `sync_metadata` is
past its allocation, that the revision it read is still the current one, and
that what it checked is still so. Commits therefore happen one at a time, each
with the next revision, and each is a step of `CoreStore`; every other step
leaves the store alone. The refinement carries `StoreInvariant` over to the
transactions.

**Synchronisation.** That confirmed rows are applied is far from inductive.
`IInv` adds:

- *completeness table by table* (`TablesComplete`): from the moment a table is
  read, whatever is still at a revision in the batch's range is in the batch.
  A write between two reads moves its row to a revision beyond `batchRevision`,
  out of the range, because the batch revision had been allocated before;
- *what is stale is fresh* (`StaleIsFresh`): a row that differs from its copy
  in the batch has a revision beyond the batch, beyond the domain's applied
  revision and beyond every confirmation on its way. So applying the stale copy
  never disturbs what is or may be confirmed;
- *confirmations on their way are covered* (`ConfirmationsCovered`): each
  request in `confirms`, however late, speaks only of rows that are applied;
- *progress of the plan* (`PlanProgress`, `CredentialProgressMade`): what is no
  longer to do is done;
- *the mirror is not ahead* (`MirrorNotAhead`), for the action property and the
  refinements.

`StateFileIsTrue` follows for every crash and failed save: what the state file or
the Syncer's memory claims is no more than the domain has confirmed, so it is in
Active Directory, and a run that starts from the file skips nothing.

The proof of `InvStep` in `SyncProofs` has one lemma per action or group of
actions, one step per part of the invariant that the action can disturb.

**Accounts.** `userAccountControl` is written by `EnsureUser`, `DisableUser` and
`RetireUser` from the status in the directory batch, and by `set_password` from a
status that Core reads after the batch is complete. The two can differ, and
either can differ from Core's by the time it is written. `AccountInv` says that
this never concerns what is confirmed:

- the status in a batch is the row's as long as the row is in the batch
  (`BatchStatusIsRow`), and the status beside a credential is the row's as long
  as the row is `Coverable`, that is not fresh (`CredentialStatusIsCurrent`): a
  write that changes a status gives its row a fresh revision (`StatusWrite`);
- for every pair of a directory and a credential revision that is confirmed or may
  be, disabled users up to the first are disabled, and active ones up to both are
  enabled (`AccountsCovered`). It has to be every pair, because two confirmations
  that were given up on can arrive in any order;
- while a batch is executed, an account that is not right yet has its operation
  still to come (`PlanSetsAccounts`, `CredentialsEnable`);
- a password has an account (`PasswordHasAccount`): this is why an `EnsureUser`
  that adds an account, disabled, cannot take a confirmed log-on away.

`AccountInv` is inductive together with `IInv` only, on which its proof in
`AccountProofs` draws: stale rows are fresh, confirmed passwords are set, batches
are complete.

**Sign-in.** `FlowInv` says who holds what. `CodeLockInv`: an exchange past
`TakeCode` holds its code, which is still in the table, so two exchanges are
never past it with one code. `RowLockInv`: the client row and the user's status
an exchange has read are those of the row it holds, so they cannot change before
its commit. `CleanupInv`: what a cleanup has listed had expired. `TokensInv`: a
code with a token response is spent, and a spent code is gone. `RequestsInv`
supplies that requests name rows that exist and carry past times. Single use is
`TokensInv`; a grant is due because `Due` was checked on what `RowLockInv` keeps
true. One lemma per action shows the invariant kept.

`HoldersInv` is the converse of the locks: whoever holds one is at a place where it
must hold it. With it the order of the locks (codes, clients, users) gives
`NoDeadlock`: a transaction that is about to commit waits for nobody; if there is
none, no user is locked, so an exchange that wants its user gets it; if there is
none of those, no client is locked; and then only a deletion of a user can hold
codes, and it wants none of the ones it holds. This is the safety half of
`EveryExchangeEnds`, for any number of requests; that the guards `ExchangeGetsOn`
and `UserWriteGetsOn` are those of the actions can be read off beside them.

`CodePromise` puts single use and grants that are due into one automaton per code:
unused, issued, then granted once or lost, and granted only while client and user
permit it. `Stage` would be "granted again" after a second token response, and
`CodesStep` shows that no step leads there: a step stores one code, grants one, or
removes some.

**User pages.** `UserInv` says which functions can wait together. `ContextInv`:
on `/authorize`, and while an account switch that began there lasts, only
contexts and the switch are under way; one context is the newest, and it is for
the address. `CsrfInv`: the token of a context is for the user and the request it
shows, so that Core's check ties the approval to the form whatever the cookie has
become. `AccountInv`: a login and its load run alone, every other function was
sent with the tab's token, and a token without its profile is being loaded. The
last two are what `TokenHasItsProfile` needs: it is not inductive by itself,
because a late `loadMe` writes the profile without looking at the token.

**Console.** None of the properties of the console is inductive: each is about
what a function finds when its answer comes, in refs that clicks and other answers
can have changed since. `ConsoleInv` says what they cannot have changed.

- *The dialog is alone* (`DialogIsAlone`): a confirmation is open only while
  nothing saves, on the page that asked for it, and covers that page; so the
  function it starts is again the only one that saves (`SavingIsOneSave`).
- *References are kept while saving.* The controls that would close or replace an
  editor or a drawer are disabled then, or refuse (`busy`, `saving`). What is left
  is the late answer of the employee ID preview, which replaces the open editor; so
  while `saveGroup` waits, an editor is open, and the group it will read from the
  refs is its own or none (`GroupRefsKept`). The drawer that will show a new
  secret stays open, after a regeneration on its client; that of a key stays open
  without an older key (`SecretHasADrawer`, `ClientSaveHidesSecret`).
- *What Core made is Core's still* (`MadeIsCurrent`): only this console's
  functions change secrets and keys, and one saves at a time.
- *Requests are what Core's handlers take* (`RequestsMatch`, `ReadGroupsExist`),
  and the types.

`ConsoleProofs` takes the invariant apart into what it says of one function that
waits (`CallOK`), of the forms and of the page. Most steps change one function and
leave to the others what their `CallOK` reads (`OtherCallKept`, `CallStep`,
`PageStep`); each lemma then shows the function or the page that its action
changes.

**Tree.** `TreeShowsEveryUnit` is about what `FlattenOus` and `BuildOuTree` compute,
by recursion, for every list of units, loops of parents included. Both hold each unit
once, and what is indented stands below its parent. That alone would allow a flat
list, so the property also says what may stand at the margin: of the units whose
parents lead to the root (`Attached`, the least set with the root's children and the
children of its members) only the root's children, in both lists; in the editor's list
none that comes after its parent. Units in a loop or below a missing parent may
therefore be at the margin, and `buildOuTree` puts all of them there
(`directory.ts:102`). `OuTreeProofs` proves it with an invariant of the walk,
`WalkInv`:

- what is listed is listed once (`ListedOnce`), and what is indented, listed or on the
  stack, one deeper than its parent (`Indented`, `StackInOrder`);
- what the walk began with is listed or on the stack (`NothingLost`);
- an item at the margin that is no child of the root stays on the stack until every
  unit is listed that has the root or a listed unit as parent (`MarginWaits`). When
  its turn comes, the listed units contain the root's children and are closed under
  children, so they contain `Attached` (`ReachedIsAttached`), and the item, not yet
  listed, neither hangs on the root nor has a listed parent. The end of the stack is
  such a place too: that gives `BuildOuTree`, whose remaining units follow at depth 0;
- the rounds that are left suffice (`RoundsSuffice`): every round takes an entry off
  the stack, and a unit goes on the stack at most once after its parent was visited.

Each round keeps `WalkInv` (`RoundKeepsInv`), and the walk that satisfies it after its
last round shows every unit. Both that the recursion defines a function at all and
that its value is such a walk are inductions over the rounds. The library's
induction theorems take an operator, which the provers cannot instantiate; the
induction here takes a set (`SetInduction`), by the least number at which the claim
fails (`LeastNumber`, from the well-foundedness of `<` on `Nat`).

Proved and without a run: `CodesKeepPromise` and `SavedIsApplied`. The runs check the
invariants they follow from (`SignInInv`, `SyncInv`).

Only model-checked:

- all liveness: `EveryTransactionEnds`, `DirectoryConverges`,
  `PasswordsConverge`, `EveryExchangeEnds`, `SaveEnds`, `ExitClearsSession`,
  `LogoutClears`. Fairness and ENABLED are out of the prover's reach.

## 6. Plan

In this order:

1. `DirectoryExecution`: organizational units with parents, placements, group
   members, missing objects, `ordered_organizational_units`, the batch's DN
   table, LDAP requests that take effect late. Question: which sequences of
   legal administrative writes stop the directory channel for good?
2. `AdminWrites`: the read half of the handlers of `routes/admin.rs` over
   `StoreTransactions`, `set_user_status` included.
3. `EmployeeIds`: the sequence against IDs entered by hand.
4. `UserInfo` and management sessions: what an access token still yields after
   its user or client has changed.
5. Proofs: the promises of the modules above as they come; uniqueness of employee
   IDs.

## 7. Not modelled

- In synchronisation: parents, placements, members and DNs, hence operations
  that fail because an object is missing and the head-of-line blocking this
  causes; LDAP requests that take effect after the Syncer has given up on them
  (plan, 1).
- `set_user_status`, which the console does not call, and the interleaving of the
  administrative handlers' reads with other transactions, except for groups
  (plan, 2); the employee ID sequence (plan, 3); userinfo and management sessions
  in Core (plan, 4).
- Two cleanups, or a cleanup and a deletion of a user, that lock several expired
  codes in opposite orders: each cleanup's DELETE is one step.
- Discovery, JWKS, JWT and key handling, the syntax of OIDC requests.
- Portal server: forwarding and static files, no state that outlives a request.
  Of the web interface: redirect pages, theme, messages, layout, contact data,
  validation of forms.
- Hashing, encryption, tokens' signatures: cryptography, taken to work.
- Configuration, command line, logging, Windows service control.

PostgreSQL and Active Directory are external: row locks, deadlock detection and
the rollback of a lost connection are modelled from how the store uses them,
Active Directory from the requests the Syncer sends. The browser and the component
library are external too: a fetch settles, overlays cover the page.
