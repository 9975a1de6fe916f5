# VaultSQL: verification project

VaultSQL is a team SQL client.  A Django API (`src/api`) keeps workspaces, members, database
accounts, encrypted credentials and the rules about who may use them.  A Go query service
(`src/query_service`) runs queries on the teams' databases, through SSH tunnels where needed, after
asking the API for permission.  A React application (`src/frontend`) is both the workbench, where tables
are queried and edited, and the web app, where members, databases, keys and access are managed.  Little
of it is hard in a single thread; what is hard is what happens between two database queries of a handler,
between the API's answer and the query, between two goroutines of the service, between two callbacks of a
tab, and between what a page has read and what is true by the time it is used.

This directory holds TLA+ models of those parts, the TLC configurations that check them on small
instances, and proofs, checked by TLAPS, that their safety properties hold for every size: those of the
seven core modules and those of the parts around them.

- [Reading guide](#reading-guide)
- [The system](#the-system)
- [The modules](#the-modules)
- [The runs](#the-runs)
- [Fairness and deadlock](#fairness-and-deadlock)
- [The proofs](#the-proofs)
- [Disagreements between the code and its documents](#disagreements-between-the-code-and-its-documents)
- [What is not modelled](#what-is-not-modelled)
- [Plan](#plan)

## Reading guide

The core, model-checked and proved:

| Component | Module | Checked with | Proved in |
|---|---|---|---|
| Vault key ring | `VaultKeys` | `MCVaultKeys`, 4 configurations, one of them as a part of `MCWorkspace` | `VaultKeysProofs` |
| Access grants | `AccessGrants`, abstract `AccessLease` | `MCAccessGrants`, 2 configurations | `AccessGrantsProofs` |
| Members and sessions | `Membership` | `MCMembers` | `MembershipProofs` |
| SSH tunnel pool | `TunnelPool` | itself, `TunnelPool.cfg` | `TunnelPoolProofs` |
| Database handle pool | `ConnPool` | `MCDatabases` | `ConnPoolProofs` |
| Query run and audit log | `QueryRun` | `MCQueryRun` | `QueryRunProofs` |
| Table tab | `TableTab` | `MCTableTab` | `TableTabProofs` |

What stands around it, model-checked and proved:

| Component | Modules | Checked in | By the property | Proved in |
|---|---|---|---|---|
| Invitations | `Invitations` | `MCMembers` | `RowsForCause` | `MembersProofs` |
| Login codes | `LoginCodes` | `MCMembers` | `RowsForCause` | `MembersProofs` |
| Worksheets and their versions | `Worksheets`, `WorksheetVersions` | `MCMembers` | `RowsForCause` | `MembersProofs` |
| Image storage | `ImageStore` | `MCMembers` | `RowsForCause` | `MembersProofs` |
| Editing rows | `RowGrid`, `RowQueue`, `RowForms` | `MCTableTab` | `EditsReach`, `ShownIsDone` | `TableTabProofs` |
| Filters | `TableFilters`, `FilterSql` | `MCTableTab` | `AskedAndKept`, `ShownIsDone` | `TableTabProofs` |
| Workbench tabs | `WorkbenchTabs` | `MCTableTab` | `AskedAndKept` | `TableTabProofs` |
| Table structure | `StructureEdits`, `RefPicker`, `ColumnEdits` | `MCQueryRun` | `WorkbenchTold`, `StatementsFit` | `QueryRunProofs` |
| New table | `TableDesign` | `MCQueryRun` | `StatementsFit` | `QueryRunProofs` |
| Workbench state | `AccountBackend`, `StarredItems` | `MCQueryRun` | `WorkbenchTold` | `QueryRunProofs` |
| Web app: answers and session | `QueryCache`, `WebSession` | `MCWorkspace` | `PagesTold` | `VaultKeysProofs` |
| Web app: the vault's gate | `VaultGate` | `MCWorkspace` | `PagesTold` | `VaultKeysProofs` |
| Web app: databases and access | `EditDialogs`, `AddDatabase`, `AccessPages` | `MCDatabases` | `SavedForCause` | `ConnPoolProofs` |

A proof module holds the proofs of everything its MC module composes, so that each theorem is about the
very specification that TLC runs, and also about the component by itself.

Each module states its constants with their assumptions, its variables with the column, field or ref
they stand for, one type invariant, `Init`, one action per query, locked section or callback of the
code, `Next`, `Spec` and, at its end, the properties.  A definition marked `Mutant` is not part of the
specification: it is the definition next to it with a plausible mistake, and the run named in
`PROJECT.json` fails once it takes the other's place.  To repeat a check:

    tlc -workers 2 -config TunnelPool.cfg TunnelPool
    tlapm TunnelPoolProofs.tla

An MC module that checks several components has a variable that says which one a behaviour is of: its
initial state chooses the part, and the others keep their initial states.  The states are the sum of the
parts and not their product, which is what the parts are: they share nothing but inputs, and each takes
those as things that may change at any time.

`PROJECT.json` maps every definition to the lines it was translated from.

## The system

### Components, their state and how they interact

| Component | Source | State | Operations |
|---|---|---|---|
| Vault key ring | `api/connection/{key_service,utils,api_key}.py` | `UserKey` rows (confirmed, approved, revoked), `Credential` rows, one `UserCredential` row per key and credential | create, confirm, activate (which provisions the key), revoke, set credentials, get credentials |
| Access grants | `api/connection/{api_access,policies}.py`, `api/accounts/api_group.py` | `Access` rows, groups, memberships | grant, request, approve, deny, revoke, check |
| Members and sessions | `api/accounts/{api_group,api_auth,api_identity,api_user,signals}.py` | `User.role`, `deactivated_at`, `Session` rows with a copy of the role | login, logout, join, change role, deactivate, signals |
| Invitations | `api/accounts/{api_workspace,api_identity}.py` | `WorkspaceInvitation` with `use_count`, usages | create or get, force, join |
| Login codes, reset tokens | `api/accounts/api_auth.py`, `tasks.py` | `LoginCode`, `PasswordResetToken` | request, verify, daily cleanup |
| Worksheets and folders | `api/workbench` | worksheets, folders, numbered versions | save, rename, move, cull |
| Image storage | `api/accounts/{storage,api_file}.py` | object store, `ImageBlob` rows | save, open, replace, delete |
| Databases, accounts, tags | `api/connection/{api_database,api_tag}.py`, `adapters` | rows, soft deletion | create, update, delete, test |
| Audit log and settings | `api/workspace` | `AuditLog` rows, `WorkspaceSettings` | log, list, update |
| Notifications | `api/notifications` | `Notification` rows | dispatch, list, read |
| SSH tunnel pool | `query_service/drivers/tunnel.go` | map of tunnels with a reference count and an expiry, under one lock | get or create, release, cleanup, close |
| Database handle pool | `query_service/drivers/pool.go` | map of `*sql.DB` with the time of last use, under one lock | get with ping and retry, cleanup |
| Query run | `query_service/handlers`, `client`, `main.go` | one handler and one goroutine per request | check, run, stream, export, log, shut down |
| Table tab | `frontend/src/workbench/tabs/TableTab`, `lib/backends` | a store and a handful of refs per tab | fetch, count, stream, flush, page, filter |
| Editing rows | `tabs/TableTab/components`, `lib/mutations`, `components/editors` | ticks, details and editors by index; a queue of changes per tab | tick, edit, queue, undo, save |
| Table structure, new tables | `tabs/TableTab/hooks`, `components/dialogs`, `tabs/NewTableTab`, `lib/databases/{postgres,mysql}` | one cache of structures, one form per dialog | describe, change, create |
| Filters | `components/filters`, `state`, `queryBuilder.ts` | chips, raw SQL, mode, page | add, change, remove, open again |
| Workbench tabs and state | `tabs`, `features/starred`, `lib/backends`, `context/WorkbenchProvider.tsx` | open tabs, stars in localStorage, keys and history of an account | open, pin, close, star, run |
| Web app | `queries`, `lib/app-context.tsx`, `webapp` | the cache of React Query, token and passphrase in storage, open forms | read, mutate, invalidate, log in, switch, unlock, submit |

A query crosses most of them.  The tab's `fetchData` posts to the query service; the service posts
the user's token to the API's `/check`, which looks at the session (Members), the access rows (Access
grants) and the credentials (Vault key ring); the service takes a tunnel (Tunnel pool) and a handle
(Handle pool), streams the rows back, and a goroutine posts to `/log`, where the API looks at the
session and the access again and at the settings before it writes the entry.  Nothing but the database
is shared among API workers, nothing but the two pools among the service's goroutines, and nothing at
all between the two processes, so each component can be modelled with the others as its environment:
`QueryRun` sees everything the API decides as one changing answer, and the two pools see a query as
something that takes, uses and releases.

### What is hard in each

- **API handlers run in autocommit.** `ATOMIC_REQUESTS` is not set, so each query of a handler is
  committed by itself unless the handler opens a transaction, and every handler that reads, decides and
  writes may decide on something that has changed.  Where a handler saves with `update_fields` it
  overwrites its own columns only; where it saves the whole object it writes back everything it read.
- **Signals run after the save,** as queries of their own: a crash in between loses them.
- **The query service's pools** take a read lock to look and a write lock to change.  Between the two
  anything may happen, and the slow operations (dialling SSH, pinging) are under the lock in one pool and
  outside it in the other.
- **A request of the query service** can fail at every stage, after part of its answer has left.  Its
  audit entry is made by a goroutine that nobody waits for.
- **The tab** overlaps requests: each callback must find out whether it still belongs to the latest.
- **What is edited is not what was read.** Rows are ticked by their index and read again underneath; a
  queue of statements stops halfway; a structure changes while a dialog shows it; a form is filled from one
  row and its late answer closes another.
- **The web app's pages** show answers they read a while ago, and learn of a change from the mutation's own
  hook or not at all.  A token, a passphrase and the stars are shared by all tabs of the browser, what was
  read with them is not.

`PROJECT.json` lists these at their lines as hazards, each with the properties that cover it, or with
the reason why none does.

### What makes each correct

- *Key ring*: credentials are wrapped only for keys somebody confirmed and somebody approved; a user has
  one live key; what a row wraps opens its credential; trust has a first link.
- *Access*: a row gives access during one stretch of time and never again; a request is not answered
  both ways; requested access ends when it was asked to.
- *Members*: sessions show what their users are; a workspace keeps an admin.
- *Tunnels*: the count is the number of users; no tunnel is lost, none closed under a query without the
  one named reason, and none lives for ever; a query reaches its own database.
- *Handles*: what the map hands out is open; what is open is in the map; a handle is closed for a cause.
- *Query run*: who takes an answer for the whole has the whole; a query that ran is in the audit log once,
  or not for a known cause; everything comes to an end.
- *Tab*: the rows shown are of one request, the latest; success means all of them; loading ends.
- *Rows of the API* (invitations, codes, worksheets, images): limits are exceeded, writes are undone and
  files are lost only by overlaps and crashes that are named.
- *Editing*: a change is made to the row it was meant for, once, in order, and stored as it was typed.
- *Filters*: what is asked for is what the toolbar shows, and a condition keeps the rows its label says.
- *Structure and new tables*: what is shown is the table's; a statement makes what the form draws; a failure
  halfway leaves what can be told from the message.
- *Tabs*: work that was not saved is lost with its tab only.
- *Backend and stars*: what is shown is what is kept, of this account and of this session.
- *Web app*: a page tells of every change it knows of; nothing of a session outlives it; the gate opens
  for a passphrase that was tested and offers a key where there is none; what a form saves is what it
  shows.

Where the code falls short of one of these, the property names the exception, so that the check says that
there is no other.  The exceptions are listed [below](#disagreements-between-the-code-and-its-documents).

## The modules

### VaultKeys

One workspace in vault mode.  `created`, `confirmed`, `approved`, `revoked` are the sets of keys whose
row exists or whose timestamp is set; `sym[c]` is the symmetric key a credential's data is under and
`wrap[c][k]` the one that the row of key `k` wraps.  Symmetric keys are numbers, since only their equality
matters.  Old-format rows, which hold the credential itself, are `LegacyKeys` x `LegacyCreds`.

| Action | Code |
|---|---|
| `CreateAuthenticate`, `CreateCountAdmins`, `CreateInsert` | `create_key`: the user with the role that authentication read, the count of admins, then the insert with its approval |
| `ConfirmRead`, `ConfirmRevokeOthers`, `ConfirmSave` | `confirm_key`: three queries |
| `ActivateRead`, `ActivateFindAdminKey`, `ActivateSave`, `ActivateList` | `activate_user_key`, `activate_key`: checks, the admin's key, the save of the whole copy, the list of credentials |
| `ProvisionSkip`, `ProvisionShare`, `ProvisionReencrypt`, `ProvisionRewrap`, `ProvisionReject` | one turn of the loop in `_provision_credentials_for_key`, by what the admin's row is |
| `SetCredentialsReadKeys`, `SetCredentialsCommit` | `_set_credentials_vault_mode`, a transaction |
| `Revoke`, `SetRole`, `Crash` | `revoke_key`, role changes, the death of a worker |

`soloBorn` and `resurrected` are history variables that name the two exceptions of `OneLiveKey`.

### AccessGrants and AccessLease

One account, since rows of different accounts never meet.  A row carries its subject, how it came about
and its timestamps as flags, `until` its end and `asked` the hour of the request.  Every handler is its
check and its write; `ReviewUpdate` and `ReviewCommit` are the two queries inside the transaction of
approve and deny, with PostgreSQL's row lock between them (`Locked`, the one external definition here).
Groups may be deleted with their rows at any time, and the clock moves.

`AccessLease` is what the rest of the system takes a row for: a lease that begins, ends and never begins
again.  `ImplementsLease` maps each row to the phase its columns mean and checks that every step is
a step of the lease.

### Membership

One workspace.  A session is a user and the copy of the role it was made with; equal sessions are one,
since every change reaches all sessions of a user.  Login reads the user in one query and inserts the
session in another; `RoleSave` and `RoleSync`, `DeactivateSave` and `DeactivateRevoke` are a save and its
signal.  `raced` is a history variable: users for whom two requests overlapped, or a crash fell between
the save and its signal, in the way the property names.

### TunnelPool

Tunnels are numbered in the order of their creation, and as all have the same time to live, those that
have expired are always the first `aged`.  Locked sections are steps: `FastPath` under the read lock, then
under the write lock `SlowPathReuse`, `SlowPathCreate` (which closes and replaces what it found) or
`SlowPathFail`.  `Connect` is the first connection through the local port and reaches whatever listens
there by then; `Release` is the deferred call.  `CleanupStale`, `Shutdown` and `Close` are the ticker and
`main`.  The reuse of a port by the system (`FreePort`) is external.

### ConnPool

`Get` is split at the lock: `GetFast` finds a handle, `PingOk` and `PingFail` answer outside the lock,
`Drop` removes what is under the key *by then* and closes the handle that was pinged, `GetMiss` and
`MissFound` or `Open` are the slow path.  A retry goes back to `get`.  `lost` is a history variable:
handles a `Drop` removed that were not the one pinged.

### QueryRun

One handler and one goroutine per request, for the four forms an answer takes: a `/run` (one JSON object
at the end), a `/stream` (events), a CSV export (a header first) and the JSON and SQL exports (nothing
before the first row).  `may` is what `/check` and `/log` would answer now: session, account and access
together, which the modules above look into.  `told` is what a client is left to believe once the answer
has ended: the workbench's reader of streams, and any HTTP client for the others.

| Action | Code |
|---|---|
| `Submit`, `Check`, `Refuse` | the request and the call of `/check` |
| `Connect`, `ConnectFails` | tunnel and handle |
| `Columns`, `Row`, `End`, `Break` | the driver's loop with the handler's callbacks; `Break` is the deadline, the client, or the database |
| `Panic` | `Recoverer` |
| `Audit`, `Answer` | the `go` statement, then the end of the answer, in that order in the code |
| `Post`, `Record`, `CallFails` | the goroutine's call, `log_query`, and every way the call ends without it |
| `Leave`, `ChangeAccess`, `ChangeSettings` | the client and the admins |
| `Drain`, `Exit` | the signal, and the end of the process at any time after or without it |

### TableTab

Each call of `fetchData` is a numbered request.  `rows`, `buffer`, `timer` and `latest` are the refs,
`window`, `total`, `status` and `shown` the store.  One callback is one step, as the browser runs them.
A request goes through `estimate` and `count` when it is not filtered and the total is unknown, then
`asked`, `stream`, `ended` or `failed`, `done`; `Cut` is a body that ends without its `complete` event.

### Around the queries: MCMembers, MCTableTab, MCQueryRun, MCWorkspace, MCDatabases

These five check one core module each and the components that stand beside it.  Their group properties
are conjunctions of properties that the modules define and comment: `RowsForCause` (`MCMembers`),
`EditsReach`, `ShownIsDone` and `AskedAndKept` (`MCTableTab`), `StatementsFit` and `WorkbenchTold`
(`MCQueryRun`), `PagesTold` (`MCWorkspace`), `SavedForCause` (`MCDatabases`).

**`Invitations`, `LoginCodes`, `Worksheets`, `ImageStore`** (`MCMembers`) are handlers of the API,
modelled as in the core: what a handler reads and checks is one step, each write another, and a call may
die in between. `Invitations`: `Look`, `HandOut`, `Revoke`, `Issue` are `create_or_get_invitation`;
`Check`, `JoinByInvite`, `JoinTwice`, `JoinByDomain` are `join_workspace`.  `LoginCodes`: `Count`, `Send`,
`Read`, `Mark`, `LogIn`. `Worksheets`: a save writes the whole copy that was read (`SaveSheet`) and keeps
a version afterwards (`KeepVersion`); deleting a folder moves its worksheets out first.  `ImageStore`:
an upload is `StartUpload`, `PutObject`, `SaveRow`, `FallBack`, `ShowImage`, `CleanUp`, `RemoveRow`; the other
calls that write the address of a person's picture are the saves of the whole row (`StartNaming`,
`SaveNamed`: creating or joining a workspace, a Google sign-in of somebody without a name, the password of
a row just made) and the Google sign-in of somebody without a picture (`StartSignIn`, `Download`,
`SignIn`), which stores one of its own.  `OfPerson` tells a person's picture from a workspace's, which
only uploads write.  **`WorksheetVersions`** has the
culling as an operator on a history of ages: `Fill` is the pass over the spans, `Kept` what is kept when
the spans keep too little, and the histories checked are all that saves can bring about.  A maximum of
seven or more is assumed (the code's is ten), as the culling keeps up to seven versions: the newest three,
one for each of three spans and the oldest.

**`RowGrid`, `RowQueue`, `RowForms`** (`MCTableTab`) follow a change of a row: from the cell it is typed
in (`RowForms`, one column and the state of its field), through the grid that may be read again underneath
(`RowGrid`: a tick is an index, and the model remembers which row was ticked there), to the queue
(`RowQueue`: `PressSave`, `PressCommit` and one `Statement` per entry, each of which may fail; `Clear`
and `RemoveEntry` are what the store offers the person while a save runs).
**`TableFilters`** is what is asked for: chips, raw SQL, mode and page, and the ways a tab is opened
again; **`FilterSql`** is what one condition keeps, by character where escapes matter.
**`WorkbenchTabs`** opens, pins, shows and closes tabs from wherever the workbench does it, and remembers
which hold work.

**`StructureEdits`** (`MCQueryRun`) numbers the versions of a table's structure: each `describeTable`
reads the columns and the rest in two steps, the pane and the grid take what arrives, and the dialogs run
their statements meanwhile.  **`RefPicker`** is the three lists of the foreign key dialog.
**`TableDesign`** and **`ColumnEdits`** are forms made into SQL and the table that the SQL makes, for
PostgreSQL and for MySQL; the schema a foreign key points into is left out of the former, and
the tabs that a creation closes and opens (`useNewTableForm.ts:171`) are in `Created` of `WorkbenchTabs`. **`AccountBackend`** has what is kept per account: the keys that are fetched by
the first query and the history, once in the backend and once in the provider.  **`StarredItems`** is two
browser tabs with one localStorage.

**`QueryCache`** (`MCWorkspace`) is every query of the web app, one at a time: `Mutations` says what each
changes, `Invalidates` and `Sets` what its hook does, `Pages` who reads what.  **`WebSession`** is the
token, the passphrase and what was read with them.  **`VaultGate`** is the gate before the pages of a
vault and the page that replaces a key; the server's side (`ServeCreate`, `ServeConfirm`, `TestedKey`) is
that of `VaultKeys` for one user, with the other admins as steps that change it.

**`EditDialogs`** (`MCDatabases`) is the five kinds of forms of the web app by how they are filled, what
they send and what their success closes.  **`AddDatabase`** is the form with the import of a connection
string, the call with its check and its insert, and the page it leads to.  **`AccessPages`** is what four
lists offer and what the API does when it is asked; a row has a term, so that two ends of one person's
access are two things, and an approval keeps the end that was set with the request (`api_access.py:170`).

React, React Query, zustand's `persist` and the browser's storage are external: the actions that are theirs
alone (a fetch that ends, an observer that is told, an effect that runs) are marked so in `PROJECT.json`.

## The runs

All runs take under three minutes with two workers.  Sizes are distinct states.

| Run | Bounds | States | Shows |
|---|---|---|---|
| `vault_ring` | 2 users, 3 keys (one user re-creates hers), 2 workers, no credentials | 1.1 M | one live key per user but for the named exceptions; no trust without a solo admin |
| `vault_provision` | 2 keys, 2 credentials (one old, one new), 2 workers; each query of the web app under 2 changes; 2 memberships, 1 change from outside; a gate with 2 keys, 1 call, 1 change by others | 2.15 M | rows only for approved keys, all wrapping the current key; what the pages, the session and the gate show |
| `vault_revoke_lost` | 2 keys, 1 worker | violation | a revocation undone by an activation |
| `vault_legacy` | 3 keys in a chain, 1 old credential, 1 worker | violation | the second re-encryption orphans the rows of the first |
| `access` | 1 user, 1 group, 3 rows, 2 workers, 1 hour | 1.8 M | one lease per row; requested access ends; duplicates bounded |
| `access_denied` | 1 user, 2 rows, 2 workers | violation | approved and denied at once |
| `members` | 3 people, 2 workers, crashes; 2 invitations of one use, 2 codes, 2 worksheets, 10 versions, 3 images and 3 calls of any kind for a person's picture, 2 calls of each other kind | 1.99 M | sessions mirror users; how the last admin goes; rows are lost, exceeded or undone for named causes |
| `session_role` | 2 people, 2 workers | violation | a login that keeps the old role |
| `tunnels` | 3 queries, 2 databases, 3 tunnels, 2 ports | 436 k | counts, ports, closings, and that tunnels turn over |
| `handles` | 3 queries, 2 keys, 3 handles; 2 entries with 2 submissions, 2 imports with 2 attempts, 2 people with 2 clicks | 1.41 M | the map is sound; how handles are lost and closed; what the pages of databases save |
| `query_run` | 1 request, 2 rows, a stream limit of 1; 2 submissions and 2 readings of a structure; 2 columns and 6 edits; 2 tries; 2 runs of 2 backends; 2 browser tabs | 1.09 M | answers, audit entries, and that both end; what the workbench shows of structures, keys, history and stars; what statements make |
| `table_tab` | 2 requests, 2 rows, 3 windows; 3 rows, 2 changes, 2 saves; 2 chips; 3 tabs | 826 k | one request's rows; success; totals; loading ends; changes reach their rows; what is shown of the queue is what a save does; filters are asked for; work is kept |

Why the bounds suffice for the interesting cases:

- *Two workers or queries overlap in every race the code has*; a third matters only where one replaces
  what a second holds while a third waits, hence three queries for the pools.
- *Keys*: one user with two keys and another to approve one; three owners where the chain of approvals
  matters.  Legacy rows need one key and one credential.
- *Rows of access*: two can be open at once with two workers, a third comes after one has closed.
- *Tunnels*: one expired, its replacement, and one for the other database; two ports force the reuse of one.
- *Rows of a query*: none, one, and one more than a limit of one, so that streams that just reach their
  limit and streams that are cut both occur.
- *Requests of `QueryRun`*: one.  Requests share only `may`, `auditing` and `service`, which no request
  changes, so two in one run are the product of two runs of one (more than eight million states); the
  theorems hold for any number.
- *Requests of `TableTab`*: two, the overtaken one and the one that overtakes; theorems cover more.
- *Rows of a grid*: three, of which two are shown; a queue of two changes, two saves: an entry saved twice,
  an entry queued under a save and one left over by a failure all occur.
- *Structure*: two submissions and two readings, one overtaken by the other; *picker*: two schemas, two
  tables, two loads.  *Forms of a new table*: six edits make every pair of a column, an index and a foreign
  key that are then renamed, removed or completed.
- *Filters*: two chips, so that "all" and "any" differ; texts over the characters special to `LIKE`, to a
  quoted literal and to MySQL's backslash.
- *API rows*: two calls of each kind, as for the core; ten versions of a worksheet, the number the code
  keeps by default, since its culling sorts them into spans of ages.
- *Queries of the web app*: one at a time under each mutation that matters to it and two changes of its
  rows, since an entry of the cache knows nothing of the others; two where a mutation writes the query's
  data.
- *The gate of the vault*: one call.  Two (Continue pressed twice) make more states than a run has time for;
  they were checked by themselves, with the exception they need in `ShownKept`, and `GateHolds` covers any
  number.  The symmetry of this run is that of the memberships.
- *Pictures*: the initial one and those of two calls that store, of three calls that may each be an upload,
  a naming or a Google sign-in, of a person and with the object store.  One naming and two uploads bring
  back what was removed; a workspace and the database alone were checked by themselves, and `ImagesHold`
  covers them.
- *Forms*: two entries and two submissions, the late one and the one it finds open; one edit by another
  admin.

Bounded counters are named: `MaxTime` (clock), `MaxTunnels`, `MaxDBs`, `MaxRequests`, `MaxRows`, `RowIds`,
`Keys`, and in the modules around the core `MaxEntries`, `MaxChips`, `MaxEdits`, `MaxTries`, `MaxChanges`,
`MaxOutside`, `MaxCalls`, `MaxChangesOfKeys`, `MaxSubmits`, `MaxImports`, `MaxAttempts`, `MaxClicks`,
`MaxOthers`, `MaxMade`, `MaxRight`, `MaxToggles`: each counts what a person or another tab does, never
what the code does in answer.  In `TunnelPool` and `ConnPool` a creation beyond the bound is not enabled,
so queries that need one may stop there: the bounds are large enough for each to be replaced once.

## Fairness and deadlock

- `TunnelPool` (`FairSpec`): `Age` (time passes), `CleanupStale` (a ticker), and `Release` of each query.
  The code releases in a `defer` and the query's context has a deadline (60 seconds unless the client asks
  for another), so a query ends.  Two conditions lie outside the code: the clock, and a client that either
  reads or goes away, since the server sets no write timeout (`main.go:45`) and a write to a client that
  does neither blocks past the deadline.
- `QueryRun`: `Refuse` (the call of `/check` has 30 seconds), `ConnectFails` (10 seconds to dial, two for
  a ping), `Break` (the context's deadline), `Audit` and `Answer` (plain steps, with the same condition on
  the client), `CallFails` (10 seconds).  No fairness is assumed of the database, the API or the network:
  the good outcomes may never come and everything still ends.  A retry of the handle pool starts again only
  when another query has opened a handle meanwhile, so finitely many requests retry finitely often.
- `TableTab`: weak fairness of each request's next answer.  `EveryQuerySettles` is why a request of the
  tab does get one.
- `MCQueryRun` takes the fairness of `QueryRun` over the whole of its variables; the other parts of that run
  have none and need none.
- The other modules state safety only: nothing in them has to happen.  Their properties of steps ("only
  when") are where an ordering or a loss would show.

Deadlock checking is off where the modelled system may stop: every key, row, tunnel or handle the bounds
allow has been used and no request is open (`VaultKeys`, `AccessGrants`, `ConnPool`), the process has
closed its pool (`TunnelPool`), or two admins have deactivated each other and nobody is left
(`Membership`).  The parts around the core stop as well, once the calls their bounds allow are answered or
a form is done, so it is off in the configurations they share, also for `QueryRun` and `TableTab`, which
by themselves never stop.

## The proofs

Every theorem below is proved for all values of the constants that satisfy the named assumptions, which
only say what kind of thing a constant is.  All arguments have one shape: an inductive invariant, a lemma
for each action that it keeps the invariant, and a last step in temporal logic.  Action properties are
proved from the same invariant by looking at the one step that could violate them.

| Theorem | Argument |
|---|---|
| `VaultKeysProofs!TypeCorrect` | `TypeInv` adds `StageOK`: what each stage of a request has filled in, as a stage that uses its target relies on an earlier one to have set it |
| `...!OneLiveKeyHolds` | `RingInv`: a key that is about to be saved as confirmed is the only one of its owner that is committed or exempt, and two confirms cannot both believe so |
| `...!RowsOnlyForApprovedHolds`, `...!TrustNeedsSoloAdminHolds` | `TrustInv`: approvals and confirmations are never taken back, and a request under way only provisions a key that has both |
| `...!SharedSymmetricKeyHolds` | `SharedInv`: a credential of the new format has one symmetric key for good, and whatever is copied is that one |
| `AccessGrantsProofs!TypeCorrect` | stages again; a primary key in use is never given out twice, and the rows in use are of users or of groups there are |
| `...!LeaseImplemented` | `RowsStep` summarises what any step does to the rows; the phases follow from it. This is a refinement: initial states map to initial states and each step to a step of `AccessLease` or to none |
| `...!RequestedAccessEndsHolds` | `EndsInv`: a requested row's end was fixed at its insertion |
| `...!OpenRowsBoundedHolds` | `CountInv`: the open rows of a subject and the workers about to insert one for it are together no more than the workers |
| `MembershipProofs!SessionsMirrorUsersHolds` | `Mirrors` and `CopyRight`: a session is right, or a request that will put it right is under way, or its user raced; the same for a copy that is still to be written |
| `...!LastAdminRemovedHolds` | an admin who removes another is still there |
| `TunnelPoolProofs!RefsCountUsersHolds`, `NoTunnelLostHolds`, `OwnTargetWhileOpenHolds` | one invariant: the pool keeps open tunnels under their own keys, a query uses a tunnel that leads to its target, and no two listeners share a port; counting uses the cardinality of the set of users |
| `...!ClosedUnderQueryHolds` | a ticker only closes what has no users, `Close` runs when there are none |
| `...!DrainsHolds`, `StaleIsClosableHolds` | the safety half of `TunnelsTurnOver`: a tunnel past its TTL loses users and gains none, and closed stays closed; an open one that is stale and has no users is within the ticker's reach |
| `ConnPoolProofs!PooledIsOpenHolds`, `OnlyDropLosesHolds` | a handle is under the key it was opened for or under none, so what a `Drop` closes is no longer in the map |
| `...!ClosedForCauseHolds` | only `Drop` and `CleanupStale` close |
| `QueryRunProofs!WholeOrToldHolds`, `OneEntryPerRunHolds` | a property `Good` of one request: what each stage has filled in; a driver that returned without an error has read everything up to the limit; an entry is there only once the call is over |
| `...!MissedForCauseHolds` | step by step: only `Record`, `CallFails`, `Panic` and `Exit` can leave a query missed, and `Record` only without access or auditing |
| `...!SettlingHolds` | the safety half of `EveryQuerySettles`: each step that a deadline brings about takes a query nearer its end, no step takes it back, and at the end it has its answer and its report is over |
| `TableTabProofs!NoMixedRowsHolds`, `SuccessIsWholeHolds` | `Blank` and `Whole`: once the rows of the latest request are all shown, no flush is due that could take some away |
| `...!WrongTotalOvertakenHolds` | only a count makes a total known, only `Begin` filters |
| `...!AnswersCountDownHolds`, `LoadingIsUnderWayHolds` | the safety half of `LoadingEnds`: each answer takes its request nearer its end (`Stage`, `StepsLeft`), and a tab that loads waits for its latest request, which still has answers to come |

Of the parts around the core, each by itself and then all that one MC module composes:

| Theorem | Argument |
|---|---|
| `MembersProofs!RowsForCauseHolds` | the five parts below, and that a step of one part is a step or a stutter of each |
| `...!InvitationsHold` | `InvitationInv`: a join past its check has read fewer uses than the limit; the count is the number of usages unless joins collided; an admin's call that overlapped none sees none standing beside the one it read (`AloneSees`) |
| `...!CodesHold` | `CodeInv`: recent codes and the requests that have counted are together no more than the ceiling and the requests that counted beside another; of two verifications past reading a code, one had the other beside it |
| `...!WorksheetsHold` | `SheetInv`: every text is a version or the one a call is about to keep, unless a call died (`TextSafe`); a copy about to be written is still the row but for what was asked, unless it is late (`CopyOK`) |
| `...!HistoryHolds` | operators first: what `Fill` adds and what `Kept` contains, then one save after another; by index, without induction over the list |
| `...!ImagesHold` | `ImageInv`: what is about to be shown is its call's own and there (`ToShowOK`); what is about to be removed is not shown, unless a save put it back (`ToRemoveOK`); what is shown and a call under way has not read was stored beside it (`ReadOK`); content belongs to a call or is spilled (`HalvesOK`), and what nobody shows is left for a cause (`LeftOK`) |
| `TableTabProofs!AskedAndKeptHolds` | `FiltersAskedHolds`: `FiltersInv`, what the last fetch asked for differs from what is shown only by an excuse that is kept; `WorkKeptHolds`: ids differ, there is one preview at most, the tab that is shown is there, and a preview with work in it is a routine (`TabsInv`) |
| `...!EditsReachHolds` | `GridInv`: every tick and editor is at an index there is; `QueueInv`, see below; `FormInv`: a field is null or default and not both, and an editor nobody typed into shows what the cell held; then parser by parser |
| `...!ShownIsDoneHolds` | two inductions over data, see below: the table after a queue of changes, and what a `LIKE` pattern matches; then operator by operator of the filter (`LikeAgree`, `DirectAgree`) |
| `QueryRunProofs!StatementsFitHolds` | `DesignHolds`: what the statements have made so far is the part of the drawing before the one that runs; `ColumnHolds`: unless a try failed halfway, the column is as it was opened, with what has been run of the statements, or with all of them (`Progress`) |
| `...!WorkbenchToldHolds` | `StructureHolds`: with no change under way, the reading asked for last is still to come, or it came and stayed and those to come are late; `PickerHolds`; `BackendHolds`: a backend's memory is the first of the places where its own queries appear (`InTurn`, `AskedForCause`); `StarsHold` |
| `VaultKeysProofs!PagesToldHolds` | `CacheHolds`: `CacheInv`, every change that data held for good lack is untold, lost, overtaken or still being told; `SessionHolds`: `SessInv`, what is known, stored and shown is of the token, or another tab or a late answer is the cause; `GateHolds`: `GateInv`, see below |
| `ConnPoolProofs!SavedForCauseHolds` | `DialogsHold`: what was not typed is what the form was filled with, and one open dialog watches one call; `AddHolds`: what this tab made is over for it or still to be told, and the timer that hides the message never runs; `AccessHolds`: a list is that of the rows, or a reading or an answer that says so is to come, and a call was offered for what its list allowed |

The arguments of four of these deserve a word, because the properties as such are far from inductive.

- *The queue of changes* (`QueueInv`).  That an entry runs twice, is lost or overtakes another only for the
  named causes needs: a save's list is in the order of making and it stands at one of its
  entries (`SaveFits`); what it is past has run (`PastHaveRun`), and what has run is of a save that came to
  it (`RunsFit`); of two saves under way one was started beside the other (`Beside`), and two that list the
  same entry did so or one of them failed (`SharedForCause`); what a finished save listed is no longer queued
  (`DoneIsGone`); an older change that is still queued is listed wherever a later one is (`ListsOlder`); and
  what is queued and not listed by a save under way was made during it (`MadeDuring`).
- *The vault's gate* (`GateInv`).  A user has one key in force, but for the only admin (`KeysFit`); what is
  confirmed was shown (`CallsFit`); a gate that is there has come to what it shows (`ScreenFits`); a
  passphrase that is kept, tested or answered was of a key in force (`PassFits`); what the server has said of
  one still stands or is excused (`SaidFits`); and where the user has a key of which the tab knows nothing,
  there is a reason (`MeFits`).
- *A list of access* (`AccessInv`).  A list is that of the rows for a person unless it is being read again or
  an answer is still to say so (`KnownOf`), and what an admin wished is done once their call is served
  (`WishOf`).

- *Shown is done* (`ShownIsDoneHolds`).  The table after k changes is a function of k, which an induction
  shows to be well defined (`TablesAre`, `OutcomeIs`); a second one shows that a cell of it is what the last
  change to that cell made (`AsLast`, `OneMore`), and the grid shows that one because the queue is in the
  order of making.  For filters, the places from which a text matches a pattern are a function of
  the place in the pattern (`LikeIs`).  A pattern that holds a text, each character as it is or behind a
  backslash (`Coded`, `Spelled`), matches where the text stands and nowhere else (`CodedMatches`); doubling
  backslashes spells the text, and lower case keeps the spelling.  So a condition means what its operator
  is labelled, but for the causes the property names.

The library's theorems of induction take an operator as a parameter, which the provers cannot instantiate.
`SetInduction` puts a set in the place of the predicate and follows from the well-foundedness of `<` on the
naturals; the inductions above are uses of it, over recursive functions.

Trying to prove them found what the small instances had not shown:

- With Continue pressed twice before its answer, the second answer of the gate puts away whatever
  passphrase is shown by then.  One call never does this, so `ShownKept` held in the run without saying so;
  it names it now.  In the same way `OpenFits` had to name a passphrase that is answered late, after its key
  has been retired.
- `AccessPages` remembered *that* a person's access had ended; rows whose access had ended and been given
  again then compared as equal.  Rows have terms now, and the API keeps the end of the request
  (`api_access.py:170`).
- `RowGrid` counts ticks, which needs finitely many rows: `GridAssumption`.

The named assumptions are about kinds and bounds only: bounds are natural numbers (`BackendAssumption`,
`StarsAssumption`, `ChangesAssumption`, `CacheAssumption`, `AddAssumption`, `AccessPagesAssumption` and
others), a constant that stands for "none" is not a member of the set it is added to (`ImagesAssumption`,
`EditDialogAssumption`), or a set is finite where it is counted (`WorkersAssumption`,
`QueriesAssumption`, `GridAssumption`). `QueueValuesAssumption` says that the marks for a default, an object
and a removed row are not values of cells, and `TextsAssumption` that the texts of conditions are sequences
of characters, the empty one among them. The forms of a new table and of filters are addressed by index,
which is also what the code does, so that no fact about a whole list needs induction.

Each core component also has its `TypeCorrect`.  What is model-checked only, and why:

- `TunnelsTurnOver`, `LoadingEnds` and `EveryQuerySettles`: that a step is taken in the end rests on fairness
  and `ENABLED`, which are out of the prover's reach.  What a step then does, and that none undoes it, is
  proved: see the theorems named as a safety half.
- The violations are found by TLC; they need no proof.

## Disagreements between the code and its documents

Shown by runs (`PROJECT.json` quotes the lines):

1. A revocation between the check and the save of an activation is written back to null
   (`vault_revoke_lost`).
2. Each activation by a key with an old-format row re-encrypts the credential and orphans the rows made
   before (`vault_legacy`).
3. An approval and a denial that overlap both succeed; the history shows "denied" and the user has access
   (`access_denied`).
4. A login that overlaps a change of role keeps the old role for the life of the session (`session_role`).

Seen while modelling, present in the models as behaviour, without a run of their own:

- *Key ring.*  A solo admin who creates a second key has two live keys, and `.first()` picks one of them
  for decryption (`key_service.py:202`, `utils.py:216`).  `is_solo_admin` joins a count of admins to the
  role read at authentication (`key_service.py:154`), so that somebody whose role was taken meanwhile
  makes an approved key while another is the only admin; "True if user is the only active admin" (`:152`).  An activation silently skips credentials the
  admin's key has no row for (`utils.py:495`; `api_key.py:140` says it re-encrypts all of them).  A wrong
  passphrase leaves the key approved and its activation cannot be repeated (`utils.py:178`,
  `key_service.py:268`).
- *Access.*  The check for an existing grant finds rows that are pending, denied or expired and refuses
  with "Access already granted" (`api_access.py:101`), while overlapping grants both insert.  After its end
  date a row still blocks a new request (`:151`).  The email about an approval leaves before the
  transaction commits (`:385`).
- *Tunnels.*  An expired tunnel is closed under the queries that use it when another query replaces it
  (`tunnel.go:129`); `ClosedUnderQuery` says that this is the only case.
- *Handles.*  A query whose ping failed removes whatever is under the key, possibly a new handle that
  works, which is then neither used nor closed (`pool.go:86`); `OnlyDropLoses` says that this is the only
  case.
- *Query run.*  An export that fails after its first bytes looks complete (`query.go:225`), and so does a
  stream whose handler panics.  `/log` checks access again, so a query whose user was revoked while it ran
  is not recorded (`api_account.py:234`).  A shutdown loses the reports under way (`main.go:66`).  A stream
  whose rows are exactly as many as its limit is called truncated (`stream.go:165`).  `isConnectivityError`
  looks for "Failed to open", which `Stream` writes in lower case (`query.go:22`, `postgres.go:281`).  The
  service always reports the actor "custom".  Where a body has no reader the workbench runs the query a
  second time (`BaseRemoteBackend.ts:277`).
- *Invitations, codes, worksheets, images.*  An invitation that has expired or is used up is handed out
  again (`api_workspace.py:60`).  The dialog that deletes a folder says its worksheets "will also be
  deleted" (`WorksheetModals.tsx`), the API moves them to the root, where names may then repeat; "Move to
  root" sends a null the API takes for "no change"; a save of a worksheet deleted meanwhile inserts it
  again.  The culling promises never to go below its maximum (`workbench/utils.py:83`) and may leave seven
  of eleven versions.  Creating or joining a workspace says "Update identity name if provided"
  (`api_identity.py:161`, `:256`, `:313`) and saves every column as it was read (`:164`, `:259`, `:316`), as
  does a Google sign-in (`api_auth.py:541`): a picture that was replaced and deleted meanwhile is shown
  again and cannot be served.  `ShownIsServed` names this as its excuse (`restored`) and fails without it.
  The picture that such a save or a sign-in takes from display is removed by nobody (`LeftForCause`: its
  call ran beside another).
- *Editing rows.*  When a statement of a save fails, those before it stay queued and run again
  (`useMutationQueue.ts:64`); a save that succeeds drops what was queued while it ran (`:85`).  Ticks are
  indexes and may stand on other rows after a broken stream.  Of a composed key only the first column is
  in the WHERE.  An object in a cell is saved as `[object Object]` by leaving its editor
  (`RichCellEditor.tsx:48`), an empty text as NULL, "12ab" as 12.
- *Structure.*  Answers of `describeTable` may come out of order and the older one stays; a dialog reopened
  while its earlier submission runs is closed by it; MySQL's MODIFY loses what the dialog does not say
  (`mysql/ddl.ts:119`) and COMMENT ON is refused there; a composed key is written twice
  (`postgres/ddl.ts:211`, `mysql/ddl.ts:212`); replacing a foreign key drops it first.
- *Filters and tabs.*  Opening a table again without filters, or with the last ones, changes nothing
  (`TableTabContext.tsx:276`; `openTableTab.ts:14` says it resets them); the page stays when a filter is
  added; `%`, `_` and backslashes are not escaped alike (`postgres/queryBuilder.ts:128`).  The text of a
  routine is lost to the next preview; the success of a creation closes whatever tab has its id by then
  (`useNewTableForm.ts:171`); a routine says "Saved successfully" for a save that was refused
  (`RoutineTab.tsx:92`).
- *Backend and stars.*  The keys of an account are fetched once per backend, so changed credentials fail
  until the page makes another; two first queries fetch twice and the older answer may stay.  A history
  limited to 100 is the one that is never listed; the one that is shown grows without limit and is emptied
  when the account is read again with other data.  Exporting the "current page" exports the first rows
  (`useExport.ts:62`).  A star's button is not drawn again when the store changes, so a second click stars
  twice; each browser tab writes its whole list over the other's.
- *Web app's answers and session.*  `HomePage.tsx:180` links to `/databases/new`, which is no route;
  several mutations do not refresh the page they are made on (`Untold` in `QueryCache`); an answer
  overtaken by an invalidation during the first load is taken for fresh.  A failed first `/me` sends a
  user with a valid token to the login page, which `App.tsx:60` says it prevents; a token changed by
  another tab keeps the queries and the passphrase of the earlier session; an identity's logout does not
  end its session at the API.
- *Gate.*  Once open it is not judged again, though `VaultStatusBadge.tsx:12` relies on the vault being
  unlocked behind it; after a key was confirmed the page offers to create one until the user is fetched,
  and a second key retires the first; the only admin's key is in force before its passphrase is saved, and
  fetching the user again takes the shown passphrase away; a passphrase typed before a reset and answered
  after it is kept although its key is retired.
- *Forms.*  Clearing "No environment" sends nothing, so it is never removed; an account without a level is
  saved as read-only and a workspace that lets another domain join as its admin's domain, although nobody
  touched the field; every field is sent, so another admin's change since the dialog was opened is undone;
  a late success closes the dialog that was opened for another row.
- *Adding a database.*  "Auto-hide success message after 5 seconds" (`DatabasePage.tsx:654`): it never
  hides, since removing the query parameter runs the effect's cleanup.  `ShowNotice` and `HideNotice` are
  translated from the code, where the timer never runs out; no property is stated of the message.  An imported string does not set the type, and a
  later one without a password leaves the earlier one's; a retry after a lost answer is refused for the
  name this tab made; two creations at once both pass the check, and the second fails in the database
  without being caught.
- *Access pages.*  The end of an access is judged when the list changes (`DatabasePage.tsx:119`).  The
  list offers people whose request waits, was denied or whose access has ended, and the API refuses them
  with "Access already granted" for ever, as no page revokes.  A key is not approved, and nothing is said,
  while the vault is locked.
- *Table tab.*  Turning the page changes the bar and not the rows: the store is made by zustand's `create`
  without `subscribeWithSelector` (`useTableTabStore.ts:130`), so `subscribe` in `TableTabContext.tsx:296`
  takes its selector for the listener and never calls the one that fetches.  `SetWindow` and
  `TableFilters!SetPage` therefore fetch nothing; "turned" names it in `FiltersAsked`, a part of `AskedAndKept`.  A count that comes
  in after a filter was set is stored all the same (`:164`); `WrongTotalOvertaken` says that this is the
  only way to a wrong total.

## What is not modelled

- *Within the modelled parts*: the contents of queries, rows, credentials and messages, but where a text
  is escaped, parsed or truncated; health-log sampling, connection tests and health checks;
  `ConnectionPool.Close`, which nothing calls; how a broken SSH connection comes about; the links that
  reset a password and the daily cleanup of codes; deletion of databases and accounts, and tags; the
  schema tree and the command palette of the workbench; the workbench's exports beyond their keys and the
  history.
- *Unreachable code*: the workbench's pane of worksheets (at this commit nothing gives it a server's id,
  and its queries send `server_id` where the API wants `database_id`; the API's side is modelled);
  `DataInput.tsx`, `ColumnInput.tsx`, `EditorDropdown.tsx`, `BaseGrid`, the inbox's
  `PendingAccessRequests.tsx` and `PendingKeyApprovals.tsx`, which nothing imports; the hooks
  `useRevokeKey`, `useNotifications`, `useMarkNotificationsRead` and `useGroups`, which nothing calls.
- *Cryptography* is assumed: a row opens with the key it was wrapped for and with no other.
- *Notifications, audit log queries, configuration of the query service, mail templates, deployment, tests*:
  rows nobody changes, values set before the first request, wording, layout or I/O.
- *Liveness* beyond `TunnelsTurnOver`, `LoadingEnds` and `EveryQuerySettles`: in the web app and in the API
  everything waits for a person or for one answer of a server, which may never come.

`PROJECT.json` gives the reason for each component, and maps 32% of the implementation's lines.  The rest is
mostly layout, generated types and the parts above.

## Plan

The core came first (the key ring, access, the pools, members, the tab, the query that ties them
together), with its proofs; then the API's other rows, and the workbench and the web app around the tab.
The proofs followed, part by part, until every safety property of a passing run was a theorem.
Two things of the first plan are left, and they are compositions rather than parts:

1. `QueryPath`: `QueryRun`'s `Connect` refined by the two pools, to show that a handle reached through a
   tunnel's local port belongs to the database the query asked for, or that the tunnel was replaced.  The
   two halves are there: `OwnTargetWhileOpen` and `PooledIsOpen`.
2. Refinement: an abstract audit log (each finished query is recorded or excused) that `QueryRun`
   implements, and an abstract pool (a counted resource) for the two pools.

Smaller hazards, noted and not in `PROJECT.json`: an approved key whose provisioning failed cannot be
activated again (`connection/utils.py:181`); the server has no write timeout (`main.go:45`); an object
stored before its row is left over by a crash (`accounts/storage.py:119`, in `ImageStore`); a deletion of
an image goes on to delete the row when deleting the object failed (`:175`); workspace settings are read,
changed and saved whole, so that two overlapping changes keep one (`workspace/api_settings.py:96`).

Runs are few on purpose: a new module takes the place of a violation that has been shown, or shares a
configuration with the module it stands beside.
