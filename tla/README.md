# A specification of the printing-ERP backend

TLA+ models of the backend of printing-ERP (`src/backend`, Rust: axum handlers
over Postgres and an S3 object store), the TLC runs that check them on small
instances, and proofs that TLAPS checks for instances of any size. Paths below
are relative to `src/backend/src` unless they start with `backend/` or `SPEC.md`.

The backend is a set of stateless HTTP handlers. All of its state is in Postgres
(and, for files, in the object store), so everything that is hard about it
happens between transactions: which row a statement locks, what it re-reads
once it has the lock, what it read before, and what is left when the request
dies half-way. That is what the modules model, statement by statement.

## 1. Inventory

| Component | State it keeps | Operations | Who it talks to | What makes it correct |
| --- | --- | --- | --- | --- |
| sessions and passwords (`auth/login.rs`, `refresh.rs`, `logout.rs`, `reset.rs`, `session.rs`, `opaque.rs`, `notifier.rs`) | `refresh_tokens`, `password_reset_tokens`, the password hash in `users` | login, refresh (rotation, reuse detection), logout, forgot, reset | `users`; the clock; the notifier (mail) | a session is a chain with one live token; a revoked session stays dead; a reset token works once; nothing undone was delivered |
| user management (`http/routes/users.rs`) | `users.role`, `users.is_active` | list, create, PATCH with the last-admin guard | sessions (`is_active` gates a login) | a tenant keeps an active admin; requests do not deadlock |
| CRM (`crm/repo.rs`, `http/routes/customers.rs`, `contacts.rs`) | `customers`, `contacts`, `customer_code_seq` | create, list, fetch, patch, archive | - | codes have no gap and no duplicate; no active contact under an archived customer; archived rows are frozen; patches compose |
| assets (`assets/`, `http/routes/assets.rs`, `storage/`) | `assets`, objects in S3, presigned URLs at clients | create, complete, list, fetch, delete | the object store; settings (the logo) | a ready asset was verified; a deleted one stays deleted; a failed delete can be repeated |
| business settings (`http/routes/settings.rs`) | one row of `business_settings` | get, put | assets, the pool | a PUT replaces the row whole; an answer holds the tenant's own row; a URL is for the tenant's own asset, once it is ready |
| lists (`crm/repo.rs`, `assets/repo.rs`, `users.rs`) | none of their own | page by page; a customer's contacts at once | the tables of CRM, users, assets | a row that was accepted never fails a list; pages miss nobody; a reader comes to the end |
| access tokens (`auth/claims.rs`, `context.rs`) | none (a signed JWT at the client) | issue, verify | sessions (role), every handler | a role that was lost is believed for a bounded time; a live token is accepted everywhere |
| authorization (`authz/`, `http/require.rs`) | none | the permission matrix and the guard of each handler | access tokens | no handler runs without its permission |
| tenant transactions (`db.rs`, RLS policies) | the pool; the tenant setting of a connection | begin_tenant_tx, pings | every handler | a statement sees its own tenant's rows; a setting never leaks to the next checkout; a pool at its limit empties again |
| domain newtypes (`domain/`, `*/model.rs`) | none | parsing, validation | all | what a constructor accepted it accepts again, since no CHECK of the tables asks as much |
| surface, config, clock, telemetry, deployment | none, or pure I/O | routing, start-up | all | not modelled |

How the components interact: handlers share nothing in memory but the pool, the
store client and the clock. They meet in the database. `refresh` and `login`
read `users`, which user management and `reset` write; archiving a customer
writes `contacts`, which the contact handlers write too; deleting an asset and
showing it as a logo meet in `assets` and in the store.

What is hard: several requests of one user at the same time (two tabs rotate one
token, a logout meets a rotation); `UPDATE ... WHERE` over several rows, whose
snapshot is older than the locks it then waits for; checks made before a wait
and used after it; locks taken in different orders; a request cut by its timeout
before the commit, during it or after it; a caller that retries because an
answer was lost. `PROJECT.json` lists these as hazards, each at its line.

## 2. How Postgres is modelled

All modules take the same view of a READ COMMITTED transaction.

- The variables named after columns hold committed rows. What a transaction has
  written is in variables of its own until its commit, one action that publishes
  it; `Abort` drops it at any earlier point. A timeout of the application
  (`AUTH_QUERY_TIMEOUT`, `TENANT_QUERY_TIMEOUT`), a fault, a dropped connection
  and a crash are the same thing to the database: the transaction rolls back.
- Each statement takes a snapshot and then waits, row by row, for the row locks
  it needs. A row obtained after a wait is read in its newest version and the
  statement's WHERE is evaluated again; a row that no longer matches is left
  alone **but stays locked**, and a row that started to match after the snapshot
  is not seen. Both facts matter: two of the findings rest on them.
- A row lock is held to the end of the transaction. A transaction whose row lock
  is asked for by nobody else is merged with the step before it; an INSERT, which
  nobody sees before the commit, is merged with its neighbour as well.
- Reads that change nothing (lists, fetches, a rejected login) have no action.

Passwords, hashes, names and tokens are model values. A minted token or id is
one that was never used (256 random bits, a v4 UUID). One tenant is modelled,
because every query runs under the row-level-security policies of its own; that
it does is what `TenantPool` and `Settings`, which have several, are about.

## 3. Modules

| Module | Stands for | Notes |
| --- | --- | --- |
| `SessionChains` | what rotation promises | abstract: `Open`, `Rotate`, `End`, no database |
| `AuthSessions` | `auth/` | one action per statement that matters: `LoginRead`/`LoginIssue`, `RefreshFetch`/`Rotate`/`RotateCommit`, `Logout`, `Scan`/`UpdateRow`/`RevokeCommit` (shared by logout, replay handling and reset, which run the same kind of UPDATE), `ForgotRead`/`ForgotIssue`/`Notify`, `ResetRead`/`ResetPassword`; `Reply` and `LoseReply`; `SetActive` is the other module's commit seen from here; `Tick` moves the clock |
| `UserAdmin` | `update_user`, `assert_not_last_admin`, `patch_user`, `create_user` | `Select`/`LockNext` are SELECT ... ORDER BY id FOR UPDATE; `Check` the guard; `Update`/`Commit` the UPDATE; `DetectDeadlock` is Postgres's |
| `CustomerBook` | what the CRM promises | abstract: four atomic operations |
| `Crm` | `crm/repo.rs` and its handlers | `Create`/`Allocate`/`CommitCreate`; `AddContact`/`LockActiveCustomer`/`CommitAdd`; `Edit`/`LockRow`/`CommitEdit`; `Archive`/`LockRow`/`Scan`/`ArchiveRow`/`CommitArchive` |
| `AssetLife` | what the file service promises of a row | abstract: `Record`, `Confirm`, `Discard`; implemented by `Assets`, and used by `Settings` for the assets that change meanwhile |
| `Assets` | `assets/`, `http/routes/assets.rs`, `storage/` | one action per round-trip: `Create`/`InsertPending`/`Reply`, `Complete`/`Head`/`MarkReady`, `Delete`/`Remove`/`SoftDelete`; the client's `Upload` and the URL's `Expire`; `RemoveTimesOut`/`StrayArrives` for a call to the store that outlives its timeout |
| `Access` | `auth/claims.rs`, `auth/context.rs`, `authz/`, `http/require.rs` | `Login`/`Refresh` read the clock, `ReadRole` the user, `Issue` signs; `Call` is the guard `Require<C>` (`Accepts` and `Permits`), after which the request is in a handler: `CreateUser`, `PatchUser` (one step each, see `UserAdmin`) or `Handle` for the others; `Tick` moves all clocks, which differ by up to `MaxSkew` between replicas |
| `TenantPool` | `db.rs`, the RLS policies | one action per use of the pool: `BeginTenantTx` (checkout and `set_config`), `Execute`, `Commit`, `Abandon` and `Drop` (what leaves a transaction open), `Recycle` (the rollback before the connection is lent again), `Acquire`/`Bare` for a statement outside a transaction. `Visible(x)` is the tenant whose rows the policies let a statement see |
| `Settings` | `http/routes/settings.rs` | composes the pool and `AssetLife`: `LoadRow` or `UpsertRow` and `CommitRow`, then `ResolveLogo`/`FetchLogo`/`CommitLogo` in a second transaction and `GiveUpLogo` when that fails; `OtherStep` and `TenantResolved` are login and the database probe, which here only use the pool |
| `Fields` | `domain/`, `crm/model.rs`, `assets/model.rs`, `auth/opaque.rs` | no state: `Parse(rule, text)` is what a constructor does, a rule per newtype, a record of rules per table |
| `Listing` | `list` of customers, contacts, users and assets, and the writes they race | `Insert`/`CommitInsert`/`Rollback`, `Patch` (COALESCE), `Archive`; the reader is `StartPaging` and `NextPage` or `ListContacts` |
| `MC*` | instances for TLC | symmetry sets, the bodies of PATCH requests |
| `*Proofs` | theorems | section 6 |

A request is a slot `x` with a control point `pc[x]` and its inputs `req[x]`
(`patch[x]` in `UserAdmin`). Two details of the code that the models keep and
that are easy to miss: `now` is read before a connection is acquired, so a
request may judge expiry by a clock that is behind (`LoginRead`, `RefreshFetch`,
`ResetRead` pick `n` up to the clock); and the row-level order in which an UPDATE
visits several rows is unspecified, so `UpdateRow` and `ArchiveRow` visit them in
any order, while the guard's SELECT ... ORDER BY id visits them in id order.

In `Crm`, a customer's code is its number: `CustomerCode::from_seq` formats the
number injectively (`CS001`, ..., `CS1000`). An absent field of a PATCH is
`None`, and so is a NULL column; a PATCH cannot set a column to NULL, as in the
code. `is_primary` is one of the columns, and nothing in the code relates the
`is_primary` of different contacts.

In `Assets`, the history variables `uploads`, `removed`, `reuploaded` and `wanted`
are not in the code; they say what happened so that a property can refer to it.
A ready asset can have other bytes than those verified in two ways, which
`ReadyIsVerified` names: the client uses its URL again while it is valid (the
declared size is not part of the signature), or a deletion removed the bytes and
failed before it marked the row. `model.rs` calls the removal best-effort.

In `TenantPool` and `Settings` a request is in one use of the pool at a time
(`pc[x]`): it waits, holds a connection bare or with its tenant set, has executed
its statements, or is between two uses. A connection whose transaction was
dropped stays `open`, its setting and its row locks in place, until `Recycle`.
`FetchLogo` and `LoadRow` have no WHERE for the tenant in the code either: what
they see is decided by the setting of the connection they happen to have.

In `Fields` a text is what constructors tell apart: its core, its size without
the blanks around it, the blanks, whether it is in normal spelling (an email in
ASCII capitals, which is all that `to_ascii_lowercase` folds, a UUID in capitals) and whether it has the form the field asks for. A
rule says what a constructor does with each of them. A row is read by the same
constructor that wrote it (`try_from`, `row_to_view`), and one row it refuses
fails the whole list: `ListNeverFails` is that this does not happen, for rows
created, patched in part, with blank optional fields, at the longest and the
shortest size. A customer's code comes from `from_seq` and is checked by `parse`.

In `Listing` a row's `created_at` is the start of the transaction that inserts it
and it appears at the commit, so a row may come into the middle of a list that is
being read. `owed` is the history of what the reader must still be shown; a row
that leaves the list while it is read shifts the pages, and then nothing is owed:
LIMIT and OFFSET promise nothing in that case. Nor is it counted how often a row
is shown.

## 4. Runs

Every property of a passing run has a mutant, a plausible bug
put in the place of a definition, that TLC must catch. The mutated operators
stand next to the definitions, under a comment that starts with "Fault".

| Run | Instance | What it asks |
| --- | --- | --- |
| `AuthRotation` | 1 user, 3 tokens, 1 reset token, 2 requests, clock 0..1, lifetimes 1 | rotations, replays, logouts, resets, deactivations and expiry in every interleaving: one live token per family, a family is one chain without a gap in its validity, a dead session stays dead, only stored tokens are delivered, `SessionChains` is implemented |
| `AuthLive` | 1 user, 2 tokens, 1 reset token, 2 requests | every request ends, with no help from a timeout |
| `AdminAnyPatch` | 2 users, 3 requests, any patch | who passed the guard leaves another admin; removals of active admins do not deadlock |
| `AdminRemovals` | 2 users, 3 requests, one removal of each user | a tenant keeps an admin; every PATCH ends |
| `Crm` | 2 customers, 1 contact, 2 columns, 3 requests | all of `Crm`'s properties and `CustomerBook` |
| `Assets` | 1 asset, 2 sizes, 3 requests | `AssetLife` is implemented (so a deleted asset stays deleted), a deleted one leaves no bytes; a ready one has the declared bytes; a failed deletion can be repeated |
| `Access` | 2 users, 2 roles, 2 permissions, 2 replicas, 2 tokens, 2 requests, clock 0..2, lifetime 1, skew 1 | who is in a handler has, or lost less than a lifetime ago, a role that permits it; every replica accepts a token until it expires |
| `Settings` | 2 tenants, 2 connections, 2 requests, 1 asset, 2 bodies | every statement runs under its own tenant on a connection of its own; answers hold the tenant's own row and URLs are for its own ready asset; every request ends |
| `Listing` | each table in turn, 3 rows, limits 0, 1, 3, largest page 2, largest offset 3, clock 0..1 | stored rows decode; an address has one account; a reader that comes to the end has missed nobody, and it comes to the end |
| `AuthRevocationRace`, `AuthDoubleReset`, `AdminPromotionRace` | | the findings of section 5 |

Why the bounds are enough. The races of `AuthSessions` are between a rotation and
one other statement over the same family: two requests and two tokens show each
of them; a third token gives a chain of two rotations. Times are compared within
one lifetime, and requests judge by a clock that may be behind, so lifetimes of
one tick and a clock up to one put a request before and at an expiry (up to two
in `Access`, after it as well). The
guard of `UserAdmin` needs a removal, a second removal and a promotion in
between: three requests over two users. The cascade of `Crm` meets one contact
held by another request and a third one that waits for either. The proofs of
section 6 do without these bounds. The bounds in the modules are the sets of
rows that may be created (`Tokens`, `ResetTokens`, `Users`, `Customers`,
`Contacts`, `Assets`), the slots (`Requests`) and `MaxTime`; a creation begins only if a
row is left for it (`TokensLeft`, `RowsLeft`), so no bound stops a request that
has begun. In `Access` a role can be lost and regained, and a token expires,
within two ticks; two replicas show both signs of a clock difference, two tokens
a demoted and a demoting administrator. Assets do not interact, so one asset and three requests about it show
every race; `uploads` counts up to two, which stands for more. In `Settings` two
connections for two requests let a connection pass from tenant to tenant with a
transaction dropped in between, and a handler that would take its second
connection before it gave the first back would already find none; one asset is the
first tenant's own and the second one's foreigner. In `Listing` three rows with a
page of one or two, ids in either order at one `created_at`, and an offset that
reaches its bound are all the cases the clamps and the order have; the sizes of
texts are the real bounds of the newtypes, at both ends. Two runs turn the deadlock check off: `Assets`, where nothing is left to ask once
the asset is deleted and the URL has expired, and `Access`, which ends when the
clock is at its bound and every token has expired.

Fairness. Five runs check liveness. Three of them (`AuthLive`, `AdminRemovals`,
`Settings`) do under strong fairness of each request's own steps. The code justifies it: a request is a task that tokio polls, its
statements return, and Postgres serves the waiters of a row lock in a queue, so
a waiter gets a lock that is freed again and again; so does the pool with its
connections, and it recycles a dropped one (weak fairness). `Listing` assumes only
that a client that reads a list asks for its next page. No fairness is given to
arrivals, to faults, to timeouts or to the clock. `UserAdmin` also has weak
fairness of the deadlock detector, which Postgres runs whenever a wait lasts
longer than `deadlock_timeout`. `Crm` has no liveness run: an UPDATE of a
customer waits for every FOR SHARE lock, and a stream of contact creations can
keep the row share-locked without pause, so only the timeout bounds that wait. `DeletionSucceeds` of `Assets` is about a client
that repeats its DELETE: it assumes that such a client asks again while the row
is there, that requests keep running, and that neither of the two round-trips of
a deletion fails every time it is tried; aborts may still strike any number of
times. That is the promise "idempotent" makes, and no more.

## 5. Findings

Each is a counterexample TLC finds in the model of the code as it is.

- **A revocation misses a rotation under way** (`AuthRevocationRace`,
  `RevocationEndsSessions`). Logout's UPDATE takes its snapshot; a rotation of the
  same token commits while the UPDATE waits for the token's row; the row is now
  revoked and is skipped, and the successor, which the snapshot did not hold, is
  not touched. Logout answers 204 and the session is alive. Replay handling and
  reset use the same kind of statement. What does hold is `CleanRevocation`: a
  revocation that changed a row, or skipped none, has ended that session.
  A reset has a second gap of the kind, which `RevocationEndsSessions` does not
  speak of, since the session is in no snapshot: a login that verified the old
  password (`load_user` is a plain SELECT, which the reset's `UPDATE users` does
  not hold up) stores its token after the snapshot and before the reset's commit.
  `ResetEndsEverySession` is the claim of `reset.rs` in full. As a property of
  `AuthDoubleReset.cfg` it fails after nine steps: a forgotten password and its
  mail, `ResetRead`, `ResetPassword`, `Scan`, then `LoginRead` and `LoginIssue`, then
  `RevokeCommit`. A login that verified the old password and stores its token after
  the reset's commit is a consequence of the same SELECT that no document denies:
  the session did not exist when the password changed.
- **A reset token can be used twice** (`AuthDoubleReset`, `ResetTokenSingleUse`).
  `consumed_at` is checked before the password is hashed and not again.
- **The last admin can be demoted** (`AdminPromotionRace`, `SomeActiveAdmin`).
  Users 1 (admin) and 2. A demotion of 2 takes its snapshot, {1}, and waits for
  row 1 behind a demotion of 1. A promotion of 2 has committed in between, so the
  demotion of 1 saw two admins and commits. The demotion of 2 finds row 1 no
  longer an admin, its locked result is empty, its target is not in it, and the
  guard lets it pass.

Consequences of the design that are no findings, because no document denies
them. Demotions can deadlock in Postgres: a request that waited for a row keeps it
locked even when it no longer matches, and then updates its own target out of id
order; the detector aborts one of the two. What does hold is
`AdminRemovalsDoNotDeadlock`: requests whose target was an active admin in their
snapshot never wait in a cycle. A refresh that is repeated because its answer was lost presents a rotated
token, is taken for a replay and ends the session (`LoseReply` followed by a
replay in `AuthSessions`): the usual price of reuse detection. A demoted
administrator can use the token it still has to make itself administrator again
(`Access`): `ActsWithinAuthority` bounds when, not what. Two administrators who
PUT settings they read before each other's change overwrite one another whole.

Smaller things met on the way, which no run is about. `search_needle` cuts the
search text by characters where `limits.rs` speaks of bytes, and `%` and `_` in it
act as wildcards. A NUL byte in a name passes `bounded` and is refused by Postgres,
as a 500. `domain/limits.rs` and `settings.rs:63` speak of CHECK constraints that
the migrations leave out on purpose. `crm/limits.rs` calls the largest offset
1,000 pages; at the largest page size it is 100. `login` verifies the password
while it holds its connection; `create_user` hashes before it takes one.

## 6. Theorems

Proved by TLAPS for any number of users, tokens, rows and requests, from the
`ASSUME`s of the modules alone, unless a theorem names a hypothesis of its own.

`AuthSessionsProofs`
- `TypeCorrect`: `TypeOK`. It needs to know which inputs are present at which
  control point (`NamesInv`: a request in "rotate" names a token, and so on).
- `ImplementsTheChains`: the flows implement `SessionChains`. The inductive
  invariant is `IInv == TypeInv /\ RowLocks`. `RowLocks` says what holding a row
  means: `RowsInv` (a row not inserted yet is nobody's and revoked by no one),
  `HeldInv` (what a transaction has put in `updated` is still live, what it
  minted is still unused) and `ApartInv` (no two transactions have changed the
  same row, or minted the same token). With it, `RotateCommit` is the abstract
  `Rotate`, `RevokeCommit` is `End`, `LoginIssue` is `Open`, and everything else
  stutters. Without `HeldInv` a commit could retire a token twice.
- `OneLive` (`OneLivePerFamily`) and `EndedForGood` (`EndedStaysEnded`) follow
  from the same step simulation.

`AuthChainProofs`, on top of `IInv`. `OneRequestMoves` says that a step changes one
request and `RowsStay` that of a stored row only `revoked_at` and `replaced_by`
ever change; most of what another request knew is kept by these two.
- `OneChain` (`FamilyIsOneChain`), with `NoStrayLinks`: what is no row yet is
  nobody's successor and has none. Without it a rotation could mint a token that
  some row already names.
- `NoGap` (`NoGapInValidity`), with `ValidInv`: the token of a rotation under way
  was valid when the request read the clock, however long ago that was.
- `OnlyStoredDelivered` (`DeliveredIsStored`), with `MailInv`: the reset token a
  request is about to mail is committed.
- `Revoked` (`CleanRevocation`), with `CleanInv`. While a revocation of a family
  has skipped no row, and no row it has still to reach was retired by somebody
  else, every live row of the family is among those it has or will have. A rotation that
  commits in between retires a row the revocation does not hold (`ApartInv`), hence
  one it has still to reach, which ends the assumption; that is exactly the race
  of `AuthRevocationRace`. `OneLivePerFamily` turns a retired row into an ended
  session.
- `NobodyDeadlocks`: no set of requests waits in a cycle, counting every row an
  UPDATE has still to reach, so that the order in which it visits them does not
  matter. `FlowInv` says what a request has taken: a family revocation only rows of
  its family, a reset only rows of its user, whose row in `users` it locked first
  (`UsersApart`). A family has one live row (`OneLivePerFamily`), so a family
  revocation that waits holds nothing; a cycle would consist of resets, and two of
  them that meet at a token would have locked the same user.
- `RequestsAdvance`: `StepsLeft`, a number read off `pc` and `pending`, never grows
  and falls with every step of a request's own. Nothing in the flows retries.
  (Finitely many tokens; every UPDATE changes finitely many rows.)
- What breaks the documented claims, and that nothing else does.
  `OnlyTwinsConsumeTwice`: `ResetTokenSingleUse` holds of every behaviour in which no
  reset commits while another one of its token has found it unconsumed and waits for
  the user's row (`NoTwinReset`). `OnlyRotationsOvertake`:
  `RevocationEndsSessions` holds of every behaviour in which no rotation in a
  session that a revocation is about to end commits between its snapshot and its
  commit (`NoneOvertakes`). For logout and replay handling that is the whole claim of
  the documents; for a reset it is the claim about the sessions in its snapshot.
  `OnlyOvertakersOutliveReset` is about all sessions of a user: `ResetEndsEverySession`
  holds of every behaviour in which neither a rotation nor a login of the user
  commits between the snapshot of a reset and its commit (`NoneSlipsIn`). The
  hypotheses speak of single steps and exclude no other interleaving. The invariants
  say what a request knows: `ResetInv` that the token of a reset under way is
  unconsumed, `ReachInv` that a revocation has or will have every live row of the
  sessions it met, `AllMetInv` that a reset has or will have every live row of its
  user.

`UserAdminProofs`
- `TypeCorrect`: `TypeOK`.
- `CheckedRemoval` (`CheckedRemovalIsSafe`): with any patches in flight. The
  invariant says that locks are exclusive, that whoever was counted in `admins`
  is locked and still an active admin, that a request past the guard counted
  somebody besides its target, and that it holds its target before it commits.
- `OnlyLatePromotions` (`SomeActiveAdmin`), with any patches in flight: a tenant
  keeps an admin in every behaviour in which nobody is promoted or reactivated
  while a removal of the same user is past the snapshot that would have had to
  contain it (`NoLatePromotion`). `AdminPromotionRace` is such a promotion, so
  only a promotion of this kind loses the last admin. The invariant
  (`KeptInv`) says that the target of a removal past its snapshot, if it is an
  active admin, is among those it has counted or has still to lock.
- `LastAdmin` (`SomeActiveAdmin`), its corollary where no PATCH promotes at all
  (`NoPromotions`), as in the run `AdminRemovals`.
- `RemovalsDoNotDeadlock` (`AdminRemovalsDoNotDeadlock`), for ids that have a
  greatest one, as 128-bit uuids do. The invariant says that what a request has
  locked lies before what it has still to lock. In a cycle everyone would wait for
  a row after all it holds, and whoever holds the greatest row of the cycle waits
  for nobody. That a bounded set of naturals has a greatest element
  (`Greatest`) comes from the library's theorem on least elements of well-founded
  relations, which needs no induction over an operator.
- `RequestsAdvance`: a PATCH has at most as many steps left as users to lock and
  three more. (Finitely many users.)

`CrmProofs`
- `TypeCorrect`: `TypeOK`, with `FitsInv` (which inputs a request has at which
  control point; a row it names exists).
- `BookImplemented` (`ImplementsBook`). The inductive invariant is
  `IInv == TypeInv /\ LocksInv`, and `LocksInv` has three parts. `HeldInv` says
  what a request knows of rows it has locked: a number it allocated is still the
  next one, a row it share-locked or updated is still active, the new version of
  an edit is still the merge with the row as it is (`HeldBy`); and an archiving
  has locked, or has still to visit, every active contact of its customer
  (`Cascade`). `ApartInv` says that locks which exclude each other have one
  holder, `OwnersInv` that a contact has a customer from the moment it exists.
  `CommitLocks` is the heart: a commit changes only rows it holds, so it takes
  nothing away from what the others know. Then each commit is one step of the
  book and every other step is none. Without `Cascade` an archiving could miss a
  contact added after its scan; the share lock is what keeps it inductive.
- `Codes` and `Orphans` (`CodesGapFree`, `NoOrphan`) follow by induction over the
  steps of the book; `Frozen` and `Patches` (`ArchivedIsFrozen`,
  `PatchesCompose`) from what a commit does to the data (`Merges`).
- `Deadlock` (`NoDeadlock`): whoever blocks another request while it waits itself
  is in a cascade, and two cascades that meet at a contact would both have locked
  its customer.
- `RequestsAdvance`: every request has boundedly many steps left. With `Deadlock`
  this leaves one way for a request not to end, a lock that others keep taking in
  front of it; section 4 says which.

`AssetsProofs`
- `TypeCorrect`, `Recorded`, `NoBytesLeft`, `Verified` and `ImplementsTheLife`
  (`TypeOK`, `BytesAreRecorded`, `DeletedLeavesNoBytes`, `ReadyIsVerified`,
  `ImplementsLife`). The inductive invariant adds that only its creation knows an
  asset without a row (`CreationInv`), that such an asset has no bytes, no URL and
  no removal on its way (`UnrecordedInv`), that what is deleted or about to be was
  removed from the store (`RemovalInv`), and that what the HEAD of a completion
  saw is still there, up to the two exceptions of `ReadyIsVerified`
  (`VerifiedInv`). The theorems are about `Spec`; they need no fairness.

`AccessProofs`
- `TypeCorrect`, `WithinAuthority` (`ActsWithinAuthority`) and `LiveAccepted`
  (`AcceptedWhileLive`), for any lifetime, tolerance and difference of clocks with
  `MaxSkew <= MaxIatSkew`. The invariant has four parts: nothing carries a time
  later than the clock plus `MaxSkew` (`NoFuture`); what a token, or a request that
  is about to issue one, carries was the user's role at the `now` in it or later
  (`VouchedInv`); what a guard believed permits the call and was held recently
  (`GuardInv`); users are never deleted (`PresentInv`). The proof does not use the
  guard of `PatchUser`, so it does not matter here that the guard can be passed.

`SettingsProofs`
- `PoolIsolation`: whatever handlers use the pool as `TenantPool` allows, statements
  run under their request's tenant on a connection of their own. The invariant:
  a request holds a connection exactly when it is in a use of the pool (`HoldInv`),
  no two hold one (`AloneInv`), a connection with a transaction carries the tenant
  of its holder (`OpenInv`), and one without carries none (`CleanInv`).
- `ImplementsThePool`: every step of `Settings` is a step of the pool or leaves it
  alone, so the above holds of it: `Isolation` (`TenantIsolation`).
- `TypeCorrect`, `Own` (`OwnSettings`) and `OwnUrl` (`UrlIsOwnReadyAsset`). The row a
  request is about to commit is the body it was sent (`BodyInv`); a lock on a
  tenant's row is held by a connection set to that tenant (`LockInv`), so a commit
  writes no other row; which transaction a handler is in says what it has read
  (`StageInv`), and a URL names the asset of the same answer (`NamedInv`).
- `NobodyDeadlocks`, for any number of connections and requests, with connections
  and row locks in one wait-for relation: who waits for a connection has none
  (`HoldInv`), and who holds the lock of a row has nothing before it but its COMMIT
  (`DoneInv`). It rests on the order in the handlers: the first transaction ends
  before `resolve_logo` takes a connection.
- `LocksAreShort`: the same invariant, read as a bound on what a row lock can wait for;
  a lock left by a dropped transaction goes with its connection's `Recycle`.

`ListingProofs`
- `TypeCorrect`, `NeverFails` (`ListNeverFails`): a text that a rule admitted, in
  its normal form, is admitted again and is its own normal form, whatever the
  rule; COALESCE mixes only texts that each are.
- `OneAccount` (`OneAccountPerAddress`): two spellings of an address have one
  normal form, because the rule of `Email` folds and trims.
- `MissNobody` (`PagesMissNobody`), for any rows, limits and offsets. The invariant
  (`PagesInv`) counts: before a row that is still owed there are, in the order of
  the list, at least `offset` rows. An insertion can only add to them, and a page
  that does not show the row takes only rows before it. An empty page leaves no
  row after `offset`, so nothing is owed. Its hypothesis, `[]FewContacts`, is about
  the one list without pages: no code bounds the contacts of a customer and their
  list ends at `MAX_CONTACTS_PER_CUSTOMER`. `PagedListsMissNobody` is the same for the
  other tables, without a hypothesis.
- `PagesAdvance`: below the largest offset a page takes the client on while rows are
  left, and else ends the reading. A list longer than that offset is where it stops
  to hold, and `PagingEnds` with it; the run's list is shorter.

Only model-checked: liveness (`RequestsFinish`, `DeletionSucceeds`, `PagingEnds`), which
is out of the prover's reach, and the violations. Of `RequestsFinish` and `PagingEnds` the
theorems above have the safety half: nobody waits in a cycle, each step of a request
leaves fewer, each page moves on. What TLC adds is the fairness: that a waiter
gets its turn. Every safety property of the passing runs is a theorem as well.

The theorems of the form "only this race" (`OnlyLatePromotions`,
`OnlyTwinsConsumeTwice`, `OnlyRotationsOvertake`, `OnlyOvertakersOutliveReset`) have an
action as a hypothesis. It is satisfiable, as the passing runs have behaviours of the
kind, and needed, as the three violation runs show, and for the last the trace of
section 5.

## 7. Plan

In the order in which the parts matter.

1. Done: `SessionChains`, `AuthSessions`, `UserAdmin`, `CustomerBook`, `Crm`,
   `Assets`, `AssetLife`, `Access`, `TenantPool`, `Settings`, `Fields`, `Listing`,
   a theorem for every safety property of their runs, the absence of deadlocks for
   any number of requests, and for each documented claim that fails the races that
   make it fail.
2. Worth adding when the code grows: the orders and the job queue that SPEC.md
   describes; `AuthSessions` with the pool in place of one request per slot.

## 8. Not modelled

Password hashing and JWT signing (cryptography; a hash is taken to be the password
it was made from, a signature to be sound). Routing, configuration, start-up,
telemetry, health probes and the Helm chart: no state of their own, beyond the use
of the pool by the database probe, which `OtherStep` of `Settings` has. The text search of
the lists (`search_needle` and ILIKE): a filter over the rows of a page, where
`Listing` has all rows. Redis and the job queue, which SPEC.md describes and the
code does not use yet beyond a health check. The frontend.

Some hazards have no property, because the code promises nothing: a deactivated
user goes on refreshing; a creation whose answer was lost is repeated and makes a
second customer; a PUT of the settings overwrites another one; a demoted
administrator restores itself with the token it still has; contacts beyond
`MAX_CONTACTS_PER_CUSTOMER` are in no list; an archiving between two pages hides a
row, and a creation shows one twice; a list longer than the largest offset has no
last page; an upload URL that is used again replaces verified bytes, or puts bytes
that nothing deletes. One has none although a document does promise: a login with
the old password during a reset (section 5). `PROJECT.json` has them, each with its
line and its note.
