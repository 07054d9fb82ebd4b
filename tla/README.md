# Specifications of private-workspace

TLA+ models of the Go server and of the React client in this repository, the
configurations that model-check them with TLC, and theorems about them checked
by TLAPS. The code is the reference: every definition names, in `PROJECT.json`
under `map`, the lines it stands for.

## The system

One Go process (`cmd/server`) serves a JSON API and the built React client. All
state is in one SQLite file, opened by `internal/db` with a single connection
(`SetMaxOpenConns(1)`). So **one SQL statement is atomic, and so is the body of a
`db.Tx`, and nothing larger is**: a handler that reads with one statement,
decides in Go and writes with another can be overtaken between the two by any
other handler. `net/http` runs one goroutine per request.

In the browser a handler of a component runs to its next `await` and no further,
with the state of the render it was started in; calls are not cancelled, few
buttons wait for them, and the answers come in any order. **What a handler does
after `await` it does with values that may be old.**

That is where most of what can go wrong in this code lives.

| Component | State | Operations | Interacts with |
|---|---|---|---|
| Wallet ledger `internal/wallet` (repository, splits, reconciliation, reports) | months, income items, allocations, transactions, split links, balance updates, adjustments | create/update/delete of each; split; reconcile; close and reopen a month | templates and categories (foreign keys), dashboard (reads) |
| Wallet templates `internal/wallet` (templates, allocation_defaults, month_preview, review) | allocation and income templates, categories, default categories | create, update, delete, order; preview of a month; carry-forward | ledger |
| Authentication `internal/auth`, gate in `internal/server` | `sessions` rows, the cookie | login, logout, look up and touch, delete expired | rate limiting; every API route |
| Rate limiting `internal/security` | failed logins and public requests per key, in windows (in memory) | `Allow`, `RecordFailure`, `Reset`; `RequestLimiter.Allow` | authentication, public shares |
| Tasks `internal/tasks`, `internal/uploads` | tasks, attachment metadata; objects in R2 | create, update, delete, presign, attach, detach | projects (foreign key), object store |
| Projects, organisations `internal/projects`, `internal/orgs` | projects, orgs, archive flags | create, update, archive, restore, delete | tasks |
| Prompt vault `internal/prompts` | templates and context packs | create, update | - |
| Shared notes `internal/share`, `internal/gitnote` | `gitnote_shares` rows; notes in a GitHub repository | create, update, revoke, list shares; public reads | GitHub API |
| Backups `internal/backup` | a copy of the database in R2 | one run: `VACUUM INTO`, upload, clean up | systemd timer, object store |
| Database handle `internal/db` | `schema_migrations`, the pool | open, migrate, `Tx`, readiness | everything |
| Dashboard `internal/dashboard` | calendar events | create, update, delete; read-only aggregates | tasks, projects |
| Client: session `web/src/App.jsx`, `lib/api.js`, `Login.jsx`, `Sidebar.jsx` | whether someone is signed in, the CSRF token, the route, the counts in the sidebar | read the session, sign in and out, a 401, an interval | authentication |
| Client: boards `Board.jsx`, `ListView.jsx`, `TaskModal.jsx`, `ProjectModal.jsx` | the rows shown, the editor, the order, the files of a task | edit, complete, move, drag, archive, upload | tasks, projects, uploads |
| Client: calendar `Dashboard.jsx`, `DashboardView.jsx` | the month in the address, its events, two forms | change month; add, edit, delete events | dashboard |
| Client: prompts `PromptVault.jsx` | the list, the selection, the draft | select, edit, save, archive | prompt vault |
| Client: notes `GitNoteViewer.jsx`, `GitNoteLayout.jsx` | the path, its content, the share button | choose, render, share | shared notes |
| Client: wallet `Wallet.jsx` | month, section, what was read of each, one handler that saves; drafts of settings | every write of the ledger and of the templates, and the loads after it | wallet |
| Others: holidays, AI helper, web, httputil, config | none that persists | proxies, parsing, static files | - |

### What is hard, per component

* **Wallet ledger.** Every handler is read - check - write over several
  statements. The balance is kept incrementally (`wallet_balance_cents` moves by
  a delta computed from an earlier read) beside the rows it should agree with. A
  split is recorded twice. Deletes cascade. A closed month is guarded by a check
  made before the write. Correct means: rows stay connected, the records of a
  split agree, closed books do not change, the balance moves by what is posted.
* **Authentication and rate limiting.** A session may expire, be logged out or
  be cleaned up while another request looks it up and touches it; deletes may
  fail and are ignored; `Allow` and `RecordFailure` are separate critical
  sections around a slow password check. Correct means: a session that is over
  stays over, nobody who comes later gets in with it, failures overrun the limit
  by no more than the logins in flight, and blocks end.
* **Tasks, projects, organisations.** Updates read a row and write every column
  back; attachments span the object store and the table; archiving a project
  looks at its tasks, changing a task does not look at the project.
* **Shared notes.** An update writes the whole row back; a public read uses a
  share it checked before slow calls for files, and a note vouches for the files
  it embeds, by a read made before theirs.
* **Client.** Answers of what was left come late; several calls about one row
  are on their way at once; a failed call puts back a list that has changed
  since; a load overtakes a save. Correct means: once nothing is on its way the
  page shows what the server holds, unless calls about that very row crossed or
  failed; no button or spinner waits for ever; nothing typed is lost silently;
  and the browser is where the session lets it be.

`PROJECT.json` lists the components with their status, and each hazard at its
line with the properties that are about it.

## Modules

| Module | What it is |
|---|---|
| `WalletLedger` | the ledger's tables and handlers, concurrent; its mapping to `WalletBooks` |
| `WalletBooks` | what the wallet promises of a month, without tables or handlers |
| `MCWallet` | instances for TLC |
| `WalletLedger_proofs` | theorems about `WalletLedger` |
| `Auth`, `MCAuth`, `Auth_proofs` | sessions, the login limiter and the gate, request by request |
| `Sums` | lemmas about finite sets of numbers, sums over them, and lists of them in order |
| `RequestLimiter` | the limiter of public share requests, with a history of what it admitted |
| `PublicShares`, `MCPublicShares`, `PublicShares_proofs` | shares and public reads; extends the limiter they go through |
| `Workspace`, `MCWorkspace`, `Workspace_proofs` | organisations, projects, tasks and attachments, with the object store |
| `Shell` | the session, the gate and the routes in the browser |
| `DashboardEvents` | the calendar |
| `TaskBoard` | rows and editor of tasks, with the counts of the sidebar |
| `ProjectBoard` | projects: order, archive, creation, deletion |
| `TaskFiles` | the files of the open task |
| `PromptVault` | the prompt studio |
| `NoteViewer` | the reader of notes and its share button |
| `WalletSettings` | templates and categories in the wallet page: drafts, saves, order |
| `WalletPage`, `MCWalletPage`, `WalletPage_proofs` | the other views of the wallet page: what is read, when it is stale |
| `Client`, `MCClient`, `Client_proofs`, `ClientScreens_proofs` | one visit to one of the pages above but `WalletPage`, each an instance |

### WalletLedger

State: one function per table (`months`, `incomes`, `allocs`, `txns` from ids to
rows; `split` from the child's id to its parent's for `wallet_transaction_splits`;
`updates` for `wallet_balance_updates`) and one job per handler. Rows keep the
columns that control or sums depend on: ids, foreign keys, amounts, status,
kind, source. Names, notes, dates, sort orders, the `rounded` and `active` flags
are left out; of an allocation's name the model keeps only whether it is the one
reconciliations look for.

A request of an operation `Op` is

1. `ReceiveOp`: the handler's first read. Early returns that depend on that read
   and on the request are its guards; what later steps use of the read
   (`was`, `opening`, `relevant`) is kept in the job, as the Go locals keep it.
2. the checks in `todo`, in the code's order, each a statement of its own:
   `EnsureMonthOpen`, `EnsureAllocationBelongsToMonth`,
   `TransactionHasSplitChildren`.
3. `Op`: the write, one atomic statement or `db.Tx`, with the foreign keys and
   cascades of the schema.

`Refuse` ends a job with nothing written: a failed check, a row that is gone, a
foreign key, a cancelled context. It is always allowed, because a request may be
cancelled at any point. `CreateMonth` is one action: all it writes is in one
transaction and the `UNIQUE` key decides races; which rows are prepared for the
new month (templates, carry-forward, or what the user reviewed) is left open.

Ids are fresh (`shared.NewID` is random): a fresh id is in no table and no job.
Amounts are integers without width. The code does not bound a request's amounts,
and SQLite integers would overflow at 2^63; that is out of the model.

Bounds: `MaxRequests` requests in a behaviour; finite sets of ids, amounts,
budgets and balances; `MaxSplitRows`.

### Auth

State: `attempts` (the limiter's map, keyed by address, by email and by both),
`sessions` (token to what is left of its life), `issued` (tokens ever drawn) and
what each handler is doing. A request goes through the middleware as the code
chains it: `SessionByToken` or `AttachNoSession`; then `TouchSession`, or
`DeleteExpiredSession`; then `Route`, which stands for `protectRoutes`, the CSRF
check and the decoding of a login's body; then the handler. `Allow`,
`VerifyAdminPassword`, `RecordFailure` or `Reset`, `DeleteExpired` and
`CreateSession` are a login, each a critical section or a statement of its own,
with other handlers in between. Every statement whose error the code ignores may
fail; a failed query of the lookup leaves the request anonymous; a login may end
in any of its error answers. `Restart` may happen at any point: it forgets the
limiter and the requests, keeps the sessions, and runs the cleanup of `main`,
which may fail.

There is no clock. A session and a window hold what is left of them, and `Tick`
takes one from each; 0 is the instant from which the code's comparisons
(`!now.Before(end)`, `expires_at <= now`) say it is over. States stay finite
without a bound on time. That the clock does not run backwards is assumed.

Tokens are fresh (32 random bytes). The admin is one constant email. Which
password is right, and whether a CSRF token is, are left open: a login as the
admin may succeed or fail.

### PublicShares and RequestLimiter

`RequestLimiter.Allow` is one action, since it holds its mutex throughout: drop
what is over, look at every key, then count every key or none. `recent` is
history, read by the properties only.

`PublicShares` extends it with `gitnote_shares`, the notes and what they embed,
and handlers. A public request counts at the limiter, looks its share up once
(`Found`: neither revoked nor over), and then reads: the tree, a file, a file
that a note embeds, or a bundle file by file. Each read of the repository is a
step of its own, notes are edited between them, and the share is not looked at
again. Creating and revoking are one statement; an update reads the row and
writes every column back. A restart empties the limiter and ends the requests.
A token is as good as the id of its share, so there are no tokens in the model;
which notes exist and what is under a prefix is constant.

### Workspace

State: a function per table (`orgs`, `projects`, `tasks`, `attachments`), the
keys in the object store, how far the client is with each upload, and one job
per handler. Rows keep the columns a rule is about; the others are one value,
`text`, so that a stale write of them is still a write. Of `archived_at` and
`completed_at` the model keeps whether they are set.

Creating, deleting and presigning are one statement or none, and updating a
project is one `db.Tx`: one action each, with the schema's foreign keys and
cascades. Updating an organisation or a task is two actions: `ReceiveUpdate...`
reads the row and checks the patch against it (an invalid patch is answered
then, so it is no step), `Update...` writes every column, or is refused by a row
that is gone, a foreign key or the unique slug. `DeleteAttachment` of the code
is `ReceiveDeleteAttachment`, `DeleteObject`, `DeleteAttachmentMetadata`.
`Refuse` ends a request before its next write, for any reason, a crash included.

The object store and the client that uploads to it are not in the server:
`PutObject` and the order presign - put - attach are read from
`web/src/components/TaskModal.jsx`. `NoForgottenObjects` rests on that order:
the API itself lets any key be attached any number of times. The store is
assumed configured.

### The client

Each page module has the server as far as the page can tell it apart (a table of
rows, the files, the live session), the React state, and the calls on their way.
A call is sent, then served or refused by the server, then answered, each a step
of its own; it keeps what the handler's closure keeps (the list of the render it
was started in, the selection, whether the modal was still mounted). A call may
also get no answer, before or after the server did it. The user acts whenever
the code lets them: only what the code disables waits.

Texts are a bit or a small set: changed or not, valid or not. Data that decides
nothing is left out.

`doubt` (and `stale`, `late`, `typed`) are history, written by the actions and
read by the properties only. They record which row had calls that crossed or
failed, so that `ScreensSettle` can say that **everything else** on screen agrees
with the server. The definition of what goes into `doubt` is per row, and per
page the smallest with which TLC finds no counterexample; it is what the page
cannot know.

* `Shell` follows the redirects of the router within a step, as React does before
  it paints, and mounts a page anew when the redirects go through another route.
* `TaskBoard` and `ProjectBoard` have the many handlers of the boards; a visit
  (`BoardVisits`, `ProjectVisits`) says which parts the user uses together.
* `PromptVault` stands for prompts and, as the code is the same twice, for packs.
* `DashboardEvents` keeps the month last answered while an error hides it
  (`data.failed`), as Dashboard.jsx does: the next link builds the view from it
  again. The events that are out of date at that moment (`Stale`) are in doubt.
* `TaskFiles` removes a file in the two writes of the server, the object (`Erase`)
  and then the row (`Serve`); the second may fail, so `FilesAreStored` is about the
  files that nobody asked to remove (`asked`, a history). Nothing disables the
  button of a file whose removal is on its way: `no` tells such calls apart.
* `TaskBoard` keeps the question for a completion time apart from its save
  (`stamping`), whose field takes Enter while the buttons are disabled.
* `NoteViewer` treats the script that parses documents as a call that is made once;
  once it is there it may still reject a file. The browser's Back may leave no
  path chosen.
* `WalletSettings` has the handlers that save as in the code: one at a time, one
  PATCH after the other for drafts, all at once for an order. A handler that fails
  leaves its other calls on their way (`stray`). A dragged row loses its draft and
  one moved by an arrow key does not; a plain row loses its mark when it is saved,
  whether or not the reload is answered.
* `WalletPage` abstracts a month to *fresh or not*: every write makes the copies
  it touches stale (`Touched`), every read makes its copy fresh unless something
  crossed it. It keeps all of the control: which section reads what, what each
  handler reloads when its call is answered, with the closures of its render. The
  modals of a reconciliation and of a split are opened in a section and stay on
  screen over every other (`modals`). A reconciliation submitted over review
  reads nothing of review again, and `Begin` records that doubt.
* `Client` is one visit: one page is mounted at a time and loses its state when
  it is left, so the pages share the variables `p1` to `p10`.

## Runs

| Run | Instance | States | Shows |
|---|---|---|---|
| `wallet_serial` | 1 handler, 3 requests | 43,347 | the tables implement `WalletBooks` (`BooksKept`); closed books are frozen; the recorded closing balance is the balance; one reconciliation allocation per month |
| `wallet_concurrent` | 2 handlers, 3 requests | 229,091 | `SplitRecordsAgree`, `SplitsAreFlat`; the variance moves only on a stale read |
| `wallet_two_months` | 2 handlers, 2 requests, two months | 11,717 | `BooksAreConnected`, `ChecksStillHold` |
| `auth` | 2 handlers, requests without bound; two tokens, limit 2, window 2, life 1 | 482,760 | `FailuresBounded`, `BlocksEnd`, `StaleRequestsAreAnonymous`, `EndedSessionsStayEnded` |
| `public_shares` | 2 handlers; two shares, limit 2, window 2; 3 writes and 1 tick, or 5 ticks | 671,079 | `NothingForTheLate`, `ServedIsShared`, `ReopenedOnRequestOrStaleRead`, `BurstsAreBounded`, `FullKeysWereUsed` |
| `workspace_rows` | 2 handlers, requests bounded; two organisations, three names with two slugs, two projects, one task, two attachments | 533,274 | `Connected`, `DoneIsCompleted`, `SlugsAreOfNames`, `ArchivedWhenDone`, `DeletedStayDeleted`, `ReopenedOnRequestOrStaleRead`, `NoForgottenObjects` |
| `wallet_page` | two months; nine visits of 2 to 4 acts | 519,417 | `ShownIsCurrent`, `SpinnerHasALoad`, `PageSettles` |
| `client_pages` | each page: 2 or 3 ids, 2 to 5 acts, 1 failure | 771,377 | `AuthSettles`, `ScreensSettle`, `BusyHasACall`, `DraftsAreKept`, `RecordsAgree`, `PagesRest` |
| `wallet_late_write` | 2 handlers, 3 requests | | counterexample to `ClosedBooksAreFrozen` under concurrency |
| `task_modal` | one task, 2 acts | | counterexample to `ChoicesAreAccepted` |
| `session_loop` | no fault needed | | counterexample to `SignedOutSeesLogin` |
| `share_reader` | no fault needed | | counterexample to `ReadersStay` |

Each passing run also checks the type invariant of its module (but `wallet_concurrent`
and `wallet_two_months`, which share it with `wallet_serial`).

**Wallet.** The runs start from a small set of books (one or two open months, two
allocations, one income item and one transaction of the same amount) rather than
from empty tables; the same requests lead there from empty tables, and the start
satisfies the inductive invariant of the proofs. They do not check deadlock: when
`MaxRequests` requests are served the model stops. Three requests are the length
of the interesting stories: something to make a reconciliation or a split,
something that reads it, something that changes it in between. Two handlers are
enough for a read to go stale, and no handler looks at another. With amounts 1
and 2 a transaction of 2 splits into two rows of 1, and an edit changes an amount
up or down. Symmetry permutes handlers and the ids not used by the start; it is
used only with safety properties.

`BooksKept` is refinement: `posted` is the model's `Expected(m)` less the opening
balance, as `expectedBalance` and the summary compute it, so `Post` says that a
handler which runs alone changes `wallet_balance_cents` by exactly what it
changes in the sums - including edits of split transactions, deletion of a
parent with its rows, and income made by a reconciliation. Only `UpdateMonth`
(sets the balances) and `DeleteAllocation` (keeps the effect of what it deletes)
are allowed to open a gap. With concurrency this is false;
`VarianceMovesOnlyOnStaleReads` says how false: the gap moves only in a write
whose handler relied on a value that had changed since it read it.

`OneReconciliationAllocation` is checked for one handler and requests that do not
use the reserved name. With two handlers an update of the allocation that writes
back the name it read, after a rename and a reconciliation, makes a second one;
nothing in the code or its tests says there is only one.

**Auth.** A limit and a window of 2 are the least for which a block comes after a
failure that was let pass and a window can be half over. Two tokens let a login
follow a logout or an expiry. There is one email and one address, so the
keys of a login are counted together and reset together; the theorems cover any
number of both. Fairness is on `Tick` alone: time goes on whatever clients do,
and nothing is assumed of them, so `BlocksEnd` says that a block ends though they keep trying.

**Shares.** Two shares, one of a folder (`draft`, `photo`) and one of a note
outside it (`memo`), so that a share can vouch for what another may not. Three
writes are an update overtaken by a revocation and an edit of the notes. With five ticks the limiter passes two
windows and a restart; `BurstsAreBounded` is tight: with a bound of one less TLC
finds the two windows back to back.

**Workspace.** The run starts from one organisation with its projects and one task
in progress, and does not check deadlock: it ends with the requests. Its requests
make two overlapping updates and two changes of what they rely on (done, archive;
move, delete the project), and attach two files and delete them, or one twice.

**Client.** Acts and faults are bounded; calls are not, except the ones that are
on their way at once (2 or 3: enough for a call to be overtaken by one about the
same row and one about another). Ids are two or three: the row a call is about,
another, and one that is created. The board is visited part by part (`MCBoardVisits`,
`MCProjectVisits`): handlers that touch different state of the page are not
explored together. The sidebar and the interval of the shell never stop, so those
visits are short. The runs do not check deadlock: with no acts left and all calls
answered a visit rests.

### Fairness

* `Auth`: `WF(Tick)`. The clock goes on.
* `WalletPage`: the handler that saves goes on (`SaveMoves`), and reads it waits
  for, or that hide the page, are answered or fail. `fetch` settles; nothing is
  assumed of the user, nor of other reads.
* `Client`: `WF(Works)`: among the calls on their way, and the timers and scripts
  of the notes, one moves on as long as there is any; `WF(SidebarWorks)`: the
  interval of the sidebar fires and its reads are answered. Nothing is assumed of
  the user. `PagesRest` holds under it: dragging comes back, the share button
  comes back, and the count of open tasks ends as the server's.

### Findings

* `ClosedBooksAreFrozen` (`wallet_late_write`): the look at the month's status is
  outside the transaction that writes, so a request that races `CloseMonth`
  changes the books of a closed month.
* `ChoicesAreAccepted` (`task_modal`): the task editor PATCHes the whole task, and
  choosing Done for an open one sends a status and a `completed_at` that the
  server refuses together. The rows of the board send the status alone, which works.
* `SignedOutSeesLogin` (`session_loop`): after a session ended, a 401 puts the path
  at `/login` while the gate still believes in the session and sends the browser
  back to the dashboard, which reads, and so on.
* `ReadersStay` (`share_reader`): a visitor of a shared note is taken to the login
  page by the interval of the sidebar, which reads the counts on every route.

### Known, and not findings

Things the models show of which no text of the repository says otherwise.
Each can be had from TLC by adding the name to a cfg.

* `SplitRowsSumToParent` (`WalletLedger`): `splits.go` refuses rows that do not sum
  to the transaction, and nothing keeps it so: delete one of the allocations.
* `SplitOnce` (`WalletLedger`): the look for existing rows is outside the
  transaction that writes them. `SplitRecordsAgree` and `SplitsAreFlat` hold all
  the same.
* `FailuresWithinLimit` (`Auth`): two logins pass the limiter with one attempt
  left, and both fail. `FailuresBounded` says how far this can go.
* An update of a task writes back columns it read, so an edit of the text that
  read the task in progress reopens it after it was done and its project
  archived; an update of a share can lift a revocation that ran since its read.
  The two `ReopenedOnRequestOrStaleRead` say that this is the only way.
* In the notes, an answer for the path left before is taken for the one on
  screen, and a pdf chosen while a text is on its way keeps its spinner until
  that arrives; `ViewerSettles` excludes paths chosen across a fetch.
* An archive of a prompt that is answered after another one was selected puts its
  draft on screen (`late` in `PromptVault`).
* In the wallet page, a reconciliation submitted over review (opened in the month,
  then the browser's Back) leaves the allocation beside the list as it was before:
  the handler reloads the month and the reports only. `ShownIsCurrent` leaves out
  the views of review after that step, until they are read again.
* In the dashboard, an event saved in one month is missing when the read of the
  next one fails and the user goes back: the view is built from the old answer,
  and the new one, of the same month, does not replace it. `ScreensSettle` leaves
  out the events that were out of date when the old answer came back.
* A removal of an attachment whose second write fails leaves a row without an
  object. The row is listed and can be removed again.
* In the settings, a load that was on its way when a template was edited drops
  the edit if it was started outside the settings; and a plain row reordered
  while another is edited loses the mark of the edit.

## Proofs

All theorems are for every value of the constants that satisfies the named
assumptions of the module: any number of handlers, ids, requests or acts.

### The wallet

`WalletLedger_proofs` (`AmountsAssumption`, `NoneAssumption`, `FiniteIdsAssumption`)
has two groups of theorems. `FiniteIdsAssumption` says that there are finitely
many ids, which `shared.NewID` justifies (strings of a fixed length); without it
a table could be infinite and a sum over it mean nothing.

For any number of handlers: `Connected`, `SplitsRecorded`, `SplitsStayFlat`,
`ChecksHold`, `TypeCorrect`, `VarianceMoves`. `BooksAreConnected` is not
inductive: whether `UpdateTransaction` may move a transaction to an allocation
depends on a check its handler made some steps before. `IInv` therefore adds
`ChecksStillHold`: for every job, an allocation it will book on is either still
to be checked or, if it still exists, of the job's month; a transaction it names
is still of that month; one it will split is still whole. It is stable under
other handlers' steps because those columns never change and ids are never
reused: what was checked may only disappear, and then the foreign key refuses.
The proof is one lemma per kind of step: `ReceiveKeeps`, `MakeCheckKeeps`,
`RefuseKeeps`, and for writes `WriteKeeps`, which reduces a write to two facts
(`TxnsKept`, `AllocsKept`) and the books themselves.

`VarianceMoves` is arithmetic over the rows of a month, on top of `LInv`: the
invariants above and `RowsRight` (of the row a handler will write, the columns
nobody updates are as it read them). A write touches one month (`OneMonth`): the
rows of any other are the same, so its sums are. In the month it touches,
what its balance is moved by and what its sums change by are computed side by
side, one lemma for each operation. A transaction that is split counts through
its rows, so deletes and edits of one need `SplitRows` (which rows there are)
and that splits are flat. Where the two differ, the value the handler computed
from is not the one in the table, which is what `Stale` says.

One at a time (`OneAtATime`: any two handlers are the same):
`FrozenOneAtATime`, `BalanceOneAtATime`, `ReconciliationOneAtATime`,
`BooksKeptOneAtATime`. With handlers that interleave, the first is refuted by
`wallet_late_write` and the others fail in the same way, so the hypothesis is
part of what is true. `SInv` adds `Current`: what the handler has read and checked
is what the tables hold, as long as it is at work. Then no read is stale,
and `BooksKeptOneAtATime`, the refinement of `WalletBooks`, takes each write to
the action of the books it is: `Post` for a posting, whose sums `VarianceMoves`
has shown to move with the balance, or the close, reopening, creation, setting
or deletion of a month. `ReconciliationOneAtATime` also supposes that requests
do not use the reserved name.

`Sums` proves what these need of `SumFunctionOnSet`: the sum over a set and one
more element, over two sets apart, of zeros, of values at least 0. Its value is
given by a recursive function over finite sets; the induction is by a
smallest set: a nonempty family of subsets of a finite set has a member with
no member below it. In the same way it proves that a finite set with a strict
and total order can be listed in that order (`SetListed`), which the drags of the
client need.

### Authentication, workspace, shares


`Auth_proofs` (`HandlersAssumption`, `LimitsAssumption`, `NoneAssumption`):
`TypeCorrect`, `Bounded`, `StaleAnonymous`, `SessionsEnd`. The bound on failures
is not inductive by itself, since a login that was let in may fail much later.
`FailuresAndChecks` adds them up: what a key has counted and the logins in
flight that would count on it are together at most `Limit - 1` and the number of
handlers. A failure moves one from the second to the first; `Allow` lets a login
in only below the limit, where even every handler in flight stays within the
sum; a new window starts at 1 with one login fewer in flight. That a stale
request is anonymous needs that its token was drawn (so `CreateSession` cannot
draw it again) and that its session is over for good (`StaleAreOver`).

`Workspace_proofs` (`SlugsAssumption`, `NoneAssumption`) proves everything the
run of `Workspace` checks. The writes use rows as they were read, so the
invariant speaks of what requests hold. `ReadsAgree`: the row was right when it
was read, and the patch was checked against that row, so writing both back is
right even if the row has changed (this is why a stale write that reopens a task
still leaves `DoneIsCompleted` true). `UploadsAreOver`: keys of attachments, and
those a deletion holds, are of uploads that nothing puts again; a deletion that
is past the object holds a key that is not in the store. There is one lemma for
each table and two for the requests.

`PublicShares_proofs`: `TypeCorrect`, `LateGetNothing`, `OnlySharedServed`,
`ReopenedAsRead`, `BurstsBounded`, `FullKeysEarnedIt`. The invariant adds three facts about what handlers hold. An
update holds the row it read, with the changes it was asked for (`UpdatesAgree`);
a request whose share has been of no use ever since it came is still before its
look-up, which will refuse it (`DeadAreShut`); and every file a request has
found has a reason: the share covers it, or a note the share covers embedded it
when that note was read (`FoundAreAllowed`).

The last two are the limiter's, proved in the first part of `PublicShares_proofs`
(`LimiterBounds`) and carried through the steps of the requests that go through it. The history of a key is
how many of its requests were admitted so many ticks ago, and `Accounted` relates
it to the entry: a live window of count `n` has admitted `n` requests since it
opened, at most `n - 1` of them after its first tick, and with what the window
before it let pass at most `n + Limit - 1`; with no live window it is at most
`Limit - 1`. A window that reaches its limit stops there, and when it ends the
requests of its first tick leave the history.

### The client


`Client_proofs` (`ProjectIdsAssumption`, `SettingsRowsAssumption`,
`ValidAssumption`, `TextsAssumption`): `GateSettled`, `BusyIsAnswered`,
`DraftsStay`, `RecordsStayTrue`. `IInv` has one invariant for the page that is
mounted, and `NextKeeps` one lemma for each page:

* the gate (`GateInv`): unless something was lost there is one read of the
  session at most (`OneRead`), whatever reads it will find the live one, and with
  none on its way the page knows it (`Known`);
* the projects (`ProjectsInv`): an archive that nobody crossed is the only call
  about its project (`Alone`), so that the page's knowledge of open tasks, on
  which it decided, is still the server's when the call is served;
* the files (`FilesInv`): an upload that registers has put its file, and a removal
  takes the object of a file that somebody asked to remove (`Uploads`);
* the settings (`SettingsInv`): what was typed at rest is a draft; every load
  started since keeps drafts, and every save on its way, sent or still to be
  sent, says of that row what was typed (`TypedIsSafe`). It needs that there is
  one handler with one call at a time (`OneSave`).

`ClientScreens_proofs` (those of `Client_proofs`, and `RoutesAssumption`,
`BoundsAssumption`, `TaskIdsAssumption`, `PromptIdsAssumption` and
`VisitsAssumption`): `ScreensSettled` and `ClientTypeCorrect`. A page at rest
agrees with the server because of what it knows on the way there; `PagesKnown`
says that for each page, with the types of its state, and `PagesKnownMove` has
one lemma for each:

* a row that is not in doubt has at most one call about it. As long as the call
  is to be served, page and server agree about the row as it was before the call;
  once it is served, the server has what the page will have when the call is
  answered. That is `EventsKnown`, `FilesKnown`, `VaultKnown`, `TaskKnown` and
  `ProjectsKnown`, which differ in what a page keeps of a row: the editor's copy
  of a task, the place of a project in an order that is being saved, the rows of
  the archive;
* `NoteKnown`: the note on screen is of the path on screen, or its fetch is on
  its way, or a path was left while it was fetched;
* `SettingsKnown` speaks of the one save at work. A row without draft shows what
  the server holds, but for the change that save has made or is about to make of
  it (`PatchesKnown`, `ChangeKnown`); the drafts still to be saved are those it
  was started with (`DraftsKnown`), and an order is sent row by row
  (`OrderKnown`). A load answered while another save is at work is a doubt, so
  that the rows a load brings are the server's when nothing is in doubt;
* the types (`GateTyped`, `SidebarTyped`, `ProjectsTyped`, `SettingsFit` and those
  above) are more than `TypeOK`: what a page keeps comes from the answers to
  its calls, so they say what each call, each read on its way and what a save
  has still to send hold. Two of them are not by assignment. Calls of the gate and
  reads of the sidebar have slots of their own, and the action that sends one
  must find a free one: `SlotFreed` and `SlotFirst` show that where the model
  does not ask for it (an answer that sends the next call, a reload) there is
  one. And the place a drag gives to a row is chosen from an order: for the
  projects the order of the list exists whatever their `order_index`, equal ones
  included, and every section has a place in it and after the move (`AllSorted`,
  `AllMoved`); for the settings the rows that were not dragged are all there, and
  none is lost when the one dragged is put in between (`ListedOnce`,
  `InsertedAll`).

The assumptions say of the bounds that the gate and the sidebar may have a call
on its way, of the ids and rows that they are finitely many, and of the sets of
visits that their members are records of the right fields.

Two definitions were corrected on the way: a restored project's open tasks are
read of that project alone (`Found`, Board.jsx:232), and `ArchiveIsApart` is of a
page that shows a list, not its error.

`WalletPage_proofs` (`MonthsAssumption`, which has finitely many months):
`PageTypeCorrect`, `SpinnerIsEarned`, `PageIsCurrent`. `ShownIsCurrent` speaks
only of a page at rest, so `PageInv` says what is true of each view of the page
(`ViewOk`) on the way there: a view on screen is current, or a read of it is on
its way, or the handler at work will reload it, or it is in doubt; and a newest
read that is stale will be followed by another, since the handler reloads that
view. Of the reads on their way it needs `Orderly` (each view has one newest, and
one read is awaited) and of the handler `Covered`: whatever its write touches
and the section shows is among what it reloads, or the month has been changed
under it, and then it is in doubt. `Begins` proves that of each of the page's
writes. Six lemmas (`Doubted`, `Unscreened`, `Reloading`, `Asked`, `Answered`,
`Kept`) are the ways for a view to stay in order; each action takes each view
through one of them. TLC checked `PageInv` on the run's instance first, and
found that a handler started in the review before there is a summary reloads
nothing of it, and one submitted from a modal over review reads nothing of it
again: `Begin` records those doubts.

TLC checked these invariants on the instances before they were proved.

### Model-checked only

Liveness (`BlocksEnd`, `PageSettles`, `PagesRest`) is out of the prover's reach.
Every invariant and action property of a passing run has a theorem.

## Not modelled, and why

* **Backups**: one command that runs alone and keeps no state that a next run
  reads. There is no second actor and nothing to recover.
* **Database handle**: each migration is one transaction with the row that
  records it, applied before anything is served. That statements and `Tx` bodies
  are atomic, on one connection, is what every other module takes from it.
* **Holidays, AI helper, static files, configuration**: proxies and parsing
  without state of their own.
* **Carry-forward, reviews and reports** of the wallet: queries and sums over
  rows, without a step of their own. `CreateMonth` leaves open what they find.
* **In the client**: filters, sorting, formatting and the arithmetic of forms,
  except where they decide whether a call is made; the composer of the prompt
  studio and the tree of the notes, which keep nothing; organisations in the
  sidebar.

## Plan

1. Done: ledger, authentication and rate limits, workspace, public shares, the
   client, and the proofs above.
2. The wallet page against the ledger: `Touched` checked against what
   `WalletLedger` says each operation changes.
3. Carry-forward as an operator over the tables, checked against a reference
   definition over small books.

Recursive operators are kept out of every module above, so that each can be
proved about.
