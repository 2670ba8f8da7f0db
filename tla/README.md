# TLA+ models of EERP

EERP is a modular ERP: a Go backend (`src/core`) that serves record modules through a
generic ORM and its own handlers, and a Next.js front end (`src/core-front`) that renders
the modules' views. This directory holds TLA+ models of its stateful parts, the TLC runs
that check them on small instances, and TLAPS proofs of their main properties for every
instance. `src/` is the reference: every definition translates code, and the `map` of
`PROJECT.json` gives its lines.

    tlc -workers 2 -config Sale.cfg MCSaleDocuments.tla     # one run
    tlapm SaleDocumentsProofs.tla                           # one module of proofs

## 1. The system

| Component | State | Operations | Hard part | Correct means |
|---|---|---|---|---|
| Module runtime (`internal/module`, `internal/common/filemeta.go`) | `module.json` files; in memory the gate `active`, `tableOwner`, live WASM instances, the ORM's schema registry | boot by dependency tiers, SetActive, Patch, Reload, restart | concurrent flips, a write failing after the gate was flipped, partial loads, restart between any two steps | gate and file agree; the App Store stays on; no table is closed for good; a boot serves every module |
| Attachments, pictures (`internal/attachments`, `internal/pictures`) | rows in PostgreSQL, objects in S3 | upload, replace, find, get, delete | two stores and no transaction; interleaved and half-done requests | a row never points at missing bytes; one row per anchor; leaks only after trouble |
| Cron (`internal/cron`, `modules/cron`) | cron rows, history rows, log files, the tick's copy of the rows | tick, run, clear date, sweep, PUT, delete, restore | rows copied at the start of a tick are written back after a run; crash between run and write | a date fires once; every due cron runs; history is kept long enough and has its log |
| Sale documents (`modules/sale`, form store of the front end) | quote row with stored totals, lines, invoices, drafts in browser tabs | line requests, recompute, expiry sweep, Save, workflow buttons, accept | four kinds of writer each write the whole row from an older copy; accept is several requests | totals follow the lines; terminal statuses stay; an accepted quote has its invoice, once |
| Sessions (`internal/auth`, `api/ApiClient.ts`, `proxy.ts`) | hashed single-use refresh tokens, access tokens, cookies of each browser and of each request | login, refresh, logout, retry after 401 | several refreshes of one single-use token at once; a shared refresh with cookies that are not shared | one live session per user; what has ended stays ended; every request is answered |
| Property management (`modules/propertymanagement`) | receipts, one child per tenant, their lines and PDFs, the month last generated | Generate, regenerate a PDF, Save | the browser drives the sequence, one call after the other; pages left open over a month | a month's receipts once, with the totals of their lines |
| List pages and the undo toast (`renderers.tsx`, `search-bar.tsx`, `undo-toast.tsx`, `use-optimistic-field-move.ts`) | conditions, text, saved filters, rows, a board's copy of them, pending deletions and their timers | type, filter, save and delete a filter, recover, move a card, select | debounce timers and late answers; a rollback over newer moves; banners displaced by others | the list shows what was asked last; a recovered filter is kept; a deletion is settled once |
| Form pages (`stores.ts`, `relation-widgets.tsx`, `file-widgets.tsx`, `renderers.tsx`) | draft, stored row, links, lines, totals, files and their flags, the log | edit, link, add a line, upload, sign, Save, Reset, workflow buttons | some widgets write at once, others with the form; answers reseed the draft | staged tags reach the server; widgets show the rows; a flag tells its file; the log accounts for the record |
| View registry, layouts, behaviors (`registry.ts`, `extensions.ts`, `descriptor.ts`, `behaviors.ts`, `header-menu-registry.ts`) | a map of routes, reports, menus; built once per process | register a module, extend a view, match a path | modules extend and replace one another's views in the order of their dependencies; patterns that fit one another's paths | views are whole; links land where they say; computed fields agree |
| Graph boards (`graph-*.tsx`, `graph-aggregate.ts`) | the stored layout, the draft, a dialog | open, move, add, configure, save | saved whole while it is edited | a saved board shows what is stored; a tile counts each record once |
| Reports (`report-descriptor.ts`, `print/report/...`) | none of their own | declare, validate, print | reads one after the other while others edit | what is printed agrees with itself |
| Record modules (contact, crm, crminheritdemo, cron, appstore, warehouse, ...) | their tables | declarations | one module extends another's table and views | see the registry and the runtime |
| Generic CRUD, typed repository, queries | none of its own | list, get, create, put, soft delete | - | its write shapes are the premises of the models |
| Pool, transactions, metadata cache | connections, `sync.Map` | - | - | each call is atomic in the models |
| Middleware (JWT, permissions, active gate) | none | - | - | the gate is `IsTableActive` |
| Settings, company, users and roles, server side of chatter, notebook, saved filters | single rows | single-row requests | - | no protocol to model |

How they interact. Record modules register tables with the runtime at boot; a request
passes JWT, permission and active gate before a handler or the generic CRUD. In the front
end every module registers its views when a manifest is evaluated; a page takes a route from
that registry and renders a list, a form, a board or a report. Pages call Server Actions,
which Next runs one at a time and in order for one page, and which call the API through
`ApiClient.ts` (where an expired session is refreshed); an action that rotated the cookies
makes Next render the page again under the user's hands. The cron scheduler and the quote
expiry run as goroutines in the same process and write the same rows as the requests.
Components share no lock across requests: nearly every write is *read the row, change the
copy, write all of it*, and most hazards in `PROJECT.json` are of that form.

## 2. Modules and their code

### ModuleLifecycle (`MCModuleLifecycle`, `ModuleLifecycleProofs`)

`disk` is the `active` flag of each `module.json`; `active`, `tableOwner`, `loadedWasm` are
the fields of `Registry`; `schema` is the ORM registry. `BootScan` is `detector` with
`CheckDependencies` and `SetPriorities`; the order in which Go iterates the map is a
nondeterministic `Orders`. WASM modules of a tier load concurrently (`BootWasmLoad` changes
the schema registry, `BootWasmRecord` takes the lock later), Go modules one by one. Each
load may fail: as a whole, or after `Register()` and before the migration. `SetGate`,
`PatchOk`, `PatchFailRollback` are the steps of `SetActive`: the lock is released between
the gate and the file. Reloads follow `Registry.Reload`. `Crash` may come at any point.
`raced` is auxiliary: modules of which two flips overlapped. That overlap really can leave
gate and file different, and is excluded in the property, not in the model.

Facts of the code the model has: a failed dependency check leaves the server up and knowing
no module; the creator of a table owns it, but a WASM load claims every table it touches; a
Go migration that fails leaves its new tables owned by nobody, hence served without a
gate; an entry placed late by `SetPriorities` keeps a stale entry of priority 0, so a WASM
module with dependencies is loaded twice, once early (`OwnLoadAfterDependencies` is about
its own load and says that nothing but that entry is early). Repository facts it does not need: no `.wasm`
module is checked in, and some Go modules have no `module.json` (their tables are not on
the generic surface).

### FileSlots and AnchoredFile (`MCAnchoredFile`, `AnchoredFileProofs`)

`FileSlots` is the abstract promise: an anchor holds a file or none, each step changes at
most one anchor, and a file belongs to one anchor. `AnchoredFile` is the handler: every
store and database call is its own step, may fail with or without effect (`UploadPutFails`,
`Abort`, `AbortAfterWrite`), and requests interleave. The unique index is the guard of
`InsertRow`; `ReplaceRow` is an UPDATE by id that finds no row after a delete. `Visible`
is the refinement mapping. `clean` is auxiliary: no failure and no overlap so far.

### CronScheduler (`MCCronScheduler`, `CronSchedulerProofs`)

One action per step of `runOne` and `SweepHistory`, and the two halves of the overridden PUT
(`PutFind`, `PutWrite`). `due`, `cur` and `put` hold the rows as they were read: writing
them back whole is what the hazards are about. A run may set a new date for its own cron.
`fired` counts runs since a date was last chosen (by a PUT or by the action itself),
`troubles` counts failures, crashes and rows deleted while they ran, `unlogged` the runs whose
log could not be written. A year is one instant of the clock.

### SaleDocuments (`MCSaleDocuments`, `SaleDocumentsProofs`)

One quote. A line request is `WriteLine`, `ReadLines`, `ReadRow`, `WriteRow`: the line, then
`recomputeTotals`, which lists the lines, reads the row and writes all of it. The sweep is
`SweepRead`, `SweepWrite`. A tab's form is seeded when it opens and after its own commits
(`stores.ts`), and `ResetForm` takes it back to `first`, the row at mount, however many
commits ago; `Save` and `Press` are `commit`, which PUTs every field, stored totals
included. Accept is `AcceptRaise` (list lines, create invoice), `AcceptCopy` per line,
`AcceptCommit`. Every call may fail, with or without effect. A stored total is abstracted to
the lines it was summed over, so two totals are equal exactly if they sum the same lines.
The due date is left out: before it the sweep does nothing. `clean` is auxiliary: no
failed call, no write from a copy that differs from the row, no overlap or abandonment of an
accept. The properties that need it say so; the ones that do not hold in spite of all that.

### Sessions (`MCSessions`, `SessionsProofs`)

The refresh tokens of one user, the browsers with their cookies, and requests that are
pages (through `proxy.ts`), Server Actions (through `ApiClient.ts`) or logins and logouts.
`RefreshStore.Save` and `Validate` are transactions, but two of them overlap: each revokes
what it sees. The refresh of `ApiClient` is shared by the requests of a server process while
it is in flight (`Refresh` starts or joins it, `flight` is the request that runs it), and each
request keeps its own copy of the cookies (`store`). The proxy refreshes without sharing. A token is abstracted to the
second it was issued in, as two of one second are the same text. A call of Go may fail at each
statement (`GoFails`: the handler ignores an error of `RevokeAll` and answers as if the sessions had
ended), not be reached (`GoUnreachable`), or be done with its answer lost, the database's or Go's own
(`AnswerLost`). Ghosts: `overlap` (two
Saves at once), `calm` (nothing that ends a session or exchanges its token twice), `over`.

### UndoToast, ListPage (`MCListPage`, `ListPageProofs`)

`UndoToast` is the banner alone: its entries, the timer of each, `show`, `recover`,
`dismiss`, expiry and the removal that an expiry asks for. `ListPage` is the page around
it: the text and its timer, conditions, groups and selection, saved filters (create,
rename, delete with a banner), display modes, a kanban board whose moves are shown before
the server agrees, and `queue`, the Server Actions of the page in order. `Refresh` is the
page rendered again after an action rotated the cookies: the props change, the state of the
components stays. An update may fail after it was applied. Ghosts (`asked`, `crossed`,
`disturbed`, `stale`) remember what was asked last and whether a failure, another's filter or a
move on its way excuses a difference.

### FormStore, RelationWidgets, FileWidgets, FormPage (`MCFormPage`, `FormPageProofs`)

`FormStore` is `stores.ts` (draft, commit, reset) over records abstracted to a reference, a
file flag and the links staged in the draft. `RelationWidgets` has tags written at once and tags
written with the record, the list of lines with its totals, and the dialog that creates a
record: it keeps the record it was opened for (`own`), which may have been left since. `FileWidgets` has the picture, file and signature widgets, whose requests are not
ordered with the Server Actions. `FormPage` composes them with Save, Reset, the workflow
buttons and the log of changes. A form of the model has one kind of widget beside the
reference (`fields`), as the hazards are of a widget and the form, not of two widgets.
Ghosts (`muddled`, `strayed`, `torn`, `mute`, `broken`, `meant`) say when a property is excused, by what
the code does in that case; section 4 lists what was met on the way.

### The views (`MCScreens`, `ScreensProofs`)

| Module | Code | What it has |
|---|---|---|
| `LayoutTree` | `descriptor.ts`, `extensions.ts` | layouts as sequences of nodes with their depth, in the order a walk visits them; what extensions cut and insert; the layout made up for a descriptor without one |
| `Objects` | lists and objects | filtering and sorting a list, spreading one object over another |
| `DepthFirst` | `behaviors.ts`, `module-discovery.mjs` | the order that puts dependencies first |
| `FieldBehaviors` | `behaviors.ts`, `descriptor.ts`, `stores.ts` | conditions, validation of widgets, defaults, handlers and computed fields of a draft |
| `HeaderMenus` | `header-menu-registry.ts`, `header-menu-bar.tsx` | merging of menus and what a caller is offered of them |
| `ReportDescriptor` | `report-descriptor.ts`, `report-renderer.tsx` | validation of a report and what prints of it |
| `ViewRegistry` | `registry.ts`, `extensions.ts`, `menu-actions.ts`, `header-button-actions.ts` | validation of a view, its menu actions and header buttons included; `register` module by module, twice (server and client manifest), with what a throw leaves; matching of paths, menus, lists |
| `RecordViews`, `SaleViews`, `PropertyViews` | `modules/*/views`, `modules/*/reports` | the fields, views, routes, extensions, functions, actions and reports that the eight modules with views declare, field by field |
| `EditScreen` | `layout-renderer.tsx`, `widgets.tsx`, `stores.ts` | the leaves of a form and what their widgets write, Save and Reset over real field values, the notebook and its stored pages |
| `GraphBoard` | `graph-*.tsx`, `graph-aggregate.ts`, `graph-actions.ts` | the board as a draft saved whole, the dialog of a tile, what the tiles show |
| `RentReceipts` | `propertymanagement` | Generate call by call (lines, tenants, parent, children, copied lines with totals, PDFs, the month), Save, a month that passes |
| `PrintReport` | `print/report/.../page.tsx` | the reads of the print page one after the other while others edit |
| `Screens` (`MCScreens`) | `[...module]/page.tsx`, `loader.tsx` | the composition: the modules of a build register, then one page of it is opened and used |

`FormPage` and `EditScreen` complement each other: the first has the traffic of the widgets
that talk to the server on their own, the second real fields with their behaviors and the
notebook. `MCScreens` builds the catalog of the repository as it is, and small builds with
modules like those of its tests: a replaced view, refused extensions, reports, menus and
actions. The names of functions, actions and buttons that are registered are constants: the files
of the modules register them when they are imported, before any view.

## 3. Runs

| Run | Shows | Bounds |
|---|---|---|
| `modules` | gate and file agree unless flips raced or one is in flight, through failed writes and restarts; the App Store stays on; a gated table can be opened again; while a dependency waits or loads a WASM module's own load is still to come | App Store and crm (Go), two WASM modules of which one depends on the other; three of them share a table; 2 requests |
| `anchored_file` | no dangling row, one row per anchor, leaks only after trouble, refinement of `FileSlots` | 3 requests, 2 anchors, 3 keys, 2 row ids |
| `cron` | one firing per date without trouble, logs for history, no revival of deleted crons, no early expiry, every due cron is run | 1 cron, 1 PUT at a time, 2 instants, 2 runs, 1 fault |
| `cron_reschedule` (violation) | a date the action set for itself is cleared | no users |
| `sale` | stored totals match the lines unless something stale was written; accepted quotes have a complete invoice, one unless an accept was retried or outdated; terminal statuses stay | 1 line, 2 line requests, 2 tabs, 2 invoices, 1 status picked by hand, 1 fault, and of these the histories of `Scope` |
| `sale_stale_totals` (violation) | a Save of a form opened before a line was added writes back the old totals, with nothing else running | 1 tab, 1 request, no faults |
| `session` | one live session unless two Saves overlap; a calm session survives its requests; an ended one stays ended; one refresh of the client is in flight at most; every request is answered | 2 requests of 2 browsers, access token good for its second, refresh token for two, three seconds, one failed call |
| `session_joiner` (violation) | the request that joined a refresh clears the session | 2 requests, no faults |
| `list_page` | a shown filter's name tells its conditions; a recovered filter is kept; the list is of what was asked last, the board of what the server has; a removal is settled once | 2 records, 2 conditions, 2 saved filters, 2 banners, 4 actions of the user, 1 fault |
| `form` | staged tags reach the server; the widgets show its rows; a flag tells whether there is a file; the log accounts for the record | 3 related records of which one is new, 2 records, 3 links, 2 lines, 4 actions, 1 fault |
| `views` | every view of a build is whole and every link lands; computed fields agree; the active tab exists; boards show what is stored and count once; receipts are made once; what is printed agrees with itself | builds of 8 modules and of 1 to 3; one page per behaviour; 4 edits or 5 clicks; 2 tenants, 2 months, 2 visits, 2 presses, 1 failed call; pages of 2 rows, 4 rows |
| `receipt_again` (violation) | the button that is said to be disabled after a run is enabled | 1 visit, 2 months, 2 presses, no faults |

Why the bounds are enough: each hazard is a race of two actors, or of one actor with a
failure, over one row; the instances have at least two of each racing actor and one fault.
Three uploads or deletes let a replacement race another and leave one in the middle. All of `sale`'s
bounds at once exceed the time of a run, so its `Scope` follows two tabs with one line request and no
status picked by hand, and one tab with two overlapping requests, a status picked by hand and no
failure; the proofs are without these bounds. Four actions of a user are what the longest
known history needs (delete a filter, search, recover, apply; stage a tag, Save, edit,
Reset). The builds of `views` hold every module with views that the repository has, with its
own declarations; pages that take many steps are opened in the smallest build that has them,
since a state carries all the routes. Limits of the code (slices of a pie, rows of a page) are
set so low that the run has both fewer and more than fit.

`Symmetry` is used in `Sale.cfg`, `SessionJoiner.cfg` and `Views.cfg`, which check safety
only and whose symmetric constants are interchangeable. Deadlock is checked for `modules` and
`cron_reschedule`; elsewhere the bounds or the finite ids let the system stop. Type invariants
that are proved are not checked again. `ListPage!TypeOK` documents the state; what its
proofs need of the types is part of their invariants.

Every property of a passing run has a mutant in `PROJECT.json`: a plausible bug in one mapped
definition (`Mutant:` in the comments) that makes TLC find the property violated.

### Fairness

`CronScheduler` and `Sessions` state liveness. `CronScheduler!FairSpec` assumes weak fairness
of the scheduler's steps: the goroutine in `Scheduler.Run` keeps ticking and each database
call returns, with or without an error. It assumes that an action's `Run` returns; the code
gives `Run` no timeout, so an action that hangs stops crons and sweep for good.
`Sessions!Fairness` is weak fairness of each request's next step: a call of the client
returns or fails, and the transactions of the store end. Both liveness properties
(`DueCronsRun`, `RequestsAreAnswered`) depend on a lock-like state being released: the one
goroutine that runs the crons, the one promise all requests of a process wait for. Users,
the clock, crashes and failures are not fair.

## 4. Disagreements with the documentation

Four are violation runs and findings in `PROJECT.json`.

1. `cron/models.go:25-27`: an action may set a new date in its `Run`: it is overwritten
   (`cron_reschedule`).
2. `sale/handler.go:380`: stored totals "never go stale": the form's own PUT makes them
   (`sale_stale_totals`).
3. `ApiClient.ts:31`: a *failed* refresh clears the cookies: so does the request that joined
   one that succeeded (`session_joiner`).
4. `property_management_views.ts:215`: the button stays disabled once run this month: only
   until the PUT that ends the run is answered (`receipt_again`).

Seen and not run. In the backend:

* `runtime.go:23` "Boot loads EVERY discovered module": an inactive dependency makes the
  whole boot fail. ADR-009: a Go reload is "harmless and idempotent": it replaces schema
  entries that others extended, and a column merged in by crminheritdemo is gone.
* `retention.go:20`: the sweep removes log files: it looks for a name no run used.
  `modules/cron/handler.go:66-68` says the retention is taken verbatim, lines 98-100 keep the old
  one for zero. A PUT takes the date of its body: a form opened before a run and saved after it
  brings the cleared date back.
* `expiry.go:15-17` promises that one bad row does not block the others, and returns at the
  first error. An accept lists at most 200 lines.
* Two refresh tokens issued in one second are the same text: replaying the first is not told
  from using the second. A reader of a file finds its row, then the bytes: a purge in
  between is a 500.
* `property_management_views.ts:150-152` "one tenant's failure never blocks the others":
  a failed create ends the run; a failed read of a contact leaves that tenant out without a
  word. A Save of a page opened before a run writes the old month back. The month is UTC in the
  browser and local in Go. Two lines of one receipt recompute its totals without a lock.

In the front end:

* `graph-aggregate.ts` (`niceTicks`): ticks "from 0 up to at least max" may stop below it (11
  gives 0, 5, 10). `graph-widgets.tsx:119-124`: no badge for partial data when the total is
  unknown. A ninth series takes a colour again where a pie folds; negative stacked bars
  have no height.
* `descriptor.ts:594` "a hidden field never blocks": the groups of the caller are not
  passed, so one hidden by its groups does. A computed field that depends on nothing is not
  computed on a new record. `loadDashboardWidgets` counts one page of records and ignores the
  list's filter.
* `undo-toast.tsx:47-49` says the removal of a dismissed banner "still fires on its original
  timer": a later banner clears that timer, so the removal never runs.
* `registry.ts:190-198`: a module whose registration threw half way counts as registered for
  the second manifest. `header-menu-registry.ts:113` merges a group in place before it is
  validated. Extensions of a module that is switched off still apply to other modules' views.
* The notebook: a page added while a deletion is unanswered leaves the active index past the
  last tab; so does Reset after a record was created.
* `use-optimistic-field-move.ts:19` "the record reverts to its prior value": the whole list does, so a
  refused move also takes back moves of other cards made since (`BoardShowsServer` excuses it by `stale`).
* The board: a layout that could not be read is an empty board, and Save stores that. A Save that
  throws leaves the board saving for good; what is edited during a Save is lost.
* The form: Reset after a creation restores the draft without an id, so the next Save
  creates a second record. A commit by a header button drops the staged links and is not
  logged until the next Save. After a Save with staged links the links are not read again.
  Reset after an upload leaves the flag false with a file stored; the first look-up of a file
  may overwrite what was uploaded since. A dialog opened again is closed by the answer of
  the creation before. `relation-widgets.tsx` (totals) "never a save round-trip behind": the
  rows are read once per record.
* The print page: rows that could not be read, or a token that expired (60 s), print an
  empty table; rows beyond a page are cut; an error reading a picture ends the page although
  other reads are dispensable. Two reports made in one second share the key of their object.

## 5. Proofs

Proved with TLAPS for all values of the constants under the named assumptions in each module
(finite bounds are not assumed where the proof does not need them).

* **ModuleLifecycleProofs**, from `ModulesAssumption`, `DepsAssumption`, `ContribAssumption`:
  `TypeCorrect`; `GateAgreesWithDisk`, `AppStoreCannotBeLost` and `FlipsCarryTheFileValue` from
  `Inductive`; `GatesCanBeOpened` from `KnownInv`; and, from `WasmAssumption`,
  `OwnLoadsFollowDependencies`, an induction over the passes of `SetPriorities`: while a WASM
  dependency of a WASM module waits or loads, that module's own load is still to come, and what of it loads
  early is the stray entry of priority 0. Reloads and Go modules are outside the claim. Its hypothesis
  `Acyclic` says no module depends on itself through others: on a cycle some module
  keeps only its entry of priority 0, and the claim is false. TLC evaluates it for the modules of
  the run. Agreement is not inductive alone: a
  rollback restores `previous`, so the invariant must say that the only flip of a module in
  progress wrote the gate and remembers the file's value (`FlipInv`), and that flips for the App Store
  carry TRUE both ways.
* **AnchoredFileProofs**, from `NoneNotKey`: `TypeCorrect`; `RowsHaveObjects`,
  `AnchorsHaveOneRow`, `KeysArePrivate` from `Inductive`; `ServiceImplementsSlots`, that the
  service implements `FileSlots`; and `LeaksNeedTroubleHolds`. The strengthening is
  `KeysPrivate`: an object waiting for its row is nobody else's, and one about to be purged
  belongs to no row. With it, what a reader of an anchor sees is its row, so a step changes one
  slot or none. `LeakInv` adds that in a clean run at most one request is at work, and that each
  object is a row's or that request's.
* **CronSchedulerProofs**, from `BoundsAssumption`: `TypeCorrect`, `RefireHolds`, `HistoryHasLogHolds`,
  `YoungHistoryKeptHolds`, `OnlyRestoreRevivesHolds`. `DueInv`: a tick holds one copy of each
  cron. `FiredInv`: a cron that is armed and not running has its next firing left to spend,
  which is what the counting property needs to be inductive. `LogInv`: once a run's log was attempted
  it is on disk or known to have failed; `SweepInv`: a sweep never has a later time than the clock.
* **SaleDocumentsProofs**, from `BoundsAssumption`, `PicksAssumption`, `NoneNotData`: `TypeCorrect`;
  `TotalsFollowLines` (inductive as it stands); `AcceptedIsInvoiced` from `AcceptedInv`, which
  extends the claim to every copy of the row that could be written back (drafts, the
  recomputation's status), with `CompleteKept`: a complete invoice stays complete;
  `QuoteIsInvoicedOnce` and `TerminalStatusesStay` from `OnceInv` and `SweepInv`. As a reset shows the
  row at mount again, both invariants speak of `first` too: an accept runs only in a form whose first row was
  not terminal, and a form mounted on a terminal row has kept it in a clean history.
* **SessionsProofs**: `SessionTypes`; `OneLiveSessionHolds`, `EndedStaysEndedHolds`,
  `SharedRefreshHolds` from `IInv`, under `SessionConstants`: an open Save has issued its token
  (`IssuedInv`); the client's refresh at work is the one `flight` names (`FlightInv`); while one
  Save is open and no second one, it has seen every live row (`LiveInv`); and when every session
  was ended no row is live and no exchange is open (`EndedInv`). `CalmSessionSurvivesHolds` adds
  `RouteInv` (an exchange of a login or logout page has answered no cookies yet) and `CalmInv`: in a
  calm history one request works at most; while none does the jar holds a good token, and
  while one does the token is where its step left it, in the jar or in the request's own cookies.
* **ListPageProofs**, from `ToastConstants` and `ListConstants`: `SettledOnceHolds` from `ToastInv` for
  the banner alone, `PageSettlesOnce` for the page that uses it; `NameTellsConditionsHolds`;
  `RecoveredIsKeptHolds` from `RemoveInv` (each removal on its way was asked by a banner that ran
  out) and `KnownInv` (each filter the page knows or could recover is stored, or was deleted
  by such a banner). `CalmTouchWinsHolds` and `BoardShowsServerHolds` from `RowInv`. Its part
  `TouchInv`: of the calls that set the rows the last one asks for what the last touch of
  the bar wants, or the rows are that already. Its part `BoardInv`: a card shows the value of the last
  move of it on its way, else the server's; the value a move would roll back to is the one
  that held before it in the queue; moves are ahead of the calls that replace the rows. A search
  by text needs a field to search in, hence `LiveFields` is not empty.
* **FormPageProofs**, from `FormConstants` (finitely many related records, room for a record and a
  link) and `LineConstants`: `Inductive`, in eight parts, each about what the calls on
  their way will still do. `TypeInv`; `SaveInv`: one Save is under way at most, and the form knows.
  `FlagInv` gives `FlagTellsFileHolds`: draft, commits on their way and record carry one flag, and
  requests of the widget are about the record on screen. `LogInv` gives `LogAccountsForRecordHolds`:
  one entry at most is on its way, ahead of the next Save, and begins where the log ends.
  `LineInv` and `TagInv` give `WidgetsShowRowsHolds`: the widget shows the rows, or a load on its way
  will be answered after every write made for another record (a load of links that has
  already read them must also be behind no creation). `KnownInv`, `TagInv` and `MeantInv` give
  `StagedTagsReachServerHolds`: the rows that remain once the queue is done are what was meant.
* **ScreensProofs**, about pages that `Screens` opens; the theorems are of its whole `Spec`.
  `ReceiptsOnceHolds` from `ReceiptConstants` and `CalmInv`: in a calm history the rows of a month later
  than the stored one are the run's (`MonthInv`), and a run has handed the first *k* tenants
  whole receipts and the others none, but for the one it is at (`RunInv`); when it stores the month *k* is all
  of them (`StoredInv`). `BoardShowsStoredHolds` from `BoardInv`.

  `ComputedAgreeHolds` says that every computed field has the value its function gives for the
  draft, on any catalog whose forms are well declared (`FormsDeclared`): fields have distinct
  names, a function reads only the fields it declares, one of them stored, and presets,
  address columns and handlers set no computed field. `Pending` is what an edit keeps while it
  works through the plan: each computed field is right or still due. The plan itself is shown
  to put dependencies first whatever the declarations are, by induction over the depth of the
  walk. Folds are taken as runs, `IsRun`: the values after 0, 1, ... elements; induction
  over data is then over naturals (`UpTo`), from `WFMin` and `NatLessThanWellFounded` with
  sets of naturals, no operator parameter needed. `CatalogAssumption` and `HandlersAssumption` are
  evaluated by TLC. `FormsDeclared` quantifies over all drafts ("reads only what it declares")
  and is not; it was checked over the drafts of each form route of `views`.

  `ActiveTabExistsHolds` needs `FormsDeclared`, by which a draft keeps its id until the record is
  left (`DraftInv`), and `NotebookHasTab`: the notebook has a tab that is not a stored page. TLC
  finds `NoteInv` and `NotebookHasTab` to hold when they are added to `Views.cfg`. The argument is about
  the queue: a list of the pages is alone with saves and finds no page shown, and a page being
  added has only saves ahead of it, so the index it will activate is still the next one when it
  is answered.

  `PrintedAgreesHolds` is about any catalog whose reports are well declared (`ReportsDeclared`, which TLC
  evaluates): no name is both a field, a picture and a table, a picture is declared once,
  a field has one fallback and the sum none. `SheetInv` relates the sheet to the record as it was
  read, by what is still to be read: a picture is the record's flag until its read, a blank is the
  company's once the company was read, a table that was read is the first page of the rows, unless
  there was an edit or a failure since. `ReadsOfIs` says that the reads come once each, and
  `RegisterReports` that only reports of the catalog get registered, whichever module throws.

  `TilesCountOnceHolds` is about any records, stored layouts and clicks, under `BoardDeclared`,
  which TLC evaluates: a stored tile is one the dialog builds, amounts are not negative (a stacked
  bar of a negative amount has no height, section 4), dates can be read, a list is no shorter than its
  page. `BoardTilesInv` says that every tile, stored, kept, drafted, sent or in the
  dialog, is one `build` makes, so the tile on the screen is complete. The rest is about data.
  The marks of a tile share out its records: slices by label (`DistinctIs`: each label
  once), lines by label, points by bucket, and the count of a finite set is the sum of the counts of
  its parts. Sorting loses nothing (`ByWeight` is a permutation), the folded slice counts what it
  folds, and each mark begins where the marks below it end, so none covers another.

Only model-checked: `WholeViews` and `LinksLand`, which hold of the declarations there are and
not of any (a link is a path that some other module happens to declare); the
liveness properties `DueCronsRun` and `RequestsAreAnswered`; the hypothesis `NotebookHasTab`; the violations.

## 6. Not modelled

Listed with reasons under `components` in `PROJECT.json`. Of the backend: connection pool and
caches, settings, company, users and roles, the endpoints of chatter, notebook and saved
filters (one row per request), NATS and the headless browser of the PDF service, code
generation. Of the front end: home page and settings screens, translations, themes, drawing
(columns, pixels, axis ticks), the dashboard and catalog as they are drawn, pagination and
bulk actions of lists, labels and search texts of references.

Within the modelled parts: the operation log and `Reconcile` of the runtime, the WASM guest
interface; GET of a file as two reads; POST of a cron, log download; soft-deleted history
rows (never swept: the sweep does not see them); money arithmetic, tax links, quote
deletion, and the workflow of an invoice once raised; signing keys and permissions of a
token; labels, widget options and permissions by name in the declarations of views.

Hazards that are real and have no property: the ones of section 4 that no run covers, each
a single step that does what it should not, with no longer history behind it; and an action of
a cron that hangs.

## 7. What is left

1. A sweep over several quotes, one of which always fails, and quotes whose lines change after
   they are accepted.
2. A run of two crons, and of `Reconcile` with its operation log.
3. `NotebookHasTab` from conditions on the declarations; `WholeViews` for every catalog whose
   extensions apply.
4. The dashboard and the hierarchy tree of a list.
