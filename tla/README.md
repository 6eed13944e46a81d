# WebLens: verification project

WebLens scans and clones web sites. A Java *Control Plane* (`src/backend`) owns
users, websites, scans, captures and site clones. A Go *crawler* (`src/crawler`)
crawls the pages of a scan and writes metrics to ClickHouse. A TypeScript *capture
worker* (`src/capture-worker`) captures pages in a browser and rebuilds whole sites.
A React *frontend* (`src/frontend`) polls the Control Plane. The services share no
database: they exchange commands and events over HTTP, each from an outbox table of
its own into an inbox table of the receiver, at least once.

## Inventory

| Component | State | Operations | Talks to |
|---|---|---|---|
| Crawler store, frontier (`internal/postgres/store.go`) | `crawl_executions` (status, ten counters), `scan_pages` (status, attempts, lease), `host_leases`, `analytics_outbox`, `outbox_events`, `inbox_messages` | AcceptCommand, AcceptCancellation, ClaimPage, ExtendPageLease, CommitPageResult, ClaimAnalytics, CompleteAnalytics, RetryAnalytics, ReclaimExpired, ClaimEvents, CompleteEvent, RetryEvent | all parts of the crawler share it |
| Fetch engine (`internal/crawl/engine.go`) | leases held in memory, fetch slots, backpressure flag | dispatch, process with heartbeat and deadline, reclaim every 5 s | store |
| Analytics delivery (`internal/analytics`) | a batch in memory, four ClickHouse tables | claim, look up receipts, four inserts, acknowledge or retry each row | store, ClickHouse |
| Event publisher (`internal/events`) | lanes in memory | claim the next event of each scan, post, complete or retry | Control Plane |
| Scans, site clones, captures (`scan/`, `siteclone/`, `capture/`) | a row each, with idempotency key, status, remote version | create, cancel, apply remote events | command outbox, each other |
| Messaging (`messaging/`) | command outbox, inbox | enqueue, claim, dispatch, complete, retry, consume events | crawler, capture worker |
| Websites (`website/`) | `websites` | create, archive, resolve for a site clone | scans |
| Authentication (`auth/`) and `apiClient.ts` | refresh sessions; cookies and tokens of the tabs | login, refresh, logout, one refresh per tab | each other |
| Capture jobs (`database.ts`, `index.ts`, `analytics.ts`) | jobs, reconstructions, artifacts, events, leases, the bucket | accept, claim, stage, publish, deliver, collect | Control Plane, object store, ClickHouse |
| Site reconstruction (`site-database.ts`, `site-worker.ts`) | one job row per clone, pages, artifacts, events | ingest, render, assemble, publish, cancel, expire, collect | crawler, object store, Control Plane |
| Page selection, archives (`design-clone.ts`, `site-archive.ts`) | none beyond one call | select pages, assemble and shard bundles | site reconstruction |
| Page capture, static clone (`capture.ts`, `static-clone.ts`) | request tables, budgets, browser, page, proxy of one capture | track requests, collect bodies, plan and build a clone | browser, proxy |
| Login browsers (`browser-session.ts`) | maps of sessions and starts | start, act, close, acquire, expire | page workers, the panel |
| Safe proxy (`safe-proxy.ts`) | sockets, byte counter, flags | forward, tunnel, track, exhaust, close | browser, the web |
| Download server (`server.ts`) | download counter, temporary files | serve artifacts | object store |
| Panel (`ManagedBrowserPanel.tsx`) | generation, sequence, shown session, object URLs | poll, act, switch, unmount | Control Plane |

What makes it hard: several processes run the same loops over the same rows, and a
loop's memory of a lease outlives the lease; transactions at READ COMMITTED see what
others commit between their statements; scans, captures and clones may be cancelled
at any moment from the other side of a slow network; messages are repeated, late and,
from the capture worker, out of order; ClickHouse and the object store have no
transactions; in the TypeScript code every `await` lets any other handler run;
answers come back to a panel that has moved on. `PROJECT.json` lists the hazards one
by one, at the line where each bites.

## Modules

| Module | Models |
|---|---|
| `PageTable`, `CrawlExecution` | the frontier: executions, pages, page and host leases, the part of the analytics outbox that pages wait for, fetch workers, reclaimer |
| `ExecutionRecord`, `ExecutionLifecycle` | what a progress event says of an execution and how one may follow another: the abstract specification of the crawler |
| `ScanRecords`, `ScanMessaging` | the rows of a scan and what must hold between them; one scan between Control Plane and crawler, both outboxes, a site clone that may wait for the scan |
| `AnalyticsDelivery` | delivery workers, their batches in memory, the four ClickHouse tables |
| `CaptureLifecycle` | the abstract life of a capture: statuses and the events it announces |
| `CaptureJobs` | capture jobs under leases, reconstructions, staged artifacts and their collector, analytics delivery |
| `CaptureMessaging` | a capture between Control Plane and worker |
| `SiteLifecycle` | the abstract life of a site job |
| `SiteJobs` | ingestion, page leases, rendering, assembly, publication, reconciliation and collection of one site job |
| `SiteMessaging` | a site clone between Control Plane and worker, with its cancellation |
| `BrowserSession` | login browsers, their starts, timers and waiters |
| `PageCapture` | what a capture records of a page's requests |
| `CaptureResources` | the proxy, browser, context and page a capture acquires under a deadline |
| `StaticClone` | the plan and the build of one page's clone |
| `SiteArchive` | the assembly of page bundles into sharded archives with a manifest |
| `DesignSelection` | the selection of a site's pages and the rows stored for it |
| `ArtifactServer` | downloads, their slots and temporary files |
| `SafeProxy` | proxies, sockets, tunnels, the byte budget |
| `SessionRotation` | tabs, cookies and the rotation of refresh credentials |
| `Admission` | concurrent transactions that create scans, clones, captures and websites |
| `BrowserPanel` | the panel that shows a login browser |
| `Messages` | the three kinds of messages side by side |
| `Access` | sessions, admission and panel side by side |
| `*Proofs` (eight) | theorems and proofs |
| `MC*` (seven) | instances for TLC |

**Composition.** `CrawlExecution` implements `ExecutionLifecycle` through
`ProgressSnapshot` (what `insertProgressEvent` reads), and `ScanMessaging` uses only
`ExecutionRecord`, so it is about every crawler that keeps that promise. In the same
way `CaptureJobs` implements `CaptureLifecycle`, which `CaptureMessaging` extends, and
`SiteJobs` implements `SiteLifecycle`, which `SiteMessaging` extends.
`Messages` extends `ScanMessaging` and instantiates the other two; `Access` extends
`SessionRotation`, `Admission` and `BrowserPanel`. Their parts share no variable.
`AnalyticsDelivery` refines the outbox steps of `CrawlExecution`; its acknowledgement
is where `CompleteAnalytics` runs there.

### How state and actions correspond to the code

- *CrawlExecution.* Every transaction of `store.go` is one action: it locks the
  execution row, or changes rows it holds. Variables are columns; `fetching` is the
  memory of `Engine.process` and survives the loss of the lease, so stale workers are
  states of the model. A lease is a page and a generation (`attempt_count` and
  `lease_generation` grow together). Time is `lapsed` and `overdue`. `ReclaimExpired`
  takes any subset of the lapsed rows, because `FOR UPDATE SKIP LOCKED` skips rows
  others hold; host slots are freed without that clause, so all of them are. What a
  page turns out to be, and which links it has, is free. `INDEXING` is a status the
  schema allows and no code writes.
- *AnalyticsDelivery.* One action per database call. A failing insert may have stored
  any part of its rows; a process may die between any two calls; a lease may lapse
  while its worker is busy.
- *ScanMessaging, CaptureMessaging, SiteMessaging.* A message is *posted* once it has
  been sent; a copy may be consumed at any time from then on, any number of times.
  `PENDING` stands for `PENDING` and `DEAD`, which are claimed alike. The crawler's
  outbox gives out one event per scan, in order; the capture worker's outbox has no
  order, and the receiving side's version check does the work.
- *CaptureJobs.* One action per transaction, upload, deletion or insert, by job loops,
  a collector and deliverers that each keep in memory what they claimed. A COMMIT whose
  answer is lost may have taken effect. `gen` is attempt and generation.
- *SiteJobs.* As above, for one job (jobs share only the loops). Three transactions
  whose statements can see different states take two steps: `claimPage` around
  `refreshJobCounters` (`OpenAdmission`, `CloseAdmission`), `reconcileCancellations`
  and `completeObjectDeletion`. Retention is an event that may happen at any time
  after its row was made, except that no assembly takes the full day between staging
  and publishing.
- *BrowserSession.* A start is a chain of awaits any call may interleave with; an
  attempt is one run of `startSession` with the browser, timer and expiry it makes.
- *PageCapture, CaptureResources.* The browser's events arrive at any time, also
  between two awaits of `capturePage`; a call abandoned by `withinDeadline` still goes
  on and may still succeed.
- *StaticClone, SiteArchive, DesignSelection.* Algorithms as phases over inputs that
  TLC enumerates; URLs, bodies and paths are abstract, but which of them coincide is
  not. What the URL parsing functions return is given by constants. A document of a
  bundle refers to every resource that was planned for it, also to those the build
  dropped (`Drops`, `CanDrop`).
- *ArtifactServer.* One request handler with its awaits, the response's `finish` and
  `close` events, and the collector that races it.
- *SafeProxy.* One action per socket event. Plain requests share the process's agent,
  so a socket may serve one proxy after another.
- *SessionRotation.* A credential is a refresh token with its CSRF token. Requests and
  answers may be delayed or lost; tabs share the cookies and nothing else.
- *Admission.* One action per statement of a READ COMMITTED transaction, with row
  locks and unique indexes; a transaction may fail at any statement and the request
  may be repeated with its key.
- *BrowserPanel.* One action per call, answer and user action.

### External facts

PostgreSQL: row locks, unique indexes and atomic commits at READ COMMITTED.
Hibernate: the `@Version` check makes a flush over a changed row fail. ClickHouse:
`ReplacingMergeTree` read with `FINAL`, so that writing a row twice is writing it
once. The object store: single objects are written and deleted atomically. Node: a
handler runs to its next `await`. HTTP: at-least-once delivery under retries.

## Runs

Properties are conjunctions of named parts in the component modules; the MC modules
say which part is about which instance.

| Run | Instance | Shows |
|---|---|---|
| `crawl_frontier` | one execution, four URLs, `MaxPages` 3, depth 1, concurrency 2, two attempts, two host slots | `CountersAgree`, `EndsWhenDone`, `OutboxMatchesPages`, `OutcomesStay`, refinement of `ExecutionLifecycle` with the published status |
| `crawl_shared_host` | two executions on one host with one slot, two attempts | `SlotsMatchLeases`, `PagesFinishOnce` |
| `services` | a crawl with concurrency 1; two delivery workers, three rows; a scan, a capture, a site clone | `DeliveredIsComplete`, `OwnerAcknowledges`, `ConcurrencyBounded`, `EventsApplied`, `ScanAgrees`, `WorkersAgree`, `ProjectionsMoveForward` |
| `services_liveness` | the same parts, smaller | `EventuallyDelivered`, `CrawlsEnd`, `CrawlsFinish`, `ProjectionsEnd` |
| `capture_jobs` | scene *clone*: two attempts against each other and the collector; scene *analytics*: two deliverers | `OffersHold`, `CompletedIsStored`, refinement of `CaptureLifecycle` |
| `capture_liveness` | scenes *attempts* and *collection* | `CapturesEnd` |
| `site_jobs` | scene *rendering*: two pages, two mortal renderers, two reconcilers, deadline and cancellation, no collector and so no retention; scene *archive*: two assemblers, two parts, a collector | `FrontierConsistent`, `StoredIsKept`, refinement of `SiteLifecycle` |
| `site_liveness` | scene *lifetime*: one loop of each kind, renderer and collector mortal, cancellation; scene *deadline*: nothing dies, the job becomes overdue | `NothingRemains` (all that an overdue job is promised: it ends unless its assembly is taken back again and again) |
| `site_deadline` | scene *deadline* of `site_liveness` | violates `JobEnds` (see Finding) |
| `cloning` | two proxies with four requests and a budget of one chunk; two login browsers with capacity one; three requests of a page with room for two, the third of which a redirect may make; six resources with coinciding paths; two bundles of two resources, and two that were built without some of their resources; three pages with redirects and gaps; three crawled pages of six URLs | `ConnectionsAccounted`, `BrowsersConsistent`, `CaptureAccounts`, `CloneHonest`, `ArchiveSound`, `SelectionAccounts` |
| `access` | two tabs, two calls, two sessions, three credentials, a logout; three requests of every kind over one or two websites; a panel over two clones | `ExchangedOnce`, `SessionsUsable`, `AdmissionConsistent`, `PanelConsistent`, `NothingComesBack` |
| `endings` | three downloads with two slots; two login browsers in sequence; two proxies; two calls of one tab; two requests; one capture | `DownloadsAccounted`, `RequestsAnswered`, `ResourcesReturned` |

**Parts and scenes.** Five MC modules hold models that share no variable, or
instances of one model. A behaviour picks a part (or scene) at the start and every
step is one of that part; the others keep a resting value. Since the parts share
nothing, an invariant of a part holds in every interleaving of the parts if it holds
in the part alone. A liveness property of a part is not weakened either: a resting
part has no enabled fair action (`MCEndings`, `MCCaptureJobs`) or fairness is asked
of the chosen part only (`MCServices`, `MCSiteJobs`). In `services_liveness` a crawl is
two parts: in *crawl* its deadline passes, in *work* it does not and there are
workers. The scenes of `MCSiteJobs` that are about endings have the same loops,
limits and fairness; in one processes die and the owner cancels, in the other the
deadline passes.

**Bounds.** Four URLs with `MaxPages` 3 make discovery hit its limit while another
page is in flight. Two attempts give a first try, a stale worker and a last attempt
that must not be requeued; the third attempt of the code repeats the first step. One
slot for two executions forces slots to be taken over from lapsed leases. Two working
events of a scan and its last ones put a late copy, the event in flight and a later
one in a lane together; no statement relates the messages of two scans, captures or
clones. Two loops of a kind are enough for every race, since a row has one lease. One
active scan per user puts the quota (three in the code) within reach of two requests,
and the third repeats one. Resources, pages and requests number one more than fit. A
budget of one chunk and two proxies reach exhaustion on one while the other goes on.
The panel's six generations cover a switch, an unmount and the actions between.

**Symmetry** is used among pages other than the seed, readable rows, loops of a kind,
pages and archive parts, never in a liveness run. The deadlock check is off where the
system may stop: everything has ended and been delivered.

### Fairness

- *Crawler.* None for claims, heartbeats, commits and workers: a paused dispatcher or
  a worker that never returns must not keep a scan open. Weak fairness for time and
  for a reclaimer run that finds the rows unlocked (`runReclaimer` repeats every five
  seconds). Strong fairness of `CompleteAnalytics`: ClickHouse accepts a row that is
  offered for ever. `CrawlsFinish` does without the deadline and assumes workers
  instead: some page that can be claimed is claimed in the end (weak fairness of
  `Dispatch`; `runDispatcher` polls for ever, and backpressure ends because rows are
  delivered), and a fetch ends (weak fairness of `FetchEnds`; `process` has a time
  limit). Which page is claimed is left open. In `AnalyticsDelivery` each database
  call with a given row succeeds in the end, and `EventuallyDelivered` has the premise
  that leases do not overrun for ever: nothing in `worker.go` bounds the time a batch
  of 100 rows takes.
- *Messaging.* Undelivered commands and events are retried without end, `DEAD` ones
  included. That an execution, capture or job ends is what the other liveness runs
  show. For a job they show it only if the reconciliation of the deadline does not
  interrupt it for ever (`JobEnds`, `EndsUnlessInterrupted` and the Finding), so
  `SiteMessaging` asks `SF(JobEnds)` only then (`Interrupted`), and `ClonesEnd` has the
  same premise where it says that a clone ends; that commands and events are
  acknowledged has none.
- *CaptureJobs, SiteJobs.* The loops poll for ever (weak fairness of each loop's
  steps), time passes, and a database or bucket call that is retried for ever
  succeeds in the end (strong fairness). A phase whose process dies in every attempt
  is excluded by the bound on mortal loops. Of a job that becomes overdue
  `EndsUnlessInterrupted` is claimed and nothing more: the Finding shows why.
- *ArtifactServer, BrowserSession, CaptureResources, SafeProxy.* A handler that has
  begun runs on, timers fire, connection attempts end. Nothing is assumed of clients.
- *SessionRotation, Admission.* A refresh is answered or lost, an answered call goes
  on, a transaction that can take its next step takes it.

### Finding

`site_deadline`: once a job with a succeeded page is overdue, every reconciliation
(each 500 ms) takes the lease of its assembly and, in the same transaction, returns it
to `RUNNING` with its attempts reset (`site-database.ts:641`). An assembly that takes
longer than a poll is interrupted each time and the job never ends, while
`docs/database/RECONSTRUCTION_SITE_CLONE_PROPOSAL.md:192` says that phases are
attempted three times.

### Observations

Behaviour met while modelling. The models contain it, and the properties that are
checked say what holds in spite of it; some of it disagrees with a text of the
repository, which is then named.

- *Crawler.* `CompleteAnalytics` ends an execution without looking at its status; it
  is safe only because an ended execution has nothing in flight. A lease shorter than
  a batch loses every attempt (`worker.go:60`). Two reclaimers may lock executions in
  opposite orders (`store.go:1230`); PostgreSQL then aborts one. The backpressure flag
  may be old when a claim starts (`engine.go:80`).
- *Capture jobs.* When staging fails after the upload, nothing deletes the clone's
  objects and no row names them; the collector only reads rows (`index.ts:106`, against
  `tasks/TASK-013-tich-hop-pagesource-ban-clone-tinh.md:91`).
- *Site jobs: cancellation.* The statement that cancels `QUEUED` pages and the one that
  looks for `RENDERING` ones see different snapshots. A `failPage` that commits between
  them leaves a `QUEUED` page; if another page succeeded the job returns to `RUNNING`
  and the page is claimed again (`site-database.ts:653`, against line 101 of the
  reconstruction proposal).
- *Site jobs: counters.* `refreshJobCounters` counts in the snapshot of its `UPDATE`,
  waits for the job row that a concurrent `completePage` holds, and overwrites the
  incremented counters with the old counts (`:1023`). With `succeeded_count` back at 0,
  `finalizeEmptyJobs` may fail a job that has a succeeded page.
- *Site jobs: expiry.* The deletion of a `STAGED` artifact of an earlier generation may
  mark a job `EXPIRED` that `publishArtifacts` has just published (`:877`). Two
  deletions of the last two artifacts each see the other's row as `DELETE_PENDING`, and
  neither marks the job (`:873`). The Control Plane ignores events of a terminal clone,
  so a published clone is never shown as `EXPIRED` (`SiteCloneRequestEntity.java:163`,
  against `README.md:100`).
- *Site jobs: bundles.* A bundle whose `completePage` rolled back, or whose deletion
  after a refusal failed, is named by no row and never collected (`site-worker.ts:231`).
- *Login browsers.* A session leaves the map before its browser has closed, so the next
  browser may start beside it (`browser-session.ts:237`, against ADR-011 line 20). A
  session that times out between two pages leaves the remaining pages to be rendered
  without a login (`site-worker.ts:190`, against TASK-019 line 24).
- *Page capture.* The requests a redirect makes are seen by the tracking map and not by
  the route handler's counter: the map may be full first, and a request is then in
  neither the network log nor the clone's inputs (`capture.ts:145`). A proxy whose start
  is abandoned at the deadline is not closed (`:57`), nor a page that a managed session
  opens too late (`:82`).
- *Static clone.* The page's references are rewritten to the planned paths before the
  build drops planned resources that no longer fit; those references then name no file
  (`static-clone.ts:130`, against lines 106 and 107 of the proposal). The clone says
  that it is limited by its budget.
- *Site archive.* It leaves such references of a document in place. `DanglingDeclared`
  says that no other local reference is without a file and that the manifest lists the
  gaps of such a page. A picture captured under two URLs with equal content has one
  file, and its bundle gives one of the URLs (`static-clone.ts:140`); a style sheet's
  link to the other URL leads to the web although the archive has the picture.
- *Selection.* Pages are merged by canonical URL before their role is looked at, so a
  role may lose its only page (`design-clone.ts:169`, against TASK-018 line 77), as it
  may when that page is the one that marks the budget. When nothing is selected the
  root is cloned and all rejections are forgotten (`site-worker.ts:127`). A second
  selected page with the root's URL shares its hash and gets no row.
- *Proxy.* A plain request's socket is pooled by the process, and the listener of the
  first proxy stays on it: a later request of another capture is charged to both, and
  ends with the first proxy's close (`safe-proxy.ts:63`, `:109`). A client that goes
  before its close handlers are attached leaves its upstream to the idle timer (`:86`).
- *Downloads.* The counter bounds open responses. A copy from storage goes on after its
  client has gone, so more than two may be under way (`server.ts:65`).
- *Sessions.* A refresh handled before a logout with the same cookies rotates the
  credential; the logout then matches no session, and the user stays signed in
  (`AuthenticationService.java:194`). A refresh whose answer is lost leaves the browser
  with an exchanged credential, and the user signs in again.
- *Admission.* The repetition of a request about a website archived since is answered 404.

## Proofs

Proved with TLAPS for every value of the constants that satisfies the assumptions
named in the modules. They say: the sets that are counted (executions, pages, clones,
requests) are finite, and functions between them total (each page has an execution,
each clone an owner); limits are numbers, positive where the code starts from one (a
scan has at least one page, as `ScanConfiguration` demands; a capture is attempted at
least once, three times in `claimJob`; a capture may log a request and keep a byte; a
site archive has at least one part); values that stand for "none" (`NoLease`,
`NoSocket`, `NoRequest`, `NoOwner`, `NoKey`, `Nobody`) are not of the set they are
absent from; URLs are numbered, and normalising one gives a URL; the path of a resource
is not empty, and an archive has room for its document (`STATIC_CLONE_MAX_FILES` is 100 in
`static-clone.ts`).

- `CrawlExecutionProofs`: `TypeCorrect`, `OutboxAlwaysMatches`, `CountersAlwaysAgree`.
  The types alone are not inductive: that a claim stays within the allowed attempts
  needs `PageRows` (a queued page has an attempt left, a leased one has used one, only
  accepted executions have pages), and that a delivered result has a status to give
  needs `OutboxMatchesPages`; together they are `TypeInv`. The books need both halves
  of `BooksInv` at once: the balance is preserved only if each column counts exactly
  the pages the transaction moves. `MovePages` states what moving a set of pages
  between statuses does to the cardinalities; each action is an instance, the
  reclaimer three in a row.
- `CrawlExecutionProofs`, second half: `AlwaysEndsWhenDone`, `OutcomesAlwaysStay`,
  `PagesAlwaysFinishOnce`, from `FrontierInv == TypeInv /\ BooksInv /\ EndInv`.
  `EndInv` says that a status fits the pages; `DrainedMeansNoOpenPage` connects the
  test on the counters, which is all the code looks at, with the pages.
  `ConcurrencyAlwaysBounded` follows a claim, the one step that leases pages, and the
  counter it looks at. `SlotsAlwaysMatch` needs to know more of the
  workers: a lease in a worker's memory or in a slot is of an attempt the
  page has made, so a page claimed again is told apart from every older claim.
  `FrontierRefinesLifecycle` maps every transaction to a step of `ExecutionLifecycle`
  or to none; the balance between results staged and published, which the abstract
  record states and no column of the code holds, is counted over the pages.
- `CaptureJobsProofs`: `OffersAlwaysHold`, `CompletedAlwaysStored`, `EndedAlwaysStays`,
  `CaptureRefinesLifecycle`. Every action is described once, by what it can do to one
  row, one loop, one object or one artifact (`JobStep`, `LoopStep`, `StoreStep`,
  `CloneStep`, `ArtifactStep`, `CollectorStep`), and each invariant is proved against
  those descriptions. That an offered archive is in the bucket rests on `CloneInv`:
  two loops with an attempt of the same capture have different ones
  (`AttemptsDistinct`); an attempt that has not staged yet has no artifact rows
  (`NotYetStaged`); what is staged has been uploaded (`Uploaded`); and a collector that
  has claimed an artifact has made it unpublishable in the same transaction
  (`Doomed`), so the deletion that comes later never hits a published one (`Kept`).
  That a completed capture has its rows in every table rests on `TablesInv`, what a
  deliverer's memory says of the tables it has written.
- `SiteJobsProofs`: `SiteRefinesLifecycle`, `FrontierAlwaysConsistent`,
  `StoredAlwaysKept`. The loops have many actions and few of them write a given row, so
  the proof first says who writes what (`WhoWritesJob`, `WhoWritesPages`,
  `WhoWritesArtifacts`, `WhoMoves`) and what one step can do to one page (`PageEffect`)
  and to the job (`JobSteady`, `JobMoved` with the `Allowed` moves); every invariant is
  proved against these descriptions. The refinement and `EndsOnce` need `Marks` and
  `Quiet`: an assembly goes on only over a closed frontier, and a job whose status moves
  is marked by nobody else. `ConcurrencyBounded` follows the claims, the only steps that
  start a page; `CountersNotAhead` rests on `Counted`: what an open `claimPage` has
  counted is still true when it writes it, since outcomes are final and the rows it
  has locked wait for it. That bundles stay rests on `BundleInv` (the bundle of a held
  page about to be completed is in the bucket, and a renderer discards one only of a
  page that has failed or was cancelled). That final objects are accounted for rests on
  `FinalInv`: each generation of artifacts is staged by one assembly (`Staging`), the
  rows of a copy under way are `STAGED` and not due (`FinalRows`), and the object a
  collector deletes is never one that an assembly copies (`Collecting`).
- `MessagesProofs`: `EventsAlwaysApplied`, `ScanAlwaysAgrees`,
  `ProjectionAlwaysForward`, `ClosedCloneAlwaysStays`, from `ScanInv`. Its core is
  `Lane` (an event that is or was on its way has only delivered ones before it) with
  `Arrived` (the events handled are a prefix, and what is on its way is at most the one
  after it): neither is inductive alone, and with both a late copy is always a
  repetition. `Written` says that the events grow, add up, that a terminal one is the
  last and equals the execution, and that one that speaks of a cancellation follows
  the user's; with `Requested` this is why the status machine of the Control Plane
  refuses none.
- `MessagesProofs`, second half: `WorkersAlwaysAgree`, `ProjectionsAlwaysForward`. The
  worker's outbox has no order, so the argument is about version numbers.
  `Announces` says what a capture's events are: a `RUNNING` for each claim, then
  `INDEXING`, then an end that is the last. `Shows` says that the Control Plane shows
  an event that was written, and none it has processed is newer; a late one is then
  refused by its version, and an end is never overwritten since nothing is newer. For
  site clones `EndsLast` and `ShowsClone` say the same, except that a published archive
  may still expire, and `CancellationTaken` that a delivered cancellation has reached
  the job.
  `ProjectionsMoveForward` is an action property over all three kinds: each invariant is
  lifted to `MessagesSpec`, whose steps leave the other kinds alone.
- `AnalyticsDeliveryProofs`: `DeliveredAlwaysComplete`, `OwnerAlwaysAcknowledges`, from
  `BatchInv` (what a worker's memory says of the tables it has written) and `StoreInv`
  (a receipt implies the other three tables).
- `ArtifactServerProofs`: `DownloadsAreAccounted`. `Inv` adds `CopiesOfPublished`: a
  handler that copies the object has read a published row, whatever has become of it
  since; without it `OnlyIntactSent` is not inductive. The counter is a cardinality, so
  every admission and release rests on a lemma on finite sets.
- `AccessProofs`, sessions: `EachIsExchangedOnce`, `NothingIsIssuedAfterRevocation`,
  `SessionsAlwaysUsable`. The first is not inductive; `Books` adds that a current
  credential belongs to one session and was never exchanged, and that what was
  exchanged had been issued. The cookies need `Undelivered` (a credential on its way is
  known to nobody but its session, so no request can use it up before it arrives) and
  `Settling` (cookies that do not work are about to be overwritten); the waiting calls
  need `Sharing` (a refresh in flight is one message, and a call waits for it).
- `AccessProofs`, admission: `AdmissionAlwaysConsistent`, `RepeatsAlwaysReplay`, from
  `AdmissionInv`. `Rows` says what the tables say of each other (a row is that of a
  finished request, a key names one row, a scan of a clone has the clone's key), and
  `Behaves` what a transaction's memory is worth at each statement: what it has been
  given (`Placed`), the row it has locked, which nobody else has (`Locked`), what it has
  read under the lock and so is still true (`Checked`), and what it answers (`Told`).
  The quota holds because the count it is compared with is read under the user's lock.
- `AccessProofs`, panel: `PanelAlwaysConsistent`, `PanelNeverGoesBack`. `PanelCalls`:
  at most one call counts, and it is of this generation, so of the clone that is shown.
  `PanelVersions`: what an answer that counts says is not behind what is shown.
  `NothingEverComesBack` joins one action property of each part.
- `CloningProofs`, proxies: `ConnectionsAreAccounted`, from `Ownership` (a tunnel's
  socket is its own, an idle one served a plain request, an open one is tracked by its
  user's proxy) and `Counts` (a proxy is exhausted exactly when it received more than
  its budget, and its own requests account for no more than it received).
- `CloningProofs`, login browsers: `BrowsersAlwaysConsistent`, from `BrowserBooks`:
  attempts are made in order, a clone has a pending start exactly while an attempt of
  it is under way, and a registered session belongs to the attempt it is registered
  for. Capacity is then counted: the pending clones and the sessions are mapped
  one to one to attempts.
- `CloningProofs`, selection: `SelectionAlwaysAccounts`, whatever the URL functions
  return. The page the code's comparison picks exists: a set of keys has a least one,
  by well-foundedness of the numbers applied to one component after the other
  (`LeastExist`, `BestExist`). `Progress` says what each phase has settled: a page is
  selected or rejected, and a rejected duplicate has a page that stands for it.
- `CloningProofs`, captures: `CaptureAlwaysAccounts`, from `CaptureInv`. The log's and
  the bodies' budgets are never what drops a tracked request: a request that is not in
  the log yet finds room in it, since the log names different tracked requests
  (`RoomToLog`). `Collecting` ties the inputs to the candidates row by row although the
  candidates grow and are marked meanwhile, `WithinBytes` carries the sums of the bodies
  collected so far, and `Requested` the agreement of the two counters until a redirect
  makes a request. An assembled clone then has each tracked request once, because the
  three lists it is put together from name disjoint sets (`AssembledOnce`). The sum
  over the inputs is a recursive function, reasoned about by its least wrong value
  (`TotalOfSums`).
- `CloningProofs`, static clones: `CloneAlwaysHonest`, from `CloneInv` (what the steps
  before have left is the plan of the inputs). Plan and build are recursive functions
  over the resources; `PlanHolds` and `BuildHolds` show `PlanBooks` and `BuildBooks` by
  the least number of resources at which one would fail, and their values exist by the
  same argument. Among the suffixed paths one is free, because there are more of them
  than files (`FreshPath`). Resources with one path have one content (`Shared`), and a
  key's path is that of the resources with that key (`Addressing`), so a file shared by
  two resources is the right one for both. A resource loses its path only in a build
  that says it is limited (`RowsLeft`), so a style sheet rewritten before then is
  declared. Each file is of one resource (`FilesFrom`) and each path kept has a file
  (`Filled`); from a one-to-one map of files to resources the manifest's numbers add up.

Only model-checked: all liveness and the finding (outside the prover's reach), and the
assembly of archives (`ArchiveSound`), whose results are folds over sequences of bundles
and of the resources in them, and which says that a loop ends. Every other invariant
and action property of the runs is the statement of a theorem.

## Not modelled

- Fetching, parsing, URL scope and the safe dialer of the crawler; page observation,
  screenshots and HTML rewriting of the capture worker: I/O or text processing, whose
  outcome is a free choice where it matters.
- Report queries, listings, dashboard and the presentation part of the frontend:
  they read state and change none. `useAsyncData` is a small case of the panel's
  request generations.
- Password checks, the login rate limiter, token signing and hashing: library code
  and single-row counters.
- The crawler dispatcher's slot channel: it only decides when a claim is tried, which
  `CrawlExecution` leaves open.
- Deployment files and load tools: not part of the program.

## Plan

What would be proved next: the safety parts of `ArchiveSound`, by writing the folds of
`SiteArchive` as recursive functions and reasoning about the least bundle at which an
invariant of the assembly fails, as is done for the plan and the build of `StaticClone`.
