------------------------------ MODULE SiteJobs ------------------------------
(***************************************************************************)
(* The reconstruction of a site by the capture worker: pages ingested from *)
(* the crawler, rendered under leases, bundled, assembled into archives,   *)
(* published, cancelled, timed out, and the collector that deletes what is *)
(* no longer wanted.                                                       *)
(*                                                                         *)
(* Code: capture-worker/src/site-database.ts, site-worker.ts.              *)
(*                                                                         *)
(* The state is that of one job: jobs share nothing but the loops. A       *)
(* statement of READ COMMITTED sees what is committed when it starts, so a *)
(* transaction whose statements can see different states takes two steps:  *)
(* claimPage (around refreshJobCounters), reconcileCancellations and       *)
(* completeObjectDeletion. A row such a transaction has locked makes the   *)
(* others wait or skip it. The other transactions are one step each; one   *)
(* that fails rolls back, one whose COMMIT fails may have taken effect.    *)
(*                                                                         *)
(* A loop has one claim at a time and an identity of its own, so the owner *)
(* of a phase lease names the claim; the generation only names artifacts   *)
(* and is numbered when artifacts are staged. attempt_count and            *)
(* lease_generation of a page grow together: `gen` is both. Backoff and    *)
(* polling only delay a claim.                                             *)
(***************************************************************************)
EXTENDS Naturals, Sequences, FiniteSets

CONSTANTS
  Pages,            \* targets the crawler may report
  Ingesters, Renderers, Assemblers, Reconcilers, Collectors,   \* the loops
  Parts,            \* archive shards and the manifest of one build
  PageConcurrency,  \* page_concurrency
  MaxRetries,       \* max_retries_per_page
  MaxPhase,         \* attempts of a phase, 3 in the code
  MaxStaged,        \* bound: generations that stage artifacts
  HasDeadline,      \* bound: whether the job may become overdue
  MayCancel,        \* bound: whether the owner may cancel
  Mortal,           \* bound: the loops whose process may die
  None

\* A job has finitely many targets and at least a manifest; the limits are those
\* site_reconstruction_jobs checks.
ASSUME PagesAssumption == IsFiniteSet(Pages)
ASSUME PartsAssumption == Parts # {}
ASSUME LimitsAssumption ==
  /\ PageConcurrency \in Nat \ {0} /\ MaxRetries \in Nat \ {0} /\ MaxPhase \in Nat \ {0}
  /\ MaxStaged \in Nat

VARIABLES
  job,         \* site_reconstruction_jobs
  overdue,     \* created_at + max_duration_seconds has passed
  inbox,       \* site_reconstruction_command_inbox holds the cancellation
  page,        \* site_reconstruction_pages
  artifact,    \* site_reconstruction_artifacts
  store,       \* page bundles and final artifacts in the bucket
  ingester, renderer, assembler, collector,   \* what the loops hold in memory
  admission,   \* the open claimPage transaction, serialised by an advisory lock
  reconciler,  \* the open reconcileCancellations transaction of each loop
  sent         \* terminal statuses in site_reconstruction_event_outbox

rows == <<job, page, artifact>>
loops == <<ingester, renderer, assembler, collector, admission, reconciler>>
vars == <<job, overdue, inbox, page, artifact, store, ingester, renderer, assembler,
          collector, admission, reconciler, sent>>

Ended == {"PUBLISHED", "PARTIAL", "FAILED", "CANCELLED", "EXPIRED"}
Active == {"INGESTING", "RUNNING", "ASSEMBLING"}

Job == [status : {"NONE", "CANCEL_REQUESTED"} \cup Active \cup Ended,
        owner : Ingesters \cup Assemblers \cup {None}, lapsed : BOOLEAN,
        attempts : 0 .. MaxPhase, late : BOOLEAN,
        succeeded : 0 .. Cardinality(Pages), failed : 0 .. Cardinality(Pages)]
PageRow == [status : {"NONE", "QUEUED", "RENDERING", "SUCCEEDED", "FAILED", "CANCELLED"},
            gen : 0 .. MaxRetries, lapsed : BOOLEAN, rejected : BOOLEAN,
            bundle : {"NONE", "AVAILABLE", "DELETE_PENDING", "DELETED"}, due : BOOLEAN]
Finals == (1 .. MaxStaged) \X Parts
ArtifactRow == [state : {"NONE", "STAGED", "PUBLISHED", "DELETE_PENDING", "DELETED"},
                due : BOOLEAN]

Bundle(p, g) == <<"bundle", p, g>>
Final(o) == <<"final", o[1], o[2]>>
Stored == {Bundle(p, g) : p \in Pages, g \in 1 .. MaxRetries} \cup {Final(o) : o \in Finals}

\* Who holds what. A collector's target is an artifact or a page's bundle, with
\* the name of the object; `last` is what completeObjectDeletion has read.
Nothing == [at |-> "idle", p |-> None, gen |-> 0]
NoTarget == [at |-> "idle", kind |-> "none", id |-> None, object |-> None, last |-> FALSE]
NoAdmission == [by |-> None, pages |-> {}, succeeded |-> 0, failed |-> 0]

Init ==
  /\ job = [status |-> "NONE", owner |-> None, lapsed |-> FALSE, attempts |-> 0,
            late |-> FALSE, succeeded |-> 0, failed |-> 0]
  /\ overdue = FALSE /\ inbox = FALSE
  /\ page = [p \in Pages |-> [status |-> "NONE", gen |-> 0, lapsed |-> FALSE, rejected |-> FALSE,
                              bundle |-> "NONE", due |-> FALSE]]
  /\ artifact = [o \in Finals |-> [state |-> "NONE", due |-> FALSE]]
  /\ store = {}
  /\ ingester = [i \in Ingesters |-> [at |-> "idle", todo |-> {}, chosen |-> {}]]
  /\ renderer = [r \in Renderers |-> Nothing]
  /\ assembler = [a \in Assemblers |-> [at |-> "idle", gen |-> 0]]
  /\ collector = [k \in Collectors |-> NoTarget]
  /\ admission = NoAdmission
  /\ reconciler = [c \in Reconcilers |-> [at |-> "idle", marked |-> FALSE]]
  /\ sent = << >>

-----------------------------------------------------------------------------
(* Locks and counters *)

In(s) == {p \in Pages : page[p].status = s}
Count(s) == Cardinality(In(s))

\* No reconciliation holds the row of the job, no admission that of the page.
JobFree == \A c \in Reconcilers : ~reconciler[c].marked
PageFree(p) == p \notin admission.pages

\* incrementJob. Its RUNNING event after every hundred pages is not terminal.
Increment(good) ==
  job' = IF good THEN [job EXCEPT !.succeeded = @ + 1] ELSE [job EXCEPT !.failed = @ + 1]

-----------------------------------------------------------------------------
(* Commands and time *)

\* acceptRequested; a repeated command finds the job and changes nothing.
AcceptRequested ==
  /\ job.status = "NONE"
  /\ job' = [job EXCEPT !.status = "INGESTING"]
  /\ UNCHANGED <<overdue, inbox, page, artifact, store, loops, sent>>

\* For mutation only: a job that has ended is cancelled too.
CancellableAlways == TRUE

Cancellable == job.status \notin Ended

\* acceptCancellation: takes the phase lease away; a repeated or late command
\* only leaves its row in the inbox. A cancellation before the job is refused.
AcceptCancellation ==
  /\ MayCancel /\ job.status # "NONE" /\ ~inbox /\ JobFree
  /\ inbox' = TRUE
  /\ job' = IF Cancellable
            THEN [job EXCEPT !.status = "CANCEL_REQUESTED", !.owner = None, !.lapsed = FALSE]
            ELSE job
  /\ UNCHANGED <<overdue, page, artifact, store, loops, sent>>

BecomesOverdue ==
  /\ HasDeadline /\ job.status # "NONE" /\ ~overdue
  /\ overdue' = TRUE
  /\ UNCHANGED <<job, inbox, page, artifact, store, loops, sent>>

PhaseLapses ==
  /\ job.owner # None /\ ~job.lapsed
  /\ job' = [job EXCEPT !.lapsed = TRUE]
  /\ UNCHANGED <<overdue, inbox, page, artifact, store, loops, sent>>

PageLapses(p) ==
  /\ page[p].status = "RENDERING" /\ ~page[p].lapsed
  /\ page' = [page EXCEPT ![p].lapsed = TRUE]
  /\ UNCHANGED <<job, overdue, inbox, artifact, store, loops, sent>>

-----------------------------------------------------------------------------
(* Phases: what ingestion and assembly share *)

\* The lease condition of extendPhaseLease, finishIngestion and retryPhase; the
\* other transactions of a phase also want it unexpired.
HoldsPhase(x, phase) == job.owner = x /\ job.status = phase

Unleased == job.owner = None \/ job.lapsed

\* extendPhaseLease, by the heartbeat of an assembly or between the steps of an
\* ingestion. It does not look at the expiry.
ExtendPhaseLease(x) ==
  /\ JobFree /\ job.owner = x /\ job.lapsed
  /\ \/ x \in Ingesters /\ ingester[x].at # "idle" /\ HoldsPhase(x, "INGESTING")
     \/ x \in Assemblers /\ assembler[x].at # "idle" /\ HoldsPhase(x, "ASSEMBLING")
  /\ job' = [job EXCEPT !.lapsed = FALSE]
  /\ UNCHANGED <<overdue, inbox, page, artifact, store, loops, sent>>

\* The attempt that failed was the last one.
Exhausted == job.attempts + 1 >= MaxPhase

\* retryPhase, also when the attempt lost its lease and there is nothing to do.
\* Artifacts the generation has staged may be collected at once.
RetryPhase(x, phase, g) ==
  IF HoldsPhase(x, phase)
  THEN /\ JobFree
       /\ job' = IF Exhausted
                 THEN [job EXCEPT !.status = "FAILED", !.owner = None, !.lapsed = FALSE, !.late = FALSE]
                 ELSE [job EXCEPT !.attempts = @ + 1, !.owner = None, !.lapsed = FALSE, !.late = FALSE]
       /\ artifact' = [o \in Finals |-> IF o[1] = g /\ artifact[o].state = "STAGED"
                                        THEN [artifact[o] EXCEPT !.due = TRUE] ELSE artifact[o]]
       /\ sent' = IF Exhausted THEN Append(sent, "FAILED") ELSE sent
  ELSE UNCHANGED <<job, artifact, sent>>

-----------------------------------------------------------------------------
(* Ingestion: ingestionLoop, ingest *)

ClaimIngestion(i) ==
  /\ ingester[i].at = "idle" /\ JobFree
  /\ job.status = "INGESTING" /\ Unleased
  /\ job' = [job EXCEPT !.owner = i, !.lapsed = FALSE]
  /\ ingester' = [ingester EXCEPT ![i].at = "list"]
  /\ UNCHANGED <<overdue, inbox, page, artifact, store, renderer, assembler, collector, admission,
                 reconciler, sent>>

\* The crawler's pages are read and selectDesignPages has chosen some of them;
\* when it chooses none the root page stands in, so one target is never CANCELLED.
ListTargets(i) ==
  /\ ingester[i].at = "list"
  /\ \E todo \in SUBSET Pages \ {{}} : \E chosen \in SUBSET todo \ {{}} :
       ingester' = [ingester EXCEPT ![i] = [at |-> "add", todo |-> todo, chosen |-> chosen]]
  /\ UNCHANGED <<overdue, inbox, rows, store, renderer, assembler, collector, admission,
                 reconciler, sent>>

\* addTargets of one batch; rows that exist stay as they are.
AddTargets(i) ==
  /\ ingester[i].at = "add" /\ ingester[i].todo # {} /\ JobFree
  /\ HoldsPhase(i, "INGESTING") /\ ~job.lapsed
  /\ \E batch \in SUBSET ingester[i].todo \ {{}} :
       /\ page' = [p \in Pages |->
            IF p \in batch /\ page[p].status = "NONE"
            THEN [page[p] EXCEPT !.status = IF p \in ingester[i].chosen THEN "QUEUED" ELSE "CANCELLED",
                                 !.rejected = p \notin ingester[i].chosen]
            ELSE page[p]]
       /\ ingester' = [ingester EXCEPT ![i].todo = @ \ batch]
  /\ UNCHANGED <<job, overdue, inbox, artifact, store, renderer, assembler, collector, admission,
                 reconciler, sent>>

\* finishIngestion. Its NO_CLONEABLE_PAGES branch needs an empty table, which
\* ListTargets rules out.
FinishIngestion(i) ==
  /\ ingester[i].at = "add" /\ ingester[i].todo = {} /\ JobFree
  /\ HoldsPhase(i, "INGESTING")
  /\ job' = [job EXCEPT !.status = "RUNNING", !.owner = None, !.lapsed = FALSE, !.attempts = 0]
  /\ ingester' = [ingester EXCEPT ![i] = [at |-> "idle", todo |-> {}, chosen |-> {}]]
  /\ UNCHANGED <<overdue, inbox, page, artifact, store, renderer, assembler, collector, admission,
                 reconciler, sent>>

\* A call of ingest throws (the crawler, the lease, the page limit, a statement)
\* and ingestionLoop calls retryIngestion.
IngestionFails(i) ==
  /\ ingester[i].at \in {"list", "add"}
  /\ RetryPhase(i, "INGESTING", 0)
  /\ ingester' = [ingester EXCEPT ![i] = [at |-> "idle", todo |-> {}, chosen |-> {}]]
  /\ UNCHANGED <<overdue, inbox, page, store, renderer, assembler, collector, admission, reconciler>>

-----------------------------------------------------------------------------
(* Pages: pageLoop, processPage *)

Lapsed == {p \in In("RENDERING") : page[p].lapsed}

\* The row of a page whose lease lapsed, after claimPage.
Reclaimed(p) ==
  [page[p] EXCEPT !.status = IF page[p].gen < MaxRetries THEN "QUEUED" ELSE "FAILED",
                  !.lapsed = FALSE]

\* claimPage takes the admission lock, locks the lapsed pages, and the statement
\* of refreshJobCounters counts the outcomes as they are now.
OpenAdmission(r) ==
  /\ renderer[r].at = "idle" /\ admission = NoAdmission /\ Lapsed # {}
  /\ admission' = [by |-> r, pages |-> Lapsed, succeeded |-> Count("SUCCEEDED"),
                   failed |-> Count("FAILED")
                              + Cardinality({p \in Lapsed : Reclaimed(p).status = "FAILED"})]
  /\ UNCHANGED <<overdue, inbox, rows, store, ingester, renderer, assembler, collector,
                 reconciler, sent>>

\* The pages claimPage may claim when the pages table is as given.
Admissible(table) ==
  {p \in Pages : /\ job.status = "RUNNING" /\ table[p].status = "QUEUED"
                 /\ Cardinality({q \in Pages : table[q].status = "RENDERING"}) < PageConcurrency}

\* Claim at most one of the admissible pages of the table.
Claim(r, table) ==
  \E picked \in {{p} : p \in Admissible(table)} \cup {{}} :
    /\ page' = [p \in Pages |->
         IF p \in picked
         THEN [table[p] EXCEPT !.status = "RENDERING", !.gen = @ + 1, !.lapsed = FALSE]
         ELSE table[p]]
    /\ renderer' = [renderer EXCEPT ![r] =
         IF picked = {} THEN Nothing
         ELSE LET p == CHOOSE q \in picked : TRUE
              IN  [at |-> "render", p |-> p, gen |-> table[p].gen + 1]]

\* The rest of that claimPage. The update of the counters waited for the row of
\* the job, but writes what was counted before.
CloseAdmission(r) ==
  /\ admission.by = r /\ JobFree
  /\ job' = [job EXCEPT !.succeeded = admission.succeeded, !.failed = admission.failed]
  /\ Claim(r, [p \in Pages |-> IF p \in admission.pages THEN Reclaimed(p) ELSE page[p]])
  /\ admission' = NoAdmission
  /\ UNCHANGED <<overdue, inbox, artifact, store, ingester, assembler, collector, reconciler, sent>>

\* claimPage when no lease has lapsed.
ClaimPage(r) ==
  /\ renderer[r].at = "idle" /\ admission = NoAdmission
  /\ Lapsed = {} /\ Admissible(page) # {}
  /\ Claim(r, page) /\ renderer'[r] # Nothing
  /\ UNCHANGED <<job, overdue, inbox, artifact, store, ingester, assembler, collector, admission,
                 reconciler, sent>>

\* The lease condition of extendPageLease, completePage and failPage.
HoldsPage(r) ==
  page[renderer[r].p].status = "RENDERING" /\ page[renderer[r].p].gen = renderer[r].gen

Goes(r, step) == renderer' = [renderer EXCEPT ![r].at = step]

ExtendPageLease(r) ==
  /\ renderer[r].at \in {"render", "complete"} /\ HoldsPage(r) /\ PageFree(renderer[r].p)
  /\ page[renderer[r].p].lapsed
  /\ page' = [page EXCEPT ![renderer[r].p].lapsed = FALSE]
  /\ UNCHANGED <<job, overdue, inbox, artifact, store, loops, sent>>

\* The page is captured and its bundle uploaded.
RenderPage(r) ==
  /\ renderer[r].at = "render"
  /\ store' = store \cup {Bundle(renderer[r].p, renderer[r].gen)}
  /\ Goes(r, "complete")
  /\ UNCHANGED <<overdue, inbox, rows, ingester, assembler, collector, admission, reconciler, sent>>

\* Anything before completePage throws; a bundle already uploaded is deleted.
RenderFails(r) ==
  /\ renderer[r].at = "render"
  /\ Goes(r, "fail")
  /\ UNCHANGED <<overdue, inbox, rows, store, ingester, assembler, collector, admission, reconciler,
                 sent>>

\* completePage under the locks of the page and the job: cancelled, over the
\* input budget, or accepted. The worker may see the COMMIT fail.
CompletePage(r) ==
  LET p == renderer[r].p
  IN  /\ renderer[r].at = "complete" /\ HoldsPage(r) /\ PageFree(p) /\ JobFree
      /\ \/ /\ job.status = "CANCEL_REQUESTED"
            /\ page' = [page EXCEPT ![p].status = "CANCELLED", ![p].lapsed = FALSE]
            /\ job' = job
            /\ Goes(r, "discard") \/ Goes(r, "fail")
         \/ /\ job.status # "CANCEL_REQUESTED"
            /\ page' = [page EXCEPT ![p].status = "FAILED", ![p].lapsed = FALSE]
            /\ Increment(FALSE)
            /\ Goes(r, "discard") \/ Goes(r, "fail")
         \/ /\ job.status # "CANCEL_REQUESTED"
            /\ page' = [page EXCEPT ![p].status = "SUCCEEDED", ![p].lapsed = FALSE,
                                    ![p].bundle = "AVAILABLE", ![p].due = TRUE]
            /\ Increment(TRUE)
            /\ renderer' = [renderer EXCEPT ![r] = Nothing] \/ Goes(r, "fail")
      /\ UNCHANGED <<overdue, inbox, artifact, store, ingester, assembler, collector, admission,
                     reconciler, sent>>

\* completePage rolls back. The bundle stays: its COMMIT may have been lost.
CompletePageFails(r) ==
  /\ renderer[r].at = "complete"
  /\ Goes(r, "fail")
  /\ UNCHANGED <<overdue, inbox, rows, store, ingester, assembler, collector, admission, reconciler,
                 sent>>

\* A bundle that was not accepted is deleted, or not if the store fails.
DiscardBundle(r) ==
  /\ renderer[r].at = "discard"
  /\ store' \in {store, store \ {Bundle(renderer[r].p, renderer[r].gen)}}
  /\ renderer' = [renderer EXCEPT ![r] = Nothing]
  /\ UNCHANGED <<overdue, inbox, rows, ingester, assembler, collector, admission, reconciler, sent>>

\* failPage: locks the job only when the page has failed for good.
FailPage(r) ==
  LET p == renderer[r].p
  IN  /\ renderer[r].at = "fail"
      /\ IF ~HoldsPage(r) THEN UNCHANGED <<job, page>>
         ELSE /\ PageFree(p)
              /\ IF renderer[r].gen < MaxRetries
                 THEN /\ page' = [page EXCEPT ![p].status = "QUEUED", ![p].lapsed = FALSE]
                      /\ job' = job
                 ELSE /\ JobFree
                      /\ page' = [page EXCEPT ![p].status = "FAILED", ![p].lapsed = FALSE]
                      /\ Increment(FALSE)
      /\ renderer' = [renderer EXCEPT ![r] = Nothing]
      /\ UNCHANGED <<overdue, inbox, artifact, store, ingester, assembler, collector, admission,
                     reconciler, sent>>

-----------------------------------------------------------------------------
(* Assembly: assemblyLoop, assemble *)

Frontier == In("QUEUED") \cup In("RENDERING")

\* For mutation only: pages that are rendered are not waited for.
FrontierClosedEarly == In("QUEUED") = {}

FrontierClosed == Frontier = {}

\* finalizeEmptyJobs, in the transaction of claimAssembly. A job that ends here
\* is no candidate for the claim.
FinalizeEmptyJob(a) ==
  /\ assembler[a].at = "idle" /\ JobFree
  /\ job.status = "RUNNING" /\ job.succeeded = 0 /\ FrontierClosed
  /\ job' = [job EXCEPT !.status = "FAILED", !.late = FALSE]
  /\ sent' = Append(sent, "FAILED")
  /\ UNCHANGED <<overdue, inbox, page, artifact, store, loops>>

ClaimAssembly(a) ==
  /\ assembler[a].at = "idle" /\ JobFree
  /\ job.status \in {"RUNNING", "ASSEMBLING"} /\ job.succeeded > 0
  /\ FrontierClosed /\ Unleased
  /\ job' = [job EXCEPT !.status = "ASSEMBLING", !.owner = a, !.lapsed = FALSE]
  /\ assembler' = [assembler EXCEPT ![a] = [at |-> "build", gen |-> 0]]
  /\ UNCHANGED <<overdue, inbox, page, artifact, store, ingester, renderer, collector, admission,
                 reconciler, sent>>

\* buildSiteArchives reads the bundle of every page that succeeded; the parts are
\* uploaded under the staging prefix, which the bucket empties by itself.
BuildArchives(a) ==
  /\ assembler[a].at = "build"
  /\ \A p \in In("SUCCEEDED") : Bundle(p, page[p].gen) \in store
  /\ assembler' = [assembler EXCEPT ![a].at = "stage"]
  /\ UNCHANGED <<overdue, inbox, rows, store, ingester, renderer, collector, admission, reconciler,
                 sent>>

\* The lease condition of addTargets, stageArtifacts and publishArtifacts.
HoldsLiveAssembly(a) == JobFree /\ HoldsPhase(a, "ASSEMBLING") /\ ~job.lapsed

StagedGenerations == {g \in 1 .. MaxStaged : \E k \in Parts : artifact[<<g, k>>].state # "NONE"}

\* stageArtifacts registers the final objects before any of them exists.
StageArtifacts(a) ==
  /\ assembler[a].at = "stage" /\ HoldsLiveAssembly(a)
  /\ Cardinality(StagedGenerations) < MaxStaged
  /\ LET g == Cardinality(StagedGenerations) + 1
     IN  /\ artifact' = [o \in Finals |-> IF o[1] = g THEN [state |-> "STAGED", due |-> FALSE]
                                          ELSE artifact[o]]
         /\ \E next \in {"copy", "fail"} :
              assembler' = [assembler EXCEPT ![a] = [at |-> next, gen |-> g]]
  /\ UNCHANGED <<job, overdue, inbox, page, store, ingester, renderer, collector, admission,
                 reconciler, sent>>

\* storage.copy of one part after the other to its final key.
CopyArtifact(a) ==
  /\ assembler[a].at = "copy"
  /\ \E k \in Parts : LET o == Final(<<assembler[a].gen, k>>)
                      IN  o \notin store /\ store' = store \cup {o}
  /\ UNCHANGED <<overdue, inbox, rows, loops, sent>>

\* For mutation only: the rows are published as soon as one part is in place.
CopiedPartly(a) == \E k \in Parts : Final(<<assembler[a].gen, k>>) \in store

\* storage.verify of every copy.
Copied(a) == \A k \in Parts : Final(<<assembler[a].gen, k>>) \in store

\* The status a published clone gets.
Outcome == IF job.failed > 0 \/ \E p \in In("CANCELLED") : ~page[p].rejected
           THEN "PARTIAL" ELSE "PUBLISHED"

\* publishArtifacts. Its first transaction checks the rows again and changes
\* nothing. The worker may see the COMMIT fail.
PublishArtifacts(a) ==
  /\ assembler[a].at = "copy" /\ Copied(a) /\ HoldsLiveAssembly(a)
  /\ \A k \in Parts : artifact[<<assembler[a].gen, k>>].state = "STAGED"
  /\ artifact' = [o \in Finals |-> IF o[1] = assembler[a].gen THEN [state |-> "PUBLISHED", due |-> FALSE]
                                   ELSE artifact[o]]
  /\ job' = [job EXCEPT !.status = Outcome, !.owner = None, !.lapsed = FALSE]
  /\ sent' = Append(sent, Outcome)
  /\ \E next \in {"idle", "fail"} : assembler' = [assembler EXCEPT ![a] = [at |-> next, gen |-> IF next = "idle" THEN 0 ELSE @.gen]]
  /\ UNCHANGED <<overdue, inbox, page, store, ingester, renderer, collector, admission, reconciler>>

\* A step of assemble throws: a bundle is missing, a budget exceeded, an upload
\* or copy fails, the lease is gone.
AssemblyThrows(a) ==
  /\ assembler[a].at \in {"build", "stage", "copy"}
  /\ assembler' = [assembler EXCEPT ![a].at = "fail"]
  /\ UNCHANGED <<overdue, inbox, rows, store, ingester, renderer, collector, admission, reconciler,
                 sent>>

RetryAssembly(a) ==
  /\ assembler[a].at = "fail"
  /\ RetryPhase(a, "ASSEMBLING", assembler[a].gen)
  /\ assembler' = [assembler EXCEPT ![a] = [at |-> "idle", gen |-> 0]]
  /\ UNCHANGED <<overdue, inbox, page, store, ingester, renderer, collector, admission, reconciler>>

-----------------------------------------------------------------------------
(* Cancellation and the deadline: reconcileCancellations *)

\* A page that waits when its job is cancelled.
CancelledPage(p) == IF page[p].status = "QUEUED" THEN [page[p] EXCEPT !.status = "CANCELLED"]
                    ELSE page[p]

\* Its first two statements: an overdue job is marked, which the others see only
\* at the COMMIT, and the waiting pages of a cancelled job are cancelled.
OpenReconciliation(c) ==
  LET marked == overdue /\ job.status \in Active
  IN  /\ reconciler[c].at = "idle" /\ JobFree
      /\ marked \/ job.status = "CANCEL_REQUESTED"
      /\ reconciler' = [reconciler EXCEPT ![c] = [at |-> "open", marked |-> marked]]
      /\ page' = [p \in Pages |-> CancelledPage(p)]
      /\ UNCHANGED <<job, overdue, inbox, artifact, store, ingester, renderer, assembler, collector,
                     admission, sent>>

\* The job is still to be cancelled when the third statement looks.
Asked(c) == reconciler[c].marked \/ job.status = "CANCEL_REQUESTED"

\* The others: when no page is rendered the counters are refreshed and the job
\* goes on to assemble what succeeded, or ends.
CloseReconciliation(c) ==
  LET marked == reconciler[c].marked
      good == Count("SUCCEEDED")
      late == marked \/ job.late
      end == IF late THEN "FAILED" ELSE "CANCELLED"
      row == [job EXCEPT !.owner = None, !.lapsed = FALSE, !.late = late]
  IN  /\ reconciler[c].at = "open"
      /\ marked \/ JobFree
      /\ IF Asked(c) /\ In("RENDERING") = {}
         THEN /\ job' = [row EXCEPT !.status = IF good > 0 THEN "RUNNING" ELSE end, !.attempts = 0,
                                    !.succeeded = good, !.failed = Count("FAILED")]
              /\ sent' = IF good > 0 THEN sent ELSE Append(sent, end)
         ELSE /\ job' = IF marked THEN [row EXCEPT !.status = "CANCEL_REQUESTED"] ELSE job
              /\ sent' = sent
      /\ reconciler' = [reconciler EXCEPT ![c] = [at |-> "idle", marked |-> FALSE]]
      /\ UNCHANGED <<overdue, inbox, page, artifact, store, ingester, renderer, assembler, collector,
                     admission>>

-----------------------------------------------------------------------------
(* Garbage collection: garbageCollectionLoop *)

\* Time passes delete_after. Nobody takes a day from staging to publishing, so
\* the rows an assembly is working on do not come due.
ArtifactAges(o) ==
  /\ artifact[o].state \in {"STAGED", "PUBLISHED", "DELETE_PENDING"} /\ ~artifact[o].due
  /\ \A a \in Assemblers : assembler[a].at \in {"copy", "fail"} => assembler[a].gen # o[1]
  /\ artifact' = [artifact EXCEPT ![o].due = TRUE]
  /\ UNCHANGED <<job, overdue, inbox, page, store, loops, sent>>

BundleAges(p) ==
  /\ page[p].bundle = "DELETE_PENDING" /\ ~page[p].due
  /\ page' = [page EXCEPT ![p].due = TRUE]
  /\ UNCHANGED <<job, overdue, inbox, artifact, store, loops, sent>>

DueArtifacts == {o \in Finals : artifact[o].due /\ artifact[o].state # "DELETED"}

\* For mutation only: the bundles of a failed job are forgotten.
DueBundlesOfPublished ==
  {p \in Pages : /\ job.status \in {"PUBLISHED", "PARTIAL", "EXPIRED"} /\ page[p].due
                 /\ page[p].bundle \in {"AVAILABLE", "DELETE_PENDING"}}

\* Bundles only of jobs that have ended.
DueBundles == {p \in Pages : /\ job.status \in Ended /\ page[p].due
                             /\ page[p].bundle \in {"AVAILABLE", "DELETE_PENDING"}}

\* claimObjectForDeletion: artifacts first, then bundles.
ClaimArtifact(k, o) ==
  /\ collector[k].at = "idle" /\ o \in DueArtifacts
  /\ artifact' = [artifact EXCEPT ![o] =
       [state |-> IF @.state = "STAGED" THEN "STAGED" ELSE "DELETE_PENDING", due |-> FALSE]]
  /\ collector' = [collector EXCEPT ![k] =
       [at |-> "delete", kind |-> "artifact", id |-> o, object |-> Final(o), last |-> FALSE]]
  /\ UNCHANGED <<job, overdue, inbox, page, store, ingester, renderer, assembler, admission,
                 reconciler, sent>>

ClaimBundle(k, p) ==
  /\ collector[k].at = "idle" /\ DueArtifacts = {} /\ p \in DueBundles
  /\ page' = [page EXCEPT ![p].bundle = "DELETE_PENDING", ![p].due = FALSE]
  /\ collector' = [collector EXCEPT ![k] =
       [at |-> "delete", kind |-> "bundle", id |-> <<p>>, object |-> Bundle(p, page[p].gen), last |-> FALSE]]
  /\ UNCHANGED <<job, overdue, inbox, artifact, store, ingester, renderer, assembler, admission,
                 reconciler, sent>>

DeleteObject(k) ==
  /\ collector[k].at = "delete"
  /\ store' = store \ {collector[k].object}
  /\ collector' = [collector EXCEPT ![k].at = "complete"]
  /\ UNCHANGED <<overdue, inbox, rows, ingester, renderer, assembler, admission, reconciler, sent>>

\* completeObjectDeletion of a bundle.
CompleteBundle(k) ==
  /\ collector[k].at = "complete" /\ collector[k].kind = "bundle"
  /\ page[collector[k].id[1]].bundle = "DELETE_PENDING"
  /\ page' = [page EXCEPT ![collector[k].id[1]].bundle = "DELETED", ![collector[k].id[1]].due = FALSE]
  /\ collector' = [collector EXCEPT ![k] = NoTarget]
  /\ UNCHANGED <<job, overdue, inbox, artifact, store, ingester, renderer, assembler, admission,
                 reconciler, sent>>

\* completeObjectDeletion of an artifact: the row is locked and the artifacts that
\* remain are looked for.
OpenCompletion(k) ==
  LET o == collector[k].id
  IN  /\ collector[k].at = "complete" /\ collector[k].kind = "artifact"
      /\ artifact[o].state \in {"STAGED", "DELETE_PENDING"}
      /\ \A l \in Collectors : collector[l].at = "expire" => collector[l].id # o
      /\ collector' = [collector EXCEPT ![k].at = "expire",
           ![k].last = \A q \in Finals \ {o} : artifact[q].state \notin {"PUBLISHED", "DELETE_PENDING"}]
      /\ UNCHANGED <<overdue, inbox, rows, store, ingester, renderer, assembler, admission, reconciler,
                     sent>>

\* Its COMMIT: the artifact is deleted, and the job expires if nothing remained.
CloseCompletion(k) ==
  LET expires == collector[k].last /\ job.status \in {"PUBLISHED", "PARTIAL"}
  IN  /\ collector[k].at = "expire"
      /\ collector[k].last => JobFree
      /\ artifact' = [artifact EXCEPT ![collector[k].id] = [state |-> "DELETED", due |-> FALSE]]
      /\ job' = IF expires THEN [job EXCEPT !.status = "EXPIRED"] ELSE job
      /\ sent' = IF expires THEN Append(sent, "EXPIRED") ELSE sent
      /\ collector' = [collector EXCEPT ![k] = NoTarget]
      /\ UNCHANGED <<overdue, inbox, page, store, ingester, renderer, assembler, admission, reconciler>>

\* The store or a statement fails, or another collector was faster:
\* retryObjectDeletion gives the object another minute.
RetryDeletion(k) ==
  /\ collector[k].at \in {"delete", "complete"}
  /\ collector' = [collector EXCEPT ![k] = NoTarget]
  /\ artifact' = [o \in Finals |->
       IF o = collector[k].id /\ artifact[o].state \in {"STAGED", "DELETE_PENDING"}
       THEN [artifact[o] EXCEPT !.due = FALSE] ELSE artifact[o]]
  /\ page' = [p \in Pages |->
       IF <<p>> = collector[k].id /\ page[p].bundle = "DELETE_PENDING"
       THEN [page[p] EXCEPT !.due = FALSE] ELSE page[p]]
  /\ UNCHANGED <<job, overdue, inbox, store, ingester, renderer, assembler, admission, reconciler, sent>>

-----------------------------------------------------------------------------
\* The process of a loop dies: its memory is gone, an open transaction rolls
\* back, its leases lapse.
IngesterCrashes(i) ==
  /\ i \in Mortal /\ ingester[i].at # "idle"
  /\ ingester' = [ingester EXCEPT ![i] = [at |-> "idle", todo |-> {}, chosen |-> {}]]
  /\ UNCHANGED <<overdue, inbox, rows, store, renderer, assembler, collector, admission, reconciler, sent>>

RendererCrashes(r) ==
  /\ r \in Mortal /\ renderer[r].at # "idle"
  /\ renderer' = [renderer EXCEPT ![r] = Nothing]
  /\ UNCHANGED <<overdue, inbox, rows, store, ingester, assembler, collector, admission, reconciler, sent>>

AssemblerCrashes(a) ==
  /\ a \in Mortal /\ assembler[a].at # "idle"
  /\ assembler' = [assembler EXCEPT ![a] = [at |-> "idle", gen |-> 0]]
  /\ UNCHANGED <<overdue, inbox, rows, store, ingester, renderer, collector, admission, reconciler, sent>>

CollectorCrashes(k) ==
  /\ k \in Mortal /\ collector[k].at # "idle"
  /\ collector' = [collector EXCEPT ![k] = NoTarget]
  /\ UNCHANGED <<overdue, inbox, rows, store, ingester, renderer, assembler, admission, reconciler, sent>>

Next ==
  \/ AcceptRequested \/ AcceptCancellation \/ BecomesOverdue \/ PhaseLapses
  \/ \E p \in Pages : PageLapses(p) \/ BundleAges(p)
  \/ \E o \in Finals : ArtifactAges(o)
  \/ \E i \in Ingesters : \/ ExtendPhaseLease(i) \/ ClaimIngestion(i) \/ ListTargets(i) \/ AddTargets(i)
                          \/ FinishIngestion(i) \/ IngestionFails(i) \/ IngesterCrashes(i)
  \/ \E r \in Renderers : \/ OpenAdmission(r) \/ CloseAdmission(r) \/ ClaimPage(r) \/ ExtendPageLease(r)
                          \/ RenderPage(r) \/ RenderFails(r) \/ CompletePage(r) \/ CompletePageFails(r)
                          \/ DiscardBundle(r) \/ FailPage(r) \/ RendererCrashes(r)
  \/ \E a \in Assemblers : \/ ExtendPhaseLease(a) \/ FinalizeEmptyJob(a) \/ ClaimAssembly(a)
                           \/ BuildArchives(a) \/ StageArtifacts(a) \/ CopyArtifact(a)
                           \/ PublishArtifacts(a) \/ AssemblyThrows(a) \/ RetryAssembly(a)
                           \/ AssemblerCrashes(a)
  \/ \E c \in Reconcilers : OpenReconciliation(c) \/ CloseReconciliation(c)
  \/ \E k \in Collectors : \/ \E o \in Finals : ClaimArtifact(k, o)
                           \/ \E p \in Pages : ClaimBundle(k, p)
                           \/ DeleteObject(k) \/ CompleteBundle(k) \/ OpenCompletion(k)
                           \/ CloseCompletion(k) \/ RetryDeletion(k) \/ CollectorCrashes(k)

Spec == Init /\ [][Next]_vars

\* The loops run for as long as their processes do, and time passes. Errors and
\* crashes are never required; a step of an assembly or a deletion that is
\* possible again and again is taken at last. ListTargets, StageArtifacts and the
\* like are tried again by the retries the code makes.
Fairness ==
  /\ WF_vars(PhaseLapses)
  /\ \A p \in Pages : WF_vars(PageLapses(p)) /\ WF_vars(BundleAges(p))
  /\ \A o \in Finals : WF_vars(ArtifactAges(o))
  /\ \A i \in Ingesters : WF_vars(ClaimIngestion(i) \/ ListTargets(i) \/ AddTargets(i)
                                  \/ FinishIngestion(i) \/ IngestionFails(i))
  /\ \A r \in Renderers : WF_vars(OpenAdmission(r) \/ CloseAdmission(r) \/ ClaimPage(r)
                                  \/ RenderPage(r) \/ RenderFails(r) \/ CompletePage(r)
                                  \/ CompletePageFails(r) \/ DiscardBundle(r) \/ FailPage(r))
  /\ \A a \in Assemblers :
       /\ WF_vars(FinalizeEmptyJob(a) \/ AssemblyThrows(a) \/ RetryAssembly(a))
       /\ SF_vars(ClaimAssembly(a)) /\ SF_vars(BuildArchives(a))
       /\ SF_vars(StageArtifacts(a) \/ CopyArtifact(a) \/ PublishArtifacts(a))
  /\ \A c \in Reconcilers : WF_vars(OpenReconciliation(c) \/ CloseReconciliation(c))
  /\ \A k \in Collectors :
       /\ WF_vars(\E o \in Finals : ClaimArtifact(k, o)) /\ WF_vars(\E p \in Pages : ClaimBundle(k, p))
       /\ \A kind \in {"artifact", "bundle"} : SF_vars(collector[k].kind = kind /\ DeleteObject(k))
       /\ SF_vars(CompleteBundle(k)) /\ SF_vars(OpenCompletion(k)) /\ SF_vars(CloseCompletion(k))

FairSpec == Spec /\ Fairness

-----------------------------------------------------------------------------
(* Properties *)

\* The tables, the bucket and the loops' memories hold values of their types.
TypeOK ==
  /\ job \in Job /\ overdue \in BOOLEAN /\ inbox \in BOOLEAN
  /\ page \in [Pages -> PageRow] /\ artifact \in [Finals -> ArtifactRow]
  /\ store \subseteq Stored
  /\ ingester \in [Ingesters -> [at : {"idle", "list", "add"}, todo : SUBSET Pages, chosen : SUBSET Pages]]
  /\ renderer \in [Renderers -> [at : {"idle", "render", "complete", "discard", "fail"},
                                 p : Pages \cup {None}, gen : 0 .. MaxRetries]]
  /\ assembler \in [Assemblers -> [at : {"idle", "build", "stage", "copy", "fail"}, gen : 0 .. MaxStaged]]
  /\ \A k \in Collectors : collector[k].at \in {"idle", "delete", "complete", "expire"}
  /\ admission.by \in Renderers \cup {None} /\ admission.pages \subseteq Pages
  /\ reconciler \in [Reconcilers -> [at : {"idle", "open"}, marked : BOOLEAN]]
  /\ \A n \in 1 .. Len(sent) : sent[n] \in Ended

\* No more pages are rendered at once than page_concurrency allows, whoever
\* claims, reclaims, completes or dies in between (the admission lock of claimPage).
ConcurrencyBounded == Count("RENDERING") <= PageConcurrency

\* An archive is assembled only when the frontier is closed and it stays closed:
\* what listBundles, listPageOutcomes and listRoutes read cannot change any more.
\* No page is rendered once the job has ended, so the event of its end is the
\* newest one but for EXPIRED.
AssemblyIsQuiet ==
  /\ job.status = "ASSEMBLING" => Frontier = {}
  /\ job.status \in Ended => In("RENDERING") = {}

\* The bundle of every page that succeeded is in the bucket until the job has
\* ended, so a retried assembly finds it again; the attempt that stored it is the
\* one whose outcome counts.
BundlesStay ==
  \A p \in In("SUCCEEDED") :
    /\ job.status \notin Ended => page[p].bundle = "AVAILABLE"
    /\ page[p].bundle = "AVAILABLE" => Bundle(p, page[p].gen) \in store

\* A published artifact is in the bucket, and a final object in the bucket has a
\* row by which the collector will find it: registered before it is copied, and
\* not forgotten before it is deleted (the comment in assemble).
FinalsAccountedFor ==
  \A o \in Finals :
    /\ artifact[o].state = "PUBLISHED" => Final(o) \in store
    /\ Final(o) \in store => artifact[o].state \notin {"NONE", "DELETED"}

\* The counters of the job never claim more than the pages table shows, so a
\* job that publishes has a page to publish.
CountersNotAhead ==
  /\ job.succeeded <= Count("SUCCEEDED") /\ job.failed <= Count("FAILED")
  /\ job.status \in {"ASSEMBLING", "PUBLISHED", "PARTIAL"} => In("SUCCEEDED") # {}

\* One terminal event is sent for a job, and EXPIRED at most after a publication;
\* the last of them is the status of the job.
EndsOnce ==
  /\ Len(sent) <= 2
  /\ Len(sent) = 2 => sent[1] \in {"PUBLISHED", "PARTIAL"} /\ sent[2] = "EXPIRED"
  /\ job.status \in Ended <=> Len(sent) > 0
  /\ Len(sent) > 0 => job.status = sent[Len(sent)]

\* The frontier's books: no more pages are rendered at once than page_concurrency
\* allows, an archive is assembled only over a closed frontier and no page is
\* rendered for a job that has ended, the counters never claim more than the pages
\* show, and one terminal event is sent, EXPIRED at most after a publication.
FrontierConsistent ==
  TypeOK /\ ConcurrencyBounded /\ AssemblyIsQuiet /\ CountersNotAhead /\ EndsOnce

\* The bundle of every page that succeeded is in the bucket until the job ends, a
\* published artifact is in the bucket, and a final object there has a row by
\* which the collector finds it.
StoredIsKept == BundlesStay /\ FinalsAccountedFor

\* What the Control Plane is promised about the status of the job.
Lifecycle == INSTANCE SiteLifecycle WITH status <- job.status

\* The transactions of the loops implement SiteLifecycle.
RefinesLifecycle == Lifecycle!Spec

\* Every accepted job without a deadline ends, cancelled or not.
JobEnds == job.status # "NONE" ~> job.status \in Ended

\* The reconciliation of the deadline takes an assembly back.
AssemblyInterrupted == job.status = "ASSEMBLING" /\ job'.status \in {"RUNNING", "CANCEL_REQUESTED"}

\* An overdue job ends too, unless its assembly is taken back again and again.
EndsUnlessInterrupted == []<><<AssemblyInterrupted>>_vars \/ JobEnds

\* Once a job has ended every bundle and artifact that has a row is deleted.
RowsAreCollected ==
  /\ \A p \in Pages : job.status \in Ended /\ page[p].bundle # "NONE" ~> page[p].bundle = "DELETED"
  /\ \A o \in Finals : artifact[o].state # "NONE" ~> artifact[o].state = "DELETED" /\ Final(o) \notin store

=============================================================================
