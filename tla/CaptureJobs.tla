---------------------------- MODULE CaptureJobs ----------------------------
(***************************************************************************)
(* The capture worker: jobs claimed under leases, the objects an attempt   *)
(* uploads, the static clone it stages and publishes, the collector that   *)
(* deletes clone artifacts, and the analytics that complete a capture.     *)
(*                                                                         *)
(* Code: capture-worker/src/database.ts, index.ts, storage.ts, analytics.ts.*)
(*                                                                         *)
(* attempt_count and lease_generation start at 0 and grow together, in     *)
(* claimJob alone, so `gen` stands for both, and with the owner a          *)
(* generation belongs to, naming the generation names the owner. Backoff   *)
(* and polling only delay a claim: a claim may find nothing. A statement   *)
(* that fails rolls back; a COMMIT that fails may have taken effect. DEAD  *)
(* outbox rows are claimed again like PENDING ones and are not told apart. *)
(***************************************************************************)
EXTENDS Naturals, Sequences

CONSTANTS
  Captures,      \* capture requests
  Workers,       \* job loops (config.concurrency of them in each process)
  Collectors,    \* reconstructionGcLoop instances, one per process
  Deliverers,    \* analyticsLoop instances, one per process
  None,          \* no capture, no lease owner
  MaxAttempts    \* how often a job is claimed before it is given up (3 in the code)

ASSUME MaxAttemptsAssumption == MaxAttempts \in Nat \ {0}

VARIABLES
  job,        \* capture_jobs: status, lease generation, whether the lease lapsed
  recon,      \* reconstruction_jobs: status and source_lease_generation
  artifact,   \* reconstruction_artifacts: state and how far delete_after is
  store,      \* the objects in the bucket
  worker,     \* what each job loop holds in memory
  collector,  \* the artifact each garbage collector is deleting
  outbox,     \* analytics_outbox: status and lease
  tables,     \* ClickHouse tables that hold the rows of a capture
  deliverer,  \* what each analytics loop holds in memory
  sent        \* event_outbox: statuses of the events of each capture, in order

vars == <<job, recon, artifact, store, worker, collector, outbox, tables,
          deliverer, sent>>

Generations == 1 .. MaxAttempts
Kinds == {"STATIC_ARCHIVE", "MANIFEST"}

\* An object is named after the capture, the lease generation and its role;
\* PAGE stands for the rendered HTML, the screenshot and the resources.
CloneObjects == Captures \X Generations \X Kinds
Objects == Captures \X Generations \X (Kinds \cup {"PAGE"})
CloneOf(c, g) == {<<c, g, k>> : k \in Kinds}

\* delete_after lies more than five minutes ahead, less, or has passed.
Deadlines == {"far", "near", "due"}

Tables == {"rendered_page_metrics", "network_requests", "captured_resources",
           "ingestion_receipts"}

\* The steps of write, in order: the receipt is looked up first and inserted
\* last, then the row is acknowledged.
After == [lookup |-> "rendered_page_metrics", rendered_page_metrics |-> "network_requests",
          network_requests |-> "captured_resources",
          captured_resources |-> "ingestion_receipts", ingestion_receipts |-> "ack"]

Job == [status : {"NONE", "QUEUED", "RENDERING", "PERSISTING", "COMPLETED", "FAILED"},
        gen : 0 .. MaxAttempts, lapsed : BOOLEAN]
Recon == [status : {"NONE", "QUEUED", "RUNNING", "PUBLISHED", "PARTIAL", "FAILED", "EXPIRED"},
          gen : 0 .. MaxAttempts]
Artifact == [state : {"NONE", "STAGED", "PUBLISHED", "DELETE_PENDING", "DELETED"},
             due : Deadlines]
Outbox == [status : {"NONE", "PENDING", "CLAIMED", "DELIVERED"},
           owner : Deliverers \cup {None}, lapsed : BOOLEAN]

\* A job loop: the step it is at, the capture and generation it claimed, how
\* the static clone turned out and whether its objects are staged.
Builds == {"PUBLISHED", "PARTIAL", "FAILED"}
Task == [at : {"idle", "render", "page", "clone", "stage", "result", "fail"},
         c : Captures \cup {None}, gen : 0 .. MaxAttempts, build : Builds]
Idle == [at |-> "idle", c |-> None, gen |-> 0, build |-> "FAILED"]

Deletion == [at : {"idle", "delete", "complete", "retry"}, o : CloneObjects \cup {None}]
NoDeletion == [at |-> "idle", o |-> None]

Delivery == [at : {"idle", "lookup", "ack"} \cup Tables, c : Captures \cup {None}]
NoDelivery == [at |-> "idle", c |-> None]

Init ==
  /\ job = [c \in Captures |-> [status |-> "NONE", gen |-> 0, lapsed |-> FALSE]]
  /\ recon = [c \in Captures |-> [status |-> "NONE", gen |-> 0]]
  /\ artifact = [o \in CloneObjects |-> [state |-> "NONE", due |-> "far"]]
  /\ store = {}
  /\ worker = [w \in Workers |-> Idle]
  /\ collector = [k \in Collectors |-> NoDeletion]
  /\ outbox = [c \in Captures |-> [status |-> "NONE", owner |-> None, lapsed |-> FALSE]]
  /\ tables = [c \in Captures |-> {}]
  /\ deliverer = [d \in Deliverers |-> NoDelivery]
  /\ sent = [c \in Captures |-> << >>]

-----------------------------------------------------------------------------
(* Commands and claims *)

\* acceptCommand: a job and its reconstruction in one transaction; a message
\* that was accepted before changes nothing.
AcceptCommand(c) ==
  /\ job[c].status = "NONE"
  /\ job' = [job EXCEPT ![c] = [status |-> "QUEUED", gen |-> 0, lapsed |-> FALSE]]
  /\ recon' = [recon EXCEPT ![c] = [status |-> "QUEUED", gen |-> 0]]
  /\ UNCHANGED <<artifact, store, worker, collector, outbox, tables, deliverer, sent>>

\* Time passes a job's lease_expires_at.
LeaseLapses(c) ==
  /\ job[c].status = "RENDERING" /\ ~job[c].lapsed
  /\ job' = [job EXCEPT ![c] = [status |-> "RENDERING", gen |-> job[c].gen, lapsed |-> TRUE]]
  /\ UNCHANGED <<recon, artifact, store, worker, collector, outbox, tables, deliverer, sent>>

\* For mutation only: the limit is checked as if attempts were counted from 0.
ExhaustedTooLate == {c \in Captures : job[c].status = "RENDERING" /\ job[c].lapsed
                                       /\ job[c].gen > MaxAttempts}
\* The lapsed jobs claimJob fails for good and those it queues again.
Exhausted == {c \in Captures : job[c].status = "RENDERING" /\ job[c].lapsed
                                /\ job[c].gen >= MaxAttempts}
Reclaimed == {c \in Captures : job[c].status = "RENDERING" /\ job[c].lapsed
                                /\ job[c].gen < MaxAttempts}

\* The jobs of which it takes one.
Claimable == Reclaimed \cup {c \in Captures : job[c].status = "QUEUED" /\ job[c].gen < MaxAttempts}

\* The row of a job that is claimed.
ClaimOf(c) == [status |-> "RENDERING", gen |-> job[c].gen + 1, lapsed |-> FALSE]

Open == {"QUEUED", "RUNNING"}

\* reconstruction_jobs after a claim of the captures in picked (one or none).
ReconAfterClaim(picked) ==
  [c \in Captures |->
     IF c \in Exhausted /\ recon[c].status \in Open
     THEN [status |-> "FAILED", gen |-> recon[c].gen]
     ELSE IF c \in picked /\ recon[c].status \in Open
     THEN [status |-> "RUNNING", gen |-> job[c].gen + 1]
     ELSE recon[c]]

\* claimJob: one transaction fails the exhausted jobs, queues the other lapsed
\* ones and claims at most one job.
ClaimJob(w) ==
  /\ worker[w].at = "idle"
  /\ \E picked \in {{}} \cup {{c} : c \in Claimable} :
       /\ picked # {} \/ Exhausted # {} \/ Reclaimed # {}
       /\ job' = [c \in Captures |->
                    IF c \in Exhausted THEN [status |-> "FAILED", gen |-> job[c].gen, lapsed |-> FALSE]
                    ELSE IF c \in picked THEN ClaimOf(c)
                    ELSE IF c \in Reclaimed THEN [status |-> "QUEUED", gen |-> job[c].gen, lapsed |-> FALSE]
                    ELSE job[c]]
       /\ recon' = ReconAfterClaim(picked)
       /\ sent' = [c \in Captures |->
                     IF c \in Exhausted THEN Append(sent[c], "FAILED")
                     ELSE IF c \in picked THEN Append(sent[c], "RUNNING")
                     ELSE sent[c]]
       /\ worker' = [worker EXCEPT ![w] =
                       IF picked = {} THEN Idle
                       ELSE LET c == CHOOSE x \in picked : TRUE
                            IN  [at |-> "render", c |-> c, gen |-> ClaimOf(c).gen, build |-> "FAILED"]]
  /\ UNCHANGED <<artifact, store, collector, outbox, tables, deliverer>>

-----------------------------------------------------------------------------
(* One attempt: jobLoop *)

\* For mutation only: the generation alone is compared.
HoldsGeneration(w) == job[worker[w].c].gen = worker[w].gen

\* The lease check of extendLease, stageReconstructionArtifacts, stageResult
\* and failJob. None of them looks at lease_expires_at.
HoldsLease(w) ==
  /\ job[worker[w].c].status = "RENDERING"
  /\ job[worker[w].c].gen = worker[w].gen

Busy(w) == worker[w].at # "idle"
Goes(w, step) == worker' = [worker EXCEPT ![w] =
                    [at |-> step, c |-> worker[w].c, gen |-> worker[w].gen, build |-> worker[w].build]]
Renewed(w) == job' = [job EXCEPT ![worker[w].c] =
                 [status |-> "RENDERING", gen |-> worker[w].gen, lapsed |-> FALSE]]

\* The heartbeat of an attempt. One that finds the lease gone only sets
\* leaseLost, and a lease that is gone never comes back, so the flag says no
\* more than the check of RenderDone.
Heartbeat(w) ==
  /\ Busy(w) /\ HoldsLease(w) /\ job[worker[w].c].lapsed
  /\ Renewed(w)
  /\ UNCHANGED <<recon, artifact, store, worker, collector, outbox, tables, deliverer, sent>>

\* capturePage returned: the lease is renewed before anything is uploaded.
RenderDone(w) ==
  /\ worker[w].at = "render" /\ HoldsLease(w)
  /\ Renewed(w)
  /\ \E build \in Builds : worker' = [worker EXCEPT ![w] =
       [at |-> "page", c |-> worker[w].c, gen |-> worker[w].gen, build |-> build]]
  /\ UNCHANGED <<recon, artifact, store, collector, outbox, tables, deliverer, sent>>

\* Any awaited call of the attempt throws: the page cannot be captured, the
\* lease is gone, an upload or a statement fails.
AttemptFails(w) ==
  /\ worker[w].at \in {"render", "page", "result"}
  /\ Goes(w, "fail")
  /\ UNCHANGED <<job, recon, artifact, store, collector, outbox, tables, deliverer, sent>>

\* storage.put of the HTML, the screenshot and the resources.
UploadPage(w) ==
  /\ worker[w].at = "page"
  /\ store' = store \cup {<<worker[w].c, worker[w].gen, "PAGE">>}
  /\ Goes(w, IF worker[w].build = "FAILED" THEN "result" ELSE "clone")
  /\ UNCHANGED <<job, recon, artifact, collector, outbox, tables, deliverer, sent>>

\* storage.putFile of the archive, then storage.put of the manifest. Nothing
\* else touches the keys of this generation before they are staged.
UploadClone(w) ==
  /\ worker[w].at = "clone"
  /\ store' = store \cup CloneOf(worker[w].c, worker[w].gen)
  /\ Goes(w, "stage")
  /\ UNCHANGED <<job, recon, artifact, collector, outbox, tables, deliverer, sent>>

\* The capture goes on without its clone.
WithoutClone(w) ==
  worker' = [worker EXCEPT ![w] =
    [at |-> "result", c |-> worker[w].c, gen |-> worker[w].gen, build |-> "FAILED"]]

\* An upload of the clone fails: the archive, if it was uploaded, is deleted,
\* or stays when that fails too (Promise.allSettled).
UploadCloneFails(w) ==
  /\ worker[w].at = "clone"
  /\ \E left \in SUBSET {<<worker[w].c, worker[w].gen, "STATIC_ARCHIVE">>} :
       store' = store \cup left
  /\ WithoutClone(w)
  /\ UNCHANGED <<job, recon, artifact, collector, outbox, tables, deliverer, sent>>

\* The two rows stageReconstructionArtifacts inserts.
Staged(c, g) == [o \in CloneObjects |->
                   IF o \in CloneOf(c, g) THEN [state |-> "STAGED", due |-> "far"] ELSE artifact[o]]

ReconRuns(w) == recon[worker[w].c] = [status |-> "RUNNING", gen |-> worker[w].gen]

\* stageReconstructionArtifacts commits; the worker may see its COMMIT fail.
StageArtifacts(w) ==
  /\ worker[w].at = "stage" /\ HoldsLease(w) /\ ReconRuns(w)
  /\ artifact' = Staged(worker[w].c, worker[w].gen)
  /\ Goes(w, "result") \/ WithoutClone(w)
  /\ UNCHANGED <<job, recon, store, collector, outbox, tables, deliverer, sent>>

\* It rolls back. The uploaded objects stay: the worker cannot know that no
\* row names them.
StageArtifactsFails(w) ==
  /\ worker[w].at = "stage"
  /\ WithoutClone(w)
  /\ UNCHANGED <<job, recon, artifact, store, collector, outbox, tables, deliverer, sent>>

\* For mutation only: a staged artifact counts until the moment it is due.
PublishableUntilDue(c, g) ==
  \A o \in CloneOf(c, g) : artifact[o].state = "STAGED" /\ artifact[o].due # "due"

\* Both artifacts are staged with more than five minutes left.
Publishable(c, g) ==
  \A o \in CloneOf(c, g) : artifact[o].state = "STAGED" /\ artifact[o].due = "far"

\* The artifact rows once the staged ones of generation g are published.
Published(c, g) ==
  [o \in CloneObjects |-> IF o \in CloneOf(c, g) /\ artifact[o].state = "STAGED"
                          THEN [state |-> "PUBLISHED", due |-> "far"] ELSE artifact[o]]

\* stageResult publishes the clone or records that there is none, hands the
\* result to the analytics outbox and closes the lease.
StageResult(w) ==
  LET c == worker[w].c
      g == worker[w].gen
      publish == ReconRuns(w) /\ worker[w].build # "FAILED" /\ Publishable(c, g)
  IN  /\ worker[w].at = "result" /\ HoldsLease(w)
      /\ artifact' = IF publish THEN Published(c, g) ELSE artifact
      /\ recon' = IF ReconRuns(w)
                  THEN [recon EXCEPT ![c] =
                          [status |-> IF publish THEN worker[w].build ELSE "FAILED", gen |-> g]]
                  ELSE recon
      /\ outbox' = [outbox EXCEPT ![c] = [status |-> "PENDING", owner |-> None, lapsed |-> FALSE]]
      /\ job' = [job EXCEPT ![c] = [status |-> "PERSISTING", gen |-> g, lapsed |-> FALSE]]
      /\ sent' = [sent EXCEPT ![c] = Append(sent[c], "INDEXING")]
      /\ worker' = [worker EXCEPT ![w] = Idle] \/ Goes(w, "fail")
      /\ UNCHANGED <<store, collector, tables, deliverer>>

\* failJob: queue the job again or give it up; without the lease nothing.
FailJob(w) ==
  LET c == worker[w].c
  IN  /\ worker[w].at = "fail"
      /\ worker' = [worker EXCEPT ![w] = Idle]
      /\ IF ~HoldsLease(w)
         THEN UNCHANGED <<job, recon, sent>>
         ELSE IF job[c].gen < MaxAttempts
         THEN /\ job' = [job EXCEPT ![c] = [status |-> "QUEUED", gen |-> job[c].gen, lapsed |-> FALSE]]
              /\ UNCHANGED <<recon, sent>>
         ELSE /\ job' = [job EXCEPT ![c] = [status |-> "FAILED", gen |-> job[c].gen, lapsed |-> FALSE]]
              /\ recon' = IF recon[c].status \in Open
                          THEN [recon EXCEPT ![c] = [status |-> "FAILED", gen |-> recon[c].gen]]
                          ELSE recon
              /\ sent' = [sent EXCEPT ![c] = Append(sent[c], "FAILED")]
      /\ UNCHANGED <<artifact, store, collector, outbox, tables, deliverer>>

\* The process dies, or failJob cannot reach the database: what the loop held
\* in memory is gone and the lease is left to lapse.
WorkerCrashes(w) ==
  /\ Busy(w)
  /\ worker' = [worker EXCEPT ![w] = Idle]
  /\ UNCHANGED <<job, recon, artifact, store, collector, outbox, tables, deliverer, sent>>

-----------------------------------------------------------------------------
(* Garbage collection of clone artifacts: reconstructionGcLoop *)

\* Time brings delete_after closer.
ArtifactAges(o) ==
  /\ artifact[o].state \in {"STAGED", "PUBLISHED", "DELETE_PENDING"}
  /\ artifact[o].due # "due"
  /\ artifact' = [artifact EXCEPT ![o] =
       [state |-> artifact[o].state, due |-> IF artifact[o].due = "far" THEN "near" ELSE "due"]]
  /\ UNCHANGED <<job, recon, store, worker, collector, outbox, tables, deliverer, sent>>

Collectable(o) ==
  artifact[o].state \in {"STAGED", "PUBLISHED", "DELETE_PENDING"} /\ artifact[o].due = "due"

\* claimReconstructionArtifactForDeletion: delete_after moves 30 seconds ahead.
ClaimDeletion(k, o) ==
  /\ collector[k].at = "idle" /\ Collectable(o)
  /\ artifact' = [artifact EXCEPT ![o] =
       [state |-> IF artifact[o].state = "STAGED" THEN "STAGED" ELSE "DELETE_PENDING", due |-> "near"]]
  /\ collector' = [collector EXCEPT ![k] = [at |-> "delete", o |-> o]]
  /\ UNCHANGED <<job, recon, store, worker, outbox, tables, deliverer, sent>>

\* storage.delete, which is silent about an object that is already gone.
DeleteObject(k) ==
  /\ collector[k].at = "delete"
  /\ store' = store \ {collector[k].o}
  /\ collector' = [collector EXCEPT ![k] = [at |-> "complete", o |-> collector[k].o]]
  /\ UNCHANGED <<job, recon, artifact, worker, outbox, tables, deliverer, sent>>

Deletable(o) == artifact[o].state \in {"STAGED", "DELETE_PENDING"}

\* completeReconstructionArtifactDeletion: the artifact is gone and, with the
\* archive, the clone has expired. Nothing reads delete_after of a deleted row.
CompleteDeletion(k) ==
  LET o == collector[k].o
  IN  /\ collector[k].at = "complete" /\ Deletable(o)
      /\ artifact' = [artifact EXCEPT ![o] = [state |-> "DELETED", due |-> "due"]]
      /\ recon' = IF o[3] = "STATIC_ARCHIVE" /\ recon[o[1]].status \in {"PUBLISHED", "PARTIAL"}
                  THEN [recon EXCEPT ![o[1]] = [status |-> "EXPIRED", gen |-> recon[o[1]].gen]]
                  ELSE recon
      /\ collector' = [collector EXCEPT ![k] = NoDeletion]
      /\ UNCHANGED <<job, store, worker, outbox, tables, deliverer, sent>>

\* storage.delete fails, the claim was overtaken, or the statement failed.
DeletionFails(k) ==
  /\ collector[k].at \in {"delete", "complete"}
  /\ collector' = [collector EXCEPT ![k] = [at |-> "retry", o |-> collector[k].o]]
  /\ UNCHANGED <<job, recon, artifact, store, worker, outbox, tables, deliverer, sent>>

\* retryReconstructionArtifactDeletion: try again in a minute.
RetryDeletion(k) ==
  LET o == collector[k].o
  IN  /\ collector[k].at = "retry"
      /\ artifact' = IF Deletable(o)
                     THEN [artifact EXCEPT ![o] = [state |-> artifact[o].state, due |-> "near"]]
                     ELSE artifact
      /\ collector' = [collector EXCEPT ![k] = NoDeletion]
      /\ UNCHANGED <<job, recon, store, worker, outbox, tables, deliverer, sent>>

CollectorCrashes(k) ==
  /\ collector[k].at # "idle"
  /\ collector' = [collector EXCEPT ![k] = NoDeletion]
  /\ UNCHANGED <<job, recon, artifact, store, worker, outbox, tables, deliverer, sent>>

-----------------------------------------------------------------------------
(* Analytics: analyticsLoop and CaptureAnalytics.write *)

\* Time passes an outbox row's lease.
OutboxLapses(c) ==
  /\ outbox[c].status = "CLAIMED" /\ ~outbox[c].lapsed
  /\ outbox' = [outbox EXCEPT ![c] = [status |-> "CLAIMED", owner |-> outbox[c].owner, lapsed |-> TRUE]]
  /\ UNCHANGED <<job, recon, artifact, store, worker, collector, tables, deliverer, sent>>

\* claimAnalytics.
ClaimAnalytics(d, c) ==
  /\ deliverer[d].at = "idle"
  /\ outbox[c].status = "PENDING" \/ (outbox[c].status = "CLAIMED" /\ outbox[c].lapsed)
  /\ outbox' = [outbox EXCEPT ![c] = [status |-> "CLAIMED", owner |-> d, lapsed |-> FALSE]]
  /\ deliverer' = [deliverer EXCEPT ![d] = [at |-> "lookup", c |-> c]]
  /\ UNCHANGED <<job, recon, artifact, store, worker, collector, tables, sent>>

\* For mutation only: a table already written stands for the receipt.
AlreadyWrittenPartly(c) == tables[c] # {}

\* The receipt, written last, says that every other table has its rows.
AlreadyWritten(c) == "ingestion_receipts" \in tables[c]

\* write: one step. A capture without requests or resources skips their
\* insert, which would store no row.
WriteAnalytics(d) ==
  LET c == deliverer[d].c
      step == deliverer[d].at
  IN  /\ step \in DOMAIN After
      /\ tables' = IF step \in Tables THEN [tables EXCEPT ![c] = tables[c] \cup {step}] ELSE tables
      /\ deliverer' = [deliverer EXCEPT ![d] =
           [at |-> IF step = "lookup" /\ AlreadyWritten(c) THEN "ack" ELSE After[step], c |-> c]]
      /\ UNCHANGED <<job, recon, artifact, store, worker, collector, outbox, sent>>

\* completeAnalytics: the row is delivered and the capture completed together.
\* The loop goes idle, also after a failed COMMIT, when retryAnalytics finds
\* the row no longer claimed.
CompleteAnalytics(d) ==
  LET c == deliverer[d].c
  IN  /\ deliverer[d].at = "ack"
      /\ outbox[c].status = "CLAIMED" /\ outbox[c].owner = d
      /\ job[c].status = "PERSISTING"
      /\ outbox' = [outbox EXCEPT ![c] = [status |-> "DELIVERED", owner |-> None, lapsed |-> FALSE]]
      /\ job' = [job EXCEPT ![c] = [status |-> "COMPLETED", gen |-> job[c].gen, lapsed |-> FALSE]]
      /\ sent' = [sent EXCEPT ![c] = Append(sent[c], "COMPLETED")]
      /\ deliverer' = [deliverer EXCEPT ![d] = NoDelivery]
      /\ UNCHANGED <<recon, artifact, store, worker, collector, tables>>

\* write or completeAnalytics throws. An insert that fails may have stored its
\* rows. retryAnalytics releases the row if the loop still owns it.
RetryAnalytics(d) ==
  LET c == deliverer[d].c
      step == deliverer[d].at
  IN  /\ step # "idle"
      /\ \/ tables' = tables
         \/ step \in Tables /\ tables' = [tables EXCEPT ![c] = tables[c] \cup {step}]
      /\ outbox' = IF outbox[c].status = "CLAIMED" /\ outbox[c].owner = d
                   THEN [outbox EXCEPT ![c] = [status |-> "PENDING", owner |-> None, lapsed |-> FALSE]]
                   ELSE outbox
      /\ deliverer' = [deliverer EXCEPT ![d] = NoDelivery]
      /\ UNCHANGED <<job, recon, artifact, store, worker, collector, sent>>

DelivererCrashes(d) ==
  /\ deliverer[d].at # "idle"
  /\ deliverer' = [deliverer EXCEPT ![d] = NoDelivery]
  /\ UNCHANGED <<job, recon, artifact, store, worker, collector, outbox, tables, sent>>

-----------------------------------------------------------------------------
Next ==
  \/ \E c \in Captures : AcceptCommand(c) \/ LeaseLapses(c) \/ OutboxLapses(c)
  \/ \E w \in Workers :
       \/ ClaimJob(w) \/ Heartbeat(w) \/ RenderDone(w) \/ AttemptFails(w)
       \/ UploadPage(w) \/ UploadClone(w) \/ UploadCloneFails(w)
       \/ StageArtifacts(w) \/ StageArtifactsFails(w) \/ StageResult(w)
       \/ FailJob(w) \/ WorkerCrashes(w)
  \/ \E o \in CloneObjects : ArtifactAges(o) \/ \E k \in Collectors : ClaimDeletion(k, o)
  \/ \E k \in Collectors : DeleteObject(k) \/ CompleteDeletion(k) \/ DeletionFails(k)
                           \/ RetryDeletion(k) \/ CollectorCrashes(k)
  \/ \E d \in Deliverers : \/ \E c \in Captures : ClaimAnalytics(d, c)
                           \/ WriteAnalytics(d) \/ CompleteAnalytics(d)
                           \/ RetryAnalytics(d) \/ DelivererCrashes(d)

Spec == Init /\ [][Next]_vars

\* Loops run as long as their process does (index.ts restarts nothing, so a
\* crashed process is assumed to be started again), time passes, and a failing
\* dependency fails every time only if it never recovers: steps that may fail
\* succeed when they are tried again and again. Heartbeats, crashes and errors
\* are never required to happen.
Lapses(c) == LeaseLapses(c) \/ OutboxLapses(c)
Works(w) ==
  \/ ClaimJob(w) \/ RenderDone(w) \/ AttemptFails(w) \/ UploadPage(w) \/ UploadClone(w)
  \/ StageArtifacts(w) \/ StageArtifactsFails(w) \/ StageResult(w) \/ FailJob(w)
Writes(d, step) == deliverer[d].at = step /\ WriteAnalytics(d)

Fairness ==
  /\ \A c \in Captures : WF_vars(Lapses(c))
  /\ \A w \in Workers : WF_vars(Works(w))
  /\ \A o \in CloneObjects :
       WF_vars(ArtifactAges(o)) /\ \A k \in Collectors : SF_vars(ClaimDeletion(k, o))
  /\ \A k \in Collectors :
       WF_vars(RetryDeletion(k)) /\ SF_vars(DeleteObject(k)) /\ SF_vars(CompleteDeletion(k))
  /\ \A d \in Deliverers :
       /\ WF_vars(\E c \in Captures : ClaimAnalytics(d, c))
       /\ \A step \in DOMAIN After : SF_vars(Writes(d, step))
       /\ SF_vars(CompleteAnalytics(d))

FairSpec == Spec /\ Fairness

-----------------------------------------------------------------------------
(* Properties *)

\* Every table and every loop's memory holds values of its type.
TypeOK ==
  /\ job \in [Captures -> Job]
  /\ recon \in [Captures -> Recon]
  /\ artifact \in [CloneObjects -> Artifact]
  /\ store \subseteq Objects
  /\ worker \in [Workers -> Task]
  /\ collector \in [Collectors -> Deletion]
  /\ outbox \in [Captures -> Outbox]
  /\ tables \in [Captures -> SUBSET Tables]
  /\ deliverer \in [Deliverers -> Delivery]
  /\ sent \in [Captures -> Seq({"RUNNING", "INDEXING", "COMPLETED", "FAILED"})]

\* getReconstruction and getReconstructionArchiveReference: what the API offers
\* for download.
Offered(c) ==
  \E o \in CloneOf(c, recon[c].gen) :
    o[3] = "STATIC_ARCHIVE" /\ artifact[o].state = "PUBLISHED" /\ artifact[o].due # "due"

\* A clone archive the API offers for download is in the bucket: the collector
\* never deletes the object of an artifact that stageResult has published or
\* still may publish, whatever it claimed before (database.ts:605, :339).
OfferedIsStored ==
  \A c \in Captures :
    recon[c].gen > 0 /\ Offered(c) => <<c, recon[c].gen, "STATIC_ARCHIVE">> \in store

\* Archive and manifest are published together and only for the generation the
\* reconstruction ended with: a stale attempt publishes nothing, and a
\* reconstruction that says PUBLISHED or PARTIAL has both (stageResult).
PublishedIsWhole ==
  \A c \in Captures :
    /\ \A g \in Generations : \A o \in CloneOf(c, g) :
         artifact[o].state \in {"PUBLISHED", "DELETE_PENDING"} =>
           /\ recon[c].gen = g
           /\ recon[c].status \in {"PUBLISHED", "PARTIAL", "EXPIRED"}
           /\ \A p \in CloneOf(c, g) : artifact[p].state \in {"PUBLISHED", "DELETE_PENDING", "DELETED"}
    /\ recon[c].status \in {"PUBLISHED", "PARTIAL"} =>
         \A o \in CloneOf(c, recon[c].gen) : artifact[o].state # "STAGED"

\* The reconstruction is open exactly while its capture is: a capture that has
\* left RENDERING for good leaves no reconstruction QUEUED or RUNNING, a failed
\* capture has a failed clone, and a clone's end never comes before its page's.
ReconstructionFollowsCapture ==
  \A c \in Captures :
    /\ recon[c].status \in Open <=> job[c].status \in {"QUEUED", "RENDERING"}
    /\ job[c].status = "FAILED" => recon[c].status = "FAILED"
    /\ job[c].status = "RENDERING" => recon[c].gen = job[c].gen

\* What the API offers is there: the three together, over well-typed rows.
OffersHold ==
  TypeOK /\ OfferedIsStored /\ PublishedIsWhole /\ ReconstructionFollowsCapture

\* A completed capture has its page objects in the bucket and its rows in all
\* four ClickHouse tables: the receipt stands for them and is written last.
CompletedIsStored ==
  \A c \in Captures :
    job[c].status = "COMPLETED" =>
      tables[c] = Tables /\ <<c, job[c].gen, "PAGE">> \in store

\* A capture that ended keeps its status and sends no further event, however
\* late an attempt or a delivery comes back (the lease checks of database.ts).
EndedStaysEnded ==
  [][\A c \in Captures : job[c].status \in {"COMPLETED", "FAILED"} =>
       job'[c] = job[c] /\ sent'[c] = sent[c]]_vars

\* What the Control Plane is promised about a capture.
Lifecycle == INSTANCE CaptureLifecycle WITH status <- [c \in Captures |-> job[c].status]

\* The leases, retries and deliveries of a capture implement CaptureLifecycle, on
\* which CaptureMessaging relies, and nothing of an ended capture's row changes,
\* however late an attempt or a delivery comes back.
RefinesLifecycle == Lifecycle!Spec /\ EndedStaysEnded

\* Every accepted capture ends, whatever crashes: its lease lapses and is
\* reclaimed, its attempts are bounded, its analytics are retried for ever.
EveryCaptureEnds ==
  \A c \in Captures :
    job[c].status # "NONE" ~> job[c].status \in {"COMPLETED", "FAILED"}

\* Every staged artifact is deleted from the bucket in the end, published or
\* not: no clone object that has a row outlives its retention.
ArtifactsAreCollected ==
  \A o \in CloneObjects :
    artifact[o].state # "NONE" ~> artifact[o].state = "DELETED" /\ o \notin store

=============================================================================
