--------------------------- MODULE SiteJobsProofs ---------------------------
(***************************************************************************)
(* SiteJobs for every set of pages, parts and loops, and all limits: the   *)
(* frontier's books, what is kept in the bucket, and the refinement of     *)
(* SiteLifecycle.                                                          *)
(***************************************************************************)
EXTENDS SiteJobs, FiniteSetTheorems, TLAPS

-----------------------------------------------------------------------------
(* Which transactions write what.                                            *)

JobWriters ==
  \/ AcceptRequested \/ AcceptCancellation \/ PhaseLapses
  \/ \E x \in Ingesters \cup Assemblers : ExtendPhaseLease(x)
  \/ \E i \in Ingesters : ClaimIngestion(i) \/ FinishIngestion(i) \/ IngestionFails(i)
  \/ \E r \in Renderers : CloseAdmission(r) \/ CompletePage(r) \/ FailPage(r)
  \/ \E a \in Assemblers : \/ FinalizeEmptyJob(a) \/ ClaimAssembly(a) \/ PublishArtifacts(a)
                           \/ RetryAssembly(a)
  \/ \E c \in Reconcilers : CloseReconciliation(c)
  \/ \E k \in Collectors : CloseCompletion(k)

PageWriters ==
  \/ \E p \in Pages : PageLapses(p) \/ BundleAges(p)
  \/ \E i \in Ingesters : AddTargets(i)
  \/ \E r \in Renderers : \/ CloseAdmission(r) \/ ClaimPage(r) \/ ExtendPageLease(r)
                          \/ CompletePage(r) \/ FailPage(r)
  \/ \E c \in Reconcilers : OpenReconciliation(c)
  \/ \E k \in Collectors : (\E p \in Pages : ClaimBundle(k, p)) \/ CompleteBundle(k) \/ RetryDeletion(k)

ArtifactWriters ==
  \/ \E o \in Finals : ArtifactAges(o)
  \/ \E i \in Ingesters : IngestionFails(i)
  \/ \E a \in Assemblers : StageArtifacts(a) \/ PublishArtifacts(a) \/ RetryAssembly(a)
  \/ \E k \in Collectors : (\E o \in Finals : ClaimArtifact(k, o)) \/ CloseCompletion(k) \/ RetryDeletion(k)

StoreWriters ==
  \/ \E r \in Renderers : RenderPage(r) \/ DiscardBundle(r)
  \/ \E a \in Assemblers : CopyArtifact(a)
  \/ \E k \in Collectors : DeleteObject(k)

IngesterSteps(i) ==
  \/ ClaimIngestion(i) \/ ListTargets(i) \/ AddTargets(i) \/ FinishIngestion(i)
  \/ IngestionFails(i) \/ IngesterCrashes(i)

RendererSteps(r) ==
  \/ CloseAdmission(r) \/ ClaimPage(r) \/ RenderPage(r) \/ RenderFails(r) \/ CompletePage(r)
  \/ CompletePageFails(r) \/ DiscardBundle(r) \/ FailPage(r) \/ RendererCrashes(r)

AssemblerSteps(a) ==
  \/ ClaimAssembly(a) \/ BuildArchives(a) \/ StageArtifacts(a) \/ PublishArtifacts(a)
  \/ AssemblyThrows(a) \/ RetryAssembly(a) \/ AssemblerCrashes(a)

CollectorSteps(k) ==
  \/ \E o \in Finals : ClaimArtifact(k, o)
  \/ \E p \in Pages : ClaimBundle(k, p)
  \/ DeleteObject(k) \/ CompleteBundle(k) \/ OpenCompletion(k) \/ CloseCompletion(k)
  \/ RetryDeletion(k) \/ CollectorCrashes(k)

\* Only these transactions change the row of the job or send a terminal event.
LEMMA WhoWritesJob == [Next]_vars => (job' = job /\ sent' = sent) \/ JobWriters
<1> SUFFICES ASSUME [Next]_vars, ~JobWriters PROVE job' = job /\ sent' = sent
  OBVIOUS
<1>1. ASSUME NEW p \in Pages, PageLapses(p) \/ BundleAges(p) PROVE job' = job /\ sent' = sent
  BY <1>1 DEF PageLapses, BundleAges
<1>2. ASSUME NEW i \in Ingesters, ListTargets(i) \/ AddTargets(i) \/ IngesterCrashes(i)
      PROVE  job' = job /\ sent' = sent
  BY <1>2 DEF ListTargets, AddTargets, IngesterCrashes, rows
<1>3. ASSUME NEW r \in Renderers,
             \/ OpenAdmission(r) \/ ClaimPage(r) \/ ExtendPageLease(r) \/ RenderPage(r)
             \/ RenderFails(r) \/ CompletePageFails(r) \/ DiscardBundle(r) \/ RendererCrashes(r)
      PROVE  job' = job /\ sent' = sent
  BY <1>3 DEF OpenAdmission, ClaimPage, ExtendPageLease, RenderPage, RenderFails, CompletePageFails,
              DiscardBundle, RendererCrashes, rows
<1>4. ASSUME NEW a \in Assemblers,
             \/ BuildArchives(a) \/ StageArtifacts(a) \/ CopyArtifact(a) \/ AssemblyThrows(a)
             \/ AssemblerCrashes(a)
      PROVE  job' = job /\ sent' = sent
  BY <1>4 DEF BuildArchives, StageArtifacts, CopyArtifact, AssemblyThrows, AssemblerCrashes, rows
<1>5. ASSUME NEW k \in Collectors,
             \/ \E o \in Finals : ClaimArtifact(k, o)
             \/ \E p \in Pages : ClaimBundle(k, p)
             \/ DeleteObject(k) \/ CompleteBundle(k) \/ OpenCompletion(k) \/ RetryDeletion(k)
             \/ CollectorCrashes(k)
      PROVE  job' = job /\ sent' = sent
  BY <1>5 DEF ClaimArtifact, ClaimBundle, DeleteObject, CompleteBundle, OpenCompletion, RetryDeletion,
              CollectorCrashes, rows
<1>6. ASSUME BecomesOverdue \/ (\E o \in Finals : ArtifactAges(o))
             \/ (\E c \in Reconcilers : OpenReconciliation(c))
      PROVE  job' = job /\ sent' = sent
  BY <1>6 DEF BecomesOverdue, ArtifactAges, OpenReconciliation
<1>7. CASE UNCHANGED vars
  BY <1>7 DEF vars
<1> QED BY <1>1, <1>2, <1>3, <1>4, <1>5, <1>6, <1>7 DEF Next, JobWriters

\* Only these transactions change the pages table.
LEMMA WhoWritesPages == [Next]_vars => page' = page \/ PageWriters
<1> SUFFICES ASSUME [Next]_vars, ~PageWriters PROVE page' = page
  OBVIOUS
<1>1. ASSUME \/ AcceptRequested \/ AcceptCancellation \/ BecomesOverdue \/ PhaseLapses
             \/ \E o \in Finals : ArtifactAges(o)
             \/ \E x \in Ingesters \cup Assemblers : ExtendPhaseLease(x)
      PROVE  page' = page
  BY <1>1 DEF AcceptRequested, AcceptCancellation, BecomesOverdue, PhaseLapses, ArtifactAges,
              ExtendPhaseLease
<1>2. ASSUME NEW i \in Ingesters,
             \/ ClaimIngestion(i) \/ ListTargets(i) \/ FinishIngestion(i) \/ IngestionFails(i)
             \/ IngesterCrashes(i)
      PROVE  page' = page
  BY <1>2 DEF ClaimIngestion, ListTargets, FinishIngestion, IngestionFails, IngesterCrashes, rows
<1>3. ASSUME NEW r \in Renderers,
             \/ OpenAdmission(r) \/ RenderPage(r) \/ RenderFails(r) \/ CompletePageFails(r)
             \/ DiscardBundle(r) \/ RendererCrashes(r)
      PROVE  page' = page
  BY <1>3 DEF OpenAdmission, RenderPage, RenderFails, CompletePageFails, DiscardBundle,
              RendererCrashes, rows
<1>4. ASSUME NEW a \in Assemblers,
             \/ FinalizeEmptyJob(a) \/ ClaimAssembly(a) \/ BuildArchives(a) \/ StageArtifacts(a)
             \/ CopyArtifact(a) \/ PublishArtifacts(a) \/ AssemblyThrows(a) \/ RetryAssembly(a)
             \/ AssemblerCrashes(a)
      PROVE  page' = page
  BY <1>4 DEF FinalizeEmptyJob, ClaimAssembly, BuildArchives, StageArtifacts, CopyArtifact,
              PublishArtifacts, AssemblyThrows, RetryAssembly, AssemblerCrashes, rows
<1>5. ASSUME NEW k \in Collectors,
             \/ \E o \in Finals : ClaimArtifact(k, o)
             \/ DeleteObject(k) \/ OpenCompletion(k) \/ CloseCompletion(k) \/ CollectorCrashes(k)
      PROVE  page' = page
  BY <1>5 DEF ClaimArtifact, DeleteObject, OpenCompletion, CloseCompletion, CollectorCrashes, rows
<1>6. ASSUME NEW c \in Reconcilers, CloseReconciliation(c) PROVE page' = page
  BY <1>6 DEF CloseReconciliation
<1>7. CASE UNCHANGED vars
  BY <1>7 DEF vars
<1> QED BY <1>1, <1>2, <1>3, <1>4, <1>5, <1>6, <1>7 DEF Next, PageWriters

\* Only these transactions change the artifacts table.
LEMMA WhoWritesArtifacts == [Next]_vars => artifact' = artifact \/ ArtifactWriters
<1> SUFFICES ASSUME [Next]_vars, ~ArtifactWriters PROVE artifact' = artifact
  OBVIOUS
<1>1. ASSUME \/ AcceptRequested \/ AcceptCancellation \/ BecomesOverdue \/ PhaseLapses
             \/ \E p \in Pages : PageLapses(p) \/ BundleAges(p)
             \/ \E x \in Ingesters \cup Assemblers : ExtendPhaseLease(x)
      PROVE  artifact' = artifact
  BY <1>1 DEF AcceptRequested, AcceptCancellation, BecomesOverdue, PhaseLapses, PageLapses, BundleAges,
              ExtendPhaseLease
<1>2. ASSUME NEW i \in Ingesters,
             \/ ClaimIngestion(i) \/ ListTargets(i) \/ AddTargets(i) \/ FinishIngestion(i)
             \/ IngesterCrashes(i)
      PROVE  artifact' = artifact
  BY <1>2 DEF ClaimIngestion, ListTargets, AddTargets, FinishIngestion, IngesterCrashes, rows
<1>3. ASSUME NEW r \in Renderers,
             \/ OpenAdmission(r) \/ RendererSteps(r) \/ ExtendPageLease(r)
      PROVE  artifact' = artifact
  BY <1>3 DEF OpenAdmission, ExtendPageLease, RendererSteps, CloseAdmission, ClaimPage, RenderPage,
              RenderFails, CompletePage, CompletePageFails, DiscardBundle, FailPage, RendererCrashes, rows
<1>4. ASSUME NEW a \in Assemblers,
             \/ FinalizeEmptyJob(a) \/ ClaimAssembly(a) \/ BuildArchives(a)
             \/ CopyArtifact(a) \/ AssemblyThrows(a) \/ AssemblerCrashes(a)
      PROVE  artifact' = artifact
  BY <1>4 DEF FinalizeEmptyJob, ClaimAssembly, BuildArchives, CopyArtifact, AssemblyThrows,
              AssemblerCrashes, rows
<1>5. ASSUME NEW k \in Collectors,
             \/ \E p \in Pages : ClaimBundle(k, p)
             \/ DeleteObject(k) \/ CompleteBundle(k) \/ OpenCompletion(k) \/ CollectorCrashes(k)
      PROVE  artifact' = artifact
  BY <1>5 DEF ClaimBundle, DeleteObject, CompleteBundle, OpenCompletion, CollectorCrashes, rows
<1>6. ASSUME NEW c \in Reconcilers, OpenReconciliation(c) \/ CloseReconciliation(c)
      PROVE  artifact' = artifact
  BY <1>6 DEF OpenReconciliation, CloseReconciliation
<1>7. CASE UNCHANGED vars
  BY <1>7 DEF vars
<1> QED BY <1>1, <1>2, <1>3, <1>4, <1>5, <1>6, <1>7 DEF Next, ArtifactWriters, RendererSteps

\* A loop's memory is changed by its own steps only, and the bucket by these.
Framed ==
  /\ (overdue' = overdue \/ overdue' = TRUE) /\ (inbox' = inbox \/ inbox' = TRUE)
  /\ store' = store \/ StoreWriters
  /\ ingester' = ingester \/ \E i \in Ingesters : IngesterSteps(i)
  /\ renderer' = renderer \/ \E r \in Renderers : RendererSteps(r)
  /\ assembler' = assembler \/ \E a \in Assemblers : AssemblerSteps(a)
  /\ collector' = collector \/ \E k \in Collectors : CollectorSteps(k)
  /\ admission' = admission \/ \E r \in Renderers : OpenAdmission(r) \/ CloseAdmission(r)
  /\ reconciler' = reconciler \/ \E c \in Reconcilers : OpenReconciliation(c) \/ CloseReconciliation(c)

\* Every step is framed.
LEMMA WhoMoves == [Next]_vars => Framed
<1> SUFFICES ASSUME [Next]_vars PROVE Framed
  OBVIOUS
<1> USE DEF rows, loops
<1>1. ASSUME \/ AcceptRequested \/ AcceptCancellation \/ BecomesOverdue \/ PhaseLapses
             \/ \E p \in Pages : PageLapses(p) \/ BundleAges(p)
             \/ \E o \in Finals : ArtifactAges(o)
             \/ \E x \in Ingesters \cup Assemblers : ExtendPhaseLease(x)
      PROVE  /\ UNCHANGED <<store, ingester, renderer, assembler, collector, admission, reconciler>>
             /\ (overdue' = overdue \/ overdue' = TRUE) /\ (inbox' = inbox \/ inbox' = TRUE)
  BY <1>1 DEF AcceptRequested, AcceptCancellation, BecomesOverdue, PhaseLapses, PageLapses, BundleAges,
              ArtifactAges, ExtendPhaseLease
<1>2. ASSUME NEW i \in Ingesters, IngesterSteps(i)
      PROVE  UNCHANGED <<overdue, inbox, store, renderer, assembler, collector, admission, reconciler>>
  BY <1>2 DEF IngesterSteps, ClaimIngestion, ListTargets, AddTargets, FinishIngestion, IngestionFails, IngesterCrashes
<1>3. ASSUME NEW r \in Renderers, OpenAdmission(r) \/ RendererSteps(r) \/ ExtendPageLease(r)
      PROVE  /\ UNCHANGED <<overdue, inbox, ingester, assembler, collector, reconciler>>
             /\ store' = store \/ RenderPage(r) \/ DiscardBundle(r)
             /\ renderer' = renderer \/ RendererSteps(r)
             /\ admission' = admission \/ OpenAdmission(r) \/ CloseAdmission(r)
  <2>1. UNCHANGED <<overdue, inbox, ingester, assembler, collector, reconciler>>
    BY <1>3 DEF OpenAdmission, ExtendPageLease, RendererSteps, CloseAdmission, ClaimPage, RenderPage,
                RenderFails, CompletePage, CompletePageFails, DiscardBundle, FailPage, RendererCrashes
  <2>2. store' = store \/ RenderPage(r) \/ DiscardBundle(r)
    BY <1>3 DEF OpenAdmission, ExtendPageLease, RendererSteps, CloseAdmission, ClaimPage,
                RenderFails, CompletePage, CompletePageFails, FailPage, RendererCrashes
  <2>3. renderer' = renderer \/ RendererSteps(r)
    BY <1>3 DEF OpenAdmission, ExtendPageLease
  <2>4. admission' = admission \/ OpenAdmission(r) \/ CloseAdmission(r)
    BY <1>3 DEF ExtendPageLease, RendererSteps, ClaimPage, RenderPage, RenderFails, CompletePage,
                CompletePageFails, DiscardBundle, FailPage, RendererCrashes
  <2> QED BY <2>1, <2>2, <2>3, <2>4
<1>4. ASSUME NEW a \in Assemblers, FinalizeEmptyJob(a) \/ CopyArtifact(a) \/ AssemblerSteps(a)
      PROVE  /\ UNCHANGED <<overdue, inbox, ingester, renderer, collector, admission, reconciler>>
             /\ store' = store \/ CopyArtifact(a)
             /\ assembler' = assembler \/ AssemblerSteps(a)
  <2>1. UNCHANGED <<overdue, inbox, ingester, renderer, collector, admission, reconciler>>
    BY <1>4 DEF FinalizeEmptyJob, CopyArtifact, AssemblerSteps, ClaimAssembly, BuildArchives,
                StageArtifacts, PublishArtifacts, AssemblyThrows, RetryAssembly, AssemblerCrashes
  <2>2. store' = store \/ CopyArtifact(a)
    BY <1>4 DEF FinalizeEmptyJob, AssemblerSteps, ClaimAssembly, BuildArchives, StageArtifacts,
                PublishArtifacts, AssemblyThrows, RetryAssembly, AssemblerCrashes
  <2>3. assembler' = assembler \/ AssemblerSteps(a)
    BY <1>4 DEF FinalizeEmptyJob, CopyArtifact
  <2> QED BY <2>1, <2>2, <2>3
<1>5. ASSUME NEW c \in Reconcilers, OpenReconciliation(c) \/ CloseReconciliation(c)
      PROVE  UNCHANGED <<overdue, inbox, store, ingester, renderer, assembler, collector, admission>>
  BY <1>5 DEF OpenReconciliation, CloseReconciliation
<1>6. ASSUME NEW k \in Collectors, CollectorSteps(k)
      PROVE  /\ UNCHANGED <<overdue, inbox, ingester, renderer, assembler, admission, reconciler>>
             /\ store' = store \/ DeleteObject(k)
  BY <1>6 DEF CollectorSteps, ClaimArtifact, ClaimBundle, DeleteObject, CompleteBundle, OpenCompletion,
              CloseCompletion, RetryDeletion, CollectorCrashes
<1>7. CASE UNCHANGED vars
  BY <1>7 DEF vars, Framed
<1> DEFINE Timely == \/ AcceptRequested \/ AcceptCancellation \/ BecomesOverdue \/ PhaseLapses
                     \/ \E p \in Pages : PageLapses(p) \/ BundleAges(p)
                     \/ \E o \in Finals : ArtifactAges(o)
                     \/ \E x \in Ingesters \cup Assemblers : ExtendPhaseLease(x)
           Renders(r) == OpenAdmission(r) \/ RendererSteps(r) \/ ExtendPageLease(r)
           Assembles(a) == FinalizeEmptyJob(a) \/ CopyArtifact(a) \/ AssemblerSteps(a)
           Reconciles(c) == OpenReconciliation(c) \/ CloseReconciliation(c)
<1>8. \/ Timely \/ UNCHANGED vars
      \/ \E i \in Ingesters : IngesterSteps(i)
      \/ \E r \in Renderers : Renders(r)
      \/ \E a \in Assemblers : Assembles(a)
      \/ \E c \in Reconcilers : Reconciles(c)
      \/ \E k \in Collectors : CollectorSteps(k)
  BY DEF Next, IngesterSteps, RendererSteps, AssemblerSteps, CollectorSteps
<1>9. CASE Timely \/ \E i \in Ingesters : IngesterSteps(i)
  BY <1>1, <1>2, <1>9 DEF Framed
<1>10. CASE \E r \in Renderers : Renders(r)
  <2>1. PICK r \in Renderers : Renders(r)
    BY <1>10
  <2>2. /\ UNCHANGED <<overdue, inbox, ingester, assembler, collector, reconciler>>
        /\ store' = store \/ RenderPage(r) \/ DiscardBundle(r)
        /\ renderer' = renderer \/ RendererSteps(r)
        /\ admission' = admission \/ OpenAdmission(r) \/ CloseAdmission(r)
    BY <1>3, <2>1
  <2> QED BY <2>2 DEF Framed, StoreWriters
<1>11. CASE \E a \in Assemblers : Assembles(a)
  BY <1>4, <1>11 DEF Framed, StoreWriters
<1>12. CASE \E c \in Reconcilers : Reconciles(c)
  BY <1>5, <1>12 DEF Framed
<1>13. CASE \E k \in Collectors : CollectorSteps(k)
  BY <1>6, <1>13 DEF Framed, StoreWriters
<1> QED BY <1>7, <1>8, <1>9, <1>10, <1>11, <1>12, <1>13

-----------------------------------------------------------------------------
(* Types.                                                                    *)

Statuses == {"NONE", "CANCEL_REQUESTED"} \cup Active \cup Ended

\* The job's counters are only known to be numbers here: that they stay below the
\* number of pages is a consequence of CountersNotAhead.
JobRow == [status : Statuses, owner : Ingesters \cup Assemblers \cup {None}, lapsed : BOOLEAN,
           attempts : 0 .. MaxPhase, late : BOOLEAN, succeeded : Nat, failed : Nat]
Ingestion == [at : {"idle", "list", "add"}, todo : SUBSET Pages, chosen : SUBSET Pages]
Rendering == [at : {"idle", "render", "complete", "discard", "fail"}, p : Pages \cup {None},
              gen : 0 .. MaxRetries]
Assembly == [at : {"idle", "build", "stage", "copy", "fail"}, gen : 0 .. MaxStaged]
Target == [at : {"idle", "delete", "complete", "expire"}, kind : {"none", "artifact", "bundle"},
           id : Finals \cup {<<p>> : p \in Pages} \cup {None}, object : Stored \cup {None},
           last : BOOLEAN]
Admission == [by : Renderers \cup {None}, pages : SUBSET Pages, succeeded : Nat, failed : Nat]

Types ==
  /\ job \in JobRow /\ overdue \in BOOLEAN /\ inbox \in BOOLEAN
  /\ page \in [Pages -> PageRow] /\ artifact \in [Finals -> ArtifactRow]
  /\ store \subseteq Stored
  /\ ingester \in [Ingesters -> Ingestion] /\ renderer \in [Renderers -> Rendering]
  /\ assembler \in [Assemblers -> Assembly] /\ collector \in [Collectors -> Target]
  /\ admission \in Admission
  /\ reconciler \in [Reconcilers -> [at : {"idle", "open"}, marked : BOOLEAN]]
  /\ sent \in Seq(Ended)

\* A page waits only while it has attempts left; only a page that succeeded has a
\* bundle.
PageRows ==
  \A p \in Pages :
    /\ page[p].status = "QUEUED" => page[p].gen < MaxRetries
    /\ page[p].status = "NONE" => page[p].gen = 0
    /\ page[p].status \in {"RENDERING", "SUCCEEDED"} => page[p].gen >= 1
    /\ page[p].bundle # "NONE" => page[p].status = "SUCCEEDED"

\* The target t of a collector names the object it is about.
Targeted(t, table) ==
  \/ t.kind = "artifact" /\ t.id \in Finals /\ t.object = Final(t.id)
  \/ /\ t.kind = "bundle" /\ t.at # "expire"
     /\ \E p \in Pages : t.id = <<p>> /\ t.object = Bundle(p, table[p].gen) /\ table[p].status = "SUCCEEDED"

\* A loop that is at work knows what it works on, and the attempt it claimed is
\* none of the future.
LoopsTyped ==
  /\ \A r \in Renderers : renderer[r].at # "idle" =>
       /\ renderer[r].p \in Pages /\ renderer[r].gen >= 1
       /\ renderer[r].gen <= page[renderer[r].p].gen
  /\ \A a \in Assemblers : assembler[a].at = "copy" => assembler[a].gen >= 1
  /\ \A k \in Collectors : collector[k].at # "idle" => Targeted(collector[k], page)

\* The pages an open claimPage has locked stay as it found them.
AdmissionLocks == \A p \in admission.pages : page[p].status = "RENDERING" /\ page[p].lapsed

TypeInv == Types /\ PageRows /\ LoopsTyped /\ AdmissionLocks

\* The numbers of pages in a status are numbers.
LEMMA Counts ==
  /\ \A s : IsFiniteSet(In(s)) /\ Count(s) \in Nat
  /\ \A S \in SUBSET Pages : IsFiniteSet(S) /\ Cardinality(S) \in Nat
<1>1. \A S \in SUBSET Pages : IsFiniteSet(S) /\ Cardinality(S) \in Nat
  BY PagesAssumption, FS_Subset, FS_CardinalityType
<1>2. \A s : In(s) \in SUBSET Pages
  BY DEF In
<1> QED BY <1>1, <1>2 DEF Count

\* The initial state is typed.
LEMMA InitTypes == Init => TypeInv
<1> SUFFICES ASSUME Init PROVE TypeInv
  OBVIOUS
<1> USE LimitsAssumption DEF Init
<1>0. overdue \in BOOLEAN /\ inbox \in BOOLEAN
  OBVIOUS
<1>1. job \in JobRow
  BY DEF JobRow, Statuses
<1>2. page \in [Pages -> PageRow]
  BY DEF PageRow
<1>3. artifact \in [Finals -> ArtifactRow] /\ store \subseteq Stored
  BY DEF ArtifactRow
<1>4. ingester \in [Ingesters -> Ingestion] /\ renderer \in [Renderers -> Rendering]
  BY DEF Ingestion, Rendering, Nothing
<1>5. assembler \in [Assemblers -> Assembly] /\ collector \in [Collectors -> Target]
  BY DEF Assembly, Target, NoTarget
<1>6. admission \in Admission
  BY DEF Admission, NoAdmission
<1>7. reconciler \in [Reconcilers -> [at : {"idle", "open"}, marked : BOOLEAN]] /\ sent \in Seq(Ended)
  OBVIOUS
<1>8. PageRows
  BY DEF PageRows
<1>9. LoopsTyped
  BY DEF LoopsTyped, Nothing, NoTarget
<1>10. AdmissionLocks
  BY DEF AdmissionLocks, NoAdmission
<1> QED BY <1>10, <1>0, <1>1, <1>2, <1>3, <1>4, <1>5, <1>6, <1>7, <1>8, <1>9 DEF TypeInv, Types

\* retryPhase gives the job back, or fails it after the last attempt.
LEMMA RetryPhaseJob ==
  ASSUME Types, NEW x, NEW phase, NEW g, RetryPhase(x, phase, g)
  PROVE  /\ job' \in JobRow /\ sent' \in Seq(Ended)
         /\ job'.succeeded = job.succeeded /\ job'.failed = job.failed
         /\ \/ job'.status = job.status /\ sent' = sent
            \/ /\ job.status = phase /\ job'.status = "FAILED" /\ sent' = Append(sent, "FAILED")
               /\ JobFree
<1> USE LimitsAssumption
<1>0. job \in JobRow /\ sent \in Seq(Ended)
  BY DEF Types
<1>1. CASE HoldsPhase(x, phase) /\ Exhausted
  <2>1. /\ job' = [job EXCEPT !.status = "FAILED", !.owner = None, !.lapsed = FALSE, !.late = FALSE]
        /\ sent' = Append(sent, "FAILED") /\ JobFree /\ job.status = phase
    BY <1>1 DEF RetryPhase, HoldsPhase
  <2>2. job' \in JobRow /\ job'.succeeded = job.succeeded /\ job'.failed = job.failed /\ job'.status = "FAILED"
    BY <1>0, <2>1 DEF JobRow, Statuses, Ended
  <2> QED BY <1>0, <2>1, <2>2 DEF Ended
<1>2. CASE HoldsPhase(x, phase) /\ ~Exhausted
  <2>1. /\ job' = [job EXCEPT !.attempts = @ + 1, !.owner = None, !.lapsed = FALSE, !.late = FALSE]
        /\ sent' = sent
    BY <1>2 DEF RetryPhase
  <2>2. job.attempts + 1 \in 0 .. MaxPhase
    BY <1>0, <1>2 DEF Exhausted, JobRow
  <2>3. /\ job' \in JobRow /\ job'.succeeded = job.succeeded /\ job'.failed = job.failed
        /\ job'.status = job.status
    BY <1>0, <2>1, <2>2 DEF JobRow
  <2> QED BY <1>0, <2>1, <2>3
<1>3. CASE ~HoldsPhase(x, phase)
  BY <1>0, <1>3 DEF RetryPhase
<1> QED BY <1>1, <1>2, <1>3

\* What the transactions write into the row of a job leaves it a row.
LEMMA RowUpdates ==
  ASSUME NEW j \in JobRow, NEW st \in Statuses, NEW x \in Ingesters \cup Assemblers \cup {None}
  PROVE  /\ [j EXCEPT !.status = st] \in JobRow
         /\ [j EXCEPT !.status = st, !.late = FALSE] \in JobRow
         /\ [j EXCEPT !.status = st, !.owner = x, !.lapsed = FALSE] \in JobRow
         /\ [j EXCEPT !.owner = x, !.lapsed = FALSE] \in JobRow
         /\ [j EXCEPT !.status = st, !.owner = x, !.lapsed = FALSE, !.attempts = 0] \in JobRow
<1>0. 0 \in 0 .. MaxPhase
  BY LimitsAssumption
<1>1. [j EXCEPT !.status = st] \in JobRow
  BY DEF JobRow
<1>2. [j EXCEPT !.status = st, !.late = FALSE] \in JobRow
  BY DEF JobRow
<1>3. [j EXCEPT !.status = st, !.owner = x, !.lapsed = FALSE] \in JobRow
  BY DEF JobRow
<1>4. [j EXCEPT !.owner = x, !.lapsed = FALSE] \in JobRow
  BY DEF JobRow
<1>5. [j EXCEPT !.status = st, !.owner = x, !.lapsed = FALSE, !.attempts = 0] \in JobRow
  <2> DEFINE k == [j EXCEPT !.status = st, !.owner = x, !.lapsed = FALSE]
  <2>1. k \in JobRow
    BY <1>3
  <2>2. [k EXCEPT !.attempts = 0] \in JobRow
    <3> HIDE DEF k
    <3> QED BY <1>0, <2>1 DEF JobRow
  <2> QED BY <2>2
<1> QED BY <1>1, <1>2, <1>3, <1>4, <1>5

\* The row of the job stays typed.
LEMMA JobStaysTyped ==
  ASSUME TypeInv, [Next]_vars
  PROVE  job' \in JobRow /\ sent' \in Seq(Ended)
<1> USE LimitsAssumption
<1>0. job \in JobRow /\ sent \in Seq(Ended) /\ Types
  BY DEF TypeInv, Types
<1>1. CASE AcceptRequested \/ AcceptCancellation \/ PhaseLapses
  BY <1>0, <1>1 DEF AcceptRequested, AcceptCancellation, PhaseLapses, JobRow, Statuses, Active
<1>2. ASSUME NEW x \in Ingesters \cup Assemblers, ExtendPhaseLease(x)
      PROVE  job' \in JobRow /\ sent' \in Seq(Ended)
  BY <1>0, <1>2 DEF ExtendPhaseLease, JobRow
<1>3. ASSUME NEW i \in Ingesters, ClaimIngestion(i) \/ FinishIngestion(i)
      PROVE  job' \in JobRow /\ sent' \in Seq(Ended)
  <2>1. "RUNNING" \in Statuses
    BY DEF Statuses, Active
  <2>2. \/ job' = [job EXCEPT !.owner = i, !.lapsed = FALSE]
        \/ job' = [job EXCEPT !.status = "RUNNING", !.owner = None, !.lapsed = FALSE, !.attempts = 0]
    BY <1>3 DEF ClaimIngestion, FinishIngestion
  <2>3. job' \in JobRow
    <3> DEFINE Owners == Ingesters \cup Assemblers \cup {None}
    <3>1. i \in Owners /\ None \in Owners
      OBVIOUS
    <3>2. \A x \in Owners :
            /\ [job EXCEPT !.owner = x, !.lapsed = FALSE] \in JobRow
            /\ [job EXCEPT !.status = "RUNNING", !.owner = x, !.lapsed = FALSE, !.attempts = 0] \in JobRow
      BY <1>0, <2>1, RowUpdates
    <3> QED BY <2>2, <3>1, <3>2
  <2>4. sent' = sent
    BY <1>3 DEF ClaimIngestion, FinishIngestion
  <2> QED BY <1>0, <2>3, <2>4
<1>4. ASSUME NEW i \in Ingesters, IngestionFails(i) PROVE job' \in JobRow /\ sent' \in Seq(Ended)
  BY <1>0, <1>4, RetryPhaseJob DEF IngestionFails
<1>5. ASSUME NEW r \in Renderers, CloseAdmission(r) PROVE job' \in JobRow /\ sent' \in Seq(Ended)
  <2>1. admission.succeeded \in Nat /\ admission.failed \in Nat
    BY <1>0 DEF Types, Admission
  <2> QED BY <1>0, <1>5, <2>1 DEF CloseAdmission, JobRow
<1>6. ASSUME NEW r \in Renderers, CompletePage(r) \/ FailPage(r)
      PROVE  job' \in JobRow /\ sent' \in Seq(Ended)
  <2>1. sent' = sent /\ (job' = job \/ Increment(TRUE) \/ Increment(FALSE))
    BY <1>6 DEF CompletePage, FailPage
  <2> QED BY <1>0, <2>1 DEF Increment, JobRow
<1>7. ASSUME NEW a \in Assemblers, FinalizeEmptyJob(a) \/ ClaimAssembly(a)
      PROVE  job' \in JobRow /\ sent' \in Seq(Ended)
  <2>1. "FAILED" \in Statuses /\ "ASSEMBLING" \in Statuses /\ "FAILED" \in Ended
    BY DEF Statuses, Active, Ended
  <2>2. \/ job' = [job EXCEPT !.status = "FAILED", !.late = FALSE] /\ sent' = Append(sent, "FAILED")
        \/ job' = [job EXCEPT !.status = "ASSEMBLING", !.owner = a, !.lapsed = FALSE] /\ sent' = sent
    BY <1>7 DEF FinalizeEmptyJob, ClaimAssembly
  <2>3. job' \in JobRow
    <3>1. [job EXCEPT !.status = "FAILED", !.late = FALSE] \in JobRow
      BY <1>0, <2>1, RowUpdates
    <3>2. [job EXCEPT !.status = "ASSEMBLING", !.owner = a, !.lapsed = FALSE] \in JobRow
      BY <1>0, <2>1, RowUpdates
    <3> QED BY <2>2, <3>1, <3>2
  <2> QED BY <1>0, <2>1, <2>2, <2>3
<1>8. ASSUME NEW a \in Assemblers, PublishArtifacts(a) PROVE job' \in JobRow /\ sent' \in Seq(Ended)
  <2>1. Outcome \in Ended
    BY DEF Outcome, Ended
  <2>2. job' = [job EXCEPT !.status = Outcome, !.owner = None, !.lapsed = FALSE] /\ sent' = Append(sent, Outcome)
    BY <1>8 DEF PublishArtifacts
  <2>3. job' \in JobRow
    BY <1>0, <2>1, <2>2, RowUpdates DEF Statuses
  <2> QED BY <1>0, <2>1, <2>2, <2>3
<1>9. ASSUME NEW a \in Assemblers, RetryAssembly(a) PROVE job' \in JobRow /\ sent' \in Seq(Ended)
  BY <1>0, <1>9, RetryPhaseJob DEF RetryAssembly
<1>10. ASSUME NEW c \in Reconcilers, CloseReconciliation(c) PROVE job' \in JobRow /\ sent' \in Seq(Ended)
  <2> DEFINE marked == reconciler[c].marked
             good == Count("SUCCEEDED")
             bad == Count("FAILED")
             late == marked \/ job.late
             end == IF late THEN "FAILED" ELSE "CANCELLED"
             row == [job EXCEPT !.owner = None, !.lapsed = FALSE, !.late = late]
  <2>1. good \in Nat /\ bad \in Nat
    BY Counts
  <2>2. marked \in BOOLEAN
    BY <1>0 DEF Types
  <2>3. row \in JobRow
    BY <1>0, <2>2 DEF JobRow
  <2>4. \/ /\ job' = [row EXCEPT !.status = IF good > 0 THEN "RUNNING" ELSE end, !.attempts = 0,
                                !.succeeded = good, !.failed = bad]
           /\ sent' = sent \/ sent' = Append(sent, end)
        \/ /\ job' = job \/ job' = [row EXCEPT !.status = "CANCEL_REQUESTED"]
           /\ sent' = sent
    BY <1>10 DEF CloseReconciliation
  <2>5. end \in Ended /\ end \in Statuses /\ "RUNNING" \in Statuses /\ "CANCEL_REQUESTED" \in Statuses
    BY DEF Ended, Statuses, Active
  <2> HIDE DEF row, good, bad, late, end
  <2>6. \A st \in Statuses : [row EXCEPT !.status = st, !.attempts = 0, !.succeeded = good, !.failed = bad]
                             \in JobRow
    <3>1. 0 \in 0 .. MaxPhase
      OBVIOUS
    <3> QED BY <2>1, <2>3, <3>1 DEF JobRow
  <2>7. job' \in JobRow
    BY <1>0, <2>3, <2>4, <2>5, <2>6, RowUpdates
  <2> QED BY <1>0, <2>4, <2>5, <2>7, SMTT(20)
<1>11. ASSUME NEW k \in Collectors, CloseCompletion(k) PROVE job' \in JobRow /\ sent' \in Seq(Ended)
  <2>1. "EXPIRED" \in Statuses /\ "EXPIRED" \in Ended
    BY DEF Statuses, Ended
  <2>2. \/ job' = job /\ sent' = sent
        \/ job' = [job EXCEPT !.status = "EXPIRED"] /\ sent' = Append(sent, "EXPIRED")
    BY <1>11 DEF CloseCompletion
  <2>3. job' \in JobRow
    BY <1>0, <2>1, <2>2, RowUpdates
  <2> QED BY <1>0, <2>1, <2>2, <2>3
<1> QED BY <1>0, <1>1, <1>2, <1>3, <1>4, <1>5, <1>6, <1>7, <1>8, <1>9, <1>10, <1>11, WhoWritesJob
        DEF JobWriters

\* What claimPage does with the pages table it sees: it claims nothing, or one
\* waiting page of a running job that has room for it.
Claimed(r, table, p) ==
  /\ p \in Pages /\ job.status = "RUNNING" /\ table[p].status = "QUEUED"
  /\ Cardinality({q \in Pages : table[q].status = "RENDERING"}) < PageConcurrency
  /\ page' = [table EXCEPT ![p] = [table[p] EXCEPT !.status = "RENDERING", !.gen = @ + 1, !.lapsed = FALSE]]
  /\ renderer' = [renderer EXCEPT ![r] = [at |-> "render", p |-> p, gen |-> table[p].gen + 1]]

\* Claim does one of the two.
LEMMA ClaimEffect ==
  ASSUME NEW r, NEW table \in [Pages -> PageRow], Claim(r, table)
  PROVE  \/ page' = table /\ renderer' = [renderer EXCEPT ![r] = Nothing]
         \/ \E p \in Pages : Claimed(r, table, p)
<1>1. PICK picked \in {{p} : p \in Admissible(table)} \cup {{}} :
        /\ page' = [p \in Pages |->
             IF p \in picked
             THEN [table[p] EXCEPT !.status = "RENDERING", !.gen = @ + 1, !.lapsed = FALSE]
             ELSE table[p]]
        /\ renderer' = [renderer EXCEPT ![r] =
             IF picked = {} THEN Nothing
             ELSE LET p == CHOOSE q \in picked : TRUE
                  IN  [at |-> "render", p |-> p, gen |-> table[p].gen + 1]]
  BY DEF Claim
<1>2. CASE picked = {}
  BY <1>1, <1>2
<1>3. CASE picked # {}
  <2>1. PICK p \in Admissible(table) : picked = {p}
    BY <1>1, <1>3
  <2>2. (CHOOSE q \in picked : TRUE) = p
    BY <2>1
  <2>3. renderer' = [renderer EXCEPT ![r] = [at |-> "render", p |-> p, gen |-> table[p].gen + 1]]
    BY <1>1, <1>3, <2>2
  <2>4. page' = [table EXCEPT ![p] = [table[p] EXCEPT !.status = "RENDERING", !.gen = @ + 1, !.lapsed = FALSE]]
    BY <1>1, <2>1
  <2> QED BY <2>1, <2>3, <2>4 DEF Admissible, Claimed
<1> QED BY <1>2, <1>3

-----------------------------------------------------------------------------
(* What one step does to one page. The invariants about pages are preserved  *)
(* because of this alone.                                                    *)

Same(q) == page'[q].gen = page[q].gen /\ page'[q].bundle = page[q].bundle
Unlocked(q) == q \notin admission.pages \/ admission'.pages = {}

PageKept(q) ==
  /\ Same(q) /\ page'[q].status = page[q].status
  /\ page[q].lapsed /\ q \in admission.pages => page'[q].lapsed
PageBundled(q) ==
  /\ page'[q].status = page[q].status /\ page'[q].gen = page[q].gen /\ page'[q].lapsed = page[q].lapsed
  /\ \/ /\ page[q].bundle \in {"AVAILABLE", "DELETE_PENDING"} /\ page'[q].bundle = "DELETE_PENDING"
        /\ job.status \in Ended
     \/ page[q].bundle = "DELETE_PENDING" /\ page'[q].bundle = "DELETED"
PageAdded(q) ==
  /\ Same(q) /\ page[q].status = "NONE" /\ page'[q].status \in {"QUEUED", "CANCELLED"}
  /\ job.status = "INGESTING"
PageClaimed(q) ==
  /\ page'[q].gen = page[q].gen + 1 /\ page'[q].bundle = page[q].bundle
  /\ page[q].status = "QUEUED" \/ (page[q].status = "RENDERING" /\ Unlocked(q))
  /\ page[q].gen < MaxRetries /\ page'[q].status = "RENDERING" /\ job.status = "RUNNING"
PageRequeued(q) ==
  /\ Same(q) /\ Unlocked(q) /\ page[q].status = "RENDERING" /\ page'[q].status = "QUEUED"
  /\ page[q].gen < MaxRetries
PageFailed(q) ==
  Same(q) /\ Unlocked(q) /\ page[q].status = "RENDERING" /\ page'[q].status = "FAILED"
PageCancelled(q) ==
  /\ Same(q) /\ page'[q].status = "CANCELLED"
  /\ page[q].status = "QUEUED" \/ (page[q].status = "RENDERING" /\ Unlocked(q))
PageSucceeded(q) ==
  /\ page'[q].gen = page[q].gen /\ page'[q].bundle = "AVAILABLE" /\ Unlocked(q)
  /\ page[q].status = "RENDERING" /\ page'[q].status = "SUCCEEDED"
  /\ \E r \in Renderers : renderer[r].at = "complete" /\ renderer[r].p = q /\ HoldsPage(r)

PageEffect(q) ==
  \/ PageKept(q) \/ PageBundled(q) \/ PageAdded(q) \/ PageClaimed(q) \/ PageRequeued(q)
  \/ PageFailed(q) \/ PageCancelled(q) \/ PageSucceeded(q)

PagesMove == page' \in [Pages -> PageRow] /\ \A q \in Pages : PageEffect(q)

\* A page that a step leaves as it is.
LEMMA Untouched ==
  ASSUME NEW q, page'[q] = page[q]
  PROVE  PageEffect(q)
BY DEF PageEffect, PageKept, Same

\* Time, targets and the reconciliation.
LEMMA RowsMove ==
  ASSUME TypeInv,
         \/ \E p \in Pages : PageLapses(p) \/ BundleAges(p)
         \/ \E i \in Ingesters : AddTargets(i)
         \/ \E c \in Reconcilers : OpenReconciliation(c)
  PROVE  PagesMove
<1>0. page \in [Pages -> PageRow] /\ \A q \in Pages : page[q] \in PageRow
  BY DEF TypeInv, Types
<1>1. ASSUME NEW p \in Pages, PageLapses(p) PROVE PagesMove
  <2>1. page' = [page EXCEPT ![p] = [page[p] EXCEPT !.lapsed = TRUE]]
    BY <1>1 DEF PageLapses
  <2>2. [page[p] EXCEPT !.lapsed = TRUE] \in PageRow
    BY <1>0 DEF PageRow
  <2>3. PageEffect(p)
    BY <1>0, <2>1, <2>2 DEF PageRow, PageEffect, PageKept, Same
  <2> QED BY <1>0, <2>1, <2>2, <2>3, Untouched DEF PagesMove
<1>2. ASSUME NEW p \in Pages, BundleAges(p) PROVE PagesMove
  <2>1. page' = [page EXCEPT ![p] = [page[p] EXCEPT !.due = TRUE]]
    BY <1>2 DEF BundleAges
  <2>2. [page[p] EXCEPT !.due = TRUE] \in PageRow
    BY <1>0 DEF PageRow
  <2>3. PageEffect(p)
    BY <1>0, <2>1, <2>2 DEF PageRow, PageEffect, PageKept, Same
  <2> QED BY <1>0, <2>1, <2>2, <2>3, Untouched DEF PagesMove
<1>3. ASSUME NEW i \in Ingesters, AddTargets(i) PROVE PagesMove
  <2> DEFINE Row(q) == [page[q] EXCEPT !.status = IF q \in ingester[i].chosen THEN "QUEUED" ELSE "CANCELLED",
                                       !.rejected = q \notin ingester[i].chosen]
  <2>1. PICK batch : page' = [q \in Pages |-> IF q \in batch /\ page[q].status = "NONE" THEN Row(q) ELSE page[q]]
    BY <1>3 DEF AddTargets
  <2>2. job.status = "INGESTING"
    BY <1>3 DEF AddTargets, HoldsPhase
  <2>3. ASSUME NEW q \in Pages PROVE page'[q] \in PageRow /\ PageEffect(q)
    <3>1. CASE q \in batch /\ page[q].status = "NONE"
      <4>1. page'[q] = Row(q) /\ page[q] \in PageRow
        BY <1>0, <2>1, <3>1
      <4>2. /\ page'[q] \in PageRow /\ page'[q].gen = page[q].gen /\ page'[q].bundle = page[q].bundle
            /\ page'[q].status \in {"QUEUED", "CANCELLED"}
        BY <4>1 DEF PageRow
      <4> QED BY <2>2, <3>1, <4>2 DEF PageEffect, PageAdded, Same
    <3>2. CASE ~(q \in batch /\ page[q].status = "NONE")
      BY <1>0, <2>1, <3>2, Untouched
    <3> QED BY <3>1, <3>2
  <2> QED BY <2>1, <2>3 DEF PagesMove
<1>4. ASSUME NEW c \in Reconcilers, OpenReconciliation(c) PROVE PagesMove
  <2>1. page' = [q \in Pages |-> CancelledPage(q)]
    BY <1>4 DEF OpenReconciliation
  <2>2. ASSUME NEW q \in Pages PROVE page'[q] \in PageRow /\ PageEffect(q)
    <3>1. CASE page[q].status = "QUEUED"
      <4>1. page'[q] = [page[q] EXCEPT !.status = "CANCELLED"]
        BY <2>1, <3>1 DEF CancelledPage
      <4>2. page'[q] \in PageRow /\ Same(q) /\ page'[q].status = "CANCELLED"
        BY <1>0, <4>1 DEF PageRow, Same
      <4> QED BY <3>1, <4>2 DEF PageEffect, PageCancelled
    <3>2. CASE page[q].status # "QUEUED"
      BY <1>0, <2>1, <3>2, Untouched DEF CancelledPage
    <3> QED BY <3>1, <3>2
  <2> QED BY <2>1, <2>2 DEF PagesMove
<1> QED BY <1>1, <1>2, <1>3, <1>4

\* Leases and outcomes: what the renderers do to the page they hold.
LEMMA HolderMoves ==
  ASSUME TypeInv, NEW r \in Renderers, ExtendPageLease(r) \/ CompletePage(r) \/ FailPage(r)
  PROVE  PagesMove
<1> DEFINE p == renderer[r].p
<1>0. page \in [Pages -> PageRow] /\ \A q \in Pages : page[q] \in PageRow
  BY DEF TypeInv, Types
<1>1. p \in Pages
  BY DEF ExtendPageLease, CompletePage, FailPage, TypeInv, LoopsTyped
<1>2. page[p] \in PageRow
  BY <1>0, <1>1
<1>3. ASSUME NEW row \in PageRow, page' = [page EXCEPT ![p] = row], PageEffect(p)
      PROVE  PagesMove
  BY <1>0, <1>1, <1>3, Untouched DEF PagesMove
<1>4. CASE page' = page
  BY <1>0, <1>4, Untouched DEF PagesMove
<1> HIDE DEF p
<1>5. CASE ExtendPageLease(r)
  <2> DEFINE row == [page[p] EXCEPT !.lapsed = FALSE]
  <2>1. page' = [page EXCEPT ![p] = row] /\ PageFree(p)
    BY <1>5 DEF ExtendPageLease, p
  <2>2. row \in PageRow /\ row.status = page[p].status /\ row.gen = page[p].gen /\ row.bundle = page[p].bundle
    BY <1>2 DEF PageRow
  <2>3. page'[p] = row
    BY <1>0, <1>1, <2>1
  <2> HIDE DEF row
  <2>4. PageEffect(p)
    BY <2>1, <2>2, <2>3 DEF PageFree, PageEffect, PageKept, Same
  <2> QED BY <1>3, <2>1, <2>2, <2>4
<1>6. CASE CompletePage(r)
  <2>0. /\ page[p].status = "RENDERING" /\ PageFree(p) /\ renderer[r].at = "complete" /\ HoldsPage(r)
    BY <1>6 DEF CompletePage, HoldsPage, p
  <2>1. ASSUME NEW s \in {"CANCELLED", "FAILED"},
               page' = [page EXCEPT ![p] = [page[p] EXCEPT !.status = s, !.lapsed = FALSE]]
        PROVE  PagesMove
    <3> DEFINE row == [page[p] EXCEPT !.status = s, !.lapsed = FALSE]
    <3>1. row \in PageRow /\ row.status = s /\ row.gen = page[p].gen /\ row.bundle = page[p].bundle
      BY <1>2 DEF PageRow
    <3>2. page'[p] = row /\ page' = [page EXCEPT ![p] = row]
      BY <1>0, <1>1, <2>1
    <3> HIDE DEF row
    <3>3. PageEffect(p)
      BY <2>0, <3>1, <3>2 DEF PageFree, PageEffect, PageCancelled, PageFailed, Unlocked, Same
    <3> QED BY <1>3, <3>1, <3>2, <3>3
  <2>2. ASSUME page' = [page EXCEPT ![p] = [page[p] EXCEPT !.status = "SUCCEEDED", !.lapsed = FALSE,
                                                           !.bundle = "AVAILABLE", !.due = TRUE]]
        PROVE  PagesMove
    <3> DEFINE row == [page[p] EXCEPT !.status = "SUCCEEDED", !.lapsed = FALSE, !.bundle = "AVAILABLE", !.due = TRUE]
    <3>1. row \in PageRow /\ row.status = "SUCCEEDED" /\ row.gen = page[p].gen /\ row.bundle = "AVAILABLE"
      BY <1>2 DEF PageRow
    <3>2. page'[p] = row /\ page' = [page EXCEPT ![p] = row]
      BY <1>0, <1>1, <2>2
    <3> HIDE DEF row
    <3>3. PageEffect(p)
      BY <2>0, <3>1, <3>2 DEF PageFree, PageEffect, PageSucceeded, Unlocked, p
    <3> QED BY <1>3, <3>1, <3>2, <3>3
  <2> QED BY <1>0, <1>1, <1>6, <2>1, <2>2 DEF CompletePage, p
<1>7. CASE FailPage(r)
  <2>1. CASE ~HoldsPage(r)
    BY <1>4, <1>7, <2>1 DEF FailPage
  <2>2. CASE HoldsPage(r)
    <3>0. page[p].status = "RENDERING" /\ PageFree(p) /\ page[p].gen = renderer[r].gen
      BY <1>7, <2>2 DEF FailPage, HoldsPage, p
    <3>1. ASSUME NEW s \in {"QUEUED", "FAILED"}, s = "QUEUED" => page[p].gen < MaxRetries,
                 page' = [page EXCEPT ![p] = [page[p] EXCEPT !.status = s, !.lapsed = FALSE]]
          PROVE  PagesMove
      <4> DEFINE row == [page[p] EXCEPT !.status = s, !.lapsed = FALSE]
      <4>1. row \in PageRow /\ row.status = s /\ row.gen = page[p].gen /\ row.bundle = page[p].bundle
        BY <1>2 DEF PageRow
      <4>2. page'[p] = row /\ page' = [page EXCEPT ![p] = row]
        BY <1>0, <1>1, <3>1
      <4> HIDE DEF row
      <4>3. PageEffect(p)
        BY <3>0, <3>1, <4>1, <4>2 DEF PageFree, PageEffect, PageRequeued, PageFailed, Unlocked, Same
      <4> QED BY <1>3, <4>1, <4>2, <4>3
    <3>2. \/ page' = [page EXCEPT ![p] = [page[p] EXCEPT !.status = "QUEUED", !.lapsed = FALSE]]
             /\ renderer[r].gen < MaxRetries
          \/ page' = [page EXCEPT ![p] = [page[p] EXCEPT !.status = "FAILED", !.lapsed = FALSE]]
      BY <1>7, <2>2 DEF FailPage, p
    <3> QED BY <3>0, <3>1, <3>2
  <2> QED BY <2>1, <2>2
<1> QED BY <1>5, <1>6, <1>7

\* claimPage: lapsed pages go back to the queue or fail, and one may be claimed.
LEMMA AdmissionMoves ==
  ASSUME TypeInv, NEW r \in Renderers, CloseAdmission(r) \/ ClaimPage(r)
  PROVE  PagesMove
<1>0. page \in [Pages -> PageRow] /\ \A q \in Pages : page[q] \in PageRow
  BY DEF TypeInv, Types
<1>1. ASSUME NEW table \in [Pages -> PageRow], Claim(r, table),
             \A q \in Pages :
               \/ table[q] = page[q]
               \/ /\ table[q].gen = page[q].gen /\ table[q].bundle = page[q].bundle
                  /\ page[q].status = "RENDERING" /\ Unlocked(q)
                  /\ \/ table[q].status = "QUEUED" /\ page[q].gen < MaxRetries
                     \/ table[q].status = "FAILED"
      PROVE  PagesMove
  <2>1. ASSUME NEW q \in Pages, page'[q] = table[q] PROVE page'[q] \in PageRow /\ PageEffect(q)
    BY <1>1, <2>1 DEF PageEffect, PageKept, PageRequeued, PageFailed, Same
  <2>2. CASE page' = table
    BY <2>1, <2>2 DEF PagesMove
  <2>3. ASSUME NEW p \in Pages, Claimed(r, table, p) PROVE PagesMove
    <3> DEFINE row == [table[p] EXCEPT !.status = "RENDERING", !.gen = @ + 1, !.lapsed = FALSE]
    <3>1. /\ page' = [table EXCEPT ![p] = row] /\ page'[p] = row
          /\ job.status = "RUNNING" /\ table[p].status = "QUEUED"
      BY <2>3 DEF Claimed
    <3>2. /\ table[p].gen = page[p].gen /\ table[p].bundle = page[p].bundle /\ page[p].gen < MaxRetries
          /\ page[p].status = "QUEUED" \/ (page[p].status = "RENDERING" /\ Unlocked(p))
      BY <1>1, <3>1 DEF TypeInv, PageRows
    <3>3. table[p].gen + 1 \in 0 .. MaxRetries
      BY <1>0, <3>2, LimitsAssumption DEF PageRow
    <3>4. row \in PageRow /\ row.status = "RENDERING" /\ row.gen = table[p].gen + 1 /\ row.bundle = table[p].bundle
      BY <3>3 DEF PageRow
    <3> HIDE DEF row
    <3>5. PageEffect(p)
      BY <3>1, <3>2, <3>4 DEF PageEffect, PageClaimed
    <3>6. ASSUME NEW q \in Pages PROVE page'[q] \in PageRow /\ PageEffect(q)
      BY <2>1, <3>1, <3>4, <3>5
    <3> QED BY <3>1, <3>4, <3>6 DEF PagesMove
  <2> QED BY <1>1, <2>2, <2>3, ClaimEffect
<1>2. CASE CloseAdmission(r)
  <2> DEFINE table == [p \in Pages |-> IF p \in admission.pages THEN Reclaimed(p) ELSE page[p]]
  <2>1. Claim(r, table) /\ \A q \in Pages : Unlocked(q)
    BY <1>2 DEF CloseAdmission, Unlocked, NoAdmission
  <2>2. ASSUME NEW q \in admission.pages, q \in Pages
        PROVE  /\ Reclaimed(q) \in PageRow
               /\ Reclaimed(q).gen = page[q].gen /\ Reclaimed(q).bundle = page[q].bundle
               /\ \/ Reclaimed(q).status = "QUEUED" /\ page[q].gen < MaxRetries
                  \/ Reclaimed(q).status = "FAILED"
    BY <1>0, <2>2 DEF Reclaimed, PageRow
  <2>3. \A q \in admission.pages : page[q].status = "RENDERING"
    BY DEF TypeInv, AdmissionLocks
  <2> HIDE DEF Reclaimed
  <2>4. table \in [Pages -> PageRow]
    BY <1>0, <2>2
  <2> QED BY <1>1, <2>1, <2>2, <2>3, <2>4
<1>3. CASE ClaimPage(r)
  BY <1>0, <1>1, <1>3 DEF ClaimPage
<1> QED BY <1>2, <1>3

\* The collector: the rows of bundles, and what a failed deletion puts off.
LEMMA CollectorMoves ==
  ASSUME TypeInv, NEW k \in Collectors,
         (\E p \in Pages : ClaimBundle(k, p)) \/ CompleteBundle(k) \/ RetryDeletion(k)
  PROVE  PagesMove
<1>0. page \in [Pages -> PageRow] /\ \A q \in Pages : page[q] \in PageRow
  BY DEF TypeInv, Types
<1>1. ASSUME NEW p \in Pages, ClaimBundle(k, p) PROVE PagesMove
  <2> DEFINE row == [page[p] EXCEPT !.bundle = "DELETE_PENDING", !.due = FALSE]
  <2>1. page' = [page EXCEPT ![p] = row] /\ page'[p] = row
    BY <1>0, <1>1 DEF ClaimBundle
  <2>2. job.status \in Ended /\ page[p].bundle \in {"AVAILABLE", "DELETE_PENDING"}
    BY <1>1 DEF ClaimBundle, DueBundles
  <2>3. /\ row \in PageRow /\ row.status = page[p].status /\ row.gen = page[p].gen
        /\ row.lapsed = page[p].lapsed /\ row.bundle = "DELETE_PENDING"
    BY <1>0 DEF PageRow
  <2> HIDE DEF row
  <2>4. PageEffect(p)
    BY <2>1, <2>2, <2>3 DEF PageEffect, PageBundled
  <2> QED BY <1>0, <2>1, <2>3, <2>4, Untouched DEF PagesMove
<1>2. CASE CompleteBundle(k)
  <2>0. PICK p \in Pages : collector[k].id = <<p>>
    BY <1>2 DEF CompleteBundle, TypeInv, LoopsTyped, Targeted
  <2> DEFINE row == [page[p] EXCEPT !.bundle = "DELETED", !.due = FALSE]
  <2>1. page' = [page EXCEPT ![p] = row] /\ page'[p] = row /\ page[p].bundle = "DELETE_PENDING"
    <3>1. collector[k].id[1] = p
      BY <2>0
    <3>2. /\ page' = [page EXCEPT ![p].bundle = "DELETED", ![p].due = FALSE]
          /\ page[p].bundle = "DELETE_PENDING"
      BY <1>2, <3>1 DEF CompleteBundle
    <3> QED BY <1>0, <3>2
  <2>3. /\ row \in PageRow /\ row.status = page[p].status /\ row.gen = page[p].gen
        /\ row.lapsed = page[p].lapsed /\ row.bundle = "DELETED"
    BY <1>0 DEF PageRow
  <2> HIDE DEF row
  <2>4. PageEffect(p)
    BY <2>1, <2>3 DEF PageEffect, PageBundled
  <2> QED BY <1>0, <2>1, <2>3, <2>4, Untouched DEF PagesMove
<1>3. CASE RetryDeletion(k)
  <2>1. page' = [p \in Pages |-> IF <<p>> = collector[k].id /\ page[p].bundle = "DELETE_PENDING"
                                 THEN [page[p] EXCEPT !.due = FALSE] ELSE page[p]]
    BY <1>3 DEF RetryDeletion
  <2>2. ASSUME NEW q \in Pages PROVE page'[q] \in PageRow /\ PageEffect(q)
    <3>1. CASE page'[q] = page[q]
      BY <1>0, <3>1, Untouched
    <3>2. CASE page'[q] = [page[q] EXCEPT !.due = FALSE]
      <4>1. /\ page'[q] \in PageRow /\ page'[q].status = page[q].status /\ page'[q].gen = page[q].gen
            /\ page'[q].lapsed = page[q].lapsed /\ page'[q].bundle = page[q].bundle
        BY <1>0, <3>2 DEF PageRow
      <4> QED BY <4>1 DEF PageEffect, PageKept, Same
    <3> QED BY <2>1, <3>1, <3>2
  <2> QED BY <2>1, <2>2 DEF PagesMove
<1> QED BY <1>1, <1>2, <1>3

\* Every step does one of the eight things to each page.
LEMMA StepMoves == TypeInv /\ [Next]_vars => PagesMove
<1>1. ASSUME TypeInv, page' = page PROVE PagesMove
  BY <1>1, Untouched DEF PagesMove, TypeInv, Types
<1> QED BY <1>1, WhoWritesPages, RowsMove, HolderMoves, AdmissionMoves, CollectorMoves DEF PageWriters

\* The attempts of a page are numbered upwards, an outcome is final, and a page
\* that an open claimPage has locked stays as it is.
LEMMA OutcomesFinal ==
  ASSUME TypeInv, PagesMove
  PROVE  /\ \A q \in Pages : page'[q].gen >= page[q].gen
         /\ \A q \in Pages : page[q].status \in {"SUCCEEDED", "FAILED", "CANCELLED"} =>
              page'[q].status = page[q].status /\ page'[q].gen = page[q].gen
         /\ \A q \in Pages : q \in admission.pages /\ admission' = admission =>
              page'[q].status = page[q].status /\ page'[q].gen = page[q].gen /\ page'[q].lapsed
<1> SUFFICES ASSUME NEW q \in Pages
             PROVE  /\ page'[q].gen >= page[q].gen
                    /\ page[q].status \in {"SUCCEEDED", "FAILED", "CANCELLED"} =>
                         page'[q].status = page[q].status /\ page'[q].gen = page[q].gen
                    /\ q \in admission.pages /\ admission' = admission =>
                         page'[q].status = page[q].status /\ page'[q].gen = page[q].gen /\ page'[q].lapsed
  OBVIOUS
<1>0. page[q].gen \in Nat /\ PageEffect(q)
  BY LimitsAssumption DEF TypeInv, Types, PageRow, PagesMove
<1>1. q \in admission.pages => page[q].status = "RENDERING" /\ page[q].lapsed
  BY DEF TypeInv, AdmissionLocks
<1> QED BY <1>0, <1>1 DEF PageEffect, PageKept, PageBundled, PageAdded, PageClaimed, PageRequeued,
           PageFailed, PageCancelled, PageSucceeded, Same, Unlocked

\* The rows of the pages table stay consistent.
LEMMA NextPageRows == TypeInv /\ PagesMove => PageRows'
<1> SUFFICES ASSUME TypeInv, PagesMove, NEW q \in Pages
             PROVE  /\ page'[q].status = "QUEUED" => page'[q].gen < MaxRetries
                    /\ page'[q].status = "NONE" => page'[q].gen = 0
                    /\ page'[q].status \in {"RENDERING", "SUCCEEDED"} => page'[q].gen >= 1
                    /\ page'[q].bundle # "NONE" => page'[q].status = "SUCCEEDED"
  BY DEF PageRows
<1>0. page[q].gen \in Nat /\ PageEffect(q)
  BY LimitsAssumption DEF TypeInv, Types, PageRow, PagesMove
<1>1. /\ page[q].status = "QUEUED" => page[q].gen < MaxRetries
      /\ page[q].status = "NONE" => page[q].gen = 0
      /\ page[q].status \in {"RENDERING", "SUCCEEDED"} => page[q].gen >= 1
      /\ page[q].bundle # "NONE" => page[q].status = "SUCCEEDED"
  BY DEF TypeInv, PageRows
<1> USE LimitsAssumption
<1>2. CASE PageKept(q) \/ PageBundled(q)
  BY <1>0, <1>1, <1>2 DEF PageKept, PageBundled, Same
<1>3. CASE PageAdded(q) \/ PageCancelled(q) \/ PageFailed(q) \/ PageRequeued(q)
  BY <1>0, <1>1, <1>3 DEF PageAdded, PageCancelled, PageFailed, PageRequeued, Same
<1>4. CASE PageClaimed(q) \/ PageSucceeded(q)
  BY <1>0, <1>1, <1>4 DEF PageClaimed, PageSucceeded
<1> QED BY <1>0, <1>2, <1>3, <1>4 DEF PageEffect

\* The bucket holds bundles and finals only.
LEMMA NextStore == TypeInv /\ [Next]_vars => (store \subseteq Stored)'
<1> SUFFICES ASSUME TypeInv, [Next]_vars PROVE store' \subseteq Stored
  BY DEF Stored, Finals, Bundle, Final
<1>0. store \subseteq Stored /\ (store' = store \/ StoreWriters)
  BY WhoMoves DEF Framed, TypeInv, Types
<1>1. ASSUME NEW r \in Renderers, RenderPage(r) PROVE store' \subseteq Stored
  <2>1. renderer[r].p \in Pages /\ renderer[r].gen \in 1 .. MaxRetries
    BY <1>1, LimitsAssumption DEF RenderPage, TypeInv, LoopsTyped, Types, Rendering
  <2>2. Bundle(renderer[r].p, renderer[r].gen) \in Stored
    BY <2>1 DEF Stored
  <2> QED BY <1>0, <1>1, <2>2 DEF RenderPage
<1>2. ASSUME NEW r \in Renderers, DiscardBundle(r) PROVE store' \subseteq Stored
  BY <1>0, <1>2 DEF DiscardBundle
<1>3. ASSUME NEW a \in Assemblers, CopyArtifact(a) PROVE store' \subseteq Stored
  <2>1. assembler[a].gen \in 1 .. MaxStaged
    BY <1>3, LimitsAssumption DEF CopyArtifact, TypeInv, LoopsTyped, Types, Assembly
  <2>2. \A k \in Parts : Final(<<assembler[a].gen, k>>) \in Stored
    BY <2>1 DEF Stored, Finals
  <2> QED BY <1>0, <1>3, <2>2 DEF CopyArtifact
<1>4. ASSUME NEW k \in Collectors, DeleteObject(k) PROVE store' \subseteq Stored
  BY <1>0, <1>4 DEF DeleteObject
<1> QED BY <1>0, <1>1, <1>2, <1>3, <1>4 DEF StoreWriters

\* The ingesters' memories stay typed.
LEMMA NextIngester == TypeInv /\ [Next]_vars => (ingester \in [Ingesters -> Ingestion])'
<1> SUFFICES ASSUME TypeInv, [Next]_vars PROVE ingester' \in [Ingesters -> Ingestion]
  BY DEF Ingestion
<1>0. /\ ingester \in [Ingesters -> Ingestion]
      /\ ingester' = ingester \/ \E i \in Ingesters : IngesterSteps(i)
  BY WhoMoves DEF Framed, TypeInv, Types
<1>1. ASSUME NEW i \in Ingesters, IngesterSteps(i) PROVE ingester' \in [Ingesters -> Ingestion]
  <2>0. ingester[i] \in Ingestion
    BY <1>0
  <2>1. [at |-> "idle", todo |-> {}, chosen |-> {}] \in Ingestion
    BY DEF Ingestion
  <2>2. CASE ClaimIngestion(i)
    <3>1. [ingester[i] EXCEPT !.at = "list"] \in Ingestion
      BY <2>0 DEF Ingestion
    <3> QED BY <1>0, <2>2, <3>1 DEF ClaimIngestion
  <2>3. CASE ListTargets(i)
    <3>1. PICK todo \in SUBSET Pages, chosen \in SUBSET Pages :
            ingester' = [ingester EXCEPT ![i] = [at |-> "add", todo |-> todo, chosen |-> chosen]]
      BY <2>3 DEF ListTargets
    <3>2. [at |-> "add", todo |-> todo, chosen |-> chosen] \in Ingestion
      BY DEF Ingestion
    <3> QED BY <1>0, <3>1, <3>2
  <2>4. CASE AddTargets(i)
    <3>1. PICK batch : ingester' = [ingester EXCEPT ![i].todo = @ \ batch]
      BY <2>4 DEF AddTargets
    <3>2. [ingester[i] EXCEPT !.todo = @ \ batch] \in Ingestion
      BY <2>0 DEF Ingestion
    <3> QED BY <1>0, <3>1, <3>2
  <2>5. CASE FinishIngestion(i) \/ IngestionFails(i) \/ IngesterCrashes(i)
    BY <1>0, <2>1, <2>5 DEF FinishIngestion, IngestionFails, IngesterCrashes
  <2> QED BY <1>1, <2>2, <2>3, <2>4, <2>5 DEF IngesterSteps
<1> QED BY <1>0, <1>1

\* What a renderer's step leaves in its memory: nothing, the page it had at
\* another step, or a page it has just claimed.
RendererMoves(r) ==
  \/ renderer' = [renderer EXCEPT ![r] = Nothing]
  \/ /\ renderer[r].at # "idle"
     /\ \E step \in {"complete", "discard", "fail"} : renderer' = [renderer EXCEPT ![r] = [renderer[r] EXCEPT !.at = step]]
  \/ \E p \in Pages : /\ page'[p].gen \in 1 .. MaxRetries /\ page'[p].status = "RENDERING"
                      /\ renderer' = [renderer EXCEPT ![r] = [at |-> "render", p |-> p, gen |-> page'[p].gen]]

\* Every step of a renderer does one of these.
LEMMA RenderersMove ==
  ASSUME TypeInv, NEW r \in Renderers, RendererSteps(r)
  PROVE  RendererMoves(r)
<1>0. renderer \in [Renderers -> Rendering] /\ page \in [Pages -> PageRow]
  BY DEF TypeInv, Types
<1>1. CASE RenderPage(r) \/ RenderFails(r) \/ CompletePageFails(r)
  BY <1>0, <1>1 DEF RenderPage, RenderFails, CompletePageFails, Goes, RendererMoves
<1>2. CASE CompletePage(r)
  BY <1>0, <1>2 DEF CompletePage, Goes, RendererMoves
<1>3. CASE DiscardBundle(r) \/ FailPage(r) \/ RendererCrashes(r)
  BY <1>3 DEF DiscardBundle, FailPage, RendererCrashes, RendererMoves
<1>4. ASSUME NEW table \in [Pages -> PageRow], Claim(r, table),
             \A q \in Pages : table[q].status = "QUEUED" => table[q].gen < MaxRetries
      PROVE  RendererMoves(r)
  <2>1. ASSUME NEW p \in Pages, Claimed(r, table, p) PROVE RendererMoves(r)
    <3> DEFINE row == [table[p] EXCEPT !.status = "RENDERING", !.gen = @ + 1, !.lapsed = FALSE]
    <3>1. /\ page'[p] = row /\ table[p].status = "QUEUED"
          /\ renderer' = [renderer EXCEPT ![r] = [at |-> "render", p |-> p, gen |-> table[p].gen + 1]]
      BY <2>1 DEF Claimed
    <3>2. table[p] \in PageRow /\ table[p].gen < MaxRetries
      BY <1>4, <3>1
    <3>3. row.status = "RENDERING" /\ row.gen = table[p].gen + 1
      BY <3>2 DEF PageRow
    <3>4. table[p].gen + 1 \in 1 .. MaxRetries
      BY <3>2, LimitsAssumption DEF PageRow
    <3> HIDE DEF row
    <3> QED BY <3>1, <3>3, <3>4 DEF RendererMoves
  <2> QED BY <1>4, <2>1, ClaimEffect DEF RendererMoves
<1>5. CASE CloseAdmission(r)
  <2> DEFINE table == [p \in Pages |-> IF p \in admission.pages THEN Reclaimed(p) ELSE page[p]]
  <2>1. Claim(r, table)
    BY <1>5 DEF CloseAdmission
  <2>2. ASSUME NEW q \in Pages
        PROVE  /\ Reclaimed(q) \in PageRow
               /\ Reclaimed(q).status = "QUEUED" => Reclaimed(q).gen < MaxRetries
    BY <1>0, <2>2 DEF Reclaimed, PageRow
  <2>3. \A q \in Pages : page[q].status = "QUEUED" => page[q].gen < MaxRetries
    BY DEF TypeInv, PageRows
  <2>4. table \in [Pages -> PageRow]
    BY <1>0, <2>2
  <2>5. \A q \in Pages : table[q].status = "QUEUED" => table[q].gen < MaxRetries
    BY <2>2, <2>3
  <2> QED BY <1>4, <2>1, <2>4, <2>5
<1>6. CASE ClaimPage(r)
  BY <1>0, <1>4, <1>6 DEF ClaimPage, TypeInv, PageRows
<1> QED BY <1>1, <1>2, <1>3, <1>5, <1>6 DEF RendererSteps

\* The renderers' memories stay typed.
LEMMA NextRenderer ==
  ASSUME TypeInv, [Next]_vars
  PROVE  /\ renderer' \in [Renderers -> Rendering]
         /\ \A r \in Renderers : renderer'[r].at # "idle" =>
              /\ renderer'[r].p \in Pages /\ renderer'[r].gen >= 1
              /\ renderer'[r].gen <= page'[renderer'[r].p].gen
<1>0. /\ renderer \in [Renderers -> Rendering] /\ PagesMove
      /\ \A s \in Renderers : renderer[s] \in Rendering
  BY StepMoves DEF TypeInv, Types
<1>1. \A q \in Pages : page'[q].gen >= page[q].gen /\ page'[q].gen \in Nat /\ page[q].gen \in Nat
  BY <1>0, OutcomesFinal, LimitsAssumption DEF PagesMove, PageRow, TypeInv, Types
<1>2. \A s \in Renderers : renderer[s].at # "idle" =>
        /\ renderer[s].p \in Pages /\ renderer[s].gen >= 1 /\ renderer[s].gen <= page[renderer[s].p].gen
  BY DEF TypeInv, LoopsTyped
<1>3. \A s \in Renderers : renderer[s].gen \in Nat
  BY <1>0, LimitsAssumption DEF Rendering
<1>4. \A s \in Renderers : renderer[s].at # "idle" =>
        /\ renderer[s].p \in Pages /\ renderer[s].gen >= 1 /\ renderer[s].gen <= page'[renderer[s].p].gen
  BY <1>1, <1>2, <1>3
<1>5. CASE renderer' = renderer
  BY <1>0, <1>4, <1>5
<1>6. ASSUME NEW r \in Renderers, RendererMoves(r)
      PROVE  /\ renderer' \in [Renderers -> Rendering]
             /\ \A s \in Renderers : renderer'[s].at # "idle" =>
                  /\ renderer'[s].p \in Pages /\ renderer'[s].gen >= 1
                  /\ renderer'[s].gen <= page'[renderer'[s].p].gen
  <2>1. ASSUME NEW row \in Rendering, renderer' = [renderer EXCEPT ![r] = row],
               row.at # "idle" => row.p \in Pages /\ row.gen >= 1 /\ row.gen <= page'[row.p].gen
        PROVE  /\ renderer' \in [Renderers -> Rendering]
               /\ \A s \in Renderers : renderer'[s].at # "idle" =>
                    /\ renderer'[s].p \in Pages /\ renderer'[s].gen >= 1
                    /\ renderer'[s].gen <= page'[renderer'[s].p].gen
    <3>1. \A s \in Renderers : renderer'[s] = IF s = r THEN row ELSE renderer[s]
      BY <1>0, <2>1
    <3> QED BY <1>0, <1>4, <2>1, <3>1
  <2>2. CASE renderer' = [renderer EXCEPT ![r] = Nothing]
    <3>1. Nothing \in Rendering /\ Nothing.at = "idle"
      BY LimitsAssumption DEF Nothing, Rendering
    <3> QED BY <2>1, <2>2, <3>1
  <2>3. ASSUME NEW step \in {"complete", "discard", "fail"}, renderer[r].at # "idle",
               renderer' = [renderer EXCEPT ![r] = [renderer[r] EXCEPT !.at = step]]
        PROVE  /\ renderer' \in [Renderers -> Rendering]
               /\ \A s \in Renderers : renderer'[s].at # "idle" =>
                    /\ renderer'[s].p \in Pages /\ renderer'[s].gen >= 1
                    /\ renderer'[s].gen <= page'[renderer'[s].p].gen
    <3> DEFINE row == [renderer[r] EXCEPT !.at = step]
    <3>1. row \in Rendering /\ row.p = renderer[r].p /\ row.gen = renderer[r].gen
      BY <1>0 DEF Rendering
    <3> HIDE DEF row
    <3>2. renderer' = [renderer EXCEPT ![r] = row]
      BY <2>3 DEF row
    <3> QED BY <1>4, <2>1, <2>3, <3>1, <3>2
  <2>4. ASSUME NEW p \in Pages, page'[p].gen \in 1 .. MaxRetries,
               renderer' = [renderer EXCEPT ![r] = [at |-> "render", p |-> p, gen |-> page'[p].gen]]
        PROVE  /\ renderer' \in [Renderers -> Rendering]
               /\ \A s \in Renderers : renderer'[s].at # "idle" =>
                    /\ renderer'[s].p \in Pages /\ renderer'[s].gen >= 1
                    /\ renderer'[s].gen <= page'[renderer'[s].p].gen
    <3> DEFINE row == [at |-> "render", p |-> p, gen |-> page'[p].gen]
    <3>1. page'[p].gen \in 0 .. MaxRetries /\ page'[p].gen >= 1
      BY <2>4, LimitsAssumption
    <3>2. row \in Rendering /\ row.p = p /\ row.gen = page'[p].gen
      BY <3>1 DEF Rendering
    <3>3. row.gen <= page'[row.p].gen
      BY <1>1, <3>2
    <3> HIDE DEF row
    <3>4. renderer' = [renderer EXCEPT ![r] = row]
      BY <2>4 DEF row
    <3> QED BY <2>1, <3>1, <3>2, <3>3, <3>4
  <2> QED BY <1>6, <2>2, <2>3, <2>4 DEF RendererMoves
<1> QED BY <1>5, <1>6, WhoMoves, RenderersMove DEF Framed

\* The assemblers' memories stay typed.
LEMMA NextAssembler ==
  ASSUME TypeInv, [Next]_vars
  PROVE  /\ assembler' \in [Assemblers -> Assembly]
         /\ \A a \in Assemblers : assembler'[a].at = "copy" => assembler'[a].gen >= 1
<1>0. /\ assembler \in [Assemblers -> Assembly] /\ \A b \in Assemblers : assembler[b] \in Assembly
      /\ \A b \in Assemblers : assembler[b].at = "copy" => assembler[b].gen >= 1
  BY DEF TypeInv, Types, LoopsTyped
<1>1. ASSUME NEW a \in Assemblers, NEW row \in Assembly, assembler' = [assembler EXCEPT ![a] = row],
             row.at = "copy" => row.gen >= 1
      PROVE  /\ assembler' \in [Assemblers -> Assembly]
             /\ \A b \in Assemblers : assembler'[b].at = "copy" => assembler'[b].gen >= 1
  BY <1>0, <1>1
<1>2. ASSUME NEW a \in Assemblers, AssemblerSteps(a)
      PROVE  \E row \in Assembly : /\ assembler' = [assembler EXCEPT ![a] = row]
                                   /\ row.at = "copy" => row.gen >= 1
  <2>0. assembler[a] \in Assembly
    BY <1>0
  <2>1. \A at \in {"idle", "build", "stage", "copy", "fail"} :
          [at |-> at, gen |-> 0] \in Assembly /\ [assembler[a] EXCEPT !.at = at] \in Assembly
    BY <2>0, LimitsAssumption DEF Assembly
  <2>2. CASE ClaimAssembly(a) \/ RetryAssembly(a) \/ AssemblerCrashes(a)
    BY <2>1, <2>2 DEF ClaimAssembly, RetryAssembly, AssemblerCrashes
  <2>3. CASE BuildArchives(a) \/ AssemblyThrows(a)
    <3>1. \E at \in {"stage", "fail"} : assembler' = [assembler EXCEPT ![a] = [assembler[a] EXCEPT !.at = at]]
      BY <2>3 DEF BuildArchives, AssemblyThrows
    <3>2. \A at \in {"stage", "fail"} : [assembler[a] EXCEPT !.at = at].at = at
      BY <2>0 DEF Assembly
    <3> QED BY <2>1, <3>1, <3>2
  <2>4. CASE StageArtifacts(a)
    <3> DEFINE g == Cardinality(StagedGenerations) + 1
    <3>1. StagedGenerations \subseteq 1 .. MaxStaged /\ IsFiniteSet(1 .. MaxStaged)
      BY LimitsAssumption, FS_Interval DEF StagedGenerations
    <3>2. Cardinality(StagedGenerations) \in Nat
      BY <3>1, FS_Subset, FS_CardinalityType
    <3>3. /\ Cardinality(StagedGenerations) < MaxStaged
          /\ \E next \in {"copy", "fail"} : assembler' = [assembler EXCEPT ![a] = [at |-> next, gen |-> g]]
      BY <2>4 DEF StageArtifacts
    <3>4. g \in 0 .. MaxStaged /\ g >= 1
      BY <3>2, <3>3, LimitsAssumption
    <3> HIDE DEF g
    <3>5. \A next \in {"copy", "fail"} : [at |-> next, gen |-> g] \in Assembly
      BY <3>4 DEF Assembly
    <3> QED BY <3>3, <3>4, <3>5
  <2>5. CASE PublishArtifacts(a)
    <3>1. \E next \in {"idle", "fail"} :
            assembler' = [assembler EXCEPT ![a] = [at |-> next, gen |-> IF next = "idle" THEN 0 ELSE assembler[a].gen]]
      BY <2>5 DEF PublishArtifacts
    <3>2. 0 \in 0 .. MaxStaged /\ assembler[a].gen \in 0 .. MaxStaged
      BY <2>0, LimitsAssumption DEF Assembly
    <3>3. \A next \in {"idle", "fail"} :
            [at |-> next, gen |-> IF next = "idle" THEN 0 ELSE assembler[a].gen] \in Assembly
      BY <3>2 DEF Assembly
    <3> QED BY <3>1, <3>3
  <2> QED BY <1>2, <2>2, <2>3, <2>4, <2>5 DEF AssemblerSteps
<1> QED BY <1>0, <1>1, <1>2, WhoMoves DEF Framed

\* The collectors' memories stay typed.
LEMMA NextCollector ==
  ASSUME TypeInv, [Next]_vars
  PROVE  /\ collector' \in [Collectors -> Target]
         /\ \A k \in Collectors : collector'[k].at # "idle" => Targeted(collector'[k], page')
<1>0. /\ collector \in [Collectors -> Target] /\ PagesMove
      /\ \A l \in Collectors : collector[l] \in Target
      /\ \A l \in Collectors : collector[l].at # "idle" => Targeted(collector[l], page)
  BY StepMoves DEF TypeInv, Types, LoopsTyped
<1>1. \A p \in Pages : page[p].status = "SUCCEEDED" => page'[p].status = "SUCCEEDED" /\ page'[p].gen = page[p].gen
  BY <1>0, OutcomesFinal
<1> DEFINE Still(t) == Targeted(t, page')
<1>2. \A l \in Collectors : collector[l].at # "idle" => Still(collector[l])
  BY <1>0, <1>1 DEF Targeted
<1>4. CASE collector' = collector
  BY <1>0, <1>2, <1>4
<1>5. ASSUME NEW k \in Collectors, CollectorSteps(k)
      PROVE  \E row \in Target : collector' = [collector EXCEPT ![k] = row] /\ (row.at # "idle" => Still(row))
  <2>0. collector[k] \in Target
    BY <1>0
  <2>1. ASSUME NEW o \in Finals, ClaimArtifact(k, o)
        PROVE  \E row \in Target : collector' = [collector EXCEPT ![k] = row] /\ (row.at # "idle" => Still(row))
    <3> DEFINE row == [at |-> "delete", kind |-> "artifact", id |-> o, object |-> Final(o), last |-> FALSE]
    <3>1. Final(o) \in Stored
      BY DEF Stored
    <3>2. row \in Target
      BY <3>1 DEF Target
    <3>3. collector' = [collector EXCEPT ![k] = row]
      BY <2>1 DEF ClaimArtifact
    <3>4. Still(row)
      BY DEF Targeted
    <3> QED BY <3>2, <3>3, <3>4
  <2>2. ASSUME NEW p \in Pages, ClaimBundle(k, p)
        PROVE  \E row \in Target : collector' = [collector EXCEPT ![k] = row] /\ (row.at # "idle" => Still(row))
    <3> DEFINE row == [at |-> "delete", kind |-> "bundle", id |-> <<p>>, object |-> Bundle(p, page[p].gen),
                       last |-> FALSE]
    <3>1. page[p].bundle # "NONE"
      BY <2>2 DEF ClaimBundle, DueBundles
    <3>2. page[p].status = "SUCCEEDED" /\ page[p].gen \in 1 .. MaxRetries
      BY <3>1, LimitsAssumption DEF TypeInv, Types, PageRows, PageRow
    <3>3. Bundle(p, page[p].gen) \in Stored
      BY <3>2 DEF Stored
    <3>4. row \in Target
      BY <3>3 DEF Target
    <3>5. collector' = [collector EXCEPT ![k] = row]
      BY <2>2 DEF ClaimBundle
    <3>6. Still(row)
      BY <1>1, <3>2 DEF Targeted
    <3> QED BY <3>4, <3>5, <3>6
  <2>3. CASE DeleteObject(k)
    <3> DEFINE row == [collector[k] EXCEPT !.at = "complete"]
    <3>1. /\ row \in Target /\ row.kind = collector[k].kind /\ row.id = collector[k].id
          /\ row.object = collector[k].object /\ row.at = "complete"
      BY <2>0 DEF Target
    <3>2. collector' = [collector EXCEPT ![k] = row] /\ collector[k].at # "idle"
      BY <2>3 DEF DeleteObject
    <3>3. Still(collector[k])
      BY <1>2, <3>2
    <3> HIDE DEF row
    <3>4. Still(row)
      BY <3>1, <3>3 DEF Targeted
    <3> QED BY <3>1, <3>2, <3>4
  <2>4. CASE OpenCompletion(k)
    <3> DEFINE last == \A q \in Finals \ {collector[k].id} : artifact[q].state \notin {"PUBLISHED", "DELETE_PENDING"}
               row == [collector[k] EXCEPT !.at = "expire", !.last = last]
    <3>1. collector' = [collector EXCEPT ![k] = row] /\ collector[k].at # "idle" /\ collector[k].kind = "artifact"
      BY <2>4 DEF OpenCompletion
    <3>2. last \in BOOLEAN
      OBVIOUS
    <3> HIDE DEF last
    <3>3. /\ row \in Target /\ row.kind = collector[k].kind /\ row.id = collector[k].id
          /\ row.object = collector[k].object
      BY <2>0, <3>2 DEF Target
    <3>4. Still(collector[k])
      BY <1>2, <3>1
    <3> HIDE DEF row
    <3>5. Still(row)
      BY <3>1, <3>3, <3>4 DEF Targeted
    <3> QED BY <3>1, <3>3, <3>5
  <2>5. CASE CompleteBundle(k) \/ CloseCompletion(k) \/ RetryDeletion(k) \/ CollectorCrashes(k)
    <3>1. collector' = [collector EXCEPT ![k] = NoTarget]
      BY <2>5 DEF CompleteBundle, CloseCompletion, RetryDeletion, CollectorCrashes
    <3>2. NoTarget \in Target /\ NoTarget.at = "idle"
      BY DEF NoTarget, Target
    <3> QED BY <3>1, <3>2
  <2> QED BY <1>5, <2>1, <2>2, <2>3, <2>4, <2>5 DEF CollectorSteps
<1>6. ASSUME NEW k \in Collectors, NEW row \in Target,
             collector' = [collector EXCEPT ![k] = row], row.at # "idle" => Still(row)
      PROVE  /\ collector' \in [Collectors -> Target]
             /\ \A l \in Collectors : collector'[l].at # "idle" => Still(collector'[l])
  <2>1. \A l \in Collectors : collector'[l] = IF l = k THEN row ELSE collector[l]
    BY <1>0, <1>6
  <2> HIDE DEF Still
  <2> QED BY <1>0, <1>2, <1>6, <2>1
<1> QED BY <1>4, <1>5, <1>6, WhoMoves DEF Framed

\* The claimPage and the reconciliation that are open stay typed, and the first
\* keeps its pages locked.
LEMMA NextTransactions ==
  ASSUME TypeInv, [Next]_vars
  PROVE  /\ admission' \in Admission /\ AdmissionLocks'
         /\ reconciler' \in [Reconcilers -> [at : {"idle", "open"}, marked : BOOLEAN]]
<1>0. admission \in Admission /\ PagesMove /\ AdmissionLocks
  BY StepMoves DEF TypeInv, Types
<1>1. ASSUME admission' = admission PROVE admission' \in Admission /\ AdmissionLocks'
  <2>1. \A p \in admission.pages : p \in Pages
    BY <1>0 DEF Admission
  <2> QED BY <1>0, <1>1, <2>1, OutcomesFinal DEF AdmissionLocks
<1>2. ASSUME NEW r \in Renderers, CloseAdmission(r) PROVE admission' \in Admission /\ AdmissionLocks'
  BY <1>2 DEF CloseAdmission, NoAdmission, Admission, AdmissionLocks
<1>3. ASSUME NEW r \in Renderers, OpenAdmission(r) PROVE admission' \in Admission /\ AdmissionLocks'
  <2> DEFINE failing == {p \in Lapsed : Reclaimed(p).status = "FAILED"}
             fails == Count("FAILED") + Cardinality(failing)
  <2>1. Lapsed \in SUBSET Pages /\ failing \in SUBSET Pages
    BY DEF Lapsed, In
  <2>2. Count("SUCCEEDED") \in Nat /\ fails \in Nat
    BY <2>1, Counts
  <2>3. admission' = [by |-> r, pages |-> Lapsed, succeeded |-> Count("SUCCEEDED"), failed |-> fails] /\ page' = page
    BY <1>3 DEF OpenAdmission, rows
  <2> HIDE DEF fails
  <2> QED BY <2>1, <2>2, <2>3 DEF Admission, AdmissionLocks, Lapsed, In
<1>4. ASSUME NEW c \in Reconcilers, OpenReconciliation(c) \/ CloseReconciliation(c)
      PROVE  reconciler' \in [Reconcilers -> [at : {"idle", "open"}, marked : BOOLEAN]]
  <2>1. reconciler \in [Reconcilers -> [at : {"idle", "open"}, marked : BOOLEAN]] /\ overdue \in BOOLEAN
    BY DEF TypeInv, Types
  <2>2. CASE OpenReconciliation(c)
    <3> DEFINE marked == overdue /\ job.status \in Active
    <3>1. marked \in BOOLEAN
      BY <2>1
    <3>2. reconciler' = [reconciler EXCEPT ![c] = [at |-> "open", marked |-> marked]]
      BY <2>2 DEF OpenReconciliation
    <3> HIDE DEF marked
    <3> QED BY <2>1, <3>1, <3>2
  <2>3. CASE CloseReconciliation(c)
    <3>1. reconciler' = [reconciler EXCEPT ![c] = [at |-> "idle", marked |-> FALSE]]
      BY <2>3 DEF CloseReconciliation
    <3> QED BY <2>1, <3>1
  <2> QED BY <1>4, <2>2, <2>3
<1>5. reconciler' = reconciler => reconciler' \in [Reconcilers -> [at : {"idle", "open"}, marked : BOOLEAN]]
  BY DEF TypeInv, Types
<1> QED BY <1>1, <1>0, <1>2, <1>3, <1>4, <1>5, WhoMoves DEF Framed

\* The rows of the artifacts table stay rows.
LEMMA NextArtifacts == TypeInv /\ [Next]_vars => (artifact \in [Finals -> ArtifactRow])'
<1> SUFFICES ASSUME TypeInv, [Next]_vars PROVE artifact' \in [Finals -> ArtifactRow]
  BY DEF Finals, ArtifactRow
<1>0. artifact \in [Finals -> ArtifactRow] /\ \A q \in Finals : artifact[q] \in ArtifactRow
  BY DEF TypeInv, Types
<1>1. \A q \in Finals : \A b \in BOOLEAN : [artifact[q] EXCEPT !.due = b] \in ArtifactRow
  BY <1>0 DEF ArtifactRow
<1>2. \A s \in {"STAGED", "PUBLISHED", "DELETE_PENDING", "DELETED"} : [state |-> s, due |-> FALSE] \in ArtifactRow
  BY DEF ArtifactRow
<1>3. ASSUME NEW o \in Finals, ArtifactAges(o) PROVE artifact' \in [Finals -> ArtifactRow]
  BY <1>0, <1>1, <1>3 DEF ArtifactAges
<1>4. ASSUME NEW x, NEW phase, NEW g, RetryPhase(x, phase, g) PROVE artifact' \in [Finals -> ArtifactRow]
  BY <1>0, <1>1, <1>4 DEF RetryPhase
<1>5. ASSUME NEW a \in Assemblers, StageArtifacts(a) \/ PublishArtifacts(a)
      PROVE  artifact' \in [Finals -> ArtifactRow]
  BY <1>0, <1>2, <1>5 DEF StageArtifacts, PublishArtifacts
<1>6. ASSUME NEW k \in Collectors, NEW o \in Finals, ClaimArtifact(k, o)
      PROVE  artifact' \in [Finals -> ArtifactRow]
  BY <1>0, <1>2, <1>6 DEF ClaimArtifact
<1>7. ASSUME NEW k \in Collectors, CloseCompletion(k) \/ RetryDeletion(k)
      PROVE  artifact' \in [Finals -> ArtifactRow]
  BY <1>0, <1>1, <1>2, <1>7 DEF CloseCompletion, RetryDeletion
<1> QED BY <1>0, <1>3, <1>4, <1>5, <1>6, <1>7, WhoWritesArtifacts
        DEF ArtifactWriters, IngestionFails, RetryAssembly

\* Types are kept by every step.
LEMMA NextTypes == TypeInv /\ [Next]_vars => TypeInv'
<1> SUFFICES ASSUME TypeInv, [Next]_vars PROVE TypeInv'
  OBVIOUS
<1>1. PagesMove /\ PageRows'
  BY StepMoves, NextPageRows
<1>2. overdue' \in BOOLEAN /\ inbox' \in BOOLEAN
  BY WhoMoves DEF Framed, TypeInv, Types
<1>3. Types'
  BY <1>1, <1>2, JobStaysTyped, NextStore, NextIngester, NextRenderer, NextAssembler, NextCollector,
     NextTransactions, NextArtifacts DEF Types, PagesMove
<1>4. LoopsTyped'
  BY NextRenderer, NextAssembler, NextCollector DEF LoopsTyped
<1> QED BY <1>1, <1>3, <1>4, NextTransactions DEF TypeInv

-----------------------------------------------------------------------------
(* The status of the job: its moves, its terminal events, and the pages it   *)
(* may have.                                                                 *)

Allowed(s, t) ==
  \/ s = "NONE" /\ t = "INGESTING"
  \/ s = "INGESTING" /\ t = "RUNNING"
  \/ s = "RUNNING" /\ t = "ASSEMBLING"
  \/ s = "ASSEMBLING" /\ t \in {"PUBLISHED", "PARTIAL", "RUNNING"}
  \/ s \in Active /\ t \in {"FAILED", "CANCEL_REQUESTED"}
  \/ s = "CANCEL_REQUESTED" /\ t \in {"RUNNING", "FAILED", "CANCELLED"}
  \/ s \in {"PUBLISHED", "PARTIAL"} /\ t = "EXPIRED"

\* These are the moves of SiteLifecycle.
LEMMA AllowedMoves == \A s, t : Allowed(s, t) => <<s, t>> \in Lifecycle!Moves
BY DEF Allowed, Active, Lifecycle!Moves, Lifecycle!Active

\* One reconciliation at a time has marked the job, and nobody moves it on.
Marks ==
  /\ \A c \in Reconcilers : reconciler[c].marked => job.status \in Active
  /\ \A c, d \in Reconcilers : reconciler[c].marked /\ reconciler[d].marked => c = d

\* Before it runs a job has no page that was ever rendered.
Quiet ==
  /\ AssemblyIsQuiet
  /\ job.status \in {"NONE", "INGESTING"} => \A p \in Pages : page[p].status \in {"NONE", "QUEUED", "CANCELLED"}

\* A step that leaves the status of the job alone sends no terminal event; one
\* that moves it leaves the pages alone, nobody has the job marked any more, and
\* it ends only when no page is rendered.
JobSteady == job'.status = job.status /\ sent' = sent
JobMoved ==
  /\ page' = page /\ JobFree' /\ Allowed(job.status, job'.status)
  /\ sent' = IF job'.status \in Ended THEN Append(sent, job'.status) ELSE sent
  /\ job'.status = "ASSEMBLING" => Frontier = {} /\ job.succeeded > 0
  /\ job'.status \in Ended => In("RENDERING") = {}

\* A job that ends from this status has no page that is rendered.
LEMMA EndsQuietly ==
  ASSUME Quiet, job.status \in {"INGESTING", "ASSEMBLING"} \cup Ended
  PROVE  In("RENDERING") = {}
BY DEF Quiet, AssemblyIsQuiet, In, Frontier

\* The steps of the phases.
LEMMA PhasesMoveJob ==
  ASSUME TypeInv, Quiet, NEW x, NEW phase \in {"INGESTING", "ASSEMBLING"}, NEW g, RetryPhase(x, phase, g),
         page' = page, reconciler' = reconciler
  PROVE  JobSteady \/ JobMoved
<1>1. CASE job'.status = job.status /\ sent' = sent
  BY <1>1 DEF JobSteady
<1>2. CASE job.status = phase /\ job'.status = "FAILED" /\ sent' = Append(sent, "FAILED") /\ JobFree
  BY <1>2, EndsQuietly DEF JobMoved, JobFree, Allowed, Active, Ended
<1> QED BY <1>1, <1>2, RetryPhaseJob DEF TypeInv

\* Every step leaves the status of the job alone or moves it on.
LEMMA JobMoves == TypeInv /\ Marks /\ Quiet /\ [Next]_vars => JobSteady \/ JobMoved
<1> SUFFICES ASSUME TypeInv, Marks, Quiet, [Next]_vars PROVE JobSteady \/ JobMoved
  OBVIOUS
<1>0. job \in JobRow
  BY DEF TypeInv, Types
<1>1. CASE AcceptRequested
  <2>1. job.status = "NONE" /\ job' = [job EXCEPT !.status = "INGESTING"] /\ page' = page /\ sent' = sent
        /\ reconciler' = reconciler
    BY <1>1 DEF AcceptRequested, loops
  <2>2. job'.status = "INGESTING"
    BY <1>0, <2>1 DEF JobRow
  <2>3. JobFree'
    BY <2>1 DEF Marks, Active, JobFree
  <2> QED BY <2>1, <2>2, <2>3 DEF JobMoved, Allowed, Ended
<1>2. CASE AcceptCancellation
  <2>1. /\ page' = page /\ sent' = sent /\ JobFree' /\ job.status # "NONE"
        /\ \/ job' = job
           \/ /\ job.status \notin Ended
              /\ job' = [job EXCEPT !.status = "CANCEL_REQUESTED", !.owner = None, !.lapsed = FALSE]
    BY <1>2 DEF AcceptCancellation, loops, JobFree, Cancellable
  <2>2. CASE job' = job
    BY <2>1, <2>2 DEF JobSteady
  <2>3. CASE job' # job
    <3>1. job'.status = "CANCEL_REQUESTED" /\ job.status \notin Ended
      BY <1>0, <2>1, <2>3 DEF JobRow
    <3>2. job.status \in Active \cup {"CANCEL_REQUESTED"}
      BY <1>0, <2>1, <3>1 DEF JobRow, Statuses
    <3> QED BY <2>1, <3>1, <3>2 DEF JobSteady, JobMoved, Allowed, Ended
  <2> QED BY <2>2, <2>3
<1>3. CASE PhaseLapses \/ \E x \in Ingesters \cup Assemblers : ExtendPhaseLease(x)
  BY <1>0, <1>3 DEF PhaseLapses, ExtendPhaseLease, JobRow, JobSteady
<1>4. ASSUME NEW i \in Ingesters, ClaimIngestion(i) PROVE JobSteady \/ JobMoved
  BY <1>0, <1>4 DEF ClaimIngestion, JobRow, JobSteady
<1>5. ASSUME NEW i \in Ingesters, FinishIngestion(i) PROVE JobSteady \/ JobMoved
  <2>1. /\ page' = page /\ sent' = sent /\ JobFree' /\ job.status = "INGESTING"
        /\ job' = [job EXCEPT !.status = "RUNNING", !.owner = None, !.lapsed = FALSE, !.attempts = 0]
    BY <1>5 DEF FinishIngestion, HoldsPhase, JobFree
  <2>2. job'.status = "RUNNING"
    BY <1>0, <2>1 DEF JobRow
  <2> QED BY <2>1, <2>2 DEF JobMoved, Allowed, Ended
<1>6. ASSUME NEW i \in Ingesters, IngestionFails(i) PROVE JobSteady \/ JobMoved
  BY <1>6, PhasesMoveJob DEF IngestionFails
<1>7. ASSUME NEW r \in Renderers, CloseAdmission(r) PROVE JobSteady \/ JobMoved
  BY <1>0, <1>7 DEF CloseAdmission, JobRow, JobSteady
<1>8. ASSUME NEW r \in Renderers, CompletePage(r) \/ FailPage(r) PROVE JobSteady \/ JobMoved
  <2>1. sent' = sent /\ (job' = job \/ Increment(TRUE) \/ Increment(FALSE))
    BY <1>8 DEF CompletePage, FailPage
  <2> QED BY <1>0, <2>1 DEF Increment, JobRow, JobSteady
<1>9. ASSUME NEW a \in Assemblers, FinalizeEmptyJob(a) PROVE JobSteady \/ JobMoved
  <2>1. /\ page' = page /\ sent' = Append(sent, "FAILED") /\ JobFree' /\ job.status = "RUNNING"
        /\ Frontier = {} /\ job' = [job EXCEPT !.status = "FAILED", !.late = FALSE]
    BY <1>9 DEF FinalizeEmptyJob, FrontierClosed, JobFree, loops
  <2>2. job'.status = "FAILED"
    BY <1>0, <2>1 DEF JobRow
  <2> QED BY <2>1, <2>2 DEF JobMoved, Allowed, Ended, Active, Frontier
<1>10. ASSUME NEW a \in Assemblers, ClaimAssembly(a) PROVE JobSteady \/ JobMoved
  <2>1. /\ page' = page /\ sent' = sent /\ JobFree' /\ job.status \in {"RUNNING", "ASSEMBLING"}
        /\ Frontier = {} /\ job.succeeded > 0
        /\ job' = [job EXCEPT !.status = "ASSEMBLING", !.owner = a, !.lapsed = FALSE]
    BY <1>10 DEF ClaimAssembly, FrontierClosed, JobFree
  <2>2. job'.status = "ASSEMBLING"
    BY <1>0, <2>1 DEF JobRow
  <2> QED BY <2>1, <2>2 DEF JobSteady, JobMoved, Allowed, Ended
<1>11. ASSUME NEW a \in Assemblers, PublishArtifacts(a) PROVE JobSteady \/ JobMoved
  <2>1. Outcome \in {"PUBLISHED", "PARTIAL"}
    BY DEF Outcome
  <2>2. /\ page' = page /\ sent' = Append(sent, Outcome) /\ JobFree' /\ job.status = "ASSEMBLING"
        /\ job' = [job EXCEPT !.status = Outcome, !.owner = None, !.lapsed = FALSE]
    BY <1>11 DEF PublishArtifacts, HoldsLiveAssembly, HoldsPhase, JobFree
  <2>3. job'.status = Outcome
    BY <1>0, <2>2 DEF JobRow
  <2> QED BY <2>1, <2>2, <2>3, EndsQuietly DEF JobMoved, Allowed, Ended
<1>12. ASSUME NEW a \in Assemblers, RetryAssembly(a) PROVE JobSteady \/ JobMoved
  BY <1>12, PhasesMoveJob DEF RetryAssembly
<1>13. ASSUME NEW c \in Reconcilers, CloseReconciliation(c) PROVE JobSteady \/ JobMoved
  <2> DEFINE marked == reconciler[c].marked
             good == Count("SUCCEEDED")
             late == marked \/ job.late
             end == IF late THEN "FAILED" ELSE "CANCELLED"
             row == [job EXCEPT !.owner = None, !.lapsed = FALSE, !.late = late]
  <2>1. /\ page' = page /\ reconciler' = [reconciler EXCEPT ![c] = [at |-> "idle", marked |-> FALSE]]
        /\ marked \/ JobFree
    BY <1>13 DEF CloseReconciliation
  <2>2. JobFree'
    <3>1. reconciler \in [Reconcilers -> [at : {"idle", "open"}, marked : BOOLEAN]]
      BY DEF TypeInv, Types
    <3>2. ~reconciler'[c].marked /\ \A d \in Reconcilers \ {c} : reconciler'[d] = reconciler[d]
      BY <2>1, <3>1
    <3>3. \A d \in Reconcilers \ {c} : ~reconciler[d].marked
      BY <2>1 DEF Marks, JobFree
    <3> QED BY <3>2, <3>3 DEF JobFree
  <2>3. marked => job.status \in Active
    BY DEF Marks
  <2>4. row.status = job.status /\ row \in JobRow
    <3>1. marked \in BOOLEAN
      BY DEF TypeInv, Types
    <3> QED BY <1>0, <3>1 DEF JobRow
  <2>5. end \in {"FAILED", "CANCELLED"} /\ (marked => end = "FAILED")
    OBVIOUS
  <2> HIDE DEF row, late
  <2>6. CASE Asked(c) /\ In("RENDERING") = {}
    <3>1. /\ job' = [row EXCEPT !.status = IF good > 0 THEN "RUNNING" ELSE end, !.attempts = 0,
                                !.succeeded = good, !.failed = Count("FAILED")]
          /\ sent' = IF good > 0 THEN sent ELSE Append(sent, end)
      BY <1>13, <2>6 DEF CloseReconciliation, row, late
    <3>2. job'.status = IF good > 0 THEN "RUNNING" ELSE end
      BY <2>4, <3>1 DEF JobRow
    <3>3. job.status \in Active \/ job.status = "CANCEL_REQUESTED"
      BY <2>3, <2>6 DEF Asked
    <3>4. job.status \in Active => marked \/ job.status = "CANCEL_REQUESTED"
      BY <2>6 DEF Asked
    <3> HIDE DEF marked, good, end
    <3>5. CASE good > 0
      BY <2>1, <2>2, <3>1, <3>2, <3>3, <3>5 DEF JobSteady, JobMoved, Allowed, Active, Ended
    <3>6. CASE ~(good > 0)
      BY <2>1, <2>2, <2>5, <2>6, <3>1, <3>2, <3>3, <3>4, <3>6 DEF JobMoved, Allowed, Active, Ended
    <3> QED BY <3>5, <3>6
  <2>7. CASE ~(Asked(c) /\ In("RENDERING") = {})
    <3>1. /\ job' = IF marked THEN [row EXCEPT !.status = "CANCEL_REQUESTED"] ELSE job
          /\ sent' = sent
      BY <1>13, <2>7 DEF CloseReconciliation, row, late
    <3>2. job' = job \/ (marked /\ job'.status = "CANCEL_REQUESTED")
      BY <2>4, <3>1 DEF JobRow
    <3> QED BY <2>1, <2>2, <2>3, <3>1, <3>2 DEF JobSteady, JobMoved, Allowed, Ended
  <2> QED BY <2>6, <2>7
<1>14. ASSUME NEW k \in Collectors, CloseCompletion(k) PROVE JobSteady \/ JobMoved
  <2>1. \/ job' = job /\ sent' = sent
        \/ /\ job' = [job EXCEPT !.status = "EXPIRED"] /\ sent' = Append(sent, "EXPIRED")
           /\ job.status \in {"PUBLISHED", "PARTIAL"} /\ page' = page /\ JobFree'
    BY <1>14 DEF CloseCompletion, JobFree
  <2>2. CASE job' = job /\ sent' = sent
    BY <2>2 DEF JobSteady
  <2>3. CASE ~(job' = job /\ sent' = sent)
    <3>1. job'.status = "EXPIRED"
      BY <1>0, <2>1, <2>3 DEF JobRow
    <3> QED BY <2>1, <2>3, <3>1, EndsQuietly DEF JobMoved, Allowed, Ended
  <2> QED BY <2>2, <2>3
<1>15. CASE job' = job /\ sent' = sent
  BY <1>15 DEF JobSteady
<1> QED BY <1>1, <1>2, <1>3, <1>4, <1>5, <1>6, <1>7, <1>8, <1>9, <1>10, <1>11, <1>12, <1>13, <1>14,
           <1>15, WhoWritesJob DEF JobWriters

\* The job stays marked by one reconciliation at most.
LEMMA NextMarks ==
  ASSUME TypeInv, Marks, [Next]_vars, JobSteady \/ JobMoved
  PROVE  Marks'
<1>1. CASE JobMoved
  BY <1>1 DEF JobMoved, JobFree, Marks
<1>2. CASE JobSteady
  <2>0. reconciler \in [Reconcilers -> [at : {"idle", "open"}, marked : BOOLEAN]] /\ job'.status = job.status
    BY <1>2 DEF TypeInv, Types, JobSteady
  <2>1. CASE reconciler' = reconciler
    BY <2>0, <2>1 DEF Marks
  <2>2. ASSUME NEW c \in Reconcilers, OpenReconciliation(c) PROVE Marks'
    <3> DEFINE marked == overdue /\ job.status \in Active
    <3>1. reconciler' = [reconciler EXCEPT ![c] = [at |-> "open", marked |-> marked]] /\ JobFree
      BY <2>2 DEF OpenReconciliation
    <3>2. (reconciler'[c].marked => marked) /\ \A d \in Reconcilers \ {c} : reconciler'[d] = reconciler[d]
      BY <2>0, <3>1
    <3> QED BY <2>0, <3>1, <3>2 DEF Marks, JobFree
  <2>3. ASSUME NEW c \in Reconcilers, CloseReconciliation(c) PROVE Marks'
    <3>1. reconciler' = [reconciler EXCEPT ![c] = [at |-> "idle", marked |-> FALSE]]
      BY <2>3 DEF CloseReconciliation
    <3>2. ~reconciler'[c].marked /\ \A d \in Reconcilers \ {c} : reconciler'[d] = reconciler[d]
      BY <2>0, <3>1
    <3> QED BY <2>0, <3>2 DEF Marks
  <2> QED BY <2>1, <2>2, <2>3, WhoMoves DEF Framed
<1> QED BY <1>1, <1>2

\* The frontier of a job that assembles stays closed, and a job that has ended
\* renders nothing.
LEMMA NextQuiet ==
  ASSUME TypeInv, Quiet, PagesMove, JobSteady \/ JobMoved
  PROVE  Quiet'
<1>1. CASE JobMoved
  <2>0. page' = page /\ Allowed(job.status, job'.status)
    BY <1>1 DEF JobMoved
  <2>1. job'.status = "ASSEMBLING" => Frontier' = {}
    BY <1>1, <2>0 DEF JobMoved, Frontier, In
  <2>2. job'.status \in Ended => In("RENDERING")' = {}
    BY <1>1, <2>0 DEF JobMoved, In
  <2>3. job'.status \in {"NONE", "INGESTING"} => job.status = "NONE"
    BY <2>0 DEF Allowed
  <2> QED BY <2>0, <2>1, <2>2, <2>3 DEF Quiet, AssemblyIsQuiet
<1>2. CASE JobSteady
  <2>0. job'.status = job.status
    BY <1>2 DEF JobSteady
  <2>1. ASSUME NEW q \in Pages
        PROVE  /\ job.status = "ASSEMBLING" /\ page[q].status \notin {"QUEUED", "RENDERING"} =>
                    page'[q].status \notin {"QUEUED", "RENDERING"}
               /\ job.status \in Ended /\ page[q].status # "RENDERING" => page'[q].status # "RENDERING"
               /\ job.status \in {"NONE", "INGESTING"} /\ page[q].status \in {"NONE", "QUEUED", "CANCELLED"} =>
                    page'[q].status \in {"NONE", "QUEUED", "CANCELLED"}
    <3>1. PageEffect(q)
      BY DEF PagesMove
    <3> QED BY <3>1 DEF PageEffect, PageKept, PageBundled, PageAdded, PageClaimed, PageRequeued,
               PageFailed, PageCancelled, PageSucceeded, Same, Ended
  <2>2. job'.status = "ASSEMBLING" => Frontier' = {}
    BY <2>0, <2>1 DEF Quiet, AssemblyIsQuiet, Frontier, In
  <2>3. job'.status \in Ended => In("RENDERING")' = {}
    BY <2>0, <2>1 DEF Quiet, AssemblyIsQuiet, In
  <2>4. job'.status \in {"NONE", "INGESTING"} =>
          \A q \in Pages : page'[q].status \in {"NONE", "QUEUED", "CANCELLED"}
    BY <2>0, <2>1 DEF Quiet
  <2> QED BY <2>2, <2>3, <2>4 DEF Quiet, AssemblyIsQuiet
<1> QED BY <1>1, <1>2

\* One terminal event is sent, and EXPIRED after a publication only.
LEMMA NextEndsOnce ==
  ASSUME TypeInv, EndsOnce, JobSteady \/ JobMoved
  PROVE  EndsOnce'
<1>0. sent \in Seq(Ended)
  BY DEF TypeInv, Types
<1>1. CASE JobSteady
  BY <1>1 DEF JobSteady, EndsOnce
<1>2. CASE JobMoved
  <2>0. /\ Allowed(job.status, job'.status)
        /\ sent' = IF job'.status \in Ended THEN Append(sent, job'.status) ELSE sent
    BY <1>2 DEF JobMoved
  <2>1. CASE job'.status \notin Ended
    <3>1. job.status \notin Ended
      BY <2>0, <2>1 DEF Allowed, Ended, Active
    <3> QED BY <2>0, <2>1, <3>1 DEF EndsOnce
  <2>2. CASE job'.status \in Ended /\ job.status \notin Ended
    <3>1. Len(sent) = 0
      BY <1>0, <2>2 DEF EndsOnce
    <3>2. sent' = Append(sent, job'.status)
      BY <2>0, <2>2
    <3>3. Len(sent') = 1 /\ sent'[1] = job'.status
      BY <1>0, <2>2, <3>1, <3>2
    <3> QED BY <2>2, <3>3 DEF EndsOnce
  <2>3. CASE job.status \in Ended
    <3>1. job.status \in {"PUBLISHED", "PARTIAL"} /\ job'.status = "EXPIRED" /\ sent' = Append(sent, "EXPIRED")
      BY <2>0, <2>3 DEF Allowed, Ended, Active
    <3>2. Len(sent) = 1 /\ sent[1] = job.status
      <4>0. Len(sent) \in Nat /\ Len(sent) > 0 /\ Len(sent) <= 2
        BY <1>0, <2>3 DEF EndsOnce
      <4>1. job.status = sent[Len(sent)]
        BY <4>0 DEF EndsOnce
      <4>2. Len(sent) # 2
        BY <3>1, <4>1 DEF EndsOnce
      <4>3. \A n \in Nat : n > 0 /\ n <= 2 /\ n # 2 => n = 1
        OBVIOUS
      <4>4. Len(sent) = 1
        BY <4>0, <4>2, <4>3
      <4> QED BY <4>1, <4>4
    <3>3. Len(sent') = 2 /\ sent'[1] = sent[1] /\ sent'[2] = "EXPIRED"
      <4>1. "EXPIRED" \in Ended
        BY DEF Ended
      <4>2. ASSUME NEW S, NEW q \in Seq(S), NEW x \in S
            PROVE  /\ Len(Append(q, x)) = Len(q) + 1 /\ Append(q, x)[Len(q) + 1] = x
                   /\ \A i \in 1 .. Len(q) : Append(q, x)[i] = q[i]
        OBVIOUS
      <4>3. /\ Len(sent') = Len(sent) + 1 /\ sent'[Len(sent) + 1] = "EXPIRED"
            /\ \A i \in 1 .. Len(sent) : sent'[i] = sent[i]
        BY <1>0, <3>1, <4>1, <4>2
      <4>4. Len(sent) + 1 = 2 /\ 1 \in 1 .. Len(sent)
        BY <3>2
      <4> QED BY <4>3, <4>4
    <3> QED BY <3>1, <3>2, <3>3 DEF EndsOnce, Ended
  <2> QED BY <2>1, <2>2, <2>3
<1> QED BY <1>1, <1>2

\* What carries the status of the job, on the pages as on the reconciliations.
StatusInv == TypeInv /\ Marks /\ Quiet /\ EndsOnce

\* It holds initially and every step keeps it.
LEMMA InitStatus == Init => StatusInv
<1> SUFFICES ASSUME Init PROVE StatusInv
  OBVIOUS
<1>1. Marks
  BY DEF Init, Marks
<1>2. Quiet
  BY DEF Init, Quiet, AssemblyIsQuiet, Ended
<1>3. EndsOnce
  BY DEF Init, EndsOnce, Ended
<1> QED BY <1>1, <1>2, <1>3, InitTypes DEF StatusInv

\* Every step keeps the statuses as StatusInv says.
LEMMA NextStatus == StatusInv /\ [Next]_vars => StatusInv'
<1> SUFFICES ASSUME StatusInv, [Next]_vars PROVE StatusInv'
  OBVIOUS
<1>1. TypeInv' /\ PagesMove /\ (JobSteady \/ JobMoved)
  BY NextTypes, StepMoves, JobMoves DEF StatusInv
<1> QED BY <1>1, NextMarks, NextQuiet, NextEndsOnce DEF StatusInv

\* The transactions of the loops, whoever is killed, late or overtaken, move the
\* status of a job as SiteLifecycle promises the Control Plane.
THEOREM SiteRefinesLifecycle == Spec => RefinesLifecycle
<1>1. Init => Lifecycle!Init
  BY DEF Init, Lifecycle!Init
<1>2. StatusInv /\ [Next]_vars => [Lifecycle!Next]_(job.status)
  <2> SUFFICES ASSUME StatusInv, [Next]_vars PROVE Lifecycle!Next \/ job'.status = job.status
    OBVIOUS
  <2>1. JobSteady \/ JobMoved
    BY JobMoves DEF StatusInv
  <2> QED BY <2>1, AllowedMoves DEF JobSteady, JobMoved, Lifecycle!Next
<1> QED BY <1>1, <1>2, InitStatus, NextStatus, PTL DEF Spec, RefinesLifecycle, Lifecycle!Spec

-----------------------------------------------------------------------------
(* Counting pages: how many are rendered, and what the counters say.         *)

\* Outcomes are only added, so their numbers only grow.
LEMMA OutcomesGrow ==
  ASSUME TypeInv, PagesMove, NEW s \in {"SUCCEEDED", "FAILED"}
  PROVE  /\ In(s) \subseteq In(s)' /\ In(s)' \subseteq Pages
         /\ \A S \in SUBSET In(s)' : Cardinality(S) <= Count(s)'
<1>1. In(s) \subseteq In(s)' /\ In(s)' \subseteq Pages
  BY OutcomesFinal DEF In
<1>2. IsFiniteSet(In(s)')
  BY <1>1, PagesAssumption, FS_Subset
<1>3. \A S \in SUBSET In(s)' : Cardinality(S) <= Cardinality(In(s)')
  BY <1>2, FS_Subset
<1> QED BY <1>1, <1>3 DEF Count

\* Nobody but claimPage puts a page under way.
LEMMA OnlyClaimsRender ==
  ASSUME TypeInv, [Next]_vars, \A r \in Renderers : ~CloseAdmission(r) /\ ~ClaimPage(r)
  PROVE  In("RENDERING")' \subseteq In("RENDERING")
<1>0. page \in [Pages -> PageRow] /\ \A q \in Pages : page[q] \in PageRow
  BY DEF TypeInv, Types
<1>1. SUFFICES ASSUME NEW q \in Pages, page'[q].status = "RENDERING" PROVE page[q].status = "RENDERING"
  BY DEF In
<1>2. ASSUME NEW p \in Pages, PageLapses(p) \/ BundleAges(p) PROVE page[q].status = "RENDERING"
  BY <1>0, <1>1, <1>2 DEF PageLapses, BundleAges, PageRow
<1>3. ASSUME NEW i \in Ingesters, AddTargets(i) PROVE page[q].status = "RENDERING"
  <2> DEFINE row == [page[q] EXCEPT !.status = IF q \in ingester[i].chosen THEN "QUEUED" ELSE "CANCELLED",
                                    !.rejected = q \notin ingester[i].chosen]
  <2>1. page'[q] = row \/ page'[q] = page[q]
    BY <1>3 DEF AddTargets
  <2>2. row.status \in {"QUEUED", "CANCELLED"}
    BY <1>0 DEF PageRow
  <2> QED BY <1>1, <2>1, <2>2
<1>4. ASSUME NEW r \in Renderers, ExtendPageLease(r) PROVE page[q].status = "RENDERING"
  BY <1>0, <1>1, <1>4 DEF ExtendPageLease, PageRow
<1>5. ASSUME NEW r \in Renderers, CompletePage(r) PROVE page[q].status = "RENDERING"
  <2> DEFINE p == renderer[r].p
  <2>1. page[p].status = "RENDERING"
    BY <1>5 DEF CompletePage, HoldsPage
  <2>2. \A u \in Pages : u # p => page'[u] = page[u]
    BY <1>0, <1>5 DEF CompletePage
  <2> QED BY <1>1, <2>1, <2>2
<1>6. ASSUME NEW r \in Renderers, FailPage(r) PROVE page[q].status = "RENDERING"
  <2> DEFINE p == renderer[r].p
  <2>1. CASE HoldsPage(r)
    <3>1. page[p].status = "RENDERING"
      BY <2>1 DEF HoldsPage
    <3>2. \A u \in Pages : u # p => page'[u] = page[u]
      BY <1>0, <1>6, <2>1 DEF FailPage
    <3> QED BY <1>1, <3>1, <3>2
  <2>2. CASE ~HoldsPage(r)
    BY <1>1, <1>6, <2>2 DEF FailPage
  <2> QED BY <2>1, <2>2
<1>7. ASSUME NEW c \in Reconcilers, OpenReconciliation(c) PROVE page[q].status = "RENDERING"
  BY <1>0, <1>1, <1>7 DEF OpenReconciliation, CancelledPage, PageRow
<1>8. ASSUME NEW k \in Collectors, NEW p \in Pages, ClaimBundle(k, p) PROVE page[q].status = "RENDERING"
  BY <1>0, <1>1, <1>8 DEF ClaimBundle, PageRow
<1>9. ASSUME NEW k \in Collectors, CompleteBundle(k) \/ RetryDeletion(k) PROVE page[q].status = "RENDERING"
  BY <1>0, <1>1, <1>9 DEF CompleteBundle, RetryDeletion, PageRow
<1> QED BY <1>1, <1>2, <1>3, <1>4, <1>5, <1>6, <1>7, <1>8, <1>9, WhoWritesPages DEF PageWriters

\* The admission lock of claimPage bounds the pages under way.
LEMMA NextConcurrency ==
  ASSUME TypeInv, ConcurrencyBounded, [Next]_vars
  PROVE  ConcurrencyBounded'
<1>0. page \in [Pages -> PageRow] /\ \A q \in Pages : page[q] \in PageRow
  BY DEF TypeInv, Types
<1>1. ASSUME NEW S \in SUBSET Pages, In("RENDERING")' \subseteq S, Cardinality(S) <= PageConcurrency
      PROVE  ConcurrencyBounded'
  <2>1. IsFiniteSet(S) /\ Cardinality(S) \in Nat
    BY Counts
  <2>2. Cardinality(In("RENDERING")') <= Cardinality(S) /\ Cardinality(In("RENDERING")') \in Nat
    BY <1>1, <2>1, FS_Subset, FS_CardinalityType
  <2> QED BY <1>1, <2>1, <2>2, LimitsAssumption DEF ConcurrencyBounded, Count
<1>2. In("RENDERING") \in SUBSET Pages /\ Cardinality(In("RENDERING")) <= PageConcurrency
  BY DEF In, ConcurrencyBounded, Count
<1>3. ASSUME NEW r \in Renderers, NEW table \in [Pages -> PageRow], Claim(r, table),
             \A q \in Pages : table[q].status = "RENDERING" => page[q].status = "RENDERING"
      PROVE  ConcurrencyBounded'
  <2> DEFINE T == {q \in Pages : table[q].status = "RENDERING"}
  <2>1. CASE page' = table
    BY <1>1, <1>2, <1>3, <2>1 DEF In
  <2>2. ASSUME NEW p \in Pages, Claimed(r, table, p) PROVE ConcurrencyBounded'
    <3>1. T \in SUBSET Pages /\ T \cup {p} \in SUBSET Pages
      OBVIOUS
    <3>2. Cardinality(T) < PageConcurrency
      BY <2>2 DEF Claimed
    <3>3. IsFiniteSet(T) /\ Cardinality(T) \in Nat
      BY <3>1, Counts
    <3>4. Cardinality(T \cup {p}) <= Cardinality(T) + 1
      BY <3>3, FS_AddElement
    <3>5. Cardinality(T \cup {p}) \in Nat
      BY <3>1, Counts
    <3>6. Cardinality(T \cup {p}) <= PageConcurrency
      BY <3>2, <3>3, <3>4, <3>5, LimitsAssumption
    <3>7. \A q \in Pages : q # p => page'[q] = table[q]
      BY <2>2 DEF Claimed
    <3>8. In("RENDERING")' \subseteq T \cup {p}
      BY <3>7 DEF In
    <3> QED BY <1>1, <3>1, <3>6, <3>8
  <2> QED BY <1>3, <2>1, <2>2, ClaimEffect
<1>4. ASSUME NEW r \in Renderers, CloseAdmission(r) PROVE ConcurrencyBounded'
  <2> DEFINE table == [p \in Pages |-> IF p \in admission.pages THEN Reclaimed(p) ELSE page[p]]
  <2>1. Claim(r, table)
    BY <1>4 DEF CloseAdmission
  <2>2. \A q \in Pages : Reclaimed(q) \in PageRow /\ Reclaimed(q).status # "RENDERING"
    BY <1>0 DEF Reclaimed, PageRow
  <2>3. table \in [Pages -> PageRow]
    BY <1>0, <2>2
  <2>4. \A q \in Pages : table[q].status = "RENDERING" => page[q].status = "RENDERING"
    BY <2>2
  <2> QED BY <1>3, <2>1, <2>3, <2>4
<1>5. ASSUME NEW r \in Renderers, ClaimPage(r) PROVE ConcurrencyBounded'
  BY <1>0, <1>3, <1>5 DEF ClaimPage
<1> QED BY <1>1, <1>2, <1>4, <1>5, OnlyClaimsRender

\* What an open claimPage has counted is true when it writes it.
Counted ==
  /\ admission.succeeded <= Count("SUCCEEDED")
  /\ admission.failed <= Cardinality(In("FAILED") \cup {p \in admission.pages : page[p].gen >= MaxRetries})

\* It stays true: an outcome is final, and the rows it has locked wait for it.
LEMMA NextCounted ==
  ASSUME TypeInv, Counted, [Next]_vars
  PROVE  Counted'
<1>0. PagesMove /\ admission \in Admission /\ admission.pages \subseteq Pages
  BY StepMoves DEF TypeInv, Types, Admission
<1>1. CASE admission' = admission
  <2> DEFINE F == In("FAILED") \cup {p \in admission.pages : page[p].gen >= MaxRetries}
             G == In("FAILED")' \cup {p \in admission.pages : page'[p].gen >= MaxRetries}
  <2>1. Count("SUCCEEDED") <= Count("SUCCEEDED")' /\ Count("SUCCEEDED")' \in Nat /\ Count("SUCCEEDED") \in Nat
    <3>1. Count("SUCCEEDED") <= Count("SUCCEEDED")'
      BY <1>0, OutcomesGrow DEF Count
    <3>2. In("SUCCEEDED")' \in SUBSET Pages
      BY DEF In
    <3> QED BY <3>1, <3>2, Counts DEF Count
  <2>2. F \in SUBSET Pages /\ G \in SUBSET Pages
    BY <1>0 DEF In
  <2>3. F \subseteq G
    <3>1. In("FAILED") \subseteq In("FAILED")'
      BY <1>0, OutcomesGrow
    <3>2. \A p \in admission.pages : page'[p].gen = page[p].gen
      BY <1>0, <1>1, OutcomesFinal
    <3> QED BY <3>1, <3>2
  <2>4. Cardinality(F) <= Cardinality(G) /\ Cardinality(F) \in Nat /\ Cardinality(G) \in Nat
    BY <2>2, <2>3, Counts, FS_Subset
  <2>5. admission.succeeded \in Nat /\ admission.failed \in Nat
    BY <1>0 DEF Admission
  <2>6. admission.succeeded <= Count("SUCCEEDED") /\ admission.failed <= Cardinality(F)
    BY DEF Counted
  <2> HIDE DEF F, G
  <2>7. admission.succeeded <= Count("SUCCEEDED")' /\ admission.failed <= Cardinality(G)
    BY <2>1, <2>4, <2>5, <2>6
  <2> QED BY <1>1, <2>7 DEF Counted, G
<1>2. ASSUME NEW r \in Renderers, CloseAdmission(r) PROVE Counted'
  <2> DEFINE G == In("FAILED")' \cup {p \in admission'.pages : page'[p].gen >= MaxRetries}
  <2>1. admission'.succeeded = 0 /\ admission'.failed = 0 /\ admission'.pages = {}
    BY <1>2 DEF CloseAdmission, NoAdmission
  <2>2. In("SUCCEEDED")' \in SUBSET Pages /\ G \in SUBSET Pages
    BY <2>1 DEF In
  <2>3. Count("SUCCEEDED")' \in Nat /\ Cardinality(G) \in Nat
    BY <2>2, Counts DEF Count
  <2> HIDE DEF G
  <2>4. 0 <= Count("SUCCEEDED")' /\ 0 <= Cardinality(G)
    BY <2>3
  <2> QED BY <2>1, <2>4 DEF Counted, G
<1>3. ASSUME NEW r \in Renderers, OpenAdmission(r) PROVE Counted'
  <2> DEFINE failing == {p \in Lapsed : Reclaimed(p).status = "FAILED"}
             G == In("FAILED") \cup {p \in Lapsed : page[p].gen >= MaxRetries}
  <2>1. /\ admission'.pages = Lapsed /\ admission'.succeeded = Count("SUCCEEDED")
        /\ admission'.failed = Count("FAILED") + Cardinality(failing) /\ page' = page
    BY <1>3 DEF OpenAdmission, rows
  <2>2. failing = {p \in Lapsed : page[p].gen >= MaxRetries}
    <3>1. \A p \in Lapsed : page[p] \in PageRow
      BY DEF Lapsed, In, TypeInv, Types
    <3>2. \A p \in Lapsed : Reclaimed(p).status = "FAILED" <=> ~(page[p].gen < MaxRetries)
      BY <3>1 DEF Reclaimed, PageRow
    <3>3. \A p \in Lapsed : ~(page[p].gen < MaxRetries) <=> page[p].gen >= MaxRetries
      BY <3>1, LimitsAssumption DEF PageRow
    <3> QED BY <3>2, <3>3
  <2>3. In("FAILED") \in SUBSET Pages /\ failing \in SUBSET Pages /\ In("FAILED") \cap failing = {}
    BY DEF Lapsed, In
  <2>4. Cardinality(G) = Cardinality(In("FAILED")) + Cardinality(failing)
    <3>1. Cardinality({}) = 0
      BY FS_EmptySet
    <3>2. IsFiniteSet(In("FAILED")) /\ IsFiniteSet(failing)
      BY <2>3, Counts
    <3>3. /\ Cardinality(In("FAILED") \cup failing)
               = Cardinality(In("FAILED")) + Cardinality(failing) - Cardinality(In("FAILED") \cap failing)
      BY <3>2, FS_Union
    <3>4. Cardinality(In("FAILED")) \in Nat /\ Cardinality(failing) \in Nat
      BY <2>3, Counts
    <3>5. G = In("FAILED") \cup failing /\ Cardinality(In("FAILED") \cap failing) = 0
      BY <2>2, <2>3, <3>1
    <3> HIDE DEF failing, G
    <3> QED BY <3>3, <3>4, <3>5
  <2>5. Count("SUCCEEDED") \in Nat /\ Cardinality(G) \in Nat
    <3>1. G \in SUBSET Pages
      BY DEF Lapsed, In
    <3> QED BY <3>1, Counts
  <2>6. Count("SUCCEEDED")' = Count("SUCCEEDED") /\ In("FAILED")' = In("FAILED")
    BY <2>1 DEF Count, In
  <2>7. {p \in admission'.pages : page'[p].gen >= MaxRetries} = {p \in Lapsed : page[p].gen >= MaxRetries}
    BY <2>1
  <2> HIDE DEF failing, G
  <2>8. admission'.succeeded <= Count("SUCCEEDED")' /\ admission'.failed <= Cardinality(G)
    BY <2>1, <2>4, <2>5, <2>6 DEF Count
  <2> QED BY <2>6, <2>7, <2>8 DEF Counted, G
<1> QED BY <1>1, <1>2, <1>3, WhoMoves DEF Framed

\* These transactions leave the counters of the job alone.
LEMMA CountersKept ==
  ASSUME TypeInv, [Next]_vars,
         \A r \in Renderers : ~CloseAdmission(r) /\ ~CompletePage(r) /\ ~FailPage(r),
         \A c \in Reconcilers : ~CloseReconciliation(c)
  PROVE  job'.succeeded = job.succeeded /\ job'.failed = job.failed
<1>0. job \in JobRow /\ Types
  BY DEF TypeInv, Types
<1>1. CASE AcceptRequested \/ AcceptCancellation \/ PhaseLapses
  BY <1>0, <1>1 DEF AcceptRequested, AcceptCancellation, PhaseLapses, JobRow
<1>2. CASE \E x \in Ingesters \cup Assemblers : ExtendPhaseLease(x)
  BY <1>0, <1>2 DEF ExtendPhaseLease, JobRow
<1>3. ASSUME NEW i \in Ingesters, ClaimIngestion(i) \/ FinishIngestion(i)
      PROVE  job'.succeeded = job.succeeded /\ job'.failed = job.failed
  <2>1. CASE ClaimIngestion(i)
    BY <1>0, <2>1 DEF ClaimIngestion, JobRow
  <2>2. CASE FinishIngestion(i)
    BY <1>0, <2>2 DEF FinishIngestion, JobRow
  <2> QED BY <1>3, <2>1, <2>2
<1>4. CASE \E i \in Ingesters : IngestionFails(i)
  BY <1>0, <1>4, RetryPhaseJob DEF IngestionFails
<1>5. CASE \E a \in Assemblers : FinalizeEmptyJob(a) \/ ClaimAssembly(a)
  BY <1>0, <1>5 DEF FinalizeEmptyJob, ClaimAssembly, JobRow
<1>6. CASE \E a \in Assemblers : PublishArtifacts(a)
  BY <1>0, <1>6 DEF PublishArtifacts, JobRow
<1>7. CASE \E a \in Assemblers : RetryAssembly(a)
  BY <1>0, <1>7, RetryPhaseJob DEF RetryAssembly
<1>8. CASE \E k \in Collectors : CloseCompletion(k)
  BY <1>0, <1>8 DEF CloseCompletion, JobRow
<1>9. CASE job' = job
  BY <1>9
<1> QED BY <1>1, <1>2, <1>3, <1>4, <1>5, <1>6, <1>7, <1>8, <1>9, WhoWritesJob DEF JobWriters

\* An outcome that is counted is a page more with that outcome.
LEMMA OneMoreOutcome ==
  ASSUME TypeInv, PagesMove, NEW s \in {"SUCCEEDED", "FAILED"}, NEW p \in Pages,
         page[p].status = "RENDERING", page'[p].status = s
  PROVE  Count(s) + 1 <= Count(s)'
<1>1. In(s) \cup {p} \in SUBSET In(s)' /\ p \notin In(s)
  BY OutcomesGrow DEF In
<1>2. Cardinality(In(s) \cup {p}) = Cardinality(In(s)) + 1
  BY <1>1, Counts, FS_AddElement
<1>3. Cardinality(In(s) \cup {p}) <= Count(s)'
  BY <1>1, OutcomesGrow
<1> QED BY <1>2, <1>3 DEF Count

\* The counters of the job never claim more than the pages table shows.
LEMMA NextCounters ==
  ASSUME TypeInv, CountersNotAhead, Counted, [Next]_vars
  PROVE  job'.succeeded <= Count("SUCCEEDED")' /\ job'.failed <= Count("FAILED")'
<1>0. PagesMove /\ job \in JobRow /\ job' \in JobRow
  BY StepMoves, JobStaysTyped DEF TypeInv, Types
<1>1. /\ Count("SUCCEEDED") <= Count("SUCCEEDED")' /\ Count("FAILED") <= Count("FAILED")'
      /\ Count("SUCCEEDED") \in Nat /\ Count("FAILED") \in Nat
      /\ Count("SUCCEEDED")' \in Nat /\ Count("FAILED")' \in Nat
  <2>1. Count("SUCCEEDED") <= Count("SUCCEEDED")' /\ Count("FAILED") <= Count("FAILED")'
    BY <1>0, OutcomesGrow DEF Count
  <2>2. In("SUCCEEDED")' \in SUBSET Pages /\ In("FAILED")' \in SUBSET Pages
    BY DEF In
  <2> QED BY <2>1, <2>2, Counts DEF Count
<1>2. /\ job.succeeded \in Nat /\ job.failed \in Nat
      /\ job.succeeded <= Count("SUCCEEDED") /\ job.failed <= Count("FAILED")
  BY <1>0 DEF JobRow, CountersNotAhead
<1>3. CASE job'.succeeded = job.succeeded /\ job'.failed = job.failed
  BY <1>1, <1>2, <1>3
<1>4. ASSUME NEW r \in Renderers, CloseAdmission(r)
      PROVE  job'.succeeded <= Count("SUCCEEDED")' /\ job'.failed <= Count("FAILED")'
  <2> DEFINE table == [p \in Pages |-> IF p \in admission.pages THEN Reclaimed(p) ELSE page[p]]
             F == In("FAILED") \cup {p \in admission.pages : page[p].gen >= MaxRetries}
  <2>1. job'.succeeded = admission.succeeded /\ job'.failed = admission.failed
    BY <1>0, <1>4 DEF CloseAdmission, JobRow
  <2>2. /\ admission.succeeded <= Count("SUCCEEDED") /\ admission.failed <= Cardinality(F)
        /\ admission.succeeded \in Nat /\ admission.failed \in Nat /\ admission.pages \subseteq Pages
    BY DEF Counted, TypeInv, Types, Admission
  <2>3. ASSUME NEW q \in Pages PROVE page[q] \in PageRow /\ Reclaimed(q) \in PageRow
    <3>1. page[q] \in PageRow
      BY DEF TypeInv, Types
    <3> QED BY <3>1 DEF Reclaimed, PageRow
  <2>4. Claim(r, table) /\ table \in [Pages -> PageRow]
    BY <1>4, <2>3 DEF CloseAdmission
  <2>5. \A q \in F : q \in Pages /\ table[q].status = "FAILED"
    <3>0. \A q \in Pages : page[q].gen >= MaxRetries => ~(page[q].gen < MaxRetries)
      BY <2>3, LimitsAssumption DEF PageRow
    <3>1. \A q \in Pages : page[q].gen >= MaxRetries => Reclaimed(q).status = "FAILED"
      BY <2>3, <3>0 DEF Reclaimed, PageRow
    <3>2. \A q \in In("FAILED") : q \in Pages /\ q \notin admission.pages /\ page[q].status = "FAILED"
      BY DEF In, TypeInv, AdmissionLocks
    <3> QED BY <2>2, <3>1, <3>2
  <2>6. \A q \in F : page'[q].status = "FAILED"
    <3> HIDE DEF table, F
    <3>1. CASE page' = table
      BY <2>5, <3>1
    <3>2. ASSUME NEW u \in Pages, Claimed(r, table, u) PROVE \A q \in F : page'[q].status = "FAILED"
      <4>1. table[u].status = "QUEUED" /\ \A q \in Pages : q # u => page'[q] = table[q]
        BY <2>4, <3>2 DEF Claimed
      <4> QED BY <2>5, <4>1
    <3> QED BY <2>4, <3>1, <3>2, ClaimEffect
  <2>7. F \in SUBSET In("FAILED")'
    BY <2>5, <2>6 DEF In
  <2>8. Cardinality(F) <= Count("FAILED")'
    BY <1>0, <2>7, OutcomesGrow
  <2>9. Cardinality(F) \in Nat
    <3>1. F \in SUBSET Pages
      BY <2>5
    <3> QED BY <3>1, Counts
  <2> HIDE DEF F
  <2> QED BY <1>1, <2>1, <2>2, <2>8, <2>9
<1>5. ASSUME NEW r \in Renderers, CompletePage(r) \/ FailPage(r)
      PROVE  job'.succeeded <= Count("SUCCEEDED")' /\ job'.failed <= Count("FAILED")'
  <2> DEFINE p == renderer[r].p
  <2>0. p \in Pages /\ page[p] \in PageRow /\ page \in [Pages -> PageRow]
    BY <1>5 DEF CompletePage, FailPage, TypeInv, LoopsTyped, Types
  <2>1. \/ job' = job
        \/ Increment(TRUE) /\ page[p].status = "RENDERING" /\ page'[p].status = "SUCCEEDED"
        \/ Increment(FALSE) /\ page[p].status = "RENDERING" /\ page'[p].status = "FAILED"
    <3>1. CASE CompletePage(r)
      <4>1. page[p].status = "RENDERING"
        BY <3>1 DEF CompletePage, HoldsPage
      <4>2. \/ job' = job
            \/ /\ Increment(FALSE)
               /\ page' = [page EXCEPT ![p] = [page[p] EXCEPT !.status = "FAILED", !.lapsed = FALSE]]
            \/ /\ Increment(TRUE)
               /\ page' = [page EXCEPT ![p] = [page[p] EXCEPT !.status = "SUCCEEDED", !.lapsed = FALSE,
                                                              !.bundle = "AVAILABLE", !.due = TRUE]]
        BY <2>0, <3>1 DEF CompletePage
      <4> HIDE DEF p
      <4>3. page' = [page EXCEPT ![p] = [page[p] EXCEPT !.status = "FAILED", !.lapsed = FALSE]]
              => page'[p].status = "FAILED"
        BY <2>0 DEF PageRow
      <4>4. page' = [page EXCEPT ![p] = [page[p] EXCEPT !.status = "SUCCEEDED", !.lapsed = FALSE,
                                                        !.bundle = "AVAILABLE", !.due = TRUE]]
              => page'[p].status = "SUCCEEDED"
        BY <2>0 DEF PageRow
      <4> QED BY <4>1, <4>2, <4>3, <4>4
    <3>2. CASE FailPage(r)
      <4>1. \/ job' = job
            \/ /\ Increment(FALSE) /\ page[p].status = "RENDERING"
               /\ page' = [page EXCEPT ![p] = [page[p] EXCEPT !.status = "FAILED", !.lapsed = FALSE]]
        BY <2>0, <3>2 DEF FailPage, HoldsPage
      <4> HIDE DEF p
      <4>2. page' = [page EXCEPT ![p] = [page[p] EXCEPT !.status = "FAILED", !.lapsed = FALSE]]
              => page'[p].status = "FAILED"
        BY <2>0 DEF PageRow
      <4> QED BY <4>1, <4>2
    <3> QED BY <1>5, <3>1, <3>2
  <2> HIDE DEF p
  <2>2. CASE Increment(TRUE) /\ page[p].status = "RENDERING" /\ page'[p].status = "SUCCEEDED"
    <3>1. job'.succeeded = job.succeeded + 1 /\ job'.failed = job.failed
      BY <1>0, <2>2 DEF Increment, JobRow
    <3>2. Count("SUCCEEDED") + 1 <= Count("SUCCEEDED")'
      BY <1>0, <2>0, <2>2, OneMoreOutcome
    <3> QED BY <1>1, <1>2, <3>1, <3>2
  <2>3. CASE Increment(FALSE) /\ page[p].status = "RENDERING" /\ page'[p].status = "FAILED"
    <3>1. job'.succeeded = job.succeeded /\ job'.failed = job.failed + 1
      BY <1>0, <2>3 DEF Increment, JobRow
    <3>2. Count("FAILED") + 1 <= Count("FAILED")'
      BY <1>0, <2>0, <2>3, OneMoreOutcome
    <3> QED BY <1>1, <1>2, <3>1, <3>2
  <2> QED BY <1>3, <2>1, <2>2, <2>3
<1>6. ASSUME NEW c \in Reconcilers, CloseReconciliation(c)
      PROVE  job'.succeeded <= Count("SUCCEEDED")' /\ job'.failed <= Count("FAILED")'
  <2> DEFINE marked == reconciler[c].marked
             good == Count("SUCCEEDED")
             bad == Count("FAILED")
             late == marked \/ job.late
             end == IF good > 0 THEN "RUNNING" ELSE IF late THEN "FAILED" ELSE "CANCELLED"
             row == [job EXCEPT !.owner = None, !.lapsed = FALSE, !.late = late]
  <2>1. page' = page
    BY <1>6 DEF CloseReconciliation
  <2>2. Count("SUCCEEDED")' = good /\ Count("FAILED")' = bad
    BY <2>1 DEF Count, In
  <2>3. \/ job' = [row EXCEPT !.status = end, !.attempts = 0, !.succeeded = good, !.failed = bad]
        \/ job' = [row EXCEPT !.status = "CANCEL_REQUESTED"]
        \/ job' = job
    BY <1>6 DEF CloseReconciliation
  <2>4. /\ row.succeeded = job.succeeded /\ row.failed = job.failed
        /\ DOMAIN row = {"status", "owner", "lapsed", "attempts", "late", "succeeded", "failed"}
    BY <1>0 DEF JobRow
  <2> HIDE DEF good, bad, end, row, late
  <2>5. \/ job'.succeeded = good /\ job'.failed = bad
        \/ job'.succeeded = job.succeeded /\ job'.failed = job.failed
    BY <2>3, <2>4
  <2> QED BY <1>1, <1>3, <2>2, <2>5
<1> QED BY <1>3, <1>4, <1>5, <1>6, CountersKept

\* A job that assembles or has published has a page that succeeded.
LEMMA NextPublishable ==
  ASSUME TypeInv, CountersNotAhead, PagesMove, JobSteady \/ JobMoved
  PROVE  job'.status \in {"ASSEMBLING", "PUBLISHED", "PARTIAL"} => In("SUCCEEDED")' # {}
<1>1. In("SUCCEEDED") \subseteq In("SUCCEEDED")'
  BY OutcomesGrow
<1>2. CASE JobSteady
  BY <1>1, <1>2 DEF JobSteady, CountersNotAhead
<1>3. CASE JobMoved
  <2>1. job'.status = "ASSEMBLING" => In("SUCCEEDED") # {}
    <3> SUFFICES ASSUME job.succeeded > 0, In("SUCCEEDED") = {} PROVE FALSE
      BY <1>3 DEF JobMoved
    <3>1. Count("SUCCEEDED") = 0
      BY FS_EmptySet DEF Count
    <3>2. job.succeeded \in Nat /\ job.succeeded <= Count("SUCCEEDED")
      BY DEF TypeInv, Types, JobRow, CountersNotAhead
    <3> QED BY <3>1, <3>2
  <2>2. job'.status \in {"PUBLISHED", "PARTIAL"} => job.status = "ASSEMBLING"
    BY <1>3 DEF JobMoved, Allowed
  <2> QED BY <1>1, <2>1, <2>2 DEF CountersNotAhead
<1> QED BY <1>2, <1>3

\* The inductive invariant of the frontier's books.
FrontierInv == StatusInv /\ ConcurrencyBounded /\ Counted /\ CountersNotAhead

\* It holds initially.
LEMMA InitFrontier == Init => FrontierInv
<1> SUFFICES ASSUME Init PROVE FrontierInv
  OBVIOUS
<1>1. \A s \in {"RENDERING", "SUCCEEDED", "FAILED"} : In(s) = {} /\ Count(s) = 0
  BY FS_EmptySet DEF Init, In, Count
<1>2. ConcurrencyBounded
  BY <1>1, LimitsAssumption DEF ConcurrencyBounded
<1>3. CountersNotAhead
  BY <1>1 DEF Init, CountersNotAhead
<1>4. Counted
  <2>1. In("FAILED") \cup {p \in admission.pages : page[p].gen >= MaxRetries} = {}
    BY <1>1 DEF Init, NoAdmission
  <2>2. admission.succeeded = 0 /\ admission.failed = 0
    BY DEF Init, NoAdmission
  <2>3. Cardinality(In("FAILED") \cup {p \in admission.pages : page[p].gen >= MaxRetries}) = 0
    BY <2>1, FS_EmptySet
  <2> QED BY <1>1, <2>2, <2>3 DEF Counted
<1> QED BY <1>2, <1>3, <1>4, InitStatus DEF FrontierInv

\* Every step keeps it.
LEMMA NextFrontier == FrontierInv /\ [Next]_vars => FrontierInv'
<1> SUFFICES ASSUME FrontierInv, [Next]_vars PROVE FrontierInv'
  OBVIOUS
<1>1. TypeInv /\ PagesMove /\ (JobSteady \/ JobMoved) /\ StatusInv'
  BY StepMoves, JobMoves, NextStatus DEF FrontierInv, StatusInv
<1>2. ConcurrencyBounded' /\ Counted'
  BY <1>1, NextConcurrency, NextCounted DEF FrontierInv
<1>3. CountersNotAhead'
  BY <1>1, NextCounters, NextPublishable DEF FrontierInv, CountersNotAhead
<1> QED BY <1>1, <1>2, <1>3 DEF FrontierInv

\* For every number of pages and loops: never more pages are rendered than
\* page_concurrency allows, an archive is assembled over a closed frontier only,
\* no page is rendered for a job that has ended, the counters never claim more
\* than the pages show, and one terminal event is sent, whatever claimPage,
\* completePage, failPage and the reconciliations do in between.
THEOREM FrontierAlwaysConsistent == Spec => []FrontierConsistent
<1>1. FrontierInv => FrontierConsistent
  <2> SUFFICES ASSUME FrontierInv PROVE TypeOK
    BY DEF FrontierConsistent, FrontierInv, StatusInv, Quiet
  <2>1. job \in Job
    <3> DEFINE n == Cardinality(Pages)
    <3>1. n \in Nat /\ Count("SUCCEEDED") <= n /\ Count("FAILED") <= n
      BY PagesAssumption, FS_Subset, FS_CardinalityType DEF Count, In
    <3>2. job \in JobRow /\ job.succeeded <= Count("SUCCEEDED") /\ job.failed <= Count("FAILED")
      BY DEF FrontierInv, StatusInv, TypeInv, Types, CountersNotAhead
    <3>3. Count("SUCCEEDED") \in Nat /\ Count("FAILED") \in Nat
      BY Counts
    <3>4. job.succeeded \in 0 .. n /\ job.failed \in 0 .. n
      BY <3>1, <3>2, <3>3 DEF JobRow
    <3> HIDE DEF n
    <3>5. job \in [status : Statuses, owner : Ingesters \cup Assemblers \cup {None}, lapsed : BOOLEAN,
                   attempts : 0 .. MaxPhase, late : BOOLEAN, succeeded : 0 .. n, failed : 0 .. n]
      BY <3>2, <3>4 DEF JobRow
    <3> QED BY <3>5 DEF Job, Statuses, n
  <2>2. /\ \A k \in Collectors : collector[k].at \in {"idle", "delete", "complete", "expire"}
        /\ admission.by \in Renderers \cup {None} /\ admission.pages \subseteq Pages
        /\ \A n \in 1 .. Len(sent) : sent[n] \in Ended
    BY DEF FrontierInv, StatusInv, TypeInv, Types, Target, Admission
  <2> QED BY <2>1, <2>2 DEF FrontierInv, StatusInv, TypeInv, Types, TypeOK, Ingestion, Rendering, Assembly
<1> QED BY <1>1, InitFrontier, NextFrontier, PTL DEF Spec

-----------------------------------------------------------------------------
(* The bucket: bundles.                                                      *)

\* Objects of different kinds, pages, attempts, generations or parts have
\* different names.
LEMMA Names ==
  /\ \A p, q, g, h : Bundle(p, g) = Bundle(q, h) <=> p = q /\ g = h
  /\ \A p, g, o : Bundle(p, g) # Final(o)
  /\ \A o, u \in Finals : Final(o) = Final(u) <=> o = u
  /\ \A o \in Finals : o = <<o[1], o[2]>> /\ o[1] \in 1 .. MaxStaged /\ o[2] \in Parts
  /\ \A g \in 1 .. MaxStaged, k \in Parts : <<g, k>> \in Finals /\ <<g, k>>[1] = g
BY DEF Bundle, Final, Finals

BundleInv ==
  /\ BundlesStay
  /\ \A r \in Renderers : renderer[r].at = "complete" /\ HoldsPage(r) =>
       Bundle(renderer[r].p, renderer[r].gen) \in store
  /\ \A r \in Renderers : renderer[r].at = "discard" => page[renderer[r].p].status \in {"CANCELLED", "FAILED"}
  /\ \A k \in Collectors, p \in Pages :
       collector[k].at # "idle" /\ collector[k].kind = "bundle" /\ collector[k].id = <<p>> =>
         page[p].bundle \in {"DELETE_PENDING", "DELETED"}

\* How a renderer gets to "complete" and to "discard".
LEMMA RendererOutcomes ==
  ASSUME TypeInv, [Next]_vars, NEW r \in Renderers, renderer'[r] # renderer[r]
  PROVE  /\ renderer'[r].at = "complete" =>
              /\ renderer'[r].p = renderer[r].p /\ renderer'[r].gen = renderer[r].gen
              /\ store' = store \cup {Bundle(renderer[r].p, renderer[r].gen)}
         /\ renderer'[r].at = "discard" => page'[renderer'[r].p].status \in {"CANCELLED", "FAILED"}
<1>0. renderer \in [Renderers -> Rendering] /\ renderer[r] \in Rendering
  BY DEF TypeInv, Types
<1>1. PICK x \in Renderers : RendererSteps(x)
  BY WhoMoves DEF Framed
<1>2. RendererMoves(x)
  BY <1>1, RenderersMove
<1>3. x = r
  BY <1>0, <1>2 DEF RendererMoves
<1> DEFINE Gone == renderer' = [renderer EXCEPT ![r] = Nothing]
           To(step) == renderer' = [renderer EXCEPT ![r] = [renderer[r] EXCEPT !.at = step]]
<1>4. /\ Gone => renderer'[r].at = "idle"
      /\ \A step : To(step) => /\ renderer'[r].at = step /\ renderer'[r].p = renderer[r].p
                               /\ renderer'[r].gen = renderer[r].gen
  BY <1>0 DEF Nothing, Rendering
<1>5. CASE CloseAdmission(r) \/ ClaimPage(r)
  <2>1. PICK table : Claim(r, table)
    BY <1>5 DEF CloseAdmission, ClaimPage
  <2>2. renderer'[r].at \in {"idle", "render"}
    <3>1. PICK picked : renderer' = [renderer EXCEPT ![r] =
                          IF picked = {} THEN Nothing
                          ELSE LET p == CHOOSE q \in picked : TRUE
                               IN  [at |-> "render", p |-> p, gen |-> table[p].gen + 1]]
      BY <2>1 DEF Claim
    <3> QED BY <1>0, <3>1 DEF Nothing
  <2> QED BY <2>2
<1>6. CASE RenderPage(r)
  BY <1>4, <1>6 DEF RenderPage, Goes
<1>7. CASE RenderFails(r) \/ CompletePageFails(r)
  BY <1>4, <1>7 DEF RenderFails, CompletePageFails, Goes
<1>8. CASE CompletePage(r)
  <2> DEFINE p == renderer[r].p
  <2>0. p \in Pages /\ page[p] \in PageRow /\ page \in [Pages -> PageRow]
    BY <1>8 DEF CompletePage, TypeInv, LoopsTyped, Types
  <2>1. \/ Gone \/ To("fail")
        \/ To("discard") /\ \E s \in {"CANCELLED", "FAILED"} :
                              page' = [page EXCEPT ![p] = [page[p] EXCEPT !.status = s, !.lapsed = FALSE]]
    BY <1>8, <2>0 DEF CompletePage, Goes
  <2>2. \A s \in {"CANCELLED", "FAILED"} :
          page' = [page EXCEPT ![p] = [page[p] EXCEPT !.status = s, !.lapsed = FALSE]] => page'[p].status = s
    BY <2>0 DEF PageRow
  <2>3. CASE Gone \/ To("fail")
    BY <1>4, <2>3
  <2>4. CASE To("discard") /\ page'[p].status \in {"CANCELLED", "FAILED"}
    <3>1. renderer'[r].at = "discard" /\ renderer'[r].p = p
      BY <1>4, <2>4
    <3> QED BY <2>4, <3>1
  <2> HIDE DEF Gone, To
  <2> QED BY <2>1, <2>2, <2>3, <2>4
<1>9. CASE DiscardBundle(r) \/ FailPage(r) \/ RendererCrashes(r)
  BY <1>4, <1>9 DEF DiscardBundle, FailPage, RendererCrashes
<1> QED BY <1>1, <1>3, <1>5, <1>6, <1>7, <1>8, <1>9 DEF RendererSteps

\* A bundle that is in the bucket stays there while its page is rendered, and
\* once it is accepted until the collector may have it.
LEMMA BundlesKept ==
  ASSUME TypeInv, BundleInv, [Next]_vars, NEW p \in Pages, NEW g, Bundle(p, g) \in store,
         page[p].status = "RENDERING" \/ (page[p].status = "SUCCEEDED" /\ page[p].bundle = "AVAILABLE")
  PROVE  Bundle(p, g) \in store'
<1>1. ASSUME NEW r \in Renderers, RenderPage(r) PROVE Bundle(p, g) \in store'
  BY <1>1 DEF RenderPage
<1>2. ASSUME NEW r \in Renderers, DiscardBundle(r) PROVE Bundle(p, g) \in store'
  <2>1. page[renderer[r].p].status \in {"CANCELLED", "FAILED"}
    BY <1>2 DEF DiscardBundle, BundleInv
  <2>2. Bundle(renderer[r].p, renderer[r].gen) # Bundle(p, g)
    BY <2>1, Names
  <2> QED BY <1>2, <2>2 DEF DiscardBundle
<1>3. ASSUME NEW a \in Assemblers, CopyArtifact(a) PROVE Bundle(p, g) \in store'
  BY <1>3 DEF CopyArtifact
<1>4. ASSUME NEW k \in Collectors, DeleteObject(k) PROVE Bundle(p, g) \in store'
  <2>1. Targeted(collector[k], page) /\ collector[k].at # "idle"
    BY <1>4 DEF DeleteObject, TypeInv, LoopsTyped
  <2>2. CASE collector[k].kind = "artifact"
    BY <1>4, <2>1, <2>2, Names DEF DeleteObject, Targeted
  <2>3. CASE collector[k].kind = "bundle"
    <3>1. PICK q \in Pages : collector[k].id = <<q>> /\ collector[k].object = Bundle(q, page[q].gen)
                             /\ page[q].status = "SUCCEEDED"
      BY <2>1, <2>3 DEF Targeted
    <3>2. page[q].bundle \in {"DELETE_PENDING", "DELETED"}
      BY <2>1, <2>3, <3>1 DEF BundleInv
    <3>3. collector[k].object # Bundle(p, g)
      BY <3>1, <3>2, Names
    <3> QED BY <1>4, <3>3 DEF DeleteObject
  <2> QED BY <2>1, <2>2, <2>3 DEF Targeted
<1> QED BY <1>1, <1>2, <1>3, <1>4, WhoMoves DEF Framed, StoreWriters

\* The invariant of the bundles holds after every step.
LEMMA NextBundles ==
  ASSUME TypeInv, BundleInv, [Next]_vars, JobSteady \/ JobMoved
  PROVE  BundleInv'
<1>0. /\ PagesMove /\ page \in [Pages -> PageRow]
      /\ \A q \in Pages : page[q].gen \in Nat /\ page'[q].gen \in Nat
      /\ renderer \in [Renderers -> Rendering] /\ collector \in [Collectors -> Target]
  BY StepMoves, LimitsAssumption DEF TypeInv, Types, PageRow, PagesMove
<1>1. job'.status \notin Ended => job.status \notin Ended
  BY DEF JobSteady, JobMoved, Allowed, Ended, Active
<1>2. BundlesStay'
  <2>1. SUFFICES ASSUME NEW p \in Pages, page'[p].status = "SUCCEEDED"
                 PROVE  /\ job'.status \notin Ended => page'[p].bundle = "AVAILABLE"
                        /\ page'[p].bundle = "AVAILABLE" => Bundle(p, page'[p].gen) \in store'
    BY DEF BundlesStay, In, Bundle
  <2>2. CASE page[p].status = "SUCCEEDED"
    <3>0. PageKept(p) \/ PageBundled(p)
      BY <1>0, <2>2 DEF PagesMove, PageEffect, PageAdded, PageClaimed, PageRequeued, PageFailed,
                        PageCancelled, PageSucceeded
    <3>1. /\ job.status \notin Ended => page[p].bundle = "AVAILABLE"
          /\ page[p].bundle = "AVAILABLE" => Bundle(p, page[p].gen) \in store
      BY <2>2 DEF BundleInv, BundlesStay, In
    <3>2. CASE PageKept(p)
      BY <1>1, <2>2, <3>1, <3>2, BundlesKept DEF PageKept, Same
    <3>3. CASE PageBundled(p)
      BY <1>1, <3>1, <3>3 DEF PageBundled
    <3> QED BY <3>0, <3>2, <3>3
  <2>3. CASE page[p].status # "SUCCEEDED"
    <3>1. PageSucceeded(p)
      BY <1>0, <2>1, <2>3 DEF PagesMove, PageEffect, PageKept, PageBundled, PageAdded, PageClaimed,
                              PageRequeued, PageFailed, PageCancelled
    <3>2. PICK r \in Renderers : renderer[r].at = "complete" /\ renderer[r].p = p /\ HoldsPage(r)
      BY <3>1 DEF PageSucceeded
    <3>3. Bundle(p, page[p].gen) \in store
      BY <3>2 DEF BundleInv, HoldsPage
    <3> QED BY <3>1, <3>3, BundlesKept DEF PageSucceeded
  <2> QED BY <2>2, <2>3
<1>3. ASSUME NEW r \in Renderers, renderer'[r].at = "complete", HoldsPage(r)'
      PROVE  Bundle(renderer'[r].p, renderer'[r].gen) \in store'
  <2> DEFINE p == renderer[r].p
  <2>1. CASE renderer'[r] = renderer[r]
    <3>1. p \in Pages /\ renderer[r].gen <= page[p].gen /\ renderer[r].gen \in Nat
      BY <1>0, <1>3, <2>1, LimitsAssumption DEF TypeInv, LoopsTyped, Rendering
    <3>2. page'[p].status = "RENDERING" /\ page'[p].gen = renderer[r].gen
      BY <1>3, <2>1 DEF HoldsPage
    <3> HIDE DEF p
    <3>3. page'[p].gen # page[p].gen + 1
      BY <1>0, <3>1, <3>2
    <3>4. page[p].status = "RENDERING" /\ page[p].gen = renderer[r].gen
      BY <1>0, <3>1, <3>2, <3>3
         DEF PagesMove, PageEffect, PageKept, PageBundled, PageAdded, PageClaimed, PageRequeued,
             PageFailed, PageCancelled, PageSucceeded, Same
    <3>5. Bundle(p, renderer[r].gen) \in store
      BY <1>3, <2>1, <3>4 DEF BundleInv, HoldsPage, p
    <3>6. Bundle(p, renderer[r].gen) \in store'
      BY <3>1, <3>4, <3>5, BundlesKept
    <3> QED BY <2>1, <3>6 DEF p
  <2>2. CASE renderer'[r] # renderer[r]
    BY <1>3, <2>2, RendererOutcomes
  <2> QED BY <2>1, <2>2
<1>4. ASSUME NEW r \in Renderers, renderer'[r].at = "discard"
      PROVE  page'[renderer'[r].p].status \in {"CANCELLED", "FAILED"}
  <2>1. CASE renderer'[r] = renderer[r]
    <3>1. renderer[r].p \in Pages /\ page[renderer[r].p].status \in {"CANCELLED", "FAILED"}
      BY <1>4, <2>1 DEF TypeInv, LoopsTyped, BundleInv
    <3> QED BY <1>0, <2>1, <3>1, OutcomesFinal
  <2>2. CASE renderer'[r] # renderer[r]
    BY <1>4, <2>2, RendererOutcomes
  <2> QED BY <2>1, <2>2
<1>5. ASSUME NEW k \in Collectors, NEW p \in Pages,
             collector'[k].at # "idle", collector'[k].kind = "bundle", collector'[k].id = <<p>>
      PROVE  page'[p].bundle \in {"DELETE_PENDING", "DELETED"}
  <2>1. CASE collector[k].at # "idle" /\ collector[k].kind = "bundle" /\ collector[k].id = <<p>>
    <3>1. page[p].bundle \in {"DELETE_PENDING", "DELETED"} /\ page[p].status = "SUCCEEDED"
      BY <2>1 DEF BundleInv, TypeInv, PageRows
    <3> QED BY <1>0, <3>1 DEF PagesMove, PageEffect, PageKept, PageBundled, PageAdded, PageClaimed,
               PageRequeued, PageFailed, PageCancelled, PageSucceeded, Same
  <2>2. ASSUME NEW l \in Collectors, CollectorSteps(l), collector'[k] # collector[k]
        PROVE  \/ collector[k].at # "idle" /\ collector[k].kind = "bundle" /\ collector[k].id = <<p>>
               \/ page'[p].bundle \in {"DELETE_PENDING", "DELETED"}
    <3>1. CASE \E o \in Finals : ClaimArtifact(l, o)
      BY <1>0, <1>5, <2>2, <3>1 DEF ClaimArtifact
    <3>2. ASSUME NEW q \in Pages, ClaimBundle(l, q)
          PROVE  page'[p].bundle \in {"DELETE_PENDING", "DELETED"}
      <4>1. k = l /\ collector'[k].id = <<q>>
        BY <1>0, <2>2, <3>2 DEF ClaimBundle
      <4>2. p = q
        BY <1>5, <4>1
      <4>3. page'[q] = [page[q] EXCEPT !.bundle = "DELETE_PENDING", !.due = FALSE] /\ page[q] \in PageRow
        BY <1>0, <3>2 DEF ClaimBundle
      <4> QED BY <4>2, <4>3 DEF PageRow
    <3>3. CASE DeleteObject(l)
      BY <1>0, <1>5, <2>2, <3>3 DEF DeleteObject, Target
    <3>4. CASE OpenCompletion(l)
      BY <1>0, <1>5, <2>2, <3>4 DEF OpenCompletion, Target
    <3>5. CASE CompleteBundle(l) \/ CloseCompletion(l) \/ RetryDeletion(l) \/ CollectorCrashes(l)
      <4>1. collector' = [collector EXCEPT ![l] = NoTarget]
        BY <3>5 DEF CompleteBundle, CloseCompletion, RetryDeletion, CollectorCrashes
      <4> QED BY <1>0, <1>5, <2>2, <4>1 DEF NoTarget
    <3> QED BY <2>2, <3>1, <3>2, <3>3, <3>4, <3>5 DEF CollectorSteps
  <2>3. CASE collector'[k] # collector[k]
    BY <2>1, <2>2, <2>3, WhoMoves DEF Framed
  <2> QED BY <1>5, <2>1, <2>3
<1> QED BY <1>2, <1>3, <1>4, <1>5 DEF BundleInv, Bundle

-----------------------------------------------------------------------------
(* The bucket: final artifacts.                                              *)

Copying(o) == \E a \in Assemblers : assembler[a].at = "copy" /\ assembler[a].gen = o[1]

\* A row is registered before the object exists and deleted after it; nobody
\* touches the rows of a copy that is going on.
FinalRows ==
  \A o \in Finals :
    /\ artifact[o].state = "PUBLISHED" => Final(o) \in store
    /\ Final(o) \in store => artifact[o].state \notin {"NONE", "DELETED"}
    /\ artifact[o].state = "NONE" => ~artifact[o].due
    /\ Copying(o) => artifact[o].state = "STAGED" /\ ~artifact[o].due

\* Generations are numbered as they are staged, each by one assembly.
Staging ==
  /\ \E n \in 0 .. MaxStaged : StagedGenerations = 1 .. n
  /\ \A a \in Assemblers : assembler[a].gen \in StagedGenerations \cup {0}
  /\ \A a, b \in Assemblers : assembler[a].gen = assembler[b].gen /\ assembler[a].gen # 0 => a = b

\* The target of a collector is no artifact that is being copied, and once
\* deleted it does not come back.
Collecting ==
  \A k \in Collectors, o \in Finals :
    collector[k].at # "idle" /\ collector[k].kind = "artifact" /\ collector[k].id = o =>
      /\ artifact[o].state \in {"STAGED", "DELETE_PENDING", "DELETED"} /\ ~Copying(o)
      /\ collector[k].at \in {"complete", "expire"} => Final(o) \notin store

FinalInv == FinalRows /\ Staging /\ Collecting

\* What the steps of the collector and the assembler that change no object and no
\* state of a row do.
RowsSteady ==
  \A o \in Finals :
    /\ artifact'[o].state = artifact[o].state
    /\ artifact'[o].due => artifact[o].due \/ (artifact[o].state # "NONE" /\ ~Copying(o)')
FinalsSteady == \A o \in Finals : Final(o) \in store' <=> Final(o) \in store
AssembliesEnd ==
  \A a \in Assemblers :
    \/ assembler'[a] = assembler[a]
    \/ assembler'[a].at # "copy" /\ assembler'[a].gen \in {assembler[a].gen, 0}
TargetsEnd ==
  \A k \in Collectors :
    \/ collector'[k] = collector[k]
    \/ collector'[k].at = "idle" \/ collector'[k].kind = "bundle"
    \/ /\ collector'[k].kind = collector[k].kind /\ collector'[k].id = collector[k].id
       /\ collector[k].at = "complete" /\ collector'[k].at = "expire"

\* The generations that are staged depend on the states of the rows only.
LEMMA SameGenerations ==
  ASSUME \A o \in Finals : artifact'[o].state # "NONE" <=> artifact[o].state # "NONE"
  PROVE  StagedGenerations' = StagedGenerations
BY Names DEF StagedGenerations

\* An assembly that goes on has not changed its generation.
LEMMA FewerCopies ==
  ASSUME AssembliesEnd, NEW o, Copying(o)'
  PROVE  Copying(o)
BY DEF AssembliesEnd, Copying

\* Ending an assembly keeps the numbering.
LEMMA StagingKept ==
  ASSUME Staging, AssembliesEnd, StagedGenerations' = StagedGenerations
  PROVE  Staging'
<1>1. \A a \in Assemblers : assembler'[a].gen \in {assembler[a].gen, 0}
  BY DEF AssembliesEnd
<1> QED BY <1>1 DEF Staging

\* Such a step keeps the invariant.
LEMMA SteadyFinals ==
  ASSUME TypeInv, FinalInv, RowsSteady, FinalsSteady, AssembliesEnd, TargetsEnd
  PROVE  FinalInv'
<1>1. Staging'
  BY SameGenerations, StagingKept DEF FinalInv, RowsSteady
<1>2. FinalRows'
  <2> SUFFICES ASSUME NEW o \in Finals
               PROVE  /\ artifact'[o].state = "PUBLISHED" => Final(o) \in store'
                      /\ Final(o) \in store' => artifact'[o].state \notin {"NONE", "DELETED"}
                      /\ artifact'[o].state = "NONE" => ~artifact'[o].due
                      /\ Copying(o)' => artifact'[o].state = "STAGED" /\ ~artifact'[o].due
    BY DEF FinalRows, Finals, Final
  <2>1. Copying(o)' => Copying(o)
    BY FewerCopies
  <2> QED BY <2>1 DEF FinalInv, FinalRows, RowsSteady, FinalsSteady
<1>3. Collecting'
  <2> SUFFICES ASSUME NEW k \in Collectors, NEW o \in Finals,
                      collector'[k].at # "idle", collector'[k].kind = "artifact", collector'[k].id = o
               PROVE  /\ artifact'[o].state \in {"STAGED", "DELETE_PENDING", "DELETED"} /\ ~Copying(o)'
                      /\ collector'[k].at \in {"complete", "expire"} => Final(o) \notin store'
    BY DEF Collecting, Finals, Final
  <2>1. /\ collector[k].id = o /\ collector[k].kind = "artifact" /\ collector[k].at # "idle"
        /\ collector'[k].at \in {"complete", "expire"} => collector[k].at \in {"complete", "expire"}
    BY DEF TargetsEnd
  <2>2. /\ artifact[o].state \in {"STAGED", "DELETE_PENDING", "DELETED"} /\ ~Copying(o)
        /\ collector[k].at \in {"complete", "expire"} => Final(o) \notin store
    BY <2>1 DEF FinalInv, Collecting
  <2>3. artifact'[o].state = artifact[o].state /\ (Final(o) \in store' <=> Final(o) \in store)
    BY DEF RowsSteady, FinalsSteady
  <2> QED BY <2>1, <2>2, <2>3, FewerCopies
<1> QED BY <1>1, <1>2, <1>3 DEF FinalInv

\* The steps that register, copy, publish or delete an artifact.
FinalSteps ==
  \/ \E a \in Assemblers : StageArtifacts(a) \/ CopyArtifact(a) \/ PublishArtifacts(a)
  \/ \E k \in Collectors : (\E o \in Finals : ClaimArtifact(k, o)) \/ DeleteObject(k) \/ CloseCompletion(k)

\* The other steps keep the finals.
LEMMA OtherFinals ==
  ASSUME TypeInv, FinalInv, [Next]_vars, ~FinalSteps
  PROVE  FinalInv'
<1>0. /\ artifact \in [Finals -> ArtifactRow] /\ \A o \in Finals : artifact[o] \in ArtifactRow
      /\ assembler \in [Assemblers -> Assembly] /\ collector \in [Collectors -> Target]
  BY DEF TypeInv, Types
<1>1. FinalsSteady
  <2>1. store' = store \/ \E r \in Renderers : RenderPage(r) \/ DiscardBundle(r)
    BY WhoMoves DEF Framed, StoreWriters, FinalSteps
  <2>2. store' = store \/ \E p, g : store' = store \cup {Bundle(p, g)} \/ store' = store \ {Bundle(p, g)}
    BY <2>1 DEF RenderPage, DiscardBundle
  <2> QED BY <2>2, Names DEF FinalsSteady
<1>2. AssembliesEnd
  <2>1. ASSUME NEW a \in Assemblers, AssemblerSteps(a) PROVE AssembliesEnd
    <3>0. assembler[a] \in Assembly
      BY <1>0
    <3>1. CASE ClaimAssembly(a) \/ RetryAssembly(a) \/ AssemblerCrashes(a)
      <4>1. \E at \in {"build", "idle"} : assembler' = [assembler EXCEPT ![a] = [at |-> at, gen |-> 0]]
        BY <3>1 DEF ClaimAssembly, RetryAssembly, AssemblerCrashes
      <4> QED BY <1>0, <4>1 DEF AssembliesEnd
    <3>2. CASE BuildArchives(a) \/ AssemblyThrows(a)
      <4>1. PICK at \in {"stage", "fail"} : assembler' = [assembler EXCEPT ![a] = [assembler[a] EXCEPT !.at = at]]
        BY <3>2 DEF BuildArchives, AssemblyThrows
      <4>2. assembler'[a].at = at /\ assembler'[a].gen = assembler[a].gen
        BY <1>0, <3>0, <4>1 DEF Assembly
      <4>3. \A b \in Assemblers : b # a => assembler'[b] = assembler[b]
        BY <1>0, <4>1
      <4> QED BY <4>2, <4>3 DEF AssembliesEnd
    <3> QED BY <2>1, <3>1, <3>2 DEF AssemblerSteps, FinalSteps
  <2> QED BY <2>1, WhoMoves DEF Framed, AssembliesEnd
<1>3. TargetsEnd
  <2>1. ASSUME NEW k \in Collectors, CollectorSteps(k) PROVE TargetsEnd
    <3>0. collector[k] \in Target
      BY <1>0
    <3>1. ASSUME NEW p \in Pages, ClaimBundle(k, p) PROVE TargetsEnd
      BY <1>0, <3>1 DEF ClaimBundle, TargetsEnd
    <3>2. CASE OpenCompletion(k)
      <4> DEFINE last == \A q \in Finals \ {collector[k].id} : artifact[q].state \notin {"PUBLISHED", "DELETE_PENDING"}
      <4>1. /\ collector' = [collector EXCEPT ![k] = [collector[k] EXCEPT !.at = "expire", !.last = last]]
            /\ collector[k].at = "complete"
        BY <3>2 DEF OpenCompletion
      <4> HIDE DEF last
      <4>2. /\ collector'[k].kind = collector[k].kind /\ collector'[k].id = collector[k].id
            /\ collector'[k].at = "expire"
        BY <1>0, <3>0, <4>1 DEF Target
      <4>3. \A l \in Collectors : l # k => collector'[l] = collector[l]
        BY <1>0, <4>1
      <4> QED BY <4>1, <4>2, <4>3 DEF TargetsEnd
    <3>3. CASE CompleteBundle(k) \/ RetryDeletion(k) \/ CollectorCrashes(k)
      <4>1. collector' = [collector EXCEPT ![k] = NoTarget]
        BY <3>3 DEF CompleteBundle, RetryDeletion, CollectorCrashes
      <4> QED BY <1>0, <4>1 DEF TargetsEnd, NoTarget
    <3> QED BY <2>1, <3>1, <3>2, <3>3 DEF CollectorSteps, FinalSteps
  <2> QED BY <2>1, WhoMoves DEF Framed, TargetsEnd
<1>4. RowsSteady
  <2>1. CASE artifact' = artifact
    BY <2>1 DEF RowsSteady
  <2>2. ASSUME NEW o \in Finals, ArtifactAges(o) PROVE RowsSteady
    <3>1. /\ artifact' = [artifact EXCEPT ![o] = [artifact[o] EXCEPT !.due = TRUE]]
          /\ artifact[o].state # "NONE" /\ ~Copying(o) /\ assembler' = assembler
      BY <2>2 DEF ArtifactAges, Copying, loops
    <3>2. ~Copying(o)'
      BY <3>1 DEF Copying
    <3>3. \A u \in Finals : u # o => artifact'[u] = artifact[u]
      BY <1>0, <3>1
    <3>4. artifact'[o].state = artifact[o].state
      BY <1>0, <3>1 DEF ArtifactRow
    <3> QED BY <3>1, <3>2, <3>3, <3>4 DEF RowsSteady
  <2>3. ASSUME NEW x, NEW phase, NEW g, RetryPhase(x, phase, g),
               \A o \in Finals : o[1] = g => ~Copying(o)'
        PROVE  RowsSteady
    <3>1. ASSUME NEW o \in Finals
          PROVE  \/ artifact'[o] = artifact[o]
                 \/ /\ o[1] = g /\ artifact[o].state = "STAGED"
                    /\ artifact'[o] = [artifact[o] EXCEPT !.due = TRUE]
      BY <2>3 DEF RetryPhase
    <3>2. \A o \in Finals : [artifact[o] EXCEPT !.due = TRUE].state = artifact[o].state
      BY <1>0 DEF ArtifactRow
    <3> QED BY <2>3, <3>1, <3>2 DEF RowsSteady
  <2>4. ASSUME NEW i \in Ingesters, IngestionFails(i) PROVE RowsSteady
    <3>1. \A o \in Finals : o[1] # 0
      BY Names, LimitsAssumption
    <3> QED BY <2>3, <2>4, <3>1 DEF IngestionFails
  <2>5. ASSUME NEW a \in Assemblers, RetryAssembly(a) PROVE RowsSteady
    <3>1. ASSUME NEW o \in Finals, o[1] = assembler[a].gen PROVE ~Copying(o)'
      <4>1. o[1] # 0
        BY Names, LimitsAssumption
      <4>2. \A b \in Assemblers : b # a => assembler'[b] = assembler[b] /\ assembler[b].gen # o[1]
        BY <1>0, <2>5, <3>1, <4>1 DEF RetryAssembly, FinalInv, Staging
      <4>3. assembler'[a].at = "idle"
        BY <1>0, <2>5 DEF RetryAssembly
      <4> QED BY <4>2, <4>3 DEF Copying
    <3> QED BY <2>3, <2>5, <3>1 DEF RetryAssembly
  <2>6. ASSUME NEW k \in Collectors, RetryDeletion(k) PROVE RowsSteady
    <3>1. ASSUME NEW o \in Finals
          PROVE  artifact'[o] = artifact[o] \/ artifact'[o] = [artifact[o] EXCEPT !.due = FALSE]
      BY <2>6 DEF RetryDeletion
    <3>2. \A o \in Finals : /\ [artifact[o] EXCEPT !.due = FALSE].state = artifact[o].state
                            /\ ~[artifact[o] EXCEPT !.due = FALSE].due
      BY <1>0 DEF ArtifactRow
    <3> QED BY <3>1, <3>2 DEF RowsSteady
  <2> QED BY <2>1, <2>2, <2>4, <2>5, <2>6, WhoWritesArtifacts DEF ArtifactWriters, FinalSteps
<1> QED BY <1>1, <1>2, <1>3, <1>4, SteadyFinals

\* Registering a generation: its rows are new, and so is its number.
LEMMA StagingFinals ==
  ASSUME TypeInv, FinalInv, NEW a \in Assemblers, StageArtifacts(a)
  PROVE  FinalInv'
<1> DEFINE g == Cardinality(StagedGenerations) + 1
<1>0. artifact \in [Finals -> ArtifactRow] /\ assembler \in [Assemblers -> Assembly]
  BY DEF TypeInv, Types
<1>1. PICK n \in 0 .. MaxStaged : StagedGenerations = 1 .. n
  BY DEF FinalInv, Staging
<1>2. g = n + 1 /\ n + 1 \in 1 .. MaxStaged
  <2>1. Cardinality(1 .. n) = n
    BY FS_Interval, LimitsAssumption
  <2>2. Cardinality(StagedGenerations) < MaxStaged
    BY DEF StageArtifacts
  <2> QED BY <1>1, <2>1, <2>2, LimitsAssumption
<1>3. /\ artifact' = [o \in Finals |-> IF o[1] = g THEN [state |-> "STAGED", due |-> FALSE] ELSE artifact[o]]
      /\ \E next \in {"copy", "fail"} : assembler' = [assembler EXCEPT ![a] = [at |-> next, gen |-> g]]
      /\ store' = store /\ collector' = collector
  BY DEF StageArtifacts
<1> HIDE DEF g
<1>4. g \in 1 .. MaxStaged /\ g \notin StagedGenerations /\ g # 0
  BY <1>1, <1>2, LimitsAssumption
<1>5. \A o \in Finals : o[1] = g => artifact[o].state = "NONE"
  BY <1>4, Names DEF StagedGenerations
<1>6. StagedGenerations' = StagedGenerations \cup {g}
  <2>1. \A h \in 1 .. MaxStaged, k \in Parts :
          artifact'[<<h, k>>].state # "NONE" <=> h = g \/ artifact[<<h, k>>].state # "NONE"
    BY <1>3, Names
  <2> QED BY <1>4, <2>1, PartsAssumption DEF StagedGenerations
<1>7. /\ \A b \in Assemblers : b # a => assembler'[b] = assembler[b]
      /\ assembler'[a].gen = g
  BY <1>0, <1>3
<1>8. Staging'
  <2>1. StagedGenerations' = 1 .. (n + 1) /\ n + 1 \in 0 .. MaxStaged
    BY <1>1, <1>2, <1>6, LimitsAssumption
  <2>2. \A b \in Assemblers : assembler[b].gen \in StagedGenerations \cup {0} /\ assembler[b].gen # g
    BY <1>4 DEF FinalInv, Staging
  <2>3. \A b \in Assemblers : assembler'[b].gen \in StagedGenerations' \cup {0}
    BY <1>6, <1>7, <2>2
  <2>4. \A b, c \in Assemblers : assembler'[b].gen = assembler'[c].gen /\ assembler'[b].gen # 0 => b = c
    BY <1>7, <2>2 DEF FinalInv, Staging
  <2> QED BY <2>1, <2>3, <2>4 DEF Staging
<1>9. \A o \in Finals : o[1] # g => (Copying(o)' => Copying(o)) /\ artifact'[o] = artifact[o]
  BY <1>3, <1>7 DEF Copying
<1>10. FinalRows'
  <2> SUFFICES ASSUME NEW o \in Finals
               PROVE  /\ artifact'[o].state = "PUBLISHED" => Final(o) \in store'
                      /\ Final(o) \in store' => artifact'[o].state \notin {"NONE", "DELETED"}
                      /\ artifact'[o].state = "NONE" => ~artifact'[o].due
                      /\ Copying(o)' => artifact'[o].state = "STAGED" /\ ~artifact'[o].due
    BY DEF FinalRows, Finals, Final
  <2>1. CASE o[1] = g
    BY <1>3, <2>1
  <2>2. CASE o[1] # g
    BY <1>3, <1>9, <2>2 DEF FinalInv, FinalRows
  <2> QED BY <2>1, <2>2
<1>11. Collecting'
  <2> SUFFICES ASSUME NEW k \in Collectors, NEW o \in Finals,
                      collector[k].at # "idle", collector[k].kind = "artifact", collector[k].id = o
               PROVE  /\ artifact'[o].state \in {"STAGED", "DELETE_PENDING", "DELETED"} /\ ~Copying(o)'
                      /\ collector[k].at \in {"complete", "expire"} => Final(o) \notin store
    BY <1>3 DEF Collecting, Finals, Final
  <2>1. /\ artifact[o].state \in {"STAGED", "DELETE_PENDING", "DELETED"} /\ ~Copying(o)
        /\ collector[k].at \in {"complete", "expire"} => Final(o) \notin store
    BY DEF FinalInv, Collecting
  <2>2. o[1] # g
    BY <1>5, <2>1
  <2> QED BY <1>9, <2>1, <2>2
<1> QED BY <1>8, <1>10, <1>11 DEF FinalInv

\* What follows for the other steps from the states of the rows and the objects.
LEMMA FinalGoals ==
  ASSUME Staging',
         \A o \in Finals :
           /\ artifact'[o].state = "PUBLISHED" => Final(o) \in store'
           /\ Final(o) \in store' => artifact'[o].state \notin {"NONE", "DELETED"}
           /\ artifact'[o].state = "NONE" => ~artifact'[o].due
           /\ Copying(o)' => artifact'[o].state = "STAGED" /\ ~artifact'[o].due,
         \A k \in Collectors, o \in Finals :
           collector'[k].at # "idle" /\ collector'[k].kind = "artifact" /\ collector'[k].id = o =>
             /\ artifact'[o].state \in {"STAGED", "DELETE_PENDING", "DELETED"} /\ ~Copying(o)'
             /\ collector'[k].at \in {"complete", "expire"} => Final(o) \notin store'
  PROVE  FinalInv'
BY DEF FinalInv, FinalRows, Collecting, Finals, Final

\* Copying: the rows of the generation are staged, and no collector has them.
LEMMA CopyingFinals ==
  ASSUME TypeInv, FinalInv, NEW a \in Assemblers, CopyArtifact(a)
  PROVE  FinalInv'
<1>0. artifact' = artifact /\ assembler' = assembler /\ collector' = collector
  BY DEF CopyArtifact, rows, loops
<1>1. PICK part \in Parts : store' = store \cup {Final(<<assembler[a].gen, part>>)}
  BY DEF CopyArtifact
<1> DEFINE u == <<assembler[a].gen, part>>
<1>2. assembler[a].at = "copy" /\ assembler[a].gen \in 1 .. MaxStaged
  BY LimitsAssumption DEF CopyArtifact, TypeInv, LoopsTyped, Types, Assembly
<1>3. u \in Finals /\ u[1] = assembler[a].gen
  BY <1>2, Names
<1>4. Copying(u)
  BY <1>2, <1>3 DEF Copying
<1> HIDE DEF u
<1>5. \A o \in Finals : Final(o) \in store' <=> Final(o) \in store \/ o = u
  BY <1>1, <1>3, Names DEF u
<1>6. Staging' /\ \A o \in Finals : Copying(o)' <=> Copying(o)
  <2>1. StagedGenerations' = StagedGenerations
    BY <1>0 DEF StagedGenerations
  <2> QED BY <1>0, <2>1 DEF FinalInv, Staging, Copying
<1>7. \A o \in Finals :
        /\ artifact'[o].state = "PUBLISHED" => Final(o) \in store'
        /\ Final(o) \in store' => artifact'[o].state \notin {"NONE", "DELETED"}
        /\ artifact'[o].state = "NONE" => ~artifact'[o].due
        /\ Copying(o)' => artifact'[o].state = "STAGED" /\ ~artifact'[o].due
  BY <1>0, <1>3, <1>4, <1>5, <1>6 DEF FinalInv, FinalRows
<1>8. \A k \in Collectors, o \in Finals :
        collector'[k].at # "idle" /\ collector'[k].kind = "artifact" /\ collector'[k].id = o =>
          /\ artifact'[o].state \in {"STAGED", "DELETE_PENDING", "DELETED"} /\ ~Copying(o)'
          /\ collector'[k].at \in {"complete", "expire"} => Final(o) \notin store'
  BY <1>0, <1>4, <1>5, <1>6 DEF FinalInv, Collecting
<1> QED BY <1>6, <1>7, <1>8, FinalGoals

\* Publishing: every part has been copied, and the copy is over.
LEMMA PublishingFinals ==
  ASSUME TypeInv, FinalInv, NEW a \in Assemblers, PublishArtifacts(a)
  PROVE  FinalInv'
<1> DEFINE g == assembler[a].gen
<1>0. artifact \in [Finals -> ArtifactRow] /\ assembler \in [Assemblers -> Assembly]
  BY DEF TypeInv, Types
<1>1. /\ artifact' = [o \in Finals |-> IF o[1] = g THEN [state |-> "PUBLISHED", due |-> FALSE] ELSE artifact[o]]
      /\ store' = store /\ collector' = collector /\ assembler[a].at = "copy" /\ Copied(a)
  BY DEF PublishArtifacts
<1>2. /\ assembler'[a].at # "copy" /\ assembler'[a].gen \in {g, 0}
      /\ \A b \in Assemblers : b # a => assembler'[b] = assembler[b]
  BY <1>0 DEF PublishArtifacts
<1>3. g # 0
  BY <1>1 DEF TypeInv, LoopsTyped
<1>4. AssembliesEnd
  BY <1>2 DEF AssembliesEnd
<1>5. \A o \in Finals : o[1] = g => Copying(o) /\ ~Copying(o)' /\ Final(o) \in store
  <2> SUFFICES ASSUME NEW o \in Finals, o[1] = g PROVE Copying(o) /\ ~Copying(o)' /\ Final(o) \in store
    OBVIOUS
  <2>1. Copying(o)
    BY <1>1 DEF Copying
  <2>2. ~Copying(o)'
    <3>1. \A b \in Assemblers : assembler[b].gen = g => b = a
      BY <1>3 DEF FinalInv, Staging
    <3> QED BY <1>2, <3>1 DEF Copying
  <2>3. o = <<g, o[2]>> /\ o[2] \in Parts
    BY Names
  <2> QED BY <1>1, <2>1, <2>2, <2>3 DEF Copied
<1>6. \A o \in Finals : artifact[o].state # "NONE" <=> artifact'[o].state # "NONE"
  BY <1>1, <1>5 DEF FinalInv, FinalRows
<1>7. Staging'
  BY <1>4, <1>6, SameGenerations, StagingKept DEF FinalInv
<1>8. \A o \in Finals : o[1] # g => artifact'[o] = artifact[o] /\ (Copying(o)' => Copying(o))
  BY <1>1, <1>4, FewerCopies
<1>9. \A o \in Finals : o[1] = g => artifact'[o].state = "PUBLISHED" /\ ~artifact'[o].due
  BY <1>1
<1> HIDE DEF g
<1>10. \A o \in Finals :
        /\ artifact'[o].state = "PUBLISHED" => Final(o) \in store'
        /\ Final(o) \in store' => artifact'[o].state \notin {"NONE", "DELETED"}
        /\ artifact'[o].state = "NONE" => ~artifact'[o].due
        /\ Copying(o)' => artifact'[o].state = "STAGED" /\ ~artifact'[o].due
  <2> SUFFICES ASSUME NEW o \in Finals
               PROVE  /\ artifact'[o].state = "PUBLISHED" => Final(o) \in store
                      /\ Final(o) \in store => artifact'[o].state \notin {"NONE", "DELETED"}
                      /\ artifact'[o].state = "NONE" => ~artifact'[o].due
                      /\ Copying(o)' => artifact'[o].state = "STAGED" /\ ~artifact'[o].due
    BY <1>1
  <2>1. CASE o[1] = g
    BY <1>5, <1>9, <2>1
  <2>2. CASE o[1] # g
    BY <1>8, <2>2 DEF FinalInv, FinalRows
  <2> QED BY <2>1, <2>2
<1>11. \A k \in Collectors, o \in Finals :
        collector'[k].at # "idle" /\ collector'[k].kind = "artifact" /\ collector'[k].id = o =>
          /\ artifact'[o].state \in {"STAGED", "DELETE_PENDING", "DELETED"} /\ ~Copying(o)'
          /\ collector'[k].at \in {"complete", "expire"} => Final(o) \notin store'
  BY <1>1, <1>5, <1>8 DEF FinalInv, Collecting
<1> QED BY <1>7, <1>10, <1>11, FinalGoals

\* The collector takes an artifact that is due, so that no copy is going on.
LEMMA ClaimedFinals ==
  ASSUME TypeInv, FinalInv, NEW k \in Collectors, NEW u \in Finals, ClaimArtifact(k, u)
  PROVE  FinalInv'
<1>0. artifact \in [Finals -> ArtifactRow] /\ collector \in [Collectors -> Target]
  BY DEF TypeInv, Types
<1>1. /\ store' = store /\ assembler' = assembler
      /\ artifact[u].due /\ artifact[u].state # "DELETED"
      /\ artifact' = [artifact EXCEPT ![u] =
           [state |-> IF artifact[u].state = "STAGED" THEN "STAGED" ELSE "DELETE_PENDING", due |-> FALSE]]
      /\ collector' = [collector EXCEPT ![k] =
           [at |-> "delete", kind |-> "artifact", id |-> u, object |-> Final(u), last |-> FALSE]]
  BY DEF ClaimArtifact, DueArtifacts
<1>2. ~Copying(u) /\ artifact[u].state # "NONE"
  BY <1>1 DEF FinalInv, FinalRows
<1>3. /\ artifact'[u].state \in {"STAGED", "DELETE_PENDING"} /\ ~artifact'[u].due
      /\ \A o \in Finals : o # u => artifact'[o] = artifact[o]
  BY <1>0, <1>1
<1>4. /\ collector'[k].id = u /\ collector'[k].at = "delete"
      /\ \A l \in Collectors : l # k => collector'[l] = collector[l]
  BY <1>0, <1>1
<1>5. \A o \in Finals : Copying(o)' <=> Copying(o)
  BY <1>1 DEF Copying
<1>6. Staging'
  <2>1. \A o \in Finals : artifact'[o].state # "NONE" <=> artifact[o].state # "NONE"
    BY <1>2, <1>3
  <2>2. AssembliesEnd
    BY <1>1 DEF AssembliesEnd
  <2> QED BY <2>1, <2>2, SameGenerations, StagingKept DEF FinalInv
<1>7. \A o \in Finals :
        /\ artifact'[o].state = "PUBLISHED" => Final(o) \in store'
        /\ Final(o) \in store' => artifact'[o].state \notin {"NONE", "DELETED"}
        /\ artifact'[o].state = "NONE" => ~artifact'[o].due
        /\ Copying(o)' => artifact'[o].state = "STAGED" /\ ~artifact'[o].due
  BY <1>1, <1>2, <1>3, <1>5 DEF FinalInv, FinalRows
<1>8. \A l \in Collectors, o \in Finals :
        collector'[l].at # "idle" /\ collector'[l].kind = "artifact" /\ collector'[l].id = o =>
          /\ artifact'[o].state \in {"STAGED", "DELETE_PENDING", "DELETED"} /\ ~Copying(o)'
          /\ collector'[l].at \in {"complete", "expire"} => Final(o) \notin store'
  BY <1>1, <1>2, <1>3, <1>4, <1>5 DEF FinalInv, Collecting
<1> QED BY <1>6, <1>7, <1>8, FinalGoals

\* The collector deletes an object that is not published and has a row.
LEMMA DeletingFinals ==
  ASSUME TypeInv, FinalInv, NEW k \in Collectors, DeleteObject(k)
  PROVE  FinalInv'
<1>0. collector \in [Collectors -> Target] /\ collector[k] \in Target
  BY DEF TypeInv, Types
<1>1. /\ artifact' = artifact /\ assembler' = assembler /\ collector[k].at = "delete"
      /\ store' = store \ {collector[k].object}
      /\ collector' = [collector EXCEPT ![k] = [collector[k] EXCEPT !.at = "complete"]]
  BY DEF DeleteObject, rows
<1>2. /\ collector'[k].kind = collector[k].kind /\ collector'[k].id = collector[k].id
      /\ \A l \in Collectors : l # k => collector'[l] = collector[l]
  BY <1>0, <1>1 DEF Target
<1>3. Targeted(collector[k], page)
  BY <1>1 DEF TypeInv, LoopsTyped
<1>4. \A o \in Finals : Final(o) \in store' <=>
        Final(o) \in store /\ ~(collector[k].kind = "artifact" /\ collector[k].id = o)
  <2>1. CASE collector[k].kind = "artifact"
    <3>1. collector[k].id \in Finals /\ collector[k].object = Final(collector[k].id)
      BY <1>3, <2>1 DEF Targeted
    <3> QED BY <1>1, <2>1, <3>1, Names
  <2>2. CASE collector[k].kind # "artifact"
    <3>1. \E p, g : collector[k].object = Bundle(p, g)
      BY <1>3, <2>2 DEF Targeted
    <3> QED BY <1>1, <2>2, <3>1, Names
  <2> QED BY <2>1, <2>2
<1>5. Staging' /\ \A o \in Finals : Copying(o)' <=> Copying(o)
  <2>1. StagedGenerations' = StagedGenerations
    BY <1>1 DEF StagedGenerations
  <2> QED BY <1>1, <2>1 DEF FinalInv, Staging, Copying
<1>6. \A o \in Finals :
        /\ artifact'[o].state = "PUBLISHED" => Final(o) \in store'
        /\ Final(o) \in store' => artifact'[o].state \notin {"NONE", "DELETED"}
        /\ artifact'[o].state = "NONE" => ~artifact'[o].due
        /\ Copying(o)' => artifact'[o].state = "STAGED" /\ ~artifact'[o].due
  <2> SUFFICES ASSUME NEW o \in Finals
               PROVE  /\ artifact[o].state = "PUBLISHED" => Final(o) \in store'
                      /\ Final(o) \in store' => artifact[o].state \notin {"NONE", "DELETED"}
                      /\ artifact[o].state = "NONE" => ~artifact[o].due
                      /\ Copying(o) => artifact[o].state = "STAGED" /\ ~artifact[o].due
    BY <1>1, <1>5
  <2>1. artifact[o].state = "PUBLISHED" => ~(collector[k].kind = "artifact" /\ collector[k].id = o)
    BY <1>1 DEF FinalInv, Collecting
  <2> QED BY <1>4, <2>1 DEF FinalInv, FinalRows
<1>7. \A l \in Collectors, o \in Finals :
        collector'[l].at # "idle" /\ collector'[l].kind = "artifact" /\ collector'[l].id = o =>
          /\ artifact'[o].state \in {"STAGED", "DELETE_PENDING", "DELETED"} /\ ~Copying(o)'
          /\ collector'[l].at \in {"complete", "expire"} => Final(o) \notin store'
  BY <1>1, <1>2, <1>4, <1>5 DEF FinalInv, Collecting
<1> QED BY <1>5, <1>6, <1>7, FinalGoals

\* The row goes last.
LEMMA DeletedFinals ==
  ASSUME TypeInv, FinalInv, NEW k \in Collectors, CloseCompletion(k)
  PROVE  FinalInv'
<1> DEFINE u == collector[k].id
<1>0. artifact \in [Finals -> ArtifactRow] /\ collector \in [Collectors -> Target]
  BY DEF TypeInv, Types
<1>1. /\ store' = store /\ assembler' = assembler /\ collector[k].at = "expire"
      /\ artifact' = [artifact EXCEPT ![u] = [state |-> "DELETED", due |-> FALSE]]
      /\ collector' = [collector EXCEPT ![k] = NoTarget]
  BY DEF CloseCompletion
<1>2. u \in Finals /\ collector[k].kind = "artifact"
  BY <1>1 DEF TypeInv, LoopsTyped, Targeted
<1>3. artifact[u].state # "NONE" /\ ~Copying(u) /\ Final(u) \notin store
  BY <1>1, <1>2 DEF FinalInv, Collecting
<1>4. /\ artifact'[u].state = "DELETED" /\ \A o \in Finals : o # u => artifact'[o] = artifact[o]
  BY <1>0, <1>1, <1>2
<1>5. /\ collector'[k].at = "idle" /\ \A l \in Collectors : l # k => collector'[l] = collector[l]
  BY <1>0, <1>1 DEF NoTarget
<1> HIDE DEF u
<1>6. \A o \in Finals : Copying(o)' <=> Copying(o)
  BY <1>1 DEF Copying
<1>7. Staging'
  <2>1. \A o \in Finals : artifact'[o].state # "NONE" <=> artifact[o].state # "NONE"
    BY <1>3, <1>4
  <2>2. AssembliesEnd
    BY <1>1 DEF AssembliesEnd
  <2> QED BY <2>1, <2>2, SameGenerations, StagingKept DEF FinalInv
<1>8. \A o \in Finals :
        /\ artifact'[o].state = "PUBLISHED" => Final(o) \in store'
        /\ Final(o) \in store' => artifact'[o].state \notin {"NONE", "DELETED"}
        /\ artifact'[o].state = "NONE" => ~artifact'[o].due
        /\ Copying(o)' => artifact'[o].state = "STAGED" /\ ~artifact'[o].due
  BY <1>1, <1>3, <1>4, <1>6 DEF FinalInv, FinalRows
<1>9. \A l \in Collectors, o \in Finals :
        collector'[l].at # "idle" /\ collector'[l].kind = "artifact" /\ collector'[l].id = o =>
          /\ artifact'[o].state \in {"STAGED", "DELETE_PENDING", "DELETED"} /\ ~Copying(o)'
          /\ collector'[l].at \in {"complete", "expire"} => Final(o) \notin store'
  BY <1>1, <1>4, <1>5, <1>6 DEF FinalInv, Collecting
<1> QED BY <1>7, <1>8, <1>9, FinalGoals

\* The inductive invariant of the bucket.
StoredInv == StatusInv /\ BundleInv /\ FinalInv

\* It holds initially.
LEMMA InitStored == Init => StoredInv
<1> SUFFICES ASSUME Init PROVE StoredInv
  OBVIOUS
<1>1. BundleInv
  BY DEF Init, BundleInv, BundlesStay, In, Nothing, NoTarget
<1>2. FinalRows /\ Collecting
  BY DEF Init, FinalRows, Collecting, Copying, NoTarget
<1>3. StagedGenerations = {}
  BY Names DEF Init, StagedGenerations
<1>4. Staging
  <2>1. 0 \in 0 .. MaxStaged /\ 1 .. 0 = {}
    BY LimitsAssumption
  <2> QED BY <1>3, <2>1 DEF Init, Staging
<1> QED BY <1>1, <1>2, <1>4, InitStatus DEF StoredInv, FinalInv

\* Every step keeps it.
LEMMA NextStored == StoredInv /\ [Next]_vars => StoredInv'
<1> SUFFICES ASSUME StoredInv, [Next]_vars PROVE StoredInv'
  OBVIOUS
<1>1. TypeInv /\ BundleInv /\ FinalInv /\ StatusInv' /\ (JobSteady \/ JobMoved)
  BY NextStatus, JobMoves DEF StoredInv, StatusInv
<1>2. BundleInv'
  BY <1>1, NextBundles
<1>3. FinalInv'
  BY <1>1, OtherFinals, StagingFinals, CopyingFinals, PublishingFinals, ClaimedFinals, DeletingFinals,
     DeletedFinals DEF FinalSteps
<1> QED BY <1>1, <1>2, <1>3 DEF StoredInv

\* For every number of pages, parts and loops: the bundle of a page that succeeded
\* is in the bucket until the job has ended, a published artifact is there, and a
\* final object has a row by which the collector will find it, however renderers,
\* assemblers and collectors interleave, fail and die.
THEOREM StoredAlwaysKept == Spec => []StoredIsKept
<1>1. StoredInv => StoredIsKept
  BY DEF StoredInv, BundleInv, FinalInv, FinalRows, StoredIsKept, FinalsAccountedFor
<1> QED BY <1>1, InitStored, NextStored, PTL DEF Spec

=============================================================================
