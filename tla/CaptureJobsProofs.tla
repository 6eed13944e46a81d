-------------------------- MODULE CaptureJobsProofs --------------------------
(***************************************************************************)
(* CaptureJobs for every number of captures, job loops, collectors,        *)
(* deliverers and attempts.                                                *)
(***************************************************************************)
EXTENDS CaptureJobs, FiniteSetTheorems, TLAPS

Progress == {"RUNNING", "INDEXING", "COMPLETED", "FAILED"}

\* A loop that is at work knows what it works on, and the generation it claimed is
\* none of the future.
LoopsTyped ==
  /\ \A w \in Workers : Busy(w) =>
       /\ worker[w].c \in Captures /\ worker[w].gen \in Generations
       /\ worker[w].gen <= job[worker[w].c].gen
  /\ \A k \in Collectors : collector[k].at # "idle" => collector[k].o \in CloneObjects
  /\ \A d \in Deliverers : deliverer[d].at # "idle" => deliverer[d].c \in Captures
  /\ \A c \in Captures : job[c].status = "NONE" => job[c].gen = 0

TypeInv == TypeOK /\ LoopsTyped

\* The initial rows and loops are typed.
LEMMA InitTypeInv == Init => TypeInv
<1> SUFFICES ASSUME Init PROVE TypeInv
  OBVIOUS
<1> USE MaxAttemptsAssumption DEF Init
<1>1. TypeOK
  BY DEF TypeOK, Job, Recon, Artifact, Task, Idle, Builds, Deletion, NoDeletion, Outbox,
         Delivery, NoDelivery, Deadlines
<1>2. LoopsTyped
  BY DEF LoopsTyped, Busy, Idle, NoDeletion, NoDelivery
<1> QED BY <1>1, <1>2 DEF TypeInv

\* Accepting a command and the passing of a lease keep the types.
LEMMA RowsTypeInv ==
  ASSUME TypeInv, NEW c \in Captures, AcceptCommand(c) \/ LeaseLapses(c) \/ OutboxLapses(c)
  PROVE  TypeInv'
<1> USE MaxAttemptsAssumption DEF TypeInv
<1>1. CASE AcceptCommand(c)
  <2>1. TypeOK'
    BY <1>1 DEF AcceptCommand, TypeOK, Job, Recon
  <2>2. LoopsTyped'
    BY <1>1 DEF AcceptCommand, LoopsTyped, Busy, TypeOK, Job, Generations
  <2> QED BY <2>1, <2>2
<1>2. CASE LeaseLapses(c)
  <2>1. TypeOK'
    BY <1>2 DEF LeaseLapses, TypeOK, Job
  <2>2. LoopsTyped'
    BY <1>2 DEF LeaseLapses, LoopsTyped, Busy, TypeOK, Job, Generations
  <2> QED BY <2>1, <2>2
<1>3. CASE OutboxLapses(c)
  <2>1. TypeOK'
    BY <1>3 DEF OutboxLapses, TypeOK, Outbox
  <2>2. LoopsTyped'
    BY <1>3 DEF OutboxLapses, LoopsTyped, Busy
  <2> QED BY <2>1, <2>2
<1> QED BY <1>1, <1>2, <1>3

\* What one claimJob does to a capture: nothing, the last attempt's failure, back
\* to the queue, or the claim.
Untouched(c) == job'[c] = job[c] /\ recon'[c] = recon[c] /\ sent'[c] = sent[c]
GivenUp(c) ==
  /\ job[c].status = "RENDERING" /\ job[c].gen = MaxAttempts
  /\ job'[c] = [status |-> "FAILED", gen |-> job[c].gen, lapsed |-> FALSE]
  /\ recon'[c] = IF recon[c].status \in Open THEN [status |-> "FAILED", gen |-> recon[c].gen]
                 ELSE recon[c]
  /\ sent'[c] = Append(sent[c], "FAILED")
Requeued(c) ==
  /\ job[c].status = "RENDERING" /\ job[c].gen < MaxAttempts
  /\ job'[c] = [status |-> "QUEUED", gen |-> job[c].gen, lapsed |-> FALSE]
  /\ recon'[c] = recon[c] /\ sent'[c] = sent[c]
Taken(c) ==
  /\ job[c].status \in {"QUEUED", "RENDERING"} /\ job[c].gen < MaxAttempts
  /\ job'[c] = [status |-> "RENDERING", gen |-> job[c].gen + 1, lapsed |-> FALSE]
  /\ recon'[c] = IF recon[c].status \in Open THEN [status |-> "RUNNING", gen |-> job[c].gen + 1]
                 ELSE recon[c]
  /\ sent'[c] = Append(sent[c], "RUNNING")

\* claimJob treats every capture in one of these ways, and takes the one its loop
\* goes on with, if any.
LEMMA ClaimEffect ==
  ASSUME TypeOK, NEW w \in Workers, ClaimJob(w)
  PROVE  /\ job' \in [Captures -> Job] /\ DOMAIN recon' = Captures /\ DOMAIN sent' = Captures
         /\ recon' = [c \in Captures |-> recon'[c]] /\ sent' = [c \in Captures |-> sent'[c]]
         /\ \/ /\ worker' = [worker EXCEPT ![w] = Idle]
               /\ \A c \in Captures : Untouched(c) \/ GivenUp(c) \/ Requeued(c)
            \/ \E c \in Captures :
                 /\ worker' = [worker EXCEPT ![w] =
                      [at |-> "render", c |-> c, gen |-> job[c].gen + 1, build |-> "FAILED"]]
                 /\ Taken(c)
                 /\ \A x \in Captures \ {c} : Untouched(x) \/ GivenUp(x) \/ Requeued(x)
<1> USE MaxAttemptsAssumption
<1>1. PICK picked \in {{}} \cup {{c} : c \in Claimable} :
       /\ job' = [c \in Captures |->
                    IF c \in Exhausted THEN [status |-> "FAILED", gen |-> job[c].gen, lapsed |-> FALSE]
                    ELSE IF c \in picked THEN ClaimOf(c)
                    ELSE IF c \in Reclaimed THEN [status |-> "QUEUED", gen |-> job[c].gen, lapsed |-> FALSE]
                    ELSE job[c]]
       /\ recon' = ReconAfterClaim(picked)
       /\ sent' = [c \in Captures |->
                     IF c \in Exhausted THEN Append(sent[c], "FAILED")
                     ELSE IF c \in picked THEN Append(sent[c], "RUNNING")
                     ELSE sent[c]]
       /\ worker' = [worker EXCEPT ![w] =
                       IF picked = {} THEN Idle
                       ELSE LET c == CHOOSE x \in picked : TRUE
                            IN  [at |-> "render", c |-> c, gen |-> ClaimOf(c).gen, build |-> "FAILED"]]
  BY DEF ClaimJob
<1>2. \A c \in Claimable : /\ c \in Captures /\ c \notin Exhausted /\ job[c].gen < MaxAttempts
                           /\ job[c].status \in {"QUEUED", "RENDERING"}
  BY DEF Claimable, Reclaimed, Exhausted, TypeOK, Job
<1>3. \A c \in Exhausted : job[c].status = "RENDERING" /\ job[c].gen = MaxAttempts
  BY DEF Exhausted, TypeOK, Job
<1>4. \A c \in Captures : c \notin picked => Untouched(c) \/ GivenUp(c) \/ Requeued(c)
  <2> SUFFICES ASSUME NEW c \in Captures, c \notin picked
               PROVE  Untouched(c) \/ GivenUp(c) \/ Requeued(c)
    OBVIOUS
  <2>1. CASE c \in Exhausted
    BY <1>1, <1>3, <2>1 DEF GivenUp, ReconAfterClaim
  <2>2. CASE c \in Reclaimed /\ c \notin Exhausted
    BY <1>1, <2>2 DEF Requeued, ReconAfterClaim, Reclaimed
  <2>3. CASE c \notin Reclaimed /\ c \notin Exhausted
    BY <1>1, <2>3 DEF Untouched, ReconAfterClaim
  <2> QED BY <2>1, <2>2, <2>3
<1>5. \A c \in Captures : c \in picked => Taken(c)
  BY <1>1, <1>2 DEF Taken, ClaimOf, ReconAfterClaim
<1>6. job' \in [Captures -> Job]
  <2>1. \A c \in Captures : job[c] \in Job
    BY DEF TypeOK
  <2>2. ASSUME NEW c \in Captures PROVE job'[c] \in Job
    <3>1. Untouched(c) => job'[c] \in Job
      BY <2>1 DEF Untouched
    <3>2. GivenUp(c) => job'[c] \in Job
      BY <2>1 DEF GivenUp, Job
    <3>3. Requeued(c) => job'[c] \in Job
      BY <2>1 DEF Requeued, Job
    <3>4. Taken(c) => job'[c] \in Job
      BY <2>1 DEF Taken, Job
    <3> QED BY <1>4, <1>5, <3>1, <3>2, <3>3, <3>4
  <2> QED BY <1>1, <2>2
<1>7. /\ DOMAIN recon' = Captures /\ DOMAIN sent' = Captures
      /\ recon' = [c \in Captures |-> recon'[c]] /\ sent' = [c \in Captures |-> sent'[c]]
  BY <1>1 DEF ReconAfterClaim
<1>8. CASE picked = {}
  BY <1>1, <1>4, <1>6, <1>7, <1>8
<1>9. CASE picked # {}
  <2>1. PICK c \in Claimable : picked = {c}
    BY <1>9
  <2>2. (CHOOSE x \in picked : TRUE) = c /\ ClaimOf(c).gen = job[c].gen + 1 /\ c \in Captures
    BY <1>2, <2>1 DEF ClaimOf
  <2>3. worker' = [worker EXCEPT ![w] =
                     [at |-> "render", c |-> c, gen |-> job[c].gen + 1, build |-> "FAILED"]]
    BY <1>1, <1>9, <2>2
  <2> QED BY <1>4, <1>5, <1>6, <1>7, <2>1, <2>2, <2>3
<1> QED BY <1>8, <1>9

\* claimJob keeps the types: the new generation is within the limit.
LEMMA ClaimJobTypeInv ==
  ASSUME TypeInv, NEW w \in Workers, ClaimJob(w)
  PROVE  TypeInv'
<1> USE MaxAttemptsAssumption DEF TypeInv
<1>0. UNCHANGED <<artifact, store, collector, outbox, tables, deliverer>>
  BY DEF ClaimJob
<1>1. \A c \in Captures : Untouched(c) \/ GivenUp(c) \/ Requeued(c) \/ Taken(c)
  BY ClaimEffect
<1>2. ASSUME NEW c \in Captures
      PROVE  /\ job'[c].gen >= job[c].gen /\ recon'[c] \in Recon /\ sent'[c] \in Seq(Progress)
             /\ job'[c].status = "NONE" => job'[c] = job[c]
  <2>0. /\ job[c] \in Job /\ recon[c] \in Recon /\ sent[c] \in Seq(Progress)
        /\ "FAILED" \in Progress /\ "RUNNING" \in Progress
    BY DEF TypeOK, Progress
  <2>1. CASE Untouched(c)
    BY <2>0, <2>1 DEF Untouched, Job
  <2>2. CASE GivenUp(c)
    <3>1. recon'[c] \in Recon
      BY <2>0, <2>2 DEF GivenUp, Recon
    <3>2. sent'[c] \in Seq(Progress)
      BY <2>0, <2>2 DEF GivenUp
    <3> QED BY <2>0, <2>2, <3>1, <3>2 DEF GivenUp, Job
  <2>3. CASE Requeued(c)
    BY <2>0, <2>3 DEF Requeued, Job
  <2>4. CASE Taken(c)
    <3>1. recon'[c] \in Recon
      BY <2>0, <2>4 DEF Taken, Recon, Job
    <3>2. sent'[c] \in Seq(Progress)
      BY <2>0, <2>4 DEF Taken
    <3> QED BY <2>0, <2>4, <3>1, <3>2 DEF Taken, Job
  <2> QED BY <1>1, <2>1, <2>2, <2>3, <2>4
<1>3. job' \in [Captures -> Job] /\ recon' \in [Captures -> Recon]
  BY <1>2, ClaimEffect
<1>4. sent' \in [Captures -> Seq(Progress)]
  BY <1>2, ClaimEffect
<1>5. CASE worker' = [worker EXCEPT ![w] = Idle]
  <2>1. worker' \in [Workers -> Task]
    BY <1>5 DEF TypeOK, Task, Idle, Builds
  <2>2. TypeOK'
    BY <1>0, <1>2, <1>3, <1>4, <2>1 DEF TypeOK, Progress
  <2>3. LoopsTyped'
    <3>1. \A v \in Workers : Busy(v)' => Busy(v) /\ worker'[v] = worker[v]
      BY <1>5 DEF Busy, Idle, TypeOK
    <3>3. \A v \in Workers : Busy(v)' =>
            /\ worker'[v].c \in Captures /\ worker'[v].gen \in Generations
            /\ worker'[v].gen <= job'[worker'[v].c].gen
      BY <1>2, <1>3, <3>1 DEF LoopsTyped, TypeOK, Job, Generations
    <3> QED BY <1>0, <1>2, <3>3 DEF LoopsTyped
  <2> QED BY <2>2, <2>3
<1>6. ASSUME NEW c \in Captures, Taken(c),
             worker' = [worker EXCEPT ![w] =
               [at |-> "render", c |-> c, gen |-> job[c].gen + 1, build |-> "FAILED"]]
      PROVE  TypeInv'
  <2>0. job[c].gen + 1 \in Generations /\ job'[c].gen = job[c].gen + 1
    BY <1>6 DEF Taken, TypeOK, Job, Generations
  <2>1. worker' \in [Workers -> Task]
    BY <1>6, <2>0 DEF TypeOK, Task, Builds, Generations
  <2>2. TypeOK'
    BY <1>0, <1>2, <1>3, <1>4, <2>1 DEF TypeOK, Progress
  <2>3. LoopsTyped'
    <3>1. \A v \in Workers : v # w => worker'[v] = worker[v]
      BY <1>6 DEF TypeOK
    <3>3. \A v \in Workers : v # w /\ Busy(v)' =>
            /\ worker'[v].c \in Captures /\ worker'[v].gen \in Generations
            /\ worker'[v].gen <= job'[worker'[v].c].gen
      BY <1>2, <1>3, <3>1 DEF LoopsTyped, Busy, TypeOK, Job, Generations
    <3>4. /\ worker'[w].c \in Captures /\ worker'[w].gen \in Generations
          /\ worker'[w].gen <= job'[worker'[w].c].gen
      BY <1>6, <2>0 DEF TypeOK, Generations
    <3> QED BY <1>0, <1>2, <3>3, <3>4 DEF LoopsTyped
  <2> QED BY <2>2, <2>3
<1> QED BY <1>5, <1>6, ClaimEffect

\* The loop w goes on with its attempt, or drops it.
Moves(w) ==
  \/ worker' = [worker EXCEPT ![w] = Idle]
  \/ \E at \in {"page", "clone", "stage", "result", "fail"}, build \in Builds :
       worker' = [worker EXCEPT ![w] =
         [at |-> at, c |-> worker[w].c, gen |-> worker[w].gen, build |-> build]]

\* Such a step keeps the loops typed, if no generation goes back.
LEMMA MovesTyped ==
  ASSUME TypeInv, NEW w \in Workers, Busy(w), Moves(w),
         UNCHANGED <<collector, deliverer>>,
         \A c \in Captures : job'[c] = job[c] \/ (job'[c].gen = job[c].gen /\ job'[c].status # "NONE")
  PROVE  worker' \in [Workers -> Task] /\ LoopsTyped'
<1> USE DEF TypeInv
<1>1. worker' \in [Workers -> Task]
  <2>1. Idle \in Task
    BY MaxAttemptsAssumption DEF Idle, Task, Builds
  <2>2. \A at \in {"page", "clone", "stage", "result", "fail"}, build \in Builds :
          [at |-> at, c |-> worker[w].c, gen |-> worker[w].gen, build |-> build] \in Task
    BY DEF Task, TypeOK
  <2>3. \A t \in Task : [worker EXCEPT ![w] = t] \in [Workers -> Task]
    BY DEF TypeOK
  <2> QED BY <2>1, <2>2, <2>3 DEF Moves
<1>2. \A v \in Workers : Busy(v)' =>
        Busy(v) /\ worker'[v].c = worker[v].c /\ worker'[v].gen = worker[v].gen
  <2>1. CASE worker' = [worker EXCEPT ![w] = Idle]
    BY <2>1 DEF Busy, Idle, TypeOK
  <2>2. ASSUME NEW at, NEW build,
               worker' = [worker EXCEPT ![w] =
                 [at |-> at, c |-> worker[w].c, gen |-> worker[w].gen, build |-> build]]
        PROVE  \A v \in Workers : Busy(v)' =>
                 Busy(v) /\ worker'[v].c = worker[v].c /\ worker'[v].gen = worker[v].gen
    BY <2>2 DEF Busy, TypeOK
  <2> QED BY <2>1, <2>2 DEF Moves
<1>3. \A c \in Captures : job'[c].gen = job[c].gen
  OBVIOUS
<1>4. \A v \in Workers : Busy(v)' =>
        /\ worker'[v].c \in Captures /\ worker'[v].gen \in Generations
        /\ worker'[v].gen <= job'[worker'[v].c].gen
  BY <1>2, <1>3 DEF LoopsTyped
<1> QED BY <1>1, <1>4 DEF LoopsTyped

\* The steps of an attempt keep the types.
LEMMA AttemptTypeInv ==
  ASSUME TypeInv, NEW w \in Workers,
         \/ Heartbeat(w) \/ RenderDone(w) \/ AttemptFails(w) \/ UploadPage(w) \/ UploadClone(w)
         \/ UploadCloneFails(w) \/ StageArtifacts(w) \/ StageArtifactsFails(w) \/ WorkerCrashes(w)
  PROVE  TypeInv'
<1> USE DEF TypeInv
<1> DEFINE c == worker[w].c
           g == worker[w].gen
<1>0. /\ Busy(w) /\ c \in Captures /\ g \in Generations /\ worker[w].build \in Builds
      /\ job[c] \in Job
  <2>1. Busy(w)
    BY DEF Busy, Heartbeat, RenderDone, AttemptFails, UploadPage, UploadClone, UploadCloneFails,
           StageArtifacts, StageArtifactsFails, WorkerCrashes
  <2> QED BY <2>1 DEF LoopsTyped, TypeOK, Task
<1>1. CASE Heartbeat(w)
  <2>1. job' = [job EXCEPT ![c] = [status |-> "RENDERING", gen |-> g, lapsed |-> FALSE]] /\ job[c].gen = g
    BY <1>1 DEF Heartbeat, Renewed, HoldsLease
  <2>2. job' \in [Captures -> Job]
    BY <1>0, <2>1 DEF TypeOK, Job, Generations
  <2>3. TypeOK'
    BY <1>1, <2>2 DEF Heartbeat, TypeOK
  <2>4. \A x \in Captures : job'[x].gen = job[x].gen /\ (job'[x].status = "NONE" => job'[x] = job[x])
    BY <1>0, <2>1 DEF TypeOK
  <2>5. LoopsTyped'
    BY <1>1, <2>4 DEF Heartbeat, LoopsTyped, Busy
  <2> QED BY <2>3, <2>5
<1>2. CASE RenderDone(w)
  <2>1. job' = [job EXCEPT ![c] = [status |-> "RENDERING", gen |-> g, lapsed |-> FALSE]] /\ job[c].gen = g
    BY <1>2 DEF RenderDone, Renewed, HoldsLease
  <2>2. job' \in [Captures -> Job]
    BY <1>0, <2>1 DEF TypeOK, Job, Generations
  <2>3. \A x \in Captures : job'[x] = job[x] \/ (job'[x].gen = job[x].gen /\ job'[x].status # "NONE")
    BY <1>0, <2>1 DEF TypeOK
  <2>4. Moves(w) /\ UNCHANGED <<collector, deliverer>>
    BY <1>2 DEF RenderDone, Moves
  <2>5. worker' \in [Workers -> Task] /\ LoopsTyped'
    BY <1>0, <2>3, <2>4, MovesTyped
  <2> QED BY <1>2, <2>2, <2>5 DEF RenderDone, TypeOK
<1>3. CASE AttemptFails(w) \/ StageArtifactsFails(w) \/ WorkerCrashes(w)
  <2>1. Moves(w) /\ UNCHANGED <<job, recon, artifact, store, collector, outbox, tables, deliverer, sent>>
    BY <1>0, <1>3 DEF AttemptFails, StageArtifactsFails, WorkerCrashes, Goes, WithoutClone, Moves, Builds
  <2>2. worker' \in [Workers -> Task] /\ LoopsTyped'
    BY <1>0, <2>1, MovesTyped
  <2> QED BY <2>1, <2>2 DEF TypeOK
<1>4. CASE UploadPage(w) \/ UploadClone(w) \/ UploadCloneFails(w)
  <2>1. Moves(w) /\ UNCHANGED <<job, recon, artifact, collector, outbox, tables, deliverer, sent>>
    BY <1>0, <1>4 DEF UploadPage, UploadClone, UploadCloneFails, Goes, WithoutClone, Moves, Builds
  <2>2. worker' \in [Workers -> Task] /\ LoopsTyped'
    BY <1>0, <2>1, MovesTyped
  <2>3. store' \subseteq Objects
    <3>1. /\ <<c, g, "PAGE">> \in Objects /\ CloneOf(c, g) \subseteq Objects
          /\ <<c, g, "STATIC_ARCHIVE">> \in Objects
      BY <1>0 DEF Objects, CloneOf, Kinds
    <3>2. store \subseteq Objects
      BY DEF TypeOK
    <3>3. \/ store' = store \cup {<<c, g, "PAGE">>} \/ store' = store \cup CloneOf(c, g)
          \/ \E left \in SUBSET {<<c, g, "STATIC_ARCHIVE">>} : store' = store \cup left
      BY <1>4 DEF UploadPage, UploadClone, UploadCloneFails
    <3> HIDE DEF c, g
    <3> QED BY <3>1, <3>2, <3>3
  <2> QED BY <2>1, <2>2, <2>3 DEF TypeOK
<1>5. CASE StageArtifacts(w)
  <2>1. Moves(w) /\ UNCHANGED <<job, recon, store, collector, outbox, tables, deliverer, sent>>
    BY <1>0, <1>5 DEF StageArtifacts, Goes, WithoutClone, Moves, Builds
  <2>2. worker' \in [Workers -> Task] /\ LoopsTyped'
    BY <1>0, <2>1, MovesTyped
  <2>3. artifact' \in [CloneObjects -> Artifact]
    BY <1>5 DEF StageArtifacts, Staged, TypeOK, Artifact, Deadlines
  <2> QED BY <2>1, <2>2, <2>3 DEF TypeOK
<1> QED BY <1>1, <1>2, <1>3, <1>4, <1>5

\* stageResult keeps the types.
LEMMA StageResultTypeInv ==
  ASSUME TypeInv, NEW w \in Workers, StageResult(w)
  PROVE  TypeInv'
<1> USE DEF TypeInv
<1> DEFINE c == worker[w].c
           g == worker[w].gen
<1>0. /\ Busy(w) /\ c \in Captures /\ g \in Generations /\ worker[w].build \in Builds
      /\ job[c].gen = g /\ g \in 0 .. MaxAttempts
  BY DEF StageResult, HoldsLease, Busy, LoopsTyped, TypeOK, Task
<1>1. job' = [job EXCEPT ![c] = [status |-> "PERSISTING", gen |-> g, lapsed |-> FALSE]]
  BY DEF StageResult
<1>2. Moves(w) /\ UNCHANGED <<store, collector, tables, deliverer>>
  BY <1>0 DEF StageResult, Goes, Moves
<1>3. \A x \in Captures : job'[x] = job[x] \/ (job'[x].gen = job[x].gen /\ job'[x].status # "NONE")
  BY <1>0, <1>1 DEF TypeOK
<1>4. worker' \in [Workers -> Task] /\ LoopsTyped'
  BY <1>0, <1>2, <1>3, MovesTyped
<1>5. job' \in [Captures -> Job]
  BY <1>0, <1>1 DEF TypeOK, Job
<1>6. artifact' \in [CloneObjects -> Artifact]
  BY DEF StageResult, Published, TypeOK, Artifact, Deadlines
<1>7. recon' \in [Captures -> Recon]
  BY <1>0 DEF StageResult, TypeOK, Recon, Builds
<1>8. outbox' \in [Captures -> Outbox]
  BY DEF StageResult, TypeOK, Outbox
<1>9. sent' \in [Captures -> Seq(Progress)]
  <2>1. sent \in [Captures -> Seq(Progress)] /\ "INDEXING" \in Progress
    BY DEF TypeOK, Progress
  <2>2. Append(sent[c], "INDEXING") \in Seq(Progress)
    BY <1>0, <2>1
  <2> QED BY <2>1, <2>2 DEF StageResult
<1> QED BY <1>2, <1>4, <1>5, <1>6, <1>7, <1>8, <1>9 DEF TypeOK, Progress

\* failJob keeps the types.
LEMMA FailJobTypeInv ==
  ASSUME TypeInv, NEW w \in Workers, FailJob(w)
  PROVE  TypeInv'
<1> USE DEF TypeInv
<1> DEFINE c == worker[w].c
<1>0. /\ Busy(w) /\ c \in Captures /\ job[c] \in Job /\ recon[c] \in Recon
  BY DEF FailJob, Busy, LoopsTyped, TypeOK
<1>1. Moves(w) /\ UNCHANGED <<artifact, store, collector, outbox, tables, deliverer>>
  BY DEF FailJob, Moves
<1>2. \/ job' = job
      \/ \E st \in {"QUEUED", "FAILED"} :
           job' = [job EXCEPT ![c] = [status |-> st, gen |-> job[c].gen, lapsed |-> FALSE]]
  BY DEF FailJob
<1>3. \A x \in Captures : job'[x] = job[x] \/ (job'[x].gen = job[x].gen /\ job'[x].status # "NONE")
  BY <1>0, <1>2 DEF TypeOK
<1>4. worker' \in [Workers -> Task] /\ LoopsTyped'
  BY <1>0, <1>1, <1>3, MovesTyped
<1>5. job' \in [Captures -> Job]
  <2>1. \A st \in {"QUEUED", "FAILED"} : [status |-> st, gen |-> job[c].gen, lapsed |-> FALSE] \in Job
    BY <1>0 DEF Job
  <2> QED BY <1>2, <2>1 DEF TypeOK
<1>6. recon' \in [Captures -> Recon]
  <2>1. [status |-> "FAILED", gen |-> recon[c].gen] \in Recon
    BY <1>0 DEF Recon
  <2> QED BY <2>1 DEF FailJob, TypeOK
<1>7. sent' \in [Captures -> Seq(Progress)]
  <2>1. sent \in [Captures -> Seq(Progress)] /\ "FAILED" \in Progress
    BY DEF TypeOK, Progress
  <2>2. Append(sent[c], "FAILED") \in Seq(Progress)
    BY <1>0, <2>1
  <2> QED BY <2>1, <2>2 DEF FailJob
<1> QED BY <1>1, <1>4, <1>5, <1>6, <1>7 DEF TypeOK, Progress

\* The collector keeps the types.
LEMMA CollectorTypeInv ==
  ASSUME TypeInv,
         \/ \E o \in CloneObjects : ArtifactAges(o) \/ \E k \in Collectors : ClaimDeletion(k, o)
         \/ \E k \in Collectors : DeleteObject(k) \/ CompleteDeletion(k) \/ DeletionFails(k)
                                  \/ RetryDeletion(k) \/ CollectorCrashes(k)
  PROVE  TypeInv'
<1> USE DEF TypeInv
<1>0. NoDeletion \in Deletion /\ \A at \in {"delete", "complete", "retry"} :
        \A o \in CloneObjects : [at |-> at, o |-> o] \in Deletion
  BY DEF NoDeletion, Deletion
<1>1. ASSUME NEW o \in CloneObjects, ArtifactAges(o) PROVE TypeInv'
  <2>1. artifact' \in [CloneObjects -> Artifact]
    BY <1>1 DEF ArtifactAges, TypeOK, Artifact, Deadlines
  <2> QED BY <1>1, <2>1 DEF ArtifactAges, TypeOK, LoopsTyped, Busy
<1>2. ASSUME NEW o \in CloneObjects, NEW k \in Collectors, ClaimDeletion(k, o) PROVE TypeInv'
  <2>1. artifact' \in [CloneObjects -> Artifact]
    BY <1>2 DEF ClaimDeletion, TypeOK, Artifact, Deadlines
  <2>2. collector' \in [Collectors -> Deletion]
    BY <1>0, <1>2 DEF ClaimDeletion, TypeOK
  <2>3. \A x \in Collectors : collector'[x].at # "idle" => collector'[x].o \in CloneObjects
    BY <1>2 DEF ClaimDeletion, TypeOK, LoopsTyped
  <2> QED BY <1>2, <2>1, <2>2, <2>3 DEF ClaimDeletion, TypeOK, LoopsTyped, Busy
<1>3. ASSUME NEW k \in Collectors, DeleteObject(k) \/ DeletionFails(k) PROVE TypeInv'
  <2>1. collector[k].o \in CloneObjects
    BY <1>3 DEF DeleteObject, DeletionFails, LoopsTyped
  <2>2. \E at \in {"complete", "retry"} : collector' = [collector EXCEPT ![k] = [at |-> at, o |-> collector[k].o]]
    BY <1>3 DEF DeleteObject, DeletionFails
  <2>3. collector' \in [Collectors -> Deletion]
    BY <1>0, <2>1, <2>2 DEF TypeOK
  <2>4. \A x \in Collectors : collector'[x].at # "idle" => collector'[x].o \in CloneObjects
    BY <2>1, <2>2 DEF TypeOK, LoopsTyped
  <2>5. store' \subseteq Objects
    BY <1>3 DEF DeleteObject, DeletionFails, TypeOK
  <2> QED BY <1>3, <2>3, <2>4, <2>5 DEF DeleteObject, DeletionFails, TypeOK, LoopsTyped, Busy
<1>4. ASSUME NEW k \in Collectors, CompleteDeletion(k) \/ RetryDeletion(k) \/ CollectorCrashes(k)
      PROVE  TypeInv'
  <2> DEFINE o == collector[k].o
  <2>1. o \in CloneObjects /\ o[1] \in Captures
    BY <1>4 DEF CompleteDeletion, RetryDeletion, CollectorCrashes, LoopsTyped, CloneObjects
  <2>2. collector' = [collector EXCEPT ![k] = NoDeletion]
    BY <1>4 DEF CompleteDeletion, RetryDeletion, CollectorCrashes
  <2>3. collector' \in [Collectors -> Deletion]
    BY <1>0, <2>2 DEF TypeOK
  <2>4. \A x \in Collectors : collector'[x].at # "idle" => collector'[x].o \in CloneObjects
    BY <2>2 DEF TypeOK, LoopsTyped, NoDeletion
  <2>5. artifact' \in [CloneObjects -> Artifact]
    <3>1. /\ [state |-> "DELETED", due |-> "due"] \in Artifact
          /\ [state |-> artifact[o].state, due |-> "near"] \in Artifact
      BY <2>1 DEF TypeOK, Artifact, Deadlines
    <3>2. \/ artifact' = artifact
          \/ artifact' = [artifact EXCEPT ![o] = [state |-> "DELETED", due |-> "due"]]
          \/ artifact' = [artifact EXCEPT ![o] = [state |-> artifact[o].state, due |-> "near"]]
      BY <1>4 DEF CompleteDeletion, RetryDeletion, CollectorCrashes
    <3> HIDE DEF o
    <3> QED BY <3>1, <3>2 DEF TypeOK
  <2>6. recon' \in [Captures -> Recon]
    <3>1. [status |-> "EXPIRED", gen |-> recon[o[1]].gen] \in Recon
      BY <2>1 DEF TypeOK, Recon
    <3>2. \/ recon' = recon
          \/ recon' = [recon EXCEPT ![o[1]] = [status |-> "EXPIRED", gen |-> recon[o[1]].gen]]
      BY <1>4 DEF CompleteDeletion, RetryDeletion, CollectorCrashes
    <3> HIDE DEF o
    <3> QED BY <3>1, <3>2 DEF TypeOK
  <2> QED BY <1>4, <2>3, <2>4, <2>5, <2>6
          DEF CompleteDeletion, RetryDeletion, CollectorCrashes, TypeOK, LoopsTyped, Busy
<1> QED BY <1>1, <1>2, <1>3, <1>4

\* A deliverer keeps the types.
LEMMA DelivererTypeInv ==
  ASSUME TypeInv, NEW d \in Deliverers,
         \/ \E c \in Captures : ClaimAnalytics(d, c)
         \/ WriteAnalytics(d) \/ CompleteAnalytics(d) \/ RetryAnalytics(d) \/ DelivererCrashes(d)
  PROVE  TypeInv'
<1> USE DEF TypeInv
<1>0. ASSUME NEW v \in Delivery, deliverer' = [deliverer EXCEPT ![d] = v],
             v.at = "idle" \/ v.c \in Captures
      PROVE  /\ deliverer' \in [Deliverers -> Delivery]
             /\ \A x \in Deliverers : deliverer'[x].at # "idle" => deliverer'[x].c \in Captures
  BY <1>0 DEF TypeOK, LoopsTyped
<1>1. NoDelivery \in Delivery /\ NoDelivery.at = "idle"
  BY DEF NoDelivery, Delivery
<1>2. ASSUME NEW c \in Captures, ClaimAnalytics(d, c) PROVE TypeInv'
  <2>1. [at |-> "lookup", c |-> c] \in Delivery
    BY DEF Delivery
  <2>2. /\ deliverer' \in [Deliverers -> Delivery]
        /\ \A x \in Deliverers : deliverer'[x].at # "idle" => deliverer'[x].c \in Captures
    BY <1>0, <1>2, <2>1 DEF ClaimAnalytics
  <2>3. outbox' \in [Captures -> Outbox]
    BY <1>2 DEF ClaimAnalytics, TypeOK, Outbox
  <2> QED BY <1>2, <2>2, <2>3 DEF ClaimAnalytics, TypeOK, LoopsTyped, Busy
<1>3. CASE WriteAnalytics(d)
  <2> DEFINE c == deliverer[d].c
             step == deliverer[d].at
             next == IF step = "lookup" /\ AlreadyWritten(c) THEN "ack" ELSE After[step]
  <2>1. step \in {"lookup"} \cup Tables
    BY <1>3 DEF WriteAnalytics, After, Tables
  <2>2. next \in {"ack"} \cup Tables
    BY <2>1 DEF After, Tables
  <2>3. c \in Captures
    BY <2>1 DEF LoopsTyped, Tables
  <2>4. deliverer' = [deliverer EXCEPT ![d] = [at |-> next, c |-> c]]
    BY <1>3 DEF WriteAnalytics
  <2>5. [at |-> next, c |-> c] \in Delivery
    BY <2>2, <2>3 DEF Delivery
  <2>6. /\ deliverer' \in [Deliverers -> Delivery]
        /\ \A x \in Deliverers : deliverer'[x].at # "idle" => deliverer'[x].c \in Captures
    BY <1>0, <2>3, <2>4, <2>5
  <2>7. tables' \in [Captures -> SUBSET Tables]
    BY <1>3, <2>3 DEF WriteAnalytics, TypeOK
  <2> QED BY <1>3, <2>6, <2>7 DEF WriteAnalytics, TypeOK, LoopsTyped, Busy
<1>4. CASE CompleteAnalytics(d)
  <2> DEFINE c == deliverer[d].c
  <2>1. c \in Captures
    BY <1>4 DEF CompleteAnalytics, LoopsTyped
  <2>2. /\ deliverer' \in [Deliverers -> Delivery]
        /\ \A x \in Deliverers : deliverer'[x].at # "idle" => deliverer'[x].c \in Captures
    BY <1>0, <1>1, <1>4 DEF CompleteAnalytics
  <2>3. outbox' \in [Captures -> Outbox]
    BY <1>4 DEF CompleteAnalytics, TypeOK, Outbox
  <2>4. /\ job' \in [Captures -> Job]
        /\ \A x \in Captures : job'[x].gen = job[x].gen /\ (job'[x].status = "NONE" => job'[x] = job[x])
    BY <1>4, <2>1 DEF CompleteAnalytics, TypeOK, Job
  <2>5. sent' \in [Captures -> Seq(Progress)]
    <3>1. sent \in [Captures -> Seq(Progress)] /\ "COMPLETED" \in Progress
      BY DEF TypeOK, Progress
    <3>2. Append(sent[c], "COMPLETED") \in Seq(Progress)
      BY <2>1, <3>1
    <3> QED BY <1>4, <3>1, <3>2 DEF CompleteAnalytics
  <2>6. TypeOK'
    BY <1>4, <2>2, <2>3, <2>4, <2>5 DEF CompleteAnalytics, TypeOK, Progress
  <2>7. LoopsTyped'
    BY <1>4, <2>2, <2>4 DEF CompleteAnalytics, LoopsTyped, Busy
  <2> QED BY <2>6, <2>7
<1>5. CASE RetryAnalytics(d) \/ DelivererCrashes(d)
  <2>1. /\ deliverer' \in [Deliverers -> Delivery]
        /\ \A x \in Deliverers : deliverer'[x].at # "idle" => deliverer'[x].c \in Captures
    BY <1>0, <1>1, <1>5 DEF RetryAnalytics, DelivererCrashes
  <2> DEFINE c == deliverer[d].c
             step == deliverer[d].at
             free == [status |-> "PENDING", owner |-> None, lapsed |-> FALSE]
  <2>2. tables' \in [Captures -> SUBSET Tables]
    <3>1. \/ tables' = tables
          \/ step \in Tables /\ tables' = [tables EXCEPT ![c] = tables[c] \cup {step}]
      BY <1>5 DEF RetryAnalytics, DelivererCrashes
    <3> HIDE DEF c, step
    <3> QED BY <3>1 DEF TypeOK
  <2>3. outbox' \in [Captures -> Outbox]
    <3>1. outbox' = outbox \/ outbox' = [outbox EXCEPT ![c] = free]
      BY <1>5 DEF RetryAnalytics, DelivererCrashes
    <3>2. free \in Outbox
      BY DEF Outbox
    <3> HIDE DEF c, free
    <3> QED BY <3>1, <3>2 DEF TypeOK
  <2> QED BY <1>5, <2>1, <2>2, <2>3 DEF RetryAnalytics, DelivererCrashes, TypeOK, LoopsTyped, Busy
<1> QED BY <1>2, <1>3, <1>4, <1>5

\* Every step keeps the types.
LEMMA NextTypeInv == TypeInv /\ [Next]_vars => TypeInv'
<1> SUFFICES ASSUME TypeInv, [Next]_vars PROVE TypeInv'
  OBVIOUS
<1>1. CASE UNCHANGED vars
  BY <1>1 DEF vars, TypeInv, TypeOK, LoopsTyped, Busy
<1>2. CASE Next
  BY <1>2, RowsTypeInv, ClaimJobTypeInv, AttemptTypeInv, StageResultTypeInv, FailJobTypeInv,
     CollectorTypeInv, DelivererTypeInv DEF Next
<1> QED BY <1>1, <1>2

\* Every table and every loop's memory keeps its type.
THEOREM TypeCorrect == Spec => []TypeOK
<1>1. TypeInv => TypeOK
  BY DEF TypeInv
<1> QED BY <1>1, InitTypeInv, NextTypeInv, PTL DEF Spec

-----------------------------------------------------------------------------
(* The job row and the reconstruction row of a capture.                    *)

\* While an attempt holds the lease the reconstruction runs with its generation.
Agree(j, r) ==
  /\ j.status = "NONE" => r.status = "NONE"
  /\ j.status = "RENDERING" => r = [status |-> "RUNNING", gen |-> j.gen]
  /\ r.status \in Open <=> j.status \in {"QUEUED", "RENDERING"}
  /\ j.status = "FAILED" => r.status = "FAILED"
  /\ r.status \in {"RUNNING", "PUBLISHED", "PARTIAL", "EXPIRED"} => r.gen \in Generations

RowsAgree == \A c \in Captures : Agree(job[c], recon[c])

\* claimJob keeps the rows in agreement.
LEMMA ClaimJobRows ==
  ASSUME TypeInv, RowsAgree, NEW w \in Workers, ClaimJob(w)
  PROVE  RowsAgree'
<1> SUFFICES ASSUME NEW c \in Captures PROVE Agree(job'[c], recon'[c])
  BY DEF RowsAgree
<1>0. Agree(job[c], recon[c]) /\ job[c] \in Job
  BY DEF RowsAgree, TypeInv, TypeOK
<1>1. Untouched(c) \/ GivenUp(c) \/ Requeued(c) \/ Taken(c)
  BY ClaimEffect DEF TypeInv
<1>2. CASE Untouched(c)
  BY <1>0, <1>2 DEF Untouched
<1>3. CASE GivenUp(c)
  <2>1. recon'[c].status = "FAILED" /\ job'[c].status = "FAILED"
    BY <1>0, <1>3 DEF GivenUp, Agree
  <2> QED BY <2>1 DEF Agree, Open
<1>4. CASE Requeued(c)
  BY <1>0, <1>4 DEF Requeued, Agree
<1>5. CASE Taken(c)
  <2>1. /\ recon'[c] = [status |-> "RUNNING", gen |-> job[c].gen + 1]
        /\ job'[c] = [status |-> "RENDERING", gen |-> job[c].gen + 1, lapsed |-> FALSE]
    BY <1>0, <1>5 DEF Taken, Agree
  <2>2. job[c].gen + 1 \in Generations
    BY <1>0, <1>5, MaxAttemptsAssumption DEF Taken, Job, Generations
  <2> QED BY <2>1, <2>2 DEF Agree, Open
<1> QED BY <1>1, <1>2, <1>3, <1>4, <1>5

\* The other steps of a job loop do.
LEMMA AttemptRows ==
  ASSUME TypeInv, RowsAgree, NEW w \in Workers,
         Heartbeat(w) \/ RenderDone(w) \/ StageResult(w) \/ FailJob(w)
  PROVE  RowsAgree'
<1> SUFFICES ASSUME NEW x \in Captures PROVE Agree(job'[x], recon'[x])
  BY DEF RowsAgree
<1> DEFINE c == worker[w].c
           g == worker[w].gen
<1>0. /\ c \in Captures /\ g \in Generations /\ worker[w].build \in Builds
      /\ Agree(job[c], recon[c]) /\ Agree(job[x], recon[x]) /\ job[c] \in Job
  BY DEF Heartbeat, RenderDone, StageResult, FailJob, Busy, LoopsTyped, TypeInv, TypeOK, Task, RowsAgree
<1>1. CASE x # c
  BY <1>0, <1>1 DEF Heartbeat, RenderDone, Renewed, StageResult, FailJob, TypeInv, TypeOK
<1>2. CASE x = c /\ (Heartbeat(w) \/ RenderDone(w))
  <2>1. recon'[x] = recon[x] /\ job'[x] = [status |-> "RENDERING", gen |-> g, lapsed |-> FALSE]
        /\ job[x].status = "RENDERING" /\ job[x].gen = g
    BY <1>0, <1>2 DEF Heartbeat, RenderDone, Renewed, HoldsLease, TypeInv, TypeOK
  <2> QED BY <1>0, <2>1 DEF Agree
<1>3. CASE x = c /\ StageResult(w)
  <2>1. /\ job'[x] = [status |-> "PERSISTING", gen |-> g, lapsed |-> FALSE]
        /\ job[x].status = "RENDERING" /\ job[x].gen = g
    BY <1>0, <1>3 DEF StageResult, HoldsLease, TypeInv, TypeOK
  <2>2. ReconRuns(w)
    BY <1>0, <1>3, <2>1 DEF Agree, ReconRuns
  <2>3. PICK st \in {"PUBLISHED", "PARTIAL", "FAILED"} : recon'[x] = [status |-> st, gen |-> g]
    BY <1>0, <1>3, <2>2 DEF StageResult, TypeInv, TypeOK, Builds
  <2> QED BY <1>0, <2>1, <2>3 DEF Agree, Open
<1>4. CASE x = c /\ FailJob(w)
  <2>1. CASE ~HoldsLease(w)
    BY <1>0, <1>4, <2>1 DEF FailJob
  <2>2. CASE HoldsLease(w) /\ job[c].gen < MaxAttempts
    <3>1. /\ job'[x] = [status |-> "QUEUED", gen |-> job[x].gen, lapsed |-> FALSE]
          /\ recon'[x] = recon[x] /\ job[x].status = "RENDERING"
      BY <1>0, <1>4, <2>2 DEF FailJob, HoldsLease, TypeInv, TypeOK
    <3> QED BY <1>0, <3>1 DEF Agree
  <2>3. CASE HoldsLease(w) /\ ~(job[c].gen < MaxAttempts)
    <3>1. /\ job'[x] = [status |-> "FAILED", gen |-> job[x].gen, lapsed |-> FALSE]
          /\ job[x].status = "RENDERING"
      BY <1>0, <1>4, <2>3 DEF FailJob, HoldsLease, TypeInv, TypeOK
    <3>2. recon[c].status \in Open
      BY <1>0, <1>4, <3>1 DEF Agree
    <3>3. recon'[x] = [status |-> "FAILED", gen |-> recon[x].gen]
      BY <1>0, <1>4, <2>3, <3>2 DEF FailJob, TypeInv, TypeOK
    <3> QED BY <3>1, <3>3 DEF Agree, Open
  <2> QED BY <2>1, <2>2, <2>3
<1> QED BY <1>1, <1>2, <1>3, <1>4

\* Every step does.
LEMMA NextRows == TypeInv /\ RowsAgree /\ [Next]_vars => RowsAgree'
<1> SUFFICES ASSUME TypeInv, RowsAgree, [Next]_vars PROVE RowsAgree'
  OBVIOUS
<1>0. UNCHANGED <<job, recon>> => RowsAgree'
  BY DEF RowsAgree
<1>1. CASE UNCHANGED vars
  BY <1>0, <1>1 DEF vars
<1>2. ASSUME NEW c \in Captures, AcceptCommand(c) PROVE RowsAgree'
  <2> SUFFICES ASSUME NEW x \in Captures PROVE Agree(job'[x], recon'[x])
    BY DEF RowsAgree
  <2>1. CASE x # c
    BY <1>2, <2>1 DEF AcceptCommand, RowsAgree, TypeInv, TypeOK
  <2>2. CASE x = c
    <3>1. job'[x].status = "QUEUED" /\ recon'[x].status = "QUEUED"
      BY <1>2, <2>2 DEF AcceptCommand, TypeInv, TypeOK
    <3> QED BY <3>1 DEF Agree, Open
  <2> QED BY <2>1, <2>2
<1>3. ASSUME NEW c \in Captures, LeaseLapses(c) \/ OutboxLapses(c) PROVE RowsAgree'
  <2> SUFFICES ASSUME NEW x \in Captures PROVE Agree(job'[x], recon'[x])
    BY DEF RowsAgree
  <2>1. job'[x].status = job[x].status /\ job'[x].gen = job[x].gen /\ recon' = recon
    <3>1. CASE LeaseLapses(c)
      BY <3>1 DEF LeaseLapses, TypeInv, TypeOK
    <3>2. CASE OutboxLapses(c)
      BY <3>2 DEF OutboxLapses
    <3> QED BY <1>3, <3>1, <3>2
  <2>2. Agree(job[x], recon[x])
    BY DEF RowsAgree
  <2> QED BY <2>1, <2>2 DEF Agree
<1>4. ASSUME NEW w \in Workers, ClaimJob(w) PROVE RowsAgree'
  BY <1>4, ClaimJobRows
<1>5. ASSUME NEW w \in Workers, Heartbeat(w) \/ RenderDone(w) \/ StageResult(w) \/ FailJob(w)
      PROVE  RowsAgree'
  BY <1>5, AttemptRows
<1>6. ASSUME NEW w \in Workers,
             \/ AttemptFails(w) \/ UploadPage(w) \/ UploadClone(w) \/ UploadCloneFails(w)
             \/ StageArtifacts(w) \/ StageArtifactsFails(w) \/ WorkerCrashes(w)
      PROVE  RowsAgree'
  BY <1>0, <1>6 DEF AttemptFails, UploadPage, UploadClone, UploadCloneFails, StageArtifacts,
                    StageArtifactsFails, WorkerCrashes
<1>7. ASSUME NEW o \in CloneObjects, ArtifactAges(o) \/ \E k \in Collectors : ClaimDeletion(k, o)
      PROVE  RowsAgree'
  BY <1>0, <1>7 DEF ArtifactAges, ClaimDeletion
<1>8. ASSUME NEW k \in Collectors,
             DeleteObject(k) \/ DeletionFails(k) \/ RetryDeletion(k) \/ CollectorCrashes(k)
      PROVE  RowsAgree'
  BY <1>0, <1>8 DEF DeleteObject, DeletionFails, RetryDeletion, CollectorCrashes
<1>9. ASSUME NEW k \in Collectors, CompleteDeletion(k) PROVE RowsAgree'
  <2> SUFFICES ASSUME NEW x \in Captures PROVE Agree(job'[x], recon'[x])
    BY DEF RowsAgree
  <2>1. \/ recon'[x] = recon[x]
        \/ recon[x].status \in {"PUBLISHED", "PARTIAL"}
           /\ recon'[x] = [status |-> "EXPIRED", gen |-> recon[x].gen]
    BY <1>9 DEF CompleteDeletion, TypeInv, TypeOK
  <2>2. job' = job /\ Agree(job[x], recon[x])
    BY <1>9 DEF CompleteDeletion, RowsAgree
  <2> QED BY <2>1, <2>2 DEF Agree, Open
<1>10. ASSUME NEW d \in Deliverers,
              \/ \E c \in Captures : ClaimAnalytics(d, c)
              \/ WriteAnalytics(d) \/ RetryAnalytics(d) \/ DelivererCrashes(d)
       PROVE  RowsAgree'
  BY <1>0, <1>10 DEF ClaimAnalytics, WriteAnalytics, RetryAnalytics, DelivererCrashes
<1>11. ASSUME NEW d \in Deliverers, CompleteAnalytics(d) PROVE RowsAgree'
  <2> SUFFICES ASSUME NEW x \in Captures PROVE Agree(job'[x], recon'[x])
    BY DEF RowsAgree
  <2>1. \/ job'[x] = job[x]
        \/ job[x].status = "PERSISTING" /\ job'[x].status = "COMPLETED"
    BY <1>11 DEF CompleteAnalytics, TypeInv, TypeOK
  <2>2. recon' = recon /\ Agree(job[x], recon[x])
    BY <1>11 DEF CompleteAnalytics, RowsAgree
  <2> QED BY <2>1, <2>2 DEF Agree
<1> QED BY <1>1, <1>2, <1>3, <1>4, <1>5, <1>6, <1>7, <1>8, <1>9, <1>10, <1>11 DEF Next

\* Both rows start and stay in agreement.
LEMMA RowsAlwaysAgree == Spec => [](TypeInv /\ RowsAgree)
<1>1. ASSUME Init PROVE RowsAgree
  <2> SUFFICES ASSUME NEW c \in Captures PROVE Agree(job[c], recon[c])
    BY DEF RowsAgree
  <2>1. job[c].status = "NONE"
    BY <1>1 DEF Init
  <2>2. recon[c].status = "NONE"
    BY <1>1 DEF Init
  <2> QED BY <2>1, <2>2 DEF Agree, Open
<1> QED BY <1>1, InitTypeInv, NextTypeInv, NextRows, PTL DEF Spec

\* No reconstruction is left open when its capture ended, and none ends before.
THEOREM ReconstructionAlwaysFollows == Spec => []ReconstructionFollowsCapture
<1>1. RowsAgree => ReconstructionFollowsCapture
  <2> SUFFICES ASSUME RowsAgree, NEW c \in Captures
               PROVE  /\ recon[c].status \in Open <=> job[c].status \in {"QUEUED", "RENDERING"}
                      /\ job[c].status = "FAILED" => recon[c].status = "FAILED"
                      /\ job[c].status = "RENDERING" => recon[c].gen = job[c].gen
    BY DEF ReconstructionFollowsCapture
  <2>1. Agree(job[c], recon[c])
    BY DEF RowsAgree
  <2> QED BY <2>1 DEF Agree
<1> QED BY <1>1, RowsAlwaysAgree, PTL

-----------------------------------------------------------------------------
(* What one step does to one row, one loop and one object. Every invariant *)
(* below is preserved because of these lemmas alone.                       *)

JobStays(c) ==
  /\ sent'[c] = sent[c]
  /\ \/ job'[c] = job[c]
     \/ /\ job[c].status = "RENDERING" /\ job'[c].status = "RENDERING"
        /\ job'[c].gen = job[c].gen

\* Accepted, queued again, claimed, failed, handed to the analytics, completed.
JobAccepted(c) ==
  /\ job[c].status = "NONE" /\ job'[c].status = "QUEUED"
  /\ job'[c].gen = job[c].gen /\ sent'[c] = sent[c]
JobRequeued(c) ==
  /\ job[c].status = "RENDERING" /\ job'[c].status = "QUEUED"
  /\ job'[c].gen = job[c].gen /\ job[c].gen < MaxAttempts /\ sent'[c] = sent[c]
JobClaimed(c) ==
  /\ job[c].status \in {"QUEUED", "RENDERING"} /\ job'[c].status = "RENDERING"
  /\ job'[c].gen = job[c].gen + 1 /\ job[c].gen < MaxAttempts
  /\ sent'[c] = Append(sent[c], "RUNNING")
JobFailed(c) ==
  /\ job[c].status = "RENDERING" /\ job'[c].status = "FAILED"
  /\ job'[c].gen = job[c].gen /\ job[c].gen = MaxAttempts
  /\ sent'[c] = Append(sent[c], "FAILED")
JobHandedOver(c) ==
  /\ job[c].status = "RENDERING" /\ job'[c].status = "PERSISTING"
  /\ job'[c].gen = job[c].gen /\ sent'[c] = Append(sent[c], "INDEXING")
  /\ \E w \in Workers : worker[w].at = "result" /\ worker[w].c = c /\ worker[w].gen = job[c].gen
JobCompleted(c) ==
  /\ job[c].status = "PERSISTING" /\ job'[c].status = "COMPLETED"
  /\ job'[c].gen = job[c].gen /\ sent'[c] = Append(sent[c], "COMPLETED")
  /\ \E d \in Deliverers : deliverer[d].at = "ack" /\ deliverer[d].c = c

JobSteps(c) ==
  \/ JobStays(c) \/ JobAccepted(c) \/ JobRequeued(c) \/ JobClaimed(c)
  \/ JobFailed(c) \/ JobHandedOver(c) \/ JobCompleted(c)

\* A step moves the row of a capture along its life, and sends the event of that
\* move with it.
LEMMA JobStep ==
  ASSUME TypeInv, [Next]_vars, NEW c \in Captures
  PROVE  JobSteps(c)
<1> USE MaxAttemptsAssumption
<1>t. job \in [Captures -> Job] /\ sent \in [Captures -> Seq(Progress)] /\ job[c] \in Job
  BY DEF TypeInv, TypeOK, Progress
<1>0. UNCHANGED <<job, sent>> => JobStays(c)
  BY DEF JobStays
<1>1. CASE UNCHANGED vars
  BY <1>0, <1>1 DEF vars, JobSteps
<1>2. ASSUME NEW x \in Captures, AcceptCommand(x) PROVE JobSteps(c)
  <2>1. CASE x = c
    <3>1. job[c].gen = 0
      BY <1>2, <2>1 DEF AcceptCommand, TypeInv, LoopsTyped
    <3>2. JobAccepted(c)
      BY <1>t, <1>2, <2>1, <3>1 DEF AcceptCommand, JobAccepted
    <3> QED BY <3>2 DEF JobSteps
  <2>2. CASE x # c
    BY <1>t, <1>2, <2>2 DEF AcceptCommand, JobStays, JobSteps
  <2> QED BY <2>1, <2>2
<1>3. ASSUME NEW x \in Captures, LeaseLapses(x) PROVE JobSteps(c)
  BY <1>t, <1>3 DEF LeaseLapses, JobStays, JobSteps
<1>4. ASSUME NEW w \in Workers, ClaimJob(w) PROVE JobSteps(c)
  <2>1. Untouched(c) \/ GivenUp(c) \/ Requeued(c) \/ Taken(c)
    BY <1>4, ClaimEffect DEF TypeInv
  <2>2. Untouched(c) => JobStays(c)
    BY DEF Untouched, JobStays
  <2>3. GivenUp(c) => JobFailed(c)
    BY DEF GivenUp, JobFailed
  <2>4. Requeued(c) => JobRequeued(c)
    BY DEF Requeued, JobRequeued
  <2>5. Taken(c) => JobClaimed(c)
    BY DEF Taken, JobClaimed
  <2> QED BY <2>1, <2>2, <2>3, <2>4, <2>5 DEF JobSteps
<1>5. ASSUME NEW w \in Workers, Heartbeat(w) \/ RenderDone(w) PROVE JobSteps(c)
  <2>1. /\ HoldsLease(w) /\ Renewed(w) /\ sent' = sent
    BY <1>5 DEF Heartbeat, RenderDone
  <2> QED BY <1>t, <2>1 DEF HoldsLease, Renewed, JobStays, JobSteps
<1>6. ASSUME NEW w \in Workers, StageResult(w) PROVE JobSteps(c)
  <2>0. /\ worker[w].at = "result" /\ HoldsLease(w)
        /\ job' = [job EXCEPT ![worker[w].c] =
                      [status |-> "PERSISTING", gen |-> worker[w].gen, lapsed |-> FALSE]]
        /\ sent' = [sent EXCEPT ![worker[w].c] = Append(sent[worker[w].c], "INDEXING")]
    BY <1>6 DEF StageResult
  <2>1. CASE worker[w].c = c
    <3>1. JobHandedOver(c)
      BY <1>t, <2>0, <2>1 DEF HoldsLease, JobHandedOver
    <3> QED BY <3>1 DEF JobSteps
  <2>2. CASE worker[w].c # c
    BY <1>t, <2>0, <2>2 DEF JobStays, JobSteps
  <2> QED BY <2>1, <2>2
<1>7. ASSUME NEW w \in Workers, FailJob(w) PROVE JobSteps(c)
  <2>1. CASE ~HoldsLease(w)
    BY <1>0, <1>7, <2>1 DEF FailJob, JobSteps
  <2>2. CASE HoldsLease(w) /\ worker[w].c # c
    BY <1>t, <1>7, <2>2 DEF FailJob, JobStays, JobSteps
  <2>3. CASE HoldsLease(w) /\ worker[w].c = c /\ job[c].gen < MaxAttempts
    <3>1. JobRequeued(c)
      BY <1>t, <1>7, <2>3 DEF FailJob, HoldsLease, JobRequeued
    <3> QED BY <3>1 DEF JobSteps
  <2>4. CASE HoldsLease(w) /\ worker[w].c = c /\ ~(job[c].gen < MaxAttempts)
    <3>1. JobFailed(c)
      BY <1>t, <1>7, <2>4 DEF FailJob, HoldsLease, JobFailed, Job
    <3> QED BY <3>1 DEF JobSteps
  <2> QED BY <2>1, <2>2, <2>3, <2>4
<1>8. ASSUME NEW d \in Deliverers, CompleteAnalytics(d) PROVE JobSteps(c)
  <2>1. CASE deliverer[d].c = c
    <3>1. JobCompleted(c)
      BY <1>t, <1>8, <2>1 DEF CompleteAnalytics, JobCompleted
    <3> QED BY <3>1 DEF JobSteps
  <2>2. CASE deliverer[d].c # c
    BY <1>t, <1>8, <2>2 DEF CompleteAnalytics, JobStays, JobSteps
  <2> QED BY <2>1, <2>2
<1>9. ASSUME NEW w \in Workers,
             \/ AttemptFails(w) \/ UploadPage(w) \/ UploadClone(w) \/ UploadCloneFails(w)
             \/ StageArtifacts(w) \/ StageArtifactsFails(w) \/ WorkerCrashes(w)
      PROVE  JobSteps(c)
  BY <1>0, <1>9 DEF AttemptFails, UploadPage, UploadClone, UploadCloneFails, StageArtifacts,
                    StageArtifactsFails, WorkerCrashes, JobSteps
<1>10. ASSUME NEW o \in CloneObjects, ArtifactAges(o) \/ \E k \in Collectors : ClaimDeletion(k, o)
       PROVE  JobSteps(c)
  BY <1>0, <1>10 DEF ArtifactAges, ClaimDeletion, JobSteps
<1>11. ASSUME NEW k \in Collectors,
              \/ DeleteObject(k) \/ CompleteDeletion(k) \/ DeletionFails(k)
              \/ RetryDeletion(k) \/ CollectorCrashes(k)
       PROVE  JobSteps(c)
  BY <1>0, <1>11 DEF DeleteObject, CompleteDeletion, DeletionFails, RetryDeletion, CollectorCrashes,
                     JobSteps
<1>12. ASSUME NEW d \in Deliverers,
              \/ \E x \in Captures : ClaimAnalytics(d, x)
              \/ WriteAnalytics(d) \/ RetryAnalytics(d) \/ DelivererCrashes(d)
       PROVE  JobSteps(c)
  BY <1>0, <1>12 DEF ClaimAnalytics, WriteAnalytics, RetryAnalytics, DelivererCrashes, JobSteps
<1>13. ASSUME NEW x \in Captures, OutboxLapses(x) PROVE JobSteps(c)
  BY <1>0, <1>13 DEF OutboxLapses, JobSteps
<1> QED BY <1>1, <1>2, <1>3, <1>4, <1>5, <1>6, <1>7, <1>8, <1>9, <1>10, <1>11, <1>12, <1>13 DEF Next

\* An ended capture keeps its row and sends nothing more: no move starts there.
THEOREM EndedAlwaysStays == Spec => EndedStaysEnded
<1>1. TypeInv /\ [Next]_vars =>
        [\A c \in Captures : job[c].status \in {"COMPLETED", "FAILED"} =>
           job'[c] = job[c] /\ sent'[c] = sent[c]]_vars
  <2> SUFFICES ASSUME TypeInv, [Next]_vars, NEW c \in Captures,
                      job[c].status \in {"COMPLETED", "FAILED"}
               PROVE  job'[c] = job[c] /\ sent'[c] = sent[c]
    OBVIOUS
  <2>1. JobSteps(c)
    BY JobStep
  <2> QED BY <2>1 DEF JobSteps, JobStays, JobAccepted, JobRequeued, JobClaimed, JobFailed,
                      JobHandedOver, JobCompleted
<1>2. Spec => []TypeInv
  BY InitTypeInv, NextTypeInv, PTL DEF Spec
<1> QED BY <1>1, <1>2, PTL DEF Spec, EndedStaysEnded

-----------------------------------------------------------------------------
(* CaptureJobs implements CaptureLifecycle.                                *)

\* The two modules count alike.
LEMMA SameCardinality == \A S : Lifecycle!Cardinality(S) = Cardinality(S)
  BY DEF Lifecycle!Cardinality, Cardinality

\* An event adds to the count of claims exactly if it is a RUNNING.
LEMMA ClaimsOfAppend ==
  ASSUME NEW q \in Seq(Progress), NEW e \in Progress
  PROVE  /\ Lifecycle!Claims(q) \in Nat
         /\ Lifecycle!Claims(Append(q, e)) =
              IF e = "RUNNING" THEN Lifecycle!Claims(q) + 1 ELSE Lifecycle!Claims(q)
<1> DEFINE r == Append(q, e)
           n == Len(q) + 1
           Q == {i \in DOMAIN q : q[i] = "RUNNING"}
           R == {i \in DOMAIN r : r[i] = "RUNNING"}
<1>1. /\ Len(q) \in Nat /\ DOMAIN q = 1 .. Len(q) /\ DOMAIN r = 1 .. n
      /\ r[n] = e /\ \A i \in 1 .. Len(q) : r[i] = q[i]
  OBVIOUS
<1>2. IsFiniteSet(Q)
  <2>1. IsFiniteSet(1 .. Len(q))
    BY <1>1, FS_Interval
  <2> QED BY <1>1, <2>1, FS_Subset
<1>3. n \notin Q
  BY <1>1
<1>4. R = IF e = "RUNNING" THEN Q \cup {n} ELSE Q
  BY <1>1
<1>5. Cardinality(Q) \in Nat /\ Cardinality(Q \cup {n}) = Cardinality(Q) + 1
  <2> HIDE DEF Q, n
  <2> QED BY <1>2, <1>3, FS_AddElement, FS_CardinalityType
<1> HIDE DEF Q, R, n
<1>6. Cardinality(R) = IF e = "RUNNING" THEN Cardinality(Q) + 1 ELSE Cardinality(Q)
  BY <1>4, <1>5
<1> QED BY <1>5, <1>6, SameCardinality DEF Lifecycle!Claims, Q, R

\* Every attempt has announced itself: the claims counted in the events are the
\* generation of the lease.
ClaimsInv == \A c \in Captures : Lifecycle!Claims(sent[c]) = job[c].gen

\* No event is sent before the first claim.
LEMMA InitClaims == Init => ClaimsInv
<1> SUFFICES ASSUME Init, NEW c \in Captures PROVE Lifecycle!Claims(sent[c]) = job[c].gen
  BY DEF ClaimsInv
<1>1. sent[c] = << >> /\ job[c].gen = 0
  BY DEF Init
<1>2. {i \in DOMAIN sent[c] : sent[c][i] = "RUNNING"} = {}
  BY <1>1
<1>3. Cardinality({}) = 0
  BY FS_EmptySet
<1> QED BY <1>1, <1>2, <1>3, SameCardinality DEF Lifecycle!Claims

\* A step moves a capture as CaptureLifecycle allows, and keeps the count.
LEMMA StepAdvances ==
  ASSUME TypeInv, ClaimsInv, [Next]_vars, NEW c \in Captures
  PROVE  /\ Lifecycle!Claims(sent'[c]) = job'[c].gen
         /\ \/ job'[c].status = job[c].status /\ sent'[c] = sent[c]
            \/ Lifecycle!Advances(job[c].status, sent[c], job'[c].status, sent'[c])
<1>1. /\ sent[c] \in Seq(Progress) /\ Progress = {"RUNNING", "INDEXING", "COMPLETED", "FAILED"}
      /\ job[c].gen \in Nat /\ Lifecycle!Claims(sent[c]) = job[c].gen
  BY DEF TypeInv, TypeOK, Job, ClaimsInv, Progress
<1>2. JobSteps(c)
  BY JobStep
<1>3. CASE JobStays(c)
  BY <1>1, <1>3 DEF JobStays
<1>4. CASE JobAccepted(c)
  BY <1>1, <1>4 DEF JobAccepted, Lifecycle!Advances
<1>5. CASE JobRequeued(c)
  BY <1>1, <1>5 DEF JobRequeued, Lifecycle!Advances
<1>6. CASE JobClaimed(c)
  <2>1. Lifecycle!Claims(Append(sent[c], "RUNNING")) = job[c].gen + 1
    BY <1>1, ClaimsOfAppend
  <2> QED BY <1>1, <1>6, <2>1 DEF JobClaimed, Lifecycle!Advances
<1>7. CASE JobFailed(c)
  <2>1. Lifecycle!Claims(Append(sent[c], "FAILED")) = job[c].gen
    BY <1>1, ClaimsOfAppend
  <2> QED BY <1>1, <1>7, <2>1 DEF JobFailed, Lifecycle!Advances
<1>8. CASE JobHandedOver(c)
  <2>1. Lifecycle!Claims(Append(sent[c], "INDEXING")) = job[c].gen
    BY <1>1, ClaimsOfAppend
  <2> QED BY <1>1, <1>8, <2>1 DEF JobHandedOver, Lifecycle!Advances
<1>9. CASE JobCompleted(c)
  <2>1. Lifecycle!Claims(Append(sent[c], "COMPLETED")) = job[c].gen
    BY <1>1, ClaimsOfAppend
  <2> QED BY <1>1, <1>9, <2>1 DEF JobCompleted, Lifecycle!Advances
<1> QED BY <1>2, <1>3, <1>4, <1>5, <1>6, <1>7, <1>8, <1>9 DEF JobSteps

\* The leases, retries and deliveries of every capture implement what
\* CaptureLifecycle promises the Control Plane: events in the order of the moves,
\* as many claims as attempts, FAILED only after the last; and an ended capture
\* keeps its row.
THEOREM CaptureRefinesLifecycle == Spec => RefinesLifecycle
<1>1. Init => Lifecycle!Init
  BY DEF Init, Lifecycle!Init
<1>2. TypeInv /\ ClaimsInv /\ [Next]_vars => ClaimsInv'
  BY StepAdvances DEF ClaimsInv
<1>3. TypeInv /\ ClaimsInv /\ [Next]_vars =>
        [Lifecycle!Next]_<<[c \in Captures |-> job[c].status], sent>>
  <2> SUFFICES ASSUME TypeInv, ClaimsInv, [Next]_vars,
                      ~UNCHANGED <<[c \in Captures |-> job[c].status], sent>>
               PROVE  Lifecycle!Next
    OBVIOUS
  <2>1. \A c \in Captures :
          \/ job'[c].status = job[c].status /\ sent'[c] = sent[c]
          \/ Lifecycle!Advances(job[c].status, sent[c], job'[c].status, sent'[c])
    BY StepAdvances
  <2> QED BY <2>1 DEF Lifecycle!Next
<1>4. Spec => Lifecycle!Spec
  BY <1>1, <1>2, <1>3, InitTypeInv, InitClaims, NextTypeInv, PTL DEF Spec, Lifecycle!Spec
<1> QED BY <1>4, EndedAlwaysStays DEF RefinesLifecycle

-----------------------------------------------------------------------------
(* What one step does to a job loop.                                       *)

Attempting(w) == worker[w].at \in {"render", "page", "clone", "stage"}
HasPage(w) == worker[w].at \in {"clone", "stage", "result"}
PageOf(c, g) == <<c, g, "PAGE">>

\* It goes on with the attempt it made, and reaches a later step only with the
\* objects of the earlier ones in the bucket.
Continues(w) ==
  /\ Busy(w) /\ worker'[w].c = worker[w].c /\ worker'[w].gen = worker[w].gen
  /\ worker'[w].at \in {"render", "page", "clone", "stage"} => Attempting(w)
  /\ worker'[w].at = "stage" =>
       worker[w].at = "stage" \/ CloneOf(worker[w].c, worker[w].gen) \subseteq store'
  /\ worker'[w].at \in {"clone", "stage", "result"} =>
       HasPage(w) \/ PageOf(worker[w].c, worker[w].gen) \in store'
\* Or it starts one, alone, with a generation no loop had before.
Begins(w) ==
  \E c \in Captures :
    /\ worker'[w] = [at |-> "render", c |-> c, gen |-> job[c].gen + 1, build |-> "FAILED"]
    /\ job[c].gen + 1 \in Generations /\ job'[c].gen = job[c].gen + 1
    /\ \A v \in Workers : v # w => worker'[v] = worker[v]
LoopSteps(w) == worker'[w].at = "idle" \/ Begins(w) \/ Continues(w)

\* A new attempt begins by rendering the page.
LEMMA BeginsByRendering ==
  ASSUME NEW w, Begins(w)
  PROVE  worker'[w].at = "render"
<1>1. PICK c : worker'[w] = [at |-> "render", c |-> c, gen |-> job[c].gen + 1, build |-> "FAILED"]
  BY DEF Begins
<1> QED BY <1>1

\* A loop that is left alone continues.
LEMMA LoopStays ==
  ASSUME NEW w \in Workers, worker'[w] = worker[w]
  PROVE  LoopSteps(w)
  BY DEF LoopSteps, Continues, Busy, Attempting, HasPage

GoesTo(w, at, build) ==
  worker' = [worker EXCEPT ![w] =
    [at |-> at, c |-> worker[w].c, gen |-> worker[w].gen, build |-> build]]

\* A step of loop w either drops its attempt or goes on with it.
LEMMA LoopGoes ==
  ASSUME TypeInv, NEW w \in Workers, NEW v \in Workers, Busy(w), NEW at, NEW build,
         GoesTo(w, at, build),
         at \in {"page", "clone", "stage"} => Attempting(w),
         at # "render",
         at = "stage" => CloneOf(worker[w].c, worker[w].gen) \subseteq store',
         at \in {"clone", "stage", "result"} =>
           HasPage(w) \/ PageOf(worker[w].c, worker[w].gen) \in store'
  PROVE  LoopSteps(v)
<1>1. CASE v # w
  <2>1. worker'[v] = worker[v]
    BY <1>1 DEF TypeInv, TypeOK, GoesTo
  <2> QED BY <2>1, LoopStays
<1>2. CASE v = w
  <2>1. worker'[w] = [at |-> at, c |-> worker[w].c, gen |-> worker[w].gen, build |-> build]
    BY DEF TypeInv, TypeOK, GoesTo
  <2>2. worker'[w].at = at /\ worker'[w].c = worker[w].c /\ worker'[w].gen = worker[w].gen
    BY <2>1
  <2> QED BY <1>2, <2>2 DEF LoopSteps, Continues
<1> QED BY <1>1, <1>2

\* Every loop stops, begins or continues.
LEMMA LoopStep ==
  ASSUME TypeInv, [Next]_vars, NEW v \in Workers
  PROVE  LoopSteps(v)
<1> USE MaxAttemptsAssumption
<1>t. worker \in [Workers -> Task]
  BY DEF TypeInv, TypeOK
<1>0. worker' = worker => LoopSteps(v)
  BY LoopStays
<1>i. ASSUME NEW w \in Workers, worker' = [worker EXCEPT ![w] = Idle] PROVE LoopSteps(v)
  <2>1. CASE v = w
    BY <1>t, <1>i, <2>1 DEF Idle, LoopSteps
  <2>2. CASE v # w
    BY <1>t, <1>i, <2>2, LoopStays
  <2> QED BY <2>1, <2>2
<1>1. CASE UNCHANGED vars
  BY <1>0, <1>1 DEF vars
<1>2. ASSUME NEW w \in Workers, ClaimJob(w) PROVE LoopSteps(v)
  <2>1. ASSUME NEW c \in Captures, Taken(c),
               worker' = [worker EXCEPT ![w] =
                 [at |-> "render", c |-> c, gen |-> job[c].gen + 1, build |-> "FAILED"]]
        PROVE  LoopSteps(v)
    <3>1. CASE v = w
      <4>1. worker'[v] = [at |-> "render", c |-> c, gen |-> job[c].gen + 1, build |-> "FAILED"]
        BY <1>t, <2>1, <3>1
      <4>2. job[c].gen + 1 \in Generations /\ job'[c].gen = job[c].gen + 1
        BY <2>1 DEF Taken, TypeInv, TypeOK, Job, Generations
      <4>3. \A x \in Workers : x # v => worker'[x] = worker[x]
        BY <1>t, <2>1, <3>1
      <4> QED BY <4>1, <4>2, <4>3 DEF LoopSteps, Begins
    <3>2. CASE v # w
      BY <1>t, <2>1, <3>2, LoopStays
    <3> QED BY <3>1, <3>2
  <2> QED BY <1>2, <1>i, <2>1, ClaimEffect DEF TypeInv
<1>3. ASSUME NEW w \in Workers, RenderDone(w) PROVE LoopSteps(v)
  <2>1. PICK build \in Builds : GoesTo(w, "page", build)
    BY <1>3 DEF RenderDone, GoesTo
  <2>2. Busy(w) /\ Attempting(w)
    BY <1>3 DEF RenderDone, Busy, Attempting
  <2> QED BY <2>1, <2>2, LoopGoes
<1>4. ASSUME NEW w \in Workers, AttemptFails(w) PROVE LoopSteps(v)
  <2>1. GoesTo(w, "fail", worker[w].build)
    BY <1>4 DEF AttemptFails, Goes, GoesTo
  <2>2. Busy(w)
    BY <1>4 DEF AttemptFails, Busy
  <2> QED BY <2>1, <2>2, LoopGoes
<1>5. ASSUME NEW w \in Workers, UploadPage(w) PROVE LoopSteps(v)
  <2>1. PICK at \in {"result", "clone"} : GoesTo(w, at, worker[w].build)
    BY <1>5 DEF UploadPage, Goes, GoesTo
  <2>2. Busy(w) /\ Attempting(w) /\ PageOf(worker[w].c, worker[w].gen) \in store'
    BY <1>5 DEF UploadPage, Busy, Attempting, PageOf
  <2> QED BY <2>1, <2>2, LoopGoes
<1>6. ASSUME NEW w \in Workers, UploadClone(w) PROVE LoopSteps(v)
  <2>1. GoesTo(w, "stage", worker[w].build)
    BY <1>6 DEF UploadClone, Goes, GoesTo
  <2>2. Busy(w) /\ Attempting(w) /\ HasPage(w) /\ CloneOf(worker[w].c, worker[w].gen) \subseteq store'
    BY <1>6 DEF UploadClone, Busy, Attempting, HasPage
  <2> QED BY <2>1, <2>2, LoopGoes
<1>7. ASSUME NEW w \in Workers,
             UploadCloneFails(w) \/ StageArtifacts(w) \/ StageArtifactsFails(w) PROVE LoopSteps(v)
  <2>1. \E build \in {"FAILED", worker[w].build} : GoesTo(w, "result", build)
    BY <1>7 DEF UploadCloneFails, StageArtifacts, StageArtifactsFails, WithoutClone, Goes, GoesTo
  <2>2. Busy(w) /\ HasPage(w)
    BY <1>7 DEF UploadCloneFails, StageArtifacts, StageArtifactsFails, Busy, HasPage
  <2> QED BY <2>1, <2>2, LoopGoes
<1>8. ASSUME NEW w \in Workers, StageResult(w) PROVE LoopSteps(v)
  <2>1. Busy(w)
    BY <1>8 DEF StageResult, Busy
  <2>2. CASE worker' = [worker EXCEPT ![w] = Idle]
    BY <1>i, <2>2
  <2>3. CASE Goes(w, "fail")
    <3>1. GoesTo(w, "fail", worker[w].build)
      BY <2>3 DEF Goes, GoesTo
    <3> QED BY <2>1, <3>1, LoopGoes
  <2> QED BY <1>8, <2>2, <2>3 DEF StageResult
<1>9. ASSUME NEW w \in Workers, FailJob(w) \/ WorkerCrashes(w) PROVE LoopSteps(v)
  <2>1. worker' = [worker EXCEPT ![w] = Idle]
    BY <1>9 DEF FailJob, WorkerCrashes
  <2> QED BY <1>i, <2>1
<1>10. ASSUME NEW w \in Workers, Heartbeat(w) PROVE LoopSteps(v)
  BY <1>0, <1>10 DEF Heartbeat
<1>11. ASSUME NEW c \in Captures, AcceptCommand(c) \/ LeaseLapses(c) \/ OutboxLapses(c)
       PROVE  LoopSteps(v)
  BY <1>0, <1>11 DEF AcceptCommand, LeaseLapses, OutboxLapses
<1>12. ASSUME NEW o \in CloneObjects, ArtifactAges(o) \/ \E k \in Collectors : ClaimDeletion(k, o)
       PROVE  LoopSteps(v)
  BY <1>0, <1>12 DEF ArtifactAges, ClaimDeletion
<1>13. ASSUME NEW k \in Collectors,
              \/ DeleteObject(k) \/ CompleteDeletion(k) \/ DeletionFails(k)
              \/ RetryDeletion(k) \/ CollectorCrashes(k)
       PROVE  LoopSteps(v)
  BY <1>0, <1>13 DEF DeleteObject, CompleteDeletion, DeletionFails, RetryDeletion, CollectorCrashes
<1>14. ASSUME NEW d \in Deliverers,
              \/ \E x \in Captures : ClaimAnalytics(d, x)
              \/ WriteAnalytics(d) \/ CompleteAnalytics(d) \/ RetryAnalytics(d) \/ DelivererCrashes(d)
       PROVE  LoopSteps(v)
  BY <1>0, <1>14 DEF ClaimAnalytics, WriteAnalytics, CompleteAnalytics, RetryAnalytics, DelivererCrashes
<1> QED BY <1>1, <1>2, <1>3, <1>4, <1>5, <1>6, <1>7, <1>8, <1>9, <1>10, <1>11, <1>12, <1>13, <1>14 DEF Next

-----------------------------------------------------------------------------
(* A completed capture has its page and all its rows.                      *)

\* The tables that hold the rows of a capture when its delivery is at a step.
Before(step) ==
  CASE step = "network_requests" -> {"rendered_page_metrics"}
    [] step = "captured_resources" -> {"rendered_page_metrics", "network_requests"}
    [] step = "ingestion_receipts" -> Tables \ {"ingestion_receipts"}
    [] step = "ack" -> Tables
    [] OTHER -> {}

TablesInv ==
  /\ \A d \in Deliverers :
       deliverer[d].at # "idle" => Before(deliverer[d].at) \subseteq tables[deliverer[d].c]
  /\ \A c \in Captures : "ingestion_receipts" \in tables[c] => tables[c] = Tables
  /\ \A c \in Captures : job[c].status = "COMPLETED" => tables[c] = Tables

\* Steps that write no table and move no delivery on keep the tables' order.
LEMMA TablesStay ==
  ASSUME TypeInv, TablesInv, [Next]_vars, tables' = tables,
         \A d \in Deliverers :
           \/ deliverer'[d].at = "idle" \/ deliverer'[d].at = "lookup"
           \/ deliverer'[d] = deliverer[d]
  PROVE  TablesInv'
<1>1. ASSUME NEW c \in Captures, job'[c].status = "COMPLETED" PROVE tables'[c] = Tables
  <2>1. JobSteps(c)
    BY JobStep
  <2>2. CASE job[c].status = "COMPLETED"
    BY <2>2 DEF TablesInv
  <2>3. CASE job[c].status # "COMPLETED"
    <3>1. JobCompleted(c)
      BY <1>1, <2>1, <2>3 DEF JobSteps, JobStays, JobAccepted, JobRequeued, JobClaimed, JobFailed,
                              JobHandedOver
    <3>2. PICK d \in Deliverers : deliverer[d].at = "ack" /\ deliverer[d].c = c
      BY <3>1 DEF JobCompleted
    <3>3. Tables \subseteq tables[c]
      BY <3>2 DEF TablesInv, Before
    <3> QED BY <3>3 DEF TypeInv, TypeOK
  <2> QED BY <2>2, <2>3
<1>2. ASSUME NEW d \in Deliverers, deliverer'[d].at # "idle"
      PROVE  Before(deliverer'[d].at) \subseteq tables'[deliverer'[d].c]
  <2>1. CASE deliverer'[d].at = "lookup"
    BY <2>1 DEF Before
  <2>2. CASE deliverer'[d] = deliverer[d]
    BY <1>2, <2>2 DEF TablesInv
  <2> QED BY <1>2, <2>1, <2>2
<1> QED BY <1>1, <1>2 DEF TablesInv

\* A delivery writes the tables in their order, the receipt last.
LEMMA WritesInOrder ==
  ASSUME TypeInv, TablesInv, NEW d \in Deliverers, NEW step \in Tables, deliverer[d].at = step,
         tables' = [tables EXCEPT ![deliverer[d].c] = tables[deliverer[d].c] \cup {step}]
  PROVE  /\ \A c \in Captures : tables[c] \subseteq tables'[c] /\ tables'[c] \subseteq Tables
         /\ \A c \in Captures : "ingestion_receipts" \in tables'[c] => tables'[c] = Tables
         /\ Before(step) \cup {step} \subseteq tables'[deliverer[d].c]
<1> DEFINE x == deliverer[d].c
<1>1. x \in Captures /\ Before(step) \subseteq tables[x]
  BY DEF TypeInv, LoopsTyped, TablesInv, Tables
<1>2. \A c \in Captures : tables[c] \subseteq Tables
  BY DEF TypeInv, TypeOK
<1>3. tables'[x] = tables[x] \cup {step} /\ \A c \in Captures : c # x => tables'[c] = tables[c]
  BY <1>1 DEF TypeInv, TypeOK
<1>4. "ingestion_receipts" \in tables'[x] => tables'[x] = Tables
  <2>1. CASE step = "ingestion_receipts"
    <3>1. Before(step) = Tables \ {"ingestion_receipts"}
      BY <2>1 DEF Before
    <3> QED BY <1>1, <1>2, <1>3, <2>1, <3>1
  <2>2. CASE step # "ingestion_receipts"
    BY <1>1, <1>2, <1>3, <2>2 DEF TablesInv
  <2> QED BY <2>1, <2>2
<1> HIDE DEF x
<1>5. \A c \in Captures : "ingestion_receipts" \in tables'[c] => tables'[c] = Tables
  BY <1>3, <1>4 DEF TablesInv
<1>6. \A c \in Captures : tables[c] \subseteq tables'[c] /\ tables'[c] \subseteq Tables
  BY <1>1, <1>2, <1>3
<1>7. Before(step) \cup {step} \subseteq tables'[x]
  BY <1>1, <1>3
<1> QED BY <1>5, <1>6, <1>7 DEF x

\* What the receipt says stays true.
LEMMA NextTables == TypeInv /\ TablesInv /\ [Next]_vars => TablesInv'
<1> SUFFICES ASSUME TypeInv, TablesInv, [Next]_vars PROVE TablesInv'
  OBVIOUS
<1>t. deliverer \in [Deliverers -> Delivery]
  BY DEF TypeInv, TypeOK
<1>0. UNCHANGED <<tables, deliverer>> => TablesInv'
  BY TablesStay
<1>m. ASSUME \A c \in Captures : tables[c] \subseteq tables'[c] /\ tables'[c] \subseteq Tables,
             \A c \in Captures : "ingestion_receipts" \in tables'[c] => tables'[c] = Tables,
             job' = job, NEW d \in Deliverers,
             deliverer'[d].at # "idle" => Before(deliverer'[d].at) \subseteq tables'[deliverer'[d].c],
             \A x \in Deliverers : x # d => deliverer'[x] = deliverer[x]
      PROVE  TablesInv'
  <2>1. ASSUME NEW x \in Deliverers, x # d, deliverer'[x].at # "idle"
        PROVE  Before(deliverer'[x].at) \subseteq tables'[deliverer'[x].c]
    <3>1. deliverer[x].c \in Captures /\ Before(deliverer[x].at) \subseteq tables[deliverer[x].c]
      BY <1>m, <2>1 DEF TablesInv, TypeInv, LoopsTyped
    <3> QED BY <1>m, <2>1, <3>1
  <2>2. ASSUME NEW c \in Captures, job'[c].status = "COMPLETED" PROVE tables'[c] = Tables
    BY <1>m, <2>2 DEF TablesInv
  <2> QED BY <1>m, <2>1, <2>2 DEF TablesInv
<1>1. CASE UNCHANGED vars
  BY <1>0, <1>1 DEF vars
<1>2. ASSUME NEW d \in Deliverers, WriteAnalytics(d) PROVE TablesInv'
  <2> DEFINE c == deliverer[d].c
             step == deliverer[d].at
             next == IF step = "lookup" /\ AlreadyWritten(c) THEN "ack" ELSE After[step]
  <2>1. step \in {"lookup"} \cup Tables
    BY <1>2 DEF WriteAnalytics, After, Tables
  <2>2. deliverer' = [deliverer EXCEPT ![d] = [at |-> next, c |-> c]] /\ job' = job
    BY <1>2 DEF WriteAnalytics
  <2>3. deliverer'[d].at = next /\ deliverer'[d].c = c /\ c \in Captures
    BY <1>t, <2>1, <2>2 DEF TypeInv, LoopsTyped, Tables
  <2>4. \A x \in Deliverers : x # d => deliverer'[x] = deliverer[x]
    BY <1>t, <2>2
  <2>5. CASE step = "lookup"
    <3>1. tables' = tables
      BY <1>2, <2>5 DEF WriteAnalytics, Tables
    <3>2. Before(next) \subseteq tables[c]
      <4>1. CASE AlreadyWritten(c)
        <5>1. tables[c] = Tables
          BY <2>3, <4>1 DEF AlreadyWritten, TablesInv
        <5> QED BY <2>5, <4>1, <5>1 DEF Before
      <4>2. CASE ~AlreadyWritten(c)
        <5>1. next = "rendered_page_metrics"
          BY <2>5, <4>2 DEF After
        <5> QED BY <5>1 DEF Before
      <4> QED BY <4>1, <4>2
    <3>3. \A x \in Captures : tables'[x] \subseteq Tables
                              /\ ("ingestion_receipts" \in tables'[x] => tables'[x] = Tables)
      BY <3>1 DEF TypeInv, TypeOK, TablesInv
    <3> QED BY <1>m, <2>2, <2>3, <2>4, <3>1, <3>2, <3>3
  <2>6. CASE step \in Tables
    <3>1. tables' = [tables EXCEPT ![c] = tables[c] \cup {step}]
      BY <1>2, <2>6 DEF WriteAnalytics
    <3>2. /\ \A x \in Captures : tables[x] \subseteq tables'[x] /\ tables'[x] \subseteq Tables
          /\ \A x \in Captures : "ingestion_receipts" \in tables'[x] => tables'[x] = Tables
          /\ Before(step) \cup {step} \subseteq tables'[c]
      BY <2>6, <3>1, WritesInOrder
    <3>3. next = After[step]
      BY <2>6 DEF Tables
    <3>4. Before(next) = Before(step) \cup {step}
      BY <2>6, <3>3 DEF Before, After, Tables
    <3>5. Before(deliverer'[d].at) \subseteq tables'[deliverer'[d].c]
      BY <2>3, <3>2, <3>4
    <3> HIDE DEF c, step, next
    <3> QED BY <1>m, <2>2, <2>4, <3>2, <3>5
  <2> QED BY <2>1, <2>5, <2>6
<1>3. ASSUME NEW d \in Deliverers, RetryAnalytics(d) PROVE TablesInv'
  <2>1. deliverer' = [deliverer EXCEPT ![d] = NoDelivery] /\ job' = job
    BY <1>3 DEF RetryAnalytics
  <2>2. deliverer'[d].at = "idle" /\ \A x \in Deliverers : x # d => deliverer'[x] = deliverer[x]
    BY <1>t, <2>1 DEF NoDelivery
  <2>3. CASE tables' = tables
    BY <2>2, <2>3, TablesStay
  <2>4. CASE deliverer[d].at \in Tables
             /\ tables' = [tables EXCEPT ![deliverer[d].c] = tables[deliverer[d].c] \cup {deliverer[d].at}]
    <3>1. /\ \A x \in Captures : tables[x] \subseteq tables'[x] /\ tables'[x] \subseteq Tables
          /\ \A x \in Captures : "ingestion_receipts" \in tables'[x] => tables'[x] = Tables
      BY <2>4, WritesInOrder
    <3> QED BY <1>m, <2>1, <2>2, <3>1
  <2> QED BY <1>3, <2>3, <2>4 DEF RetryAnalytics
<1>4. ASSUME NEW d \in Deliverers,
             \/ \E c \in Captures : ClaimAnalytics(d, c)
             \/ CompleteAnalytics(d) \/ DelivererCrashes(d)
      PROVE  TablesInv'
  <2>1. tables' = tables
    BY <1>4 DEF ClaimAnalytics, CompleteAnalytics, DelivererCrashes
  <2>2. \A x \in Deliverers : \/ deliverer'[x].at = "idle" \/ deliverer'[x].at = "lookup"
                              \/ deliverer'[x] = deliverer[x]
    BY <1>t, <1>4 DEF ClaimAnalytics, CompleteAnalytics, DelivererCrashes, NoDelivery
  <2> QED BY <2>1, <2>2, TablesStay
<1>5. ASSUME NEW c \in Captures, AcceptCommand(c) \/ LeaseLapses(c) \/ OutboxLapses(c)
      PROVE  TablesInv'
  BY <1>0, <1>5 DEF AcceptCommand, LeaseLapses, OutboxLapses
<1>6. ASSUME NEW w \in Workers,
             \/ ClaimJob(w) \/ Heartbeat(w) \/ RenderDone(w) \/ AttemptFails(w)
             \/ UploadPage(w) \/ UploadClone(w) \/ UploadCloneFails(w)
             \/ StageArtifacts(w) \/ StageArtifactsFails(w) \/ StageResult(w)
             \/ FailJob(w) \/ WorkerCrashes(w)
      PROVE  TablesInv'
  BY <1>0, <1>6 DEF ClaimJob, Heartbeat, RenderDone, AttemptFails, UploadPage, UploadClone,
       UploadCloneFails, StageArtifacts, StageArtifactsFails, StageResult, FailJob, WorkerCrashes
<1>7. ASSUME NEW o \in CloneObjects, ArtifactAges(o) \/ \E k \in Collectors : ClaimDeletion(k, o)
      PROVE  TablesInv'
  BY <1>0, <1>7 DEF ArtifactAges, ClaimDeletion
<1>8. ASSUME NEW k \in Collectors,
             \/ DeleteObject(k) \/ CompleteDeletion(k) \/ DeletionFails(k)
             \/ RetryDeletion(k) \/ CollectorCrashes(k)
      PROVE  TablesInv'
  BY <1>0, <1>8 DEF DeleteObject, CompleteDeletion, DeletionFails, RetryDeletion, CollectorCrashes
<1> QED BY <1>1, <1>2, <1>3, <1>4, <1>5, <1>6, <1>7, <1>8 DEF Next

\* An object leaves the bucket only because a collector deletes it: pages stay.
LEMMA StoreStep ==
  ASSUME TypeInv, [Next]_vars, NEW o \in store
  PROVE  \/ o \in store'
         \/ \E k \in Collectors : collector[k].at # "idle" /\ collector[k].o = o /\ o \in CloneObjects
<1>0. store \subseteq store' => o \in store'
  OBVIOUS
<1>1. CASE UNCHANGED vars
  BY <1>1 DEF vars
<1>2. ASSUME NEW k \in Collectors, DeleteObject(k), o \notin store'
      PROVE  collector[k].at # "idle" /\ collector[k].o = o /\ o \in CloneObjects
  <2>1. collector[k].at = "delete" /\ store' = store \ {collector[k].o}
    BY <1>2 DEF DeleteObject
  <2>2. collector[k].o \in CloneObjects
    BY <2>1 DEF TypeInv, LoopsTyped
  <2>3. o = collector[k].o
    BY <1>2, <2>1
  <2> QED BY <2>1, <2>2, <2>3
<1>3. ASSUME NEW c \in Captures, AcceptCommand(c) \/ LeaseLapses(c) \/ OutboxLapses(c)
      PROVE  o \in store'
  BY <1>3 DEF AcceptCommand, LeaseLapses, OutboxLapses
<1>4. ASSUME NEW w \in Workers,
             \/ ClaimJob(w) \/ Heartbeat(w) \/ RenderDone(w) \/ AttemptFails(w)
             \/ UploadPage(w) \/ UploadClone(w) \/ UploadCloneFails(w)
             \/ StageArtifacts(w) \/ StageArtifactsFails(w) \/ StageResult(w)
             \/ FailJob(w) \/ WorkerCrashes(w)
      PROVE  o \in store'
  <2>1. store \subseteq store'
    BY <1>4 DEF ClaimJob, Heartbeat, RenderDone, AttemptFails, UploadPage, UploadClone,
         UploadCloneFails, StageArtifacts, StageArtifactsFails, StageResult, FailJob, WorkerCrashes
  <2> QED BY <1>0, <2>1
<1>5. ASSUME NEW x \in CloneObjects, ArtifactAges(x) \/ \E k \in Collectors : ClaimDeletion(k, x)
      PROVE  o \in store'
  BY <1>5 DEF ArtifactAges, ClaimDeletion
<1>6. ASSUME NEW k \in Collectors,
             CompleteDeletion(k) \/ DeletionFails(k) \/ RetryDeletion(k) \/ CollectorCrashes(k)
      PROVE  o \in store'
  BY <1>6 DEF CompleteDeletion, DeletionFails, RetryDeletion, CollectorCrashes
<1>7. ASSUME NEW d \in Deliverers,
             \/ \E x \in Captures : ClaimAnalytics(d, x)
             \/ WriteAnalytics(d) \/ CompleteAnalytics(d) \/ RetryAnalytics(d) \/ DelivererCrashes(d)
      PROVE  o \in store'
  BY <1>7 DEF ClaimAnalytics, WriteAnalytics, CompleteAnalytics, RetryAnalytics, DelivererCrashes
<1> QED BY <1>1, <1>2, <1>3, <1>4, <1>5, <1>6, <1>7 DEF Next

\* A loop that uploaded its page, and a capture whose result was staged, have it.
PagesInv ==
  /\ \A w \in Workers : HasPage(w) => PageOf(worker[w].c, worker[w].gen) \in store
  /\ \A c \in Captures :
       job[c].status \in {"PERSISTING", "COMPLETED"} => PageOf(c, job[c].gen) \in store

\* The page of a capture is never deleted.
LEMMA PageStays ==
  ASSUME TypeInv, [Next]_vars, NEW c, NEW g, PageOf(c, g) \in store
  PROVE  PageOf(c, g) \in store'
<1>1. PageOf(c, g) \notin CloneObjects
  BY DEF PageOf, CloneObjects, Kinds
<1> QED BY <1>1, StoreStep

\* So every step keeps the pages.
LEMMA NextPages == TypeInv /\ PagesInv /\ [Next]_vars => PagesInv'
<1> SUFFICES ASSUME TypeInv, PagesInv, [Next]_vars PROVE PagesInv'
  OBVIOUS
<1>1. ASSUME NEW w \in Workers, worker'[w].at \in {"clone", "stage", "result"}
      PROVE  PageOf(worker'[w].c, worker'[w].gen) \in store'
  <2>1. Continues(w)
    <3>1. LoopSteps(w)
      BY LoopStep
    <3> QED BY <1>1, <3>1, BeginsByRendering DEF LoopSteps
  <2>2. CASE HasPage(w)
    <3>1. PageOf(worker[w].c, worker[w].gen) \in store'
      BY <2>2, PageStays DEF PagesInv
    <3> QED BY <2>1, <3>1 DEF Continues
  <2>3. CASE ~HasPage(w)
    BY <1>1, <2>1, <2>3 DEF Continues
  <2> QED BY <2>2, <2>3
<1>2. ASSUME NEW c \in Captures, job'[c].status \in {"PERSISTING", "COMPLETED"}
      PROVE  PageOf(c, job'[c].gen) \in store'
  <2>1. JobSteps(c)
    BY JobStep
  <2>2. PageOf(c, job[c].gen) \in store /\ job'[c].gen = job[c].gen
    <3>1. CASE JobHandedOver(c)
      <4>1. PICK w \in Workers : worker[w].at = "result" /\ worker[w].c = c /\ worker[w].gen = job[c].gen
        BY <3>1 DEF JobHandedOver
      <4> QED BY <3>1, <4>1 DEF JobHandedOver, PagesInv, HasPage
    <3>2. CASE JobCompleted(c)
      BY <3>2 DEF JobCompleted, PagesInv
    <3>3. CASE JobStays(c)
      BY <1>2, <3>3 DEF JobStays, PagesInv
    <3> QED BY <1>2, <2>1, <3>1, <3>2, <3>3
            DEF JobSteps, JobAccepted, JobRequeued, JobClaimed, JobFailed
  <2> QED BY <2>2, PageStays
<1> QED BY <1>1, <1>2 DEF PagesInv, HasPage

\* A capture the Control Plane was told is COMPLETED has its page in the bucket and
\* its rows in all four tables, however often its delivery was repeated or its
\* attempts were taken over.
THEOREM CompletedAlwaysStored == Spec => []CompletedIsStored
<1>1. Init => TablesInv /\ PagesInv
  BY DEF Init, TablesInv, PagesInv, HasPage, Idle, NoDelivery
<1>2. TypeInv /\ TablesInv /\ PagesInv => CompletedIsStored
  BY DEF TablesInv, PagesInv, CompletedIsStored, PageOf
<1> QED BY <1>1, <1>2, InitTypeInv, NextTypeInv, NextTables, NextPages, PTL DEF Spec

-----------------------------------------------------------------------------
(* What one step does to a clone's artifact and to a reconstruction.       *)

\* Its deadline comes closer, or moves to the next retry; a collector takes it;
\* its deletion is recorded; the attempt that uploaded it stages it.
Aged(o) ==
  /\ artifact'[o].state = artifact[o].state
  /\ artifact'[o] = artifact[o] \/ artifact'[o].due # "far"
Marked(o) ==
  /\ artifact[o].state \in {"PUBLISHED", "DELETE_PENDING"}
  /\ artifact'[o].state = "DELETE_PENDING" /\ artifact'[o].due # "far"
Removed(o) ==
  /\ artifact[o].state \in {"STAGED", "DELETE_PENDING"}
  /\ artifact'[o].state = "DELETED" /\ artifact'[o].due # "far"
StagedBy(w, o) ==
  /\ worker[w].at = "stage" /\ worker'[w].at = "result"
  /\ o \in CloneOf(worker[w].c, worker[w].gen)
  /\ recon[worker[w].c] = [status |-> "RUNNING", gen |-> worker[w].gen]
  /\ artifact'[o] = [state |-> "STAGED", due |-> "far"]
NotPublished(o) == Aged(o) \/ Marked(o) \/ Removed(o) \/ \E w \in Workers : StagedBy(w, o)

\* A reconstruction is left alone, moves while it is open, or expires.
ReconStays(c) ==
  \/ recon'[c] = recon[c]
  \/ /\ recon[c].status \notin {"PUBLISHED", "PARTIAL", "EXPIRED"}
     /\ recon'[c].status \notin {"PUBLISHED", "PARTIAL"}
  \/ /\ recon[c].status \in {"PUBLISHED", "PARTIAL"}
     /\ recon'[c] = [status |-> "EXPIRED", gen |-> recon[c].gen]

\* stageResult publishes the clone of w's attempt.
Publishes(w) ==
  LET c == worker[w].c
      g == worker[w].gen
  IN  /\ c \in Captures /\ g \in Generations /\ worker[w].build \in {"PUBLISHED", "PARTIAL"}
      /\ recon[c] = [status |-> "RUNNING", gen |-> g]
      /\ Publishable(c, g) /\ artifact' = Published(c, g)
      /\ recon' = [recon EXCEPT ![c] = [status |-> worker[w].build, gen |-> g]]

\* The objects of a clone are those of its capture and generation.
LEMMA CloneOfIs ==
  ASSUME NEW o \in CloneObjects, NEW c, NEW g
  PROVE  o \in CloneOf(c, g) <=> o[1] = c /\ o[2] = g
<1>1. PICK a \in Captures, b \in Generations, k \in Kinds : o = <<a, b, k>>
  BY DEF CloneObjects
<1> QED BY <1>1 DEF CloneOf

\* The objects of an attempt's clone are clone objects.
LEMMA CloneOfAttempt ==
  ASSUME NEW c \in Captures, NEW g \in Generations
  PROVE  CloneOf(c, g) \subseteq CloneObjects
  BY DEF CloneOf, CloneObjects

\* A step publishes one clone whole, or publishes nothing.
LEMMA CloneStep ==
  ASSUME TypeInv, RowsAgree, [Next]_vars
  PROVE  \/ \E w \in Workers : Publishes(w)
         \/ (\A o \in CloneObjects : NotPublished(o)) /\ (\A c \in Captures : ReconStays(c))
<1> DEFINE Quiet == (\A o \in CloneObjects : NotPublished(o)) /\ (\A c \in Captures : ReconStays(c))
<1>t. /\ artifact \in [CloneObjects -> Artifact] /\ recon \in [Captures -> Recon]
      /\ worker \in [Workers -> Task] /\ \A c \in Captures : Agree(job[c], recon[c])
  BY DEF TypeInv, TypeOK, RowsAgree
<1>u. artifact' = artifact => \A o \in CloneObjects : NotPublished(o)
  BY DEF NotPublished, Aged
<1>v. recon' = recon => \A c \in Captures : ReconStays(c)
  BY DEF ReconStays
<1>1. CASE UNCHANGED vars
  BY <1>1, <1>u, <1>v DEF vars
<1>2. ASSUME NEW x \in Captures, AcceptCommand(x) PROVE Quiet
  <2>1. ASSUME NEW c \in Captures PROVE ReconStays(c)
    <3>1. CASE c = x
      <4>1. recon[c].status = "NONE"
        BY <1>t, <1>2, <3>1 DEF AcceptCommand, Agree
      <4>2. recon'[c].status = "QUEUED"
        BY <1>t, <1>2, <3>1 DEF AcceptCommand
      <4> QED BY <4>1, <4>2 DEF ReconStays
    <3>2. CASE c # x
      BY <1>t, <1>2, <3>2 DEF AcceptCommand, ReconStays
    <3> QED BY <3>1, <3>2
  <2> QED BY <1>2, <1>u, <2>1 DEF AcceptCommand
<1>3. ASSUME NEW w \in Workers, ClaimJob(w) PROVE Quiet
  <2>1. ASSUME NEW c \in Captures PROVE ReconStays(c)
    <3>1. Untouched(c) \/ GivenUp(c) \/ Requeued(c) \/ Taken(c)
      BY <1>3, ClaimEffect DEF TypeInv
    <3>2. CASE Untouched(c) \/ Requeued(c)
      BY <3>2 DEF Untouched, Requeued, ReconStays
    <3>3. CASE GivenUp(c)
      BY <3>3 DEF GivenUp, ReconStays, Open
    <3>4. CASE Taken(c)
      BY <3>4 DEF Taken, ReconStays, Open
    <3> QED BY <3>1, <3>2, <3>3, <3>4
  <2> QED BY <1>3, <1>u, <2>1 DEF ClaimJob
<1>4. ASSUME NEW w \in Workers, StageArtifacts(w) PROVE Quiet
  <2>1. ASSUME NEW o \in CloneObjects PROVE NotPublished(o)
    <3>1. CASE o \in CloneOf(worker[w].c, worker[w].gen)
      <4>1. artifact'[o] = [state |-> "STAGED", due |-> "far"]
        BY <1>4, <3>1 DEF StageArtifacts, Staged
      <4>2. worker'[w].at = "result"
        <5>1. CASE Goes(w, "result")
          BY <1>t, <5>1 DEF Goes
        <5>2. CASE WithoutClone(w)
          BY <1>t, <5>2 DEF WithoutClone
        <5> QED BY <1>4, <5>1, <5>2 DEF StageArtifacts
      <4>3. StagedBy(w, o)
        BY <1>4, <3>1, <4>1, <4>2 DEF StageArtifacts, ReconRuns, StagedBy
      <4> QED BY <4>3 DEF NotPublished
    <3>2. CASE o \notin CloneOf(worker[w].c, worker[w].gen)
      <4>1. artifact'[o] = artifact[o]
        BY <1>4, <3>2 DEF StageArtifacts, Staged
      <4> QED BY <4>1 DEF NotPublished, Aged
    <3> QED BY <3>1, <3>2
  <2> QED BY <1>4, <1>v, <2>1 DEF StageArtifacts
<1>5. ASSUME NEW w \in Workers, StageResult(w) PROVE Publishes(w) \/ Quiet
  <2> DEFINE c == worker[w].c
             g == worker[w].gen
             publish == ReconRuns(w) /\ worker[w].build # "FAILED" /\ Publishable(c, g)
  <2>1. c \in Captures /\ g \in Generations /\ worker[w].build \in Builds
    BY <1>t, <1>5 DEF StageResult, TypeInv, LoopsTyped, Busy, Task
  <2>2. CASE publish
    <3>1. artifact' = Published(c, g)
      BY <1>5, <2>2 DEF StageResult
    <3>2. recon' = [recon EXCEPT ![c] = [status |-> worker[w].build, gen |-> g]]
      BY <1>5, <2>2 DEF StageResult
    <3>3. worker[w].build \in {"PUBLISHED", "PARTIAL"} /\ recon[c] = [status |-> "RUNNING", gen |-> g]
      BY <2>1, <2>2 DEF Builds, ReconRuns
    <3>4. Publishes(w)
      BY <2>1, <2>2, <3>1, <3>2, <3>3 DEF Publishes
    <3> QED BY <3>4
  <2>3. CASE ~publish
    <3>1. artifact' = artifact
      BY <1>5, <2>3 DEF StageResult
    <3>2. ASSUME NEW x \in Captures PROVE ReconStays(x)
      <4>1. CASE ReconRuns(w) /\ x = c
        <5>1. recon'[x] = [status |-> "FAILED", gen |-> g] /\ recon[x].status = "RUNNING"
          BY <1>t, <1>5, <2>3, <4>1 DEF StageResult, ReconRuns
        <5> QED BY <5>1 DEF ReconStays
      <4>2. CASE ~(ReconRuns(w) /\ x = c)
        <5>1. recon'[x] = recon[x]
          BY <1>t, <1>5, <4>2 DEF StageResult
        <5> QED BY <5>1 DEF ReconStays
      <4> QED BY <4>1, <4>2
    <3> QED BY <1>u, <3>1, <3>2
  <2> QED BY <2>2, <2>3
<1>6. ASSUME NEW w \in Workers, FailJob(w) PROVE Quiet
  <2>1. ASSUME NEW x \in Captures PROVE ReconStays(x)
    <3>1. \/ recon'[x] = recon[x]
          \/ recon[x].status \in Open /\ recon'[x] = [status |-> "FAILED", gen |-> recon[x].gen]
      BY <1>t, <1>6 DEF FailJob
    <3> QED BY <3>1 DEF ReconStays, Open
  <2> QED BY <1>6, <1>u, <2>1 DEF FailJob
<1>7. ASSUME NEW w \in Workers,
             \/ Heartbeat(w) \/ RenderDone(w) \/ AttemptFails(w) \/ UploadPage(w) \/ UploadClone(w)
             \/ UploadCloneFails(w) \/ StageArtifactsFails(w) \/ WorkerCrashes(w)
      PROVE  Quiet
  BY <1>7, <1>u, <1>v DEF Heartbeat, RenderDone, AttemptFails, UploadPage, UploadClone, UploadCloneFails,
                    StageArtifactsFails, WorkerCrashes
<1>8. ASSUME NEW x \in CloneObjects, ArtifactAges(x) PROVE Quiet
  <2>1. ASSUME NEW o \in CloneObjects PROVE NotPublished(o)
    BY <1>t, <1>8 DEF ArtifactAges, NotPublished, Aged
  <2> QED BY <1>8, <1>v, <2>1 DEF ArtifactAges
<1>9. ASSUME NEW x \in CloneObjects, NEW k \in Collectors, ClaimDeletion(k, x) PROVE Quiet
  <2>1. ASSUME NEW o \in CloneObjects PROVE NotPublished(o)
    BY <1>t, <1>9 DEF ClaimDeletion, Collectable, NotPublished, Aged, Marked
  <2> QED BY <1>9, <1>v, <2>1 DEF ClaimDeletion
<1>10. ASSUME NEW k \in Collectors, CompleteDeletion(k) PROVE Quiet
  <2>1. ASSUME NEW o \in CloneObjects PROVE NotPublished(o)
    BY <1>t, <1>10 DEF CompleteDeletion, Deletable, NotPublished, Aged, Removed
  <2>2. ASSUME NEW c \in Captures PROVE ReconStays(c)
    BY <1>t, <1>10 DEF CompleteDeletion, ReconStays
  <2> QED BY <2>1, <2>2
<1>11. ASSUME NEW k \in Collectors, RetryDeletion(k) PROVE Quiet
  <2>1. ASSUME NEW o \in CloneObjects PROVE NotPublished(o)
    BY <1>t, <1>11 DEF RetryDeletion, Deletable, NotPublished, Aged
  <2> QED BY <1>11, <1>v, <2>1 DEF RetryDeletion
<1>12. ASSUME NEW k \in Collectors, DeleteObject(k) \/ DeletionFails(k) \/ CollectorCrashes(k)
       PROVE  Quiet
  BY <1>12, <1>u, <1>v DEF DeleteObject, DeletionFails, CollectorCrashes
<1>13. ASSUME NEW d \in Deliverers,
              \/ \E x \in Captures : ClaimAnalytics(d, x)
              \/ WriteAnalytics(d) \/ CompleteAnalytics(d) \/ RetryAnalytics(d) \/ DelivererCrashes(d)
       PROVE  Quiet
  BY <1>13, <1>u, <1>v DEF ClaimAnalytics, WriteAnalytics, CompleteAnalytics, RetryAnalytics,
                           DelivererCrashes
<1>14. ASSUME NEW x \in Captures, LeaseLapses(x) \/ OutboxLapses(x) PROVE Quiet
  BY <1>14, <1>u, <1>v DEF LeaseLapses, OutboxLapses
<1> QED BY <1>1, <1>2, <1>3, <1>4, <1>5, <1>6, <1>7, <1>8, <1>9, <1>10, <1>11, <1>12, <1>13, <1>14 DEF Next

\* A collector goes on with the object it took, or takes one that is due.
LEMMA CollectorStep ==
  ASSUME TypeInv, [Next]_vars, NEW k \in Collectors, collector'[k].at # "idle"
  PROVE  \/ collector[k].at # "idle" /\ collector'[k].o = collector[k].o
         \/ /\ collector'[k].o \in CloneObjects
            /\ artifact'[collector'[k].o].state \in {"STAGED", "DELETE_PENDING"}
            /\ artifact'[collector'[k].o].due # "far"
<1> DEFINE Goal == \/ collector[k].at # "idle" /\ collector'[k].o = collector[k].o
                   \/ /\ collector'[k].o \in CloneObjects
                      /\ artifact'[collector'[k].o].state \in {"STAGED", "DELETE_PENDING"}
                      /\ artifact'[collector'[k].o].due # "far"
<1>t. collector \in [Collectors -> Deletion] /\ artifact \in [CloneObjects -> Artifact]
  BY DEF TypeInv, TypeOK
<1>0. collector' = collector => Goal
  OBVIOUS
<1>1. CASE UNCHANGED vars
  BY <1>0, <1>1 DEF vars
<1>2. ASSUME NEW x \in CloneObjects, NEW m \in Collectors, ClaimDeletion(m, x) PROVE Goal
  <2>1. CASE k = m
    <3>1. collector'[k].o = x
      BY <1>t, <1>2, <2>1 DEF ClaimDeletion
    <3>2. artifact'[x].state \in {"STAGED", "DELETE_PENDING"} /\ artifact'[x].due # "far"
      BY <1>t, <1>2 DEF ClaimDeletion
    <3> QED BY <3>1, <3>2
  <2>2. CASE k # m
    BY <1>t, <1>2, <2>2 DEF ClaimDeletion
  <2> QED BY <2>1, <2>2
<1>3. ASSUME NEW m \in Collectors, DeleteObject(m) \/ DeletionFails(m) PROVE Goal
  <2>1. CASE k = m
    BY <1>t, <1>3, <2>1 DEF DeleteObject, DeletionFails
  <2>2. CASE k # m
    BY <1>t, <1>3, <2>2 DEF DeleteObject, DeletionFails
  <2> QED BY <2>1, <2>2
<1>4. ASSUME NEW m \in Collectors, CompleteDeletion(m) \/ RetryDeletion(m) \/ CollectorCrashes(m)
      PROVE  Goal
  <2>1. collector' = [collector EXCEPT ![m] = NoDeletion]
    BY <1>4 DEF CompleteDeletion, RetryDeletion, CollectorCrashes
  <2> QED BY <1>t, <2>1 DEF NoDeletion
<1>5. ASSUME NEW x \in CloneObjects, ArtifactAges(x) PROVE Goal
  BY <1>0, <1>5 DEF ArtifactAges
<1>6. ASSUME NEW c \in Captures, AcceptCommand(c) \/ LeaseLapses(c) \/ OutboxLapses(c)
      PROVE  Goal
  BY <1>0, <1>6 DEF AcceptCommand, LeaseLapses, OutboxLapses
<1>7. ASSUME NEW w \in Workers,
             \/ ClaimJob(w) \/ Heartbeat(w) \/ RenderDone(w) \/ AttemptFails(w)
             \/ UploadPage(w) \/ UploadClone(w) \/ UploadCloneFails(w)
             \/ StageArtifacts(w) \/ StageArtifactsFails(w) \/ StageResult(w)
             \/ FailJob(w) \/ WorkerCrashes(w)
      PROVE  Goal
  BY <1>0, <1>7 DEF ClaimJob, Heartbeat, RenderDone, AttemptFails, UploadPage, UploadClone,
       UploadCloneFails, StageArtifacts, StageArtifactsFails, StageResult, FailJob, WorkerCrashes
<1>8. ASSUME NEW d \in Deliverers,
             \/ \E x \in Captures : ClaimAnalytics(d, x)
             \/ WriteAnalytics(d) \/ CompleteAnalytics(d) \/ RetryAnalytics(d) \/ DelivererCrashes(d)
      PROVE  Goal
  BY <1>0, <1>8 DEF ClaimAnalytics, WriteAnalytics, CompleteAnalytics, RetryAnalytics, DelivererCrashes
<1> QED BY <1>1, <1>2, <1>3, <1>4, <1>5, <1>6, <1>7, <1>8 DEF Next

-----------------------------------------------------------------------------
(* What the API offers is in the bucket.                                   *)

\* No two loops make the same attempt.
AttemptsDistinct ==
  \A v, w \in Workers :
    Busy(v) /\ Busy(w) /\ worker[v].c = worker[w].c /\ worker[v].gen = worker[w].gen => v = w

\* An attempt that has not staged its clone has no artifact rows yet.
NotYetStaged ==
  \A w \in Workers : Attempting(w) =>
    \A o \in CloneOf(worker[w].c, worker[w].gen) : artifact[o].state = "NONE"

\* It stages them only with both objects uploaded.
Uploaded ==
  \A w \in Workers : worker[w].at = "stage" => CloneOf(worker[w].c, worker[w].gen) \subseteq store

\* No generation of the future has artifacts.
NothingAhead ==
  \A o \in CloneObjects : o[2] > job[o[1]].gen => artifact[o].state = "NONE"

\* What a collector works on is not offered and cannot be published any more.
Doomed ==
  \A k \in Collectors : collector[k].at # "idle" =>
    /\ artifact[collector[k].o].state \in {"STAGED", "DELETE_PENDING", "DELETED"}
    /\ artifact[collector[k].o].due # "far"

\* What is published, or still may be, is in the bucket.
Kept ==
  \A o \in CloneObjects :
    artifact[o].state = "PUBLISHED" \/ artifact[o] = [state |-> "STAGED", due |-> "far"]
      => o \in store

CloneInv ==
  /\ AttemptsDistinct /\ NotYetStaged /\ Uploaded /\ NothingAhead
  /\ Doomed /\ Kept /\ PublishedIsWhole

\* There is no clone, no attempt and no collection at the start.
LEMMA InitCloneInv == Init => CloneInv
<1> SUFFICES ASSUME Init PROVE CloneInv
  OBVIOUS
<1>1. \A w \in Workers : worker[w].at = "idle"
  BY DEF Init, Idle
<1>2. \A k \in Collectors : collector[k].at = "idle"
  BY DEF Init, NoDeletion
<1>3. \A o \in CloneObjects : artifact[o].state = "NONE"
  BY DEF Init
<1>4. PublishedIsWhole
  <2>1. \A c \in Captures, g \in Generations : \A o \in CloneOf(c, g) : artifact[o].state = "NONE"
    BY <1>3, CloneOfAttempt
  <2>2. \A c \in Captures : recon[c].status = "NONE"
    BY DEF Init
  <2> QED BY <2>1, <2>2 DEF PublishedIsWhole
<1>5. AttemptsDistinct /\ NotYetStaged /\ Uploaded
  BY <1>1 DEF AttemptsDistinct, Busy, NotYetStaged, Attempting, Uploaded
<1>6. NothingAhead /\ Doomed /\ Kept
  <2>1. \A o \in CloneObjects : ~(artifact[o] = [state |-> "STAGED", due |-> "far"])
    BY <1>3
  <2> QED BY <1>2, <1>3, <2>1 DEF NothingAhead, Doomed, Kept
<1> QED BY <1>4, <1>5, <1>6 DEF CloneInv

PublishedNow(o) ==
  artifact[o] = [state |-> "STAGED", due |-> "far"] /\ artifact'[o].state = "PUBLISHED"

\* A step publishes an artifact only if it is staged with its deadline far off.
LEMMA ArtifactStep ==
  ASSUME TypeInv, RowsAgree, [Next]_vars, NEW o \in CloneObjects
  PROVE  NotPublished(o) \/ PublishedNow(o)
<1>1. ASSUME NEW w \in Workers, Publishes(w) PROVE NotPublished(o) \/ PublishedNow(o)
  <2> DEFINE c == worker[w].c
             g == worker[w].gen
  <2>0. artifact' = Published(c, g) /\ Publishable(c, g)
    BY <1>1 DEF Publishes
  <2>1. CASE o \in CloneOf(c, g)
    <3>1. artifact[o].state = "STAGED" /\ artifact[o].due = "far" /\ artifact[o] \in Artifact
      BY <2>0, <2>1 DEF Publishable, TypeInv, TypeOK
    <3>2. artifact[o] = [state |-> "STAGED", due |-> "far"]
      BY <3>1 DEF Artifact
    <3>3. artifact'[o] = [state |-> "PUBLISHED", due |-> "far"]
      BY <2>0, <2>1, <3>1 DEF Published
    <3> QED BY <3>2, <3>3 DEF PublishedNow
  <2>2. CASE o \notin CloneOf(c, g)
    <3>1. artifact'[o] = artifact[o]
      BY <2>0, <2>2 DEF Published
    <3> QED BY <3>1 DEF NotPublished, Aged
  <2> QED BY <2>1, <2>2
<1> QED BY <1>1, CloneStep

\* The lease generation of a capture never goes back.
LEMMA GenerationGrows ==
  ASSUME TypeInv, [Next]_vars, NEW c \in Captures
  PROVE  job[c].gen \in Nat /\ job'[c].gen \in Nat /\ job[c].gen <= job'[c].gen
<1>1. JobSteps(c) /\ job[c].gen \in Nat
  BY JobStep DEF TypeInv, TypeOK, Job
<1>2. job'[c].gen = job[c].gen \/ job'[c].gen = job[c].gen + 1
  BY <1>1 DEF JobSteps, JobStays, JobAccepted, JobRequeued, JobClaimed, JobFailed, JobHandedOver,
              JobCompleted
<1> QED BY <1>1, <1>2

\* An artifact that was there before the step is not staged again, and the attempt
\* that stages one is at its stage step.
LEMMA StagedOnce ==
  ASSUME TypeInv, CloneInv, NEW w \in Workers, NEW o \in CloneObjects, StagedBy(w, o)
  PROVE  /\ artifact[o].state = "NONE" /\ o \in store /\ o[1] = worker[w].c /\ o[2] = worker[w].gen
         /\ worker[w].c \in Captures /\ worker[w].gen \in Generations
         /\ o[2] <= job[o[1]].gen /\ Busy(w)
<1>1. worker[w].at = "stage" /\ o \in CloneOf(worker[w].c, worker[w].gen)
  BY DEF StagedBy
<1>2. Busy(w) /\ Attempting(w)
  BY <1>1 DEF Busy, Attempting
<1>3. o[1] = worker[w].c /\ o[2] = worker[w].gen
  BY <1>1, CloneOfIs
<1>4. artifact[o].state = "NONE" /\ o \in store
  BY <1>1, <1>2 DEF CloneInv, NotYetStaged, Uploaded
<1>5. /\ worker[w].c \in Captures /\ worker[w].gen \in Generations
      /\ worker[w].gen <= job[worker[w].c].gen
  BY <1>2 DEF TypeInv, LoopsTyped
<1> QED BY <1>2, <1>3, <1>4, <1>5

\* Attempts stay distinct: a claim takes a generation beyond every earlier one.
LEMMA NextDistinct ==
  ASSUME TypeInv, CloneInv, [Next]_vars
  PROVE  AttemptsDistinct'
<1>0. AttemptsDistinct
  BY DEF CloneInv
<1>1. \A w \in Workers : LoopSteps(w)
  BY LoopStep
<1>2. ASSUME NEW v \in Workers, NEW w \in Workers, v # w, worker'[w].at # "idle", Begins(v),
             worker'[v].c = worker'[w].c, worker'[v].gen = worker'[w].gen
      PROVE  FALSE
  <2>1. PICK c \in Captures :
          /\ worker'[v] = [at |-> "render", c |-> c, gen |-> job[c].gen + 1, build |-> "FAILED"]
          /\ \A x \in Workers : x # v => worker'[x] = worker[x]
    BY <1>2 DEF Begins
  <2>2. Busy(w) /\ worker'[w] = worker[w]
    BY <1>2, <2>1 DEF Busy
  <2>3. worker[w].c = c /\ worker[w].gen = job[c].gen + 1
    BY <1>2, <2>1, <2>2
  <2>4. worker[w].gen <= job[worker[w].c].gen /\ job[c].gen \in Nat
    BY <2>2 DEF TypeInv, LoopsTyped, TypeOK, Job
  <2> QED BY <2>3, <2>4
<1>3. ASSUME NEW v \in Workers, NEW w \in Workers, worker'[v].at # "idle", worker'[w].at # "idle",
             worker'[v].c = worker'[w].c, worker'[v].gen = worker'[w].gen, v # w
      PROVE  FALSE
  <2>1. ~Begins(v) /\ ~Begins(w)
    BY <1>2, <1>3
  <2>2. Continues(v) /\ Continues(w)
    BY <1>1, <1>3, <2>1 DEF LoopSteps
  <2> QED BY <1>0, <1>3, <2>2 DEF Continues, AttemptsDistinct
<1> QED BY <1>3 DEF AttemptsDistinct, Busy

\* An attempt's artifact rows appear when it stages them, not before.
LEMMA NextNotYetStaged ==
  ASSUME TypeInv, RowsAgree, CloneInv, [Next]_vars
  PROVE  NotYetStaged'
<1> SUFFICES ASSUME NEW w \in Workers, worker'[w].at \in {"render", "page", "clone", "stage"},
                    NEW o \in CloneOf(worker'[w].c, worker'[w].gen)
             PROVE  artifact'[o].state = "NONE"
  BY DEF NotYetStaged, Attempting
<1>0. worker'[w].at # "idle" /\ LoopSteps(w)
  BY LoopStep
<1>1. TypeInv'
  BY NextTypeInv
<1>2. worker'[w].c \in Captures /\ worker'[w].gen \in Generations
  BY <1>0, <1>1 DEF TypeInv, LoopsTyped, Busy
<1>3. o \in CloneObjects
  BY <1>2, CloneOfAttempt
<1>4. o[1] = worker'[w].c /\ o[2] = worker'[w].gen
  BY <1>3, CloneOfIs
<1>5. /\ artifact[o].state = "NONE"
      /\ \A v \in Workers : ~StagedBy(v, o)
  <2>1. CASE Begins(w)
    <3>1. PICK c \in Captures :
            worker'[w] = [at |-> "render", c |-> c, gen |-> job[c].gen + 1, build |-> "FAILED"]
      BY <2>1 DEF Begins
    <3>2. o[1] = c /\ o[2] = job[c].gen + 1 /\ job[c].gen \in Nat
      BY <1>4, <3>1 DEF TypeInv, TypeOK, Job
    <3>3. o[2] > job[o[1]].gen
      BY <3>2
    <3>4. artifact[o].state = "NONE"
      BY <1>3, <3>3 DEF CloneInv, NothingAhead
    <3>5. \A v \in Workers : StagedBy(v, o) => o[2] <= job[o[1]].gen
      BY <1>3, StagedOnce
    <3> QED BY <3>2, <3>4, <3>5
  <2>2. CASE Continues(w)
    <3>1. Attempting(w) /\ Busy(w) /\ o[1] = worker[w].c /\ o[2] = worker[w].gen
      BY <1>4, <2>2 DEF Continues
    <3>2. o \in CloneOf(worker[w].c, worker[w].gen)
      BY <1>3, <3>1, CloneOfIs
    <3>3. artifact[o].state = "NONE"
      BY <3>1, <3>2 DEF CloneInv, NotYetStaged
    <3>4. ASSUME NEW v \in Workers, StagedBy(v, o) PROVE FALSE
      <4>1. Busy(v) /\ o[1] = worker[v].c /\ o[2] = worker[v].gen
        BY <1>3, <3>4, StagedOnce
      <4>2. v = w
        BY <3>1, <4>1 DEF CloneInv, AttemptsDistinct
      <4> QED BY <3>4, <4>2 DEF StagedBy
    <3> QED BY <3>3, <3>4
  <2> QED BY <1>0, <2>1, <2>2 DEF LoopSteps
<1>6. NotPublished(o) \/ PublishedNow(o)
  BY <1>3, ArtifactStep
<1>7. ~PublishedNow(o)
  <2>1. ASSUME artifact[o] = [state |-> "STAGED", due |-> "far"] PROVE FALSE
    BY <1>5, <2>1
  <2> QED BY <2>1 DEF PublishedNow
<1>8. Aged(o)
  BY <1>5, <1>6, <1>7 DEF NotPublished, Marked, Removed
<1> QED BY <1>5, <1>8 DEF Aged

\* What a collector may delete is no object an attempt is about to stage.
LEMMA NextUploaded ==
  ASSUME TypeInv, CloneInv, [Next]_vars
  PROVE  Uploaded'
<1> SUFFICES ASSUME NEW w \in Workers, worker'[w].at = "stage",
                    NEW o \in CloneOf(worker'[w].c, worker'[w].gen)
             PROVE  o \in store'
  BY DEF Uploaded
<1>1. Continues(w)
  BY LoopStep, BeginsByRendering DEF LoopSteps
<1>2. o \in CloneOf(worker[w].c, worker[w].gen)
  BY <1>1 DEF Continues
<1>3. CASE worker[w].at = "stage"
  <2>1. o \in store /\ artifact[o].state = "NONE"
    BY <1>2, <1>3 DEF CloneInv, Uploaded, NotYetStaged, Attempting
  <2>2. ASSUME NEW k \in Collectors, collector[k].at # "idle", collector[k].o = o PROVE FALSE
    BY <2>1, <2>2 DEF CloneInv, Doomed
  <2> QED BY <2>1, <2>2, StoreStep
<1>4. CASE worker[w].at # "stage"
  BY <1>1, <1>2, <1>4 DEF Continues
<1> QED BY <1>3, <1>4

\* Staging is of a claimed generation.
LEMMA NextNothingAhead ==
  ASSUME TypeInv, RowsAgree, CloneInv, [Next]_vars
  PROVE  NothingAhead'
<1> SUFFICES ASSUME NEW o \in CloneObjects, o[2] > job'[o[1]].gen
             PROVE  artifact'[o].state = "NONE"
  BY DEF NothingAhead
<1>1. o[1] \in Captures /\ o[2] \in Nat
  BY MaxAttemptsAssumption DEF CloneObjects, Generations
<1>2. job[o[1]].gen \in Nat /\ job'[o[1]].gen \in Nat /\ job[o[1]].gen <= job'[o[1]].gen
  BY <1>1, GenerationGrows
<1>3. o[2] > job[o[1]].gen /\ ~(o[2] <= job[o[1]].gen)
  BY <1>1, <1>2
<1>4. artifact[o].state = "NONE"
  BY <1>3 DEF CloneInv, NothingAhead
<1>5. \A w \in Workers : ~StagedBy(w, o)
  BY <1>3, StagedOnce
<1>6. ~PublishedNow(o)
  <2>1. ASSUME artifact[o] = [state |-> "STAGED", due |-> "far"] PROVE FALSE
    BY <1>4, <2>1
  <2> QED BY <2>1 DEF PublishedNow
<1>7. Aged(o)
  BY <1>4, <1>5, <1>6, ArtifactStep DEF NotPublished, Marked, Removed
<1> QED BY <1>4, <1>7 DEF Aged

\* A collected artifact is never published: its deadline is not far off.
LEMMA NextDoomed ==
  ASSUME TypeInv, RowsAgree, CloneInv, [Next]_vars
  PROVE  Doomed'
<1> SUFFICES ASSUME NEW k \in Collectors, collector'[k].at # "idle"
             PROVE  /\ artifact'[collector'[k].o].state \in {"STAGED", "DELETE_PENDING", "DELETED"}
                    /\ artifact'[collector'[k].o].due # "far"
  BY DEF Doomed
<1> DEFINE o == collector[k].o
<1>1. CASE collector[k].at # "idle" /\ collector'[k].o = o
  <2>1. /\ o \in CloneObjects /\ artifact[o].state \in {"STAGED", "DELETE_PENDING", "DELETED"}
        /\ artifact[o].due # "far"
    BY <1>1 DEF CloneInv, Doomed, TypeInv, LoopsTyped
  <2> HIDE DEF o
  <2>2. NotPublished(o) \/ PublishedNow(o)
    BY <2>1, ArtifactStep
  <2>3. ~PublishedNow(o)
    <3>1. ASSUME artifact[o] = [state |-> "STAGED", due |-> "far"] PROVE FALSE
      BY <2>1, <3>1
    <3> QED BY <3>1 DEF PublishedNow
  <2>4. \A w \in Workers : ~StagedBy(w, o)
    BY <2>1, StagedOnce
  <2>5. Aged(o) \/ Marked(o) \/ Removed(o)
    BY <2>2, <2>3, <2>4 DEF NotPublished
  <2>6. /\ artifact'[o].state \in {"STAGED", "DELETE_PENDING", "DELETED"}
        /\ artifact'[o].due # "far"
    BY <2>1, <2>5 DEF Aged, Marked, Removed
  <2> QED BY <1>1, <2>6
<1>2. CASE ~(collector[k].at # "idle" /\ collector'[k].o = o)
  BY <1>2, CollectorStep
<1> QED BY <1>1, <1>2

\* What is published or publishable is not what a collector deletes.
LEMMA NextKept ==
  ASSUME TypeInv, RowsAgree, CloneInv, [Next]_vars
  PROVE  Kept'
<1> SUFFICES ASSUME NEW o \in CloneObjects,
                    artifact'[o].state = "PUBLISHED" \/ artifact'[o] = [state |-> "STAGED", due |-> "far"]
             PROVE  o \in store'
  BY DEF Kept
<1>0. artifact'[o].state \in {"PUBLISHED", "STAGED"} /\ (artifact'[o].state = "PUBLISHED" \/ artifact'[o].due = "far")
  OBVIOUS
<1>1. o \in store /\ (artifact[o].state \in {"NONE", "PUBLISHED"} \/ artifact[o].due = "far")
  <2>1. CASE PublishedNow(o)
    <3>1. artifact[o] = [state |-> "STAGED", due |-> "far"]
      BY <2>1 DEF PublishedNow
    <3> QED BY <3>1 DEF CloneInv, Kept
  <2>2. CASE Aged(o)
    <3>1. CASE artifact'[o].state = "PUBLISHED"
      BY <2>2, <3>1 DEF Aged, CloneInv, Kept
    <3>2. CASE artifact'[o].state # "PUBLISHED"
      <4>1. artifact[o] = [state |-> "STAGED", due |-> "far"]
        BY <1>0, <2>2, <3>2 DEF Aged
      <4> QED BY <4>1 DEF CloneInv, Kept
    <3> QED BY <3>1, <3>2
  <2>3. CASE \E w \in Workers : StagedBy(w, o)
    BY <2>3, StagedOnce
  <2>4. ~Marked(o) /\ ~Removed(o)
    BY <1>0 DEF Marked, Removed
  <2> QED BY <2>1, <2>2, <2>3, <2>4, ArtifactStep DEF NotPublished
<1>2. ASSUME NEW k \in Collectors, collector[k].at # "idle", collector[k].o = o PROVE FALSE
  BY <1>1, <1>2 DEF CloneInv, Doomed
<1> QED BY <1>1, <1>2, StoreStep

\* Archive and manifest are published together, for the generation that the
\* reconstruction runs with.
LEMMA NextWhole ==
  ASSUME TypeInv, RowsAgree, CloneInv, [Next]_vars
  PROVE  PublishedIsWhole'
<1> DEFINE Out == {"PUBLISHED", "DELETE_PENDING"}
<1>0. PublishedIsWhole
  BY DEF CloneInv
<1>a. ASSUME NEW c \in Captures, NEW g \in Generations, NEW o \in CloneOf(c, g), artifact[o].state \in Out
      PROVE  /\ recon[c].gen = g /\ recon[c].status \in {"PUBLISHED", "PARTIAL", "EXPIRED"}
             /\ \A p \in CloneOf(c, g) : artifact[p].state \in {"PUBLISHED", "DELETE_PENDING", "DELETED"}
  BY <1>0, <1>a DEF PublishedIsWhole
<1>b. \A c \in Captures, g \in Generations : \A o \in CloneOf(c, g) :
        o \in CloneObjects /\ o[1] = c /\ o[2] = g
  BY CloneOfAttempt, CloneOfIs
<1>1. CASE (\A o \in CloneObjects : NotPublished(o)) /\ (\A c \in Captures : ReconStays(c))
  <2>0. ASSUME NEW w \in Workers, NEW o \in CloneObjects, StagedBy(w, o)
        PROVE  recon[o[1]].status = "RUNNING"
    <3>1. o[1] = worker[w].c /\ recon[worker[w].c] = [status |-> "RUNNING", gen |-> worker[w].gen]
      BY <2>0, StagedOnce DEF StagedBy
    <3> QED BY <3>1
  <2>1. ASSUME NEW c \in Captures, NEW g \in Generations, NEW o \in CloneOf(c, g), artifact'[o].state \in Out
        PROVE  /\ recon'[c].gen = g /\ recon'[c].status \in {"PUBLISHED", "PARTIAL", "EXPIRED"}
               /\ \A p \in CloneOf(c, g) : artifact'[p].state \in {"PUBLISHED", "DELETE_PENDING", "DELETED"}
    <3>1. o \in CloneObjects
      BY <1>b
    <3>2. ~\E w \in Workers : StagedBy(w, o)
      <4>1. ASSUME NEW w \in Workers, artifact'[o] = [state |-> "STAGED", due |-> "far"] PROVE FALSE
        BY <2>1, <4>1
      <4> QED BY <4>1 DEF StagedBy
    <3>3. artifact[o].state \in Out
      BY <1>1, <2>1, <3>1, <3>2 DEF NotPublished, Aged, Marked, Removed
    <3>4. /\ recon[c].gen = g /\ recon[c].status \in {"PUBLISHED", "PARTIAL", "EXPIRED"}
          /\ \A p \in CloneOf(c, g) : artifact[p].state \in {"PUBLISHED", "DELETE_PENDING", "DELETED"}
      BY <1>a, <3>3
    <3>5. ASSUME NEW p \in CloneOf(c, g)
          PROVE  artifact'[p].state \in {"PUBLISHED", "DELETE_PENDING", "DELETED"}
      <4>1. p \in CloneObjects /\ p[1] = c
        BY <1>b
      <4>2. ~\E w \in Workers : StagedBy(w, p)
        BY <2>0, <3>4, <4>1
      <4> QED BY <1>1, <3>4, <4>1, <4>2 DEF NotPublished, Aged, Marked, Removed
    <3>6. recon'[c].gen = g /\ recon'[c].status \in {"PUBLISHED", "PARTIAL", "EXPIRED"}
      <4>1. ReconStays(c)
        BY <1>1
      <4> QED BY <3>4, <4>1 DEF ReconStays
    <3> QED BY <3>5, <3>6
  <2>2. ASSUME NEW c \in Captures, recon'[c].status \in {"PUBLISHED", "PARTIAL"},
               NEW o \in CloneOf(c, recon'[c].gen)
        PROVE  artifact'[o].state # "STAGED"
    <3>1. recon'[c] = recon[c]
      <4>1. ReconStays(c)
        BY <1>1
      <4>2. ASSUME recon'[c] = [status |-> "EXPIRED", gen |-> recon[c].gen] PROVE FALSE
        BY <2>2, <4>2
      <4> QED BY <2>2, <4>1, <4>2 DEF ReconStays
    <3>2. artifact[o].state # "STAGED"
      BY <1>0, <2>2, <3>1 DEF PublishedIsWhole
    <3>3. recon[c].gen \in Generations
      BY <2>2, <3>1 DEF RowsAgree, Agree
    <3>4. o \in CloneObjects /\ o[1] = c
      BY <1>b, <3>1, <3>3
    <3>5. ~\E w \in Workers : StagedBy(w, o)
      BY <2>0, <2>2, <3>1, <3>4
    <3> QED BY <1>1, <3>2, <3>4, <3>5 DEF NotPublished, Aged, Marked, Removed
  <2> QED BY <2>1, <2>2 DEF PublishedIsWhole
<1>2. ASSUME NEW w \in Workers, Publishes(w) PROVE PublishedIsWhole'
  <2> DEFINE c == worker[w].c
             g == worker[w].gen
             b == worker[w].build
  <2>0. /\ c \in Captures /\ g \in Generations /\ b \in {"PUBLISHED", "PARTIAL"}
        /\ recon[c] = [status |-> "RUNNING", gen |-> g]
        /\ Publishable(c, g) /\ artifact' = Published(c, g)
        /\ recon' = [recon EXCEPT ![c] = [status |-> b, gen |-> g]]
    BY <1>2 DEF Publishes
  <2> HIDE DEF c, g, b
  <2>1. \A p \in CloneOf(c, g) : artifact'[p].state = "PUBLISHED"
    <3>1. ASSUME NEW p \in CloneOf(c, g) PROVE artifact'[p].state = "PUBLISHED"
      <4>1. p \in CloneObjects /\ artifact[p].state = "STAGED"
        BY <1>b, <2>0 DEF Publishable
      <4>2. artifact'[p] = [state |-> "PUBLISHED", due |-> "far"]
        BY <2>0, <4>1 DEF Published
      <4> QED BY <4>2
    <3> QED BY <3>1
  <2>2. \A p \in CloneObjects : p \notin CloneOf(c, g) => artifact'[p] = artifact[p]
    BY <2>0 DEF Published
  <2>3. /\ recon'[c].status = b /\ recon'[c].gen = g
        /\ \A x \in Captures : x # c => recon'[x] = recon[x]
    BY <2>0 DEF TypeInv, TypeOK
  <2>4. ASSUME NEW x \in Captures, NEW h \in Generations, NEW o \in CloneOf(x, h), artifact'[o].state \in Out
        PROVE  /\ recon'[x].gen = h /\ recon'[x].status \in {"PUBLISHED", "PARTIAL", "EXPIRED"}
               /\ \A p \in CloneOf(x, h) : artifact'[p].state \in {"PUBLISHED", "DELETE_PENDING", "DELETED"}
    <3>1. CASE x = c /\ h = g
      BY <2>0, <2>1, <2>3, <3>1
    <3>2. CASE ~(x = c /\ h = g)
      <4>1. \A p \in CloneOf(x, h) : artifact'[p] = artifact[p]
        <5>1. ASSUME NEW p \in CloneOf(x, h) PROVE p \in CloneObjects /\ p \notin CloneOf(c, g)
          BY <1>b, <2>0, <3>2
        <5> QED BY <2>2, <5>1
      <4>2. artifact[o].state \in Out
        BY <2>4, <4>1
      <4>3. /\ recon[x].gen = h /\ recon[x].status \in {"PUBLISHED", "PARTIAL", "EXPIRED"}
            /\ \A p \in CloneOf(x, h) : artifact[p].state \in {"PUBLISHED", "DELETE_PENDING", "DELETED"}
        BY <1>a, <4>2
      <4>4. x # c
        BY <2>0, <4>3
      <4> QED BY <2>3, <4>1, <4>3, <4>4
    <3> QED BY <3>1, <3>2
  <2>5. ASSUME NEW x \in Captures, recon'[x].status \in {"PUBLISHED", "PARTIAL"},
               NEW o \in CloneOf(x, recon'[x].gen)
        PROVE  artifact'[o].state # "STAGED"
    <3>1. CASE x = c
      BY <2>1, <2>3, <2>5, <3>1
    <3>2. CASE x # c
      <4>1. recon'[x] = recon[x] /\ recon[x].gen \in Generations
        BY <2>3, <2>5, <3>2 DEF RowsAgree, Agree
      <4>2. artifact[o].state # "STAGED"
        BY <1>0, <2>5, <4>1 DEF PublishedIsWhole
      <4>3. o \in CloneObjects /\ o \notin CloneOf(c, g)
        BY <1>b, <2>0, <3>2, <4>1
      <4> QED BY <2>2, <4>2, <4>3
    <3> QED BY <3>1, <3>2
  <2> QED BY <2>4, <2>5 DEF PublishedIsWhole
<1> QED BY <1>1, <1>2, CloneStep

\* Every clone archive the API offers for download is in the bucket, archive and
\* manifest were published together by the attempt that held the lease, and the
\* reconstruction follows its capture: for any number of workers and collectors,
\* and whatever they crash in.
THEOREM OffersAlwaysHold == Spec => []OffersHold
<1>1. CloneInv /\ TypeInv /\ RowsAgree /\ [Next]_vars => CloneInv'
  BY NextDistinct, NextNotYetStaged, NextUploaded, NextNothingAhead, NextDoomed, NextKept, NextWhole
     DEF CloneInv
<1>2. CloneInv /\ TypeInv => OfferedIsStored
  <2> SUFFICES ASSUME CloneInv, TypeInv, NEW c \in Captures, recon[c].gen > 0, Offered(c)
               PROVE  <<c, recon[c].gen, "STATIC_ARCHIVE">> \in store
    BY DEF OfferedIsStored
  <2>1. recon[c].gen \in Generations
    BY MaxAttemptsAssumption DEF TypeInv, TypeOK, Recon, Generations
  <2>2. PICK o \in CloneOf(c, recon[c].gen) : o[3] = "STATIC_ARCHIVE" /\ artifact[o].state = "PUBLISHED"
    BY DEF Offered
  <2>3. o = <<c, recon[c].gen, "STATIC_ARCHIVE">>
    BY <2>2 DEF CloneOf
  <2>4. o \in CloneObjects
    BY <2>1, CloneOfAttempt
  <2> QED BY <2>2, <2>3, <2>4 DEF CloneInv, Kept
<1>3. CloneInv /\ TypeInv => TypeOK /\ OfferedIsStored /\ PublishedIsWhole
  BY <1>2 DEF CloneInv, TypeInv
<1>4. Spec => []CloneInv
  BY <1>1, InitCloneInv, RowsAlwaysAgree, PTL DEF Spec
<1>5. TypeOK /\ OfferedIsStored /\ PublishedIsWhole /\ ReconstructionFollowsCapture => OffersHold
  BY DEF OffersHold
<1> QED BY <1>3, <1>4, <1>5, RowsAlwaysAgree, ReconstructionAlwaysFollows, PTL
=============================================================================
