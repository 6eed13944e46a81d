---------------------------- MODULE MCSiteJobs ----------------------------
(***************************************************************************)
(* SiteJobs for TLC. A behaviour is one of a single scene: one job, with   *)
(* the pages, loops and faults the scene is about.                         *)
(***************************************************************************)
EXTENDS SiteJobs, TLC

CONSTANTS
  Scenes,
  p1, p2, shard, manifest,         \* pages; parts of the archive
  i1, r1, r2, a1, a2, c1, c2, k1   \* loops: ingest, render, assemble, reconcile, collect

VARIABLE scene

all == <<scene, vars>>

\* Two pages, rendered twice at most by two loops whose process may die, while
\* the owner cancels, the deadline passes and two loops reconcile.
Rendering == INSTANCE SiteJobs WITH
  Assemblers <- {a1}, Collectors <- {}, Mortal <- {r1, r2}, MaxPhase <- 1

\* Two assemblers of an archive of two parts race each other and the collector.
Archive == INSTANCE SiteJobs WITH
  Renderers <- {r1}, Reconcilers <- {}, Mortal <- {}, MaxRetries <- 1,
  HasDeadline <- FALSE, MayCancel <- FALSE

\* The bounds of the two: artifacts are staged once, the crawler reports one page.
StagedOnce == \A k \in Parts : artifact'[<<2, k>>].state = "NONE"
OnePage ==
  Cardinality({p \in Pages : page'[p].status # "NONE" \/ \E i \in Ingesters : p \in ingester'[i].todo}) <= 1

\* Where there is no collector, nobody reads whether an artifact's time is up.
NothingAges == artifact' # artifact => <<job, assembler>>' # <<job, assembler>>

\* One loop of each kind, to the end of the job and of everything it stored. A
\* renderer or a collector may die again and again.
Lifetime == INSTANCE SiteJobs WITH
  Pages <- {p1}, Ingesters <- {i1}, Renderers <- {r1}, Assemblers <- {a1},
  Reconcilers <- {c1}, Collectors <- {k1}, Mortal <- {r1, k1}, Parts <- {manifest},
  PageConcurrency <- 1, MaxRetries <- 2, MaxPhase <- 1, MaxStaged <- 2,
  HasDeadline <- FALSE, MayCancel <- TRUE

\* A job that becomes overdue while nothing fails.
Deadline == INSTANCE SiteJobs WITH
  Pages <- {p1}, Ingesters <- {i1}, Renderers <- {r1}, Assemblers <- {a1},
  Reconcilers <- {c1}, Collectors <- {k1}, Mortal <- {}, Parts <- {manifest},
  PageConcurrency <- 1, MaxRetries <- 2, MaxPhase <- 1, MaxStaged <- 2,
  HasDeadline <- TRUE, MayCancel <- FALSE

SceneInit ==
  /\ scene \in Scenes
  /\ \/ scene \in {"rendering", "archive"} /\ Init
     \/ scene = "lifetime" /\ Lifetime!Init
     \/ scene = "deadline" /\ Deadline!Init

SceneNext ==
  /\ UNCHANGED scene
  /\ \/ scene = "rendering" /\ Rendering!Next /\ StagedOnce /\ NothingAges
     \/ scene = "archive" /\ Archive!Next /\ OnePage
     \/ scene = "lifetime" /\ Lifetime!Next
     \/ scene = "deadline" /\ Deadline!Next

SceneSpec == SceneInit /\ [][SceneNext]_all

\* The scenes about the end of a job have the same loops and limits, and so the
\* same fairness.
EndSpec == SceneSpec /\ Lifetime!Fairness

\* An accepted job becomes overdue at last, ended or not.
DeadlineSpec == SceneSpec /\ Deadline!Fairness
                /\ WF_all(Deadline!BecomesOverdue /\ UNCHANGED scene)

\* Loops of one kind are interchangeable, and so are the pages and the parts.
Alike == Permutations({p1, p2}) \cup Permutations({r1, r2}) \cup Permutations({c1, c2})
         \cup Permutations({a1, a2}) \cup Permutations({shard, manifest})

-----------------------------------------------------------------------------

\* A job that is not overdue ends, cancelled or not, and then every bundle and
\* artifact that has a row is deleted. An overdue one ends unless the
\* reconciliation takes its assembly back again and again.
NothingRemains ==
  /\ scene = "lifetime" => JobEnds /\ Lifetime!RowsAreCollected
  /\ scene = "deadline" => EndsUnlessInterrupted

=============================================================================
