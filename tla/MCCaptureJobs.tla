--------------------------- MODULE MCCaptureJobs ---------------------------
(***************************************************************************)
(* CaptureJobs for TLC. A behaviour is one of a single scene: one capture, *)
(* with the loops the scene is about; other loops rest.                    *)
(***************************************************************************)
EXTENDS CaptureJobs, TLC

CONSTANTS Scenes, c1, w1, w2, k1, d1, d2

VARIABLE scene

all == <<scene, vars>>

\* Two attempts race each other and the collector of staged artifacts.
Clone == INSTANCE CaptureJobs WITH Deliverers <- {}

\* Two deliverers race for the analytics of a capture that may be attempted twice.
Analytics == INSTANCE CaptureJobs WITH Workers <- {w1}, Collectors <- {}

\* One job loop and one deliverer, to the end of the capture.
Attempts == INSTANCE CaptureJobs WITH Workers <- {w1}, Collectors <- {}, Deliverers <- {d1}

\* One attempt and the collector, to the end of its artifacts.
Collection == INSTANCE CaptureJobs WITH
  Workers <- {w1}, Collectors <- {k1}, Deliverers <- {}, MaxAttempts <- 1

SceneInit ==
  /\ scene \in Scenes
  /\ \/ scene \in {"clone", "analytics"} /\ Init
     \/ scene = "attempts" /\ Attempts!Init
     \/ scene = "collection" /\ Collection!Init

SceneNext ==
  /\ UNCHANGED scene
  /\ \/ scene = "clone" /\ Clone!Next
     \/ scene = "analytics" /\ Analytics!Next
     \/ scene = "attempts" /\ Attempts!Next
     \/ scene = "collection" /\ Collection!Next

SceneSpec == SceneInit /\ [][SceneNext]_all

\* The fairness of CaptureJobs, where the scene is the instance's.
InAttempts(A) == scene = "attempts" /\ A /\ UNCHANGED scene
AttemptsFairness ==
  /\ WF_all(InAttempts(Attempts!Lapses(c1)))
  /\ WF_all(InAttempts(Attempts!Works(w1)))
  /\ WF_all(InAttempts(Attempts!ClaimAnalytics(d1, c1)))
  /\ \A step \in DOMAIN Attempts!After : SF_all(InAttempts(Attempts!Writes(d1, step)))
  /\ SF_all(InAttempts(Attempts!CompleteAnalytics(d1)))

InCollection(A) == scene = "collection" /\ A /\ UNCHANGED scene
CollectionFairness ==
  /\ WF_all(InCollection(Collection!Lapses(c1)))
  /\ WF_all(InCollection(Collection!Works(w1)))
  /\ \A o \in Collection!CloneObjects :
       /\ WF_all(InCollection(Collection!ArtifactAges(o)))
       /\ SF_all(InCollection(Collection!ClaimDeletion(k1, o)))
  /\ WF_all(InCollection(Collection!RetryDeletion(k1)))
  /\ SF_all(InCollection(Collection!DeleteObject(k1)))
  /\ SF_all(InCollection(Collection!CompleteDeletion(k1)))

SceneFairSpec ==
  /\ SceneSpec
  /\ \/ scene = "attempts" /\ AttemptsFairness
     \/ scene = "collection" /\ CollectionFairness

\* Loops of one kind are interchangeable.
Alike == Permutations({w1, w2}) \cup Permutations({d1, d2})

-----------------------------------------------------------------------------

\* Every accepted capture ends, whatever crashes or fails, and every staged
\* artifact is deleted from the bucket in the end, published or not.
CapturesEnd ==
  /\ scene = "attempts" => Attempts!EveryCaptureEnds
  /\ scene = "collection" => Collection!ArtifactsAreCollected

=============================================================================
