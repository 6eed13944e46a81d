--------------------------- MODULE ExecutionRecord ---------------------------
(***************************************************************************)
(* What the progress events of an execution say, and how one snapshot may  *)
(* follow another: the constant part of ExecutionLifecycle, shared with    *)
(* ScanMessaging.                                                          *)
(***************************************************************************)
EXTENDS Naturals

CONSTANT MaxPages

Finals == {"COMPLETED", "PARTIAL_SUCCESS", "FAILED", "CANCELLED"}
Actives == {"QUEUED", "RUNNING", "CANCEL_REQUESTED"}

\* What insertProgressEvent reads: the status, the pages found, those still open
\* (queued, leased or persisting), those that succeeded, those that did not,
\* and the analytics results staged and delivered.
Snapshot ==
  [status : {"NONE"} \cup Actives \cup Finals, discovered : 0 .. MaxPages,
   open : 0 .. MaxPages, succeeded : 0 .. MaxPages, failed : 0 .. MaxPages,
   expected : 0 .. MaxPages, published : 0 .. MaxPages]

NotStarted == [status |-> "NONE", discovered |-> 0, open |-> 0, succeeded |-> 0,
               failed |-> 0, expected |-> 0, published |-> 0]
Accepted == [status |-> "QUEUED", discovered |-> 1, open |-> 1, succeeded |-> 0,
             failed |-> 0, expected |-> 0, published |-> 0]

\* The counters of a snapshot fit together.
Balanced(x) ==
  /\ x.discovered = x.open + x.succeeded + x.failed
  /\ x.discovered <= MaxPages
  /\ x.published <= x.expected /\ x.expected <= x.published + x.open
  /\ x.succeeded <= x.published /\ x.published <= x.succeeded + x.failed

\* The terminal status the counters of a drained execution call for.
EndStatus(x) ==
  IF x.succeeded > 0 /\ x.failed = 0 THEN "COMPLETED"
  ELSE IF x.succeeded > 0 THEN "PARTIAL_SUCCESS" ELSE "FAILED"

\* Nothing already reported is taken back.
Forward(x, y) ==
  /\ y.discovered >= x.discovered /\ y.succeeded >= x.succeeded /\ y.failed >= x.failed
  /\ y.expected >= x.expected /\ y.published >= x.published

WorkingStatus(x) == IF x.status = "CANCEL_REQUESTED" THEN x.status ELSE "RUNNING"

\* The execution works on: it is running, or draining after a cancellation.
Works(x, y) ==
  /\ x.status \in Actives
  /\ y.status = WorkingStatus(x)
  /\ y.open > 0
  /\ x.status = "CANCEL_REQUESTED" => y.discovered = x.discovered /\ y.expected = x.expected

\* The last open page is gone and every result is published.
Ends(x, y) ==
  /\ x.status \in Actives
  /\ y.open = 0 /\ y.published = y.expected
  /\ y.status = IF x.status = "CANCEL_REQUESTED" THEN "CANCELLED" ELSE EndStatus(y)

\* A cancellation drops everything but the results waiting for analytics.
Cancelled(x) ==
  LET left == x.expected - x.published IN
  [status |-> IF left = 0 THEN "CANCELLED" ELSE "CANCEL_REQUESTED",
   discovered |-> x.discovered, open |-> left, succeeded |-> x.succeeded,
   failed |-> x.failed + x.open - left, expected |-> x.expected, published |-> x.published]

Cancels(x, y) == x.status \in {"QUEUED", "RUNNING"} /\ y = Cancelled(x)

\* One step of one execution.
Advances(x, y) ==
  \/ x = NotStarted /\ y = Accepted
  \/ Balanced(y) /\ Forward(x, y) /\ (Works(x, y) \/ Ends(x, y) \/ Cancels(x, y))

\* The snapshots with status st that can follow x.
Ahead(x, st) ==
  {y \in {[status |-> st, discovered |-> o + s + f, open |-> o, succeeded |-> s,
           failed |-> f, expected |-> e, published |-> p] :
             o \in 0 .. MaxPages, s \in x.succeeded .. MaxPages, f \in x.failed .. MaxPages,
             e \in x.expected .. MaxPages, p \in x.published .. MaxPages} :
     Balanced(y) /\ Forward(x, y)}

=============================================================================
