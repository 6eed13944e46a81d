-------------------------- MODULE CaptureLifecycle --------------------------
(***************************************************************************)
(* What the capture worker promises about a capture: its status and the    *)
(* progress events it has put into its event outbox, without leases,       *)
(* objects or analytics. CaptureJobs implements it; CaptureMessaging, which *)
(* carries the events to the Control Plane, relies on it alone.            *)
(***************************************************************************)
EXTENDS Naturals, Sequences, FiniteSets

CONSTANTS
  Captures,      \* capture requests
  MaxAttempts    \* claims of one job (3 in the code)

VARIABLES
  status,   \* capture_jobs.status, NONE before the command is accepted
  sent      \* statuses of the job's events; event_version is the position

Statuses == {"NONE", "QUEUED", "RENDERING", "PERSISTING", "COMPLETED", "FAILED"}
EventStatuses == {"RUNNING", "INDEXING", "COMPLETED", "FAILED"}
Terminal == {"COMPLETED", "FAILED"}

\* Attempts made so far: every claim announces itself with a RUNNING event.
Claims(s) == Cardinality({i \in DOMAIN s : s[i] = "RUNNING"})

Init ==
  /\ status = [c \in Captures |-> "NONE"]
  /\ sent = [c \in Captures |-> << >>]

\* What one transaction may do to a capture: from status and events (s, q)
\* to (t, r).
Advances(s, q, t, r) ==
  \/ s = "NONE" /\ t = "QUEUED" /\ r = q
  \/ s = "RENDERING" /\ t = "QUEUED" /\ r = q /\ Claims(q) < MaxAttempts
  \/ /\ s \in {"QUEUED", "RENDERING"} /\ t = "RENDERING"
     /\ r = Append(q, "RUNNING") /\ Claims(q) < MaxAttempts
  \/ s = "RENDERING" /\ t = "FAILED" /\ r = Append(q, "FAILED") /\ Claims(q) = MaxAttempts
  \/ s = "RENDERING" /\ t = "PERSISTING" /\ r = Append(q, "INDEXING")
  \/ s = "PERSISTING" /\ t = "COMPLETED" /\ r = Append(q, "COMPLETED")

\* claimJob may advance several captures in one transaction.
Next ==
  /\ <<status, sent>>' # <<status, sent>>
  /\ \A c \in Captures :
       \/ status'[c] = status[c] /\ sent'[c] = sent[c]
       \/ Advances(status[c], sent[c], status'[c], sent'[c])

Spec == Init /\ [][Next]_<<status, sent>>

=============================================================================
