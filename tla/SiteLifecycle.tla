--------------------------- MODULE SiteLifecycle ---------------------------
(***************************************************************************)
(* What the capture worker promises about the status of a site clone job,  *)
(* whoever works on it: the moves of site_reconstruction_jobs.status.      *)
(*                                                                         *)
(* Code: capture-worker/src/site-database.ts.                              *)
(***************************************************************************)
VARIABLE status

Ended == {"PUBLISHED", "PARTIAL", "FAILED", "CANCELLED", "EXPIRED"}
Active == {"INGESTING", "RUNNING", "ASSEMBLING"}

\* The moves of the four kinds of transaction that change the status: accepting
\* a command, the phases, failures, and the reconciliation of cancellations,
\* which leads back to RUNNING where pages succeeded. Reconciling an overdue
\* job is one transaction, so the CANCEL_REQUESTED in its middle is skipped.
Moves ==
  {<<"NONE", "INGESTING">>, <<"INGESTING", "RUNNING">>, <<"RUNNING", "ASSEMBLING">>}
  \cup {<<"ASSEMBLING", s>> : s \in {"PUBLISHED", "PARTIAL", "RUNNING"}}
  \cup (Active \X {"FAILED", "CANCEL_REQUESTED"})
  \cup {<<"CANCEL_REQUESTED", s>> : s \in {"RUNNING", "FAILED", "CANCELLED"}}
  \cup ({"PUBLISHED", "PARTIAL"} \X {"EXPIRED"})

Init == status = "NONE"
Next == <<status, status'>> \in Moves
Spec == Init /\ [][Next]_status

=============================================================================
