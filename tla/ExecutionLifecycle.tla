------------------------- MODULE ExecutionLifecycle -------------------------
(***************************************************************************)
(* What the crawler promises about an execution, without pages, leases or  *)
(* outboxes: the record its progress events are taken from.                *)
(* CrawlExecution implements it; ScanMessaging relies on it alone.         *)
(***************************************************************************)
EXTENDS ExecutionRecord

CONSTANT Executions

VARIABLE exec   \* the progress snapshot of every execution

Init == exec = [e \in Executions |-> NotStarted]

\* One transaction of the crawler may advance several executions.
Next ==
  /\ exec' \in [Executions -> Snapshot]
  /\ \A e \in Executions : exec'[e] = exec[e] \/ Advances(exec[e], exec'[e])

Spec == Init /\ [][Next]_exec

=============================================================================
