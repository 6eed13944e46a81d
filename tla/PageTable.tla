----------------------------- MODULE PageTable -----------------------------
(* Which pages of an execution have which status: what scan_pages says of    *)
(* the executions of the crawler, and the limit on the pages under lease.    *)
EXTENDS FiniteSets, Naturals

CONSTANTS
  Executions,       \* crawl_executions rows that scans may create
  Pages,            \* scan_pages rows that may be created, one per URL
  ExecOf,           \* the execution a page belongs to
  MaxConcurrency    \* max_concurrency of the scan's limits

VARIABLE page       \* scan_pages.status ("ABSENT": no row yet)

\* The pages of e that have status st in the page table pg.
At(pg, e, st) == {p \in Pages : ExecOf[p] = e /\ pg[p] = st}

\* claimPage never leases more pages of an execution at once than
\* max_concurrency, also when leases lapse and are taken over.
ConcurrencyBounded ==
  \A e \in Executions : Cardinality(At(page, e, "LEASED")) <= MaxConcurrency

=============================================================================
