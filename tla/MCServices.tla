----------------------------- MODULE MCServices -----------------------------
(***************************************************************************)
(* The crawler and the messages between the services, for TLC: a crawl,    *)
(* its analytics rows on their way to ClickHouse, and a scan, a capture    *)
(* and a site clone between the Control Plane and their workers. The five  *)
(* models share no state, so a behaviour is one of a single part, the      *)
(* others resting in their initial states.                                 *)
(***************************************************************************)
EXTENDS AnalyticsDelivery, PageTable, Messages, TLC

CONSTANTS
  r1, r2, bad, w1, w2,      \* rows of the analytics outbox, delivery workers
  e1, h1, p1, p2, p3,       \* an execution, its host, its pages
  NoLease, CrawlAttempts,
  s1, c1                    \* a scan, a capture

VARIABLES
  part,   \* what this behaviour is of
  crawlStatus, count, attempts, depth, pending, slot, crawlLapsed, overdue, outbox, fetching

\* One execution, scan, capture and site clone: every outbox, inbox and projection
\* is kept for each of them alone. crawl_shared_host has two executions.
CrawlExecOf == [p \in Pages |-> e1]
Crawl == INSTANCE CrawlExecution WITH
  Hosts <- {h1}, SeedOf <- (e1 :> p1), HostOf <- (e1 :> h1), MaxPages <- Cardinality(Pages),
  MaxDepth <- 1, MaxAttempts <- CrawlAttempts, HostConcurrency <- 2,
  status <- crawlStatus, lapsed <- crawlLapsed

crawlVars == <<crawlStatus, count, page, attempts, depth, pending, slot, crawlLapsed, overdue,
               outbox, fetching>>
all == <<part, deliveryVars, crawlVars, messageVars>>

\* Readable rows are interchangeable, and so are the delivery workers.
Alike == Permutations(Rows \ Unreadable) \cup Permutations(Workers)

-----------------------------------------------------------------------------

AllInit ==
  /\ part \in {"analytics", "crawl", "work", "scan", "capture", "site"}
  /\ DeliveryInit /\ Crawl!Init /\ MessagesInit

AllNext ==
  /\ UNCHANGED part
  /\ \/ part = "analytics" /\ DeliveryNext /\ UNCHANGED <<crawlVars, messageVars>>
     \/ part = "crawl" /\ Crawl!Next /\ UNCHANGED <<deliveryVars, messageVars>>
     \/ part = "work" /\ Crawl!Next /\ UNCHANGED <<deliveryVars, messageVars, overdue>>
     \/ part = "scan" /\ Next /\ UNCHANGED <<deliveryVars, crawlVars, captureVars, siteVars>>
     \/ part = "capture" /\ Capture!MsgNext /\ UNCHANGED <<deliveryVars, crawlVars, vars, siteVars>>
     \/ part = "site" /\ Site!MsgNext /\ UNCHANGED <<deliveryVars, crawlVars, vars, captureVars>>

AllSpec == AllInit /\ [][AllNext]_all

\* A crawl of which the deadline passes at last (Crawl!Fairness), and one that has
\* workers instead.
CrawlFairness ==
  /\ Crawl!Recovery
  /\ \A e \in Executions : WF_crawlVars(part = "crawl" /\ Crawl!DeadlinePasses(e))
  /\ WF_crawlVars(part = "work" /\ Crawl!Dispatch)
  /\ WF_crawlVars(part = "work" /\ Crawl!FetchEnds)

\* Each part is as fair as its own specification says.
AllFairSpec ==
  /\ AllSpec
  /\ \/ part = "analytics" /\ DeliveryFairness
     \/ part \in {"crawl", "work"} /\ CrawlFairness
     \/ part = "scan" /\ Fairness
     \/ part = "capture" /\ Capture!MsgFairness
     \/ part = "site" /\ Site!MsgFairness

-----------------------------------------------------------------------------
(* Properties of the parts. *)

\* Every execution ends, whatever its workers do (reclaimer and deadline), and
\* every host slot becomes free again and again, also after a worker died.
CrawlsEnd == part = "crawl" => Crawl!EventuallyTerminal /\ Crawl!SlotsComeBack

\* An execution does not depend on its deadline to end: while workers are there to
\* claim pages, nothing that a crash, a lapsed lease, a retry or a slot taken over
\* leaves behind keeps its last pages from being claimed and finished (ClaimPage,
\* ReclaimExpired).
CrawlsFinish == part = "work" => Crawl!EventuallyTerminal

\* Every scan and capture ends in the Control Plane as it ended at its worker, and
\* so does every clone that is dispatched, unless the reconciliation of its
\* deadline interrupts it for ever. Every command and event is acknowledged.
ProjectionsEnd == ScansEnd /\ Capture!CapturesEnd /\ Site!ClonesEnd

=============================================================================
