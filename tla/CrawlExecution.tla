--------------------------- MODULE CrawlExecution ---------------------------
(***************************************************************************)
(* The crawl frontier of the Go crawler: crawl executions, their pages,    *)
(* the page and host leases that let many fetch workers share them, and    *)
(* the analytics outbox a page waits for before it is final.               *)
(*                                                                         *)
(* Code: crawler/internal/postgres/store.go (every transaction is one      *)
(* action: it locks the execution row, or moves counters by relative       *)
(* updates on rows it holds) and the worker of crawl/engine.go (process),  *)
(* whose memory of a lease outlives the lease itself.                      *)
(*                                                                         *)
(* A lease is identified by the page and its lease_generation, which       *)
(* ClaimPage increments together with attempt_count and nothing resets;    *)
(* the lease owner is a fresh UUID per claim, so it names the same claim.  *)
(* Time is two facts: a lease_expires_at that has passed (lapsed) and an   *)
(* accepted_at + max_duration_seconds that has passed (overdue).           *)
(***************************************************************************)
EXTENDS PageTable, Integers

CONSTANTS
  Hosts,            \* host names
  SeedOf,           \* the target URL's page of an execution
  HostOf,           \* target_hostname of an execution (all its pages share it)
  MaxPages,         \* max_pages of the scan's limits
  MaxDepth,         \* max_depth
  MaxAttempts,      \* claims a page may get (3 in the code)
  HostConcurrency,  \* host_leases slots per host name
  NoLease           \* lease_owner IS NULL

ASSUME ExecutionsAssumption == IsFiniteSet(Executions) /\ IsFiniteSet(Pages)
ASSUME PagesAssumption ==
  /\ ExecOf \in [Pages -> Executions]
  /\ SeedOf \in [Executions -> Pages]
  /\ \A e \in Executions : ExecOf[SeedOf[e]] = e
  /\ HostOf \in [Executions -> Hosts]
ASSUME LimitsAssumption ==
  /\ MaxPages \in Nat \ {0} /\ MaxDepth \in Nat /\ MaxConcurrency \in Nat \ {0}
  /\ MaxAttempts \in Nat \ {0} /\ HostConcurrency \in Nat \ {0}

VARIABLES
  status,    \* crawl_executions.status ("NONE": no row yet)
  count,     \* the counter columns of crawl_executions
  attempts,  \* scan_pages.attempt_count (= lease_generation)
  depth,     \* scan_pages.discovery_depth
  pending,   \* scan_pages.pending_terminal_status
  slot,      \* host_leases.lease_owner of every slot
  lapsed,    \* the leases whose lease_expires_at has passed
  overdue,   \* the executions whose deadline has passed
  outbox,    \* analytics_outbox.status of a page's result
  fetching   \* fetch workers in memory: the lease and the slot they hold

vars == <<status, count, page, attempts, depth, pending, slot, lapsed, overdue,
          outbox, fetching>>

-----------------------------------------------------------------------------
TerminalStatus == {"COMPLETED", "PARTIAL_SUCCESS", "FAILED", "CANCELLED"}
ActiveStatus == {"QUEUED", "RUNNING", "CANCEL_REQUESTED"}
OpenPage == {"QUEUED", "LEASED", "PERSISTING"}
FinalPage == {"SUCCEEDED", "FAILED", "SKIPPED", "CANCELLED"}

Slots == Hosts \X (1 .. HostConcurrency)
Leases == [page : Pages, gen : 1 .. MaxAttempts]
Fetches == [lease : Leases, slot : Slots]

ASSUME NoLeaseAssumption == NoLease \notin Leases

Terminal(e) == status[e] \in TerminalStatus
PagesOf(e) == {p \in Pages : ExecOf[p] = e}
SlotsOf(p) == {s \in Slots : s[1] = HostOf[ExecOf[p]]}

\* The lease a LEASED page carries in its lease columns.
LeaseOf(p) == [page |-> p, gen |-> attempts[p]]

\* The leases that some row still carries: a lease_expires_at is cleared with
\* its lease_owner, so only these can be, or stay, lapsed.
Held(pg, at, sl) ==
  {l \in Leases : (pg[l.page] = "LEASED" /\ at[l.page] = l.gen)
                  \/ \E s \in Slots : sl[s] = l}

\* The counter columns of crawl_executions; Add is "column = column + n".
Columns == {"discovered", "queued", "leased", "persisting", "succeeded", "failed",
            "skipped", "cancelled", "expected", "published"}
ZeroCount == [k \in Columns |-> 0]
Add(c, k, n) == [c EXCEPT ![k] = @ + n]

\* For mutation only: results still on their way to analytics are ignored.
DrainedTooSoon(c) == c.queued = 0 /\ c.leased = 0

\* No page of the execution is open and every result reached the analytics store.
Drained(c) ==
  /\ c.queued = 0 /\ c.leased = 0 /\ c.persisting = 0
  /\ c.published = c.expected

\* For mutation only: a cancellation is forgotten.
FinalStatusForgets(st, c) ==
  IF c.succeeded > 0 /\ c.failed + c.skipped + c.cancelled = 0 THEN "COMPLETED"
  ELSE IF c.succeeded > 0 THEN "PARTIAL_SUCCESS"
  ELSE "FAILED"

\* The CASE both terminalising statements evaluate.
FinalStatus(st, c) ==
  IF st = "CANCEL_REQUESTED" THEN "CANCELLED"
  ELSE IF c.succeeded > 0 /\ c.failed + c.skipped + c.cancelled = 0 THEN "COMPLETED"
  ELSE IF c.succeeded > 0 THEN "PARTIAL_SUCCESS"
  ELSE "FAILED"

-----------------------------------------------------------------------------
Init ==
  /\ status = [e \in Executions |-> "NONE"]
  /\ count = [e \in Executions |-> ZeroCount]
  /\ page = [p \in Pages |-> "ABSENT"]
  /\ attempts = [p \in Pages |-> 0]
  /\ depth = [p \in Pages |-> 0]
  /\ pending = [p \in Pages |-> "NULL"]
  /\ slot = [s \in Slots |-> NoLease]
  /\ lapsed = {}
  /\ overdue = {}
  /\ outbox = [p \in Pages |-> "NONE"]
  /\ fetching = {}

-----------------------------------------------------------------------------
(* Commands from the Control Plane.                                        *)

\* The first delivery of SCAN_REQUESTED; a redelivery finds its inbox row and
\* changes nothing.
AcceptCommand(e) ==
  /\ status[e] = "NONE"
  /\ status' = [status EXCEPT ![e] = "QUEUED"]
  /\ count' = [count EXCEPT ![e] = Add(Add(@, "discovered", 1), "queued", 1)]
  /\ page' = [page EXCEPT ![SeedOf[e]] = "QUEUED"]
  /\ UNCHANGED <<attempts, depth, pending, slot, lapsed, overdue, outbox, fetching>>

\* Neither terminal nor cancelled already.
Cancellable(e) == status[e] \in {"QUEUED", "RUNNING"}

\* SCAN_CANCEL_REQUESTED applied: queued and leased pages are cancelled and
\* their host slots released. Delivered before the request it is refused, and
\* on a cancelled or terminal execution it is recorded as stale.
AcceptCancellation(e) ==
  LET queued == At(page, e, "QUEUED")
      leased == At(page, e, "LEASED")
  IN
  /\ Cancellable(e)
  /\ page' = [p \in Pages |-> IF p \in queued \cup leased THEN "CANCELLED" ELSE page[p]]
  /\ slot' = [s \in Slots |-> IF \E p \in leased : slot[s] = LeaseOf(p) /\ s \in SlotsOf(p)
                              THEN NoLease ELSE slot[s]]
  /\ status' = [status EXCEPT ![e] =
                  IF count[e].persisting = 0 /\ count[e].published = count[e].expected
                  THEN "CANCELLED" ELSE "CANCEL_REQUESTED"]
  /\ count' = [count EXCEPT ![e] =
                 Add(Add(Add(@, "queued", -Cardinality(queued)), "leased", -Cardinality(leased)),
                     "cancelled", Cardinality(queued) + Cardinality(leased))]
  /\ lapsed' = lapsed \cap Held(page', attempts, slot')
  /\ UNCHANGED <<attempts, depth, pending, overdue, outbox, fetching>>

-----------------------------------------------------------------------------
(* Fetch workers.                                                          *)

\* For mutation only: one page too many; no page for an execution that runs
\* already; a slot is taken from a live lease.
ClaimableOneMore(e) ==
  status[e] \in {"QUEUED", "RUNNING"} /\ count[e].leased <= MaxConcurrency /\ e \notin overdue
ClaimableWhenNew(e) ==
  status[e] = "QUEUED" /\ count[e].leased < MaxConcurrency /\ e \notin overdue
AvailableAlways(s) == s \in Slots

\* An execution that may get another page, and a slot it may take.
Claimable(e) ==
  status[e] \in {"QUEUED", "RUNNING"} /\ count[e].leased < MaxConcurrency /\ e \notin overdue
Available(s) == slot[s] = NoLease \/ slot[s] \in lapsed

\* ClaimPage: an execution with room, a free or lapsed slot of its host and one
\* of its queued pages. The order of the candidates depends on update times
\* and on which rows other claims hold locked, so any eligible one may win.
ClaimPage(p, s) ==
  LET e == ExecOf[p]
      lease == [page |-> p, gen |-> attempts[p] + 1]
  IN
  /\ Claimable(e) /\ page[p] = "QUEUED"
  /\ s \in SlotsOf(p) /\ Available(s)
  /\ slot' = [slot EXCEPT ![s] = lease]
  /\ page' = [page EXCEPT ![p] = "LEASED"]
  /\ attempts' = [attempts EXCEPT ![p] = @ + 1]
  /\ status' = [status EXCEPT ![e] = "RUNNING"]
  /\ count' = [count EXCEPT ![e] = Add(Add(@, "queued", -1), "leased", 1)]
  /\ fetching' = fetching \cup {[lease |-> lease, slot |-> s]}
  /\ lapsed' = lapsed \cap Held(page', attempts', slot')
  /\ UNCHANGED <<depth, pending, overdue, outbox>>

\* For mutation only: the generation alone is checked; the host slot is not.
LeaseCurrentByGeneration(w) == LeaseOf(w.lease.page) = w.lease

\* The page row and the host slot still carry the worker's lease: what every
\* statement of a worker checks before it commits.
LeaseCurrent(w) ==
  LET p == w.lease.page IN
  /\ page[p] = "LEASED" /\ LeaseOf(p) = w.lease
  /\ slot[w.slot] = w.lease

\* For mutation only: the heartbeat outlives the deadline.
ExtendPageLeaseForever(w) ==
  /\ w \in fetching /\ LeaseCurrent(w)
  /\ lapsed' = lapsed \ {w.lease}
  /\ UNCHANGED <<status, count, page, attempts, depth, pending, slot, overdue,
                 outbox, fetching>>

\* The heartbeat; it stops when the execution's deadline cancels the context.
\* It checks the owner, not the expiry: a lapsed lease nobody took comes back.
ExtendPageLease(w) ==
  /\ w \in fetching
  /\ ExecOf[w.lease.page] \notin overdue
  /\ LeaseCurrent(w)
  /\ lapsed' = lapsed \ {w.lease}
  /\ UNCHANGED <<status, count, page, attempts, depth, pending, slot, overdue,
                 outbox, fetching>>

\* A transient failure with attempts left puts the page back in the queue.
CommitRetry(w) ==
  LET p == w.lease.page
      e == ExecOf[p]
  IN
  /\ w \in fetching /\ LeaseCurrent(w)
  /\ attempts[p] < MaxAttempts
  /\ page' = [page EXCEPT ![p] = "QUEUED"]
  /\ slot' = [slot EXCEPT ![w.slot] = NoLease]
  /\ count' = [count EXCEPT ![e] = Add(Add(@, "leased", -1), "queued", 1)]
  /\ fetching' = fetching \ {w}
  /\ lapsed' = lapsed \cap Held(page', attempts, slot')
  /\ UNCHANGED <<status, attempts, depth, pending, overdue, outbox>>

\* The sets of pages insertDiscoveredPages may insert for links found on p: new
\* URLs of the same execution, one level deeper, while max_pages allows. Pages
\* skipped by policy have no links.
Discoverable(p, result) ==
  LET e == ExecOf[p] IN
  {new \in SUBSET At(page, e, "ABSENT") :
     /\ new # {} => result # "SKIPPED" /\ depth[p] < MaxDepth
     /\ count[e].discovered + Cardinality(new) <= MaxPages}

\* The result is staged: the page waits, PERSISTING, for its analytics row.
CommitPageResult(w, result, new) ==
  LET p == w.lease.page
      e == ExecOf[p]
      found == Cardinality(new)
  IN
  /\ w \in fetching /\ LeaseCurrent(w)
  /\ new \in Discoverable(p, result)
  /\ page' = [q \in Pages |-> IF q = p THEN "PERSISTING"
                              ELSE IF q \in new THEN "QUEUED" ELSE page[q]]
  /\ depth' = [q \in Pages |-> IF q \in new THEN depth[p] + 1 ELSE depth[q]]
  /\ pending' = [pending EXCEPT ![p] = result]
  /\ slot' = [slot EXCEPT ![w.slot] = NoLease]
  /\ outbox' = [outbox EXCEPT ![p] = "PENDING"]
  /\ count' = [count EXCEPT ![e] =
                 Add(Add(Add(Add(Add(@, "discovered", found), "queued", found),
                             "leased", -1), "persisting", 1), "expected", 1)]
  /\ fetching' = fetching \ {w}
  /\ lapsed' = lapsed \cap Held(page', attempts, slot')
  /\ UNCHANGED <<status, attempts, overdue>>

\* The worker ends without changing the database: its lease is stale (the
\* transaction rolls back), the commit fails, or the process crashes.
WorkerGone(w) ==
  /\ w \in fetching
  /\ fetching' = fetching \ {w}
  /\ UNCHANGED <<status, count, page, attempts, depth, pending, slot, lapsed,
                 overdue, outbox>>

-----------------------------------------------------------------------------
(* Time.                                                                   *)

\* lease_expires_at of a lease passes, on the page row and on the slot alike.
LeaseLapses(l) ==
  /\ l \in Held(page, attempts, slot) \ lapsed
  /\ lapsed' = lapsed \cup {l}
  /\ UNCHANGED <<status, count, page, attempts, depth, pending, slot, overdue,
                 outbox, fetching>>

\* accepted_at + max_duration_seconds passes.
DeadlinePasses(e) ==
  /\ status[e] \in {"QUEUED", "RUNNING"} /\ e \notin overdue
  /\ overdue' = overdue \cup {e}
  /\ UNCHANGED <<status, count, page, attempts, depth, pending, slot, lapsed,
                 outbox, fetching>>

-----------------------------------------------------------------------------
(* The analytics outbox. Who holds a claimed row is AnalyticsDelivery's     *)
(* matter; a DEAD row is claimable like a PENDING one, after a longer wait. *)

ClaimAnalytics(rows) ==
  /\ rows # {} /\ \A p \in rows : outbox[p] = "PENDING"
  /\ outbox' = [p \in Pages |-> IF p \in rows THEN "CLAIMED" ELSE outbox[p]]
  /\ UNCHANGED <<status, count, page, attempts, depth, pending, slot, lapsed,
                 overdue, fetching>>

RetryAnalytics(p) ==
  /\ outbox[p] = "CLAIMED"
  /\ outbox' = [outbox EXCEPT ![p] = "PENDING"]
  /\ UNCHANGED <<status, count, page, attempts, depth, pending, slot, lapsed,
                 overdue, fetching>>

\* The counters after a page's result was delivered; a page status counts in the
\* column of the same name.
ColumnOf(result) ==
  IF result = "SUCCEEDED" THEN "succeeded" ELSE IF result = "SKIPPED" THEN "skipped" ELSE "failed"
Published(c, result) ==
  Add(Add(Add(c, "persisting", -1), ColumnOf(result), 1), "published", 1)

\* CompleteAnalytics: the page takes its pending status and, when nothing is
\* left open, the execution ends. The second update has no guard on status.
CompleteAnalytics(p) ==
  LET e == ExecOf[p]
      c == Published(count[e], pending[p])
  IN
  /\ outbox[p] = "CLAIMED" /\ page[p] = "PERSISTING"
  /\ outbox' = [outbox EXCEPT ![p] = "DELIVERED"]
  /\ page' = [page EXCEPT ![p] = pending[p]]
  /\ pending' = [pending EXCEPT ![p] = "NULL"]
  /\ count' = [count EXCEPT ![e] = c]
  /\ status' = [status EXCEPT ![e] = IF Drained(c) THEN FinalStatus(@, c) ELSE @]
  /\ UNCHANGED <<attempts, depth, slot, lapsed, overdue, fetching>>

-----------------------------------------------------------------------------
(* The reclaimer, every five seconds.                                      *)

\* A page whose lease lapsed is failed on its last attempt, requeued otherwise.
ExpireLeases(pg, expired) ==
  [p \in Pages |-> IF p \notin expired THEN pg[p]
                   ELSE IF attempts[p] >= MaxAttempts THEN "FAILED" ELSE "QUEUED"]

\* Every queued page of an execution past its deadline fails.
ExpireQueued(pg, ended) ==
  [p \in Pages |-> IF ExecOf[p] \in ended /\ pg[p] = "QUEUED" THEN "FAILED" ELSE pg[p]]

\* For mutation only: delivered analytics rows are released as well.
ClaimedOrDelivered == {p \in Pages : outbox[p] \in {"CLAIMED", "DELIVERED"}}

\* Rows the three statements select: claimed analytics rows (their leases are not
\* tracked, any may have lapsed), lapsed page leases, executions past their deadline.
Claimed == {p \in Pages : outbox[p] = "CLAIMED"}
LapsedPages == {p \in Pages : page[p] = "LEASED" /\ LeaseOf(p) \in lapsed}
Ended == {e \in overdue : status[e] \in {"QUEUED", "RUNNING"}}

\* For mutation only: the deadline counts the pages queued before the requeue.
TallyBeforeRequeue(e, expired, ended) ==
  LET page1 == ExpireLeases(page, expired)
      taken == Cardinality({p \in expired : ExecOf[p] = e})
      given == Cardinality({p \in expired : ExecOf[p] = e /\ page1[p] = "QUEUED"})
      late == IF e \in ended THEN Cardinality(At(page, e, "QUEUED")) ELSE 0
  IN Add(Add(Add(count[e], "leased", -taken), "queued", given - late),
         "failed", taken - given + late)

\* The counters of e after both: expired pages leave "leased" for "queued" or
\* "failed", and the queued pages of an ended execution are "failed".
Tally(e, expired, ended) ==
  LET page1 == ExpireLeases(page, expired)
      taken == Cardinality({p \in expired : ExecOf[p] = e})
      given == Cardinality({p \in expired : ExecOf[p] = e /\ page1[p] = "QUEUED"})
      late == IF e \in ended THEN Cardinality(At(page1, e, "QUEUED")) ELSE 0
  IN Add(Add(Add(count[e], "leased", -taken), "queued", given - late),
         "failed", taken - given + late)

\* ReclaimExpired in one transaction: lapsed analytics claims, then lapsed page
\* leases, then deadlines (pages just requeued included), then lapsed slots,
\* then executions with nothing left. An execution locked elsewhere is skipped
\* by the page and the deadline statements but not by the slot statement, so
\* the pages (expired) and executions (ended) treated are any subset.
ReclaimExpired(rows, expired, ended) ==
  /\ rows \subseteq Claimed /\ expired \subseteq LapsedPages /\ ended \subseteq Ended
  /\ outbox' = [p \in Pages |-> IF p \in rows THEN "PENDING" ELSE outbox[p]]
  /\ page' = ExpireQueued(ExpireLeases(page, expired), ended)
  /\ count' = [e \in Executions |-> Tally(e, expired, ended)]
  /\ slot' = [s \in Slots |-> IF slot[s] \in lapsed THEN NoLease ELSE slot[s]]
  /\ status' = [e \in Executions |->
                  IF status[e] \in ActiveStatus /\ Drained(Tally(e, expired, ended))
                  THEN FinalStatus(status[e], Tally(e, expired, ended)) ELSE status[e]]
  /\ lapsed' = lapsed \cap Held(page', attempts, slot')
  /\ UNCHANGED <<attempts, depth, pending, overdue, fetching>>

-----------------------------------------------------------------------------
Queued == {p \in Pages : outbox[p] = "PENDING"}

Command == \E e \in Executions : AcceptCommand(e) \/ AcceptCancellation(e)
Fetch ==
  \/ \E p \in Pages, s \in Slots : ClaimPage(p, s)
  \/ \E w \in fetching : ExtendPageLease(w) \/ CommitRetry(w) \/ WorkerGone(w)
  \/ \E w \in fetching, result \in {"SUCCEEDED", "FAILED", "SKIPPED"}, new \in SUBSET Pages :
       CommitPageResult(w, result, new)
Time ==
  \/ \E l \in Held(page, attempts, slot) : LeaseLapses(l)
  \/ \E e \in Executions : DeadlinePasses(e)
Analytics ==
  \/ \E rows \in SUBSET Queued : ClaimAnalytics(rows)
  \/ \E p \in Pages : RetryAnalytics(p) \/ CompleteAnalytics(p)
Reclaimer ==
  \E rows \in SUBSET Claimed, expired \in SUBSET LapsedPages, ended \in SUBSET Ended :
    ReclaimExpired(rows, expired, ended)

Next == Command \/ Fetch \/ Time \/ Analytics \/ Reclaimer

Spec == Init /\ [][Next]_vars

-----------------------------------------------------------------------------
(* Fairness. Nothing is assumed of claims, heartbeats and commits: a paused *)
(* dispatcher or a worker that never returns must not keep a scan open.     *)

\* Leases lapse; the reclaimer runs every five seconds and finds each row
\* unlocked sooner or later; an undelivered analytics row is claimed again and
\* again, and the analytics store accepts it at last.
Recovery ==
  /\ \A l \in Leases : WF_vars(LeaseLapses(l))
  /\ WF_vars(\E rows \in SUBSET Claimed : ReclaimExpired(rows, LapsedPages, Ended))
  /\ \A p \in Pages : WF_vars(\E rows \in SUBSET Queued : p \in rows /\ ClaimAnalytics(rows))
  /\ \A p \in Pages : SF_vars(CompleteAnalytics(p))

\* The deadline passes too.
Fairness == Recovery /\ \A e \in Executions : WF_vars(DeadlinePasses(e))

FairSpec == Spec /\ Fairness

\* Workers at work: the dispatcher polls for ever and claims a page if there is one
\* to claim, and a fetch, which has a time limit, comes to an end: with a result, to
\* be tried again, or with nothing.
Dispatch == \E p \in Pages, s \in Slots : ClaimPage(p, s)
FetchEnds ==
  \E w \in fetching :
    \/ CommitRetry(w) \/ WorkerGone(w)
    \/ \E result \in {"SUCCEEDED", "FAILED", "SKIPPED"}, new \in SUBSET Pages :
         CommitPageResult(w, result, new)

-----------------------------------------------------------------------------
(* Properties.                                                             *)

\* The columns keep their types and the CHECK constraints on attempt_count and
\* discovery_depth hold, so no transaction is refused by them.
TypeOK ==
  /\ status \in [Executions -> {"NONE"} \cup ActiveStatus \cup TerminalStatus]
  /\ count \in [Executions -> [Columns -> Int]]
  /\ page \in [Pages -> {"ABSENT"} \cup OpenPage \cup FinalPage]
  /\ attempts \in [Pages -> 0 .. MaxAttempts]
  /\ depth \in [Pages -> 0 .. MaxDepth]
  /\ pending \in [Pages -> {"NULL", "SUCCEEDED", "FAILED", "SKIPPED"}]
  /\ slot \in [Slots -> Leases \cup {NoLease}]
  /\ lapsed \subseteq Leases
  /\ overdue \subseteq Executions
  /\ outbox \in [Pages -> {"NONE", "PENDING", "CLAIMED", "DELIVERED"}]
  /\ fetching \subseteq Fetches

\* The counter columns, moved by relative updates in eight different
\* transactions, always agree with the page table.
CountersExact ==
  \A e \in Executions :
    /\ count[e].queued = Cardinality(At(page, e, "QUEUED"))
    /\ count[e].leased = Cardinality(At(page, e, "LEASED"))
    /\ count[e].persisting = Cardinality(At(page, e, "PERSISTING"))
    /\ count[e].succeeded = Cardinality(At(page, e, "SUCCEEDED"))
    /\ count[e].failed = Cardinality(At(page, e, "FAILED"))
    /\ count[e].skipped = Cardinality(At(page, e, "SKIPPED"))
    /\ count[e].cancelled = Cardinality(At(page, e, "CANCELLED"))

\* ck_crawl_execution_counts: the counters add up to discovered_count, which
\* never passes max_pages, and every staged but undelivered result is counted
\* as persisting, so that "published = expected" means nothing is in flight.
CountsBalanced ==
  \A e \in Executions :
    LET c == count[e] IN
    /\ c.discovered = c.queued + c.leased + c.persisting + c.succeeded + c.failed
                       + c.skipped + c.cancelled
    /\ c.discovered <= MaxPages
    /\ c.expected = c.published + c.persisting

\* The counters agree with the page table and with each other.
CountersAgree == CountersExact /\ CountsBalanced

\* An execution ends only when no page of it is queued, leased or waiting for
\* analytics, whichever of CompleteAnalytics, ReclaimExpired and
\* AcceptCancellation ends it; a cancelled one keeps only results in flight.
Quiescence ==
  \A e \in Executions : \A p \in PagesOf(e) :
    /\ Terminal(e) => page[p] \in FinalPage \cup {"ABSENT"}
    /\ status[e] = "CANCEL_REQUESTED" => page[p] \notin {"QUEUED", "LEASED"}

\* An active execution always has work left that somebody will finish: no
\* execution is stranded with every page final.
NotStranded ==
  \A e \in Executions :
    status[e] \in ActiveStatus => \E p \in PagesOf(e) : page[p] \in OpenPage

\* An execution ends when its pages have, neither before nor never.
EndsWhenDone == Quiescence /\ NotStranded

\* A page waits for analytics exactly while its outbox row is undelivered.
OutboxMatchesPages ==
  \A p \in Pages :
    /\ page[p] = "PERSISTING" <=> outbox[p] \in {"PENDING", "CLAIMED"}
    /\ page[p] = "PERSISTING" <=> pending[p] # "NULL"

\* Politeness: every page being fetched under a live lease holds a slot of its
\* own host, so at most HostConcurrency pages of a host are fetched at once;
\* and a slot is only ever held for a page that is being fetched.
SlotsMatchLeases ==
  /\ \A p \in Pages : page[p] = "LEASED" /\ LeaseOf(p) \notin lapsed
                        => \E s \in SlotsOf(p) : slot[s] = LeaseOf(p)
  /\ \A s \in Slots : slot[s] # NoLease
                        => LET p == slot[s].page IN
                           /\ page[p] = "LEASED" /\ LeaseOf(p) = slot[s]
                           /\ s \in SlotsOf(p)
  /\ \A s, t \in Slots : slot[s] = slot[t] /\ slot[s] # NoLease => s = t

\* A terminal execution never changes again: neither its status nor a counter,
\* although a worker, a batch or a cancellation may still arrive for it.
TerminalIsFinal ==
  [][\A e \in Executions : Terminal(e) => status'[e] = status[e] /\ count'[e] = count[e]]_vars

\* A page is finished once: a final page keeps its status, and a staged page
\* can only take the status its result gave it.
PagesFinishOnce ==
  [][\A p \in Pages :
       /\ page[p] \in FinalPage => page'[p] = page[p]
       /\ page[p] = "PERSISTING" => page'[p] \in {"PERSISTING", pending[p]}]_vars

\* A cancellation the crawler applied is never lost: the execution ends
\* CANCELLED, not in a status computed from the pages it had finished.
CancellationSticks ==
  [][\A e \in Executions : status[e] = "CANCEL_REQUESTED"
       => status'[e] \in {"CANCEL_REQUESTED", "CANCELLED"}]_vars

\* What an execution came to stays: its end, and that it was cancelled.
OutcomesStay == TerminalIsFinal /\ CancellationSticks

\* For mutation only: pages waiting for analytics are not reported as open.
ProgressSnapshotShort(e) ==
  LET c == count[e] IN
  [status |-> status[e], discovered |-> c.discovered,
   open |-> c.queued + c.leased, succeeded |-> c.succeeded,
   failed |-> c.failed + c.skipped + c.cancelled,
   expected |-> c.expected, published |-> c.published]

\* What a progress event of execution e says (insertProgressEvent).
ProgressSnapshot(e) ==
  LET c == count[e] IN
  [status |-> status[e], discovered |-> c.discovered,
   open |-> c.queued + c.leased + c.persisting, succeeded |-> c.succeeded,
   failed |-> c.failed + c.skipped + c.cancelled,
   expected |-> c.expected, published |-> c.published]

\* publicStatus computes the status of a terminal event anew from its counters.
PublicStatus(x) ==
  IF x.status \notin TerminalStatus \/ x.status = "CANCELLED" THEN x.status
  ELSE IF x.succeeded > 0 /\ x.failed = 0 THEN "COMPLETED"
  ELSE IF x.succeeded > 0 THEN "PARTIAL_SUCCESS" ELSE "FAILED"

\* The frontier implements the abstract life of an execution.
Lifecycle == INSTANCE ExecutionLifecycle
               WITH exec <- [e \in Executions |-> ProgressSnapshot(e)]

\* The status an event publishes is the one the execution row holds, although
\* the two are computed by different code at different times.
PublicStatusAgrees ==
  \A e \in Executions : PublicStatus(ProgressSnapshot(e)) = status[e]

\* Every step of leases, retries, deadlines, analytics and cancellation is, seen
\* through the progress events, a step ExecutionLifecycle allows, and the status
\* the events publish is the row's.
RefinesLifecycle == Lifecycle!Spec /\ []PublicStatusAgrees

\* Every accepted execution ends, whatever workers do, and whether or not pages
\* are ever claimed.
EventuallyTerminal ==
  \A e \in Executions : status[e] # "NONE" ~> Terminal(e)

\* No host slot leaks: a slot whose worker died is free again.
SlotsComeBack == \A s \in Slots : []<>(slot[s] = NoLease)

=============================================================================
