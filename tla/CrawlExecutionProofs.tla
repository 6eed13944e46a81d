------------------------ MODULE CrawlExecutionProofs ------------------------
(***************************************************************************)
(* Proofs about CrawlExecution for every set of executions, pages and      *)
(* hosts and all limits.                                                   *)
(***************************************************************************)
EXTENDS CrawlExecution, FiniteSetTheorems, TLAPS

\* The part of the page table type correctness rests on: attempts left, rows
\* exist only for accepted executions, and the outbox mirrors PERSISTING.
PageRows ==
  \A p \in Pages :
    /\ page[p] \in {"ABSENT", "QUEUED"} => attempts[p] < MaxAttempts
    /\ page[p] = "LEASED" => attempts[p] >= 1
    /\ status[ExecOf[p]] = "NONE" => page[p] = "ABSENT"

TypeInv == TypeOK /\ PageRows /\ OutboxMatchesPages

Tables == [Columns -> Int]

-----------------------------------------------------------------------------
\* A relative update of one counter column changes that column only (the SQL
\* "column = column + n" of every transaction).
LEMMA AddColumn ==
  ASSUME NEW c \in Tables, NEW k \in Columns, NEW n \in Int
  PROVE  /\ Add(c, k, n) \in Tables
         /\ Add(c, k, n)[k] = c[k] + n
         /\ \A j \in Columns \ {k} : Add(c, k, n)[j] = c[j]
BY DEF Tables, Add

\* Every counter the transactions name is a column, and a negated number an integer.
LEMMA ColumnNames ==
  /\ "discovered" \in Columns /\ "queued" \in Columns /\ "leased" \in Columns
  /\ "persisting" \in Columns /\ "succeeded" \in Columns /\ "failed" \in Columns
  /\ "skipped" \in Columns /\ "cancelled" \in Columns /\ "expected" \in Columns
  /\ "published" \in Columns
BY DEF Columns

\* Two columns moved in one statement.
LEMMA AddTwo ==
  ASSUME NEW c \in Tables, NEW j \in Columns, NEW k \in Columns \ {j}, NEW m \in Int, NEW n \in Int
  PROVE  LET d == Add(Add(c, j, m), k, n) IN
         /\ d \in Tables /\ d[j] = c[j] + m /\ d[k] = c[k] + n
         /\ \A i \in Columns \ {j, k} : d[i] = c[i]
<1> DEFINE c1 == Add(c, j, m)
<1>1. c1 \in Tables /\ c1[j] = c[j] + m /\ \A i \in Columns \ {j} : c1[i] = c[i]
  BY AddColumn
<1> HIDE DEF c1
<1>2. Add(c1, k, n) \in Tables /\ Add(c1, k, n)[k] = c1[k] + n
      /\ \A i \in Columns \ {k} : Add(c1, k, n)[i] = c1[i]
  BY <1>1, AddColumn
<1> QED BY <1>1, <1>2 DEF c1

\* Three columns.
LEMMA AddThree ==
  ASSUME NEW c \in Tables, NEW h \in Columns, NEW j \in Columns \ {h}, NEW k \in Columns \ {h, j},
         NEW l \in Int, NEW m \in Int, NEW n \in Int
  PROVE  LET d == Add(Add(Add(c, h, l), j, m), k, n) IN
         /\ d \in Tables /\ d[h] = c[h] + l /\ d[j] = c[j] + m /\ d[k] = c[k] + n
         /\ \A i \in Columns \ {h, j, k} : d[i] = c[i]
<1> DEFINE c2 == Add(Add(c, h, l), j, m)
<1>1. c2 \in Tables /\ c2[h] = c[h] + l /\ c2[j] = c[j] + m
      /\ \A i \in Columns \ {h, j} : c2[i] = c[i]
  BY AddTwo
<1> HIDE DEF c2
<1>2. Add(c2, k, n) \in Tables /\ Add(c2, k, n)[k] = c2[k] + n
      /\ \A i \in Columns \ {k} : Add(c2, k, n)[i] = c2[i]
  BY <1>1, AddColumn
<1> QED BY <1>1, <1>2 DEF c2

\* The five columns a staged result moves (CommitPageResult).
LEMMA AddFive ==
  ASSUME NEW c \in Tables, NEW n \in Int
  PROVE  LET d == Add(Add(Add(Add(Add(c, "discovered", n), "queued", n), "leased", -1),
                          "persisting", 1), "expected", 1) IN
         /\ d \in Tables
         /\ d.discovered = c.discovered + n /\ d.queued = c.queued + n
         /\ d.leased = c.leased - 1 /\ d.persisting = c.persisting + 1
         /\ d.expected = c.expected + 1 /\ d.published = c.published
         /\ d.succeeded = c.succeeded /\ d.failed = c.failed
         /\ d.skipped = c.skipped /\ d.cancelled = c.cancelled
<1> DEFINE c3 == Add(Add(Add(c, "discovered", n), "queued", n), "leased", -1)
<1>1. /\ c3 \in Tables
      /\ c3.discovered = c.discovered + n /\ c3.queued = c.queued + n
      /\ c3.leased = c.leased + (-1) /\ c3.persisting = c.persisting
      /\ c3.expected = c.expected /\ c3.published = c.published
      /\ c3.succeeded = c.succeeded /\ c3.failed = c.failed
      /\ c3.skipped = c.skipped /\ c3.cancelled = c.cancelled
  BY AddThree, ColumnNames, -1 \in Int
<1> HIDE DEF c3
<1>2. /\ Add(Add(c3, "persisting", 1), "expected", 1) \in Tables
      /\ Add(Add(c3, "persisting", 1), "expected", 1).persisting = c3.persisting + 1
      /\ Add(Add(c3, "persisting", 1), "expected", 1).expected = c3.expected + 1
      /\ \A i \in Columns \ {"persisting", "expected"} :
           Add(Add(c3, "persisting", 1), "expected", 1)[i] = c3[i]
  BY <1>1, AddTwo, ColumnNames
<1>3. c.leased \in Int
  BY ColumnNames DEF Tables
<1> QED BY <1>1, <1>2, <1>3, ColumnNames DEF c3

\* Counting a part of the page table gives a natural number (Pages is finite).
LEMMA PartCount ==
  ASSUME NEW S \in SUBSET Pages
  PROVE  IsFiniteSet(S) /\ Cardinality(S) \in Nat
BY ExecutionsAssumption, FS_Subset, FS_CardinalityType

\* FinalStatus yields a terminal status (the CASE of the terminalising updates).
LEMMA FinalIsTerminal ==
  ASSUME NEW st, NEW c PROVE FinalStatus(st, c) \in TerminalStatus
BY DEF FinalStatus, TerminalStatus

-----------------------------------------------------------------------------
\* The initial state has no rows: types, attempts and outbox agree.
LEMMA InitTypeInv == Init => TypeInv
  BY ExecutionsAssumption, PagesAssumption, LimitsAssumption
  DEF Init, TypeInv, TypeOK, PageRows, OutboxMatchesPages, ZeroCount, Slots, ActiveStatus,
      TerminalStatus, OpenPage, FinalPage

\* Accepting a scan request keeps the rows typed (AcceptCommand).
LEMMA AcceptCommandTypeInv ==
  ASSUME TypeInv, NEW e \in Executions, AcceptCommand(e)
  PROVE  TypeInv'
<1> USE DEF TypeInv, TypeOK
<1>1. count' \in [Executions -> Tables]
  <2>1. count[e] \in Tables
    BY DEF Tables
  <2>2. Add(Add(count[e], "discovered", 1), "queued", 1) \in Tables
    BY <2>1, AddTwo, ColumnNames, -1 \in Int
  <2> QED BY <2>2 DEF AcceptCommand, Tables
<1>2. TypeOK'
  BY <1>1, PagesAssumption
  DEF AcceptCommand, ActiveStatus, TerminalStatus, OpenPage, FinalPage, Tables
<1>3. PageRows' /\ OutboxMatchesPages'
  BY PagesAssumption, LimitsAssumption DEF PageRows, OutboxMatchesPages, AcceptCommand
<1> QED BY <1>2, <1>3

\* Applying a cancellation keeps the rows typed (AcceptCancellation).
LEMMA AcceptCancellationTypeInv ==
  ASSUME TypeInv, NEW e \in Executions, AcceptCancellation(e)
  PROVE  TypeInv'
<1> USE DEF TypeInv, TypeOK
<1>1. count' \in [Executions -> Tables]
  <2> DEFINE q == Cardinality(At(page, e, "QUEUED"))
             l == Cardinality(At(page, e, "LEASED"))
  <2>1. q \in Int /\ l \in Int /\ -q \in Int /\ -l \in Int /\ q + l \in Int
    BY PartCount DEF At
  <2>2. count[e] \in Tables
    BY DEF Tables
  <2>3. Add(Add(Add(count[e], "queued", -q), "leased", -l), "cancelled", q + l) \in Tables
    <3> HIDE DEF q, l
    <3> QED BY <2>1, <2>2, AddThree, ColumnNames
  <2> QED BY <2>3 DEF AcceptCancellation, Tables
<1>2. TypeOK'
  BY <1>1, PagesAssumption
  DEF AcceptCancellation, ActiveStatus, TerminalStatus, OpenPage, FinalPage, Tables, At
<1>3. PageRows' /\ OutboxMatchesPages'
  BY PagesAssumption DEF PageRows, OutboxMatchesPages, AcceptCancellation, At
<1> QED BY <1>2, <1>3

\* Claiming a page keeps the rows typed: a queued page has an attempt left
\* (ClaimPage).
LEMMA ClaimPageTypeInv ==
  ASSUME TypeInv, NEW p \in Pages, NEW s \in Slots, ClaimPage(p, s)
  PROVE  TypeInv'
<1> USE DEF TypeInv, TypeOK
<1>1. count' \in [Executions -> Tables]
  <2>1. count[ExecOf[p]] \in Tables
    BY PagesAssumption DEF Tables
  <2>2. Add(Add(count[ExecOf[p]], "queued", -1), "leased", 1) \in Tables
    BY <2>1, AddTwo, ColumnNames, -1 \in Int, 1 \in Int
  <2> QED BY <2>2 DEF ClaimPage, Tables
<1>2. attempts' \in [Pages -> 0 .. MaxAttempts] /\ [page |-> p, gen |-> attempts[p] + 1] \in Leases
  BY LimitsAssumption DEF ClaimPage, PageRows, Leases
<1>3. TypeOK'
  BY <1>1, <1>2, PagesAssumption
  DEF ClaimPage, ActiveStatus, TerminalStatus, OpenPage, FinalPage, Tables, Fetches
<1>4. PageRows' /\ OutboxMatchesPages'
  BY PagesAssumption, LimitsAssumption DEF PageRows, OutboxMatchesPages, ClaimPage
<1> QED BY <1>3, <1>4

\* A heartbeat keeps the rows typed (ExtendPageLease).
LEMMA ExtendPageLeaseTypeInv ==
  ASSUME TypeInv, NEW w \in fetching, ExtendPageLease(w)
  PROVE  TypeInv'
BY DEF TypeInv, TypeOK, PageRows, OutboxMatchesPages, ExtendPageLease

\* Requeuing a page after a transient failure keeps the rows typed, because it
\* happens only below the last attempt (CommitPageResult, shouldRetryPage).
LEMMA CommitRetryTypeInv ==
  ASSUME TypeInv, NEW w \in fetching, CommitRetry(w)
  PROVE  TypeInv'
<1> USE DEF TypeInv, TypeOK
<1> DEFINE p == w.lease.page
<1>0. p \in Pages /\ w.slot \in Slots
  BY DEF Fetches, Leases
<1>1. count' \in [Executions -> Tables]
  <2>1. count[ExecOf[p]] \in Tables
    BY <1>0, PagesAssumption DEF Tables
  <2>2. Add(Add(count[ExecOf[p]], "leased", -1), "queued", 1) \in Tables
    BY <2>1, AddTwo, ColumnNames, -1 \in Int
  <2> QED BY <2>2 DEF CommitRetry, Tables
<1>2. TypeOK'
  BY <1>0, <1>1, PagesAssumption
  DEF CommitRetry, OpenPage, FinalPage, Tables
<1>3. PageRows' /\ OutboxMatchesPages'
  BY <1>0, PagesAssumption DEF PageRows, OutboxMatchesPages, CommitRetry, LeaseCurrent
<1> QED BY <1>2, <1>3

\* Staging a result keeps the rows typed (CommitPageResult).
LEMMA CommitPageResultTypeInv ==
  ASSUME TypeInv, NEW w \in fetching, NEW result \in {"SUCCEEDED", "FAILED", "SKIPPED"},
         NEW new \in SUBSET Pages, CommitPageResult(w, result, new)
  PROVE  TypeInv'
<1> USE DEF TypeInv, TypeOK
<1> DEFINE p == w.lease.page
<1>0. p \in Pages /\ w.slot \in Slots
  BY DEF Fetches, Leases
<1>1. count' \in [Executions -> Tables]
  <2>1. Cardinality(new) \in Int
    BY PartCount
  <2>2. count[ExecOf[p]] \in Tables
    BY <1>0, PagesAssumption DEF Tables
  <2>3. Add(Add(Add(Add(Add(count[ExecOf[p]], "discovered", Cardinality(new)), "queued", Cardinality(new)),
                    "leased", -1), "persisting", 1), "expected", 1) \in Tables
    BY <2>1, <2>2, AddFive
  <2> QED BY <2>3 DEF CommitPageResult, Tables
<1>2. new \in SUBSET At(page, ExecOf[p], "ABSENT") /\ (new # {} => depth[p] < MaxDepth)
  BY DEF CommitPageResult, Discoverable
<1>3. depth' \in [Pages -> 0 .. MaxDepth]
  BY <1>0, <1>2, LimitsAssumption DEF CommitPageResult
<1>4. TypeOK'
  BY <1>0, <1>1, <1>3 DEF CommitPageResult, OpenPage, FinalPage, Tables
<1>5. PageRows' /\ OutboxMatchesPages'
  BY <1>0, <1>2, PagesAssumption
  DEF PageRows, OutboxMatchesPages, CommitPageResult, LeaseCurrent, At
<1> QED BY <1>4, <1>5

\* A worker that ends without committing leaves the rows typed.
LEMMA WorkerGoneTypeInv ==
  ASSUME TypeInv, NEW w \in fetching, WorkerGone(w)
  PROVE  TypeInv'
BY DEF TypeInv, TypeOK, PageRows, OutboxMatchesPages, WorkerGone

\* Time passing leaves the rows typed (LeaseLapses, DeadlinePasses).
LEMMA TimeTypeInv ==
  ASSUME TypeInv, Time
  PROVE  TypeInv'
BY DEF TypeInv, TypeOK, PageRows, OutboxMatchesPages, Time, LeaseLapses, DeadlinePasses, Held

\* Claiming and releasing analytics rows leaves the rows typed
\* (ClaimAnalytics, RetryAnalytics).
LEMMA AnalyticsRowsTypeInv ==
  ASSUME TypeInv,
         \/ \E rows \in SUBSET Queued : ClaimAnalytics(rows)
         \/ \E p \in Pages : RetryAnalytics(p)
  PROVE  TypeInv'
BY DEF TypeInv, TypeOK, PageRows, OutboxMatchesPages, ClaimAnalytics, RetryAnalytics

\* The counters after a delivery (Published) stay a table.
LEMMA PublishedColumns ==
  ASSUME NEW c \in Tables, NEW result
  PROVE  /\ Published(c, result) \in Tables
         /\ Published(c, result).persisting = c.persisting - 1
         /\ Published(c, result).published = c.published + 1
         /\ Published(c, result)[ColumnOf(result)] = c[ColumnOf(result)] + 1
         /\ \A i \in Columns \ {"persisting", "published", ColumnOf(result)} :
              Published(c, result)[i] = c[i]
<1>1. ColumnOf(result) \in Columns \ {"persisting", "published"}
  BY ColumnNames DEF ColumnOf
<1>2. c.persisting \in Int
  BY ColumnNames DEF Tables
<1> DEFINE k == ColumnOf(result)
<1> HIDE DEF k
<1>3. k \in Columns \ {"persisting"} /\ "published" \in Columns \ {"persisting", k} /\ -1 \in Int
  BY <1>1, ColumnNames DEF k
<1>4. LET d == Add(Add(Add(c, "persisting", -1), k, 1), "published", 1) IN
      /\ d \in Tables /\ d["persisting"] = c["persisting"] + (-1)
      /\ d[k] = c[k] + 1 /\ d["published"] = c["published"] + 1
      /\ \A i \in Columns \ {"persisting", k, "published"} : d[i] = c[i]
  BY <1>3, AddThree, ColumnNames
<1> QED BY <1>1, <1>2, <1>4 DEF Published, k

\* Delivering a result keeps the rows typed: a PERSISTING page has a pending
\* status (CompleteAnalytics).
LEMMA CompleteAnalyticsTypeInv ==
  ASSUME TypeInv, NEW p \in Pages, CompleteAnalytics(p)
  PROVE  TypeInv'
<1> USE DEF TypeInv, TypeOK
<1>1. count' \in [Executions -> Tables]
  <2>1. count[ExecOf[p]] \in Tables
    BY PagesAssumption DEF Tables
  <2>2. Published(count[ExecOf[p]], pending[p]) \in Tables
    BY <2>1, PublishedColumns
  <2> QED BY <2>2 DEF CompleteAnalytics, Tables
<1>2. pending[p] \in {"SUCCEEDED", "FAILED", "SKIPPED"}
  BY DEF CompleteAnalytics, OutboxMatchesPages
<1>3. status' \in [Executions -> {"NONE"} \cup ActiveStatus \cup TerminalStatus]
  BY PagesAssumption, FinalIsTerminal DEF CompleteAnalytics
<1>4. TypeOK'
  BY <1>1, <1>2, <1>3 DEF CompleteAnalytics, OpenPage, FinalPage, Tables
<1>5. status[ExecOf[p]] # "NONE" /\ status'[ExecOf[p]] # "NONE"
  BY PagesAssumption, FinalIsTerminal DEF CompleteAnalytics, PageRows, TerminalStatus
<1>6. PageRows'
  BY <1>2, <1>5, PagesAssumption DEF PageRows, CompleteAnalytics
<1>7. OutboxMatchesPages'
  BY <1>2 DEF OutboxMatchesPages, CompleteAnalytics
<1> QED BY <1>4, <1>6, <1>7

\* The reclaimer's counter updates as three column moves (ReclaimExpired).
LEMMA TallyColumns ==
  ASSUME NEW c \in Tables, NEW a \in Int, NEW b \in Int, NEW d \in Int
  PROVE  LET t == Add(Add(Add(c, "leased", a), "queued", b), "failed", d) IN
         /\ t \in Tables
         /\ t.leased = c.leased + a /\ t.queued = c.queued + b /\ t.failed = c.failed + d
         /\ \A i \in Columns \ {"leased", "queued", "failed"} : t[i] = c[i]
BY AddThree, ColumnNames

\* The reclaimer keeps the rows typed: a page goes back to the queue only with
\* an attempt left (ReclaimExpired).
LEMMA ReclaimExpiredTypeInv ==
  ASSUME TypeInv, NEW rows, NEW expired, NEW ended, ReclaimExpired(rows, expired, ended)
  PROVE  TypeInv'
<1> USE DEF TypeInv, TypeOK
<1>0. /\ rows \subseteq Pages /\ expired \subseteq Pages
      /\ \A p \in rows : outbox[p] = "CLAIMED"
      /\ \A p \in expired : page[p] = "LEASED"
  BY DEF ReclaimExpired, Claimed, LapsedPages
<1>1. count' \in [Executions -> Tables]
  <2> SUFFICES ASSUME NEW e \in Executions PROVE Tally(e, expired, ended) \in Tables
    BY DEF ReclaimExpired
  <2> DEFINE page1 == ExpireLeases(page, expired)
             taken == Cardinality({p \in expired : ExecOf[p] = e})
             given == Cardinality({p \in expired : ExecOf[p] = e /\ page1[p] = "QUEUED"})
             late == IF e \in ended THEN Cardinality(At(page1, e, "QUEUED")) ELSE 0
  <2>1. taken \in Int /\ given \in Int
    BY <1>0, PartCount
  <2>2. late \in Int
    BY PartCount DEF At
  <2>3. count[e] \in Tables
    BY DEF Tables
  <2>4. Tally(e, expired, ended) = Add(Add(Add(count[e], "leased", -taken), "queued", given - late),
                                       "failed", taken - given + late)
    BY DEF Tally
  <2> HIDE DEF taken, given, late
  <2>5. -taken \in Int /\ given - late \in Int /\ taken - given + late \in Int
    BY <2>1, <2>2
  <2> QED BY <2>3, <2>4, <2>5, TallyColumns
<1>2. status' \in [Executions -> {"NONE"} \cup ActiveStatus \cup TerminalStatus]
  BY FinalIsTerminal DEF ReclaimExpired
<1>3. page' \in [Pages -> {"ABSENT"} \cup OpenPage \cup FinalPage]
  BY DEF ReclaimExpired, ExpireLeases, ExpireQueued, OpenPage, FinalPage
<1>4. TypeOK'
  BY <1>0, <1>1, <1>2, <1>3 DEF ReclaimExpired, Tables
<1>5. \A e \in Executions : status'[e] = "NONE" => status[e] = "NONE"
  BY FinalIsTerminal DEF ReclaimExpired, TerminalStatus
<1>6. PageRows'
  BY <1>0, <1>5, PagesAssumption, LimitsAssumption
  DEF PageRows, ReclaimExpired, ExpireLeases, ExpireQueued
<1>7. OutboxMatchesPages'
  BY <1>0 DEF OutboxMatchesPages, ReclaimExpired, ExpireLeases, ExpireQueued
<1> QED BY <1>4, <1>6, <1>7

-----------------------------------------------------------------------------
\* Every step keeps the rows typed.
LEMMA NextTypeInv == TypeInv /\ [Next]_vars => TypeInv'
<1> SUFFICES ASSUME TypeInv, [Next]_vars PROVE TypeInv'
  OBVIOUS
<1>1. CASE Command
  BY <1>1, AcceptCommandTypeInv, AcceptCancellationTypeInv DEF Command
<1>2. CASE Fetch
  BY <1>2, ClaimPageTypeInv, ExtendPageLeaseTypeInv, CommitRetryTypeInv,
     CommitPageResultTypeInv, WorkerGoneTypeInv DEF Fetch
<1>3. CASE Time
  BY <1>3, TimeTypeInv
<1>4. CASE Analytics
  BY <1>4, AnalyticsRowsTypeInv, CompleteAnalyticsTypeInv DEF Analytics
<1>5. CASE Reclaimer
  BY <1>5, ReclaimExpiredTypeInv DEF Reclaimer
<1>6. CASE UNCHANGED vars
  BY <1>6 DEF vars, TypeInv, TypeOK, PageRows, OutboxMatchesPages
<1> QED BY <1>1, <1>2, <1>3, <1>4, <1>5, <1>6 DEF Next

\* The rows of the crawler's database are always well typed; in particular
\* attempt_count and discovery_depth never reach a value their CHECK
\* constraints refuse.
THEOREM TypeCorrect == Spec => []TypeOK
<1>1. Spec => []TypeInv
  BY InitTypeInv, NextTypeInv, PTL DEF Spec
<1> QED BY <1>1, PTL DEF TypeInv

\* A page waits for analytics exactly while CommitPageResult's outbox row is
\* undelivered, through retries, reclaims and cancellations.
THEOREM OutboxAlwaysMatches == Spec => []OutboxMatchesPages
<1>1. Spec => []TypeInv
  BY InitTypeInv, NextTypeInv, PTL DEF Spec
<1> QED BY <1>1, PTL DEF TypeInv

-----------------------------------------------------------------------------
(* The counters and the page table.                                        *)

\* The counters c of execution e agree with the page table pg, add up to
\* discovered_count within max_pages, and count a staged result once.
Books(c, pg, e) ==
  /\ c.queued = Cardinality(At(pg, e, "QUEUED"))
  /\ c.leased = Cardinality(At(pg, e, "LEASED"))
  /\ c.persisting = Cardinality(At(pg, e, "PERSISTING"))
  /\ c.succeeded = Cardinality(At(pg, e, "SUCCEEDED"))
  /\ c.failed = Cardinality(At(pg, e, "FAILED"))
  /\ c.skipped = Cardinality(At(pg, e, "SKIPPED"))
  /\ c.cancelled = Cardinality(At(pg, e, "CANCELLED"))
  /\ c.discovered = c.queued + c.leased + c.persisting + c.succeeded + c.failed
                     + c.skipped + c.cancelled
  /\ c.discovered <= MaxPages
  /\ c.expected = c.published + c.persisting

BooksInv == \A e \in Executions : Books(count[e], page, e)

\* In the page tables pg and pg2 the pages M of e, and only they among the pages of
\* e, moved from status a to status b.
Moved(pg, pg2, e, a, b, M) ==
  /\ a # b /\ M \in SUBSET PagesOf(e)
  /\ \A p \in M : pg[p] = a
  /\ \A p \in PagesOf(e) : pg2[p] = IF p \in M THEN b ELSE pg[p]
MovedOne(pg, pg2, e, a, b, p) == Moved(pg, pg2, e, a, b, {p})

\* Moving the set M of pages moves Cardinality(M) from one count to the other, the
\* arithmetic behind every counter update.
LEMMA MovePages ==
  ASSUME NEW pg, NEW pg2, NEW e, NEW a, NEW b, NEW M, Moved(pg, pg2, e, a, b, M)
  PROVE  /\ Cardinality(At(pg2, e, a)) = Cardinality(At(pg, e, a)) - Cardinality(M)
         /\ Cardinality(At(pg2, e, b)) = Cardinality(At(pg, e, b)) + Cardinality(M)
         /\ \A st : st \notin {a, b} => At(pg2, e, st) = At(pg, e, st)
<1>1. /\ M \in SUBSET Pages /\ IsFiniteSet(M)
      /\ IsFiniteSet(At(pg, e, a)) /\ IsFiniteSet(At(pg, e, b))
  BY PartCount DEF At, PagesOf, Moved
<1>2. At(pg2, e, a) = At(pg, e, a) \ M /\ M \subseteq At(pg, e, a)
  BY DEF At, PagesOf, Moved
<1>3. At(pg2, e, b) = At(pg, e, b) \cup M /\ At(pg, e, b) \cap M = {}
  BY DEF At, PagesOf, Moved
<1>4. \A st : st \notin {a, b} => At(pg2, e, st) = At(pg, e, st)
  BY DEF At, PagesOf, Moved
<1>5. Cardinality(At(pg, e, a) \ M) = Cardinality(At(pg, e, a)) - Cardinality(M)
  <2>1. At(pg, e, a) \cap M = M
    BY <1>2
  <2> QED BY <1>1, <2>1, FS_Difference
<1>6. Cardinality(At(pg, e, b) \cup M) = Cardinality(At(pg, e, b)) + Cardinality(M)
  <2>1. Cardinality(At(pg, e, b) \cap M) = 0
    BY <1>3, FS_EmptySet
  <2>2. Cardinality(At(pg, e, b)) \in Nat /\ Cardinality(M) \in Nat
    BY <1>1, FS_CardinalityType
  <2>3. Cardinality(At(pg, e, b) \cup M)
          = Cardinality(At(pg, e, b)) + Cardinality(M) - Cardinality(At(pg, e, b) \cap M)
    BY <1>1, FS_Union
  <2> QED BY <2>1, <2>2, <2>3
<1> QED BY <1>2, <1>3, <1>4, <1>5, <1>6

\* One page p of e moves from a to b.
LEMMA MoveOnePage ==
  ASSUME NEW pg, NEW pg2, NEW e, NEW a, NEW b, NEW p, MovedOne(pg, pg2, e, a, b, p)
  PROVE  /\ Cardinality(At(pg2, e, a)) = Cardinality(At(pg, e, a)) - 1
         /\ Cardinality(At(pg2, e, b)) = Cardinality(At(pg, e, b)) + 1
         /\ \A st : st \notin {a, b} => At(pg2, e, st) = At(pg, e, st)
<1>1. Cardinality({p}) = 1
  BY FS_Singleton
<1>2. PICK M : M = {p}
  OBVIOUS
<1>3. Moved(pg, pg2, e, a, b, M) /\ Cardinality(M) = 1
  BY <1>1, <1>2 DEF MovedOne
<1> QED BY <1>3, MovePages

\* The counters of an execution none of whose pages moved stay in balance.
LEMMA SamePages ==
  ASSUME NEW c, NEW pg, NEW pg2, NEW e, Books(c, pg, e),
         \A p \in PagesOf(e) : pg2[p] = pg[p]
  PROVE  Books(c, pg2, e)
<1>1. \A st : At(pg2, e, st) = At(pg, e, st)
  BY DEF At, PagesOf
<1> QED BY <1>1 DEF Books

\* A table has an integer in every column.
LEMMA TableColumns ==
  ASSUME NEW c \in Tables
  PROVE  /\ c.discovered \in Int /\ c.queued \in Int /\ c.leased \in Int
         /\ c.persisting \in Int /\ c.succeeded \in Int /\ c.failed \in Int
         /\ c.skipped \in Int /\ c.cancelled \in Int /\ c.expected \in Int
         /\ c.published \in Int
BY ColumnNames DEF Tables

\* The counters of the executions a transaction leaves alone stay in balance.
LEMMA OtherBooks ==
  ASSUME BooksInv, NEW e \in Executions, count'[e] = count[e],
         \A p \in PagesOf(e) : page'[p] = page[p]
  PROVE  Books(count'[e], page', e)
BY SamePages DEF BooksInv

\* A new execution has one queued page (AcceptCommand).
LEMMA AcceptCommandBooks ==
  ASSUME TypeInv, BooksInv, NEW e0 \in Executions, AcceptCommand(e0)
  PROVE  BooksInv'
<1> SUFFICES ASSUME NEW e \in Executions PROVE Books(count'[e], page', e)
  BY DEF BooksInv
<1>1. CASE e # e0
  <2>1. count'[e] = count[e] /\ \A p \in PagesOf(e) : page'[p] = page[p]
    BY <1>1, PagesAssumption DEF AcceptCommand, PagesOf, TypeInv, TypeOK
  <2> QED BY <2>1, OtherBooks
<1>2. CASE e = e0
  <2> DEFINE c == count[e]
             d == Add(Add(c, "discovered", 1), "queued", 1)
             seed == SeedOf[e]
  <2>1. seed \in Pages /\ ExecOf[seed] = e /\ page[seed] = "ABSENT" /\ page'[seed] = "QUEUED"
    BY <1>2, PagesAssumption DEF AcceptCommand, TypeInv, TypeOK, PageRows
  <2>2. /\ Cardinality(At(page', e, "QUEUED")) = Cardinality(At(page, e, "QUEUED")) + 1
        /\ \A st : st \notin {"ABSENT", "QUEUED"} => At(page', e, st) = At(page, e, st)
    <3>1. MovedOne(page, page', e, "ABSENT", "QUEUED", seed)
      BY <1>2, <2>1 DEF AcceptCommand, TypeInv, TypeOK, PagesOf, Moved, MovedOne
    <3> HIDE DEF seed
    <3> QED BY <3>1, MoveOnePage
  <2>3. c \in Tables /\ count'[e] = d
    BY <1>2 DEF AcceptCommand, TypeInv, TypeOK, Tables
  <2>4. /\ d.discovered = c.discovered + 1 /\ d.queued = c.queued + 1
        /\ d.leased = c.leased /\ d.persisting = c.persisting /\ d.succeeded = c.succeeded
        /\ d.failed = c.failed /\ d.skipped = c.skipped /\ d.cancelled = c.cancelled
        /\ d.expected = c.expected /\ d.published = c.published
    <3> HIDE DEF c
    <3> QED BY <2>3, AddTwo, ColumnNames
  <2>5. Books(c, page, e)
    BY DEF BooksInv
  <2>6. \A st : st # "ABSENT" => Cardinality(At(page, e, st)) = 0
    <3> SUFFICES ASSUME NEW st, st # "ABSENT" PROVE At(page, e, st) = {}
      BY FS_EmptySet
    <3> QED BY <1>2 DEF AcceptCommand, TypeInv, PageRows, At
  <2> HIDE DEF c, d
  <2>7. c.discovered = 0
    BY <2>5, <2>6 DEF Books
  <2> QED BY <2>2, <2>3, <2>4, <2>5, <2>7, TableColumns, LimitsAssumption DEF Books
<1> QED BY <1>1, <1>2

\* A cancellation moves the queued and the leased pages to "cancelled"
\* (AcceptCancellation).
LEMMA AcceptCancellationBooks ==
  ASSUME TypeInv, BooksInv, NEW e0 \in Executions, AcceptCancellation(e0)
  PROVE  BooksInv'
<1> SUFFICES ASSUME NEW e \in Executions PROVE Books(count'[e], page', e)
  BY DEF BooksInv
<1>1. CASE e # e0
  <2>1. count'[e] = count[e] /\ \A p \in PagesOf(e) : page'[p] = page[p]
    BY <1>1, PagesAssumption DEF AcceptCancellation, PagesOf, At, TypeInv, TypeOK
  <2> QED BY <2>1, OtherBooks
<1>2. CASE e = e0
  <2> DEFINE c == count[e]
             Q == At(page, e, "QUEUED")
             U == At(page, e, "LEASED")
             q == Cardinality(Q)
             l == Cardinality(U)
             d == Add(Add(Add(c, "queued", -q), "leased", -l), "cancelled", q + l)
             mid == [p \in Pages |-> IF p \in Q THEN "CANCELLED" ELSE page[p]]
  <2>1. /\ Cardinality(At(mid, e, "QUEUED")) = q - q
        /\ Cardinality(At(mid, e, "CANCELLED")) = Cardinality(At(page, e, "CANCELLED")) + q
        /\ \A st : st \notin {"QUEUED", "CANCELLED"} => At(mid, e, st) = At(page, e, st)
    <3>1. Moved(page, mid, e, "QUEUED", "CANCELLED", Q)
      BY DEF At, PagesOf, Moved
    <3> HIDE DEF Q, mid
    <3> QED BY <3>1, MovePages DEF Q
  <2>2. /\ Cardinality(At(page', e, "LEASED")) = Cardinality(At(mid, e, "LEASED")) - l
        /\ Cardinality(At(page', e, "CANCELLED")) = Cardinality(At(mid, e, "CANCELLED")) + l
        /\ \A st : st \notin {"LEASED", "CANCELLED"} => At(page', e, st) = At(mid, e, st)
    <3>1. Moved(mid, page', e, "LEASED", "CANCELLED", U)
      BY <1>2 DEF At, PagesOf, AcceptCancellation, Moved
    <3> HIDE DEF U, mid
    <3> QED BY <3>1, MovePages
  <2>3. c \in Tables /\ count'[e] = d
    BY <1>2 DEF AcceptCancellation, TypeInv, TypeOK, Tables
  <2>4. q \in Nat /\ l \in Nat /\ -q \in Int /\ -l \in Int /\ q + l \in Int
    BY PartCount DEF At
  <2>5. Books(c, page, e)
    BY DEF BooksInv
  <2>6. /\ c.queued = q /\ c.leased = l
        /\ Cardinality(At(mid, e, "LEASED")) = l
    BY <2>1, <2>5 DEF Books
  <2> HIDE DEF c, q, l, Q, U
  <2>7. /\ d.discovered = c.discovered /\ d.queued = c.queued + (-q)
        /\ d.leased = c.leased + (-l) /\ d.persisting = c.persisting
        /\ d.succeeded = c.succeeded /\ d.failed = c.failed /\ d.skipped = c.skipped
        /\ d.cancelled = c.cancelled + (q + l)
        /\ d.expected = c.expected /\ d.published = c.published
    BY <2>3, <2>4, AddThree, ColumnNames
  <2> HIDE DEF d, mid
  <2>8. /\ \A st : st \notin {"QUEUED", "LEASED", "CANCELLED"} => At(page', e, st) = At(page, e, st)
        /\ Cardinality(At(page', e, "QUEUED")) = 0 /\ Cardinality(At(page', e, "LEASED")) = 0
    BY <2>1, <2>2, <2>4, <2>6
  <2>9. Cardinality(At(page', e, "CANCELLED")) = Cardinality(At(page, e, "CANCELLED")) + q + l
    BY <2>1, <2>2
  <2> QED BY <2>3, <2>4, <2>5, <2>6, <2>7, <2>8, <2>9, TableColumns DEF Books
<1> QED BY <1>1, <1>2

\* One page moves between two counted columns and the counters follow it.
LEMMA SwapColumns ==
  ASSUME NEW c \in Tables, NEW pg, NEW pg2, NEW e, NEW p, Books(c, pg, e)
  PROVE  /\ MovedOne(pg, pg2, e, "QUEUED", "LEASED", p)
              => Books(Add(Add(c, "queued", -1), "leased", 1), pg2, e)
         /\ MovedOne(pg, pg2, e, "LEASED", "QUEUED", p)
              => Books(Add(Add(c, "leased", -1), "queued", 1), pg2, e)
<1>1. ASSUME MovedOne(pg, pg2, e, "QUEUED", "LEASED", p)
      PROVE  Books(Add(Add(c, "queued", -1), "leased", 1), pg2, e)
  <2> DEFINE d == Add(Add(c, "queued", -1), "leased", 1)
  <2>1. /\ d.queued = c.queued + (-1) /\ d.leased = c.leased + 1
        /\ \A i \in Columns \ {"queued", "leased"} : d[i] = c[i]
    BY AddTwo, ColumnNames, -1 \in Int
  <2> HIDE DEF d
  <2>2. /\ Cardinality(At(pg2, e, "QUEUED")) = Cardinality(At(pg, e, "QUEUED")) - 1
        /\ Cardinality(At(pg2, e, "LEASED")) = Cardinality(At(pg, e, "LEASED")) + 1
        /\ \A st : st \notin {"QUEUED", "LEASED"} => At(pg2, e, st) = At(pg, e, st)
    BY <1>1, MoveOnePage
  <2>3. Books(d, pg2, e)
    BY <2>1, <2>2, TableColumns, ColumnNames DEF Books
  <2> QED BY <2>3 DEF d
<1>2. ASSUME MovedOne(pg, pg2, e, "LEASED", "QUEUED", p)
      PROVE  Books(Add(Add(c, "leased", -1), "queued", 1), pg2, e)
  <2> DEFINE d == Add(Add(c, "leased", -1), "queued", 1)
  <2>1. /\ d.leased = c.leased + (-1) /\ d.queued = c.queued + 1
        /\ \A i \in Columns \ {"queued", "leased"} : d[i] = c[i]
    BY AddTwo, ColumnNames, -1 \in Int
  <2> HIDE DEF d
  <2>2. /\ Cardinality(At(pg2, e, "LEASED")) = Cardinality(At(pg, e, "LEASED")) - 1
        /\ Cardinality(At(pg2, e, "QUEUED")) = Cardinality(At(pg, e, "QUEUED")) + 1
        /\ \A st : st \notin {"QUEUED", "LEASED"} => At(pg2, e, st) = At(pg, e, st)
    BY <1>2, MoveOnePage
  <2>3. Books(d, pg2, e)
    BY <2>1, <2>2, TableColumns, ColumnNames DEF Books
  <2> QED BY <2>3 DEF d
<1> QED BY <1>1, <1>2

\* A claim moves one page from "queued" to "leased" (ClaimPage).
LEMMA ClaimPageBooks ==
  ASSUME TypeInv, BooksInv, NEW p \in Pages, NEW s \in Slots, ClaimPage(p, s)
  PROVE  BooksInv'
<1> SUFFICES ASSUME NEW e \in Executions PROVE Books(count'[e], page', e)
  BY DEF BooksInv
<1>1. CASE e # ExecOf[p]
  <2>1. count'[e] = count[e] /\ \A q \in PagesOf(e) : page'[q] = page[q]
    BY <1>1 DEF ClaimPage, PagesOf, TypeInv, TypeOK
  <2> QED BY <2>1, OtherBooks
<1>2. CASE e = ExecOf[p]
  <2>1. MovedOne(page, page', e, "QUEUED", "LEASED", p)
    BY <1>2 DEF ClaimPage, TypeInv, TypeOK, PagesOf, Moved, MovedOne
  <2>2. count[e] \in Tables /\ Books(count[e], page, e)
    BY DEF TypeInv, TypeOK, Tables, BooksInv
  <2>3. count'[e] = Add(Add(count[e], "queued", -1), "leased", 1)
    BY <1>2 DEF ClaimPage, TypeInv, TypeOK
  <2> QED BY <2>1, <2>2, <2>3, SwapColumns
<1> QED BY <1>1, <1>2

\* A retry moves one page back (CommitRetry).
LEMMA CommitRetryBooks ==
  ASSUME TypeInv, BooksInv, NEW w \in fetching, CommitRetry(w)
  PROVE  BooksInv'
<1> SUFFICES ASSUME NEW e \in Executions PROVE Books(count'[e], page', e)
  BY DEF BooksInv
<1> DEFINE p == w.lease.page
<1>0. p \in Pages
  BY DEF TypeInv, TypeOK, Fetches, Leases
<1>1. CASE e # ExecOf[p]
  <2>1. count'[e] = count[e] /\ \A q \in PagesOf(e) : page'[q] = page[q]
    BY <1>0, <1>1 DEF CommitRetry, PagesOf, TypeInv, TypeOK
  <2> QED BY <2>1, OtherBooks
<1>2. CASE e = ExecOf[p]
  <2>1. MovedOne(page, page', e, "LEASED", "QUEUED", p)
    BY <1>0, <1>2 DEF CommitRetry, LeaseCurrent, TypeInv, TypeOK, PagesOf, Moved, MovedOne
  <2>2. count[e] \in Tables /\ Books(count[e], page, e)
    BY DEF TypeInv, TypeOK, Tables, BooksInv
  <2>3. count'[e] = Add(Add(count[e], "leased", -1), "queued", 1)
    BY <1>2 DEF CommitRetry, TypeInv, TypeOK
  <2> HIDE DEF p
  <2> QED BY <2>1, <2>2, <2>3, SwapColumns
<1> QED BY <1>1, <1>2

\* A staged result moves its page from "leased" to "persisting" and adds the
\* pages found on it (CommitPageResult).
LEMMA CommitPageResultBooks ==
  ASSUME TypeInv, BooksInv, NEW w \in fetching, NEW result, NEW new,
         CommitPageResult(w, result, new)
  PROVE  BooksInv'
<1> SUFFICES ASSUME NEW e \in Executions PROVE Books(count'[e], page', e)
  BY DEF BooksInv
<1> DEFINE p == w.lease.page
<1>0. /\ p \in Pages /\ page[p] = "LEASED"
      /\ new \in SUBSET At(page, ExecOf[p], "ABSENT")
      /\ count[ExecOf[p]].discovered + Cardinality(new) <= MaxPages
  BY DEF TypeInv, TypeOK, Fetches, Leases, CommitPageResult, LeaseCurrent, Discoverable
<1>1. CASE e # ExecOf[p]
  <2>1. count'[e] = count[e] /\ \A q \in PagesOf(e) : page'[q] = page[q]
    BY <1>0, <1>1 DEF CommitPageResult, PagesOf, At, TypeInv, TypeOK
  <2> QED BY <2>1, OtherBooks
<1>2. CASE e = ExecOf[p]
  <2> DEFINE c == count[e]
             n == Cardinality(new)
             d == Add(Add(Add(Add(Add(c, "discovered", n), "queued", n), "leased", -1),
                          "persisting", 1), "expected", 1)
             mid == [page EXCEPT ![p] = "PERSISTING"]
  <2>1. MovedOne(page, mid, e, "LEASED", "PERSISTING", p)
    BY <1>0, <1>2 DEF TypeInv, TypeOK, PagesOf, Moved, MovedOne
  <2>2. Moved(mid, page', e, "ABSENT", "QUEUED", new)
    BY <1>0, <1>2 DEF CommitPageResult, TypeInv, TypeOK, PagesOf, At, Moved
  <2>3. c \in Tables /\ Books(c, page, e) /\ count'[e] = d
    BY <1>2 DEF TypeInv, TypeOK, Tables, BooksInv, CommitPageResult
  <2>4. n \in Nat /\ n \in Int /\ c.discovered + n <= MaxPages
    BY <1>0, <1>2, PartCount DEF At
  <2> HIDE DEF c, n, p, mid
  <2>5. /\ Cardinality(At(mid, e, "LEASED")) = Cardinality(At(page, e, "LEASED")) - 1
        /\ Cardinality(At(mid, e, "PERSISTING")) = Cardinality(At(page, e, "PERSISTING")) + 1
        /\ \A st : st \notin {"LEASED", "PERSISTING"} => At(mid, e, st) = At(page, e, st)
    BY <2>1, MoveOnePage
  <2>6. /\ Cardinality(At(page', e, "QUEUED")) = Cardinality(At(mid, e, "QUEUED")) + n
        /\ \A st : st \notin {"ABSENT", "QUEUED"} => At(page', e, st) = At(mid, e, st)
    BY <2>2, MovePages DEF n
  <2>7. /\ d.discovered = c.discovered + n /\ d.queued = c.queued + n
        /\ d.leased = c.leased - 1 /\ d.persisting = c.persisting + 1
        /\ d.expected = c.expected + 1 /\ d.published = c.published
        /\ d.succeeded = c.succeeded /\ d.failed = c.failed
        /\ d.skipped = c.skipped /\ d.cancelled = c.cancelled
    BY <2>3, <2>4, AddFive
  <2> HIDE DEF d
  <2>8. /\ d.queued = Cardinality(At(page', e, "QUEUED"))
        /\ d.leased = Cardinality(At(page', e, "LEASED"))
        /\ d.persisting = Cardinality(At(page', e, "PERSISTING"))
        /\ d.succeeded = Cardinality(At(page', e, "SUCCEEDED"))
        /\ d.failed = Cardinality(At(page', e, "FAILED"))
        /\ d.skipped = Cardinality(At(page', e, "SKIPPED"))
        /\ d.cancelled = Cardinality(At(page', e, "CANCELLED"))
    BY <2>3, <2>5, <2>6, <2>7 DEF Books
  <2> QED BY <2>3, <2>4, <2>7, <2>8, TableColumns, LimitsAssumption DEF Books
<1> QED BY <1>1, <1>2

\* A delivered result moves its page from "persisting" to the column of its
\* pending status (CompleteAnalytics).
LEMMA CompleteAnalyticsBooks ==
  ASSUME TypeInv, BooksInv, NEW p \in Pages, CompleteAnalytics(p)
  PROVE  BooksInv'
<1> SUFFICES ASSUME NEW e \in Executions PROVE Books(count'[e], page', e)
  BY DEF BooksInv
<1>1. CASE e # ExecOf[p]
  <2>1. count'[e] = count[e] /\ \A q \in PagesOf(e) : page'[q] = page[q]
    BY <1>1 DEF CompleteAnalytics, PagesOf, TypeInv, TypeOK
  <2> QED BY <2>1, OtherBooks
<1>2. CASE e = ExecOf[p]
  <2> DEFINE c == count[e]
             r == pending[p]
             d == Published(c, r)
  <2>1. r \in {"SUCCEEDED", "FAILED", "SKIPPED"}
    BY DEF CompleteAnalytics, TypeInv, TypeOK, OutboxMatchesPages
  <2>2. MovedOne(page, page', e, "PERSISTING", r, p)
    BY <1>2, <2>1 DEF CompleteAnalytics, TypeInv, TypeOK, PagesOf, Moved, MovedOne
  <2>3. c \in Tables /\ Books(c, page, e) /\ count'[e] = d
    BY <1>2 DEF TypeInv, TypeOK, Tables, BooksInv, CompleteAnalytics
  <2> HIDE DEF c, r
  <2>4. /\ Cardinality(At(page', e, "PERSISTING")) = Cardinality(At(page, e, "PERSISTING")) - 1
        /\ Cardinality(At(page', e, r)) = Cardinality(At(page, e, r)) + 1
        /\ \A st : st \notin {"PERSISTING", r} => At(page', e, st) = At(page, e, st)
    BY <2>2, MoveOnePage
  <2>5. /\ ColumnOf(r) \in Columns
        /\ ColumnOf(r) = IF r = "SUCCEEDED" THEN "succeeded"
                         ELSE IF r = "SKIPPED" THEN "skipped" ELSE "failed"
    BY DEF ColumnOf, Columns
  <2> DEFINE k == ColumnOf(r)
  <2>6. /\ d.persisting = c.persisting - 1 /\ d[k] = c[k] + 1 /\ d.published = c.published + 1
        /\ \A i \in Columns \ {"persisting", "published", k} : d[i] = c[i]
    BY <2>3, PublishedColumns
  <2> HIDE DEF d, k
  <2> DEFINE Sum(x) == x.discovered = x.queued + x.leased + x.persisting + x.succeeded
                                       + x.failed + x.skipped + x.cancelled
  <2>10. /\ c.discovered \in Int /\ c.queued \in Int /\ c.leased \in Int
         /\ c.persisting \in Int /\ c.succeeded \in Int /\ c.failed \in Int
         /\ c.skipped \in Int /\ c.cancelled \in Int /\ c.expected \in Int
         /\ c.published \in Int
    BY <2>3, TableColumns
  <2>11. Sum(c) /\ c.discovered <= MaxPages /\ c.expected = c.published + c.persisting
    BY <2>3 DEF Books, Sum
  <2>12. d.persisting = c.persisting - 1 /\ d.published = c.published + 1
    BY <2>6
  <2> HIDE DEF Sum
  <2>7. CASE r = "SUCCEEDED"
    <3>1. k = "succeeded"
      BY <2>5, <2>7 DEF k
    <3>2. /\ d.succeeded = c.succeeded + 1
          /\ d.failed = c.failed /\ d.skipped = c.skipped
          /\ d.discovered = c.discovered /\ d.queued = c.queued /\ d.leased = c.leased
          /\ d.cancelled = c.cancelled /\ d.expected = c.expected
      BY <2>6, <3>1, ColumnNames
    <3>3. /\ Cardinality(At(page', e, "SUCCEEDED")) = Cardinality(At(page, e, "SUCCEEDED")) + 1
          /\ \A st : st \notin {"PERSISTING", "SUCCEEDED"} => At(page', e, st) = At(page, e, st)
      BY <2>4, <2>7
    <3>4. /\ d.queued = Cardinality(At(page', e, "QUEUED"))
          /\ d.leased = Cardinality(At(page', e, "LEASED"))
          /\ d.persisting = Cardinality(At(page', e, "PERSISTING"))
          /\ d.succeeded = Cardinality(At(page', e, "SUCCEEDED"))
          /\ d.failed = Cardinality(At(page', e, "FAILED"))
          /\ d.skipped = Cardinality(At(page', e, "SKIPPED"))
          /\ d.cancelled = Cardinality(At(page', e, "CANCELLED"))
      BY <2>3, <2>4, <2>6, <3>2, <3>3 DEF Books
    <3>5. Sum(d) /\ d.discovered <= MaxPages /\ d.expected = d.published + d.persisting
      BY <2>10, <2>11, <2>12, <3>2 DEF Sum
    <3> QED BY <2>3, <3>4, <3>5 DEF Books, Sum
  <2>8. CASE r = "SKIPPED"
    <3>1. k = "skipped"
      BY <2>5, <2>8 DEF k
    <3>2. /\ d.skipped = c.skipped + 1
          /\ d.succeeded = c.succeeded /\ d.failed = c.failed
          /\ d.discovered = c.discovered /\ d.queued = c.queued /\ d.leased = c.leased
          /\ d.cancelled = c.cancelled /\ d.expected = c.expected
      BY <2>6, <3>1, ColumnNames
    <3>3. /\ Cardinality(At(page', e, "SKIPPED")) = Cardinality(At(page, e, "SKIPPED")) + 1
          /\ \A st : st \notin {"PERSISTING", "SKIPPED"} => At(page', e, st) = At(page, e, st)
      BY <2>4, <2>8
    <3>4. /\ d.queued = Cardinality(At(page', e, "QUEUED"))
          /\ d.leased = Cardinality(At(page', e, "LEASED"))
          /\ d.persisting = Cardinality(At(page', e, "PERSISTING"))
          /\ d.succeeded = Cardinality(At(page', e, "SUCCEEDED"))
          /\ d.failed = Cardinality(At(page', e, "FAILED"))
          /\ d.skipped = Cardinality(At(page', e, "SKIPPED"))
          /\ d.cancelled = Cardinality(At(page', e, "CANCELLED"))
      BY <2>3, <2>4, <2>6, <3>2, <3>3 DEF Books
    <3>5. Sum(d) /\ d.discovered <= MaxPages /\ d.expected = d.published + d.persisting
      BY <2>10, <2>11, <2>12, <3>2 DEF Sum
    <3> QED BY <2>3, <3>4, <3>5 DEF Books, Sum
  <2>9. CASE r = "FAILED"
    <3>1. k = "failed"
      BY <2>5, <2>9 DEF k
    <3>2. /\ d.failed = c.failed + 1
          /\ d.succeeded = c.succeeded /\ d.skipped = c.skipped
          /\ d.discovered = c.discovered /\ d.queued = c.queued /\ d.leased = c.leased
          /\ d.cancelled = c.cancelled /\ d.expected = c.expected
      BY <2>6, <3>1, ColumnNames
    <3>3. /\ Cardinality(At(page', e, "FAILED")) = Cardinality(At(page, e, "FAILED")) + 1
          /\ \A st : st \notin {"PERSISTING", "FAILED"} => At(page', e, st) = At(page, e, st)
      BY <2>4, <2>9
    <3>4. /\ d.queued = Cardinality(At(page', e, "QUEUED"))
          /\ d.leased = Cardinality(At(page', e, "LEASED"))
          /\ d.persisting = Cardinality(At(page', e, "PERSISTING"))
          /\ d.succeeded = Cardinality(At(page', e, "SUCCEEDED"))
          /\ d.failed = Cardinality(At(page', e, "FAILED"))
          /\ d.skipped = Cardinality(At(page', e, "SKIPPED"))
          /\ d.cancelled = Cardinality(At(page', e, "CANCELLED"))
      BY <2>3, <2>4, <2>6, <3>2, <3>3 DEF Books
    <3>5. Sum(d) /\ d.discovered <= MaxPages /\ d.expected = d.published + d.persisting
      BY <2>10, <2>11, <2>12, <3>2 DEF Sum
    <3> QED BY <2>3, <3>4, <3>5 DEF Books, Sum
  <2> QED BY <2>1, <2>7, <2>8, <2>9
<1> QED BY <1>1, <1>2

\* The reclaimer's counters: expired pages go to "queued" or "failed", and the
\* queued pages of an execution past its deadline to "failed" (Tally).
LEMMA TallyBooks ==
  ASSUME TypeInv, BooksInv, NEW e \in Executions, NEW expired \in SUBSET LapsedPages, NEW ended
  PROVE  /\ Tally(e, expired, ended) \in Tables
         /\ Books(Tally(e, expired, ended), ExpireQueued(ExpireLeases(page, expired), ended), e)
<1> DEFINE page1 == ExpireLeases(page, expired)
           page2 == ExpireQueued(page1, ended)
           T == {p \in expired : ExecOf[p] = e}
           G == {p \in expired : ExecOf[p] = e /\ page1[p] = "QUEUED"}
           F == T \ G
           L == IF e \in ended THEN At(page1, e, "QUEUED") ELSE {}
           mid == [p \in Pages |-> IF p \in G THEN "QUEUED" ELSE page[p]]
           taken == Cardinality(T)
           given == Cardinality(G)
           late == IF e \in ended THEN Cardinality(At(page1, e, "QUEUED")) ELSE 0
           c == count[e]
           d == Tally(e, expired, ended)
<1>1. expired \subseteq Pages /\ \A p \in expired : page[p] = "LEASED"
  BY DEF LapsedPages
<1>2. \A p \in expired : page1[p] \in {"QUEUED", "FAILED"}
  BY <1>1 DEF ExpireLeases
<1>3. Moved(page, mid, e, "LEASED", "QUEUED", G)
  BY <1>1 DEF Moved, PagesOf
<1>4. Moved(mid, page1, e, "LEASED", "FAILED", F)
  <2>1. \A p \in F : mid[p] = "LEASED" /\ page1[p] = "FAILED"
    BY <1>1, <1>2
  <2>2. \A p \in G : page1[p] = "QUEUED" /\ mid[p] = "QUEUED"
    BY <1>1
  <2>3. \A p \in PagesOf(e) : p \notin T => page1[p] = page[p] /\ mid[p] = page[p]
    BY DEF ExpireLeases, PagesOf
  <2>4. F \in SUBSET PagesOf(e) /\ G \subseteq T
    BY <1>1 DEF PagesOf
  <2> HIDE DEF T, G, mid, page1
  <2> QED BY <2>1, <2>2, <2>3, <2>4 DEF Moved
<1>5. Moved(page1, page2, e, "QUEUED", "FAILED", L)
  <2> HIDE DEF page1
  <2> QED BY DEF Moved, PagesOf, At, ExpireQueued
<1>6. late = Cardinality(L)
  BY FS_EmptySet
<1>7. /\ given \in Nat /\ late \in Nat /\ Cardinality(F) \in Nat /\ taken \in Nat
      /\ taken = given + Cardinality(F)
  <2>1. T \in SUBSET Pages /\ G \in SUBSET Pages /\ F \in SUBSET Pages /\ L \in SUBSET Pages
    BY <1>1 DEF At
  <2>2. G \cup F = T /\ G \cap F = {}
    OBVIOUS
  <2> HIDE DEF T, G, F, L, late
  <2>3. /\ given \in Nat /\ Cardinality(F) \in Nat /\ late \in Nat /\ taken \in Nat
        /\ IsFiniteSet(G) /\ IsFiniteSet(F)
    BY <2>1, <1>6, PartCount
  <2>4. Cardinality(G \cap F) = 0
    BY <2>2, FS_EmptySet
  <2>5. Cardinality(G \cup F) = Cardinality(G) + Cardinality(F) - Cardinality(G \cap F)
    BY <2>3, FS_Union
  <2> QED BY <2>2, <2>3, <2>4, <2>5
<1>8. d = Add(Add(Add(c, "leased", -taken), "queued", given - late), "failed", taken - given + late)
  BY DEF Tally
<1>9. c \in Tables /\ Books(c, page, e)
  BY DEF TypeInv, TypeOK, Tables, BooksInv
<1> HIDE DEF T, G, F, L, mid, taken, given, late, c, d, page1, page2
<1>10. /\ d \in Tables
       /\ d.leased = c.leased + (-taken) /\ d.queued = c.queued + (given - late)
       /\ d.failed = c.failed + (taken - given + late)
       /\ \A i \in Columns \ {"leased", "queued", "failed"} : d[i] = c[i]
  <2>1. -taken \in Int /\ given - late \in Int /\ taken - given + late \in Int
    BY <1>7
  <2> QED BY <1>8, <1>9, <2>1, TallyColumns
<1>11. /\ Cardinality(At(mid, e, "LEASED")) = Cardinality(At(page, e, "LEASED")) - given
       /\ Cardinality(At(mid, e, "QUEUED")) = Cardinality(At(page, e, "QUEUED")) + given
       /\ \A st : st \notin {"LEASED", "QUEUED"} => At(mid, e, st) = At(page, e, st)
  BY <1>3, MovePages DEF given
<1>12. /\ Cardinality(At(page1, e, "LEASED")) = Cardinality(At(mid, e, "LEASED")) - Cardinality(F)
       /\ Cardinality(At(page1, e, "FAILED")) = Cardinality(At(mid, e, "FAILED")) + Cardinality(F)
       /\ \A st : st \notin {"LEASED", "FAILED"} => At(page1, e, st) = At(mid, e, st)
  BY <1>4, MovePages
<1>13. /\ Cardinality(At(page2, e, "QUEUED")) = Cardinality(At(page1, e, "QUEUED")) - late
       /\ Cardinality(At(page2, e, "FAILED")) = Cardinality(At(page1, e, "FAILED")) + late
       /\ \A st : st \notin {"QUEUED", "FAILED"} => At(page2, e, st) = At(page1, e, st)
  BY <1>5, <1>6, MovePages
<1>14. /\ c.queued \in Int /\ c.leased \in Int /\ c.failed \in Int
       /\ c.leased = Cardinality(At(page, e, "LEASED"))
       /\ c.queued = Cardinality(At(page, e, "QUEUED"))
       /\ c.failed = Cardinality(At(page, e, "FAILED"))
  BY <1>9, TableColumns DEF Books
<1>15. /\ d.leased = Cardinality(At(page2, e, "LEASED"))
       /\ d.queued = Cardinality(At(page2, e, "QUEUED"))
       /\ d.failed = Cardinality(At(page2, e, "FAILED"))
  <2>1. Cardinality(At(page2, e, "LEASED")) = c.leased - given - Cardinality(F)
    BY <1>11, <1>12, <1>13, <1>14
  <2>2. Cardinality(At(page2, e, "QUEUED")) = c.queued + given - late
    <3>1. At(page1, e, "QUEUED") = At(mid, e, "QUEUED")
      BY <1>12
    <3> QED BY <1>7, <1>11, <1>13, <1>14, <3>1
  <2>3. Cardinality(At(page2, e, "FAILED")) = c.failed + Cardinality(F) + late
    BY <1>11, <1>12, <1>13, <1>14
  <2> QED BY <1>7, <1>10, <1>14, <2>1, <2>2, <2>3
<1>16. /\ d.discovered = c.discovered /\ d.persisting = c.persisting
       /\ d.succeeded = c.succeeded /\ d.skipped = c.skipped /\ d.cancelled = c.cancelled
       /\ d.expected = c.expected /\ d.published = c.published
  BY <1>10, ColumnNames
<1>17. \A st : st \notin {"LEASED", "QUEUED", "FAILED"} => At(page2, e, st) = At(page, e, st)
  BY <1>11, <1>12, <1>13
<1>18. /\ d.persisting = Cardinality(At(page2, e, "PERSISTING"))
       /\ d.succeeded = Cardinality(At(page2, e, "SUCCEEDED"))
       /\ d.skipped = Cardinality(At(page2, e, "SKIPPED"))
       /\ d.cancelled = Cardinality(At(page2, e, "CANCELLED"))
  BY <1>9, <1>16, <1>17 DEF Books
<1>19. Books(d, page2, e)
  <2>1. d.discovered = d.queued + d.leased + d.persisting + d.succeeded + d.failed
                         + d.skipped + d.cancelled
    <3>1. /\ c.persisting \in Int /\ c.succeeded \in Int /\ c.skipped \in Int /\ c.cancelled \in Int
          /\ c.discovered = c.queued + c.leased + c.persisting + c.succeeded + c.failed
                             + c.skipped + c.cancelled
      BY <1>9, TableColumns DEF Books
    <3>2. /\ d.leased = c.leased - taken /\ d.queued = c.queued + given - late
          /\ d.failed = c.failed + taken - given + late
      BY <1>7, <1>10, <1>14
    <3> QED BY <1>7, <1>14, <1>16, <3>1, <3>2
  <2> QED BY <1>9, <1>15, <1>16, <1>18, <2>1 DEF Books
<1> QED BY <1>10, <1>19 DEF d, page1, page2

\* The reclaimer keeps every execution's counters (ReclaimExpired).
LEMMA ReclaimExpiredBooks ==
  ASSUME TypeInv, BooksInv, NEW rows, NEW expired, NEW ended, ReclaimExpired(rows, expired, ended)
  PROVE  BooksInv'
<1>1. expired \in SUBSET LapsedPages
  BY DEF ReclaimExpired
<1> SUFFICES ASSUME NEW e \in Executions PROVE Books(count'[e], page', e)
  BY DEF BooksInv
<1>2. /\ count'[e] = Tally(e, expired, ended)
      /\ page' = ExpireQueued(ExpireLeases(page, expired), ended)
  BY DEF ReclaimExpired
<1> QED BY <1>1, <1>2, TallyBooks

\* Every step keeps the books.
LEMMA NextBooks == TypeInv /\ BooksInv /\ [Next]_vars => BooksInv'
<1> SUFFICES ASSUME TypeInv, BooksInv, [Next]_vars PROVE BooksInv'
  OBVIOUS
<1>0. UNCHANGED <<count, page>> => BooksInv'
  BY DEF BooksInv
<1>1. CASE Command
  BY <1>1, AcceptCommandBooks, AcceptCancellationBooks DEF Command
<1>2. CASE Fetch
  <2>1. ASSUME NEW p \in Pages, NEW s \in Slots, ClaimPage(p, s) PROVE BooksInv'
    BY <2>1, ClaimPageBooks
  <2>2. ASSUME NEW w \in fetching, CommitRetry(w) PROVE BooksInv'
    BY <2>2, CommitRetryBooks
  <2>3. ASSUME NEW w \in fetching, ExtendPageLease(w) \/ WorkerGone(w) PROVE BooksInv'
    BY <1>0, <2>3 DEF ExtendPageLease, WorkerGone
  <2>4. ASSUME NEW w \in fetching, NEW result, NEW new, CommitPageResult(w, result, new)
        PROVE BooksInv'
    BY <2>4, CommitPageResultBooks
  <2> QED BY <1>2, <2>1, <2>2, <2>3, <2>4 DEF Fetch
<1>3. CASE Time
  BY <1>0, <1>3 DEF Time, LeaseLapses, DeadlinePasses
<1>4. CASE Analytics
  <2>1. ASSUME NEW p \in Pages, CompleteAnalytics(p) PROVE BooksInv'
    BY <2>1, CompleteAnalyticsBooks
  <2>2. ASSUME NEW rows, ClaimAnalytics(rows) PROVE BooksInv'
    BY <1>0, <2>2 DEF ClaimAnalytics
  <2>3. ASSUME NEW p \in Pages, RetryAnalytics(p) PROVE BooksInv'
    BY <1>0, <2>3 DEF RetryAnalytics
  <2> QED BY <1>4, <2>1, <2>2, <2>3 DEF Analytics
<1>5. CASE Reclaimer
  BY <1>5, ReclaimExpiredBooks DEF Reclaimer
<1>6. CASE UNCHANGED vars
  BY <1>0, <1>6 DEF vars
<1> QED BY <1>1, <1>2, <1>3, <1>4, <1>5, <1>6 DEF Next

\* An empty crawler has empty books.
LEMMA InitBooks == Init => BooksInv
<1> SUFFICES ASSUME Init, NEW e \in Executions PROVE Books(count[e], page, e)
  BY DEF BooksInv
<1>1. \A k \in Columns : count[e][k] = 0
  BY DEF Init, ZeroCount
<1>2. \A st : st # "ABSENT" => Cardinality(At(page, e, st)) = 0
  <2> SUFFICES ASSUME NEW st, st # "ABSENT" PROVE At(page, e, st) = {}
    BY FS_EmptySet
  <2> QED BY DEF Init, At
<1> QED BY <1>1, <1>2, ColumnNames, LimitsAssumption DEF Books

\* The invariant of the books, inductive relative to the types.
LEMMA BooksAlways == Spec => [](TypeInv /\ BooksInv)
BY InitTypeInv, NextTypeInv, InitBooks, NextBooks, PTL DEF Spec

\* The counter columns agree with the page table in every state: each of the
\* transactions that move pages moves the counters by exactly as much.
THEOREM CountersAlwaysExact == Spec => []CountersExact
<1>1. BooksInv => CountersExact
  BY DEF BooksInv, Books, CountersExact
<1> QED BY <1>1, BooksAlways, PTL

\* The counters always add up, within max_pages, and "published = expected"
\* holds exactly when no result is in flight.
THEOREM CountsAlwaysBalanced == Spec => []CountsBalanced
<1>1. BooksInv => CountsBalanced
  BY DEF BooksInv, Books, CountsBalanced
<1> QED BY <1>1, BooksAlways, PTL

\* Both together: the counters are exact and balanced in every state.
THEOREM CountersAlwaysAgree == Spec => []CountersAgree
BY CountersAlwaysExact, CountsAlwaysBalanced, PTL DEF CountersAgree

-----------------------------------------------------------------------------
(* What the agreement between counters and pages (BooksInv) is good for:     *)
(* executions end when their pages have and stay ended (the code decides it  *)
(* from counters alone), a lease and a host slot belong together,            *)
(* max_concurrency is kept, and the frontier implements ExecutionLifecycle.  *)

\* "published = expected" says that no result is staged.
LEMMA InFlight ==
  ASSUME NEW d \in Tables, NEW pg, NEW e, Books(d, pg, e)
  PROVE  d.published = d.expected <=> d.persisting = 0
<1>1. d.published \in Int /\ d.persisting \in Int /\ d.expected = d.published + d.persisting
  BY TableColumns DEF Books
<1> QED BY <1>1

\* The counters say "drained" exactly when no page of the execution is open: the
\* WHERE clause of both terminalising updates means what it should.
LEMMA DrainedMeansNoOpenPage ==
  ASSUME NEW d \in Tables, NEW pg, NEW e, Books(d, pg, e)
  PROVE  Drained(d) <=> \A p \in PagesOf(e) : pg[p] \notin OpenPage
<1>1. \A st : IsFiniteSet(At(pg, e, st)) /\ Cardinality(At(pg, e, st)) \in Nat
  BY PartCount DEF At
<1>2. \A st : Cardinality(At(pg, e, st)) = 0 <=> At(pg, e, st) = {}
  BY <1>1, FS_EmptySet
<1>3. /\ d.queued = 0 <=> At(pg, e, "QUEUED") = {}
      /\ d.leased = 0 <=> At(pg, e, "LEASED") = {}
      /\ d.persisting = 0 <=> At(pg, e, "PERSISTING") = {}
      /\ d.published = d.expected <=> d.persisting = 0
  <2>1. /\ d.queued = Cardinality(At(pg, e, "QUEUED"))
        /\ d.leased = Cardinality(At(pg, e, "LEASED"))
        /\ d.persisting = Cardinality(At(pg, e, "PERSISTING"))
    BY DEF Books
  <2>2. d.published = d.expected <=> d.persisting = 0
    BY InFlight
  <2> QED BY <1>2, <2>1, <2>2
<1>4. Drained(d) <=> /\ At(pg, e, "QUEUED") = {} /\ At(pg, e, "LEASED") = {}
                     /\ At(pg, e, "PERSISTING") = {}
  BY <1>3 DEF Drained
<1> QED BY <1>4 DEF At, PagesOf, OpenPage

\* The same for the counters and pages of the current state.
LEMMA DrainedNow ==
  ASSUME TypeInv, BooksInv, NEW e \in Executions
  PROVE  Drained(count[e]) <=> \A p \in PagesOf(e) : page[p] \notin OpenPage
BY DrainedMeansNoOpenPage DEF TypeInv, TypeOK, Tables, BooksInv

\* And of the next state.
LEMMA DrainedNext ==
  ASSUME TypeInv', BooksInv', NEW e \in Executions
  PROVE  Drained(count'[e]) <=> \A p \in PagesOf(e) : page'[p] \notin OpenPage
BY DrainedMeansNoOpenPage DEF TypeInv, TypeOK, Tables, BooksInv

\* Quiescence and NotStranded of one execution, given its status and the pages.
Settled(st, pg, e) ==
  /\ st \in TerminalStatus => \A p \in PagesOf(e) : pg[p] \in FinalPage \cup {"ABSENT"}
  /\ st = "CANCEL_REQUESTED" => \A p \in PagesOf(e) : pg[p] \notin {"QUEUED", "LEASED"}
  /\ st \in ActiveStatus => \E p \in PagesOf(e) : pg[p] \in OpenPage

EndInv == \A e \in Executions : Settled(status[e], page, e)

\* An execution none of whose rows changed stays settled.
LEMMA OtherSettled ==
  ASSUME EndInv, NEW e \in Executions, status'[e] = status[e],
         \A p \in PagesOf(e) : page'[p] = page[p]
  PROVE  Settled(status'[e], page', e)
BY DEF EndInv, Settled

\* While a page of it is leased an execution runs; while one is staged it may
\* also be waiting for its cancellation.
LEMMA BusyExecution ==
  ASSUME TypeInv, EndInv, NEW p \in Pages
  PROVE  /\ page[p] = "LEASED" => status[ExecOf[p]] \in {"QUEUED", "RUNNING"}
         /\ page[p] = "PERSISTING" => status[ExecOf[p]] \in ActiveStatus
BY PagesAssumption
DEF TypeInv, TypeOK, PageRows, EndInv, Settled, PagesOf, FinalPage, ActiveStatus

-----------------------------------------------------------------------------
\* AcceptCommand: the new execution has its seed to crawl.
LEMMA AcceptCommandEnd ==
  ASSUME TypeInv, EndInv, NEW e0 \in Executions, AcceptCommand(e0)
  PROVE  EndInv'
<1> SUFFICES ASSUME NEW e \in Executions PROVE Settled(status'[e], page', e)
  BY DEF EndInv
<1>1. CASE e # e0
  BY <1>1, PagesAssumption, OtherSettled DEF AcceptCommand, PagesOf, TypeInv, TypeOK
<1>2. CASE e = e0
  <2>1. SeedOf[e] \in PagesOf(e) /\ page'[SeedOf[e]] = "QUEUED" /\ status'[e] = "QUEUED"
    BY <1>2, PagesAssumption DEF AcceptCommand, PagesOf, TypeInv, TypeOK
  <2> QED BY <2>1 DEF Settled, OpenPage, TerminalStatus
<1> QED BY <1>1, <1>2

\* AcceptCancellation ends the execution at once only when no result is staged.
LEMMA AcceptCancellationEnd ==
  ASSUME TypeInv, BooksInv, EndInv, NEW e0 \in Executions, AcceptCancellation(e0)
  PROVE  EndInv'
<1> SUFFICES ASSUME NEW e \in Executions PROVE Settled(status'[e], page', e)
  BY DEF EndInv
<1>1. CASE e # e0
  BY <1>1, OtherSettled DEF AcceptCancellation, PagesOf, At, TypeInv, TypeOK
<1>2. CASE e = e0
  <2>1. \A p \in PagesOf(e) :
          page'[p] = IF page[p] \in {"QUEUED", "LEASED"} THEN "CANCELLED" ELSE page[p]
    BY <1>2 DEF AcceptCancellation, PagesOf, At
  <2>2. \A p \in PagesOf(e) : page[p] \in {"ABSENT"} \cup OpenPage \cup FinalPage
    BY DEF TypeInv, TypeOK, PagesOf
  <2>3. count[e].persisting = 0 <=> \A p \in PagesOf(e) : page[p] # "PERSISTING"
    <3>1. count[e].persisting = Cardinality(At(page, e, "PERSISTING"))
      BY DEF BooksInv, Books
    <3>2. IsFiniteSet(At(page, e, "PERSISTING"))
      BY PartCount DEF At
    <3>3. count[e].persisting = 0 <=> At(page, e, "PERSISTING") = {}
      BY <3>1, <3>2, FS_EmptySet
    <3> QED BY <3>3 DEF At, PagesOf
  <2>4. count[e].persisting = 0 <=> count[e].published = count[e].expected
    <3>1. count[e] \in Tables /\ Books(count[e], page, e)
      BY DEF TypeInv, TypeOK, Tables, BooksInv
    <3> QED BY <3>1, InFlight
  <2>5. status'[e] = IF count[e].persisting = 0 THEN "CANCELLED" ELSE "CANCEL_REQUESTED"
    BY <1>2, <2>4 DEF AcceptCancellation, TypeInv, TypeOK
  <2> QED BY <2>1, <2>2, <2>3, <2>5
          DEF Settled, OpenPage, FinalPage, TerminalStatus, ActiveStatus
<1> QED BY <1>1, <1>2

\* ClaimPage: a leased page is open.
LEMMA ClaimPageEnd ==
  ASSUME TypeInv, EndInv, NEW p \in Pages, NEW s \in Slots, ClaimPage(p, s)
  PROVE  EndInv'
<1> SUFFICES ASSUME NEW e \in Executions PROVE Settled(status'[e], page', e)
  BY DEF EndInv
<1>1. CASE e # ExecOf[p]
  BY <1>1, OtherSettled DEF ClaimPage, PagesOf, TypeInv, TypeOK
<1>2. CASE e = ExecOf[p]
  <2>1. p \in PagesOf(e) /\ page'[p] = "LEASED" /\ status'[e] = "RUNNING"
    BY <1>2 DEF ClaimPage, PagesOf, TypeInv, TypeOK
  <2> QED BY <2>1 DEF Settled, OpenPage, TerminalStatus
<1> QED BY <1>1, <1>2

\* CommitRetry and CommitPageResult: the worker's page stays open, in an
\* execution that was running.
LEMMA CommitEnd ==
  ASSUME TypeInv, EndInv, NEW w \in fetching, NEW result, NEW new,
         CommitRetry(w) \/ CommitPageResult(w, result, new)
  PROVE  EndInv'
<1> SUFFICES ASSUME NEW e \in Executions PROVE Settled(status'[e], page', e)
  BY DEF EndInv
<1> DEFINE p == w.lease.page
<1>0. p \in Pages /\ page[p] = "LEASED" /\ status' = status
  BY DEF TypeInv, TypeOK, Fetches, Leases, CommitRetry, CommitPageResult, LeaseCurrent
<1>1. CASE e # ExecOf[p]
  <2>1. \A q \in PagesOf(e) : page'[q] = page[q]
    BY <1>0, <1>1 DEF CommitRetry, CommitPageResult, Discoverable, PagesOf, At, TypeInv, TypeOK
  <2> QED BY <1>0, <2>1, OtherSettled
<1>2. CASE e = ExecOf[p]
  <2>1. status'[e] \in {"QUEUED", "RUNNING"}
    BY <1>0, <1>2, BusyExecution
  <2>2. p \in PagesOf(e) /\ page'[p] \in {"QUEUED", "PERSISTING"}
    BY <1>0, <1>2 DEF CommitRetry, CommitPageResult, PagesOf, TypeInv, TypeOK
  <2> QED BY <2>1, <2>2 DEF Settled, OpenPage, TerminalStatus
<1> QED BY <1>1, <1>2

\* CompleteAnalytics ends the execution exactly when its last page is final.
LEMMA CompleteAnalyticsEnd ==
  ASSUME TypeInv, EndInv, TypeInv', BooksInv', NEW p \in Pages, CompleteAnalytics(p)
  PROVE  EndInv'
<1> SUFFICES ASSUME NEW e \in Executions PROVE Settled(status'[e], page', e)
  BY DEF EndInv
<1>1. CASE e # ExecOf[p]
  BY <1>1, OtherSettled DEF CompleteAnalytics, PagesOf, TypeInv, TypeOK
<1>2. CASE e = ExecOf[p]
  <2>1. status[e] \in ActiveStatus
    BY <1>2, BusyExecution DEF CompleteAnalytics
  <2>2. \A q \in PagesOf(e) : page'[q] \in {"ABSENT"} \cup OpenPage \cup FinalPage
    BY DEF TypeInv, TypeOK, PagesOf
  <2>3. \A q \in PagesOf(e) : page'[q] = page[q] \/ page'[q] \in FinalPage
    BY DEF CompleteAnalytics, TypeInv, TypeOK, OutboxMatchesPages, PagesOf, FinalPage
  <2>4. status'[e] = IF Drained(count'[e]) THEN FinalStatus(status[e], count'[e]) ELSE status[e]
    BY <1>2 DEF CompleteAnalytics, TypeInv, TypeOK
  <2>5. CASE Drained(count'[e])
    <3>1. status'[e] \in TerminalStatus
      BY <2>4, <2>5, FinalIsTerminal
    <3>2. \A q \in PagesOf(e) : page'[q] \notin OpenPage
      BY <2>5, DrainedNext
    <3> QED BY <2>2, <3>1, <3>2 DEF Settled, TerminalStatus, ActiveStatus
  <2>6. CASE ~Drained(count'[e])
    <3>1. \E q \in PagesOf(e) : page'[q] \in OpenPage
      BY <2>6, DrainedNext
    <3>2. status'[e] = status[e]
      BY <2>4, <2>6
    <3> QED BY <2>1, <2>3, <3>1, <3>2
            DEF EndInv, Settled, TerminalStatus, ActiveStatus, FinalPage
  <2> QED BY <2>5, <2>6
<1> QED BY <1>1, <1>2

\* ReclaimExpired ends the active executions that have no open page, and no other.
LEMMA ReclaimExpiredEnd ==
  ASSUME TypeInv, EndInv, TypeInv', BooksInv', NEW rows, NEW expired, NEW ended,
         ReclaimExpired(rows, expired, ended)
  PROVE  EndInv'
<1> SUFFICES ASSUME NEW e \in Executions PROVE Settled(status'[e], page', e)
  BY DEF EndInv
<1>1. status'[e] = IF status[e] \in ActiveStatus /\ Drained(count'[e])
                   THEN FinalStatus(status[e], count'[e]) ELSE status[e]
  BY DEF ReclaimExpired
<1>2. \A q \in PagesOf(e) : page'[q] \in {"ABSENT"} \cup OpenPage \cup FinalPage
  BY DEF TypeInv, TypeOK, PagesOf
<1>3. \A q \in PagesOf(e) : page[q] \notin {"QUEUED", "LEASED"} => page'[q] = page[q]
  BY DEF ReclaimExpired, LapsedPages, ExpireQueued, ExpireLeases, PagesOf
<1>4. CASE status[e] \in ActiveStatus /\ Drained(count'[e])
  <2>1. status'[e] \in TerminalStatus
    BY <1>1, <1>4, FinalIsTerminal
  <2>2. \A q \in PagesOf(e) : page'[q] \notin OpenPage
    BY <1>4, DrainedNext
  <2> QED BY <1>2, <2>1, <2>2 DEF Settled, TerminalStatus, ActiveStatus
<1>5. CASE status[e] \in ActiveStatus /\ ~Drained(count'[e])
  <2>1. \E q \in PagesOf(e) : page'[q] \in OpenPage
    BY <1>5, DrainedNext
  <2> QED BY <1>1, <1>3, <1>5, <2>1 DEF EndInv, Settled, TerminalStatus, ActiveStatus
<1>6. CASE status[e] \notin ActiveStatus
  <2>1. status'[e] = status[e]
    BY <1>1, <1>6
  <2> QED BY <1>3, <1>6, <2>1 DEF EndInv, Settled, ActiveStatus, FinalPage
<1> QED BY <1>4, <1>5, <1>6

\* Every step leaves every execution settled.
LEMMA NextEnd ==
  TypeInv /\ BooksInv /\ EndInv /\ [Next]_vars => EndInv'
<1> SUFFICES ASSUME TypeInv, BooksInv, EndInv, [Next]_vars PROVE EndInv'
  OBVIOUS
<1>a. TypeInv' /\ BooksInv'
  BY NextTypeInv, NextBooks
<1>0. UNCHANGED <<status, page>> => EndInv'
  BY DEF EndInv
<1>1. CASE Command
  BY <1>1, AcceptCommandEnd, AcceptCancellationEnd DEF Command
<1>2. CASE Fetch
  <2>1. ASSUME NEW p \in Pages, NEW s \in Slots, ClaimPage(p, s) PROVE EndInv'
    BY <2>1, ClaimPageEnd
  <2>2. ASSUME NEW w \in fetching, CommitRetry(w) PROVE EndInv'
    BY <2>2, CommitEnd
  <2>3. ASSUME NEW w \in fetching, ExtendPageLease(w) \/ WorkerGone(w) PROVE EndInv'
    BY <1>0, <2>3 DEF ExtendPageLease, WorkerGone
  <2>4. ASSUME NEW w \in fetching, NEW result, NEW new, CommitPageResult(w, result, new)
        PROVE EndInv'
    BY <2>4, CommitEnd
  <2> QED BY <1>2, <2>1, <2>2, <2>3, <2>4 DEF Fetch
<1>3. CASE Time
  BY <1>0, <1>3 DEF Time, LeaseLapses, DeadlinePasses
<1>4. CASE Analytics
  <2>1. ASSUME NEW p \in Pages, CompleteAnalytics(p) PROVE EndInv'
    BY <1>a, <2>1, CompleteAnalyticsEnd
  <2>2. ASSUME NEW rows, ClaimAnalytics(rows) PROVE EndInv'
    BY <1>0, <2>2 DEF ClaimAnalytics
  <2>3. ASSUME NEW p \in Pages, RetryAnalytics(p) PROVE EndInv'
    BY <1>0, <2>3 DEF RetryAnalytics
  <2> QED BY <1>4, <2>1, <2>2, <2>3 DEF Analytics
<1>5. CASE Reclaimer
  BY <1>a, <1>5, ReclaimExpiredEnd DEF Reclaimer
<1>6. CASE UNCHANGED vars
  BY <1>0, <1>6 DEF vars
<1> QED BY <1>1, <1>2, <1>3, <1>4, <1>5, <1>6 DEF Next

\* The three invariants together are inductive.
FrontierInv == TypeInv /\ BooksInv /\ EndInv

\* They hold in every state.
LEMMA FrontierAlways == Spec => []FrontierInv
<1>1. Init => EndInv
  BY DEF Init, EndInv, Settled, TerminalStatus, ActiveStatus
<1>2. Init => FrontierInv
  BY <1>1, InitTypeInv, InitBooks DEF FrontierInv
<1>3. FrontierInv /\ [Next]_vars => FrontierInv'
  BY NextTypeInv, NextBooks, NextEnd DEF FrontierInv
<1> QED BY <1>2, <1>3, PTL DEF Spec

\* No execution is terminal while one of its pages is queued, leased or staged.
THEOREM QuiescenceAlways == Spec => []Quiescence
<1>1. FrontierInv => Quiescence
  BY DEF FrontierInv, EndInv, Settled, Quiescence, Terminal
<1> QED BY <1>1, FrontierAlways, PTL

\* No active execution is left without an open page.
THEOREM NeverStranded == Spec => []NotStranded
<1>1. FrontierInv => NotStranded
  BY DEF FrontierInv, EndInv, Settled, NotStranded
<1> QED BY <1>1, FrontierAlways, PTL

\* An execution is over exactly when none of its pages is open.
THEOREM AlwaysEndsWhenDone == Spec => []EndsWhenDone
BY QuiescenceAlways, NeverStranded, PTL DEF EndsWhenDone

-----------------------------------------------------------------------------
(* What no step may do.                                                    *)

\* The reclaimer leaves the counters of an execution it finds nothing to do for.
LEMMA TallyIdle ==
  ASSUME NEW e \in Executions, count[e] \in Tables, NEW expired, NEW ended,
         \A p \in expired : ExecOf[p] # e, e \notin ended
  PROVE  Tally(e, expired, ended) = count[e]
<1> DEFINE c == count[e]
<1>1. {p \in expired : ExecOf[p] = e} = {}
  OBVIOUS
<1>2. {p \in expired : ExecOf[p] = e /\ ExpireLeases(page, expired)[p] = "QUEUED"} = {}
  OBVIOUS
<1>3. 0 - 0 = 0 /\ 0 - 0 + 0 = 0
  OBVIOUS
<1>4. Tally(e, expired, ended) = Add(Add(Add(c, "leased", -0), "queued", 0), "failed", 0)
  BY <1>1, <1>2, <1>3, FS_EmptySet DEF Tally
<1>5. \A k \in Columns : \A d \in Tables : Add(d, k, 0) = d /\ Add(d, k, -0) = d
  BY DEF Add, Tables
<1> HIDE DEF c
<1>6. Add(c, "leased", -0) = c /\ Add(c, "queued", 0) = c /\ Add(c, "failed", 0) = c
  BY <1>5, ColumnNames DEF c
<1> QED BY <1>4, <1>6 DEF c

\* A step of one execution's rows leaves those of a finished one alone, because
\* the page it works on is open (Quiescence) or its status is tested.
LEMMA FinishedStays ==
  ASSUME FrontierInv, [Next]_vars, NEW e \in Executions, Terminal(e)
  PROVE  status'[e] = status[e] /\ count'[e] = count[e]
<1> USE DEF FrontierInv
<1>0. /\ status[e] \notin ActiveStatus /\ status[e] # "NONE"
      /\ \A p \in Pages : ExecOf[p] = e => page[p] \notin OpenPage
  BY DEF EndInv, Settled, Terminal, PagesOf, TerminalStatus, ActiveStatus, OpenPage, FinalPage
<1>1. CASE Command
  BY <1>0, <1>1 DEF Command, AcceptCommand, AcceptCancellation, Cancellable, ActiveStatus, TypeInv, TypeOK
<1>2. CASE Fetch
  <2>1. ASSUME NEW p \in Pages, NEW s \in Slots, ClaimPage(p, s)
        PROVE  status'[e] = status[e] /\ count'[e] = count[e]
    BY <1>0, <2>1 DEF ClaimPage, OpenPage, TypeInv, TypeOK
  <2>2. ASSUME NEW w \in fetching, NEW result, NEW new,
               CommitRetry(w) \/ CommitPageResult(w, result, new)
        PROVE  status'[e] = status[e] /\ count'[e] = count[e]
    <3>1. w.lease.page \in Pages
      BY DEF TypeInv, TypeOK, Fetches, Leases
    <3>2. ExecOf[w.lease.page] # e
      BY <1>0, <2>2, <3>1 DEF CommitRetry, CommitPageResult, LeaseCurrent, OpenPage
    <3> QED BY <2>2, <3>2 DEF CommitRetry, CommitPageResult, TypeInv, TypeOK
  <2>3. ASSUME NEW w \in fetching, ExtendPageLease(w) \/ WorkerGone(w)
        PROVE  status'[e] = status[e] /\ count'[e] = count[e]
    BY <2>3 DEF ExtendPageLease, WorkerGone
  <2> QED BY <1>2, <2>1, <2>2, <2>3 DEF Fetch
<1>3. CASE Time
  BY <1>3 DEF Time, LeaseLapses, DeadlinePasses
<1>4. CASE Analytics
  <2>1. ASSUME NEW p \in Pages, CompleteAnalytics(p)
        PROVE  status'[e] = status[e] /\ count'[e] = count[e]
    BY <1>0, <2>1 DEF CompleteAnalytics, OpenPage, TypeInv, TypeOK
  <2> QED BY <1>4, <2>1 DEF Analytics, ClaimAnalytics, RetryAnalytics
<1>5. CASE Reclaimer
  <2> SUFFICES ASSUME NEW rows, NEW expired, NEW ended, ReclaimExpired(rows, expired, ended)
               PROVE  status'[e] = status[e] /\ count'[e] = count[e]
    BY <1>5 DEF Reclaimer
  <2>1. (\A p \in expired : ExecOf[p] # e) /\ e \notin ended
    BY <1>0 DEF ReclaimExpired, LapsedPages, Ended, OpenPage, ActiveStatus
  <2>2. count[e] \in Tables
    BY DEF TypeInv, TypeOK, Tables
  <2>3. Tally(e, expired, ended) = count[e]
    BY <2>1, <2>2, TallyIdle
  <2> QED BY <1>0, <2>3 DEF ReclaimExpired
<1>6. CASE UNCHANGED vars
  BY <1>6 DEF vars
<1> QED BY <1>1, <1>2, <1>3, <1>4, <1>5, <1>6 DEF Next

\* A terminal execution never changes: late workers, batches, cancellations and
\* the unguarded update of CompleteAnalytics cannot reach it.
THEOREM TerminalAlwaysFinal == Spec => TerminalIsFinal
<1>1. FrontierInv /\ [Next]_vars =>
        [\A e \in Executions : Terminal(e) => status'[e] = status[e] /\ count'[e] = count[e]]_vars
  BY FinishedStays
<1> QED BY <1>1, FrontierAlways, PTL DEF Spec, TerminalIsFinal

\* A page with a final status keeps it, and a staged page takes only the status
\* its result gave it.
LEMMA FinishedPage ==
  ASSUME FrontierInv, [Next]_vars, NEW p \in Pages
  PROVE  /\ page[p] \in FinalPage => page'[p] = page[p]
         /\ page[p] = "PERSISTING" => page'[p] \in {"PERSISTING", pending[p]}
<1> USE DEF FrontierInv, FinalPage
<1>1. CASE Command
  <2>1. ASSUME NEW e \in Executions, AcceptCommand(e)
        PROVE  page'[p] = page[p] \/ page[p] = "ABSENT"
    BY <2>1, PagesAssumption DEF AcceptCommand, TypeInv, TypeOK, PageRows
  <2>2. ASSUME NEW e \in Executions, AcceptCancellation(e)
        PROVE  page'[p] = page[p] \/ page[p] \in {"QUEUED", "LEASED"}
    BY <2>2 DEF AcceptCancellation, At
  <2> QED BY <1>1, <2>1, <2>2 DEF Command
<1>2. CASE Fetch
  <2>1. ASSUME NEW q \in Pages, NEW s \in Slots, ClaimPage(q, s)
        PROVE  page'[p] = page[p] \/ page[p] = "QUEUED"
    BY <2>1 DEF ClaimPage, TypeInv, TypeOK
  <2>2. ASSUME NEW w \in fetching, CommitRetry(w)
        PROVE  page'[p] = page[p] \/ page[p] = "LEASED"
    BY <2>2 DEF CommitRetry, LeaseCurrent, TypeInv, TypeOK
  <2>3. ASSUME NEW w \in fetching, NEW result, NEW new, CommitPageResult(w, result, new)
        PROVE  page'[p] = page[p] \/ page[p] \in {"ABSENT", "LEASED"}
    BY <2>3 DEF CommitPageResult, LeaseCurrent, Discoverable, At
  <2>4. ASSUME NEW w \in fetching, ExtendPageLease(w) \/ WorkerGone(w)
        PROVE  page'[p] = page[p]
    BY <2>4 DEF ExtendPageLease, WorkerGone
  <2> QED BY <1>2, <2>1, <2>2, <2>3, <2>4 DEF Fetch
<1>3. CASE Time
  BY <1>3 DEF Time, LeaseLapses, DeadlinePasses
<1>4. CASE Analytics
  BY <1>4 DEF Analytics, ClaimAnalytics, RetryAnalytics, CompleteAnalytics, TypeInv, TypeOK
<1>5. CASE Reclaimer
  BY <1>5 DEF Reclaimer, ReclaimExpired, LapsedPages, ExpireQueued, ExpireLeases
<1>6. CASE UNCHANGED vars
  BY <1>6 DEF vars
<1> QED BY <1>1, <1>2, <1>3, <1>4, <1>5, <1>6 DEF Next

\* No page is finished twice or gets the status of another attempt's result.
THEOREM PagesAlwaysFinishOnce == Spec => PagesFinishOnce
<1>1. FrontierInv /\ [Next]_vars =>
        [\A p \in Pages :
           /\ page[p] \in FinalPage => page'[p] = page[p]
           /\ page[p] = "PERSISTING" => page'[p] \in {"PERSISTING", pending[p]}]_vars
  BY FinishedPage
<1> QED BY <1>1, FrontierAlways, PTL DEF Spec, PagesFinishOnce

\* Only CompleteAnalytics and ReclaimExpired take an execution out of
\* CANCEL_REQUESTED, and FinalStatus then gives CANCELLED.
LEMMA CancellationStays ==
  ASSUME FrontierInv, [Next]_vars, NEW e \in Executions, status[e] = "CANCEL_REQUESTED"
  PROVE  status'[e] \in {"CANCEL_REQUESTED", "CANCELLED"}
<1> USE DEF FrontierInv
<1>1. CASE Command
  BY <1>1 DEF Command, AcceptCommand, AcceptCancellation, TypeInv, TypeOK
<1>2. CASE Fetch
  BY <1>2 DEF Fetch, ClaimPage, Claimable, ExtendPageLease, CommitRetry, WorkerGone, CommitPageResult,
              TypeInv, TypeOK
<1>3. CASE Time
  BY <1>3 DEF Time, LeaseLapses, DeadlinePasses
<1>4. CASE Analytics
  BY <1>4 DEF Analytics, ClaimAnalytics, RetryAnalytics, CompleteAnalytics, FinalStatus,
              TypeInv, TypeOK
<1>5. CASE Reclaimer
  BY <1>5 DEF Reclaimer, ReclaimExpired, FinalStatus
<1>6. CASE UNCHANGED vars
  BY <1>6 DEF vars
<1> QED BY <1>1, <1>2, <1>3, <1>4, <1>5, <1>6 DEF Next

\* A cancellation the crawler applied is never undone by pages that finish.
THEOREM CancellationAlwaysSticks == Spec => CancellationSticks
<1>1. FrontierInv /\ [Next]_vars =>
        [\A e \in Executions : status[e] = "CANCEL_REQUESTED"
           => status'[e] \in {"CANCEL_REQUESTED", "CANCELLED"}]_vars
  BY CancellationStays
<1> QED BY <1>1, FrontierAlways, PTL DEF Spec, CancellationSticks

\* Neither the end of an execution nor its cancellation is ever undone.
THEOREM OutcomesAlwaysStay == Spec => OutcomesStay
BY TerminalAlwaysFinal, CancellationAlwaysSticks, PTL DEF OutcomesStay

-----------------------------------------------------------------------------
(* Page leases and host slots.                                             *)

\* A lease is one of its page and generation, and a slot's lease that is none
\* names a page.
LEMMA LeaseTypes ==
  ASSUME TypeInv
  PROVE  /\ \A p \in Pages : page[p] = "LEASED" => LeaseOf(p) \in Leases
         /\ \A s \in Slots : slot[s] # NoLease => slot[s] \in Leases /\ slot[s].page \in Pages
BY LimitsAssumption DEF TypeInv, TypeOK, PageRows, Leases, LeaseOf

\* A step that only gives slots back keeps them in order, when it frees those of
\* the pages that leave LEASED, and of the others only lapsed ones.
LEMMA SlotsReleased ==
  ASSUME TypeInv, SlotsMatchLeases, attempts' = attempts,
         \A s \in Slots : slot'[s] = slot[s] \/ slot'[s] = NoLease,
         \A p \in Pages : page'[p] = "LEASED" => page[p] = "LEASED",
         \A s \in Slots : slot'[s] # NoLease => page'[slot[s].page] = "LEASED",
         \A p \in Pages : page'[p] = "LEASED" /\ LeaseOf(p) \notin lapsed' =>
           /\ LeaseOf(p) \notin lapsed
           /\ \A s \in Slots : slot[s] = LeaseOf(p) => slot'[s] = slot[s]
  PROVE  SlotsMatchLeases'
<1>0. /\ \A p : LeaseOf(p)' = LeaseOf(p) /\ SlotsOf(p)' = SlotsOf(p)
      /\ \A p : SlotsOf(p) \subseteq Slots
  BY DEF LeaseOf, SlotsOf
<1>1. ASSUME NEW p \in Pages, page'[p] = "LEASED", LeaseOf(p)' \notin lapsed'
      PROVE  \E s \in SlotsOf(p)' : slot'[s] = LeaseOf(p)'
  <2>1. page[p] = "LEASED" /\ LeaseOf(p) \notin lapsed
    BY <1>0, <1>1
  <2>2. PICK s \in SlotsOf(p) : slot[s] = LeaseOf(p)
    BY <2>1 DEF SlotsMatchLeases
  <2>3. slot'[s] = LeaseOf(p)
    BY <1>0, <1>1, <2>2
  <2> QED BY <1>0, <2>3
<1>2. ASSUME NEW s \in Slots, slot'[s] # NoLease
      PROVE  (LET p == slot[s].page IN page[p] = "LEASED" /\ LeaseOf(p) = slot[s] /\ s \in SlotsOf(p))'
  <2>1. slot'[s] = slot[s] /\ page'[slot[s].page] = "LEASED"
    BY <1>2
  <2>2. LeaseOf(slot[s].page) = slot[s] /\ s \in SlotsOf(slot[s].page)
    BY <1>2, <2>1 DEF SlotsMatchLeases
  <2> QED BY <2>1, <2>2 DEF LeaseOf, SlotsOf, Slots
<1>3. ASSUME NEW s \in Slots, NEW t \in Slots, slot'[s] = slot'[t], slot'[s] # NoLease
      PROVE  s = t
  BY <1>3 DEF SlotsMatchLeases
<1> QED BY <1>1, <1>2, <1>3 DEF SlotsMatchLeases, LeaseOf, SlotsOf, Slots

\* A lapsed lease that its page still carries stays lapsed, because only the
\* leases no row carries are forgotten.
LEMMA LapsedStays ==
  ASSUME TypeInv, attempts' = attempts, NEW pg, NEW sl,
         NEW p \in Pages, page[p] = "LEASED", pg[p] = "LEASED", LeaseOf(p) \in lapsed
  PROVE  LeaseOf(p) \in lapsed \cap Held(pg, attempts, sl)
<1>1. LeaseOf(p) \in Leases /\ LeaseOf(p).page = p /\ LeaseOf(p).gen = attempts[p]
  BY LeaseTypes DEF LeaseOf
<1> QED BY <1>1 DEF Held

\* AcceptCancellation frees the slots of the leased pages of its execution.
LEMMA AcceptCancellationSlots ==
  ASSUME TypeInv, SlotsMatchLeases, NEW e \in Executions, AcceptCancellation(e)
  PROVE  SlotsMatchLeases'
<1> DEFINE leased == At(page, e, "LEASED")
<1>1. attempts' = attempts /\ lapsed' = lapsed \cap Held(page', attempts, slot')
  BY DEF AcceptCancellation
<1>2. \A p \in Pages : page'[p] = "LEASED" <=> page[p] = "LEASED" /\ ExecOf[p] # e
  BY DEF AcceptCancellation, At
<1>3. \A s \in Slots : slot'[s] = IF \E p \in leased : slot[s] = LeaseOf(p) /\ s \in SlotsOf(p)
                                  THEN NoLease ELSE slot[s]
  BY DEF AcceptCancellation
<1>4. ASSUME NEW s \in Slots, slot'[s] # NoLease PROVE page'[slot[s].page] = "LEASED"
  <2> DEFINE q == slot[s].page
  <2>1. slot[s] # NoLease /\ slot'[s] = slot[s]
    BY <1>3, <1>4
  <2>2. q \in Pages /\ page[q] = "LEASED" /\ LeaseOf(q) = slot[s] /\ s \in SlotsOf(q)
    BY <2>1, LeaseTypes DEF SlotsMatchLeases
  <2>3. q \notin leased
    BY <1>3, <1>4, <2>2
  <2> QED BY <1>2, <2>2, <2>3 DEF At
<1>5. ASSUME NEW p \in Pages, page'[p] = "LEASED", LeaseOf(p) \notin lapsed'
      PROVE  /\ LeaseOf(p) \notin lapsed
             /\ \A s \in Slots : slot[s] = LeaseOf(p) => slot'[s] = slot[s]
  <2>1. page[p] = "LEASED" /\ ExecOf[p] # e
    BY <1>2, <1>5
  <2>2. LeaseOf(p) \notin lapsed
    BY <1>1, <1>5, <2>1, LapsedStays
  <2>3. \A q \in leased : LeaseOf(q) # LeaseOf(p)
    BY <2>1 DEF At, LeaseOf
  <2> QED BY <1>3, <2>2, <2>3
<1> QED BY <1>1, <1>2, <1>3, <1>4, <1>5, SlotsReleased

\* CommitRetry and CommitPageResult free the slot the worker's lease is in.
LEMMA CommitSlots ==
  ASSUME TypeInv, SlotsMatchLeases, NEW w \in fetching, NEW result, NEW new,
         CommitRetry(w) \/ CommitPageResult(w, result, new)
  PROVE  SlotsMatchLeases'
<1> DEFINE p == w.lease.page
<1>0. /\ p \in Pages /\ page[p] = "LEASED" /\ LeaseOf(p) = w.lease
      /\ w.slot \in Slots /\ slot[w.slot] = w.lease /\ w.lease \in Leases
  BY DEF TypeInv, TypeOK, Fetches, Leases, CommitRetry, CommitPageResult, LeaseCurrent
<1>1. /\ attempts' = attempts /\ lapsed' = lapsed \cap Held(page', attempts, slot')
      /\ slot' = [slot EXCEPT ![w.slot] = NoLease] /\ slot \in [Slots -> Leases \cup {NoLease}]
  BY DEF CommitRetry, CommitPageResult, TypeInv, TypeOK
<1>2. \A q \in Pages : page'[q] = "LEASED" <=> page[q] = "LEASED" /\ q # p
  <2>1. CASE CommitRetry(w)
    BY <1>0, <2>1 DEF CommitRetry, TypeInv, TypeOK
  <2>2. CASE CommitPageResult(w, result, new)
    BY <1>0, <2>2 DEF CommitPageResult, Discoverable, At
  <2> QED BY <2>1, <2>2
<1>3. \A s \in Slots : slot'[s] = IF s = w.slot THEN NoLease ELSE slot[s]
  BY <1>1
<1> HIDE DEF p
<1>4. ASSUME NEW s \in Slots, slot'[s] # NoLease PROVE page'[slot[s].page] = "LEASED"
  <2> DEFINE q == slot[s].page
  <2>1. slot[s] # NoLease /\ s # w.slot
    BY <1>3, <1>4
  <2>2. q \in Pages /\ page[q] = "LEASED" /\ LeaseOf(q) = slot[s]
    BY <2>1, LeaseTypes DEF SlotsMatchLeases
  <2>3. q # p
    BY <1>0, <2>1, <2>2 DEF SlotsMatchLeases
  <2> QED BY <1>2, <2>2, <2>3
<1>5. ASSUME NEW q \in Pages, page'[q] = "LEASED", LeaseOf(q) \notin lapsed'
      PROVE  /\ LeaseOf(q) \notin lapsed
             /\ \A s \in Slots : slot[s] = LeaseOf(q) => slot'[s] = slot[s]
  <2>1. page[q] = "LEASED" /\ q # p
    BY <1>2, <1>5
  <2>2. LeaseOf(q) \notin lapsed
    BY <1>1, <1>5, <2>1, LapsedStays
  <2>3. LeaseOf(q) # w.lease
    BY <1>0, <2>1 DEF LeaseOf
  <2> QED BY <1>0, <1>3, <2>2, <2>3
<1> QED BY <1>1, <1>2, <1>3, <1>4, <1>5, SlotsReleased

\* ReclaimExpired frees lapsed slots, whether or not it could lock their pages;
\* a page it takes the lease of had lapsed, and so had its slot.
LEMMA ReclaimExpiredSlots ==
  ASSUME TypeInv, SlotsMatchLeases, NEW rows, NEW expired, NEW ended,
         ReclaimExpired(rows, expired, ended)
  PROVE  SlotsMatchLeases'
<1>1. attempts' = attempts /\ lapsed' = lapsed \cap Held(page', attempts, slot')
  BY DEF ReclaimExpired
<1>2. \A q \in Pages : /\ page'[q] = "LEASED" => page[q] = "LEASED"
                       /\ page[q] = "LEASED" /\ LeaseOf(q) \notin lapsed => page'[q] = "LEASED"
  BY DEF ReclaimExpired, ExpireQueued, ExpireLeases, LapsedPages
<1>3. \A s \in Slots : slot'[s] = IF slot[s] \in lapsed THEN NoLease ELSE slot[s]
  BY DEF ReclaimExpired
<1>4. ASSUME NEW s \in Slots, slot'[s] # NoLease PROVE page'[slot[s].page] = "LEASED"
  <2> DEFINE q == slot[s].page
  <2>1. slot[s] # NoLease /\ slot[s] \notin lapsed
    BY <1>3, <1>4
  <2>2. q \in Pages /\ page[q] = "LEASED" /\ LeaseOf(q) = slot[s]
    BY <2>1, LeaseTypes DEF SlotsMatchLeases
  <2> QED BY <1>2, <2>1, <2>2
<1>5. ASSUME NEW q \in Pages, page'[q] = "LEASED", LeaseOf(q) \notin lapsed'
      PROVE  /\ LeaseOf(q) \notin lapsed
             /\ \A s \in Slots : slot[s] = LeaseOf(q) => slot'[s] = slot[s]
  <2>1. LeaseOf(q) \notin lapsed
    BY <1>1, <1>2, <1>5, LapsedStays
  <2> QED BY <1>3, <2>1
<1> QED BY <1>1, <1>2, <1>3, <1>4, <1>5, SlotsReleased

\* ClaimPage takes a slot that is free or whose lease has lapsed; the page that
\* loses it keeps a lapsed lease.
LEMMA ClaimPageSlots ==
  ASSUME TypeInv, SlotsMatchLeases, NEW p \in Pages, NEW s \in Slots, ClaimPage(p, s)
  PROVE  SlotsMatchLeases'
<1> DEFINE lease == [page |-> p, gen |-> attempts[p] + 1]
<1>1. /\ page[p] = "QUEUED" /\ s \in SlotsOf(p) /\ (slot[s] = NoLease \/ slot[s] \in lapsed)
      /\ \A t \in Slots : slot'[t] = IF t = s THEN lease ELSE slot[t]
      /\ \A q \in Pages : page'[q] = IF q = p THEN "LEASED" ELSE page[q]
      /\ \A q \in Pages : attempts'[q] = IF q = p THEN attempts[p] + 1 ELSE attempts[q]
      /\ lapsed' = lapsed \cap Held(page', attempts', slot')
  BY DEF ClaimPage, Available, TypeInv, TypeOK
<1>2. LeaseOf(p)' = lease /\ \A q \in Pages \ {p} : LeaseOf(q)' = LeaseOf(q)
  BY <1>1 DEF LeaseOf
<1>3. \A q : SlotsOf(q)' = SlotsOf(q) /\ SlotsOf(q) \subseteq Slots
  BY DEF SlotsOf, Slots
<1>4. \A t \in Slots : slot[t] # NoLease =>
        /\ slot[t].page \in Pages \ {p} /\ page[slot[t].page] = "LEASED"
        /\ LeaseOf(slot[t].page) = slot[t] /\ t \in SlotsOf(slot[t].page)
  BY <1>1, LeaseTypes DEF SlotsMatchLeases
<1>5. ASSUME NEW q \in Pages, page'[q] = "LEASED", LeaseOf(q)' \notin lapsed'
      PROVE  \E t \in SlotsOf(q)' : slot'[t] = LeaseOf(q)'
  <2>1. CASE q = p
    BY <1>1, <1>2, <1>3, <2>1
  <2>2. CASE q # p
    <3>1. page[q] = "LEASED" /\ LeaseOf(q)' = LeaseOf(q)
      BY <1>1, <1>2, <1>5, <2>2
    <3>2. LeaseOf(q) \in Leases /\ LeaseOf(q).page = q /\ LeaseOf(q).gen = attempts'[q]
      BY <1>1, <2>2, <3>1, LeaseTypes DEF LeaseOf
    <3>3. LeaseOf(q) \notin lapsed
      BY <1>1, <1>5, <3>1, <3>2 DEF Held
    <3>4. PICK t \in SlotsOf(q) : slot[t] = LeaseOf(q)
      BY <3>1, <3>3 DEF SlotsMatchLeases
    <3>5. slot[t] # NoLease
      BY <3>2, <3>4, NoLeaseAssumption
    <3>6. t # s
      BY <1>1, <3>3, <3>4, <3>5
    <3> QED BY <1>1, <1>3, <3>1, <3>4, <3>6
  <2> QED BY <2>1, <2>2
<1>6. ASSUME NEW t \in Slots, slot'[t] # NoLease
      PROVE  (LET q == slot[t].page IN page[q] = "LEASED" /\ LeaseOf(q) = slot[t] /\ t \in SlotsOf(q))'
  <2>1. CASE t = s
    BY <1>1, <2>1 DEF LeaseOf, SlotsOf, Slots
  <2>2. CASE t # s
    <3>1. slot'[t] = slot[t] /\ slot[t] # NoLease
      BY <1>1, <1>6, <2>2
    <3>2. slot[t].page \in Pages \ {p} /\ page[slot[t].page] = "LEASED"
          /\ LeaseOf(slot[t].page) = slot[t] /\ t \in SlotsOf(slot[t].page)
      BY <1>4, <3>1
    <3> QED BY <1>1, <3>1, <3>2 DEF LeaseOf, SlotsOf, Slots
  <2> QED BY <2>1, <2>2
<1>7. ASSUME NEW t \in Slots, NEW u \in Slots, slot'[t] = slot'[u], slot'[t] # NoLease
      PROVE  t = u
  <2>1. \A v \in Slots : slot[v] # lease \/ slot[v] = NoLease
    BY <1>4
  <2>2. lease # NoLease
    BY <1>1, LimitsAssumption, NoLeaseAssumption DEF TypeInv, TypeOK, PageRows, Leases
  <2> QED BY <1>1, <1>7, <2>1, <2>2 DEF SlotsMatchLeases
<1> QED BY <1>5, <1>6, <1>7 DEF SlotsMatchLeases, LeaseOf, SlotsOf, Slots

\* The heartbeat brings a lapsed lease back only while a slot still carries it.
LEMMA ExtendPageLeaseSlots ==
  ASSUME TypeInv, SlotsMatchLeases, NEW w \in fetching, ExtendPageLease(w)
  PROVE  SlotsMatchLeases'
<1>0. /\ UNCHANGED <<page, attempts, slot>> /\ lapsed' = lapsed \ {w.lease}
      /\ w.slot \in Slots /\ slot[w.slot] = w.lease /\ w.lease # NoLease
  BY NoLeaseAssumption DEF ExtendPageLease, LeaseCurrent, TypeInv, TypeOK, Fetches
<1>1. /\ \A q : LeaseOf(q)' = LeaseOf(q) /\ SlotsOf(q)' = SlotsOf(q)
      /\ Slots' = Slots
  BY <1>0 DEF LeaseOf, SlotsOf, Slots
<1>2. ASSUME NEW q \in Pages, page[q] = "LEASED", LeaseOf(q) \notin lapsed'
      PROVE  \E t \in SlotsOf(q) : slot[t] = LeaseOf(q)
  <2>1. CASE LeaseOf(q) = w.lease
    <3>1. slot[w.slot].page = q
      BY <1>0, <2>1 DEF LeaseOf
    <3>2. w.slot \in SlotsOf(slot[w.slot].page)
      BY <1>0 DEF SlotsMatchLeases
    <3> QED BY <1>0, <2>1, <3>1, <3>2
  <2>2. CASE LeaseOf(q) # w.lease
    BY <1>0, <1>2, <2>2 DEF SlotsMatchLeases
  <2> QED BY <2>1, <2>2
<1> QED BY <1>0, <1>1, <1>2 DEF SlotsMatchLeases, LeaseOf, SlotsOf, Slots

\* Every step keeps slots and leases in order.
LEMMA NextSlots == TypeInv /\ SlotsMatchLeases /\ [Next]_vars => SlotsMatchLeases'
<1> SUFFICES ASSUME TypeInv, SlotsMatchLeases, [Next]_vars PROVE SlotsMatchLeases'
  OBVIOUS
<1>0. ASSUME UNCHANGED <<attempts, slot>>, lapsed \subseteq lapsed',
             \A p \in Pages : page'[p] = "LEASED" <=> page[p] = "LEASED"
      PROVE  SlotsMatchLeases'
  <2>1. \A s \in Slots : slot'[s] # NoLease => page'[slot[s].page] = "LEASED"
    BY <1>0, LeaseTypes DEF SlotsMatchLeases
  <2> QED BY <1>0, <2>1, SlotsReleased
<1>1. CASE Command
  <2>1. ASSUME NEW e \in Executions, AcceptCommand(e) PROVE SlotsMatchLeases'
    BY <1>0, <2>1, PagesAssumption DEF AcceptCommand, TypeInv, TypeOK, PageRows
  <2> QED BY <1>1, <2>1, AcceptCancellationSlots DEF Command
<1>2. CASE Fetch
  <2>1. ASSUME NEW p \in Pages, NEW s \in Slots, ClaimPage(p, s) PROVE SlotsMatchLeases'
    BY <2>1, ClaimPageSlots
  <2>2. ASSUME NEW w \in fetching, CommitRetry(w) PROVE SlotsMatchLeases'
    BY <2>2, CommitSlots
  <2>3. ASSUME NEW w \in fetching, ExtendPageLease(w) PROVE SlotsMatchLeases'
    BY <2>3, ExtendPageLeaseSlots
  <2>4. ASSUME NEW w \in fetching, WorkerGone(w) PROVE SlotsMatchLeases'
    BY <1>0, <2>4 DEF WorkerGone
  <2>5. ASSUME NEW w \in fetching, NEW result, NEW new, CommitPageResult(w, result, new)
        PROVE SlotsMatchLeases'
    BY <2>5, CommitSlots
  <2> QED BY <1>2, <2>1, <2>2, <2>3, <2>4, <2>5 DEF Fetch
<1>3. CASE Time
  BY <1>0, <1>3 DEF Time, LeaseLapses, DeadlinePasses
<1>4. CASE Analytics
  <2>1. ASSUME NEW p \in Pages, CompleteAnalytics(p) PROVE SlotsMatchLeases'
    BY <1>0, <2>1 DEF CompleteAnalytics, TypeInv, TypeOK
  <2>2. ASSUME NEW rows, ClaimAnalytics(rows) PROVE SlotsMatchLeases'
    BY <1>0, <2>2 DEF ClaimAnalytics
  <2>3. ASSUME NEW p \in Pages, RetryAnalytics(p) PROVE SlotsMatchLeases'
    BY <1>0, <2>3 DEF RetryAnalytics
  <2> QED BY <1>4, <2>1, <2>2, <2>3 DEF Analytics
<1>5. CASE Reclaimer
  BY <1>5, ReclaimExpiredSlots DEF Reclaimer
<1>6. CASE UNCHANGED vars
  BY <1>0, <1>6 DEF vars
<1> QED BY <1>1, <1>2, <1>3, <1>4, <1>5, <1>6 DEF Next

\* At every moment a page under a live lease has a slot of its host and a slot is
\* held for one leased page only, so that no more than HostConcurrency pages of a
\* host are fetched under live leases, across all executions.
THEOREM SlotsAlwaysMatch == Spec => []SlotsMatchLeases
<1>1. Init => SlotsMatchLeases
  BY DEF Init, SlotsMatchLeases
<1>2. Spec => []TypeInv
  BY InitTypeInv, NextTypeInv, PTL DEF Spec
<1> QED BY <1>1, <1>2, NextSlots, PTL DEF Spec

\* Only ClaimPage adds to the leased pages of an execution.
LEMMA LeasedShrinks ==
  ASSUME TypeInv, [Next]_vars, NEW e \in Executions,
         ~ \E p \in Pages, s \in Slots : ClaimPage(p, s)
  PROVE  At(page', e, "LEASED") \subseteq At(page, e, "LEASED")
<1> SUFFICES ASSUME NEW p \in Pages, page'[p] = "LEASED" PROVE page[p] = "LEASED"
  BY DEF At
<1>1. CASE Command
  BY <1>1, PagesAssumption DEF Command, AcceptCommand, AcceptCancellation, TypeInv, TypeOK
<1>2. CASE Fetch
  <2>1. ASSUME NEW w \in fetching, CommitRetry(w) PROVE page[p] = "LEASED"
    BY <2>1 DEF CommitRetry, TypeInv, TypeOK
  <2>2. ASSUME NEW w \in fetching, NEW result, NEW new, CommitPageResult(w, result, new)
        PROVE  page[p] = "LEASED"
    BY <2>2 DEF CommitPageResult
  <2> QED BY <1>2, <2>1, <2>2 DEF Fetch, ExtendPageLease, WorkerGone
<1>3. CASE Time
  BY <1>3 DEF Time, LeaseLapses, DeadlinePasses
<1>4. CASE Analytics
  BY <1>4 DEF Analytics, ClaimAnalytics, RetryAnalytics, CompleteAnalytics, TypeInv, TypeOK
<1>5. CASE Reclaimer
  BY <1>5 DEF Reclaimer, ReclaimExpired, ExpireQueued, ExpireLeases
<1>6. CASE UNCHANGED vars
  BY <1>6 DEF vars
<1> QED BY <1>1, <1>2, <1>3, <1>4, <1>5, <1>6 DEF Next

\* The test of ClaimPage on the leased counter bounds the leased pages, because
\* the counter is exact (BooksInv).
LEMMA NextConcurrency ==
  TypeInv /\ BooksInv /\ ConcurrencyBounded /\ [Next]_vars => ConcurrencyBounded'
<1> SUFFICES ASSUME TypeInv, BooksInv, ConcurrencyBounded, [Next]_vars, NEW e \in Executions
             PROVE  Cardinality(At(page', e, "LEASED")) <= MaxConcurrency
  BY DEF ConcurrencyBounded, At
<1>0. Cardinality(At(page, e, "LEASED")) <= MaxConcurrency
  BY DEF ConcurrencyBounded
<1>1. ASSUME NEW p \in Pages, NEW s \in Slots, ClaimPage(p, s)
      PROVE  Cardinality(At(page', e, "LEASED")) <= MaxConcurrency
  <2>1. CASE e # ExecOf[p]
    <3>1. At(page', e, "LEASED") = At(page, e, "LEASED")
      BY <1>1, <2>1 DEF ClaimPage, At, TypeInv, TypeOK
    <3> QED BY <1>0, <3>1
  <2>2. CASE e = ExecOf[p]
    <3>1. MovedOne(page, page', e, "QUEUED", "LEASED", p)
      BY <1>1, <2>2 DEF ClaimPage, TypeInv, TypeOK, PagesOf, Moved, MovedOne
    <3>2. Cardinality(At(page', e, "LEASED")) = Cardinality(At(page, e, "LEASED")) + 1
      BY <3>1, MoveOnePage
    <3>3. count[e].leased = Cardinality(At(page, e, "LEASED")) /\ count[e].leased < MaxConcurrency
      BY <1>1, <2>2 DEF BooksInv, Books, ClaimPage, Claimable
    <3>4. Cardinality(At(page, e, "LEASED")) \in Nat
      BY PartCount DEF At
    <3> QED BY <3>2, <3>3, <3>4, LimitsAssumption
  <2> QED BY <2>1, <2>2
<1>2. CASE ~ \E p \in Pages, s \in Slots : ClaimPage(p, s)
  <2>1. At(page', e, "LEASED") \subseteq At(page, e, "LEASED")
    BY <1>2, LeasedShrinks
  <2>2. /\ IsFiniteSet(At(page, e, "LEASED")) /\ Cardinality(At(page, e, "LEASED")) \in Nat
        /\ Cardinality(At(page', e, "LEASED")) \in Nat
    BY PartCount DEF At
  <2>3. Cardinality(At(page', e, "LEASED")) <= Cardinality(At(page, e, "LEASED"))
    BY <2>1, <2>2, FS_Subset
  <2> QED BY <1>0, <2>2, <2>3, LimitsAssumption
<1> QED BY <1>1, <1>2

\* No execution has more than max_concurrency pages under lease, although workers
\* claim, lose and return them concurrently.
THEOREM ConcurrencyAlwaysBounded == Spec => []ConcurrencyBounded
<1>1. Init => ConcurrencyBounded
  <2> SUFFICES ASSUME Init, NEW e \in Executions PROVE Cardinality(At(page, e, "LEASED")) <= MaxConcurrency
    BY DEF ConcurrencyBounded
  <2>1. At(page, e, "LEASED") = {}
    BY DEF Init, At
  <2> QED BY <2>1, FS_EmptySet, LimitsAssumption
<1> QED BY <1>1, NextConcurrency, BooksAlways, PTL DEF Spec

-----------------------------------------------------------------------------
(* The frontier implements ExecutionLifecycle.                             *)

\* Between a result and its delivery: what was published is among the pages that
\* ended, and every page that succeeded was published.
Delivered(c) == c.succeeded <= c.published /\ c.published <= c.succeeded + c.failed + c.skipped

\* What the progress events need besides the agreement with the pages: nothing is
\* counted before the request, nothing is claimed while QUEUED, and the status of
\* an execution that ended by itself is still the one its counters call for.
Recorded(st, c, pg, e) ==
  /\ Delivered(c)
  /\ st = "NONE" => c = ZeroCount
  /\ st = "QUEUED" => \A p \in PagesOf(e) : pg[p] \in {"ABSENT", "QUEUED"}
  /\ st \in TerminalStatus \ {"CANCELLED"} => st = FinalStatus("RUNNING", c)

RecordInv == \A e \in Executions : Recorded(status[e], count[e], page, e)

\* The five ways in which a transaction treats an execution, by its columns.
Open(c) == c.queued + c.leased + c.persisting
Lost(c) == c.failed + c.skipped + c.cancelled

Stays(st, c, st2, d) ==
  /\ st2 = st /\ Open(d) = Open(c) /\ d.discovered = c.discovered
  /\ d.succeeded = c.succeeded /\ d.failed = c.failed /\ d.skipped = c.skipped
  /\ d.cancelled = c.cancelled /\ d.expected = c.expected /\ d.published = c.published
Starts(st, c, st2, d) ==
  st = "NONE" /\ st2 = "QUEUED" /\ d = Add(Add(c, "discovered", 1), "queued", 1)
IsCancelled(st, c, st2, d) ==
  /\ st \in {"QUEUED", "RUNNING"}
  /\ st2 = IF c.persisting = 0 THEN "CANCELLED" ELSE "CANCEL_REQUESTED"
  /\ d.queued = 0 /\ d.leased = 0 /\ d.persisting = c.persisting
  /\ d.cancelled = c.cancelled + c.queued + c.leased /\ d.discovered = c.discovered
  /\ d.succeeded = c.succeeded /\ d.failed = c.failed /\ d.skipped = c.skipped
  /\ d.expected = c.expected /\ d.published = c.published
Grows(c, d) ==
  /\ d.discovered >= c.discovered /\ d.succeeded >= c.succeeded /\ Lost(d) >= Lost(c)
  /\ d.expected >= c.expected /\ d.published >= c.published
WorksOn(st, c, st2, d) ==
  /\ st \in ActiveStatus /\ Grows(c, d) /\ ~Drained(d)
  /\ st2 = IF st = "CANCEL_REQUESTED" THEN st ELSE "RUNNING"
  /\ st = "CANCEL_REQUESTED" => d.discovered = c.discovered /\ d.expected = c.expected
IsOver(st, c, st2, d) ==
  st \in ActiveStatus /\ Grows(c, d) /\ Drained(d) /\ st2 = FinalStatus(st, d)

Treated(st, c, st2, d) ==
  \/ Stays(st, c, st2, d) \/ Starts(st, c, st2, d) \/ IsCancelled(st, c, st2, d)
  \/ WorksOn(st, c, st2, d) \/ IsOver(st, c, st2, d)

\* What every action does to every execution: its columns take one of the five
\* ways and stay Delivered, and before the request nothing is counted.
Progress(e) ==
  /\ Treated(status[e], count[e], status'[e], count'[e])
  /\ Delivered(count'[e])
  /\ status'[e] = "NONE" => count'[e] = count[e]

\* Rows an action does not touch stay as they are.
LEMMA OtherProgress ==
  ASSUME RecordInv, NEW e \in Executions, status'[e] = status[e], count'[e] = count[e]
  PROVE  Progress(e)
BY DEF RecordInv, Recorded, Progress, Treated, Stays, Open

\* The columns of a row that agrees with the pages are natural numbers.
LEMMA BooksNat ==
  ASSUME NEW c \in Tables, NEW pg, NEW e, Books(c, pg, e)
  PROVE  /\ c.queued \in Nat /\ c.leased \in Nat /\ c.persisting \in Nat
         /\ c.succeeded \in Nat /\ c.failed \in Nat /\ c.skipped \in Nat /\ c.cancelled \in Nat
<1>1. \A st : Cardinality(At(pg, e, st)) \in Nat
  BY PartCount DEF At
<1> QED BY <1>1 DEF Books

\* Drained, in terms of the open pages alone.
LEMMA DrainedIsNoneOpen ==
  ASSUME NEW c \in Tables, NEW pg, NEW e, Books(c, pg, e)
  PROVE  /\ Drained(c) <=> Open(c) = 0
         /\ Open(c) \in Nat
<1>1. c.published = c.expected <=> c.persisting = 0
  BY InFlight
<1>2. c.queued \in Nat /\ c.leased \in Nat /\ c.persisting \in Nat
  BY BooksNat
<1>3. /\ Open(c) \in Nat
      /\ Open(c) = 0 <=> c.queued = 0 /\ c.leased = 0 /\ c.persisting = 0
  BY <1>2 DEF Open
<1> QED BY <1>1, <1>3 DEF Drained

\* AcceptCommand starts one execution.
LEMMA AcceptCommandProgress ==
  ASSUME FrontierInv, RecordInv, NEW e0 \in Executions, AcceptCommand(e0), NEW e \in Executions
  PROVE  Progress(e)
<1> USE DEF FrontierInv
<1>1. CASE e # e0
  BY <1>1, OtherProgress DEF AcceptCommand, TypeInv, TypeOK
<1>2. CASE e = e0
  <2> DEFINE c == count[e]
             d == Add(Add(c, "discovered", 1), "queued", 1)
  <2>1. status[e] = "NONE" /\ status'[e] = "QUEUED" /\ count'[e] = d /\ c \in Tables
    BY <1>2 DEF AcceptCommand, TypeInv, TypeOK, Tables
  <2>2. "discovered" \in Columns /\ "queued" \in Columns \ {"discovered"}
    BY ColumnNames
  <2>3. \A i \in Columns \ {"discovered", "queued"} : d[i] = c[i]
    BY <2>1, <2>2, AddTwo
  <2>4. d.succeeded = c.succeeded /\ d.published = c.published /\ d.failed = c.failed
        /\ d.skipped = c.skipped
    BY <2>3, ColumnNames
  <2>5. Delivered(c)
    BY DEF RecordInv, Recorded
  <2>6. Delivered(d)
    BY <2>4, <2>5 DEF Delivered
  <2> QED BY <2>1, <2>6 DEF Progress, Treated, Starts
<1> QED BY <1>1, <1>2

\* AcceptCancellation takes exactly the queued and leased pages away.
LEMMA AcceptCancellationProgress ==
  ASSUME FrontierInv, RecordInv, NEW e0 \in Executions, AcceptCancellation(e0), NEW e \in Executions
  PROVE  Progress(e)
<1> USE DEF FrontierInv
<1>1. CASE e # e0
  BY <1>1, OtherProgress DEF AcceptCancellation, TypeInv, TypeOK
<1>2. CASE e = e0
  <2> DEFINE c == count[e]
             m == Cardinality(At(page, e, "QUEUED"))
             n == Cardinality(At(page, e, "LEASED"))
             d == Add(Add(Add(c, "queued", -m), "leased", -n), "cancelled", m + n)
  <2>1. c \in Tables /\ Books(c, page, e) /\ Delivered(c)
    BY DEF TypeInv, TypeOK, Tables, BooksInv, RecordInv, Recorded
  <2>2. m \in Nat /\ n \in Nat /\ c.queued = m /\ c.leased = n
    BY <2>1, BooksNat DEF Books
  <2>3. count'[e] = d /\ status[e] \in {"QUEUED", "RUNNING"}
    BY <1>2 DEF AcceptCancellation, Cancellable, TypeInv, TypeOK
  <2>4. status'[e] = IF c.persisting = 0 THEN "CANCELLED" ELSE "CANCEL_REQUESTED"
    <3>1. c.published = c.expected <=> c.persisting = 0
      BY <2>1, InFlight
    <3> QED BY <1>2, <3>1 DEF AcceptCancellation, TypeInv, TypeOK
  <2> HIDE DEF m, n
  <2>5. /\ d \in Tables /\ d.queued = c.queued + (-m) /\ d.leased = c.leased + (-n)
        /\ d.cancelled = c.cancelled + (m + n)
        /\ \A i \in Columns \ {"queued", "leased", "cancelled"} : d[i] = c[i]
    <3>1. /\ "queued" \in Columns /\ "leased" \in Columns \ {"queued"}
          /\ "cancelled" \in Columns \ {"queued", "leased"} /\ -m \in Int /\ -n \in Int /\ m + n \in Int
      BY <2>2, ColumnNames
    <3> QED BY <2>1, <3>1, AddThree
  <2>6. /\ d.persisting = c.persisting /\ d.discovered = c.discovered
        /\ d.succeeded = c.succeeded /\ d.failed = c.failed /\ d.skipped = c.skipped
        /\ d.expected = c.expected /\ d.published = c.published
    BY <2>5, ColumnNames
  <2>7. d.queued = 0 /\ d.leased = 0 /\ d.cancelled = c.cancelled + c.queued + c.leased
    BY <2>1, <2>2, <2>5, TableColumns
  <2> HIDE DEF c, d
  <2>8. Delivered(d)
    BY <2>1, <2>6 DEF Delivered
  <2>9. IsCancelled(status[e], c, status'[e], d)
    BY <2>3, <2>4, <2>6, <2>7 DEF IsCancelled
  <2> QED BY <2>3, <2>4, <2>8, <2>9 DEF Progress, Treated, c
<1> QED BY <1>1, <1>2

\* ClaimPage: the pages only change their kind of open, and the execution runs.
LEMMA ClaimPageProgress ==
  ASSUME FrontierInv, RecordInv, NEW p \in Pages, NEW s \in Slots, ClaimPage(p, s),
         TypeInv', BooksInv', NEW e \in Executions
  PROVE  Progress(e)
<1> USE DEF FrontierInv
<1>1. CASE e # ExecOf[p]
  BY <1>1, OtherProgress DEF ClaimPage, TypeInv, TypeOK
<1>2. CASE e = ExecOf[p]
  <2> DEFINE c == count[e]
             d == Add(Add(c, "queued", -1), "leased", 1)
  <2>1. c \in Tables /\ Delivered(c) /\ count'[e] = d
        /\ status[e] \in {"QUEUED", "RUNNING"} /\ status'[e] = "RUNNING"
    BY <1>2 DEF ClaimPage, Claimable, TypeInv, TypeOK, Tables, RecordInv, Recorded
  <2>2. /\ d.queued = c.queued + (-1) /\ d.leased = c.leased + 1
        /\ \A i \in Columns \ {"queued", "leased"} : d[i] = c[i]
    <3>1. "queued" \in Columns /\ "leased" \in Columns \ {"queued"} /\ -1 \in Int
      BY ColumnNames
    <3> QED BY <2>1, <3>1, AddTwo
  <2>3. /\ d.persisting = c.persisting /\ d.discovered = c.discovered
        /\ d.succeeded = c.succeeded /\ d.failed = c.failed /\ d.skipped = c.skipped
        /\ d.cancelled = c.cancelled /\ d.expected = c.expected /\ d.published = c.published
    BY <2>2, ColumnNames
  <2>4. p \in PagesOf(e) /\ page'[p] \in OpenPage
    BY <1>2 DEF ClaimPage, PagesOf, OpenPage, TypeInv, TypeOK
  <2>5. ~Drained(d)
    BY <2>1, <2>4, DrainedNext
  <2> HIDE DEF c, d
  <2>6. Delivered(d)
    BY <2>1, <2>3 DEF Delivered
  <2>7. Grows(c, d)
    BY <2>1, <2>3, TableColumns DEF Grows, Lost
  <2>8. WorksOn(status[e], c, status'[e], d)
    BY <2>1, <2>5, <2>7 DEF WorksOn, ActiveStatus
  <2> QED BY <2>1, <2>6, <2>8 DEF Progress, Treated, c
<1> QED BY <1>1, <1>2

\* CommitRetry: nothing an event reports has changed.
LEMMA CommitRetryProgress ==
  ASSUME FrontierInv, RecordInv, NEW w \in fetching, CommitRetry(w), NEW e \in Executions
  PROVE  Progress(e)
<1> USE DEF FrontierInv
<1> DEFINE p == w.lease.page
<1>0. p \in Pages /\ page[p] = "LEASED" /\ status' = status
  BY DEF TypeInv, TypeOK, Fetches, Leases, CommitRetry, LeaseCurrent
<1>1. CASE e # ExecOf[p]
  BY <1>0, <1>1, OtherProgress DEF CommitRetry, TypeInv, TypeOK
<1>2. CASE e = ExecOf[p]
  <2> DEFINE c == count[e]
             d == Add(Add(c, "leased", -1), "queued", 1)
  <2>1. c \in Tables /\ Delivered(c) /\ count'[e] = d /\ status[e] \in {"QUEUED", "RUNNING"}
    BY <1>0, <1>2, BusyExecution DEF CommitRetry, TypeInv, TypeOK, Tables, RecordInv, Recorded
  <2>2. /\ d.leased = c.leased + (-1) /\ d.queued = c.queued + 1
        /\ \A i \in Columns \ {"queued", "leased"} : d[i] = c[i]
    <3>1. "leased" \in Columns /\ "queued" \in Columns \ {"leased"} /\ -1 \in Int
      BY ColumnNames
    <3> QED BY <2>1, <3>1, AddTwo
  <2>3. /\ d.persisting = c.persisting /\ d.discovered = c.discovered
        /\ d.succeeded = c.succeeded /\ d.failed = c.failed /\ d.skipped = c.skipped
        /\ d.cancelled = c.cancelled /\ d.expected = c.expected /\ d.published = c.published
    BY <2>2, ColumnNames
  <2> HIDE DEF c, d
  <2>4. Delivered(d)
    BY <2>1, <2>3 DEF Delivered
  <2>5. Open(d) = Open(c)
    BY <2>1, <2>2, <2>3, TableColumns DEF Open
  <2>6. Stays(status[e], c, status'[e], d)
    BY <1>0, <2>3, <2>5 DEF Stays
  <2> QED BY <1>0, <2>1, <2>4, <2>6 DEF Progress, Treated, c
<1> QED BY <1>1, <1>2

\* CommitPageResult: a staged result, and the pages it found.
LEMMA CommitPageResultProgress ==
  ASSUME FrontierInv, RecordInv, NEW w \in fetching, NEW result, NEW new,
         CommitPageResult(w, result, new), TypeInv', BooksInv', NEW e \in Executions
  PROVE  Progress(e)
<1> USE DEF FrontierInv
<1> DEFINE p == w.lease.page
<1>0. p \in Pages /\ page[p] = "LEASED" /\ status' = status
  BY DEF TypeInv, TypeOK, Fetches, Leases, CommitPageResult, LeaseCurrent
<1>1. CASE e # ExecOf[p]
  BY <1>0, <1>1, OtherProgress DEF CommitPageResult, TypeInv, TypeOK
<1>2. CASE e = ExecOf[p]
  <2> DEFINE c == count[e]
             n == Cardinality(new)
             d == Add(Add(Add(Add(Add(c, "discovered", n), "queued", n), "leased", -1),
                          "persisting", 1), "expected", 1)
  <2>1. c \in Tables /\ Delivered(c) /\ count'[e] = d
    BY <1>0, <1>2 DEF CommitPageResult, TypeInv, TypeOK, Tables, RecordInv, Recorded
  <2>2. status[e] = "RUNNING"
    <3>1. status[e] # "QUEUED"
      BY <1>0, <1>2 DEF RecordInv, Recorded, PagesOf
    <3> QED BY <1>0, <1>2, <3>1, BusyExecution
  <2>3. n \in Nat
    <3>1. new \in SUBSET Pages
      BY DEF CommitPageResult, Discoverable, At
    <3> QED BY <3>1, PartCount
  <2> HIDE DEF n
  <2>4. /\ d.discovered = c.discovered + n /\ d.expected = c.expected + 1
        /\ d.published = c.published /\ d.succeeded = c.succeeded /\ d.failed = c.failed
        /\ d.skipped = c.skipped /\ d.cancelled = c.cancelled
    <3>1. n \in Int
      BY <2>3
    <3> QED BY <2>1, <3>1, AddFive
  <2>5. p \in PagesOf(e) /\ page'[p] \in OpenPage
    BY <1>0, <1>2 DEF CommitPageResult, PagesOf, OpenPage
  <2>6. ~Drained(d)
    BY <2>1, <2>5, DrainedNext
  <2> HIDE DEF c, d
  <2>7. Delivered(d)
    BY <2>1, <2>4 DEF Delivered
  <2>8. Grows(c, d)
    BY <2>1, <2>3, <2>4, TableColumns DEF Grows, Lost
  <2>9. WorksOn(status[e], c, status'[e], d)
    BY <1>0, <2>2, <2>6, <2>8 DEF WorksOn, ActiveStatus
  <2> QED BY <1>0, <2>1, <2>2, <2>7, <2>9 DEF Progress, Treated, c
<1> QED BY <1>1, <1>2

\* CompleteAnalytics: one result is published, perhaps the last.
LEMMA CompleteAnalyticsProgress ==
  ASSUME FrontierInv, RecordInv, NEW p \in Pages, CompleteAnalytics(p), NEW e \in Executions
  PROVE  Progress(e)
<1> USE DEF FrontierInv
<1>1. CASE e # ExecOf[p]
  BY <1>1, OtherProgress DEF CompleteAnalytics, TypeInv, TypeOK
<1>2. CASE e = ExecOf[p]
  <2> DEFINE c == count[e]
             r == pending[p]
             d == Published(c, r)
  <2>1. c \in Tables /\ Delivered(c) /\ count'[e] = d
        /\ status'[e] = IF Drained(d) THEN FinalStatus(status[e], d) ELSE status[e]
    BY <1>2 DEF CompleteAnalytics, TypeInv, TypeOK, Tables, RecordInv, Recorded
  <2>2. status[e] \in {"RUNNING", "CANCEL_REQUESTED"}
    <3>1. page[p] = "PERSISTING" /\ p \in PagesOf(e)
      BY <1>2 DEF CompleteAnalytics, PagesOf
    <3>2. status[e] # "QUEUED"
      BY <3>1 DEF RecordInv, Recorded
    <3> QED BY <1>2, <3>1, <3>2, BusyExecution DEF ActiveStatus
  <2> HIDE DEF c, r
  <2>3. ColumnOf(r) \in {"succeeded", "failed", "skipped"}
    BY DEF ColumnOf
  <2>4. /\ d.published = c.published + 1 /\ d[ColumnOf(r)] = c[ColumnOf(r)] + 1
        /\ \A i \in Columns \ {"persisting", "published", ColumnOf(r)} : d[i] = c[i]
    BY <2>1, PublishedColumns
  <2>5. d.discovered = c.discovered /\ d.expected = c.expected /\ d.cancelled = c.cancelled
    BY <2>3, <2>4, ColumnNames
  <2> HIDE DEF d
  <2>6. /\ c.succeeded \in Int /\ c.failed \in Int /\ c.skipped \in Int /\ c.cancelled \in Int
        /\ c.published \in Int /\ c.discovered \in Int /\ c.expected \in Int
    BY <2>1, TableColumns
  <2>7. \/ d.succeeded = c.succeeded + 1 /\ d.failed = c.failed /\ d.skipped = c.skipped
        \/ d.succeeded = c.succeeded /\ d.failed = c.failed + 1 /\ d.skipped = c.skipped
        \/ d.succeeded = c.succeeded /\ d.failed = c.failed /\ d.skipped = c.skipped + 1
    <3>1. CASE ColumnOf(r) = "succeeded" BY <2>4, <3>1, ColumnNames
    <3>2. CASE ColumnOf(r) = "failed" BY <2>4, <3>2, ColumnNames
    <3>3. CASE ColumnOf(r) = "skipped" BY <2>4, <3>3, ColumnNames
    <3> QED BY <2>3, <3>1, <3>2, <3>3
  <2>8. Delivered(d)
    BY <2>1, <2>4, <2>6, <2>7 DEF Delivered
  <2>9. Grows(c, d)
    BY <2>4, <2>5, <2>6, <2>7 DEF Grows, Lost
  <2>10. WorksOn(status[e], c, status'[e], d) \/ IsOver(status[e], c, status'[e], d)
    BY <2>1, <2>2, <2>5, <2>9 DEF WorksOn, IsOver, ActiveStatus
  <2>11. status'[e] # "NONE"
    BY <2>1, <2>2, FinalIsTerminal DEF TerminalStatus
  <2> QED BY <2>1, <2>8, <2>10, <2>11 DEF Progress, Treated, c
<1> QED BY <1>1, <1>2

\* The reclaimer only moves pages from open to failed: what Tally does to the
\* columns the events report.
LEMMA TallyGrows ==
  ASSUME NEW e \in Executions, count[e] \in Tables, NEW expired \in SUBSET Pages, NEW ended
  PROVE  LET c == count[e]
             d == Tally(e, expired, ended)
         IN /\ d \in Tables /\ d.failed >= c.failed
            /\ d.discovered = c.discovered /\ d.succeeded = c.succeeded /\ d.skipped = c.skipped
            /\ d.cancelled = c.cancelled /\ d.expected = c.expected /\ d.published = c.published
<1> DEFINE c == count[e]
           page1 == ExpireLeases(page, expired)
           T == {p \in expired : ExecOf[p] = e}
           G == {p \in expired : ExecOf[p] = e /\ page1[p] = "QUEUED"}
           taken == Cardinality(T)
           given == Cardinality(G)
           late == IF e \in ended THEN Cardinality(At(page1, e, "QUEUED")) ELSE 0
           d == Add(Add(Add(c, "leased", -taken), "queued", given - late),
                    "failed", taken - given + late)
<1>1. taken \in Nat /\ given \in Nat /\ late \in Nat
  <2>1. T \in SUBSET Pages /\ G \in SUBSET Pages /\ At(page1, e, "QUEUED") \in SUBSET Pages
    BY DEF At
  <2> QED BY <2>1, PartCount
<1>2. given <= taken
  <2>1. IsFiniteSet(T)
    BY PartCount
  <2>2. G \subseteq T
    OBVIOUS
  <2> QED BY <2>1, <2>2, FS_Subset
<1>3. Tally(e, expired, ended) = d
  BY DEF Tally
<1> HIDE DEF taken, given, late
<1>4. -taken \in Int /\ given - late \in Int /\ taken - given + late \in Nat
  BY <1>1, <1>2
<1>5. /\ d \in Tables /\ d.failed = c.failed + (taken - given + late)
      /\ \A i \in Columns \ {"leased", "queued", "failed"} : d[i] = c[i]
  BY <1>4, TallyColumns
<1>6. /\ d.discovered = c.discovered /\ d.succeeded = c.succeeded /\ d.skipped = c.skipped
      /\ d.cancelled = c.cancelled /\ d.expected = c.expected /\ d.published = c.published
  BY <1>5, ColumnNames
<1>7. c.failed \in Int
  BY TableColumns
<1> HIDE DEF c, d
<1>8. d.failed >= c.failed
  BY <1>4, <1>5, <1>7
<1> QED BY <1>3, <1>5, <1>6, <1>8 DEF c

\* ReclaimExpired: an execution it has nothing to do for stays, another one works
\* on or is over. A QUEUED one past its deadline has nothing left.
LEMMA ReclaimExpiredProgress ==
  ASSUME FrontierInv, RecordInv, NEW rows, NEW expired, NEW ended,
         ReclaimExpired(rows, expired, ended), TypeInv', BooksInv', NEW e \in Executions
  PROVE  Progress(e)
<1> USE DEF FrontierInv
<1> DEFINE c == count[e]
           d == Tally(e, expired, ended)
<1>1. c \in Tables /\ Books(c, page, e) /\ Delivered(c)
  BY DEF TypeInv, TypeOK, Tables, BooksInv, RecordInv, Recorded
<1>2. count'[e] = d /\ status'[e] = IF status[e] \in ActiveStatus /\ Drained(d)
                                    THEN FinalStatus(status[e], d) ELSE status[e]
  BY DEF ReclaimExpired
<1>3. expired \in SUBSET Pages
  BY DEF ReclaimExpired, LapsedPages
<1>4. CASE (\A p \in expired : ExecOf[p] # e) /\ e \notin ended
  <2>1. d = c
    BY <1>1, <1>4, TallyIdle
  <2>2. status[e] \in ActiveStatus => ~Drained(c)
    BY DrainedNow DEF EndInv, Settled
  <2> QED BY <1>2, <2>1, <2>2, OtherProgress
<1>5. CASE ~((\A p \in expired : ExecOf[p] # e) /\ e \notin ended)
  <2>1. status[e] \in {"QUEUED", "RUNNING"}
    BY <1>5, BusyExecution DEF ReclaimExpired, LapsedPages, Ended
  <2>2. status[e] = "QUEUED" => Drained(d)
    <3> SUFFICES ASSUME status[e] = "QUEUED" PROVE Drained(d)
      OBVIOUS
    <3>1. \A p \in PagesOf(e) : page[p] \in {"ABSENT", "QUEUED"}
      BY DEF RecordInv, Recorded
    <3>2. \A p \in expired : ExecOf[p] # e
      BY <3>1 DEF ReclaimExpired, LapsedPages, PagesOf
    <3>3. \A p \in PagesOf(e) : page'[p] \in {"ABSENT", "FAILED"}
      BY <1>5, <3>1, <3>2 DEF ReclaimExpired, ExpireQueued, ExpireLeases, PagesOf
    <3>4. \A p \in PagesOf(e) : page'[p] \notin OpenPage
      BY <3>3 DEF OpenPage
    <3> QED BY <1>2, <3>4, DrainedNext
  <2>3. /\ d.failed >= c.failed /\ d \in Tables
        /\ d.discovered = c.discovered /\ d.succeeded = c.succeeded /\ d.skipped = c.skipped
        /\ d.cancelled = c.cancelled /\ d.expected = c.expected /\ d.published = c.published
    BY <1>1, <1>3, TallyGrows
  <2> HIDE DEF c, d
  <2>4. /\ c.succeeded \in Int /\ c.failed \in Int /\ c.skipped \in Int /\ c.cancelled \in Int
        /\ c.published \in Int /\ c.discovered \in Int /\ c.expected \in Int /\ d.failed \in Int
    BY <1>1, <2>3, TableColumns
  <2>5. Delivered(d)
    BY <1>1, <2>3, <2>4 DEF Delivered
  <2>6. Grows(c, d)
    BY <2>3, <2>4 DEF Grows, Lost
  <2>7. WorksOn(status[e], c, status'[e], d) \/ IsOver(status[e], c, status'[e], d)
    BY <1>2, <2>1, <2>2, <2>6 DEF WorksOn, IsOver, ActiveStatus
  <2>8. status'[e] # "NONE"
    BY <1>2, <2>1, FinalIsTerminal DEF TerminalStatus
  <2> QED BY <1>2, <2>5, <2>7, <2>8 DEF Progress, Treated, c
<1> QED BY <1>4, <1>5

\* Every step of the frontier is progress of every execution.
LEMMA NextProgress ==
  ASSUME FrontierInv, RecordInv, [Next]_vars, NEW e \in Executions
  PROVE  Progress(e)
<1>a. TypeInv' /\ BooksInv'
  BY NextTypeInv, NextBooks DEF FrontierInv
<1>0. UNCHANGED <<status, count>> => Progress(e)
  BY OtherProgress
<1>1. CASE Command
  BY <1>1, AcceptCommandProgress, AcceptCancellationProgress DEF Command
<1>2. CASE Fetch
  <2>1. ASSUME NEW p \in Pages, NEW s \in Slots, ClaimPage(p, s) PROVE Progress(e)
    BY <1>a, <2>1, ClaimPageProgress
  <2>2. ASSUME NEW w \in fetching, CommitRetry(w) PROVE Progress(e)
    BY <2>2, CommitRetryProgress
  <2>3. ASSUME NEW w \in fetching, ExtendPageLease(w) \/ WorkerGone(w) PROVE Progress(e)
    BY <1>0, <2>3 DEF ExtendPageLease, WorkerGone
  <2>4. ASSUME NEW w \in fetching, NEW result, NEW new, CommitPageResult(w, result, new)
        PROVE Progress(e)
    BY <1>a, <2>4, CommitPageResultProgress
  <2> QED BY <1>2, <2>1, <2>2, <2>3, <2>4 DEF Fetch
<1>3. CASE Time
  BY <1>0, <1>3 DEF Time, LeaseLapses, DeadlinePasses
<1>4. CASE Analytics
  <2>1. ASSUME NEW p \in Pages, CompleteAnalytics(p) PROVE Progress(e)
    BY <2>1, CompleteAnalyticsProgress
  <2>2. ASSUME NEW rows, ClaimAnalytics(rows) PROVE Progress(e)
    BY <1>0, <2>2 DEF ClaimAnalytics
  <2>3. ASSUME NEW p \in Pages, RetryAnalytics(p) PROVE Progress(e)
    BY <1>0, <2>3 DEF RetryAnalytics
  <2> QED BY <1>4, <2>1, <2>2, <2>3 DEF Analytics
<1>5. CASE Reclaimer
  BY <1>a, <1>5, ReclaimExpiredProgress DEF Reclaimer
<1>6. CASE UNCHANGED vars
  BY <1>0, <1>6 DEF vars
<1> QED BY <1>1, <1>2, <1>3, <1>4, <1>5, <1>6 DEF Next

\* Nothing of a QUEUED execution has been claimed.
LEMMA QueuedUntouched ==
  ASSUME FrontierInv, RecordInv, [Next]_vars, NEW e \in Executions, status'[e] = "QUEUED"
  PROVE  \A p \in PagesOf(e) : page'[p] \in {"ABSENT", "QUEUED"}
<1> USE DEF FrontierInv
<1> DEFINE Goal == \A p \in PagesOf(e) : page'[p] \in {"ABSENT", "QUEUED"}
<1>a. EndInv'
  BY NextEnd
<1>0. ASSUME status[e] = "QUEUED", \A p \in PagesOf(e) : page'[p] = page[p] PROVE Goal
  BY <1>0 DEF RecordInv, Recorded
<1>b. ASSUME NEW p \in Pages, page[p] \in {"LEASED", "PERSISTING"}, status[e] = "QUEUED"
      PROVE  ExecOf[p] # e
  BY <1>b DEF RecordInv, Recorded, PagesOf
<1>1. CASE Command
  <2>1. ASSUME NEW e0 \in Executions, AcceptCommand(e0) PROVE Goal
    <3>1. CASE e = e0
      <4>1. \A p \in PagesOf(e) : page[p] = "ABSENT"
        BY <2>1, <3>1 DEF AcceptCommand, TypeInv, PageRows, PagesOf
      <4> QED BY <2>1, <4>1 DEF AcceptCommand, TypeInv, TypeOK, PagesOf
    <3>2. CASE e # e0
      BY <1>0, <2>1, <3>2, PagesAssumption DEF AcceptCommand, TypeInv, TypeOK, PagesOf
    <3> QED BY <3>1, <3>2
  <2>2. ASSUME NEW e0 \in Executions, AcceptCancellation(e0) PROVE Goal
    <3>1. e # e0
      BY <2>2 DEF AcceptCancellation, TypeInv, TypeOK
    <3> QED BY <1>0, <2>2, <3>1 DEF AcceptCancellation, At, PagesOf, TypeInv, TypeOK
  <2> QED BY <1>1, <2>1, <2>2 DEF Command
<1>2. CASE Fetch
  <2>1. ASSUME NEW p \in Pages, NEW s \in Slots, ClaimPage(p, s) PROVE Goal
    BY <1>0, <2>1, PagesAssumption DEF ClaimPage, TypeInv, TypeOK, PagesOf
  <2>2. ASSUME NEW w \in fetching, NEW result, NEW new,
               CommitRetry(w) \/ CommitPageResult(w, result, new)
        PROVE  Goal
    <3>1. w.lease.page \in Pages /\ page[w.lease.page] = "LEASED" /\ status' = status
      BY <2>2 DEF TypeInv, TypeOK, Fetches, Leases, CommitRetry, CommitPageResult, LeaseCurrent
    <3>2. ExecOf[w.lease.page] # e
      BY <1>b, <3>1
    <3>3. \A p \in PagesOf(e) : page'[p] = page[p]
      BY <2>2, <3>1, <3>2
      DEF CommitRetry, CommitPageResult, Discoverable, PagesOf, At, TypeInv, TypeOK
    <3> QED BY <1>0, <3>1, <3>3
  <2>3. ASSUME NEW w \in fetching, ExtendPageLease(w) \/ WorkerGone(w) PROVE Goal
    BY <1>0, <2>3 DEF ExtendPageLease, WorkerGone
  <2> QED BY <1>2, <2>1, <2>2, <2>3 DEF Fetch
<1>3. CASE Time
  BY <1>0, <1>3 DEF Time, LeaseLapses, DeadlinePasses
<1>4. CASE Analytics
  <2>1. ASSUME NEW p \in Pages, CompleteAnalytics(p) PROVE Goal
    <3>1. status[e] = "QUEUED"
      BY <2>1, FinalIsTerminal DEF CompleteAnalytics, TerminalStatus, TypeInv, TypeOK
    <3>2. ExecOf[p] # e
      BY <1>b, <2>1, <3>1 DEF CompleteAnalytics
    <3> QED BY <1>0, <2>1, <3>1, <3>2 DEF CompleteAnalytics, PagesOf, TypeInv, TypeOK
  <2>2. ASSUME NEW rows, ClaimAnalytics(rows) PROVE Goal
    BY <1>0, <2>2 DEF ClaimAnalytics
  <2>3. ASSUME NEW p \in Pages, RetryAnalytics(p) PROVE Goal
    BY <1>0, <2>3 DEF RetryAnalytics
  <2> QED BY <1>4, <2>1, <2>2, <2>3 DEF Analytics
<1>5. CASE Reclaimer
  <2> SUFFICES ASSUME NEW rows, NEW expired, NEW ended, ReclaimExpired(rows, expired, ended)
               PROVE  Goal
    BY <1>5 DEF Reclaimer
  <2>1. status[e] = "QUEUED"
    BY FinalIsTerminal DEF ReclaimExpired, TerminalStatus
  <2>2. \A p \in PagesOf(e) : page[p] \in {"ABSENT", "QUEUED"} /\ p \notin expired
    BY <2>1 DEF RecordInv, Recorded, ReclaimExpired, LapsedPages
  <2>3. e \in ended => \A p \in PagesOf(e) : page'[p] \in {"ABSENT", "FAILED"}
    BY <2>2 DEF ReclaimExpired, ExpireQueued, ExpireLeases, PagesOf
  <2>4. \E p \in PagesOf(e) : page'[p] \in OpenPage
    BY <1>a DEF EndInv, Settled, ActiveStatus
  <2>5. e \notin ended
    BY <2>3, <2>4 DEF OpenPage
  <2> QED BY <1>0, <2>1, <2>2, <2>5 DEF ReclaimExpired, ExpireQueued, ExpireLeases, PagesOf
<1>6. CASE UNCHANGED vars
  BY <1>0, <1>6 DEF vars
<1> QED BY <1>1, <1>2, <1>3, <1>4, <1>5, <1>6 DEF Next

\* FinalStatus of an execution that was not cancelled does not look at its status.
LEMMA VerdictOfCounters ==
  ASSUME NEW st, NEW c, st # "CANCEL_REQUESTED"
  PROVE  FinalStatus(st, c) = FinalStatus("RUNNING", c)
BY DEF FinalStatus

\* Every step keeps the record in order.
LEMMA NextRecord == FrontierInv /\ RecordInv /\ [Next]_vars => RecordInv'
<1> SUFFICES ASSUME FrontierInv, RecordInv, [Next]_vars, NEW e \in Executions
             PROVE  Recorded(status'[e], count'[e], page', e)
  BY DEF RecordInv
<1> DEFINE c == count[e]
           d == count'[e]
<1>1. Progress(e)
  BY NextProgress
<1>2. Recorded(status[e], c, page, e)
  BY DEF RecordInv
<1>3. status'[e] = "NONE" => d = ZeroCount
  <2>1. status'[e] = "NONE" => status[e] = "NONE"
    BY <1>1, FinalIsTerminal
    DEF Progress, Treated, Stays, Starts, IsCancelled, WorksOn, IsOver, ActiveStatus, TerminalStatus
  <2> QED BY <1>1, <1>2, <2>1 DEF Progress, Recorded
<1>4. status'[e] = "QUEUED" => \A p \in PagesOf(e) : page'[p] \in {"ABSENT", "QUEUED"}
  BY QueuedUntouched
<1>5. status'[e] \in TerminalStatus \ {"CANCELLED"} => status'[e] = FinalStatus("RUNNING", d)
  <2>1. CASE Terminal(e)
    <3>1. status'[e] = status[e] /\ d = c
      BY <2>1, FinishedStays
    <3> QED BY <1>2, <3>1 DEF Recorded
  <2>2. CASE ~Terminal(e)
    <3>1. status'[e] \in TerminalStatus \ {"CANCELLED"}
            => status'[e] = FinalStatus(status[e], d)
      BY <1>1, <2>2
      DEF Terminal, Progress, Treated, Stays, Starts, IsCancelled, WorksOn, IsOver, ActiveStatus,
          TerminalStatus
    <3>2. status[e] = "CANCEL_REQUESTED" => FinalStatus(status[e], d) = "CANCELLED"
      BY DEF FinalStatus
    <3> QED BY <3>1, <3>2, VerdictOfCounters
  <2> QED BY <2>1, <2>2
<1> QED BY <1>1, <1>3, <1>4, <1>5 DEF Progress, Recorded

\* The record is in order in every state.
LEMMA RecordAlways == Spec => [](FrontierInv /\ RecordInv)
<1>1. Init => RecordInv
  BY ColumnNames DEF Init, RecordInv, Recorded, Delivered, ZeroCount, TerminalStatus
<1>2. FrontierInv /\ RecordInv /\ [Next]_vars => (FrontierInv /\ RecordInv)'
  BY NextRecord, NextTypeInv, NextBooks, NextEnd DEF FrontierInv
<1> QED BY <1>1, <1>2, FrontierAlways, NextRecord, PTL DEF Spec

\* What a progress event shows of a row.
Shown(st, c) ==
  [status |-> st, discovered |-> c.discovered, open |-> Open(c), succeeded |-> c.succeeded,
   failed |-> Lost(c), expected |-> c.expected, published |-> c.published]

\* A row in order shows a balanced snapshot within max_pages.
LEMMA ShownBalanced ==
  ASSUME NEW c \in Tables, NEW pg, NEW e, Books(c, pg, e), Delivered(c),
         NEW st \in {"NONE"} \cup ActiveStatus \cup TerminalStatus
  PROVE  Lifecycle!Balanced(Shown(st, c)) /\ Shown(st, c) \in Lifecycle!Snapshot
<1>1. /\ c.queued \in Nat /\ c.leased \in Nat /\ c.persisting \in Nat
      /\ c.succeeded \in Nat /\ c.failed \in Nat /\ c.skipped \in Nat /\ c.cancelled \in Nat
      /\ c.discovered \in Int /\ c.expected \in Int /\ c.published \in Int
  BY BooksNat, TableColumns
<1>2. MaxPages \in Nat
  BY LimitsAssumption
<1>3. /\ c.discovered = Open(c) + c.succeeded + Lost(c) /\ c.discovered <= MaxPages
      /\ c.published <= c.expected /\ c.expected <= c.published + Open(c)
      /\ c.succeeded <= c.published /\ c.published <= c.succeeded + Lost(c)
      /\ Open(c) \in Nat /\ Lost(c) \in Nat
  BY <1>1 DEF Books, Delivered, Open, Lost
<1>4. Lifecycle!Balanced(Shown(st, c))
  BY <1>3 DEF Lifecycle!Balanced, Shown
<1>5. /\ c.discovered \in 0 .. MaxPages /\ Open(c) \in 0 .. MaxPages
      /\ c.succeeded \in 0 .. MaxPages /\ Lost(c) \in 0 .. MaxPages
      /\ c.expected \in 0 .. MaxPages /\ c.published \in 0 .. MaxPages
  BY <1>1, <1>2, <1>3
<1>6. Shown(st, c) \in Lifecycle!Snapshot
  BY <1>5 DEF Lifecycle!Snapshot, Lifecycle!Actives, Lifecycle!Finals, Shown, ActiveStatus, TerminalStatus
<1> QED BY <1>4, <1>6

\* Each way of treating an execution is, in the events, nothing or one step of
\* ExecutionLifecycle.
LEMMA TreatedAdvances ==
  ASSUME NEW c \in Tables, NEW d \in Tables, NEW pg, NEW pg2, NEW e,
         Books(c, pg, e), Books(d, pg2, e), Delivered(d),
         NEW st, NEW st2 \in {"NONE"} \cup ActiveStatus \cup TerminalStatus,
         st = "NONE" => c = ZeroCount, Treated(st, c, st2, d)
  PROVE  Shown(st2, d) = Shown(st, c) \/ Lifecycle!Advances(Shown(st, c), Shown(st2, d))
<1> DEFINE x == Shown(st, c)
           y == Shown(st2, d)
<1>1. Lifecycle!Balanced(y)
  BY ShownBalanced
<1>2. /\ c.queued \in Nat /\ c.leased \in Nat /\ c.persisting \in Nat
      /\ c.succeeded \in Nat /\ c.failed \in Nat /\ c.skipped \in Nat /\ c.cancelled \in Nat
      /\ c.discovered \in Int /\ c.expected \in Int /\ c.published \in Int
      /\ d.discovered \in Int /\ d.expected \in Int /\ d.published \in Int
  BY BooksNat, TableColumns
<1>3. CASE Stays(st, c, st2, d)
  BY <1>3 DEF Stays, Shown, Lost
<1>4. CASE Starts(st, c, st2, d)
  <2>1. c = ZeroCount /\ st = "NONE" /\ st2 = "QUEUED"
    BY <1>4 DEF Starts
  <2>2. /\ c.discovered = 0 /\ c.queued = 0 /\ c.leased = 0 /\ c.persisting = 0 /\ c.succeeded = 0
        /\ c.failed = 0 /\ c.skipped = 0 /\ c.cancelled = 0 /\ c.expected = 0 /\ c.published = 0
    BY <2>1, ColumnNames DEF ZeroCount
  <2>3. /\ "discovered" \in Columns /\ "queued" \in Columns \ {"discovered"}
        /\ d = Add(Add(c, "discovered", 1), "queued", 1)
    BY <1>4, ColumnNames DEF Starts
  <2>4. /\ d.discovered = c.discovered + 1 /\ d.queued = c.queued + 1
        /\ \A i \in Columns \ {"discovered", "queued"} : d[i] = c[i]
    BY <2>3, AddTwo
  <2>5. /\ d.leased = 0 /\ d.persisting = 0 /\ d.succeeded = 0 /\ d.failed = 0 /\ d.skipped = 0
        /\ d.cancelled = 0 /\ d.expected = 0 /\ d.published = 0
    BY <2>2, <2>4, ColumnNames
  <2>6. d.discovered = 1 /\ d.queued = 1
    BY <2>2, <2>4
  <2>7. Open(c) = 0 /\ Lost(c) = 0 /\ Open(d) = 1 /\ Lost(d) = 0
    BY <2>2, <2>5, <2>6 DEF Open, Lost
  <2>8. x = Lifecycle!NotStarted
    BY <2>1, <2>2, <2>7 DEF Shown, Lifecycle!NotStarted
  <2>9. y = Lifecycle!Accepted
    BY <2>1, <2>5, <2>6, <2>7 DEF Shown, Lifecycle!NotStarted, Lifecycle!Accepted
  <2> QED BY <2>8, <2>9 DEF Lifecycle!Advances
<1>5. CASE IsCancelled(st, c, st2, d)
  <2>1. c.expected - c.published = c.persisting
    BY <1>2 DEF Books
  <2>2. Open(d) = c.persisting /\ Lost(d) = Lost(c) + Open(c) - c.persisting /\ Lost(d) >= Lost(c)
    BY <1>2, <1>5 DEF IsCancelled, Open, Lost
  <2>3. y = Lifecycle!Cancelled(x)
    BY <1>5, <2>1, <2>2 DEF IsCancelled, Shown, Lifecycle!Cancelled
  <2>4. Lifecycle!Cancels(x, y)
    BY <1>5, <2>3 DEF IsCancelled, Shown, Lifecycle!Cancels
  <2>5. Lifecycle!Forward(x, y)
    BY <1>2, <1>5, <2>2 DEF IsCancelled, Shown, Lifecycle!Forward
  <2> QED BY <1>1, <2>4, <2>5 DEF Lifecycle!Advances
<1>6. CASE WorksOn(st, c, st2, d)
  <2>1. Open(d) > 0
    <3>1. Open(d) \in Nat /\ Open(d) # 0
      BY <1>6, DrainedIsNoneOpen DEF WorksOn
    <3> QED BY <3>1
  <2>2. Lifecycle!Forward(x, y)
    BY <1>6 DEF WorksOn, Grows, Shown, Lifecycle!Forward
  <2>3. Lifecycle!Works(x, y)
    BY <1>6, <2>1 DEF WorksOn, Shown, ActiveStatus, Lifecycle!Works, Lifecycle!WorkingStatus, Lifecycle!Actives
  <2> QED BY <1>1, <2>2, <2>3 DEF Lifecycle!Advances
<1>7. CASE IsOver(st, c, st2, d)
  <2>1. Open(d) = 0 /\ d.published = d.expected
    BY <1>7, DrainedIsNoneOpen DEF IsOver, Drained
  <2>2. Lifecycle!Forward(x, y)
    BY <1>7 DEF IsOver, Grows, Shown, Lifecycle!Forward
  <2>3. st2 = IF st = "CANCEL_REQUESTED" THEN "CANCELLED" ELSE Lifecycle!EndStatus(y)
    BY <1>7 DEF IsOver, FinalStatus, Lost, Shown, Lifecycle!EndStatus
  <2>4. Lifecycle!Ends(x, y)
    BY <1>7, <2>1, <2>3 DEF IsOver, Shown, ActiveStatus, Lifecycle!Ends, Lifecycle!Actives
  <2> QED BY <1>1, <2>2, <2>4 DEF Lifecycle!Advances
<1> QED BY <1>3, <1>4, <1>5, <1>6, <1>7 DEF Treated

\* A progress event shows its row.
LEMMA SnapshotIsShown ==
  ASSUME NEW e \in Executions
  PROVE  /\ ProgressSnapshot(e) = Shown(status[e], count[e])
         /\ ProgressSnapshot(e)' = Shown(status'[e], count'[e])
BY DEF ProgressSnapshot, Shown, Open, Lost

\* Seen through the progress events, every step is a step of ExecutionLifecycle.
LEMMA NextRefines ==
  ASSUME FrontierInv, RecordInv, [Next]_vars
  PROVE  [Lifecycle!Next]_([e \in Executions |-> ProgressSnapshot(e)])
<1> USE DEF FrontierInv
<1>1. TypeInv' /\ BooksInv' /\ RecordInv'
  BY NextTypeInv, NextBooks, NextRecord
<1>2. ASSUME NEW e \in Executions
      PROVE  /\ ProgressSnapshot(e)' \in Lifecycle!Snapshot
             /\ \/ ProgressSnapshot(e)' = ProgressSnapshot(e)
                \/ Lifecycle!Advances(ProgressSnapshot(e), ProgressSnapshot(e)')
  <2>1. /\ count[e] \in Tables /\ count'[e] \in Tables
        /\ Books(count[e], page, e) /\ Books(count'[e], page', e)
        /\ Delivered(count'[e]) /\ (status[e] = "NONE" => count[e] = ZeroCount)
        /\ status'[e] \in {"NONE"} \cup ActiveStatus \cup TerminalStatus
    BY <1>1 DEF TypeInv, TypeOK, Tables, BooksInv, RecordInv, Recorded
  <2>2. Treated(status[e], count[e], status'[e], count'[e])
    BY NextProgress DEF Progress
  <2>3. Shown(status'[e], count'[e]) \in Lifecycle!Snapshot
    BY <2>1, ShownBalanced
  <2>4. \/ Shown(status'[e], count'[e]) = Shown(status[e], count[e])
        \/ Lifecycle!Advances(Shown(status[e], count[e]), Shown(status'[e], count'[e]))
    BY <2>1, <2>2, TreatedAdvances
  <2> QED BY <2>3, <2>4, SnapshotIsShown
<1> QED BY <1>2 DEF Lifecycle!Next

\* The status publicStatus computes for an event is the row's.
LEMMA RecordedIsPublic == RecordInv => PublicStatusAgrees
<1> SUFFICES ASSUME RecordInv, NEW e \in Executions
             PROVE  PublicStatus(ProgressSnapshot(e)) = status[e]
  BY DEF PublicStatusAgrees
<1>1. status[e] \in TerminalStatus \ {"CANCELLED"} => status[e] = FinalStatus("RUNNING", count[e])
  BY DEF RecordInv, Recorded
<1>2. /\ ProgressSnapshot(e).status = status[e]
      /\ ProgressSnapshot(e).succeeded = count[e].succeeded
      /\ ProgressSnapshot(e).failed = count[e].failed + count[e].skipped + count[e].cancelled
  BY DEF ProgressSnapshot
<1> QED BY <1>1, <1>2 DEF PublicStatus, FinalStatus

\* For every number of executions, pages, hosts, slots, attempts and workers: the
\* frontier's leases, retries, deadlines, batches and cancellations are, in the
\* progress events, the life ExecutionLifecycle describes, and the status an event
\* publishes is the one the row holds.
THEOREM FrontierRefinesLifecycle == Spec => RefinesLifecycle
<1>1. Init => Lifecycle!Init
  <2> SUFFICES ASSUME Init, NEW e \in Executions
               PROVE  ProgressSnapshot(e) = Lifecycle!NotStarted
    BY DEF Lifecycle!Init
  <2>1. status[e] = "NONE" /\ count[e] = ZeroCount
    BY DEF Init
  <2> QED BY <2>1, ColumnNames DEF ProgressSnapshot, ZeroCount, Lifecycle!NotStarted
<1>2. FrontierInv /\ RecordInv /\ [Next]_vars
        => [Lifecycle!Next]_([e \in Executions |-> ProgressSnapshot(e)])
  BY NextRefines
<1>3. Spec => Lifecycle!Spec
  BY <1>1, <1>2, RecordAlways, PTL DEF Spec, Lifecycle!Spec
<1> QED BY <1>3, RecordAlways, RecordedIsPublic, PTL DEF RefinesLifecycle

=============================================================================
