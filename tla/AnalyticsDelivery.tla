-------------------------- MODULE AnalyticsDelivery --------------------------
(***************************************************************************)
(* How a page result travels from the crawler's analytics_outbox to        *)
(* ClickHouse: workers claim rows under a lease, write four tables one     *)
(* after the other, and only then acknowledge each row.                    *)
(*                                                                         *)
(* Code: analytics/worker.go (deliver), analytics/clickhouse.go            *)
(* (writeBatch) and the analytics statements of postgres/store.go. The     *)
(* effect of an acknowledgement on the page and its execution is           *)
(* CrawlExecution's CompleteAnalytics.                                     *)
(*                                                                         *)
(* ClickHouse keeps one row per key (ReplacingMergeTree read with FINAL),  *)
(* so a table is the set of results it holds. An insert that returns an    *)
(* error may have stored any part of its rows. PENDING stands for PENDING  *)
(* and DEAD, which differ in the delay before the next claim.              *)
(***************************************************************************)
EXTENDS Naturals, FiniteSets

CONSTANTS
  Rows,         \* analytics_outbox rows
  Unreadable,   \* rows whose payload decodeAnalyticsBatch refuses
  Workers,      \* delivery workers, one per crawler process
  BatchSize,    \* rows of one claim (100 in the code)
  NoOwner       \* lease_owner IS NULL

ASSUME DeliveryAssumption ==
  Unreadable \subseteq Rows /\ NoOwner \notin Workers /\ BatchSize \in Nat \ {0}

VARIABLES
  row,      \* analytics_outbox.status
  owner,    \* analytics_outbox.lease_owner
  lapsed,   \* rows whose lease_expires_at has passed
  stored,   \* the ClickHouse tables
  job       \* what each worker holds in memory

deliveryVars == <<row, owner, lapsed, stored, job>>

Tables == {"metrics", "findings", "links", "receipts"}

\* A worker's batch: the step it is at, the rows not yet acknowledged, those
\* still to be written and those written, whose result is not an error.
Job == [at : {"idle", "lookup", "ack"} \cup Tables, todo : SUBSET Rows,
        pending : SUBSET Rows, ok : SUBSET Rows]
Idle == [at |-> "idle", todo |-> {}, pending |-> {}, ok |-> {}]

DeliveryInit ==
  /\ row = [r \in Rows |-> "NONE"]
  /\ owner = [r \in Rows |-> NoOwner]
  /\ lapsed = {}
  /\ stored = [t \in Tables |-> {}]
  /\ job = [w \in Workers |-> Idle]

-----------------------------------------------------------------------------
\* CommitPageResult inserts the row.
Stage(r) ==
  /\ row[r] = "NONE"
  /\ row' = [row EXCEPT ![r] = "PENDING"]
  /\ UNCHANGED <<owner, lapsed, stored, job>>

\* For mutation only: a row that cannot be read fails its whole batch.
ClaimAnalyticsAllOrNothing(w, rows) ==
  /\ job[w].at = "idle"
  /\ rows # {} /\ Cardinality(rows) <= BatchSize /\ \A r \in rows : row[r] = "PENDING"
  /\ row' = [r \in Rows |-> IF r \in rows THEN "CLAIMED" ELSE row[r]]
  /\ owner' = [r \in Rows |-> IF r \in rows THEN w ELSE owner[r]]
  /\ job' = [job EXCEPT ![w] = [at |-> IF rows \cap Unreadable # {} THEN "ack" ELSE "lookup",
                                todo |-> rows, pending |-> rows \ Unreadable, ok |-> {}]]
  /\ UNCHANGED <<lapsed, stored>>

\* ClaimAnalytics, then decoding: a row that cannot be read has its error at once,
\* and a batch without readable rows writes nothing.
ClaimAnalytics(w, rows) ==
  LET readable == rows \ Unreadable IN
  /\ job[w].at = "idle"
  /\ rows # {} /\ Cardinality(rows) <= BatchSize /\ \A r \in rows : row[r] = "PENDING"
  /\ row' = [r \in Rows |-> IF r \in rows THEN "CLAIMED" ELSE row[r]]
  /\ owner' = [r \in Rows |-> IF r \in rows THEN w ELSE owner[r]]
  /\ job' = [job EXCEPT ![w] = [at |-> IF readable = {} THEN "ack" ELSE "lookup",
                                todo |-> rows, pending |-> readable, ok |-> {}]]
  /\ UNCHANGED <<lapsed, stored>>

\* receiptIDs: rows with a receipt were written by an earlier attempt.
LookupReceipts(w) ==
  LET known == job[w].pending \cap stored["receipts"] IN
  /\ job[w].at = "lookup"
  /\ job' = [job EXCEPT ![w] = [at |-> IF job[w].pending = known THEN "ack" ELSE "metrics",
                                todo |-> job[w].todo, pending |-> job[w].pending \ known,
                                ok |-> known]]
  /\ UNCHANGED <<row, owner, lapsed, stored>>

\* For mutation only: the receipt is written first.
AfterReceiptFirst(t) ==
  CASE t = "metrics" -> "receipts" [] t = "receipts" -> "findings" [] t = "findings" -> "links"
    [] t = "links" -> "ack"

\* The order of writeBatch.
After(t) ==
  CASE t = "metrics" -> "findings" [] t = "findings" -> "links" [] t = "links" -> "receipts"
    [] t = "receipts" -> "ack"

\* insertPageMetrics, insertFindings, insertLinks, insertReceipts succeed.
Insert(w) ==
  LET t == job[w].at
      written == IF After(t) = "ack" THEN job[w].pending ELSE {}
  IN
  /\ t \in Tables
  /\ stored' = [stored EXCEPT ![t] = @ \cup job[w].pending]
  /\ job' = [job EXCEPT ![w] = [at |-> After(t), todo |-> job[w].todo,
                                pending |-> job[w].pending, ok |-> job[w].ok \cup written]]
  /\ UNCHANGED <<row, owner, lapsed>>

\* sharedFailure: the lookup or an insert returned an error, which every row of
\* the batch that was still to be written shares.
WriteFails(w, part) ==
  LET t == job[w].at IN
  /\ t \in {"lookup"} \cup Tables /\ part \subseteq job[w].pending
  /\ stored' = IF t = "lookup" THEN stored ELSE [stored EXCEPT ![t] = @ \cup part]
  /\ job' = [job EXCEPT ![w].at = "ack"]
  /\ UNCHANGED <<row, owner, lapsed>>

-----------------------------------------------------------------------------
\* For mutation only: the owner is not compared.
OwnsAny(w, r) == row[r] = "CLAIMED"

\* The condition of both acknowledging statements; otherwise ErrStaleLease.
Owns(w, r) == row[r] = "CLAIMED" /\ owner[r] = w

\* CompleteAnalytics for a row without error, RetryAnalytics for the others.
Verdict(w, r) == IF r \in job[w].ok THEN "DELIVERED" ELSE "PENDING"

\* The worker goes on to the next row, and is idle after the last.
Advance(w, r) ==
  IF job[w].todo = {r} THEN Idle
  ELSE [job[w] EXCEPT !.todo = @ \ {r}]

\* The row's transaction, under the worker's own lease.
Acknowledge(w, r) ==
  /\ job[w].at = "ack" /\ r \in job[w].todo
  /\ Owns(w, r)
  /\ row' = [row EXCEPT ![r] = Verdict(w, r)]
  /\ owner' = [owner EXCEPT ![r] = NoOwner]
  /\ lapsed' = lapsed \ {r}
  /\ job' = [job EXCEPT ![w] = Advance(w, r)]
  /\ UNCHANGED stored

\* The lease was lost (ErrStaleLease) or the statement failed: the row stays as
\* it is and the worker goes on.
AcknowledgeFails(w, r) ==
  /\ job[w].at = "ack" /\ r \in job[w].todo
  /\ job' = [job EXCEPT ![w] = Advance(w, r)]
  /\ UNCHANGED <<row, owner, lapsed, stored>>

\* The process dies; the one that replaces it has its own workerID, and knows
\* nothing of the rows this one claimed.
Crash(w) ==
  /\ job[w].at # "idle"
  /\ job' = [job EXCEPT ![w] = Idle]
  /\ UNCHANGED <<row, owner, lapsed, stored>>

LeaseLapses(r) ==
  /\ row[r] = "CLAIMED" /\ r \notin lapsed
  /\ lapsed' = lapsed \cup {r}
  /\ UNCHANGED <<row, owner, stored, job>>

\* The first statement of ReclaimExpired.
ReclaimExpired ==
  /\ lapsed # {}
  /\ row' = [r \in Rows |-> IF r \in lapsed THEN "PENDING" ELSE row[r]]
  /\ owner' = [r \in Rows |-> IF r \in lapsed THEN NoOwner ELSE owner[r]]
  /\ lapsed' = {}
  /\ UNCHANGED <<stored, job>>

-----------------------------------------------------------------------------
Work(w) ==
  \/ \E rows \in SUBSET Rows : ClaimAnalytics(w, rows)
  \/ LookupReceipts(w) \/ Insert(w) \/ Crash(w)
  \/ \E part \in SUBSET job[w].pending : WriteFails(w, part)
  \/ \E r \in Rows : Acknowledge(w, r) \/ AcknowledgeFails(w, r)

DeliveryNext ==
  \/ \E w \in Workers : Work(w)
  \/ \E r \in Rows : Stage(r) \/ LeaseLapses(r)
  \/ ReclaimExpired

DeliverySpec == DeliveryInit /\ [][DeliveryNext]_deliveryVars

\* The worker polls, the lease of a dead worker lapses and the reclaimer runs. The
\* databases are not down for ever: a step tried again and again, with a given
\* row in the batch, succeeds at last.  Nothing is assumed of an unreadable row.
InsertInto(w, t, r) == job[w].at = t /\ r \in job[w].pending /\ Insert(w)
DeliveryFairness ==
  /\ \A r \in Rows : WF_deliveryVars(LeaseLapses(r))
  /\ \A r \in Rows \ Unreadable :
       /\ SF_deliveryVars(\E w \in Workers, rows \in SUBSET Rows : r \in rows /\ ClaimAnalytics(w, rows))
       /\ \A w \in Workers :
            /\ SF_deliveryVars(r \in job[w].pending /\ LookupReceipts(w))
            /\ \A t \in Tables : SF_deliveryVars(InsertInto(w, t, r))
            /\ SF_deliveryVars(r \in job[w].ok /\ Acknowledge(w, r))
  /\ \A w \in Workers : WF_deliveryVars(Work(w))
  /\ WF_deliveryVars(ReclaimExpired)

FairDeliverySpec == DeliverySpec /\ DeliveryFairness

-----------------------------------------------------------------------------
(* Properties.                                                             *)

\* The rows are well formed, and ck_analytics_outbox_lease holds: a row has an
\* owner exactly while it is claimed.
TypeOK ==
  /\ row \in [Rows -> {"NONE", "PENDING", "CLAIMED", "DELIVERED"}]
  /\ owner \in [Rows -> Workers \cup {NoOwner}]
  /\ lapsed \subseteq Rows
  /\ stored \in [Tables -> SUBSET Rows]
  /\ job \in [Workers -> Job]
  /\ \A r \in Rows : row[r] = "CLAIMED" <=> owner[r] # NoOwner
  /\ \A r \in lapsed : row[r] = "CLAIMED"

\* A delivered result is in every table, and so is one that has a receipt: an
\* attempt that finds a receipt may skip the tables, although some earlier
\* attempt failed half-way, crashed or lost its lease. The payload is deleted
\* with the delivery, so nothing could repair a table later.
DeliveredIsComplete ==
  \A r \in Rows, t \in Tables :
    row[r] = "DELIVERED" \/ r \in stored["receipts"] => r \in stored[t]

\* A claimed row is given up only because its lease lapsed or by the worker that
\* holds it: one that wakes up after its row went to another worker can neither
\* complete nor release that claim. A delivered row stays delivered.
OwnerAcknowledges ==
  [][\A r \in Rows :
       /\ row[r] = "DELIVERED" => row'[r] = "DELIVERED"
       /\ row[r] = "CLAIMED" /\ row'[r] # "CLAIMED" /\ r \notin lapsed
            => r \in job[owner[r]].todo /\ r \notin job'[owner[r]].todo]_deliveryVars

\* A lease runs out while its worker is still busy with the row. worker.go gives
\* the batch no deadline of its own, so nothing rules this out; a lease that is
\* always too short for a batch would stop all delivery.
Overrun == \E r \in lapsed : r \in job[owner[r]].todo

\* Once leases outlast the batches they are for, every readable result is
\* delivered, through failed writes, crashes and lost leases, and although a row
\* that never can be delivered may share its batches.
EventuallyDelivered ==
  <>[]~Overrun => \A r \in Rows \ Unreadable : row[r] = "PENDING" ~> row[r] = "DELIVERED"

=============================================================================
