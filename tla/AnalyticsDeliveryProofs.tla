----------------------- MODULE AnalyticsDeliveryProofs -----------------------
(***************************************************************************)
(* For any number of rows, workers and any batch size: a delivered result  *)
(* is in every ClickHouse table, and only its lease holder gives up a row. *)
(***************************************************************************)
EXTENDS AnalyticsDelivery, TLAPS

\* How far a worker's batch is written, step by step.
BatchInv ==
  \A w \in Workers :
    /\ job[w].ok \subseteq stored["receipts"]
    /\ job[w].at \in {"findings", "links", "receipts"} => job[w].pending \subseteq stored["metrics"]
    /\ job[w].at \in {"links", "receipts"} => job[w].pending \subseteq stored["findings"]
    /\ job[w].at = "receipts" => job[w].pending \subseteq stored["links"]

\* A receipt stands for all tables, a delivery for a receipt.
StoreInv ==
  /\ \A t \in Tables : stored["receipts"] \subseteq stored[t]
  /\ \A r \in Rows : row[r] = "DELIVERED" => r \in stored["receipts"]

Inv == TypeOK /\ BatchInv /\ StoreInv

-----------------------------------------------------------------------------
\* Nothing is stored or claimed at first.
LEMMA InitInv == DeliveryInit => Inv
  BY DeliveryAssumption DEF DeliveryInit, Inv, TypeOK, BatchInv, StoreInv, Idle, Job, Tables

\* Every step keeps the rows and the batches well formed.
LEMMA NextType == TypeOK /\ [DeliveryNext]_deliveryVars => TypeOK'
<1> SUFFICES ASSUME TypeOK, [DeliveryNext]_deliveryVars PROVE TypeOK'
  OBVIOUS
<1> USE DeliveryAssumption DEF TypeOK
<1>1. ASSUME NEW r \in Rows, Stage(r) PROVE TypeOK'
  BY <1>1 DEF Stage
<1>2. ASSUME NEW r \in Rows, LeaseLapses(r) PROVE TypeOK'
  BY <1>2 DEF LeaseLapses
<1>3. CASE ReclaimExpired
  BY <1>3 DEF ReclaimExpired
<1>4. ASSUME NEW w \in Workers, Work(w) PROVE TypeOK'
  <2>1. ASSUME NEW rows \in SUBSET Rows, ClaimAnalytics(w, rows) PROVE TypeOK'
    BY <2>1 DEF ClaimAnalytics, Job
  <2>2. CASE LookupReceipts(w)
    BY <2>2 DEF LookupReceipts, Job, Tables
  <2>3. CASE Insert(w)
    <3>1. job[w].at \in Tables => After(job[w].at) \in Tables \cup {"ack"}
      BY DEF After, Tables
    <3>2. stored' \in [Tables -> SUBSET Rows]
      BY <2>3 DEF Insert, Job
    <3> QED
      BY <2>3, <3>1, <3>2 DEF Insert, Job
  <2>4. CASE Crash(w)
    BY <2>4 DEF Crash, Job, Idle
  <2>5. ASSUME NEW part \in SUBSET job[w].pending, WriteFails(w, part) PROVE TypeOK'
    BY <2>5, SMTT(20) DEF WriteFails, Job, Tables
  <2>6. ASSUME NEW r \in Rows, Acknowledge(w, r) PROVE TypeOK'
    BY <2>6 DEF Acknowledge, Job, Advance, Idle, Owns, Verdict
  <2>7. ASSUME NEW r \in Rows, AcknowledgeFails(w, r) PROVE TypeOK'
    BY <2>7 DEF AcknowledgeFails, Job, Advance, Idle
  <2> QED
    BY <1>4, <2>1, <2>2, <2>3, <2>4, <2>5, <2>6, <2>7 DEF Work
<1>5. CASE UNCHANGED deliveryVars
  BY <1>5 DEF deliveryVars
<1> QED
  BY <1>1, <1>2, <1>3, <1>4, <1>5 DEF DeliveryNext

\* Tables only grow, and the receipt of a batch is written after its other rows.
LEMMA NextInv == Inv /\ [DeliveryNext]_deliveryVars => Inv'
<1> SUFFICES ASSUME Inv, [DeliveryNext]_deliveryVars PROVE Inv'
  OBVIOUS
<1>0. TypeOK /\ TypeOK'
  BY NextType DEF Inv
<1> SUFFICES BatchInv' /\ StoreInv'
  BY <1>0 DEF Inv
<1> USE <1>0 DEF Inv, TypeOK, BatchInv, StoreInv
<1>1. ASSUME NEW r \in Rows, Stage(r) PROVE BatchInv' /\ StoreInv'
  BY <1>1 DEF Stage
<1>2. ASSUME NEW r \in Rows, LeaseLapses(r) PROVE BatchInv' /\ StoreInv'
  BY <1>2 DEF LeaseLapses
<1>3. CASE ReclaimExpired
  BY <1>3 DEF ReclaimExpired
<1>4. ASSUME NEW w \in Workers, Work(w) PROVE BatchInv' /\ StoreInv'
  <2>1. ASSUME NEW rows \in SUBSET Rows, ClaimAnalytics(w, rows) PROVE BatchInv' /\ StoreInv'
    BY <2>1 DEF ClaimAnalytics, Job
  <2>2. CASE LookupReceipts(w)
    BY <2>2 DEF LookupReceipts, Job, Tables
  <2>3. CASE Insert(w)
    <3>1. \A t \in Tables : stored[t] \subseteq stored'[t]
      BY <2>3 DEF Insert, Tables
    <3>2. StoreInv'
      BY <2>3, <3>1 DEF Insert, Tables, Job
    <3>a. job[w].at \in Tables =>
            /\ After(job[w].at) = "findings" => job[w].at = "metrics"
            /\ After(job[w].at) = "links" => job[w].at = "findings"
            /\ After(job[w].at) = "receipts" => job[w].at = "links"
            /\ After(job[w].at) = "ack" => job[w].at = "receipts"
      BY DEF After, Tables
    <3>b. /\ \A v \in Workers \ {w} : job'[v] = job[v]
          /\ job'[w].at = After(job[w].at) /\ job'[w].pending = job[w].pending
          /\ job'[w].ok = job[w].ok \cup IF After(job[w].at) = "ack" THEN job[w].pending ELSE {}
          /\ job[w].at \in Tables /\ job[w].pending \subseteq stored'[job[w].at]
      BY <2>3 DEF Insert, Job
    <3>c. job[w].pending \subseteq Rows /\ job[w].ok \subseteq stored'["receipts"]
      BY <3>1 DEF Job, Tables
    <3>3. BatchInv'
      <4>1. ASSUME NEW v \in Workers, v # w
            PROVE  /\ job'[v].ok \subseteq stored'["receipts"]
                   /\ job'[v].at \in {"findings", "links", "receipts"}
                        => job'[v].pending \subseteq stored'["metrics"]
                   /\ job'[v].at \in {"links", "receipts"}
                        => job'[v].pending \subseteq stored'["findings"]
                   /\ job'[v].at = "receipts" => job'[v].pending \subseteq stored'["links"]
        BY <3>1, <3>b, <4>1 DEF Tables
      <4>2. /\ job'[w].ok \subseteq stored'["receipts"]
            /\ job'[w].at \in {"findings", "links", "receipts"}
                 => job'[w].pending \subseteq stored'["metrics"]
            /\ job'[w].at \in {"links", "receipts"}
                 => job'[w].pending \subseteq stored'["findings"]
            /\ job'[w].at = "receipts" => job'[w].pending \subseteq stored'["links"]
        BY <3>1, <3>a, <3>b, <3>c DEF Tables
      <4> QED
        BY <4>1, <4>2
    <3> QED
      BY <3>2, <3>3
  <2>4. CASE Crash(w)
    BY <2>4 DEF Crash, Job, Idle
  <2>5. ASSUME NEW part \in SUBSET job[w].pending, WriteFails(w, part)
        PROVE  BatchInv' /\ StoreInv'
    <3>1. \A t \in Tables : stored[t] \subseteq stored'[t]
      BY <2>5 DEF WriteFails, Tables
    <3>2. StoreInv'
      BY <2>5, <3>1 DEF WriteFails, Tables, Job
    <3>3. BatchInv'
      BY <2>5, <3>1 DEF WriteFails, Tables, Job
    <3> QED
      BY <3>2, <3>3
  <2>6. ASSUME NEW r \in Rows, Acknowledge(w, r) PROVE BatchInv' /\ StoreInv'
    BY <2>6 DEF Acknowledge, Job, Advance, Idle, Owns, Verdict, Tables
  <2>7. ASSUME NEW r \in Rows, AcknowledgeFails(w, r) PROVE BatchInv' /\ StoreInv'
    BY <2>7 DEF AcknowledgeFails, Job, Advance, Idle, Tables
  <2> QED
    BY <1>4, <2>1, <2>2, <2>3, <2>4, <2>5, <2>6, <2>7 DEF Work
<1>5. CASE UNCHANGED deliveryVars
  BY <1>5 DEF deliveryVars
<1> QED
  BY <1>1, <1>2, <1>3, <1>4, <1>5 DEF DeliveryNext

-----------------------------------------------------------------------------
\* A delivered result, and one with a receipt, is in every ClickHouse table,
\* whatever attempts failed half-way, crashed or overlapped (clickhouse.go,
\* writeBatch).
THEOREM DeliveredAlwaysComplete == DeliverySpec => []DeliveredIsComplete
<1>1. Inv => DeliveredIsComplete
  BY DEF Inv, StoreInv, DeliveredIsComplete
<1> QED
  BY <1>1, InitInv, NextInv, PTL DEF DeliverySpec

\* No worker gives up a claim that is another's, and a delivered row stays
\* delivered (store.go, CompleteAnalytics and RetryAnalytics).
THEOREM OwnerAlwaysAcknowledges == DeliverySpec => OwnerAcknowledges
<1> DEFINE OwnerStep ==
      \A r \in Rows :
        /\ row[r] = "DELIVERED" => row'[r] = "DELIVERED"
        /\ row[r] = "CLAIMED" /\ row'[r] # "CLAIMED" /\ r \notin lapsed
             => r \in job[owner[r]].todo /\ r \notin job'[owner[r]].todo
<1>1. ASSUME Inv, [DeliveryNext]_deliveryVars PROVE [OwnerStep]_deliveryVars
  <2> USE <1>1 DEF Inv, TypeOK
  <2>1. ASSUME NEW r \in Rows, Stage(r) PROVE OwnerStep
    BY <2>1 DEF Stage
  <2>2. ASSUME NEW r \in Rows, LeaseLapses(r) PROVE OwnerStep
    BY <2>2 DEF LeaseLapses
  <2>3. CASE ReclaimExpired
    BY <2>3 DEF ReclaimExpired
  <2>4. ASSUME NEW w \in Workers, Work(w) PROVE OwnerStep
    <3>1. ASSUME NEW rows \in SUBSET Rows, ClaimAnalytics(w, rows) PROVE OwnerStep
      BY <3>1 DEF ClaimAnalytics
    <3>2. ASSUME NEW r \in Rows, Acknowledge(w, r) PROVE OwnerStep
      BY <3>2 DEF Acknowledge, Owns, Advance, Idle, Job
    <3>3. CASE row' = row
      BY <3>3
    <3> QED
      BY <2>4, <3>1, <3>2, <3>3
         DEF Work, LookupReceipts, Insert, Crash, WriteFails, AcknowledgeFails
  <2>5. CASE UNCHANGED deliveryVars
    BY <2>5
  <2> QED
    BY <1>1, <2>1, <2>2, <2>3, <2>4, <2>5 DEF DeliveryNext
<1>2. Inv /\ [DeliveryNext]_deliveryVars => [OwnerStep]_deliveryVars
  BY <1>1
<1> QED
  BY <1>2, InitInv, NextInv, PTL DEF DeliverySpec, OwnerAcknowledges

=============================================================================
