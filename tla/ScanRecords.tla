---------------------------- MODULE ScanRecords ----------------------------
(***************************************************************************)
(* The rows of a scan in the Control Plane and the crawler, and what must  *)
(* hold between them. ScanMessaging has the steps that change them.        *)
(***************************************************************************)
EXTENDS ExecutionRecord, Sequences

CONSTANTS
  Scans,      \* scan identifiers
  MaxEvents   \* bound: progress events of an execution before its last

\* The Control Plane accepts no scan of fewer than one page (ScanConfiguration).
ASSUME ScanLimitsAssumption == MaxPages \in Nat \ {0} /\ MaxEvents \in Nat

VARIABLES
  scan,      \* Control Plane: status, remote_execution_version and counters
  command,   \* Control Plane outbox: state of the two commands of a scan
  inbox,     \* crawler inbox_messages: commands handled
  exec,      \* the crawler's execution (ExecutionRecord)
  events,    \* crawler outbox_events of a scan, in aggregate_version order
  posted,    \* event versions sent to the Control Plane at least once
  consumed,  \* Control Plane inbox_messages: event versions handled
  clone,     \* Control Plane: status of the site clone that owns the scan, if any
  order      \* Control Plane outbox: commands to the capture worker for that clone

Commands == {"REQUEST", "CANCEL"}
Terminal(st) == st \in Finals

\* The event fails a validation of ScanProgress, of RemoteScanProjection or of
\* applyRemoteProjection and is answered 422.
Rejects(row, x) ==
  \/ x.open > x.discovered \/ x.succeeded + x.failed > x.discovered
  \/ x.discovered > MaxPages \/ x.open + x.succeeded + x.failed > x.discovered
  \/ x.published > x.expected \/ x.expected > x.discovered
  \/ /\ ~Terminal(row.status) /\ ~Terminal(x.status) /\ x.status # "QUEUED"
     /\ \/ row.status = "QUEUED" /\ x.status # "RUNNING"
        \/ row.status = "RUNNING" /\ x.status \notin {"RUNNING", "CANCEL_REQUESTED"}

-----------------------------------------------------------------------------
(* Properties.                                                             *)

Event == [snap : Snapshot, state : {"PENDING", "CLAIMED", "DELIVERED"}]

\* The rows of both services are well formed.
RowsOK ==
  /\ scan \in [Scans -> [status : {"NONE"} \cup Actives \cup Finals,
                         remote : 0 .. MaxEvents + 2, view : Snapshot]]
  /\ command \in [Scans -> [Commands -> {"NONE", "PENDING", "DELIVERED"}]]
  /\ inbox \in [Scans -> SUBSET Commands]
  /\ exec \in [Scans -> Snapshot]
  /\ \A s \in Scans : /\ Len(events[s]) <= MaxEvents + 2
                      /\ \A v \in DOMAIN events[s] : events[s][v] \in Event
                      /\ posted[s] \subseteq DOMAIN events[s]
                      /\ consumed[s] \subseteq posted[s]
  /\ clone \in [Scans -> {"NONE", "WAITING_FOR_SCAN", "QUEUED", "FAILED", "CANCELLED"}]
  /\ order \in [Scans -> SUBSET Commands]

\* No event is ever answered 422: one that was would be sent again for ever and,
\* since a scan's events are delivered in order, would hold back the terminal
\* one behind it.
NoEventRejected ==
  \A s \in Scans : \A v \in posted[s] \ consumed[s] :
    scan[s].status # "NONE" /\ ~Rejects(scan[s], events[s][v].snap)

\* Every event is applied, exactly once and in the order the crawler wrote them:
\* duplicates and late copies never make one stale or skip one.
AppliedInOrder ==
  \A s \in Scans : /\ consumed[s] = 1 .. scan[s].remote
                   /\ \A v \in DOMAIN events[s] :
                        events[s][v].state = "DELIVERED" => v <= scan[s].remote

\* A scan that is terminal for the user is terminal for the crawler, with the
\* same status and the same counters: no event of it is still to come.
TerminalAgrees ==
  \A s \in Scans : Terminal(scan[s].status) =>
    /\ scan[s].view = exec[s] /\ scan[s].status = exec[s].status

\* The crawler stops a scan only for a cancellation the user asked for, and a
\* cancellation the user asked for is not forgotten: until the scan is terminal
\* the command is still to be delivered or the crawler has handled it.
CancellationAgrees ==
  \A s \in Scans :
    /\ exec[s].status = "CANCEL_REQUESTED" => scan[s].status = "CANCEL_REQUESTED"
    /\ exec[s].status = "CANCELLED" => scan[s].status \in {"CANCEL_REQUESTED", "CANCELLED"}
    /\ scan[s].status = "CANCEL_REQUESTED"
         => command[s]["CANCEL"] = "PENDING" \/ "CANCEL" \in inbox[s]

\* A site clone follows its scan: it waits only while the scan is active, the
\* capture worker is asked to clone only the final result of a scan that was
\* not cancelled, and a clone the user cancelled is not worked on: the worker
\* was never asked, or is told to stop.
CloneFollowsScan ==
  \A s \in Scans :
    /\ clone[s] = "WAITING_FOR_SCAN" => scan[s].status \in Actives
    /\ "REQUEST" \in order[s] => Terminal(exec[s].status) /\ exec[s].status # "CANCELLED"
    /\ clone[s] = "CANCELLED" => "REQUEST" \in order[s] <=> "CANCEL" \in order[s]

\* Events of a scan are applied once each and in the crawler's order, through
\* repeated and late deliveries, and none is ever answered 422, which would hold
\* back for ever the terminal event behind it (ScanEventService), over well-formed
\* rows.
EventsApplied == RowsOK /\ AppliedInOrder /\ NoEventRejected

\* The Control Plane, the crawler and the clone that waits agree on how a scan ends
\* and on whether it is being cancelled, through outbox, inbox and execution
\* (applyRemoteProjection, AcceptCancellation, onScanProjectionApplied).
ScanAgrees == TerminalAgrees /\ CancellationAgrees /\ CloneFollowsScan

=============================================================================
