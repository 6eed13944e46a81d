---------------------------- MODULE ScanMessaging ----------------------------
(***************************************************************************)
(* A scan as two services see it: the Control Plane's row and command      *)
(* outbox, the crawler's inbox, execution and event outbox, and the HTTP   *)
(* deliveries between them, which may be lost, late or repeated.           *)
(*                                                                         *)
(* Code: scan/service/ScanService.java (create, cancel),                   *)
(* scan/entity/ScanEntity.java, messaging/ScanEventService.java,           *)
(* siteclone/service (create, cancel, onScanProjectionApplied),            *)
(* messaging/CrawlerCommandDispatcher.java with ControlMessagingRepository *)
(* on the Control Plane; httpapi/server.go (acceptScan), postgres/store.go *)
(* and events/publisher.go on the crawler.                                 *)
(*                                                                         *)
(* The execution moves as ExecutionLifecycle allows, which CrawlExecution  *)
(* implements. A message that was sent may be handled at any later time    *)
(* and any number of times: HTTP timeouts do not recall a request.         *)
(***************************************************************************)
EXTENDS ScanRecords

vars == <<scan, command, inbox, exec, events, posted, consumed, clone, order>>
cloneVars == <<clone, order>>

\* A scan row before create() inserted it.
NoScan == [status |-> "NONE", remote |-> 0, view |-> NotStarted]

Init ==
  /\ scan = [s \in Scans |-> NoScan]
  /\ command = [s \in Scans |-> [m \in Commands |-> "NONE"]]
  /\ inbox = [s \in Scans |-> {}]
  /\ exec = [s \in Scans |-> NotStarted]
  /\ events = [s \in Scans |-> <<>>]
  /\ posted = [s \in Scans |-> {}]
  /\ consumed = [s \in Scans |-> {}]
  /\ clone = [s \in Scans |-> "NONE"]
  /\ order = [s \in Scans |-> {}]

-----------------------------------------------------------------------------
(* Control Plane: the user's operations and the command dispatcher.        *)

\* create(): the row and its SCAN_REQUESTED command in one transaction, for the
\* user or, called by SiteCloneService.create, for a site clone that waits for it.
CreateScan(s, waiting) ==
  /\ scan[s] = NoScan
  /\ scan' = [scan EXCEPT ![s].status = "QUEUED"]
  /\ command' = [command EXCEPT ![s]["REQUEST"] = "PENDING"]
  /\ clone' = [clone EXCEPT ![s] = waiting]
  /\ UNCHANGED <<inbox, exec, events, posted, consumed, order>>

\* What cancel() and cancelForSiteClone() do to an active scan.
RequestCancellation(s) ==
  /\ scan' = [scan EXCEPT ![s].status = "CANCEL_REQUESTED"]
  /\ command' = [command EXCEPT ![s]["CANCEL"] = "PENDING"]

\* cancel(): refused on a terminal scan, a no-op on a cancelled one.
CancelScan(s) ==
  /\ scan[s].status \in {"QUEUED", "RUNNING"}
  /\ RequestCancellation(s)
  /\ UNCHANGED <<inbox, exec, events, posted, consumed, cloneVars>>

\* SiteCloneService.cancel of a clone no capture worker has started: a clone that
\* waits takes its scan along, for a dispatched one the worker is told. The
\* status is read before the rows are locked; if it changed meanwhile the
\* version check rolls the transaction back.
CancelSiteClone(s) ==
  /\ clone[s] \in {"WAITING_FOR_SCAN", "QUEUED"}
  /\ clone' = [clone EXCEPT ![s] = "CANCELLED"]
  /\ order' = [order EXCEPT ![s] = IF clone[s] = "QUEUED" THEN @ \cup {"CANCEL"} ELSE @]
  /\ IF clone[s] = "WAITING_FOR_SCAN" /\ scan[s].status \in {"QUEUED", "RUNNING"}
     THEN RequestCancellation(s) ELSE UNCHANGED <<scan, command>>
  /\ UNCHANGED <<inbox, exec, events, posted, consumed>>

\* The crawler answered a delivery with 2xx and the dispatcher marks the row.
\* PENDING stands for PENDING, CLAIMED and DEAD: all are delivered again.
CompleteCommand(s, m) ==
  /\ command[s][m] = "PENDING" /\ m \in inbox[s]
  /\ command' = [command EXCEPT ![s][m] = "DELIVERED"]
  /\ UNCHANGED <<scan, inbox, exec, events, posted, consumed, cloneVars>>

-----------------------------------------------------------------------------
(* Crawler.                                                                *)

LastEvent(s) == events[s][Len(events[s])]

\* insertProgressEvent: a snapshot is always written when it is terminal or says
\* a new status; otherwise it is dropped if the latest event is under a second old.
Emit(s, y) ==
  LET event == [snap |-> y, state |-> "PENDING"] IN
  \/ events' = [events EXCEPT ![s] = Append(@, event)]
  \/ /\ ~Terminal(y.status)
     /\ events[s] # <<>> /\ LastEvent(s).snap.status = y.status
     /\ events' = events

\* acceptScan handling SCAN_REQUESTED (AcceptCommand): no event is written.
AcceptCommand(s) ==
  /\ command[s]["REQUEST"] # "NONE" /\ "REQUEST" \notin inbox[s]
  /\ exec[s] = NotStarted
  /\ exec' = [exec EXCEPT ![s] = Accepted]
  /\ inbox' = [inbox EXCEPT ![s] = @ \cup {"REQUEST"}]
  /\ UNCHANGED <<scan, command, events, posted, consumed, cloneVars>>

\* AcceptCancellation applied. Without an execution it is answered 409 and the
\* command stays in the Control Plane's outbox.
ApplyCancellation(s) ==
  /\ command[s]["CANCEL"] # "NONE" /\ "CANCEL" \notin inbox[s]
  /\ exec[s].status \in {"QUEUED", "RUNNING"}
  /\ exec' = [exec EXCEPT ![s] = Cancelled(@)]
  /\ Emit(s, Cancelled(exec[s]))
  /\ inbox' = [inbox EXCEPT ![s] = @ \cup {"CANCEL"}]
  /\ UNCHANGED <<scan, command, posted, consumed, cloneVars>>

\* AcceptCancellation on an execution that already ended: IGNORED_STALE.
IgnoreCancellation(s) ==
  /\ command[s]["CANCEL"] # "NONE" /\ "CANCEL" \notin inbox[s]
  /\ Terminal(exec[s].status)
  /\ inbox' = [inbox EXCEPT ![s] = @ \cup {"CANCEL"}]
  /\ UNCHANGED <<scan, command, exec, events, posted, consumed, cloneVars>>

\* The frontier works on (claims, results, retries, analytics, reclaimer).
CrawlWorks(s) ==
  /\ exec[s].status \in Actives
  /\ Len(events[s]) < MaxEvents
  /\ \E y \in Ahead(exec[s], WorkingStatus(exec[s])) :
       /\ Works(exec[s], y)
       /\ exec' = [exec EXCEPT ![s] = y]
       /\ Emit(s, y)
  /\ UNCHANGED <<scan, command, inbox, posted, consumed, cloneVars>>

\* The frontier is drained and the execution ends.
CrawlEnds(s) ==
  /\ exec[s].status \in Actives
  /\ \E st \in Finals : \E y \in Ahead(exec[s], st) :
       /\ Ends(exec[s], y)
       /\ exec' = [exec EXCEPT ![s] = y]
       /\ Emit(s, y)
  /\ UNCHANGED <<scan, command, inbox, posted, consumed, cloneVars>>

\* For mutation only: one event at a time, but in any order.
NextInLaneUnordered(s, v) == \A u \in DOMAIN events[s] : events[s][u].state # "CLAIMED"

\* The oldest undelivered event of a scan none of whose events is claimed.
NextInLane(s, v) ==
  \A u \in DOMAIN events[s] :
    /\ events[s][u].state # "CLAIMED"
    /\ events[s][u].state = "PENDING" => u >= v

\* ClaimEvents takes the next event of a lane; publishAvailable sends it at once. DEAD events count as PENDING.
ClaimEvent(s, v) ==
  /\ v \in DOMAIN events[s] /\ events[s][v].state = "PENDING"
  /\ NextInLane(s, v)
  /\ events' = [events EXCEPT ![s][v].state = "CLAIMED"]
  /\ posted' = [posted EXCEPT ![s] = @ \cup {v}]
  /\ UNCHANGED <<scan, command, inbox, exec, consumed, cloneVars>>

\* RetryEvent after an error or a timeout, or ReclaimExpired after a crash.
ReleaseEvent(s, v) ==
  /\ v \in DOMAIN events[s] /\ events[s][v].state = "CLAIMED"
  /\ events' = [events EXCEPT ![s][v].state = "PENDING"]
  /\ UNCHANGED <<scan, command, inbox, exec, posted, consumed, cloneVars>>

\* CompleteEvent: the Control Plane acknowledged the event as applied, stale or
\* duplicate while the claim was live.
CompleteEvent(s, v) ==
  /\ v \in DOMAIN events[s] /\ events[s][v].state = "CLAIMED" /\ v \in consumed[s]
  /\ events' = [events EXCEPT ![s][v].state = "DELIVERED"]
  /\ UNCHANGED <<scan, command, inbox, exec, posted, consumed, cloneVars>>

-----------------------------------------------------------------------------
(* Control Plane: ScanEventService.consume.                                *)

\* applyRemoteProjection on a scan that is not terminal: a cancellation the user
\* asked for survives events sent before the crawler saw it.
Projected(row, v, x) ==
  IF x.status = "QUEUED" THEN [row EXCEPT !.remote = v]
  ELSE [status |-> IF row.status = "CANCEL_REQUESTED" /\ ~Terminal(x.status)
                   THEN row.status ELSE x.status,
        remote |-> v, view |-> x]

\* For mutation only: a cancelled scan counts as a scan that ended.
CloneAfterAnyEnd(c, st) ==
  IF c \in {"NONE", "FAILED", "CANCELLED"} \/ ~Terminal(st) THEN c ELSE "QUEUED"

\* onScanProjectionApplied: the end of its scan dispatches a waiting clone; a
\* cancelled scan fails a clone that has not ended.
CloneAfter(c, st) ==
  IF c \in {"NONE", "FAILED", "CANCELLED"} \/ ~Terminal(st) THEN c
  ELSE IF st = "CANCELLED" THEN "FAILED" ELSE "QUEUED"

\* A first delivery: applied, or recorded as stale, or refused and not recorded.
ConsumeEvent(s, v) ==
  LET x == events[s][v].snap
      stale == v <= scan[s].remote \/ Terminal(scan[s].status)
  IN
  /\ v \in posted[s] \ consumed[s]
  /\ scan[s].status # "NONE"
  /\ stale \/ ~Rejects(scan[s], x)
  /\ scan' = [scan EXCEPT ![s] = IF stale THEN @ ELSE Projected(@, v, x)]
  /\ clone' = [clone EXCEPT ![s] = IF stale THEN @ ELSE CloneAfter(@, scan'[s].status)]
  /\ order' = [order EXCEPT ![s] =
                 IF clone'[s] = "QUEUED" /\ clone[s] # "QUEUED" THEN @ \cup {"REQUEST"} ELSE @]
  /\ consumed' = [consumed EXCEPT ![s] = @ \cup {v}]
  /\ UNCHANGED <<command, inbox, exec, events, posted>>

-----------------------------------------------------------------------------
EventStep(s) ==
  \E v \in DOMAIN events[s] :
    ClaimEvent(s, v) \/ ReleaseEvent(s, v) \/ CompleteEvent(s, v) \/ ConsumeEvent(s, v)

ControlStep(s) ==
  \/ \E waiting \in {"NONE", "WAITING_FOR_SCAN"} : CreateScan(s, waiting)
  \/ CancelScan(s) \/ CancelSiteClone(s)
  \/ \E m \in Commands : CompleteCommand(s, m)

CrawlerStep(s) ==
  \/ AcceptCommand(s) \/ ApplyCancellation(s) \/ IgnoreCancellation(s)
  \/ CrawlWorks(s) \/ CrawlEnds(s)

Next == \E s \in Scans : ControlStep(s) \/ CrawlerStep(s) \/ EventStep(s)

Spec == Init /\ [][Next]_vars

\* Undelivered commands and events are sent again until they are acknowledged
\* (DEAD rows included), so a delivery succeeds at last; an execution ends
\* because CrawlExecution's does (EventuallyTerminal).
Fairness ==
  \A s \in Scans :
    /\ WF_vars(AcceptCommand(s)) /\ WF_vars(ApplyCancellation(s))
    /\ WF_vars(IgnoreCancellation(s)) /\ WF_vars(CrawlEnds(s))
    /\ \A m \in Commands : WF_vars(CompleteCommand(s, m))
    /\ \A v \in 1 .. (MaxEvents + 2) :
         /\ WF_vars(ClaimEvent(s, v)) /\ WF_vars(ConsumeEvent(s, v)) /\ SF_vars(CompleteEvent(s, v))

FairSpec == Spec /\ Fairness

-----------------------------------------------------------------------------
(* Properties.                                                             *)

\* A clone that was cancelled or failed stays so, and the capture worker hears
\* nothing more of it, also when its scan was finished before the cancellation
\* reached the crawler and the event of that end arrives afterwards.
ClosedCloneStays ==
  [][\A s \in Scans : clone[s] \in {"FAILED", "CANCELLED"}
       => clone'[s] = clone[s] /\ order'[s] = order[s]]_vars

\* The progress the user sees never goes back, and a terminal or cancelling scan
\* never looks active again.
ProjectionMovesForward ==
  [][\A s \in Scans :
       /\ Forward(scan[s].view, scan'[s].view)
       /\ Terminal(scan[s].status) => scan'[s] = scan[s]
       /\ scan[s].status = "CANCEL_REQUESTED"
            => scan'[s].status = "CANCEL_REQUESTED" \/ Terminal(scan'[s].status)]_vars

\* Every scan the user creates ends in the Control Plane, and every command is
\* acknowledged, through lost and repeated deliveries.
ScansEnd ==
  \A s \in Scans : /\ scan[s].status = "QUEUED" ~> Terminal(scan[s].status)
                   /\ \A m \in Commands : command[s][m] = "PENDING" ~> command[s][m] = "DELIVERED"

=============================================================================
