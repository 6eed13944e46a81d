--------------------------- MODULE SiteMessaging ---------------------------
(***************************************************************************)
(* A site clone between the Control Plane and the capture worker. Two      *)
(* commands, request and cancellation, go out through one outbox in any    *)
(* order; the worker refuses a cancellation it gets before the request.    *)
(* Progress events come back in any order. Requests are lost, repeated and *)
(* delayed in both directions.                                             *)
(*                                                                         *)
(* Code: SiteCloneService.cancel, SiteCloneScanCoordinator,                *)
(* SiteCloneCommandDispatcher, SiteCloneEventService and                   *)
(* SiteCloneRequestEntity of the Control Plane; acceptCommand, enqueueEvent,*)
(* claimEvent, completeEvent, retryEvent and eventLoop of the worker. The  *)
(* worker itself is SiteLifecycle, which SiteJobs implements.              *)
(***************************************************************************)
EXTENDS SiteLifecycle, Naturals, Sequences

CONSTANT MaxEvents   \* bound: events of a clone, two of them kept for its end

VARIABLES
  events,    \* site_reconstruction_event_outbox: statuses, in the order of event_version
  asked,     \* the worker's command inbox holds the cancellation
  clone,     \* site_clone_requests: status, remote_job_version
  command,   \* outbox_events rows of the two commands
  posted,    \* event requests under way
  inbox,     \* inbox_messages: event versions the Control Plane has processed
  delivered  \* event rows in status DELIVERED

all == <<status, events, asked, clone, command, posted, inbox, delivered>>

Commands == {"REQUEST", "CANCEL"}
Versions == 1 .. MaxEvents

MsgInit ==
  /\ Init
  /\ events = << >> /\ asked = FALSE
  /\ clone = [status |-> "WAITING_FOR_SCAN", version |-> 0]
  /\ command = [m \in Commands |-> "NONE"]
  /\ posted = {} /\ inbox = {} /\ delivered = {}

-----------------------------------------------------------------------------
(* Control Plane *)

\* onScanProjectionApplied of a scan that has ended.
MarkReadyForDispatch ==
  /\ clone.status = "WAITING_FOR_SCAN"
  /\ clone' = [clone EXCEPT !.status = "QUEUED"]
  /\ command' = [command EXCEPT !["REQUEST"] = "PENDING"]
  /\ UNCHANGED <<status, events, asked, posted, inbox, delivered>>

\* cancel of a clone whose request is out. A clone that is still QUEUED here is
\* CANCELLED at once, whatever the worker has made of it meanwhile.
Cancel ==
  /\ clone.status \notin Ended \cup {"WAITING_FOR_SCAN", "CANCEL_REQUESTED"}
  /\ clone' = [clone EXCEPT !.status = IF @ = "QUEUED" THEN "CANCELLED" ELSE "CANCEL_REQUESTED"]
  /\ command' = [command EXCEPT !["CANCEL"] = "PENDING"]
  /\ UNCHANGED <<status, events, asked, posted, inbox, delivered>>

\* For mutation only: the worker answers a cancellation it does not know yet.
AnsweredAnyway(m) == m = "CANCEL" \/ status # "NONE"

\* The worker has answered the command with success.
Answered(m) == IF m = "CANCEL" THEN asked ELSE status # "NONE"

CommandAcknowledged(m) ==
  /\ command[m] = "PENDING" /\ Answered(m)
  /\ command' = [command EXCEPT ![m] = "DELIVERED"]
  /\ UNCHANGED <<status, events, asked, clone, posted, inbox, delivered>>

\* applyRemote: older events are ignored, all events after the end, and progress
\* while a cancellation is waited for.
Applies(v) ==
  /\ v > clone.version /\ clone.status \notin Ended
  /\ clone.status = "CANCEL_REQUESTED" => events[v] \in Ended

\* consume: remembered whether applied or not; a repetition changes nothing.
Consume(v) ==
  /\ v \in posted \ inbox
  /\ clone' = IF Applies(v) THEN [status |-> events[v], version |-> v] ELSE clone
  /\ inbox' = inbox \cup {v}
  /\ UNCHANGED <<status, events, asked, command, posted, delivered>>

-----------------------------------------------------------------------------
(* Worker *)

\* acceptRequested.
DeliverRequest ==
  /\ command["REQUEST"] = "PENDING" /\ status = "NONE"
  /\ status' = "INGESTING"
  /\ UNCHANGED <<events, asked, clone, command, posted, inbox, delivered>>

\* For mutation only: a cancellation of a job that has ended is refused.
DeliverCancellationInTime ==
  /\ command["CANCEL"] = "PENDING" /\ status \notin Ended \cup {"NONE"} /\ ~asked
  /\ asked' = TRUE
  /\ status' = "CANCEL_REQUESTED"
  /\ UNCHANGED <<events, clone, command, posted, inbox, delivered>>

\* acceptCancellation; without a job it is refused and tried again.
DeliverCancellation ==
  /\ command["CANCEL"] = "PENDING" /\ status # "NONE" /\ ~asked
  /\ asked' = TRUE
  /\ status' = IF status \in Ended THEN status ELSE "CANCEL_REQUESTED"
  /\ UNCHANGED <<events, clone, command, posted, inbox, delivered>>

\* enqueueEvent is called for these moves; a move back to RUNNING says nothing.
Announced(s, t) == t \in Ended \cup {"ASSEMBLING"} \/ <<s, t>> = <<"INGESTING", "RUNNING">>

\* A phase of the job begins or is tried again. Room is kept for the end.
JobAdvances ==
  /\ \E t \in {"RUNNING", "ASSEMBLING"} :
       /\ <<status, t>> \in (Moves \ {<<"ASSEMBLING", "RUNNING">>}) \cup {<<"ASSEMBLING", "ASSEMBLING">>}
       /\ Announced(status, t) => Len(events) < MaxEvents - 2
       /\ status' = t
       /\ events' = IF Announced(status, t) THEN Append(events, t) ELSE events
  /\ UNCHANGED <<asked, clone, command, posted, inbox, delivered>>

\* The deadline makes CANCEL_REQUESTED without a command. The same transaction
\* takes a job of which no page is rendered back to RUNNING if pages succeeded,
\* also from an assembly, and with new attempts.
JobOverdue ==
  /\ \/ status \in Active /\ status' = "CANCEL_REQUESTED"
     \/ status = "ASSEMBLING" /\ status' = "RUNNING"
  /\ UNCHANGED <<events, asked, clone, command, posted, inbox, delivered>>

\* incrementJob: a RUNNING event after a hundred pages. No page is rendered any
\* more when the job assembles or has ended (SiteJobs!AssemblyIsQuiet).
Progress ==
  /\ status \in {"RUNNING", "CANCEL_REQUESTED"} /\ Len(events) < MaxEvents - 2
  /\ events' = Append(events, "RUNNING")
  /\ UNCHANGED <<status, asked, clone, command, posted, inbox, delivered>>

JobEnds ==
  /\ \E t \in Ended : /\ <<status, t>> \in Moves
                      /\ Len(events) < MaxEvents
                      /\ status' = t /\ events' = Append(events, t)
  /\ UNCHANGED <<asked, clone, command, posted, inbox, delivered>>

\* eventLoop: claimEvent and the request.
PostEvent(v) ==
  /\ v \in DOMAIN events /\ v \notin delivered \cup posted
  /\ posted' = posted \cup {v}
  /\ UNCHANGED <<status, events, asked, clone, command, inbox, delivered>>

\* The request is lost, or times out: retryEvent.
RequestLost(v) ==
  /\ v \in posted \ inbox
  /\ posted' = posted \ {v}
  /\ UNCHANGED <<status, events, asked, clone, command, inbox, delivered>>

\* completeEvent.
EventAcknowledged(v) ==
  /\ v \in inbox \ delivered
  /\ delivered' = delivered \cup {v}
  /\ UNCHANGED <<status, events, asked, clone, command, posted, inbox>>

MsgNext ==
  \/ MarkReadyForDispatch \/ Cancel \/ DeliverRequest \/ DeliverCancellation
  \/ JobAdvances \/ JobOverdue \/ Progress \/ JobEnds
  \/ \E m \in Commands : CommandAcknowledged(m)
  \/ \E v \in Versions : Consume(v) \/ PostEvent(v) \/ RequestLost(v) \/ EventAcknowledged(v)

MsgSpec == MsgInit /\ [][MsgNext]_all

\* The deadline is reconciled again and again.
Interrupted == []<><<JobOverdue>>_all

\* Dispatchers and loops poll for ever and a connection does not fail for ever.
\* A job ends if the reconciliation of its deadline does not interrupt it for
\* ever (SiteJobs!JobEnds and SiteJobs!EndsUnlessInterrupted), which the code does
\* not exclude: every poll takes an overdue assembly back.
MsgFairness ==
  /\ WF_all(DeliverRequest) /\ WF_all(DeliverCancellation)
  /\ Interrupted \/ SF_all(JobEnds)
  /\ \A m \in Commands : WF_all(CommandAcknowledged(m))
  /\ \A v \in Versions : WF_all(PostEvent(v)) /\ SF_all(Consume(v)) /\ WF_all(EventAcknowledged(v))
-----------------------------------------------------------------------------
(* Properties *)

\* Every variable holds a value of its type.
MsgTypeOK ==
  /\ status \in {"NONE", "CANCEL_REQUESTED"} \cup Active \cup Ended
  /\ Len(events) <= MaxEvents /\ \A v \in DOMAIN events : events[v] \in Ended \cup {"RUNNING", "ASSEMBLING"}
  /\ clone.status \in {"WAITING_FOR_SCAN", "QUEUED", "RUNNING", "ASSEMBLING", "CANCEL_REQUESTED"} \cup Ended
  /\ clone.version \in 0 .. MaxEvents
  /\ command \in [Commands -> {"NONE", "PENDING", "DELIVERED"}]
  /\ delivered \subseteq inbox /\ inbox \subseteq posted /\ posted \subseteq Versions

\* What the Control Plane says of a clone that ended is how the worker ended it,
\* but for a clone its owner cancelled before the first event arrived.
EndIsReal ==
  clone.status \in Ended =>
    \/ clone.status = status
    \/ clone.status \in {"PUBLISHED", "PARTIAL"} /\ status = "EXPIRED"
    \/ clone.status = "CANCELLED" /\ clone.version = 0 /\ command["CANCEL"] # "NONE"

\* A cancellation the owner asked for stays visible until the clone ends, and no
\* late event takes a clone back.
CancellationStays ==
  [][/\ clone.status = "CANCEL_REQUESTED" => clone'.status \in Ended \cup {"CANCEL_REQUESTED"}
     /\ clone'.version >= clone.version
     /\ clone.status \in Ended => clone' = clone]_all

\* A cancellation is acknowledged only when the job can no longer go on as if
\* nobody had asked: it is marked in the worker's inbox.
CancellationReachesJob ==
  command["CANCEL"] = "DELIVERED" => asked /\ status # "NONE"

\* Every clone that is dispatched ends in the Control Plane and at the worker,
\* unless the reconciliation of its deadline interrupts it for ever; every command
\* and event is acknowledged in any case.
ClonesEnd ==
  /\ Interrupted \/ (clone.status = "QUEUED" ~> clone.status \in Ended /\ status \in Ended)
  /\ \A m \in Commands : command[m] = "PENDING" ~> command[m] = "DELIVERED"
  /\ \A v \in Versions : v \in DOMAIN events ~> v \in delivered

=============================================================================
