-------------------------- MODULE CaptureMessaging --------------------------
(***************************************************************************)
(* A capture between the Control Plane and the capture worker. The command *)
(* goes out through the Control Plane's outbox; progress events come back  *)
(* through the worker's event outbox, which, unlike the crawler's, gives   *)
(* them out in no particular order. Both directions are at least once: a   *)
(* request may be lost, repeated, overtaken, or answered too late.         *)
(*                                                                         *)
(* Code: CaptureService.create, CaptureCommandDispatcher, CaptureEventService*)
(* and CaptureRequestEntity of the Control Plane; acceptCommand, claimEvent,*)
(* completeEvent, retryEvent and eventLoop of the capture worker. The worker *)
(* itself is CaptureLifecycle, which CaptureJobs implements.               *)
(***************************************************************************)
EXTENDS CaptureLifecycle

VARIABLES
  cp,        \* capture_requests of the Control Plane: status, remote_job_version
  command,   \* outbox_events row of the command
  posted,    \* event requests that have been sent and may still arrive
  inbox,     \* inbox_messages: events the Control Plane has processed
  delivered  \* event_outbox rows in status DELIVERED

allvars == <<status, sent, cp, command, posted, inbox, delivered>>

MaxVersion == MaxAttempts + 2
Event == Captures \X (1 .. MaxVersion)

MsgInit ==
  /\ Init
  /\ cp = [c \in Captures |-> [status |-> "NONE", version |-> 0]]
  /\ command = [c \in Captures |-> "NONE"]
  /\ posted = {} /\ inbox = {} /\ delivered = {}

\* persistCapture: the projection and the command in one transaction.
Create(c) ==
  /\ cp[c].status = "NONE"
  /\ cp' = [cp EXCEPT ![c] = [status |-> "QUEUED", version |-> 0]]
  /\ command' = [command EXCEPT ![c] = "PENDING"]
  /\ UNCHANGED <<status, sent, posted, inbox, delivered>>

\* The command reaches acceptCommand, for the first time or again.
DeliverCommand(c) ==
  /\ command[c] = "PENDING" /\ status[c] = "NONE"
  /\ status' = [status EXCEPT ![c] = "QUEUED"]
  /\ UNCHANGED <<sent, cp, command, posted, inbox, delivered>>

\* The dispatcher sees the answer.
CommandAcknowledged(c) ==
  /\ command[c] = "PENDING" /\ status[c] # "NONE"
  /\ command' = [command EXCEPT ![c] = "DELIVERED"]
  /\ UNCHANGED <<status, sent, cp, posted, inbox, delivered>>

\* The worker advances the capture and puts an event into its outbox.
WorkerStep(c) ==
  /\ status[c] # "NONE"
  /\ \E t \in Statuses : \E r \in {sent[c]} \cup {Append(sent[c], e) : e \in EventStatuses} :
       /\ Advances(status[c], sent[c], t, r)
       /\ status' = [status EXCEPT ![c] = t]
       /\ sent' = [sent EXCEPT ![c] = r]
  /\ UNCHANGED <<cp, command, posted, inbox, delivered>>

\* eventLoop: an undelivered event is claimed, in any order, and posted.
PostEvent(c, v) ==
  /\ v \in DOMAIN sent[c] /\ <<c, v>> \notin delivered \cup posted
  /\ posted' = posted \cup {<<c, v>>}
  /\ UNCHANGED <<status, sent, cp, command, inbox, delivered>>

\* The request is lost; retryEvent makes the row claimable again.
RequestLost(c, v) ==
  /\ <<c, v>> \in posted /\ <<c, v>> \notin inbox
  /\ posted' = posted \ {<<c, v>>}
  /\ UNCHANGED <<status, sent, cp, command, inbox, delivered>>

\* For mutation only: any event that is not a repetition is applied.
AppliesInAnyOrder(c, v) == cp[c].status \notin Terminal

\* applyRemote: an older event, and any event after the end, is ignored.
Applies(c, v) == v > cp[c].version /\ cp[c].status \notin Terminal

\* consume: a message in the inbox is answered as a duplicate, any other is
\* applied or ignored and remembered.
Consume(c, v) ==
  /\ <<c, v>> \in posted /\ <<c, v>> \notin inbox
  /\ cp' = IF Applies(c, v)
           THEN [cp EXCEPT ![c] = [status |-> sent[c][v], version |-> v]] ELSE cp
  /\ inbox' = inbox \cup {<<c, v>>}
  /\ UNCHANGED <<status, sent, command, posted, delivered>>

\* completeEvent.
EventAcknowledged(c, v) ==
  /\ <<c, v>> \in inbox \ delivered
  /\ delivered' = delivered \cup {<<c, v>>}
  /\ UNCHANGED <<status, sent, cp, command, posted, inbox>>

MsgNext ==
  \/ \E c \in Captures : Create(c) \/ DeliverCommand(c) \/ CommandAcknowledged(c) \/ WorkerStep(c)
  \/ \E c \in Captures, v \in 1 .. MaxVersion :
       PostEvent(c, v) \/ RequestLost(c, v) \/ Consume(c, v) \/ EventAcknowledged(c, v)

MsgSpec == MsgInit /\ [][MsgNext]_allvars

\* Dispatchers and loops poll for ever, a connection does not fail for ever,
\* and the worker ends every capture (CaptureJobs!EveryCaptureEnds).
MsgFairness ==
  \A c \in Captures :
    /\ WF_allvars(DeliverCommand(c)) /\ WF_allvars(CommandAcknowledged(c))
    /\ WF_allvars(WorkerStep(c))
    /\ \A v \in 1 .. MaxVersion :
         WF_allvars(PostEvent(c, v)) /\ SF_allvars(Consume(c, v))
         /\ WF_allvars(EventAcknowledged(c, v))
-----------------------------------------------------------------------------
(* Properties *)

\* Every variable holds a value of its type.
MsgTypeOK ==
  /\ status \in [Captures -> Statuses]
  /\ \A c \in Captures : sent[c] \in Seq(EventStatuses) /\ Len(sent[c]) <= MaxVersion
  /\ cp \in [Captures -> [status : {"NONE", "QUEUED"} \cup EventStatuses, version : 0 .. MaxVersion]]
  /\ command \in [Captures -> {"NONE", "PENDING", "DELIVERED"}]
  /\ posted \subseteq Event /\ inbox \subseteq Event /\ delivered \subseteq Event

\* The Control Plane shows the newest state it has been told: no late or
\* repeated event takes it back, though events arrive in any order.
NewestEventWins ==
  \A c \in Captures :
    /\ \A v \in 1 .. MaxVersion : <<c, v>> \in inbox => v <= cp[c].version
    /\ cp[c].version > 0 => cp[c].status = sent[c][cp[c].version]

\* A capture the Control Plane calls ended has ended that way at the worker: a
\* COMPLETED one has its snapshot, a FAILED one will never produce one.
EndIsReal ==
  \A c \in Captures : cp[c].status \in Terminal => cp[c].status = status[c]

\* The projection never leaves a terminal status, nor RUNNING or INDEXING for
\* QUEUED, whichever order the events come in.
ProjectionAdvances ==
  [][\A c \in Captures :
       /\ cp[c].status \in Terminal => cp'[c] = cp[c]
       /\ cp'[c].version >= cp[c].version]_allvars

\* Every capture a user creates ends in the Control Plane, with the worker's
\* result, and every event is acknowledged.
CapturesEnd ==
  \A c \in Captures :
    /\ cp[c].status = "QUEUED" ~> cp[c].status \in Terminal /\ cp[c].status = status[c]
    /\ \A v \in 1 .. MaxVersion : v \in DOMAIN sent[c] ~> <<c, v>> \in delivered

=============================================================================
