------------------------------ MODULE Messages ------------------------------
(***************************************************************************)
(* The messages between the Control Plane and its workers: of scans        *)
(* (ScanMessaging), of captures (CaptureMessaging) and of a site clone     *)
(* (SiteMessaging), side by side.  They share no state: each has its own   *)
(* tables on both ends.                                                    *)
(***************************************************************************)
EXTENDS ScanMessaging

CONSTANTS
  Captures, MaxAttempts,    \* captures, claims of a capture's job
  MaxSiteEvents             \* bound: events of a site clone

ASSUME MessagesAssumption == MaxAttempts \in Nat /\ MaxSiteEvents \in Nat

VARIABLES
  captureStatus, sent, cp, captureCommand, capturePosted, captureInbox, captureDelivered,
  siteStatus, siteEvents, asked, siteClone, siteCommand, sitePosted, siteInbox, siteDelivered

captureVars == <<captureStatus, sent, cp, captureCommand, capturePosted, captureInbox,
                 captureDelivered>>
siteVars == <<siteStatus, siteEvents, asked, siteClone, siteCommand, sitePosted, siteInbox,
              siteDelivered>>
messageVars == <<vars, captureVars, siteVars>>

Capture == INSTANCE CaptureMessaging WITH
  status <- captureStatus, command <- captureCommand, posted <- capturePosted,
  inbox <- captureInbox, delivered <- captureDelivered
Site == INSTANCE SiteMessaging WITH
  MaxEvents <- MaxSiteEvents, status <- siteStatus, events <- siteEvents, clone <- siteClone,
  command <- siteCommand, posted <- sitePosted, inbox <- siteInbox, delivered <- siteDelivered

MessagesInit == Init /\ Capture!MsgInit /\ Site!MsgInit

MessagesNext ==
  \/ Next /\ UNCHANGED <<captureVars, siteVars>>
  \/ Capture!MsgNext /\ UNCHANGED <<vars, siteVars>>
  \/ Site!MsgNext /\ UNCHANGED <<vars, captureVars>>

MessagesSpec == MessagesInit /\ [][MessagesNext]_messageVars

-----------------------------------------------------------------------------
(* Properties.                                                             *)

\* A capture shows the newest event of those that arrived, in whatever order the
\* worker's outbox gives them out; what the Control Plane says of the end of a
\* capture or a clone is how the worker ended it; a clone's cancellation is
\* acknowledged only when the worker's inbox holds it.
WorkersAgree ==
  /\ Capture!MsgTypeOK /\ Capture!NewestEventWins /\ Capture!EndIsReal
  /\ Site!MsgTypeOK /\ Site!EndIsReal /\ Site!CancellationReachesJob

\* What the user sees never goes back: not the progress of a scan, not a clone that
\* was cancelled or failed before a late scan event, not a capture's terminal
\* status, and not a clone that is being cancelled.
ProjectionsMoveForward ==
  /\ ProjectionMovesForward /\ ClosedCloneStays
  /\ Capture!ProjectionAdvances /\ Site!CancellationStays

=============================================================================
