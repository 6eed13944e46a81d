------------------------------- MODULE Access --------------------------------
(***************************************************************************)
(* How a user gets at the system: the session the tabs are signed in to,   *)
(* the admission of what is asked for, and the panel that shows the browser *)
(* in which the user signs in to a site for its clone.  Each has state of  *)
(* its own, and every step is one of theirs.                               *)
(***************************************************************************)
EXTENDS SessionRotation, Admission, BrowserPanel

accessVars == <<vars, admissionVars, panelVars>>

AccessInit == Init /\ AdmissionInit /\ PanelInit

AccessNext ==
    \/ Next /\ UNCHANGED <<admissionVars, panelVars>>
    \/ AdmissionNext /\ UNCHANGED <<vars, panelVars>>
    \/ PanelNext /\ UNCHANGED <<vars, admissionVars>>

AccessSpec == AccessInit /\ [][AccessNext]_accessVars

\* Nothing is undone by what comes late: a revoked session is issued nothing, the
\* repetition of an accepted request is never answered by a conflict, and the
\* panel never shows an earlier state of the session again.
NothingComesBack == NothingAfterRevocation /\ RepeatsReplay /\ NeverGoesBack
=============================================================================
