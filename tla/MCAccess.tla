----------------------------- MODULE MCAccess -------------------------------
(***************************************************************************)
(* Access for TLC.  Since the three models share no state, a behaviour is  *)
(* one of a single part, the others resting in initial states.             *)
(***************************************************************************)
EXTENDS Access, TLC

CONSTANTS
  t1, t2, c1, c2, c3,                        \* tabs and their calls
  r1, r2, r3, w1, w2, u1, u2, p1, k1,        \* requests, websites, URLs, a page, a key
  cloneA, cloneB                             \* clones

VARIABLE part   \* what this behaviour is of

all == <<part, accessVars>>

MCTabOf == [c \in Calls |-> IF c = c3 THEN t2 ELSE t1]

\* Three scans or clones of a user with two websites; one scan may be active.
ScansAndClones == \A r \in Requests : req'[r].op \in {"none", "scan", "clone"}

\* Three requests of all kinds that are about one website.
OneWebsite ==
  /\ site'[w2].status = "ABSENT"
  /\ \A r \in Requests : req'[r].target \notin {w2, u2} /\ req'[r].site # w2

-----------------------------------------------------------------------------

AllInit ==
  /\ part \in {"session", "admission", "website", "panel"}
  /\ AccessInit
  /\ part = "website" => site[w1].url # u2 /\ site[w2].status = "ABSENT"
  /\ part \in {"session", "panel"} => \A w \in Sites : site[w].status = "ABSENT"
  /\ part # "panel" => siteCloneId = cloneA

AllNext ==
  /\ UNCHANGED part
  /\ \/ part = "session" /\ Next /\ UNCHANGED <<admissionVars, panelVars>>
     \/ part = "admission" /\ AdmissionNext /\ ScansAndClones /\ UNCHANGED <<vars, panelVars>>
     \/ part = "website" /\ AdmissionNext /\ OneWebsite /\ UNCHANGED <<vars, panelVars>>
     \/ part = "panel" /\ PanelNext /\ UNCHANGED <<vars, admissionVars>>

AllSpec == AllInit /\ [][AllNext]_all
=============================================================================
