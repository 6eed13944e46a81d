---------------------------- MODULE BrowserPanel ----------------------------
(***************************************************************************)
(* The panel through which a user drives the managed browser of a site     *)
(* clone (frontend/src/components/ManagedBrowserPanel.tsx).  It polls the  *)
(* session and its screenshot, and sends the user's actions; answers come  *)
(* back in any order, after the panel has moved to another clone or is     *)
(* gone.  generation and refreshSequence decide which answers still count. *)
(***************************************************************************)
EXTENDS Integers, FiniteSets

CONSTANTS
    Clones,
    MaxGeneration, MaxSequence,   \* bounds: changes and refreshes
    MaxVersion                    \* bound: changes of a session on the worker

ASSUME PanelLimits == MaxGeneration \in Nat /\ MaxSequence \in Nat /\ MaxVersion \in Nat

NoSession == [status |-> "NONE", version |-> 0]
Operations == {"start", "act", "ready", "close"}

VARIABLES
    siteCloneId,  \* the clone the panel is for
    mounted, generation, sequence, refreshing, acting, busy,
    session,      \* what the panel shows
    screenshot,   \* whether screenshotRef holds an object URL
    urls,         \* object URLs that were created and not revoked
    panelCalls,   \* API calls under way, answered or not
    remote        \* the worker's session of each clone, and its last version

refs == <<generation, sequence, refreshing, acting, busy>>
shown == <<session, screenshot, urls>>
panelVars == <<siteCloneId, mounted, refs, shown, panelCalls, remote>>

SessionStates == [status : {"NONE", "OPEN", "READY"}, version : 0 .. MaxVersion]
Call == [op : Operations \cup {"refresh"}, clone : Clones, gen : 1 .. MaxGeneration,
         seq : 0 .. MaxSequence, answer : {"none", "session", "gone", "error"}, value : SessionStates]

PanelTypes ==
    /\ siteCloneId \in Clones /\ mounted \in BOOLEAN
    /\ generation \in 1 .. MaxGeneration + 2 /\ sequence \in 0 .. MaxSequence
    /\ refreshing \in BOOLEAN /\ acting \in BOOLEAN /\ busy \in BOOLEAN
    /\ session \in [clone : Clones, value : SessionStates]
    /\ screenshot \in BOOLEAN /\ urls \in 0 .. 1
    /\ panelCalls \subseteq Call
    /\ remote \in [Clones -> SessionStates]

PanelInit ==
    /\ siteCloneId \in Clones /\ mounted = TRUE
    /\ generation = 1 /\ sequence = 0
    /\ refreshing = FALSE /\ acting = FALSE /\ busy = FALSE
    /\ session = [clone |-> siteCloneId, value |-> NoSession]
    /\ screenshot = FALSE /\ urls = 0 /\ panelCalls = {}
    /\ remote = [c \in Clones |-> NoSession]

-----------------------------------------------------------------------------
(* The panel                                                                *)

Send(op, gen, seq) ==
    [op |-> op, clone |-> siteCloneId, gen |-> gen, seq |-> seq, answer |-> "none", value |-> NoSession]

Clear(c) ==
    /\ session' = [clone |-> c, value |-> NoSession]
    /\ screenshot' = FALSE
    /\ urls' = IF screenshot THEN urls - 1 ELSE urls

\* start, send, ready and close all go through changeSession.
ChangeSession(op) ==
    /\ mounted /\ ~acting /\ generation < MaxGeneration
    /\ op \in {"act", "ready"} => session.value.status = "OPEN"
    /\ op = "close" => session.value.status # "NONE"
    /\ acting' = TRUE /\ busy' = TRUE
    /\ generation' = generation + 1
    /\ panelCalls' = panelCalls \cup {Send(op, generation + 1, sequence)}
    /\ UNCHANGED <<siteCloneId, mounted, sequence, refreshing, shown, remote>>

\* The timer of the poll: nothing while an action or a refresh is under way.
Poll ==
    /\ mounted /\ session.value.status = "OPEN"
    /\ ~acting /\ ~refreshing /\ sequence < MaxSequence
    /\ refreshing' = TRUE /\ sequence' = sequence + 1
    /\ panelCalls' = panelCalls \cup {Send("refresh", generation, sequence + 1)}
    /\ UNCHANGED <<siteCloneId, mounted, generation, acting, busy, shown, remote>>

\* For mutation only: answers to an earlier session's refresh still count.
CountsAnyway(c) == mounted /\ c.seq = sequence

\* Whether the answer to a refresh still counts.
Counts(c) == mounted /\ c.gen = generation /\ c.seq = sequence

\* A refresh resumes.
Refreshed(c) ==
    /\ c \in panelCalls /\ c.op = "refresh" /\ c.answer # "none"
    /\ panelCalls' = panelCalls \ {c}
    /\ refreshing' = IF c.seq = sequence THEN FALSE ELSE refreshing
    /\ IF ~Counts(c) THEN UNCHANGED <<shown, acting, busy>>
       ELSE /\ CASE c.answer = "session" ->
                      /\ session' = [clone |-> c.clone, value |-> c.value]
                      /\ screenshot' = TRUE
                      /\ urls' = IF screenshot THEN urls ELSE urls + 1
                 [] c.answer = "gone" -> Clear(siteCloneId)
                 [] c.answer = "error" -> UNCHANGED shown
            \* Only the action that forced the refresh can be under way.
            /\ acting' = FALSE /\ busy' = FALSE
    /\ UNCHANGED <<siteCloneId, mounted, generation, sequence, remote>>

\* An action resumes; start and act then force a refresh, and are under way
\* until it is through.
Changed(c) ==
    /\ c \in panelCalls /\ c.op \in Operations /\ c.answer # "none"
    /\ IF ~mounted \/ c.gen # generation
       THEN panelCalls' = panelCalls \ {c} /\ UNCHANGED <<refs, shown>>
       ELSE /\ UNCHANGED generation
            /\ CASE c.answer = "session" /\ c.op # "close" ->
                      /\ session' = [clone |-> siteCloneId, value |-> c.value]
                      /\ UNCHANGED <<screenshot, urls>>
                 [] c.answer = "gone" \/ (c.answer = "session" /\ c.op = "close") -> Clear(siteCloneId)
                 [] c.answer = "error" -> UNCHANGED shown
            /\ IF c.answer = "session" /\ c.op \in {"start", "act"}
               THEN /\ sequence < MaxSequence /\ sequence' = sequence + 1 /\ refreshing' = TRUE
                    /\ panelCalls' = (panelCalls \ {c}) \cup {Send("refresh", generation, sequence + 1)}
                    /\ UNCHANGED <<acting, busy>>
               ELSE /\ acting' = FALSE /\ busy' = FALSE
                    /\ panelCalls' = panelCalls \ {c}
                    /\ UNCHANGED <<sequence, refreshing>>
    /\ UNCHANGED <<siteCloneId, mounted, remote>>

\* For mutation only: the panel is shown for another clone and forgets what was
\* under way, but the answers to it are not told apart from later ones.
ShowCloneSameGeneration(c) ==
    /\ mounted /\ c # siteCloneId /\ generation < MaxGeneration /\ sequence < MaxSequence
    /\ siteCloneId' = c
    /\ refreshing' = FALSE /\ acting' = FALSE /\ busy' = FALSE
    /\ Clear(c)
    /\ UNCHANGED <<mounted, generation, sequence, panelCalls, remote>>

\* The panel is shown for another clone: cleanup and effect.  What is under way
\* goes on, and its answers are of an earlier generation.
ShowClone(c) ==
    /\ mounted /\ c # siteCloneId /\ generation < MaxGeneration /\ sequence < MaxSequence
    /\ siteCloneId' = c
    /\ generation' = generation + 2 /\ sequence' = sequence + 1
    /\ refreshing' = FALSE /\ acting' = FALSE /\ busy' = FALSE
    /\ Clear(c)
    /\ UNCHANGED <<mounted, panelCalls, remote>>

Unmount ==
    /\ mounted /\ mounted' = FALSE
    /\ generation' = generation + 1
    /\ urls' = IF screenshot THEN urls - 1 ELSE urls
    /\ screenshot' = FALSE
    /\ UNCHANGED <<siteCloneId, sequence, refreshing, acting, busy, session, panelCalls, remote>>

-----------------------------------------------------------------------------
(* The worker's answers, in any order; a call may also fail on its way      *)

Bumped(c, st) == [remote EXCEPT ![c] = [status |-> st, version |-> @.version + 1]]

After(c) ==
    CASE c.op = "refresh" -> remote
      [] c.op = "start" -> IF remote[c.clone].status = "NONE" THEN Bumped(c.clone, "OPEN") ELSE remote
      [] c.op = "act" -> IF remote[c.clone].status = "OPEN" THEN Bumped(c.clone, "OPEN") ELSE remote
      [] c.op = "ready" -> IF remote[c.clone].status = "OPEN" THEN Bumped(c.clone, "READY") ELSE remote
      [] c.op = "close" -> IF remote[c.clone].status = "NONE" THEN remote ELSE Bumped(c.clone, "NONE")

\* A confirmed session takes no more actions.
Verdict(op, st) ==
    CASE op = "start" -> "session"
      [] op # "start" /\ st = "NONE" -> "gone"
      [] op = "act" /\ st = "READY" -> "error"
      [] OTHER -> "session"

Reply(c) ==
    /\ c \in panelCalls /\ c.answer = "none"
    /\ After(c)[c.clone].version <= MaxVersion
    /\ remote' = After(c)
    /\ panelCalls' = (panelCalls \ {c}) \cup
                {[c EXCEPT !.value = remote'[c.clone],
                           !.answer = Verdict(c.op, remote[c.clone].status)]}
    /\ UNCHANGED <<siteCloneId, mounted, refs, shown>>

ReplyFails(c) ==
    /\ c \in panelCalls /\ c.answer = "none"
    /\ \E st \in {remote, After(c)} :
          st[c.clone].version <= MaxVersion /\ remote' = st
    /\ panelCalls' = (panelCalls \ {c}) \cup {[c EXCEPT !.answer = "error"]}
    /\ UNCHANGED <<siteCloneId, mounted, refs, shown>>

\* Ten minutes pass, or the worker restarts.
SessionEnds(c) ==
    /\ remote[c].status # "NONE" /\ remote[c].version < MaxVersion
    /\ remote' = Bumped(c, "NONE")
    /\ UNCHANGED <<siteCloneId, mounted, refs, shown, panelCalls>>

PanelNext ==
    \/ \E op \in Operations : ChangeSession(op)
    \/ Poll \/ Unmount
    \/ \E c \in panelCalls : Refreshed(c) \/ Changed(c) \/ Reply(c) \/ ReplyFails(c)
    \/ \E c \in Clones : ShowClone(c) \/ SessionEnds(c)

PanelSpec == PanelInit /\ [][PanelNext]_panelVars

-----------------------------------------------------------------------------

\* The session on the screen is one of the clone the panel is for, although
\* calls for an earlier clone may still be answered.
ShowsItsClone == session.clone = siteCloneId

\* What the panel shows never goes back to an earlier state of the session: an
\* answer that was overtaken by an action or a later refresh is dropped.
NeverGoesBack ==
    [][siteCloneId' = siteCloneId /\ session.value # NoSession /\ session'.value # NoSession
        => session'.value.version >= session.value.version]_panelVars

\* While the buttons are disabled an action, or the refresh it forced, is under
\* way whose answer will enable them; likewise the flag that holds polls back.
NeverStuck ==
    mounted =>
        /\ busy = acting
        /\ acting => \E c \in panelCalls : c.gen = generation /\
                        (c.op \in Operations \/ c.seq = sequence)
        /\ refreshing => \E c \in panelCalls : c.op = "refresh" /\ c.seq = sequence

\* Exactly the object URL in screenshotRef exists; none after the panel is gone.
ScreenshotsRevoked == urls = (IF screenshot THEN 1 ELSE 0) /\ (screenshot => mounted)

\* The panel shows a session of the clone it is for, although calls for an earlier
\* clone may still be answered; while its buttons are disabled or polls held back
\* a call is under way that will enable them; and exactly the object URL in
\* screenshotRef exists, none after the panel is gone.
PanelConsistent == PanelTypes /\ ShowsItsClone /\ NeverStuck /\ ScreenshotsRevoked
=============================================================================
