-------------------------- MODULE DesignSelection --------------------------
(***************************************************************************)
(* The pages a site clone renders (capture-worker/src/design-clone.ts,     *)
(* selectDesignPages) and the targets its ingestion stores for them        *)
(* (site-worker.ts, ingest): pages that cannot be cloned are rejected,     *)
(* then all but one of each canonical URL, then all but one of each role,  *)
(* route template and layout hint.                                         *)
(*                                                                         *)
(* URLs are numbers in their alphabetical order; what the functions that   *)
(* parse them compute is given by constants.                               *)
(***************************************************************************)
EXTENDS Integers, FiniteSets

CONSTANTS
    Urls, Root,       \* URLs; the site's
    Normal,           \* normalizeDesignUrl
    Path,             \* stripQuery
    HasQuery,         \* URLs with a query
    PathLocale,       \* localeFromPath, or "und"
    RoleOf,           \* role and route template of a path that answers 200
    LengthOf,         \* length of a normalized URL
    Inputs,           \* pages as the crawler may report them
    MaxDiscovered     \* bound: pages of the crawl

\* What the URL functions return, and what a page may say.
ASSUME UrlsAssumption ==
    /\ Urls \subseteq Nat \ {0}
    /\ Normal \in [Urls -> Urls] /\ Path \in [Urls -> Urls] /\ LengthOf \in [Urls -> Nat]
ASSUME InputsAssumption ==
    /\ MaxDiscovered \in Nat
    /\ \A p \in Inputs : p.url \in Urls /\ p.canonical \in Urls \cup {0}

None == 0
Und == "und"

VARIABLES
    pages,      \* what the crawler reported, by page id
    budget,     \* the crawl has more pages than the clone may take
    stage,      \* how far the selection is
    rejected,   \* reason of each rejected page
    winners,    \* the pages still in the selection
    targets     \* rows of site_reconstruction_pages, by page id

selectionVars == <<pages, budget, stage, rejected, winners, targets>>

Ids == DOMAIN pages

SelectionInit ==
    /\ pages \in UNION {[1 .. n -> Inputs] : n \in 1 .. MaxDiscovered}
    \* The order the crawler reports the pages in does not matter: they are sorted.
    /\ \A i, j \in Ids : i < j => pages[i].url <= pages[j].url
    /\ budget \in BOOLEAN
    /\ stage = "classify"
    /\ rejected = <<>> /\ winners = {} /\ targets = <<>>

-----------------------------------------------------------------------------
(* Comparators                                                              *)

Before(a, b) == \E k \in DOMAIN a : a[k] < b[k] /\ \A j \in 1 .. k - 1 : a[j] = b[j]

PageKey(i) == <<pages[i].url, i>>

First(S, key(_)) == CHOOSE i \in S : \A j \in S \ {i} : Before(key(i), key(j))

Number(b) == IF b THEN 1 ELSE 0

StatusRank(s) == IF s = 200 THEN 0 ELSE IF s = 404 THEN 2 ELSE IF s = 500 THEN 3 ELSE 4

SelfReference(p) == p.canonical # None /\ Path[Normal[p.canonical]] = Path[Normal[p.url]]

CandidateKey(i) ==
    LET p == pages[i]
    IN  <<Number(p.url \in HasQuery), 1 - Number(SelfReference(p)), StatusRank(p.status),
          LengthOf[Normal[p.url]], Normal[p.url], i>>

-----------------------------------------------------------------------------
(* selectDesignPages                                                        *)

FirstOf(a, b) == IF a # Und THEN a ELSE b

\* The path, then html[lang], then the canonical URL, then hreflang.
PageLocale(p) ==
    FirstOf(PathLocale[p.url],
        FirstOf(p.lang,
            FirstOf(IF p.canonical = None THEN Und ELSE PathLocale[p.canonical], p.hreflang)))

RootPages == {i \in Ids : pages[i].form # "invalid" /\ Normal[pages[i].url] = Root}

RootLocale ==
    FirstOf(PathLocale[Root],
            IF RootPages = {} THEN Und ELSE PageLocale(pages[First(RootPages, PageKey)]))

IsError(s) == s \in {404, 500}

RejectionOf(p) ==
    IF p.form = "invalid" THEN "HTTP_FAILURE"
    ELSE IF p.form = "external" THEN "EXTERNAL_ORIGIN"
    ELSE IF p.form = "file" THEN "NON_HTML"
    ELSE IF p.outcome = "warning" THEN "ROBOTS_OR_POLICY_BLOCKED"
    ELSE IF (p.outcome = "failed" \/ p.status = 0) /\ ~IsError(p.status) THEN "HTTP_FAILURE"
    ELSE IF p.form = "policy" THEN "ROBOTS_OR_POLICY_BLOCKED"
    ELSE IF RootLocale # Und /\ PageLocale(p) \notin {Und, RootLocale} THEN "ALTERNATE_LOCALE"
    ELSE ""

Candidates == {i \in Ids : RejectionOf(pages[i]) = ""}

Classify ==
    /\ stage = "classify" /\ stage' = "canonical"
    /\ rejected' = [i \in Ids \ Candidates |-> RejectionOf(pages[i])]
    /\ winners' = Candidates
    /\ UNCHANGED <<pages, budget, targets>>

Role(p) == IF p.status = 404 THEN "ERROR_4XX" ELSE IF p.status = 500 THEN "ERROR_5XX"
           ELSE RoleOf[Path[Normal[p.url]]]

Identity(i) ==
    Path[IF pages[i].canonical # None THEN Normal[pages[i].canonical] ELSE Normal[pages[i].url]]

GroupKey(i) == <<Role(pages[i]), pages[i].hint>>

\* The best page of every class of S.
Best(S, class) == {i \in S : i = First({j \in S : class[j] = class[i]}, CandidateKey)}

Merge(keep, reason) ==
    /\ winners' = keep
    /\ rejected' = [i \in DOMAIN rejected \cup (winners \ keep) |->
                       IF i \in DOMAIN rejected THEN rejected[i] ELSE reason[i]]

KeepCanonical ==
    /\ stage = "canonical" /\ stage' = "group"
    /\ Merge(Best(winners, [i \in Ids |-> Identity(i)]),
             [i \in Ids |-> IF pages[i].canonical # None THEN "CANONICAL_DUPLICATE"
                            ELSE "TRACKING_OR_QUERY_VARIANT"])
    /\ UNCHANGED <<pages, budget, targets>>

\* For mutation only: the winner of a class is looked for among all candidates.
KeepOfCandidates ==
    /\ stage = "group" /\ stage' = "budget"
    /\ Merge(winners \cap Best(Candidates, [i \in Ids |-> GroupKey(i)]),
             [i \in Ids |-> "SEMANTIC_TEMPLATE_DUPLICATE"])
    /\ UNCHANGED <<pages, budget, targets>>

KeepOneOfGroup ==
    /\ stage = "group" /\ stage' = "budget"
    /\ Merge(Best(winners, [i \in Ids |-> GroupKey(i)]),
             [i \in Ids |-> "SEMANTIC_TEMPLATE_DUPLICATE"])
    /\ UNCHANGED <<pages, budget, targets>>

LastRanked == CHOOSE i \in Ids : \A j \in Ids \ {i} : Before(PageKey(j), PageKey(i))

\* The last page stands for those the crawl still has.
MarkBound ==
    /\ stage = "budget" /\ stage' = "targets"
    /\ IF budget /\ Cardinality(Ids) > 1
       THEN /\ winners' = winners \ {LastRanked}
            /\ rejected' = [i \in DOMAIN rejected \cup {LastRanked} |->
                               IF i = LastRanked THEN "BUDGET_LIMITED" ELSE rejected[i]]
       ELSE UNCHANGED <<winners, rejected>>
    /\ UNCHANGED <<pages, budget, targets>>

-----------------------------------------------------------------------------
(* ingest: the rows for the selected and the rejected pages                 *)

\* sitePagePath, and the page's own path where the root's is taken.
TargetPath(i) ==
    IF Normal[pages[i].url] # Root THEN <<"page", i>>
    ELSE IF \E j \in winners : Normal[pages[j].url] = Root /\ Before(PageKey(j), PageKey(i))
    THEN <<"page", i, "again">> ELSE <<"index">>

\* A row with the same URL hash as an earlier one is not inserted.
Inserted == {i \in winners : \A j \in winners :
                Normal[pages[j].url] = Normal[pages[i].url] => ~Before(PageKey(j), PageKey(i))}

AddTargets ==
    /\ stage = "targets" /\ stage' = "done"
    /\ targets' =
         IF winners = {} THEN [i \in {None} |-> [path |-> <<"index">>, code |-> ""]]
         ELSE [i \in Inserted \cup DOMAIN rejected |->
                  IF i \in DOMAIN rejected
                  THEN [path |-> <<"rejected", i>>, code |-> rejected[i]]
                  ELSE [path |-> TargetPath(i), code |-> ""]]
    /\ UNCHANGED <<pages, budget, rejected, winners>>

SelectionNext == Classify \/ KeepCanonical \/ KeepOneOfGroup \/ MarkBound \/ AddTargets

SelectionSpec == SelectionInit /\ [][SelectionNext]_selectionVars

-----------------------------------------------------------------------------

Selected == stage \in {"targets", "done"}

\* Every page of the crawl is selected or rejected, and not both.
AccountedOnce ==
    Selected => winners \cup DOMAIN rejected = Ids /\ winners \cap DOMAIN rejected = {}

\* Unless the crawl was cut short, a page that is rejected as a duplicate has
\* one that stands for it: a page of its template in the selection, or a page
\* with its canonical URL that is selected or so represented.
DuplicatesRepresented ==
    Selected /\ ~budget =>
        LET standsIn(i) == \E j \in winners : GroupKey(j) = GroupKey(i)
        IN  \A i \in DOMAIN rejected :
               /\ rejected[i] = "SEMANTIC_TEMPLATE_DUPLICATE" => standsIn(i)
               /\ rejected[i] \in {"CANONICAL_DUPLICATE", "TRACKING_OR_QUERY_VARIANT"} =>
                      \E j \in Candidates : Identity(j) = Identity(i) /\ j # i /\ standsIn(j)

\* The rows' paths differ, also when several selected pages are the root; every
\* selected URL has a row, and so has every rejection if anything was selected.
TargetsRight ==
    stage = "done" =>
        /\ \A i, j \in DOMAIN targets : targets[i].path = targets[j].path => i = j
        /\ \A i \in winners : \E j \in DOMAIN targets :
               targets[j].code = "" /\ Normal[pages[j].url] = Normal[pages[i].url]
        /\ winners # {} => \A i \in DOMAIN rejected :
               i \in DOMAIN targets /\ targets[i].code = rejected[i]

\* selectDesignPages selects or rejects every page of the crawl, and not both; a
\* page rejected as a duplicate has a selected page that stands for it, unless the
\* crawl was cut short; the rows ingest stores have different paths, one for every
\* selected URL and every rejection.
SelectionAccounts == AccountedOnce /\ DuplicatesRepresented /\ TargetsRight
=============================================================================
