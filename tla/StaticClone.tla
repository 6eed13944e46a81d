---------------------------- MODULE StaticClone ----------------------------
(***************************************************************************)
(* The static clone of one page (capture-worker/src/static-clone.ts, as    *)
(* createReconstruction of capture.ts drives it): planStaticClone gives    *)
(* each captured resource a path in the archive, the page's HTML is        *)
(* rewritten to those paths, and buildStaticClone rewrites the style       *)
(* sheets, packs what fits and writes a manifest.                          *)
(*                                                                         *)
(* URLs, bodies and paths are abstract.  A URL has the path its words give *)
(* it, which other URLs may share (query values are not part of a path);   *)
(* a path is a name with the suffixes deduplicatePath appends to it.       *)
(***************************************************************************)
EXTENDS Integers, FiniteSets, SequencesExt

CONSTANTS
    ResourceUrls,      \* resource URLs
    PathParts, PathOf, \* names in paths, and urlToLocalPath of each URL
    StyleSheets,       \* URLs whose resource type is stylesheet
    RefersTo,          \* URLs that the style sheet at a URL refers to
    Foreign,           \* URLs that are neither same-origin nor admitted
    MainPath,          \* the document's path
    Bodies, SizeOf,    \* response bodies, and their lengths
    HtmlSizes,         \* lengths of the HTML, captured and rewritten
    Growth,            \* by how much rewriting may lengthen a style sheet
    MaxResources,      \* bound: captured resources
    MaxFiles, MaxInputBytes

\* Every URL has a path, lengths are numbers, and an archive has room for its document.
ASSUME CloneAssumption ==
    /\ PathOf \in [ResourceUrls -> Seq(PathParts) \ {<<>>}]
    /\ SizeOf \in [Bodies -> Nat] /\ HtmlSizes \subseteq Nat /\ Growth \subseteq Int
    /\ MaxResources \in Nat /\ MaxFiles \in Nat \ {0} /\ MaxInputBytes \in Nat

Absent == 0
NoPath == <<>>

VARIABLES
    addressed,   \* contentAddressedResources: the site clone's mode
    captured,    \* the clone's inputs, in order
    htmlSize,    \* length of the HTML, as captured and then as rewritten
    growth,      \* how much longer a rewritten style sheet is
    phase,
    plan,        \* planStaticClone's result
    build        \* buildStaticClone's result

cloneVars == <<addressed, captured, htmlSize, growth, phase, plan, build>>

Resources == [url : ResourceUrls, body : Bodies \cup {Absent}, truncated : BOOLEAN]

Nothing == [resources |-> <<>>, replacements |-> <<>>]
NotBuilt == [status |-> "NONE", code |-> "", packaged |-> 0, skipped |-> 0,
             bytes |-> 0, files |-> <<>>, manifest |-> <<>>]

CloneInit ==
    /\ addressed \in BOOLEAN
    /\ captured \in UNION {[1 .. n -> Resources] : n \in 0 .. MaxResources}
    /\ \A i \in DOMAIN captured : captured[i].body = Absent => ~captured[i].truncated
    /\ htmlSize \in HtmlSizes /\ growth = 0
    /\ phase = "captured"
    /\ plan = Nothing /\ build = NotBuilt

-----------------------------------------------------------------------------
(* planStaticClone                                                          *)

Desired(r) == IF addressed THEN <<"assets", r.body, r.url \in StyleSheets>>
              ELSE PathOf[r.url]

\* For mutation only: bodies are told apart, but not the places a style sheet's
\* links start from.
ContentKeyOfBody(r) == <<Desired(r), NoPath>>

\* Equal bodies share a file; style sheets only when they share their URL,
\* from which their relative references start.
ContentKey(r) == <<Desired(r), IF r.url \in StyleSheets THEN r.url ELSE NoPath>>

Suffixed(p, k) == IF k = 0 THEN p ELSE Append(p, k)

\* The first of p, p_1, p_2, ... that no file has yet.
DeduplicatePath(p, used) ==
    LET free == {k \in 0 .. Cardinality(used) : Suffixed(p, k) \notin used}
    IN  Suffixed(p, CHOOSE k \in free : \A j \in free : k <= j)

Planned(r, path, reason) == [url |-> r.url, body |-> r.body,
    truncated |-> r.truncated, path |-> path, skip |-> reason]

\* Map.set
Mapped(f, x, y) == [z \in DOMAIN f \cup {x} |-> IF z = x THEN y ELSE f[z]]

\* One resource; p is the plan so far.
PlanOne(p, r) ==
    LET key == ContentKey(r)
        skip(reason) == [p EXCEPT !.resources = Append(@, Planned(r, NoPath, reason))]
        point(q, path) == [q EXCEPT !.replacements = Mapped(@, r.url, path),
                                    !.resources = Append(@, Planned(r, path, ""))]
        new == DeduplicatePath(Desired(r), p.used)
    IN  IF r.body = Absent THEN skip("BODY_UNAVAILABLE")
        ELSE IF r.url \in Foreign THEN skip("EXTERNAL_ORIGIN")
        ELSE IF addressed /\ key \in DOMAIN p.contentPaths
        THEN point(p, p.contentPaths[key])
        ELSE IF p.files >= MaxFiles THEN skip("FILE_COUNT_BUDGET_EXCEEDED")
        ELSE IF p.bytes + SizeOf[r.body] > MaxInputBytes
        THEN skip("CLONE_INPUT_BUDGET_EXCEEDED")
        ELSE point([p EXCEPT !.used = @ \cup {new}, !.files = @ + 1,
                             !.contentPaths = Mapped(@, key, new),
                             !.bytes = @ + SizeOf[r.body]], new)

PlanStart == [resources |-> <<>>, replacements |-> <<>>, used |-> {MainPath},
              contentPaths |-> <<>>, files |-> 1, bytes |-> htmlSize]

\* One resource after the other.
Plan == LET upTo[n \in 0 .. Len(captured)] ==
              IF n = 0 THEN PlanStart ELSE PlanOne(upTo[n - 1], captured[n])
        IN  upTo[Len(captured)]

PlanStaticClone ==
    /\ phase = "captured" /\ phase' = "planned"
    /\ plan' = [resources |-> Plan.resources, replacements |-> Plan.replacements]
    /\ UNCHANGED <<addressed, captured, htmlSize, growth, build>>

-----------------------------------------------------------------------------
(* rewriteRenderedHtml: the page's references to planned URLs now name the  *)
(* files; its length changes, and so will that of the style sheets.         *)

RewriteHtml ==
    /\ phase = "planned" /\ phase' = "rewritten"
    /\ htmlSize' \in HtmlSizes /\ growth' \in Growth
    /\ UNCHANGED <<addressed, captured, plan, build>>

Failed == [NotBuilt EXCEPT !.status = "FAILED", !.skipped = Len(captured)]

\* The deadline passes or the page is gone; the capture itself succeeds.
RewriteFails ==
    /\ phase = "planned" /\ phase' = "built"
    /\ build' = Failed
    /\ UNCHANGED <<addressed, captured, htmlSize, growth, plan>>

-----------------------------------------------------------------------------
(* buildStaticClone                                                         *)

\* rewriteCss: the first resource that still has a path decides.
CssTarget(resources, u) ==
    LET at == {i \in DOMAIN resources : resources[i].url = u /\ resources[i].path # NoPath}
    IN  resources[CHOOSE i \in at : \A j \in at : i <= j].path

CssReferences(resources, u) ==
    {[url |-> v, path |-> CssTarget(resources, v)] :
        v \in {v \in RefersTo[u] : \E i \in DOMAIN resources :
                  resources[i].url = v /\ resources[i].path # NoPath}}

\* The i-th resource; b is the build so far.
BuildOne(b, i) ==
    LET r == b.resources[i]
        css == r.url \in StyleSheets
        length == SizeOf[r.body] + IF css THEN growth ELSE 0
        drop == [b EXCEPT !.limited = TRUE,
                     !.resources[i] = [@ EXCEPT !.path = NoPath, !.skip =
                         IF b.count >= MaxFiles THEN "FILE_COUNT_BUDGET_EXCEEDED"
                         ELSE "CLONE_INPUT_BUDGET_EXCEEDED"]]
    IN  IF r.body = Absent \/ r.path = NoPath \/ r.skip # "" THEN b
        ELSE IF b.count >= MaxFiles \/ b.bytes + SizeOf[r.body] > MaxInputBytes THEN drop
        ELSE IF \E f \in Range(b.files) : f.path = r.path THEN b
        ELSE IF b.bytes + length > MaxInputBytes THEN drop
        ELSE [b EXCEPT !.bytes = @ + length, !.count = @ + 1,
                       !.files = Append(@, [path |-> r.path, url |-> r.url, body |-> r.body,
                           refs |-> IF css THEN CssReferences(b.resources, r.url) ELSE {}])]

BuildStart == [resources |-> plan.resources, bytes |-> htmlSize, count |-> 1,
               files |-> <<>>, limited |-> FALSE]

Packed == LET upTo[n \in 0 .. Len(captured)] ==
                IF n = 0 THEN BuildStart ELSE BuildOne(upTo[n - 1], n)
          IN  upTo[Len(captured)]

Entry(b, r) ==
    IF r.path # NoPath /\ \E f \in Range(b.files) : f.path = r.path
    THEN [url |-> r.url, packed |-> TRUE, truncated |-> r.truncated, reason |-> ""]
    ELSE [url |-> r.url, packed |-> FALSE, truncated |-> r.truncated,
          reason |-> IF r.skip = "" THEN "BODY_UNAVAILABLE" ELSE r.skip]

Code(skipped, truncated, limited) ==
    IF skipped = 0 /\ ~truncated THEN "COMPLETE"
    ELSE IF limited THEN "BUDGET_LIMITED"
    ELSE IF truncated THEN "TRUNCATED_RESOURCE" ELSE "RESOURCE_GAPS"

\* What is written of the build b.
Outcome(b) ==
    LET manifest == [i \in DOMAIN captured |-> Entry(b, b.resources[i])]
        skipped == Cardinality({i \in DOMAIN manifest : ~manifest[i].packed})
        cut == \E i \in DOMAIN manifest : manifest[i].truncated
        code == Code(skipped, cut, b.limited)
    IN  [status |-> IF code = "COMPLETE" THEN "PUBLISHED" ELSE "PARTIAL",
         code |-> code, packaged |-> b.count, skipped |-> skipped,
         bytes |-> b.bytes, files |-> b.files, manifest |-> manifest]

Build ==
    /\ phase = "rewritten" /\ phase' = "built"
    /\ build' = IF htmlSize > MaxInputBytes THEN Failed ELSE Outcome(Packed)
    /\ UNCHANGED <<addressed, captured, htmlSize, growth, plan>>

\* The ZIP is too large or cannot be written.
ArchiveFails ==
    /\ phase = "rewritten" /\ phase' = "built"
    /\ build' = Failed
    /\ UNCHANGED <<addressed, captured, htmlSize, growth, plan>>

CloneNext == PlanStaticClone \/ RewriteHtml \/ RewriteFails \/ Build \/ ArchiveFails

CloneSpec == CloneInit /\ [][CloneNext]_cloneVars

-----------------------------------------------------------------------------

Built == phase = "built" /\ build.status # "FAILED"

\* What the HTML (0) or a packed style sheet refers to in the archive.
References ==
    {[url |-> u, path |-> plan.replacements[u]] : u \in DOMAIN plan.replacements}
    \cup UNION {f.refs : f \in Range(build.files)}

\* Resources that share a path have the same body (and, as style sheets, the same
\* URL), and none has the document's: whatever of them the build keeps, a path
\* means one content, although a suffixed path may be another URL's own.
PathsUnique ==
    LET kept == {r \in Range(plan.resources) : r.path # NoPath}
    IN  \A r, q \in kept :
            /\ r.path # MainPath
            /\ r.path = q.path => r.body = q.body
            /\ r.path = q.path /\ r.url \in StyleSheets => r.url = q.url

\* A reference that was rewritten leads to a file with a body that was captured
\* from the URL it named; a style sheet's file is also that of the URL itself,
\* so that its own references start from the right place.
ReferencesRight ==
    Built => \A ref \in References : \A f \in Range(build.files) : f.path = ref.path =>
        /\ \E i \in DOMAIN captured : captured[i].url = ref.url /\ captured[i].body = f.body
        /\ ref.url \in StyleSheets => f.url = ref.url

Resolves(ref) == \E f \in Range(build.files) : f.path = ref.path

\* A rewritten reference to a file that is not in the archive occurs only in
\* an archive that says its budget cut it short.
DanglingDeclared ==
    Built => (build.code # "BUDGET_LIMITED" => \A ref \in References : Resolves(ref))

\* The code COMPLETE means that every captured resource is in the archive in
\* full, and an entry is packed only if a file has its body.
ManifestHonest ==
    Built =>
        /\ build.code = "COMPLETE" <=>
               \A i \in DOMAIN captured :
                   /\ ~captured[i].truncated
                   /\ \E f \in Range(build.files) : f.body = captured[i].body
                   /\ build.manifest[i].packed
        /\ \A i \in DOMAIN captured : build.manifest[i].packed =>
               \E f \in Range(build.files) : f.body = captured[i].body
        /\ \A i \in DOMAIN captured : build.manifest[i].packed <=> build.manifest[i].reason = ""

\* The counters satisfy the CHECK constraints of the table that stores them,
\* also where several resources share a file.
CountsFit ==
    phase = "built" =>
        /\ build.packaged + build.skipped <= 1 + Len(captured)
        /\ build.packaged <= MaxFiles
        /\ build.status # "FAILED" => build.bytes <= MaxInputBytes
        /\ build.status # "FAILED" => build.packaged = 1 + Len(build.files)

\* A page's clone is what it says: a reference that was redirected leads to a body
\* captured from the URL it named, resources that share a path share a body, a
\* reference to a file that was left out is declared, COMPLETE means that nothing
\* is missing, and the counters pass their table's CHECKs (static-clone.ts).
CloneHonest ==
    PathsUnique /\ ReferencesRight /\ DanglingDeclared /\ ManifestHonest /\ CountsFit
=============================================================================
