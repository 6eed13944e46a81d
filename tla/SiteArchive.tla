---------------------------- MODULE SiteArchive ----------------------------
(***************************************************************************)
(* Assembly of a site clone (capture-worker/src/site-archive.ts): the page *)
(* bundles become one archive, in shards.  One page stands for each layout;*)
(* equal resources are kept once, and every reference to one that was not  *)
(* kept is redirected through resourceAliases to the one that was.         *)
(*                                                                         *)
(* A style sheet is its text and the paths its links were rewritten to:    *)
(* the same text at another URL links to other resources.  Paths are       *)
(* tuples, the first component naming the kind.                            *)
(***************************************************************************)
EXTENDS Integers, Sequences, FiniteSets, SequencesExt, FiniteSetsExt, Functions

CONSTANTS
    Pages,          \* 1 .. N, in the order of their ordinals
    Layouts,        \* role, route template and fingerprint of a page
    Resources,      \* what a page may have captured: [kind, url, body, copy]
    Links,          \* Links[text][url]: the URLs a style sheet's links name
    SizeOf,         \* length of a resource's or a page's body
    MaxResources,   \* bound: resources of one page
    Redirects,      \* whether a page may end at another page's URL
    Gaps,           \* whether a page may miss resources: a set of booleans
    Drops,          \* whether the build of a bundle may leave planned resources out
    MaxInputBytes, MaxShardBytes, MaxArchiveBytes

VARIABLES
    outcome,     \* status and failure code of each page
    bundle,      \* the bundle of each page that was rendered
    phase, loaded, inputBytes,
    entries,     \* the selected pages' files, in order
    sourceUrls,  \* sourceUrlToLocalPath
    aliases,     \* resourceAliases
    pageAliases, \* aliases of each page
    next,        \* entries written so far
    written,     \* content at each path
    parts,       \* closed shards
    current,     \* the open shard
    manifest

inputs == <<outcome, bundle>>
vars == <<outcome, bundle, phase, loaded, inputBytes, entries, sourceUrls, aliases,
          pageAliases, next, written, parts, current, manifest>>

Succeeded == [status |-> "SUCCEEDED", code |-> ""]
Outcomes == {Succeeded, [status |-> "FAILED", code |-> "CAPTURE_TIMEOUT"],
             [status |-> "CANCELLED", code |-> "CANCELLED"],
             [status |-> "CANCELLED", code |-> "ALTERNATE_LOCALE"]}

\* A page captures a URL once.
Captures == {s \in UNION {[1 .. n -> Resources] : n \in 0 .. MaxResources} :
                \A i, j \in DOMAIN s : s[i].url = s[j].url => i = j}

\* The path a page's clone plans for its i-th resource, by which the document
\* refers to it: named after its body, with a suffix where the page has the
\* same text at another URL.
BundlePath(resources, i) ==
    LET r == resources[i]
        earlier == {j \in 1 .. i - 1 : resources[j].kind = "css" /\ resources[j].body = r.body}
    IN  IF r.kind = "css" THEN <<"css", r.body, Cardinality(earlier)>>
        ELSE <<"pic", r.body, r.copy>>

\* What the build left out because the rewritten document or a rewritten style
\* sheet grew: never a resource without those of the same path that follow it.
CanDrop(resources, dropped) ==
    /\ dropped \subseteq DOMAIN resources
    /\ \A i \in dropped : \A j \in DOMAIN resources :
          j > i /\ BundlePath(resources, j) = BundlePath(resources, i) => j \in dropped

\* A bundle as the page's clone made it: its document refers to all the planned
\* resources, and what was left out is among the page's gaps.
Bundles ==
    {b \in [layout : Layouts, final : Pages, resources : Captures, gaps : Gaps,
            dropped : IF Drops THEN SUBSET (1 .. MaxResources) ELSE {{}}] :
        CanDrop(b.resources, b.dropped) /\ (b.dropped # {} => b.gaps)}

NoManifest == [pages |-> <<>>, code |-> ""]
NoShard == [files |-> {}, bytes |-> 0]
Rendered == {p \in Pages : outcome[p] = Succeeded}

Init ==
    /\ outcome \in [Pages -> Outcomes]
    /\ Rendered # {}
    /\ bundle \in [Rendered -> Bundles]
    /\ ~Redirects => \A p \in Rendered : bundle[p].final = p
    /\ phase = "load" /\ loaded = {} /\ inputBytes = 0
    /\ entries = <<>> /\ sourceUrls = <<>> /\ aliases = <<>>
    /\ pageAliases = <<>>
    /\ next = 1 /\ written = <<>> /\ parts = <<>> /\ current = NoShard
    /\ manifest = NoManifest

Fail(why) ==
    /\ phase' = "failed" /\ manifest' = [NoManifest EXCEPT !.code = why]

-----------------------------------------------------------------------------
(* Loading and choosing the pages                                           *)

\* The resources the bundle has files for: one for each path.
Kept(p) ==
    LET resources == bundle[p].resources
    IN  {i \in DOMAIN resources \ bundle[p].dropped :
            \A j \in 1 .. i - 1 : BundlePath(resources, j) # BundlePath(resources, i)}

PageSize(p) == 1 + MapThenSumSet(LAMBDA i : SizeOf[bundle[p].resources[i].body], Kept(p))

LoadBundle ==
    /\ phase = "load"
    /\ LET p == Min(Rendered \ loaded)
           bytes == inputBytes + PageSize(p)
       IN  /\ inputBytes' = bytes
           /\ \/ /\ bytes > MaxInputBytes /\ Fail("SITE_INPUT_BUDGET_EXCEEDED")
                 /\ UNCHANGED loaded
              \/ /\ bytes <= MaxInputBytes
                 /\ loaded' = loaded \cup {p}
                 /\ phase' = IF loaded' = Rendered THEN "select" ELSE "load"
                 /\ UNCHANGED manifest
    /\ UNCHANGED <<inputs, entries, sourceUrls, aliases, pageAliases, next, written, parts, current>>

\* A bundle is gone, has another hash or does not decode.
LoadFails ==
    /\ phase = "load" /\ Fail("INVALID_SITE_PAGE_BUNDLE")
    /\ UNCHANGED <<inputs, loaded, inputBytes, entries, sourceUrls, aliases, pageAliases,
                   next, written, parts, current>>

\* selectRepresentatives: the first page of each layout.
Selected == {p \in Rendered : \A q \in Rendered : q < p => bundle[q].layout # bundle[p].layout}

PagePath(p) == <<"page", p>>

\* A page's document and resources. The document names also what was left out.
FilesOf(p) ==
    LET resources == bundle[p].resources
        kept == SetToSortSeq(Kept(p), <)
    IN  <<[page |-> p, kind |-> "doc", url |-> "", body |-> "html", path |-> PagePath(p),
           refs |-> [i \in DOMAIN resources |-> BundlePath(resources, i)]]>>
        \o [n \in DOMAIN kept |->
               LET r == resources[kept[n]]
               IN  [page |-> p, kind |-> r.kind, url |-> r.url, body |-> r.body,
                    path |-> BundlePath(resources, kept[n]), refs |-> <<>>]]

SelectRepresentatives ==
    /\ phase = "select" /\ phase' = "paths"
    /\ entries' = FlattenSeq([i \in 1 .. Cardinality(Selected) |-> FilesOf(SetToSortSeq(Selected, <)[i])])
    /\ pageAliases' = [p \in Selected |-> <<>>]
    /\ UNCHANGED <<inputs, loaded, inputBytes, sourceUrls, aliases, next, written, parts,
                   current, manifest>>

-----------------------------------------------------------------------------
(* Paths, aliases and style sheets                                          *)

\* For mutation only: equal texts get one path.
PathOfText(e) == <<"sheet", e.body, "">>

\* The path of a style sheet depends on its text and its URL.
ContextualPath(e) == <<"sheet", e.body, e.url>>

\* One entry; a is what was assigned so far.
AssignOne(a, i) ==
    LET e == entries[i]
        first == {q \in Range(a.paths) : q[1] = "pic" /\ q[2] = e.body}
        path == IF e.kind = "css" THEN ContextualPath(e)
                ELSE IF first = {} THEN e.path ELSE CHOOSE q \in first : TRUE
        known == e.url \in DOMAIN a.urls
    IN  IF e.kind = "doc" THEN a
        ELSE [urls |-> IF known THEN a.urls ELSE (e.url :> path) @@ a.urls,
              paths |-> Append(a.paths, path),
              aliases |-> IF e.kind = "pic" /\ path # e.path THEN (e.path :> path) @@ a.aliases
                          ELSE a.aliases,
              pages |-> IF e.kind = "css"
                        THEN [a.pages EXCEPT ![e.page] = (e.path :> path) @@ @]
                        ELSE a.pages]

Indices == [i \in DOMAIN entries |-> i]

AssignPaths ==
    /\ phase = "paths" /\ phase' = "css"
    /\ LET a == FoldLeft(AssignOne, [urls |-> <<>>, paths |-> <<>>, aliases |-> <<>>,
                                     pages |-> pageAliases], Indices)
       IN  /\ sourceUrls' = a.urls /\ aliases' = a.aliases /\ pageAliases' = a.pages
           /\ entries' = [i \in DOMAIN entries |->
                             IF entries[i].kind = "css"
                             THEN [entries[i] EXCEPT !.path = ContextualPath(entries[i])]
                             ELSE entries[i]]
    /\ UNCHANGED <<inputs, loaded, inputBytes, next, written, parts, current, manifest>>

\* rewriteCssWithSourceUrls: what a page captured anywhere, or the URL itself.
Target(u) == IF u \in DOMAIN sourceUrls THEN sourceUrls[u] ELSE <<"web", u>>

RewriteCss ==
    /\ phase = "css" /\ phase' = "merge"
    /\ entries' = [i \in DOMAIN entries |->
                      IF entries[i].kind = "css"
                      THEN [entries[i] EXCEPT !.refs = [k \in DOMAIN Links[entries[i].body][entries[i].url] |->
                                Target(Links[entries[i].body][entries[i].url][k])]]
                      ELSE entries[i]]
    /\ UNCHANGED <<inputs, loaded, inputBytes, sourceUrls, aliases, pageAliases, next, written,
                   parts, current, manifest>>

\* resolveResourceAlias: to the end of the chain of aliases.
Resolve(path, a) ==
    FoldLeft(LAMBDA q, i : IF q \in DOMAIN a THEN a[q] ELSE q, path,
             [i \in 1 .. Cardinality(DOMAIN a) |-> i])

ResolveAll(refs, a) == [k \in DOMAIN refs |-> Resolve(refs[k], a)]

\* What the hash of a rewritten style sheet tells apart.
Merged(e, refs) == <<e.body, refs>>

\* One style sheet of a pass; s is the pass so far.
MergeOne(s, i) ==
    LET e == s.entries[i]
        refs == ResolveAll(e.refs, s.aliases)
        content == Merged(e, refs)
        rewritten == [s EXCEPT !.entries[i].refs = refs]
    IN  IF e.kind # "css" \/ e.path \in DOMAIN s.aliases THEN s
        ELSE IF content \in DOMAIN s.paths /\ s.paths[content] # e.path
        THEN [rewritten EXCEPT !.aliases = (e.path :> s.paths[content]) @@ @, !.changed = TRUE]
        ELSE [rewritten EXCEPT !.paths = (content :> e.path) @@ @]

\* One iteration of the loop that ends when a pass found nothing to merge.
MergePass ==
    /\ phase = "merge"
    /\ LET s == FoldLeft(MergeOne, [entries |-> entries, aliases |-> aliases,
                                    paths |-> <<>>, changed |-> FALSE], Indices)
       IN  /\ entries' = s.entries /\ aliases' = s.aliases
           /\ phase' = IF s.changed THEN "merge" ELSE "write"
    /\ UNCHANGED <<inputs, loaded, inputBytes, sourceUrls, pageAliases, next, written, parts,
                   current, manifest>>

-----------------------------------------------------------------------------
(* Writing                                                                  *)

\* rewriteDesignDocument: the page's own aliases, then everyone's. A path that
\* has no alias stays, whether or not the archive has a file for it.
DocumentRefs(e) ==
    [k \in DOMAIN e.refs |->
        LET own == pageAliases[e.page]
        IN  Resolve(IF e.refs[k] \in DOMAIN own THEN own[e.refs[k]] ELSE e.refs[k], aliases)]

\* routeMap: the routes to kept pages, then where kept pages ended.
Routes ==
    FoldLeft(LAMBDA m, p : (bundle[p].final :> PagePath(p)) @@ m,
             [p \in Selected |-> PagePath(p)], SetToSortSeq(Selected, <))

\* rewriteSiteNavigation: where a page's links to each page lead.
Navigation == [p \in Pages |-> IF p \in DOMAIN Routes THEN Routes[p] ELSE <<"web", p>>]

Content(e) ==
    [body |-> e.body,
     refs |-> IF e.kind = "doc" THEN DocumentRefs(e)
              ELSE IF e.kind = "css" THEN ResolveAll(e.refs, aliases) ELSE <<>>,
     nav |-> IF e.kind = "doc" THEN Navigation ELSE <<>>]

Size(e) == IF e.kind = "doc" THEN 1 ELSE SizeOf[e.body]

TotalBytes == current.bytes + FoldSeq(LAMBDA s, n : s.bytes + n, 0, parts)

\* ensureShard, and the file added to the shard.
AddToShard(path, size) ==
    IF current.bytes > 0 /\ current.bytes + size > MaxShardBytes
    THEN parts' = Append(parts, current) /\ current' = [files |-> {path}, bytes |-> size]
    ELSE parts' = parts /\ current' = [files |-> current.files \cup {path}, bytes |-> current.bytes + size]

Aliased(e) == e.kind # "doc" /\ e.path \in DOMAIN aliases

\* Already in the archive, or another file stands for it.
Omitted(e) == Aliased(e) \/ e.path \in DOMAIN written

\* The error that writing the entry meets, if any.
Problem(e) ==
    CASE Aliased(e) -> ""
      [] ~Aliased(e) /\ e.path \in DOMAIN written ->
             IF written[e.path] # Content(e) THEN "SITE_ARCHIVE_PATH_COLLISION" ELSE ""
      [] ~Omitted(e) ->
             IF TotalBytes + Size(e) > MaxArchiveBytes THEN "SITE_ARCHIVE_BUDGET_EXCEEDED"
             ELSE IF Size(e) > MaxShardBytes THEN "SITE_FILE_EXCEEDS_SHARD_BUDGET" ELSE ""

WriteFile ==
    /\ phase = "write" /\ next <= Len(entries)
    /\ LET e == entries[next]
       IN  \/ /\ Problem(e) # "" /\ Fail(Problem(e))
              /\ UNCHANGED <<written, parts, current>>
           \/ /\ Problem(e) = "" /\ Omitted(e)
              /\ UNCHANGED <<phase, written, parts, current, manifest>>
           \/ /\ Problem(e) = "" /\ ~Omitted(e)
              /\ written' = (e.path :> Content(e)) @@ written
              /\ AddToShard(e.path, Size(e))
              /\ UNCHANGED <<phase, manifest>>
    /\ next' = next + 1
    /\ UNCHANGED <<inputs, loaded, inputBytes, entries, sourceUrls, aliases, pageAliases>>

ManifestPage(p) ==
    LET duplicate == p \in Rendered \ Selected
    IN  [path |-> IF p \in Selected THEN PagePath(p) ELSE <<>>,
         status |-> IF duplicate THEN "REJECTED" ELSE outcome[p].status,
         reason |-> IF duplicate THEN "LAYOUT_DUPLICATE" ELSE outcome[p].code,
         gaps |-> p \in Selected /\ bundle[p].gaps]

CompletenessCode(pages) ==
    IF \E p \in Pages : pages[p].status = "FAILED" THEN "PARTIAL_RENDER_FAILURE"
    ELSE IF \E p \in Pages : pages[p].reason = "CANCELLED" THEN "PARTIAL_CANCELLED"
    ELSE IF \E p \in Selected : bundle[p].gaps THEN "PARTIAL_RESOURCE_GAPS"
    ELSE "REPRESENTATIVE_COMPLETE"

Finish ==
    /\ phase = "write" /\ next > Len(entries) /\ phase' = "done"
    /\ parts' = IF current = NoShard THEN parts ELSE Append(parts, current)
    /\ current' = NoShard
    /\ manifest' = LET pages == [p \in Pages |-> ManifestPage(p)]
                   IN  [pages |-> pages, code |-> CompletenessCode(pages)]
    /\ UNCHANGED <<inputs, loaded, inputBytes, entries, sourceUrls, aliases, pageAliases, next, written>>

Next == \/ LoadBundle \/ LoadFails \/ SelectRepresentatives \/ AssignPaths \/ RewriteCss
        \/ MergePass \/ WriteFile \/ Finish

Spec == Init /\ [][Next]_vars

-----------------------------------------------------------------------------

Done == phase = "done"
Local(path) == path[1] # "web"

\* Every local reference in the archive names a file of it, however many
\* duplicates were left out on the way, but for a document's reference to a
\* resource that the build of its bundle left out after the document had been
\* rewritten (static-clone.ts:128-146): such a reference stays, and then the
\* manifest lists the gaps of that page.
DanglingDeclared ==
    Done => \A path \in DOMAIN written :
        \A k \in DOMAIN written[path].refs :
            LET ref == written[path].refs[k]
            IN  Local(ref) /\ ref \notin DOMAIN written =>
                    \E p \in Selected : /\ path = PagePath(p) /\ k \in bundle[p].dropped
                                       /\ manifest.pages[p].gaps

\* Where a link to u leads in the end.
Leads(u) == Resolve(Target(u), aliases)

\* A style sheet that another one stands for has the same text and the same
\* links: those of the text at its own URL, not at the other's.
MergedSheetsAgree ==
    Done => \A i \in DOMAIN entries : LET e == entries[i] IN
        e.kind = "css" =>
            LET f == written[Resolve(e.path, aliases)]
                links == Links[e.body][e.url]
            IN  f.body = e.body /\ f.refs = [k \in DOMAIN links |-> Leads(links[k])]

\* A page's reference to a resource of its bundle leads to that resource's body,
\* also where the bundle has the resource under another URL. A reference to one
\* that was left out leads to the same body or nowhere.
PagesKeepTheirResources ==
    Done => \A p \in Selected : \A i \in DOMAIN bundle[p].resources :
        LET ref == written[PagePath(p)].refs[i]
        IN  /\ i \notin bundle[p].dropped => ref \in DOMAIN written
            /\ ref \in DOMAIN written => written[ref].body = bundle[p].resources[i].body

\* Nothing is in the archive twice: not a picture, nor a style sheet that
\* became equal to another only because what it imports was merged.
NothingTwice ==
    Done => \A p, q \in DOMAIN written :
        {p[1], q[1]} \cap {"page"} = {} /\ written[p] = written[q] => p = q

\* The assembly never fails on a collision or a cycle of aliases.
NoCollision == manifest.code # "SITE_ARCHIVE_PATH_COLLISION"

\* Every file is in one shard and no shard is empty or over its budget.
ShardsPartition ==
    /\ \A s \in Range(parts) : s.files # {} /\ s.bytes <= MaxShardBytes
    /\ current.bytes <= MaxShardBytes
    /\ Done => /\ UNION {s.files : s \in Range(parts)} = DOMAIN written
               /\ \A i, j \in DOMAIN parts : parts[i].files \cap parts[j].files # {} => i = j

\* A link to a page is local exactly if the archive has the page or one that
\* ended at its URL, and it leads to such a page.
NavigationStaysInside ==
    Done => \A p \in Selected : \A t \in Pages :
        LET to == written[PagePath(p)].nav[t]
            meant == {q \in Selected : q = t \/ bundle[q].final = t}
        IN  /\ Local(to) <=> meant # {}
            /\ Local(to) => to \in {PagePath(q) : q \in meant}

\* The manifest lists a page as packaged exactly if its document is in the
\* archive, gives a reason for every other, says that a layout is a duplicate
\* only when the archive has that layout, and claims to be complete only when
\* no page failed or was cancelled and no packaged page misses a resource.
ManifestAccurate ==
    Done =>
        /\ \A p \in Pages : LET m == manifest.pages[p] IN
              /\ m.path # <<>> <=> PagePath(p) \in DOMAIN written
              /\ m.path = <<>> <=> m.reason # ""
              /\ m.reason = "LAYOUT_DUPLICATE" =>
                    \E q \in Pages : manifest.pages[q].path # <<>>
                                     /\ bundle[q].layout = bundle[p].layout
        /\ manifest.code = "REPRESENTATIVE_COMPLETE" <=>
              /\ \A p \in Pages : outcome[p].code \notin {"CANCELLED", "CAPTURE_TIMEOUT"}
              /\ \A p \in Pages : manifest.pages[p].path # <<>> => ~bundle[p].gaps

\* The loop over the style sheets ends: a pass that calls for another one has
\* left one sheet less to look at.
MergingEnds ==
    [][phase = "merge" /\ phase' = "merge" =>
        {i \in DOMAIN entries : entries[i].kind = "css" /\ entries[i].path \notin DOMAIN aliases'}
        # {i \in DOMAIN entries : entries[i].kind = "css" /\ entries[i].path \notin DOMAIN aliases}]_vars
=============================================================================
