----------------------------- MODULE MCCloning ------------------------------
(***************************************************************************)
(* What the capture worker does to clone pages, for TLC: the proxies its   *)
(* browsers go through, the browsers in which users sign in for it, what a *)
(* capture records of a page, the clone made of it, the choice of a site's *)
(* pages and the assembly of their bundles.  The models share no state, so *)
(* a behaviour is one of a single part.                                    *)
(***************************************************************************)
EXTENDS SafeProxy, BrowserSession, PageCapture, StaticClone, DesignSelection, TLC

CONSTANTS
  proxyP, proxyQ, plainP, tunnelP, tunnelP2, plainQ,           \* proxies and their requests
  r1, r2, r3,                                        \* requests of a page
  sheet, other, pic, twin, suffixed, away, b1, b2,   \* resources and bodies of a clone
  cssName, picture, aside,                              \* names in its paths
  c1, c2, o1, o2, w1, w2                             \* clones, their owners, page workers

VARIABLES
  part,    \* what this behaviour is of
  outcome, bundle, loaded, inputBytes, entries, sourceUrls, aliases, pageAliases, next,
  written, parts, current, manifest

theClone == <<addressed, captured, htmlSize, growth, plan, build>>  \* an archive has a phase too
archiveVars == <<outcome, bundle, loaded, inputBytes, entries, sourceUrls, aliases, pageAliases,
                 next, written, parts, current, manifest>>
all == <<part, phase, vars, browserVars, captureVars, theClone, archiveVars, selectionVars>>

-----------------------------------------------------------------------------
(* Proxies: two tunnels and a plain request of one, a plain request of another. *)

MCProxyOf == [r \in Requests |-> IF r = plainQ THEN proxyQ ELSE proxyP]
MCTunnels == {tunnelP, tunnelP2}

\* The login browsers of two clones of two owners.
MCOwnerOf == (c1 :> o1) @@ (c2 :> o2)

\* The page makes three requests, one of a type without a body and that one perhaps by
\* a redirect, and there is room for two: counts and bytes are at their limits with two.

\* Two style sheets that share a path, two pictures that do, a third whose path is
\* the suffixed one, and a resource of another origin. The page itself has the
\* path of the pictures.
MCPathOf == (sheet :> <<cssName>>) @@ (other :> <<cssName>>) @@ (pic :> <<picture>>)
            @@ (twin :> <<picture>>) @@ (suffixed :> <<picture, 1>>) @@ (away :> <<aside>>)
MCPathParts == {cssName, picture, aside, 1}
MCMainPath == <<picture>>
MCRefersTo == [u \in {sheet, other} |-> {pic, twin, away}]
MCBodySize == (b1 :> 1) @@ (b2 :> 2)

-----------------------------------------------------------------------------
(* Two directories with a parent sheet, the sheet it imports and a picture  *)
(* each. The texts are relative, so that equal texts link to their own      *)
(* directory's files; one text of the imported sheet imports its parent.    *)

Css(us, ts) == [kind : {"css"}, url : us, body : ts, copy : {0}]

MCResources ==
  Css({"ax", "bx"}, {"imports", "shows"}) \cup Css({"al", "bl"}, {"plain", "cycle"})
  \cup [kind : {"pic"}, url : {"ap"}, body : {"dot", "photo"}, copy : {0}]
  \cup [kind : {"pic"}, url : {"bp"}, body : {"dot"}, copy : {0, 1}]

MCLinks ==
  [imports |-> [ax |-> <<"al">>, bx |-> <<"bl">>],
   shows |-> [ax |-> <<"ap">>, bx |-> <<"bp">>],
   plain |-> [al |-> <<>>, bl |-> <<>>],
   cycle |-> [al |-> <<"ax">>, bl |-> <<"bx">>]]

MCSizeOf == [imports |-> 1, shows |-> 2, plain |-> 1, cycle |-> 1, dot |-> 1, photo |-> 4]

\* Two pages with resources that may be merged.
Archive == INSTANCE SiteArchive WITH
  Pages <- {1, 2}, Layouts <- {"home", "blog"}, Resources <- MCResources, Links <- MCLinks,
  SizeOf <- MCSizeOf, MaxResources <- 2, Redirects <- FALSE, Gaps <- {FALSE}, Drops <- FALSE,
  MaxInputBytes <- 9, MaxShardBytes <- 3, MaxArchiveBytes <- 7

\* Two pages of whose resources some no longer fitted when their bundles were built.
MCFewResources ==
  Css({"ax"}, {"shows"}) \cup Css({"al", "bl"}, {"plain"})
  \cup [kind : {"pic"}, url : {"ap", "bp"}, body : {"dot"}, copy : {0}]

Partial == INSTANCE SiteArchive WITH
  Pages <- {1, 2}, Layouts <- {"home", "blog"}, Resources <- MCFewResources, Links <- MCLinks,
  SizeOf <- MCSizeOf, MaxResources <- 2, Redirects <- FALSE, Gaps <- {TRUE}, Drops <- TRUE,
  MaxInputBytes <- 9, MaxShardBytes <- 3, MaxArchiveBytes <- 7

\* Three pages without resources, of which one may end at another's URL.
Manifest == INSTANCE SiteArchive WITH
  Pages <- {1, 2, 3}, Layouts <- {"home", "blog"}, Resources <- MCResources, Links <- MCLinks,
  SizeOf <- MCSizeOf, MaxResources <- 0, Redirects <- TRUE, Gaps <- {FALSE, TRUE}, Drops <- FALSE,
  MaxInputBytes <- 9, MaxShardBytes <- 2, MaxArchiveBytes <- 7

-----------------------------------------------------------------------------
(* URL 1 is the root, 2 the root with a tracking query, 3 the sign-in page, *)
(* 4 and 5 two posts of a blog, 6 a page under another language's prefix.   *)

PageOf(urls, forms, outcomes, statuses, canonicals, langs, hints) ==
  [url : urls, form : forms, outcome : outcomes, status : statuses, canonical : canonicals,
   lang : langs, hreflang : {"und"}, hint : hints]

\* Pages that can be cloned, with canonical URLs and layouts that vary.
Clonable == PageOf(1 .. 6, {"html"}, {"success"}, {200}, {0, 1, 4}, {"und"}, {1, 2})
            \cup PageOf({3, 4, 5}, {"html"}, {"failed"}, {404}, {0, 1}, {"und"}, {1})

\* One page for each other reason.
Rest == PageOf({1, 4}, {"html"}, {"failed"}, {0}, {0}, {"und"}, {1})
        \cup PageOf({5}, {"html"}, {"warning"}, {200}, {0}, {"und"}, {1})
        \cup PageOf({4}, {"invalid", "external", "file", "policy"}, {"success"}, {200}, {0}, {"und"}, {1})
        \cup [url : {1, 3}, form : {"html"}, outcome : {"success"}, status : {200},
              canonical : {0}, lang : {"und", "vi", "en"}, hreflang : {"und", "en"}, hint : {1}]
        \cup PageOf({1, 3}, {"html"}, {"success"}, {200}, {6}, {"und", "vi"}, {1})

MCInputs == Clonable \cup Rest
MCUrls == 1 .. 6
MCNormal == <<1, 1, 3, 4, 5, 6>>
MCPathLocale == <<Und, Und, Und, Und, Und, "en">>
MCRoleOf == <<"HOME", "HOME", "AUTH_LOGIN", "BLOG_DETAIL", "BLOG_DETAIL", "MARKETING_LANDING">>
MCLengthOf == <<1, 1, 2, 3, 3, 2>>

-----------------------------------------------------------------------------

\* The variables of a part that this behaviour is not of.
NoClone ==
  /\ addressed = FALSE /\ captured = <<>> /\ htmlSize = 0 /\ growth = 0
  /\ plan = Nothing /\ build = NotBuilt
NoArchive ==
  /\ outcome = 0 /\ bundle = 0 /\ loaded = 0 /\ inputBytes = 0 /\ entries = 0 /\ sourceUrls = 0
  /\ aliases = 0 /\ pageAliases = 0 /\ next = 0 /\ written = 0 /\ parts = 0 /\ current = 0
  /\ manifest = 0
NoSelection ==
  pages = <<>> /\ budget = FALSE /\ stage = "" /\ rejected = <<>> /\ winners = {} /\ targets = <<>>

AllInit ==
  /\ Init /\ BrowserInit /\ CaptureInit
  /\ \/ part \in {"proxy", "browser", "capture"} /\ phase = "" /\ NoClone /\ NoArchive /\ NoSelection
     \/ part = "clone" /\ CloneInit /\ NoArchive /\ NoSelection
     \/ part = "archive" /\ Archive!Init /\ NoClone /\ NoSelection
     \/ part = "partial" /\ Partial!Init /\ NoClone /\ NoSelection
     \/ part = "manifest" /\ Manifest!Init /\ NoClone /\ NoSelection
     \/ part = "design" /\ SelectionInit /\ phase = "" /\ NoClone /\ NoArchive

AllNext ==
  \/ /\ part = "proxy" /\ Next
     /\ UNCHANGED <<part, phase, browserVars, captureVars, theClone, archiveVars, selectionVars>>
  \/ /\ part = "browser" /\ BrowserNext
     /\ UNCHANGED <<part, phase, vars, captureVars, theClone, archiveVars, selectionVars>>
  \/ /\ part = "capture" /\ CaptureNext
     /\ UNCHANGED <<part, phase, vars, browserVars, theClone, archiveVars, selectionVars>>
  \/ /\ part = "clone" /\ CloneNext
     /\ UNCHANGED <<part, vars, browserVars, captureVars, archiveVars, selectionVars>>
  \/ /\ part = "archive" /\ Archive!Next
     /\ UNCHANGED <<part, vars, browserVars, captureVars, theClone, selectionVars>>
  \/ /\ part = "partial" /\ Partial!Next
     /\ UNCHANGED <<part, vars, browserVars, captureVars, theClone, selectionVars>>
  \/ /\ part = "manifest" /\ Manifest!Next
     /\ UNCHANGED <<part, vars, browserVars, captureVars, theClone, selectionVars>>
  \/ /\ part = "design" /\ SelectionNext
     /\ UNCHANGED <<part, phase, vars, browserVars, captureVars, theClone, archiveVars>>

AllSpec == AllInit /\ [][AllNext]_all

-----------------------------------------------------------------------------

\* An assembled archive is sound: a local reference names a file of it, or else a
\* resource its page's bundle was built without, which the manifest declares;
\* pages keep the resources they captured, merged style sheets agree in text and
\* links, nothing is in it twice, two files never collide, shards partition it;
\* links between pages lead inside exactly when they can, and the manifest claims
\* nothing the archive lacks. The loop that merges sheets ends (site-archive.ts).
ArchiveSound ==
  /\ [](part = "archive" =>
          /\ Archive!DanglingDeclared /\ Archive!MergedSheetsAgree
          /\ Archive!PagesKeepTheirResources /\ Archive!NothingTwice /\ Archive!NoCollision
          /\ Archive!ShardsPartition)
  /\ [](part = "partial" =>
          /\ Partial!DanglingDeclared /\ Partial!MergedSheetsAgree
          /\ Partial!PagesKeepTheirResources /\ Partial!NothingTwice /\ Partial!NoCollision
          /\ Partial!ManifestAccurate)
  /\ [](part = "manifest" => Manifest!NavigationStaysInside /\ Manifest!ManifestAccurate)
  /\ Archive!MergingEnds
=============================================================================
