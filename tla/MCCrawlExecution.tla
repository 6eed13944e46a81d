-------------------------- MODULE MCCrawlExecution --------------------------
(* Instances of CrawlExecution for TLC: which page belongs to which          *)
(* execution, and which host each execution crawls.                          *)
EXTENDS CrawlExecution, TLC

CONSTANTS e1, e2, p1, p2, p3, p4, h1

\* One scan of a four-page site. Apart from the seed p1 the pages are alike.
OneExecution == {e1}
FourPages == {p1, p2, p3, p4}
ThreePages == {p1, p2, p3}
Alike == Permutations({p2, p3, p4})
OneHost == {h1}
OneExecOf == [p \in Pages |-> e1]
OneSeedOf == [e \in Executions |-> p1]

\* Two scans of the same host: one of two pages, one of one page.
TwoExecutions == {e1, e2}
TwoExecOf == p1 :> e1 @@ p2 :> e1 @@ p3 :> e2
TwoSeedOf == e1 :> p1 @@ e2 :> p3
SameHost == [e \in Executions |-> h1]

=============================================================================
