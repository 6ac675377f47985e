----------------------------- MODULE MCCrawler -----------------------------
(***************************************************************************)
(* Small instances of Crawler: sites of four pages, one more than a crawl  *)
(* may select.                                                             *)
(***************************************************************************)
EXTENDS Crawler, SequencesExt, TLC

FourPages == 0..3

(* The links of a page in document order.                                  *)
Ordered(S) == SetToSortSeq(S, <)

(* A page links to all pages or to the next one; it redirects to the root, *)
(* to the last page or to another origin; or it fails for good.            *)
ManySites ==
    {f \in [Pages -> {Page(Ordered(S), {"o"}) : S \in SUBSET Pages}
                       \cup {Redirect(0), Redirect(3), Away("x"),
                             Failure("terminal", FALSE)}] :
        \A p \in Pages : f[p].kind = "page" =>
            ToSet(f[p].to) \in {Pages, Pages \cap {p + 1}}}

=============================================================================
