------------------------------ MODULE Crawler ------------------------------
(***************************************************************************)
(* One bounded breadth-first crawl of a source                             *)
(* (internal/discovery/crawler.go).  The site is any assignment of replies *)
(* to pages; the network may fail any request besides.                     *)
(*                                                                         *)
(* Pages stand for canonical URLs, so that canonicalization is the         *)
(* identity here; the categories of internal/retry matter only as "none",  *)
(* "transient" and "terminal".                                             *)
(***************************************************************************)
EXTENDS Integers, Sequences, FiniteSets, Functions

CONSTANTS
    Pages,          \* canonical URLs of the source
    Root,           \* the URL of "/"
    Sites,          \* the replies that sites give: a set of functions
    MaxDepth,       \* CrawlConfig.MaxDepth
    MaxPages,       \* CrawlConfig.MaxPages
    RedirectLimit   \* CrawlConfig.RedirectLimit

MaxAttemptsPerCycle == 2

(* A reply: a page with its links in document order and the foreign        *)
(* origins it links to; a redirect; or a failure.                          *)
Page(links, origins) ==
    [kind |-> "page", to |-> links, origins |-> origins, after |-> FALSE]
Redirect(p) ==
    [kind |-> "redirect", to |-> <<p>>, origins |-> {}, after |-> FALSE]
Away(o) ==
    [kind |-> "away", to |-> <<>>, origins |-> {o}, after |-> FALSE]
Failure(category, after) ==
    [kind |-> category, to |-> <<>>, origins |-> {}, after |-> after]

Kinds == {"page", "redirect", "away", "transient", "terminal"}

(* ExtractPageLinks lists a page once; a redirect names one page.          *)
IsReply(r) ==
    /\ DOMAIN r = {"kind", "to", "origins", "after"}
    /\ r.kind \in Kinds
    /\ r.to \in Seq(Pages)
    /\ \A i, j \in DOMAIN r.to : r.to[i] = r.to[j] => i = j
    /\ r.kind = "redirect" => Len(r.to) = 1
    /\ IsFiniteSet(r.origins)
    /\ r.after \in BOOLEAN

ASSUME CrawlConfigAssumption ==
    /\ Root \in Pages
    /\ MaxDepth \in Nat /\ MaxPages \in Nat \ {0} /\ RedirectLimit \in Nat \ {0}
    /\ \A replies \in Sites :
        DOMAIN replies = Pages /\ \A p \in Pages : IsReply(replies[p])

VARIABLES
    site,       \* what the site replies, for every page
    frontier,   \* entries to fetch, in order
    queued,     \* URLs that have been in the frontier
    visited,    \* URLs that a successful fetch went through
    seen,       \* candidateSeen: origins recorded in this crawl
    result,     \* CrawlResult
    entry,      \* the frontier entry that is being fetched
    fetch,      \* the state of fetchPage
    page,       \* the crawledPage that the last attempt returned
    pc,
    stopped,    \* why Crawl returned an error: "no", "error" or "canceled"
    attempts,   \* crawl_page_attempts: [url, outcome] in order
    parsedAt    \* for every page that was parsed, the depth of its entry

vars == <<site, frontier, queued, visited, seen, result, entry, fetch, page,
          pc, stopped, attempts, parsedAt>>

NoPage == [parsed |-> FALSE, url |-> Root, links |-> <<>>, origins |-> {},
           category |-> "none", after |-> FALSE, late |-> FALSE]

Init ==
    /\ site \in Sites
    /\ frontier = <<[url |-> Root, depth |-> 0]>>
    /\ queued = {Root}
    /\ visited = {}
    /\ seen = {}
    /\ result = [attempted |-> 0, parsed |-> 0, candidates |-> 0,
                 budget |-> FALSE, category |-> "none", after |-> FALSE,
                 remaining |-> 0]
    /\ entry = [url |-> Root, depth |-> 0]
    /\ fetch = [url |-> Root, hops |-> {Root}, redirects |-> 0, attempt |-> 1]
    /\ page = NoPage
    /\ pc = "select"
    /\ stopped = "no"
    /\ attempts = <<>>
    /\ parsedAt = <<>>

-----------------------------------------------------------------------------
(* The frontier                                                            *)

(* Mutant: a retry starts over with all of its attempts.                   *)
StartAfresh(url, attempt) ==
    [url |-> url, hops |-> {url}, redirects |-> 0, attempt |-> 1]

StartFetch(url, attempt) ==
    [url |-> url, hops |-> {url}, redirects |-> 0, attempt |-> attempt]

BudgetLeft == result.attempted < MaxPages

(* An entry that a redirect has already led to is dropped.                 *)
SkipEntry ==
    /\ pc = "select" /\ frontier # <<>>
    /\ Head(frontier).url \in visited
    /\ frontier' = Tail(frontier)
    /\ result' = [result EXCEPT !.remaining = Len(frontier) - 1]
    /\ UNCHANGED <<site, queued, visited, seen, entry, fetch, page, pc,
                   stopped, attempts, parsedAt>>

PageBudgetSpent ==
    /\ pc = "select" /\ frontier # <<>>
    /\ Head(frontier).url \notin visited
    /\ ~BudgetLeft
    /\ frontier' = Tail(frontier)
    /\ result' = [result EXCEPT !.budget = TRUE, !.remaining = Len(frontier)]
    /\ pc' = "finalize"
    /\ UNCHANGED <<site, queued, visited, seen, entry, fetch, page, stopped,
                   attempts, parsedAt>>

SelectEntry ==
    /\ pc = "select" /\ frontier # <<>>
    /\ Head(frontier).url \notin visited
    /\ BudgetLeft
    /\ entry' = Head(frontier)
    /\ frontier' = Tail(frontier)
    /\ result' = [result EXCEPT !.attempted = @ + 1,
                                !.remaining = Len(frontier) - 1]
    /\ fetch' = StartFetch(Head(frontier).url, 1)
    /\ pc' = "fetch"
    /\ UNCHANGED <<site, queued, visited, seen, page, stopped, attempts,
                   parsedAt>>

FrontierExhausted ==
    /\ pc = "select" /\ frontier = <<>>
    /\ pc' = "finalize"
    /\ UNCHANGED <<site, frontier, queued, visited, seen, result, entry,
                   fetch, page, stopped, attempts, parsedAt>>

-----------------------------------------------------------------------------
(* Fetching one page                                                       *)

(* Mutant: the hops of a failed fetch count as visited.                    *)
VisitsAlways(reply) == TRUE

(* Only a fetch that ends at a page or at another origin commits its hops. *)
Visits(reply) == reply.kind \in {"page", "away"}

(* A redirect within the source is followed unless it closes a loop, leads *)
(* to a page of this crawl, or exceeds the limit.                          *)
Follows(reply) ==
    /\ reply.kind = "redirect"
    /\ fetch.redirects < RedirectLimit
    /\ reply.to[1] \notin fetch.hops
    /\ reply.to[1] \notin visited

Category(reply) ==
    CASE reply.kind \in {"page", "away"} -> "none"
      [] reply.kind = "redirect" -> "terminal"
      [] OTHER -> reply.kind

(* One immediate retry of a transient failure that names no delay.         *)
Retries(reply) ==
    /\ Category(reply) = "transient"
    /\ fetch.attempt < MaxAttemptsPerCycle
    /\ ~reply.after

(* One request of fetchPage and what the reply leads to.  late: the page   *)
(* timeout passes after the reply was read and before it is looked at.     *)
Get(reply, late) ==
    /\ pc = "fetch"
    /\ late => Visits(reply)
    /\ IF Follows(reply)
       THEN /\ fetch' = [fetch EXCEPT !.url = reply.to[1],
                                      !.hops = @ \cup {reply.to[1]},
                                      !.redirects = @ + 1]
            /\ UNCHANGED <<visited, page, pc>>
       ELSE /\ visited' = IF Visits(reply) THEN visited \cup fetch.hops
                          ELSE visited
            /\ IF Retries(reply)
               THEN /\ fetch' = StartFetch(entry.url, fetch.attempt + 1)
                    /\ UNCHANGED <<page, pc>>
               ELSE /\ page' = [parsed |-> reply.kind = "page",
                                url |-> fetch.url,
                                links |-> IF reply.kind = "page"
                                          THEN reply.to ELSE <<>>,
                                origins |-> reply.origins,
                                category |-> Category(reply),
                                after |-> reply.after,
                                late |-> late]
                    /\ pc' = "page"
                    /\ UNCHANGED fetch
    /\ UNCHANGED <<site, frontier, queued, seen, result, entry, stopped,
                   attempts, parsedAt>>

GetReply ==
    \E late \in BOOLEAN : Get(site[fetch.url], late)

(* The network fails the request; the site may ask for a delay.            *)
GetFails ==
    \E after \in BOOLEAN : Get(Failure("transient", after), FALSE)

-----------------------------------------------------------------------------
(* Recording one page                                                      *)

(* Mutant: the last failure decides.                                       *)
WorstLast(old, new) == IF new = "none" THEN old ELSE new

(* A transient failure is kept over a terminal one.                        *)
Worst(old, new) ==
    IF new = "transient" \/ (old = "none" /\ new # "none") THEN new ELSE old

Failed(r) ==
    [r EXCEPT !.category = Worst(@, page.category),
              !.after = @ \/ (page.category # "none" /\ page.after)]

Attempted ==
    attempts' = Append(attempts,
        [url |-> entry.url, last |-> page.url, category |-> page.category,
         outcome |-> IF page.category # "none" THEN "failed"
                     ELSE IF page.parsed THEN "complete" ELSE "redirected"])

(* Places on the page of the links neither visited nor in the frontier.    *)
NewPlaces == {i \in DOMAIN page.links : page.links[i] \notin visited \cup queued}

(* The numbers of S in increasing order.                                   *)
InOrder(S) ==
    CHOOSE f \in [1..Cardinality(S) -> S] :
        \A i, j \in 1..Cardinality(S) : i < j => f[i] < f[j]

(* The new links in document order.                                        *)
NewLinks == [i \in 1..Cardinality(NewPlaces) |->
                page.links[InOrder(NewPlaces)[i]]]

TooDeep == entry.depth + 1 > MaxDepth

(* Mutant: links beyond the deepest level are dropped silently.            *)
CutSilently == FALSE

(* A link is left out because it lies too deep.                            *)
Cut == TooDeep /\ NewLinks # <<>>

Fresh == page.origins \ seen

(* The attempt is recorded; the crawl stops at a delay that the site asks  *)
(* for, and goes on to the next entry when the page timeout has passed.    *)
RecordOnly ==
    /\ pc = "page"
    /\ page.late \/ (page.category = "transient" /\ page.after)
    /\ Attempted
    /\ result' = Failed(result)
    /\ pc' = IF page.category = "transient" /\ page.after THEN "finalize"
             ELSE "select"
    /\ UNCHANGED <<site, frontier, queued, visited, seen, entry, fetch, page,
                   stopped, parsedAt>>

(* The attempt and the fresh candidates are recorded, and the new links    *)
(* join the frontier one level deeper.                                     *)
RecordPage ==
    /\ pc = "page"
    /\ ~page.late
    /\ ~(page.category = "transient" /\ page.after)
    /\ Attempted
    /\ seen' = seen \cup Fresh
    /\ parsedAt' = IF page.parsed
                   THEN [p \in DOMAIN parsedAt \cup {page.url} |->
                            IF p = page.url THEN entry.depth ELSE parsedAt[p]]
                   ELSE parsedAt
    /\ queued' = IF TooDeep THEN queued ELSE queued \cup Range(NewLinks)
    /\ frontier' = frontier \o
         (IF TooDeep THEN <<>>
          ELSE [i \in DOMAIN NewLinks |->
                  [url |-> NewLinks[i], depth |-> entry.depth + 1]])
    /\ result' = [Failed(result) EXCEPT
                    !.parsed = IF page.parsed THEN @ + 1 ELSE @,
                    !.candidates = @ + Cardinality(Fresh),
                    !.budget = @ \/ Cut,
                    !.remaining = IF page.parsed THEN Len(frontier') ELSE @]
    /\ pc' = "select"
    /\ UNCHANGED <<site, visited, entry, fetch, page, stopped>>

(* Crawl returns why; a write also fails when the crawl is canceled.        *)
Return(why) ==
    /\ pc' = "done"
    /\ stopped' = why
    /\ UNCHANGED <<site, frontier, queued, visited, seen, entry, fetch, page,
                   parsedAt>>

(* RecordPageAttempt fails.                                                *)
TelemetryFails ==
    /\ pc = "page"
    /\ result' = Failed(result)
    /\ UNCHANGED attempts
    /\ \E why \in {"error", "canceled"} : Return(why)

(* RecordCandidatesForRun fails: the page still counts as parsed.          *)
CandidatesFail ==
    /\ pc = "page"
    /\ ~page.late /\ Fresh # {}
    /\ Attempted
    /\ result' = [Failed(result) EXCEPT
                    !.parsed = IF page.parsed THEN @ + 1 ELSE @]
    /\ \E why \in {"error", "canceled"} : Return(why)

FinalizeCandidates ==
    /\ pc = "finalize"
    /\ Return("no")
    /\ UNCHANGED <<result, attempts>>

FinalizeFails ==
    /\ pc = "finalize"
    /\ \E why \in {"error", "canceled"} : Return(why)
    /\ UNCHANGED <<result, attempts>>

(* The crawl context is canceled: the lease is lost, or the process stops. *)
Cancel ==
    /\ pc # "done"
    /\ Return("canceled")
    /\ UNCHANGED <<result, attempts>>

Next ==
    \/ SkipEntry \/ PageBudgetSpent \/ SelectEntry \/ FrontierExhausted
    \/ GetReply \/ GetFails
    \/ RecordOnly \/ RecordPage \/ TelemetryFails \/ CandidatesFail
    \/ FinalizeCandidates \/ FinalizeFails \/ Cancel

Spec == Init /\ [][Next]_vars

(* The crawl is a sequential loop whose requests have a timeout.           *)
FairSpec == Spec /\ WF_vars(Next)

(* The outcome and the stop reason that FinishCrawlSummary is given.       *)
Outcome ==
    CASE stopped = "canceled" -> <<"canceled", "context_canceled">>
      [] stopped = "error" -> <<"failed", "crawler_error">>
      [] result.budget -> <<"budget_exhausted", "crawl_budget">>
      [] result.category # "none" /\ result.parsed > 0 ->
            <<"failed", "partial_failure">>
      [] result.category # "none" -> <<"failed", "root_failure">>
      [] OTHER -> <<"complete", "frontier_exhausted">>

-----------------------------------------------------------------------------
(* Properties                                                              *)

Entry == [url : Pages, depth : Nat]
Categories == {"none", "transient", "terminal"}

CrawlResult ==
    [attempted : 0..MaxPages, parsed : Nat, candidates : Nat,
     budget : BOOLEAN, category : Categories, after : BOOLEAN,
     remaining : Nat]
PageFetch ==
    [url : Pages, hops : SUBSET Pages, redirects : 0..RedirectLimit,
     attempt : 1..MaxAttemptsPerCycle]
PageAttempt ==
    [url : Pages, last : Pages, category : Categories,
     outcome : {"failed", "complete", "redirected"}]

TypeOK ==
    /\ site \in Sites
    /\ frontier \in Seq(Entry) /\ entry \in Entry
    /\ queued \subseteq Pages /\ visited \subseteq Pages
    /\ IsFiniteSet(seen)
    /\ result \in CrawlResult
    /\ fetch \in PageFetch
    /\ DOMAIN page = DOMAIN NoPage
    /\ page.parsed \in BOOLEAN /\ page.url \in Pages
    /\ page.links \in Seq(Pages) /\ IsFiniteSet(page.origins)
    /\ page.category \in Categories
    /\ page.after \in BOOLEAN /\ page.late \in BOOLEAN
    /\ pc \in {"select", "fetch", "page", "finalize", "done"}
    /\ stopped \in {"no", "error", "canceled"}
    /\ attempts \in Seq(PageAttempt)
    /\ parsedAt \in [DOMAIN parsedAt -> Nat] /\ DOMAIN parsedAt \subseteq Pages

(* "Same-origin pages use a deterministic breadth-first frontier": entries *)
(* are selected by increasing depth, redirects and retries notwithstanding,*)
(* and none lies deeper than the configured depth.                         *)
BreadthFirst ==
    /\ \A i, j \in DOMAIN frontier :
        i < j => frontier[i].depth <= frontier[j].depth
    /\ \A i \in DOMAIN frontier :
        frontier[i].depth \in entry.depth..(entry.depth + 1)
            /\ frontier[i].depth <= MaxDepth

(* "A page is selected at most once during a crawl", and no page is parsed *)
(* twice, be it reached by a link, by a redirect, or by both; a foreign    *)
(* origin is counted once, however many pages link to it.                  *)
EachPageOnce ==
    /\ \A i, j \in DOMAIN attempts :
        i # j => attempts[i].url # attempts[j].url
    /\ \A i, j \in DOMAIN attempts :
        i # j /\ attempts[i].outcome = "complete"
              /\ attempts[j].outcome = "complete"
        => attempts[i].last # attempts[j].last
    /\ Cardinality(DOMAIN parsedAt) = result.parsed
        \/ stopped # "no"
    /\ Cardinality(seen) = result.candidates

(* The links of all parsed pages lead to S.                                *)
Closed(S) == \A p \in DOMAIN parsedAt : \A i \in DOMAIN site[p].to :
                site[p].to[i] \in S

(* A crawl reported as complete has nothing left: every link of every page *)
(* was fetched, however it was reached, and every foreign origin on those  *)
(* pages has been recorded.                                                *)
CompleteMeansAll ==
    pc = "done" /\ Outcome[1] = "complete" =>
        /\ Closed(visited)
        /\ \A p \in DOMAIN parsedAt : site[p].origins \subseteq seen

(* A URL that the crawl will not fetch again has had its content seen: it  *)
(* was reported as complete, or its redirects lead to a page that was, or  *)
(* to another origin.  A failed attempt, redirected or not, takes no page  *)
(* away from a later retry or a later entry.                               *)
VisitedMeansSeen ==
    pc \in {"select", "finalize"} =>
        \A p \in visited :
            \/ \E i \in DOMAIN attempts :
                attempts[i].last = p /\ attempts[i].outcome = "complete"
            \/ site[p].kind = "away"
            \/ site[p].kind = "redirect" /\ site[p].to[1] \in visited

(* The frontier keeps its order, no page is taken twice, and none is       *)
(* counted as visited that was not seen: links, redirects, failures and    *)
(* retries together.                                                       *)
PagesAccounted == TypeOK /\ BreadthFirst /\ EachPageOnce /\ VisitedMeansSeen

(* A page that failed transiently on its last attempt makes the crawl      *)
(* transient, so that its source is retried soon, whatever the pages after *)
(* it gave.                                                                *)
TransientKept ==
    pc \in {"select", "finalize"} =>
        /\ result.category = "transient" <=>
            \E i \in DOMAIN attempts : attempts[i].category = "transient"
        /\ result.category = "none" <=>
            \A i \in DOMAIN attempts : attempts[i].outcome # "failed"

(* The crawl ends, whatever the site replies.                              *)
Terminates == <>(pc = "done")

=============================================================================
