--------------------------- MODULE CrawlerProofs ---------------------------
(***************************************************************************)
(* Proofs about Crawler for every site, every depth and page limit, and    *)
(* every order in which requests and writes fail.                          *)
(***************************************************************************)
EXTENDS Crawler, FiniteSetTheorems, SequenceTheorems, TLAPS

(* The time each prover may take for a leaf that names none, in seconds.   *)
USE SMTT(30), ZenonT(30)

-----------------------------------------------------------------------------
(* The inductive invariant                                                 *)

Fetching == pc \in {"fetch", "page"}

(* No URL is in the frontier twice, nor one that is or has been fetched.   *)
FrontierOK ==
    /\ entry.depth <= MaxDepth
    /\ entry.url \in queued
    /\ \A i \in DOMAIN frontier : frontier[i].url \in queued
    /\ \A i, j \in DOMAIN frontier :
        frontier[i].url = frontier[j].url => i = j
    /\ \A k \in DOMAIN attempts :
        /\ attempts[k].url \in queued
        /\ \A i \in DOMAIN frontier : frontier[i].url # attempts[k].url
    /\ Fetching =>
        /\ \A i \in DOMAIN frontier : frontier[i].url # entry.url
        /\ \A k \in DOMAIN attempts : attempts[k].url # entry.url

(* A fetch is on its way from the entry along redirects of the site, and   *)
(* stays clear of what was visited.                                        *)
FetchOK ==
    pc = "fetch" =>
        /\ entry.url \in fetch.hops /\ entry.url \notin visited
        /\ fetch.url \in fetch.hops /\ fetch.url \notin visited
        /\ \A h \in fetch.hops :
            h = fetch.url \/ (site[h].kind = "redirect"
                              /\ site[h].to[1] \in fetch.hops)

(* What fetchPage returned is what the site has at the page's URL, and     *)
(* that page is new to the crawl.                                          *)
PageOK ==
    pc = "page" =>
        /\ page.category = "none" => entry.url \in visited
        /\ page.late => page.category = "none"
        /\ ~page.parsed => page.links = <<>>
        /\ page.parsed =>
            /\ page.category = "none"
            /\ page.url \in visited /\ page.url \notin DOMAIN parsedAt
            /\ page.links = site[page.url].to
            /\ page.origins = site[page.url].origins
            /\ \A k \in DOMAIN attempts :
                attempts[k].outcome = "complete" =>
                    attempts[k].last # page.url

SeenAt(p) ==
    \/ \E k \in DOMAIN attempts :
        attempts[k].last = p /\ attempts[k].outcome = "complete"
    \/ site[p].kind = "away"
    \/ site[p].kind = "redirect" /\ site[p].to[1] \in visited

VisitedOK ==
    /\ DOMAIN parsedAt \subseteq visited /\ IsFiniteSet(DOMAIN parsedAt)
    /\ \A k \in DOMAIN attempts :
        attempts[k].outcome = "complete" => attempts[k].last \in visited
    /\ pc # "done" =>
        \A p \in visited :
            SeenAt(p) \/ (pc = "page" /\ page.parsed /\ p = page.url)

InFrontier(p) == \E i \in DOMAIN frontier : frontier[i].url = p

(* No link gets lost: unless the crawl reports a failure or a spent        *)
(* budget, what was queued is visited, waiting, or being fetched.          *)
NothingLost ==
    /\ pc # "done" => stopped = "no"
    /\ \A p \in DOMAIN parsedAt : site[p].origins \subseteq seen
    /\ ~result.budget => Closed(visited \cup queued)
    /\ stopped = "no" /\ ~result.budget /\ result.category = "none" =>
        /\ \A p \in queued :
            p \in visited \/ InFrontier(p) \/ (Fetching /\ p = entry.url)
        /\ pc \in {"finalize", "done"} => frontier = <<>>

(* The category of the result is the worst one of the attempts.            *)
CategoryOK ==
    /\ \A k \in DOMAIN attempts :
        attempts[k].outcome = "failed" <=> attempts[k].category # "none"
    /\ pc # "done" =>
        /\ result.category = "transient" <=>
            \E k \in DOMAIN attempts : attempts[k].category = "transient"
        /\ result.category = "none" <=>
            \A k \in DOMAIN attempts : attempts[k].category = "none"

CrawlInv ==
    /\ TypeOK /\ BreadthFirst /\ EachPageOnce
    /\ FrontierOK /\ FetchOK /\ PageOK
    /\ VisitedOK /\ NothingLost /\ CategoryOK

-----------------------------------------------------------------------------
(* The new links of a page                                                 *)

(* A finite set of numbers has an increasing enumeration, and InOrder is   *)
(* one.  The rank of a number is how many of the set are not above it; it  *)
(* maps the set one to one onto the positions.                             *)
LEMMA InOrderEnumerates ==
    ASSUME NEW S \in SUBSET Nat, IsFiniteSet(S)
    PROVE  /\ Cardinality(S) \in Nat
           /\ InOrder(S) \in [1..Cardinality(S) -> S]
           /\ \A i, j \in 1..Cardinality(S) :
                i < j => InOrder(S)[i] < InOrder(S)[j]
           /\ \A x \in S : \E i \in 1..Cardinality(S) : InOrder(S)[i] = x
<1> DEFINE UpTo(x) == {y \in S : y <= x}
<1>1. PICK n \in Nat : n = Cardinality(S)
  BY FS_CardinalityType
<1>2. IsFiniteSet(1..n) /\ Cardinality(1..n) = n
  <2>1. 1 \in Int /\ n \in Int
    OBVIOUS
  <2>2. /\ IsFiniteSet(1..n)
        /\ Cardinality(1..n) = IF 1 > n THEN 0 ELSE n - 1 + 1
    BY ONLY <2>1, FS_Interval
  <2> QED
    BY <2>2
<1>3. ASSUME NEW x \in S
      PROVE  /\ IsFiniteSet(UpTo(x)) /\ Cardinality(UpTo(x)) \in 1..n
  <2>1. UpTo(x) \in SUBSET S /\ x \in UpTo(x)
    BY x \in Nat
  <2> HIDE DEF UpTo
  <2>2. IsFiniteSet(UpTo(x)) /\ Cardinality(UpTo(x)) <= n
    BY <1>1, <2>1, FS_Subset
  <2>3. Cardinality(UpTo(x)) \in Nat /\ Cardinality(UpTo(x)) # 0
    BY <2>1, <2>2, FS_CardinalityType, FS_EmptySet
  <2> QED
    BY <2>2, <2>3
<1>4. ASSUME NEW x \in S, NEW y \in S, x <= y
      PROVE  Cardinality(UpTo(x)) <= Cardinality(UpTo(y))
  <2>1. x \in Nat /\ y \in Nat
    OBVIOUS
  <2>2. UpTo(x) \in SUBSET UpTo(y)
    <3>1. ASSUME NEW z \in S, z <= x
          PROVE  z <= y
      <4>1. z \in Nat
        OBVIOUS
      <4> QED
        BY <1>4, <2>1, <3>1, <4>1
    <3> QED
      BY <3>1, Zenon
  <2> HIDE DEF UpTo
  <2> QED
    BY <1>3, <2>2, FS_Subset
<1>5. ASSUME NEW x \in S, NEW y \in S,
             Cardinality(UpTo(x)) = Cardinality(UpTo(y))
      PROVE  x = y
  <2>1. ASSUME NEW a \in S, NEW b \in S, a < b
        PROVE  Cardinality(UpTo(a)) # Cardinality(UpTo(b))
    <3>1. a \in Nat /\ b \in Nat /\ a <= b /\ ~(b <= a) /\ b <= b
      BY <2>1
    <3>2. UpTo(a) \in SUBSET UpTo(b)
      <4>1. ASSUME NEW z \in S, z <= a
            PROVE  z <= b
        <5>1. z \in Nat
          OBVIOUS
        <5> QED
          BY <3>1, <4>1, <5>1
      <4> QED
        BY <4>1, Zenon
    <3>3. UpTo(a) # UpTo(b)
      <4>1. b \in UpTo(b) /\ b \notin UpTo(a)
        BY <3>1
      <4> QED
        BY <4>1, Zenon
    <3> HIDE DEF UpTo
    <3> QED
      BY <1>3, <3>2, <3>3, FS_Subset
  <2>2. x \in Nat /\ y \in Nat
    OBVIOUS
  <2> HIDE DEF UpTo
  <2>3. x < y \/ y < x \/ x = y
    BY <2>2
  <2> QED
    BY <1>5, <2>1, <2>3
<1>6. ASSUME NEW k \in 1..n
      PROVE  \E x \in S : Cardinality(UpTo(x)) = k
  <2> SUFFICES ASSUME \A x \in S : Cardinality(UpTo(x)) # k
               PROVE  FALSE
    OBVIOUS
  <2> DEFINE rank == [x \in S |-> Cardinality(UpTo(x))]
  <2>1. PICK T : T = (1..n) \ {k}
    BY ZenonT(30)
  <2> HIDE DEF UpTo
  <2>2. IsFiniteSet(T) /\ Cardinality(T) = n - 1
    BY <1>2, <2>1, FS_RemoveElement, ZenonT(30)
  <2>3. rank \in [S -> T]
    BY <1>3, <2>1
  <2>4. \A x, y \in S : x # y => rank[x] # rank[y]
    BY <1>5
  <2>5. Cardinality(T) < Cardinality(S)
    BY <1>1, <2>2
  <2> HIDE DEF rank
  <2> QED
    BY ONLY <2>2, <2>3, <2>4, <2>5, IsFiniteSet(S), FS_PigeonHole, ZenonT(30)
<1> DEFINE order == [i \in 1..n |-> CHOOSE x \in S : Cardinality(UpTo(x)) = i]
<1>7. \A i \in 1..n : order[i] \in S /\ Cardinality(UpTo(order[i])) = i
  BY <1>6, Zenon
<1>8. ASSUME NEW i \in 1..n, NEW j \in 1..n, i < j
      PROVE  order[i] < order[j]
  <2>1. PICK x \in S, y \in S : x = order[i] /\ y = order[j]
    BY <1>7, ZenonT(30)
  <2>2. Cardinality(UpTo(x)) = i /\ Cardinality(UpTo(y)) = j
    BY <1>7, <2>1, ZenonT(30)
  <2>3. x \in Nat /\ y \in Nat
    OBVIOUS
  <2> HIDE DEF order, UpTo
  <2>4. ~(y <= x)
    BY <1>4, <1>8, <2>2
  <2> QED
    BY <2>1, <2>3, <2>4
<1>9. order \in [1..n -> S]
  BY <1>7, ZenonT(30)
<1>10. PICK f : f = InOrder(S)
  OBVIOUS
<1>11. /\ f \in [1..n -> S]
       /\ \A i, j \in 1..n : i < j => f[i] < f[j]
  <2> HIDE DEF order
  <2>1. \E g \in [1..n -> S] : \A i, j \in 1..n : i < j => g[i] < g[j]
    BY <1>8, <1>9, Zenon
  <2>2. f = CHOOSE g \in [1..n -> S] :
                \A i, j \in 1..n : i < j => g[i] < g[j]
    BY <1>1, <1>10, Zenon DEF InOrder
  <2> QED
    BY <2>1, <2>2, Zenon
<1>12. ASSUME NEW x \in S
       PROVE  \E i \in 1..n : f[i] = x
  <2> SUFFICES ASSUME \A i \in 1..n : f[i] # x
               PROVE  FALSE
    OBVIOUS
  <2>1. PICK T : T = S \ {x}
    BY ZenonT(30)
  <2>2. IsFiniteSet(T) /\ Cardinality(T) = n - 1
    BY <1>1, <2>1, FS_RemoveElement
  <2>3. f \in [1..n -> T]
    BY <1>11, <2>1
  <2>4. ASSUME NEW i \in 1..n, NEW j \in 1..n, i # j
        PROVE  f[i] # f[j]
    <3>1. f[i] \in Nat /\ f[j] \in Nat
      BY <1>11, ZenonT(30)
    <3>2. i < j \/ j < i
      BY <2>4
    <3> QED
      BY <1>11, <3>1, <3>2
  <2>5. Cardinality(T) < Cardinality(1..n)
    BY <1>2, <2>2
  <2> QED
    BY ONLY <1>2, <2>2, <2>3, <2>4, <2>5, FS_PigeonHole
<1> QED
  BY <1>1, <1>10, <1>11, <1>12, Zenon

(* The new links are the links not known so far, each of them once.        *)
LEMMA NewLinksAre ==
    ASSUME page.links \in Seq(Pages),
           \A i, j \in DOMAIN page.links :
               page.links[i] = page.links[j] => i = j
    PROVE  /\ NewLinks \in Seq(Pages)
           /\ \A i \in DOMAIN NewLinks : NewLinks[i] \notin visited \cup queued
           /\ \A i, j \in DOMAIN NewLinks : NewLinks[i] = NewLinks[j] => i = j
           /\ \A i \in DOMAIN page.links :
                page.links[i] \in visited \cup queued \cup Range(NewLinks)
<1>1. NewPlaces \in SUBSET Nat /\ IsFiniteSet(NewPlaces)
  <2>1. Len(page.links) \in Nat /\ DOMAIN page.links = 1..Len(page.links)
    OBVIOUS
  <2>2. NewPlaces \in SUBSET (1..Len(page.links))
    BY <2>1 DEF NewPlaces
  <2>3. IsFiniteSet(1..Len(page.links))
    <3>1. 1 \in Int /\ Len(page.links) \in Int
      BY <2>1
    <3> QED
      BY ONLY <3>1, FS_Interval
  <2>4. IsFiniteSet(NewPlaces)
    BY ONLY <2>2, <2>3, FS_Subset, ZenonT(30)
  <2> QED
    BY <2>1, <2>2, <2>4
<1>2. PICK n, f : n = Cardinality(NewPlaces) /\ f = InOrder(NewPlaces)
  OBVIOUS
<1>3. /\ n \in Nat /\ f \in [1..n -> NewPlaces]
      /\ \A i, j \in 1..n : i < j => f[i] < f[j]
      /\ \A x \in NewPlaces : \E i \in 1..n : f[i] = x
  BY ONLY <1>1, <1>2, InOrderEnumerates
<1>4. NewLinks = [i \in 1..n |-> page.links[f[i]]]
  BY <1>2 DEF NewLinks
<1>5. \A x \in NewPlaces : /\ x \in DOMAIN page.links
                           /\ page.links[x] \in Pages
                           /\ page.links[x] \notin visited \cup queued
  BY DEF NewPlaces
<1>6. NewLinks \in Seq(Pages) /\ DOMAIN NewLinks = 1..n
  BY <1>3, <1>4, <1>5
<1>7. ASSUME NEW i \in 1..n, NEW j \in 1..n, NewLinks[i] = NewLinks[j]
      PROVE  i = j
  <2>1. f[i] = f[j]
    BY <1>3, <1>4, <1>5, <1>7
  <2>2. f[i] \in Nat /\ f[j] \in Nat
    BY <1>1, <1>3, ZenonT(30)
  <2>3. i < j \/ j < i \/ i = j
    BY <1>3
  <2> QED
    BY <1>3, <2>1, <2>2, <2>3
<1>8. ASSUME NEW i \in DOMAIN page.links, page.links[i] \notin visited \cup queued
      PROVE  page.links[i] \in Range(NewLinks)
  <2>1. i \in NewPlaces
    BY <1>8 DEF NewPlaces
  <2>2. PICK k \in 1..n : f[k] = i
    BY <1>3, <2>1
  <2>3. NewLinks[k] = page.links[i] /\ k \in DOMAIN NewLinks
    BY <1>4, <1>6, <2>2
  <2> QED
    BY <2>3 DEF Range
<1> QED
  BY <1>3, <1>4, <1>5, <1>6, <1>7, <1>8, ZenonT(30)

-----------------------------------------------------------------------------
(* The sequences that the steps change                                     *)

(* Taking the first of a sequence moves the others up by one.              *)
LEMMA TailIs ==
    ASSUME NEW S, NEW s \in Seq(S), s # <<>>,
           NEW t, t = Tail(s)
    PROVE  /\ Len(s) \in Nat \ {0} /\ DOMAIN s = 1..Len(s)
           /\ Head(s) = s[1] /\ 1 \in DOMAIN s /\ Head(s) \in S
           /\ t \in Seq(S) /\ Len(t) = Len(s) - 1
           /\ \A i \in DOMAIN t : i \in Nat /\ i + 1 \in DOMAIN s
                                  /\ t[i] = s[i + 1]
           /\ \A i \in DOMAIN s : i # 1 => i - 1 \in DOMAIN t
                                           /\ t[i - 1] = s[i]
<1>1. Len(s) \in Nat \ {0} /\ DOMAIN s = 1..Len(s)
  BY EmptySeq, LenProperties
<1>2. Head(s) = s[1] /\ Head(s) \in S /\ 1 \in DOMAIN s
  BY <1>1
<1>3. t \in Seq(S) /\ Len(t) = Len(s) - 1 /\ DOMAIN t = 1..(Len(s) - 1)
  BY <1>1
<1>4. \A i \in 1..(Len(s) - 1) : t[i] = s[i + 1]
  BY <1>1
<1> QED
  BY <1>1, <1>2, <1>3, <1>4

(* Appending adds one at the end.                                          *)
LEMMA AppendIs ==
    ASSUME NEW S, NEW s \in Seq(S), NEW x \in S, NEW t, t = Append(s, x)
    PROVE  /\ t \in Seq(S) /\ Len(s) \in Nat
           /\ DOMAIN t = DOMAIN s \cup {Len(s) + 1}
           /\ Len(s) + 1 \notin DOMAIN s
           /\ t[Len(s) + 1] = x
           /\ \A i \in DOMAIN s : t[i] = s[i]
<1>1. Len(s) \in Nat /\ DOMAIN s = 1..Len(s)
  BY LenProperties
<1>2. t \in Seq(S) /\ Len(t) = Len(s) + 1 /\ DOMAIN t = 1..(Len(s) + 1)
  BY <1>1
<1>3. t[Len(s) + 1] = x /\ \A i \in 1..Len(s) : t[i] = s[i]
  BY <1>1
<1>4. 1..(Len(s) + 1) = 1..Len(s) \cup {Len(s) + 1}
  BY <1>1
<1> QED
  BY <1>1, <1>2, <1>3, <1>4

(* A concatenation has the places of both parts.                           *)
LEMMA ConcatIs ==
    ASSUME NEW S, NEW s \in Seq(S), NEW u \in Seq(S), NEW t, t = s \o u
    PROVE  /\ t \in Seq(S) /\ Len(s) \in Nat /\ Len(u) \in Nat
           /\ DOMAIN s = 1..Len(s) /\ DOMAIN u = 1..Len(u)
           /\ DOMAIN t = 1..(Len(s) + Len(u))
           /\ \A i \in DOMAIN s : i \in DOMAIN t /\ t[i] = s[i]
           /\ \A i \in DOMAIN u : Len(s) + i \in DOMAIN t
                                  /\ t[Len(s) + i] = u[i]
           /\ \A i \in DOMAIN t : i \in DOMAIN s
                                  \/ (i > Len(s) /\ i - Len(s) \in DOMAIN u
                                      /\ t[i] = u[i - Len(s)])
<1>1. /\ Len(s) \in Nat /\ Len(u) \in Nat
      /\ DOMAIN s = 1..Len(s) /\ DOMAIN u = 1..Len(u)
  BY LenProperties
<1>2. t \in Seq(S) /\ Len(t) = Len(s) + Len(u)
  BY <1>1
<1>3. DOMAIN t = 1..(Len(s) + Len(u))
  BY <1>2, LenProperties
<1>4. \A i \in 1..(Len(s) + Len(u)) :
        t[i] = IF i <= Len(s) THEN s[i] ELSE u[i - Len(s)]
  BY <1>1
<1> QED
  BY <1>1, <1>2, <1>3, <1>4

-----------------------------------------------------------------------------
(* Init and the steps of the frontier                                      *)

LEMMA InitCrawl == Init => CrawlInv
<1> SUFFICES ASSUME Init
             PROVE  CrawlInv
  OBVIOUS
<1> USE CrawlConfigAssumption
<1> DEFINE e == [url |-> Root, depth |-> 0]
<1>0. e \in Entry /\ e.url = Root /\ e.depth = 0
  BY DEF Entry
<1>1. /\ frontier \in Seq(Entry) /\ DOMAIN frontier = {1}
      /\ frontier[1] = e /\ entry = e
  <2> HIDE DEF e
  <2>1. frontier = <<e>> /\ entry = e
    BY DEF Init, e
  <2> QED
    BY <1>0, <2>1
<1>2. DOMAIN attempts = {} /\ DOMAIN parsedAt = {}
      /\ attempts = <<>> /\ parsedAt = <<>>
  BY DEF Init
<1>3. IsFiniteSet({}) /\ Cardinality({}) = 0
  BY FS_EmptySet
<1> HIDE DEF e
<1>4. TypeOK
  <2>1. result \in CrawlResult
    BY DEF Init, Categories, CrawlResult
  <2>2. fetch \in PageFetch
    BY DEF Init, MaxAttemptsPerCycle, PageFetch
  <2>3. /\ DOMAIN page = DOMAIN NoPage
        /\ page.parsed \in BOOLEAN /\ page.url \in Pages
        /\ page.links \in Seq(Pages) /\ IsFiniteSet(page.origins)
        /\ page.category \in Categories
        /\ page.after \in BOOLEAN /\ page.late \in BOOLEAN
    BY <1>3 DEF Init, NoPage, Categories
  <2>4. parsedAt \in [DOMAIN parsedAt -> Nat]
    BY <1>2
  <2> QED
    BY <1>0, <1>1, <1>2, <1>3, <2>1, <2>2, <2>3, <2>4 DEF TypeOK, Init
<1>5. BreadthFirst
  BY <1>0, <1>1 DEF BreadthFirst
<1>6. EachPageOnce
  BY <1>2, <1>3 DEF EachPageOnce, Init
<1>7. FrontierOK
  BY <1>0, <1>1, <1>2 DEF FrontierOK, Init, Fetching
<1>8. FetchOK /\ PageOK
  BY DEF FetchOK, PageOK, Init
<1>9. VisitedOK
  BY <1>2, <1>3 DEF VisitedOK, Init
<1>10. NothingLost
  <2>1. \A p \in queued : InFrontier(p)
    BY <1>0, <1>1 DEF InFrontier, Init
  <2> QED
    BY <1>2, <2>1 DEF NothingLost, Init, Closed
<1>11. CategoryOK
  BY <1>2 DEF CategoryOK, Init
<1> QED
  BY <1>4, <1>5, <1>6, <1>7, <1>8, <1>9, <1>10, <1>11 DEF CrawlInv

(* What TypeOK says of the frontier when it is not empty.                  *)
LEMMA FrontierTail ==
    ASSUME CrawlInv, frontier # <<>>
    PROVE  /\ Len(frontier) \in Nat \ {0} /\ 1 \in DOMAIN frontier
           /\ DOMAIN frontier \subseteq Nat
           /\ Head(frontier) = frontier[1] /\ Head(frontier) \in Entry
           /\ Tail(frontier) \in Seq(Entry)
           /\ \A i \in DOMAIN Tail(frontier) :
                /\ i \in Nat /\ i + 1 \in DOMAIN frontier
                /\ Tail(frontier)[i] = frontier[i + 1]
           /\ \A i \in DOMAIN frontier :
                i # 1 => /\ i - 1 \in DOMAIN Tail(frontier)
                         /\ Tail(frontier)[i - 1] = frontier[i]
<1>1. frontier \in Seq(Entry)
  BY DEF CrawlInv, TypeOK
<1>2. PICK t : t = Tail(frontier)
  BY ZenonT(30)
<1>3. /\ Len(frontier) \in Nat \ {0} /\ DOMAIN frontier = 1..Len(frontier)
      /\ Head(frontier) = frontier[1] /\ 1 \in DOMAIN frontier
      /\ Head(frontier) \in Entry
      /\ t \in Seq(Entry) /\ Len(t) = Len(frontier) - 1
      /\ \A i \in DOMAIN t : i \in Nat /\ i + 1 \in DOMAIN frontier
                             /\ t[i] = frontier[i + 1]
      /\ \A i \in DOMAIN frontier :
            i # 1 => i - 1 \in DOMAIN t /\ t[i - 1] = frontier[i]
  BY ONLY <1>1, <1>2, frontier # <<>>, TailIs
<1>4. DOMAIN frontier \subseteq Nat
  BY <1>3
<1> QED
  BY ONLY <1>2, <1>3, <1>4

(* What TypeOK says of the entries and of the attempts.                    *)
LEMMA Elements ==
    ASSUME TypeOK
    PROVE  /\ \A i \in DOMAIN frontier :
                /\ frontier[i].url \in Pages /\ frontier[i].depth \in Nat
                /\ frontier[i] \in Entry
           /\ \A k \in DOMAIN attempts :
                /\ attempts[k].url \in Pages /\ attempts[k].last \in Pages
                /\ attempts[k].category \in Categories
<1>1. frontier \in Seq(Entry)
  BY DEF TypeOK
<1>2. \A i \in DOMAIN frontier : frontier[i] \in Entry
  BY ONLY <1>1
<1>3. attempts \in Seq(PageAttempt)
  BY DEF TypeOK
<1>4. \A k \in DOMAIN attempts : attempts[k] \in PageAttempt
  BY ONLY <1>3
<1>5. \A x \in Entry : x.url \in Pages /\ x.depth \in Nat
  BY DEF Entry
<1>6. \A x \in PageAttempt : x.url \in Pages /\ x.last \in Pages
                               /\ x.category \in Categories
  BY DEF PageAttempt
<1> QED
  BY ONLY <1>2, <1>4, <1>5, <1>6

(* Taking the first entry off keeps the order of the others.               *)
LEMMA TakeKeepsOrder ==
    ASSUME CrawlInv, frontier # <<>>, frontier' = Tail(frontier),
           entry' = entry \/ entry' = Head(frontier)
    PROVE  BreadthFirst'
<1> DEFINE t == Tail(frontier)
<1>1. /\ 1 \in DOMAIN frontier /\ DOMAIN frontier \subseteq Nat
      /\ Head(frontier) = frontier[1]
      /\ \A i \in DOMAIN t : i \in Nat /\ i + 1 \in DOMAIN frontier
                             /\ t[i] = frontier[i + 1]
  BY FrontierTail
<1>2. \A i \in DOMAIN frontier : frontier[i].depth \in Nat
  BY Elements DEF CrawlInv
<1>3. entry.depth \in Nat /\ MaxDepth \in Nat
  BY CrawlConfigAssumption DEF CrawlInv, TypeOK, Entry
<1>4. /\ \A i, j \in DOMAIN frontier :
            i < j => frontier[i].depth <= frontier[j].depth
      /\ \A i \in DOMAIN frontier :
            frontier[i].depth \in entry.depth..(entry.depth + 1)
                /\ frontier[i].depth <= MaxDepth
  BY DEF CrawlInv, BreadthFirst
<1> HIDE DEF t
<1>5. ASSUME NEW i \in DOMAIN t, NEW j \in DOMAIN t, i < j
      PROVE  t[i].depth <= t[j].depth
  <2>1. i + 1 \in DOMAIN frontier /\ j + 1 \in DOMAIN frontier /\ i + 1 < j + 1
    BY <1>1, <1>5
  <2> QED
    BY <1>1, <1>4, <2>1
<1>6. ASSUME NEW i \in DOMAIN t
      PROVE  /\ t[i].depth \in entry'.depth..(entry'.depth + 1)
             /\ t[i].depth <= MaxDepth
  <2>1. t[i].depth \in Nat /\ t[i].depth \in entry.depth..(entry.depth + 1)
        /\ t[i].depth <= MaxDepth
    BY <1>1, <1>2, <1>4
  <2>2. frontier[1].depth <= t[i].depth
    <3>1. CASE i = 0
      BY <1>1, <1>2, <3>1
    <3>2. CASE i # 0
      <4>1. 1 < i + 1 /\ i + 1 \in DOMAIN frontier
        BY <1>1, <3>2
      <4> QED
        BY <1>1, <1>4, <4>1
    <3> QED
      BY <3>1, <3>2
  <2>3. frontier[1].depth \in entry.depth..(entry.depth + 1)
        /\ frontier[1].depth \in Nat
    BY <1>1, <1>2, <1>4
  <2> QED
    BY <1>1, <1>3, <2>1, <2>2, <2>3
<1> QED
  BY <1>5, <1>6 DEF BreadthFirst, t

(* The entries that are left are still in the queue, and once.             *)
LEMMA TakeKeepsFrontier ==
    ASSUME CrawlInv, frontier # <<>>, frontier' = Tail(frontier),
           UNCHANGED <<queued, attempts>>,
           \/ entry' = entry /\ pc' \notin {"fetch", "page"}
           \/ entry' = Head(frontier)
    PROVE  FrontierOK'
<1> DEFINE t == Tail(frontier)
<1>1. /\ 1 \in DOMAIN frontier /\ DOMAIN frontier \subseteq Nat
      /\ Head(frontier) = frontier[1]
      /\ \A i \in DOMAIN t : i \in Nat /\ i + 1 \in DOMAIN frontier
                             /\ t[i] = frontier[i + 1]
  BY FrontierTail
<1>2. FrontierOK
  BY DEF CrawlInv
<1> HIDE DEF t
<1>3. \A i \in DOMAIN t :
        /\ t[i].url \in queued
        /\ \A k \in DOMAIN attempts : t[i].url # attempts[k].url
  BY <1>1, <1>2 DEF FrontierOK
<1>4. ASSUME NEW i \in DOMAIN t, NEW j \in DOMAIN t, t[i].url = t[j].url
      PROVE  i = j
  <2>1. i + 1 = j + 1
    BY <1>1, <1>2, <1>4 DEF FrontierOK
  <2> QED
    BY <1>1, <2>1
<1>5. \A i \in DOMAIN t : t[i].url # frontier[1].url
  <2>1. ASSUME NEW i \in DOMAIN t, t[i].url = frontier[1].url
        PROVE  FALSE
    <3>1. i + 1 = 1
      BY <1>1, <1>2, <2>1 DEF FrontierOK
    <3>2. i \in Nat /\ DOMAIN t = 1..Len(t)
      <4>1. t \in Seq(Entry)
        BY FrontierTail DEF t
      <4> QED
        BY <1>1, <4>1, LenProperties
    <3> QED
      BY <3>1, <3>2
  <2> QED
    BY <2>1
<1>6. entry'.depth <= MaxDepth /\ entry'.url \in queued
  <2>1. frontier[1].depth <= MaxDepth
    BY <1>1 DEF CrawlInv, BreadthFirst
  <2> QED
    BY <1>1, <1>2, <2>1 DEF FrontierOK
<1>7. CASE entry' = entry /\ pc' \notin {"fetch", "page"}
  BY <1>2, <1>3, <1>4, <1>6, <1>7, ZenonT(30) DEF FrontierOK, Fetching, t
<1>8. CASE entry' = Head(frontier)
  <2>1. \A k \in DOMAIN attempts : attempts[k].url # entry'.url
    BY <1>1, <1>2, <1>8 DEF FrontierOK
  <2> QED
    BY <1>1, <1>2, <1>3, <1>4, <1>5, <1>6, <1>8, <2>1, ZenonT(30)
    DEF FrontierOK, Fetching, t
<1> QED
  BY <1>7, <1>8

(* No link gets lost when the entry that is taken was visited, is fetched  *)
(* next, or is given up for the budget.                                    *)
LEMMA TakeLosesNothing ==
    ASSUME CrawlInv, frontier # <<>>, frontier' = Tail(frontier),
           pc = "select", UNCHANGED <<site, queued, visited, seen, stopped,
                                      parsedAt>>,
           result'.category = result.category,
           \/ result'.budget /\ result'.budget \in BOOLEAN
           \/ /\ result'.budget = result.budget
              /\ pc' \notin {"finalize", "done"}
              /\ \/ Head(frontier).url \in visited
                 \/ pc' = "fetch" /\ entry' = Head(frontier)
    PROVE  NothingLost'
<1> DEFINE t == Tail(frontier)
<1>1. /\ 1 \in DOMAIN frontier /\ Head(frontier) = frontier[1]
      /\ \A i \in DOMAIN frontier :
            i # 1 => i - 1 \in DOMAIN t /\ t[i - 1] = frontier[i]
  BY FrontierTail
<1>2. NothingLost
  BY DEF CrawlInv
<1>3. stopped = "no"
  BY <1>2 DEF NothingLost
<1>4. /\ \A p \in DOMAIN parsedAt' : site'[p].origins \subseteq seen'
      /\ ~result'.budget => Closed(visited \cup queued)'
  BY <1>2 DEF NothingLost, Closed
<1>5. ASSUME ~result'.budget, result'.category = "none"
      PROVE  /\ \A p \in queued :
                  \/ p \in visited \/ InFrontier(p)'
                  \/ (Fetching' /\ p = entry'.url)
             /\ pc' \notin {"finalize", "done"}
  <2>1. /\ \/ Head(frontier).url \in visited
           \/ pc' = "fetch" /\ entry' = Head(frontier)
        /\ pc' \notin {"finalize", "done"} /\ result'.budget = result.budget
    BY <1>5
  <2>2. ASSUME NEW p \in queued, p \notin visited
        PROVE  p = Head(frontier).url \/ InFrontier(p)'
    <3>1. PICK i \in DOMAIN frontier : frontier[i].url = p
      BY <1>2, <1>3, <1>5, <2>1, <2>2 DEF NothingLost, InFrontier, Fetching
    <3>2. CASE i = 1
      BY <1>1, <3>1, <3>2
    <3>3. CASE i # 1
      <4>1. i - 1 \in DOMAIN t /\ t[i - 1].url = p
        BY <1>1, <3>1, <3>3
      <4> QED
        BY <4>1 DEF InFrontier, t
    <3> QED
      BY <3>2, <3>3
  <2> QED
    BY <2>1, <2>2 DEF Fetching
<1> QED
  BY <1>3, <1>4, <1>5 DEF NothingLost

(* Steps that leave attempts, pages and counts alone keep what is said     *)
(* about them.                                                             *)
LEMMA AttemptsUntouched ==
    ASSUME CrawlInv, UNCHANGED <<site, visited, seen, attempts, parsedAt>>,
           result'.parsed = result.parsed,
           result'.candidates = result.candidates,
           result'.category = result.category,
           pc # "done", pc # "page", stopped' = stopped \/ stopped' # "no"
    PROVE  EachPageOnce' /\ VisitedOK' /\ CategoryOK'
<1>1. EachPageOnce'
  BY DEF CrawlInv, EachPageOnce
<1>2. VisitedOK'
  BY DEF CrawlInv, VisitedOK, SeenAt
<1>3. CategoryOK'
  BY DEF CrawlInv, CategoryOK
<1> QED
  BY <1>1, <1>2, <1>3

LEMMA SkipKeeps == CrawlInv /\ SkipEntry => CrawlInv'
<1> SUFFICES ASSUME CrawlInv, SkipEntry
             PROVE  CrawlInv'
  OBVIOUS
<1> USE DEF SkipEntry
<1>1. /\ Len(frontier) \in Nat \ {0} /\ Tail(frontier) \in Seq(Entry)
  BY FrontierTail
<1>2. result' \in CrawlResult
  <2>1. Len(frontier) - 1 \in Nat
    BY <1>1
  <2> QED
    BY <1>1, <2>1, ZenonT(30) DEF CrawlInv, TypeOK, CrawlResult
<1>3. /\ result'.parsed = result.parsed
      /\ result'.candidates = result.candidates
      /\ result'.category = result.category
      /\ result'.budget = result.budget
  BY DEF CrawlInv, TypeOK, CrawlResult
<1>4. TypeOK'
  BY <1>1, <1>2 DEF CrawlInv, TypeOK
<1>5. BreadthFirst' /\ FrontierOK'
  BY TakeKeepsOrder, TakeKeepsFrontier
<1>6. EachPageOnce' /\ VisitedOK' /\ CategoryOK'
  BY <1>3, AttemptsUntouched
<1>7. FetchOK' /\ PageOK'
  BY DEF FetchOK, PageOK
<1>8. NothingLost'
  BY <1>3, TakeLosesNothing
<1> QED
  BY <1>4, <1>5, <1>6, <1>7, <1>8 DEF CrawlInv

LEMMA BudgetKeeps == CrawlInv /\ PageBudgetSpent => CrawlInv'
<1> SUFFICES ASSUME CrawlInv, PageBudgetSpent
             PROVE  CrawlInv'
  OBVIOUS
<1> USE DEF PageBudgetSpent
<1>1. /\ Len(frontier) \in Nat \ {0} /\ Tail(frontier) \in Seq(Entry)
  BY FrontierTail
<1>2. result' \in CrawlResult
  <2>1. Len(frontier) - 1 \in Nat
    BY <1>1
  <2> QED
    BY <1>1, <2>1, ZenonT(30) DEF CrawlInv, TypeOK, CrawlResult
<1>3. /\ result'.parsed = result.parsed
      /\ result'.candidates = result.candidates
      /\ result'.category = result.category
      /\ result'.budget = TRUE
  BY DEF CrawlInv, TypeOK, CrawlResult
<1>4. TypeOK'
  BY <1>1, <1>2 DEF CrawlInv, TypeOK
<1>5. BreadthFirst' /\ FrontierOK'
  BY TakeKeepsOrder, TakeKeepsFrontier
<1>6. EachPageOnce' /\ VisitedOK' /\ CategoryOK'
  BY <1>3, AttemptsUntouched
<1>7. FetchOK' /\ PageOK'
  BY DEF FetchOK, PageOK
<1>8. NothingLost'
  BY <1>3, TakeLosesNothing
<1> QED
  BY <1>4, <1>5, <1>6, <1>7, <1>8 DEF CrawlInv

LEMMA SelectKeeps == CrawlInv /\ SelectEntry => CrawlInv'
<1> SUFFICES ASSUME CrawlInv, SelectEntry
             PROVE  CrawlInv'
  OBVIOUS
<1> USE DEF SelectEntry
<1>1. /\ Len(frontier) \in Nat \ {0} /\ Tail(frontier) \in Seq(Entry)
      /\ Head(frontier) \in Entry
  BY FrontierTail
<1>2. result' \in CrawlResult
  <2>1. result.attempted \in 0..MaxPages /\ result.attempted < MaxPages
        /\ MaxPages \in Nat
    BY CrawlConfigAssumption DEF CrawlInv, TypeOK, CrawlResult, BudgetLeft
  <2>2. result.attempted + 1 \in 0..MaxPages /\ Len(frontier) - 1 \in Nat
    BY <1>1, <2>1
  <2> QED
    BY <2>2, ZenonT(30) DEF CrawlInv, TypeOK, CrawlResult
<1>3. /\ result'.parsed = result.parsed
      /\ result'.candidates = result.candidates
      /\ result'.category = result.category
      /\ result'.budget = result.budget
  BY DEF CrawlInv, TypeOK, CrawlResult
<1>4. TypeOK'
  <2>1. Head(frontier).url \in Pages
    BY <1>1 DEF Entry
  <2>2. fetch' \in PageFetch
    BY <2>1, CrawlConfigAssumption DEF StartFetch, MaxAttemptsPerCycle, PageFetch
  <2> QED
    BY <1>1, <1>2, <2>2 DEF CrawlInv, TypeOK
<1>5. BreadthFirst' /\ FrontierOK'
  BY TakeKeepsOrder, TakeKeepsFrontier
<1>6. EachPageOnce' /\ VisitedOK' /\ CategoryOK'
  BY <1>3, AttemptsUntouched
<1>7. FetchOK' /\ PageOK'
  BY DEF FetchOK, PageOK, StartFetch
<1>8. NothingLost'
  BY <1>3, TakeLosesNothing
<1> QED
  BY <1>4, <1>5, <1>6, <1>7, <1>8 DEF CrawlInv

LEMMA ExhaustedKeeps == CrawlInv /\ FrontierExhausted => CrawlInv'
<1> SUFFICES ASSUME CrawlInv, FrontierExhausted
             PROVE  CrawlInv'
  OBVIOUS
<1> USE DEF FrontierExhausted
<1>1. TypeOK'
  BY DEF CrawlInv, TypeOK
<1>2. BreadthFirst' /\ FrontierOK'
  BY DEF CrawlInv, BreadthFirst, FrontierOK, Fetching
<1>3. EachPageOnce' /\ VisitedOK' /\ CategoryOK'
  BY AttemptsUntouched
<1>4. FetchOK' /\ PageOK'
  BY DEF FetchOK, PageOK
<1>5. NothingLost'
  BY DEF CrawlInv, NothingLost, Closed, InFrontier, Fetching
<1> QED
  BY <1>1, <1>2, <1>3, <1>4, <1>5 DEF CrawlInv

-----------------------------------------------------------------------------
(* One request of a fetch                                                  *)

(* A request leaves the frontier and the records of the crawl alone, and   *)
(* visits more pages or the same.                                          *)
LEMMA RequestUntouched ==
    ASSUME CrawlInv, pc = "fetch", pc' \in {"fetch", "page"},
           UNCHANGED <<site, frontier, queued, seen, result, entry, stopped,
                       attempts, parsedAt>>,
           visited \subseteq visited'
    PROVE  /\ BreadthFirst' /\ EachPageOnce' /\ FrontierOK' /\ CategoryOK'
           /\ NothingLost'
<1>1. BreadthFirst' /\ EachPageOnce'
  BY ZenonT(30) DEF CrawlInv, BreadthFirst, EachPageOnce
<1>2. FrontierOK' /\ CategoryOK'
  BY DEF CrawlInv, FrontierOK, CategoryOK, Fetching
<1>3. NothingLost'
  <2>1. ~result.budget => Closed(visited' \cup queued)
    BY DEF CrawlInv, NothingLost, Closed
  <2>2. ~result'.budget => Closed(visited \cup queued)'
    BY <2>1 DEF Closed
  <2>3. \A p : InFrontier(p)' <=> InFrontier(p)
    BY DEF InFrontier
  <2> QED
    BY <2>2, <2>3 DEF CrawlInv, NothingLost, Fetching
<1> QED
  BY <1>1, <1>2, <1>3, ZenonT(30)

(* A redirect is followed.                                                 *)
LEMMA FollowKeeps ==
    ASSUME CrawlInv, NEW reply, IsReply(reply), NEW late, Get(reply, late),
           Follows(reply), reply = site[fetch.url]
    PROVE  CrawlInv'
<1> DEFINE to == reply.to[1]
<1>1. /\ pc = "fetch" /\ pc' = "fetch"
      /\ fetch' = [fetch EXCEPT !.url = to, !.hops = @ \cup {to},
                                !.redirects = @ + 1]
      /\ UNCHANGED <<site, frontier, queued, visited, seen, result, entry,
                     page, stopped, attempts, parsedAt>>
  BY ZenonT(30) DEF Get
<1>2. to \in Pages /\ to \notin visited /\ to \notin fetch.hops
      /\ reply.kind = "redirect" /\ fetch.redirects < RedirectLimit
  BY DEF Follows, IsReply
<1> HIDE DEF to
<1>3. /\ fetch'.url = to /\ fetch'.hops = fetch.hops \cup {to}
      /\ fetch' \in PageFetch
  <2>1. fetch \in PageFetch /\ RedirectLimit \in Nat
    BY CrawlConfigAssumption, ZenonT(30) DEF CrawlInv, TypeOK
  <2>2. fetch.redirects + 1 \in 0..RedirectLimit
    BY <1>2, <2>1 DEF PageFetch
  <2> QED
    BY <1>1, <1>2, <2>1, <2>2, ZenonT(30) DEF PageFetch
<1>4. TypeOK'
  BY <1>1, <1>3 DEF CrawlInv, TypeOK
<1>5. BreadthFirst' /\ EachPageOnce' /\ FrontierOK' /\ CategoryOK'
      /\ NothingLost'
  BY <1>1, RequestUntouched, ZenonT(30)
<1>6. FetchOK'
  BY <1>1, <1>2, <1>3 DEF CrawlInv, FetchOK, to
<1>7. PageOK'
  BY <1>1 DEF PageOK
<1>8. VisitedOK'
  BY <1>1 DEF CrawlInv, VisitedOK, SeenAt
<1> QED
  BY <1>4, <1>5, <1>6, <1>7, <1>8 DEF CrawlInv

(* A transient failure is retried at once.                                 *)
LEMMA RetryKeeps ==
    ASSUME CrawlInv, NEW reply, IsReply(reply), NEW late, Get(reply, late),
           ~Follows(reply), Retries(reply)
    PROVE  CrawlInv'
<1>1. /\ pc = "fetch" /\ pc' = "fetch"
      /\ visited' = visited
      /\ fetch' = StartFetch(entry.url, fetch.attempt + 1)
      /\ UNCHANGED <<site, frontier, queued, seen, result, entry,
                     page, stopped, attempts, parsedAt>>
  <2>1. ~Visits(reply)
    BY DEF Retries, Visits, Category
  <2> QED
    BY <2>1 DEF Get
<1>2. fetch' \in PageFetch
  <2>1. fetch \in PageFetch /\ RedirectLimit \in Nat /\ entry.url \in Pages
    BY CrawlConfigAssumption DEF CrawlInv, TypeOK, Entry
  <2>2. fetch.attempt + 1 \in 1..MaxAttemptsPerCycle
    BY <2>1 DEF Retries, PageFetch, MaxAttemptsPerCycle
  <2> QED
    BY <1>1, <2>1, <2>2 DEF PageFetch, StartFetch
<1>3. TypeOK'
  BY <1>1, <1>2 DEF CrawlInv, TypeOK
<1>4. BreadthFirst' /\ EachPageOnce' /\ FrontierOK' /\ CategoryOK'
      /\ NothingLost'
  BY <1>1, RequestUntouched, ZenonT(30)
<1>5. FetchOK'
  BY <1>1, ZenonT(30) DEF CrawlInv, FetchOK, StartFetch
<1>6. PageOK'
  BY <1>1, ZenonT(30) DEF PageOK
<1>7. VisitedOK'
  BY <1>1 DEF CrawlInv, VisitedOK, SeenAt
<1> QED
  BY <1>3, <1>4, <1>5, <1>6, <1>7 DEF CrawlInv

(* The fetch ends: a page or another origin takes its hops off the crawl,  *)
(* a failure does not.                                                     *)
LEMMA EndKeeps ==
    ASSUME CrawlInv, NEW reply, IsReply(reply), NEW late \in BOOLEAN,
           Get(reply, late), ~Follows(reply), ~Retries(reply),
           reply = site[fetch.url] \/ reply.kind = "transient"
    PROVE  CrawlInv'
<1>1. /\ pc = "fetch" /\ pc' = "page" /\ (late => Visits(reply))
      /\ visited' = IF Visits(reply) THEN visited \cup fetch.hops ELSE visited
      /\ page' = [parsed |-> reply.kind = "page", url |-> fetch.url,
                  links |-> IF reply.kind = "page" THEN reply.to ELSE <<>>,
                  origins |-> reply.origins, category |-> Category(reply),
                  after |-> reply.after, late |-> late]
      /\ UNCHANGED <<site, frontier, queued, seen, result, entry, fetch,
                     stopped, attempts, parsedAt>>
  BY ZenonT(30) DEF Get
<1>2. /\ page'.parsed = (reply.kind = "page") /\ page'.url = fetch.url
      /\ page'.links = IF reply.kind = "page" THEN reply.to ELSE <<>>
      /\ page'.origins = reply.origins /\ page'.category = Category(reply)
      /\ page'.after = reply.after /\ page'.late = late
      /\ DOMAIN page' = DOMAIN NoPage
  BY <1>1 DEF NoPage
<1>3. /\ reply.kind \in Kinds /\ reply.to \in Seq(Pages)
      /\ IsFiniteSet(reply.origins) /\ reply.after \in BOOLEAN
  BY DEF IsReply
<1>4. Category(reply) \in Categories
      /\ (Category(reply) = "none" <=> Visits(reply))
  BY <1>3 DEF Category, Categories, Visits, Kinds
<1>5. fetch.url \in Pages /\ fetch.hops \subseteq Pages
  BY DEF CrawlInv, TypeOK, PageFetch
<1>6. visited \subseteq visited' /\ visited' \subseteq Pages
  <2>1. visited \subseteq Pages
    BY ZenonT(30) DEF CrawlInv, TypeOK
  <2> QED
    BY <1>1, <1>5, <2>1, Zenon
<1>7. TypeOK'
  <2>1. page'.parsed \in BOOLEAN
    BY <1>2, Zenon
  <2>2. page'.links \in Seq(Pages)
    BY <1>2, <1>3
  <2>3. page'.after \in BOOLEAN /\ page'.late \in BOOLEAN
    BY <1>2, <1>3, Zenon
  <2>4. page'.url \in Pages /\ IsFiniteSet(page'.origins)
        /\ page'.category \in Categories
    BY <1>2, <1>3, <1>4, <1>5, Zenon
  <2> QED
    BY <1>1, <1>2, <1>6, <2>1, <2>2, <2>3, <2>4, ZenonT(30) DEF CrawlInv, TypeOK
<1>8. BreadthFirst' /\ EachPageOnce' /\ FrontierOK' /\ CategoryOK'
      /\ NothingLost'
  BY <1>1, <1>6, RequestUntouched, ZenonT(30)
<1>9. FetchOK'
  BY <1>1, ZenonT(30) DEF FetchOK
<1>10. /\ entry.url \in fetch.hops /\ fetch.url \in fetch.hops
       /\ fetch.url \notin visited
       /\ \A h \in fetch.hops :
            h = fetch.url \/ (site[h].kind = "redirect"
                              /\ site[h].to[1] \in fetch.hops)
  BY <1>1 DEF CrawlInv, FetchOK
<1>11. Visits(reply) => reply = site[fetch.url]
  BY DEF Visits
<1>12. PageOK'
  <2>1. page'.category = "none" => entry'.url \in visited'
    BY <1>1, <1>2, <1>4, <1>10
  <2>2. page'.late => page'.category = "none"
    BY <1>1, <1>2, <1>4, ZenonT(30)
  <2>3. ~page'.parsed => page'.links = <<>>
    BY <1>2, ZenonT(30)
  <2>4. ASSUME page'.parsed
        PROVE  /\ page'.category = "none" /\ page'.url \in visited'
               /\ page'.url \notin DOMAIN parsedAt'
               /\ page'.links = site'[page'.url].to
               /\ page'.origins = site'[page'.url].origins
               /\ \A k \in DOMAIN attempts' :
                    attempts'[k].outcome = "complete" =>
                        attempts'[k].last # page'.url
    <3>1. reply.kind = "page" /\ Visits(reply) /\ reply = site[fetch.url]
      BY <1>2, <1>11, <2>4, ZenonT(30) DEF Visits
    <3>2. /\ DOMAIN parsedAt \subseteq visited
          /\ \A k \in DOMAIN attempts :
                attempts[k].outcome = "complete" => attempts[k].last \in visited
      BY ZenonT(30) DEF CrawlInv, VisitedOK
    <3> QED
      BY <1>1, <1>2, <1>4, <1>10, <3>1, <3>2
  <2> QED
    BY <2>1, <2>2, <2>3, <2>4, ZenonT(30) DEF PageOK
<1>13. VisitedOK'
  <2>1. VisitedOK
    BY ZenonT(30) DEF CrawlInv
  <2>2. ASSUME NEW p \in visited
        PROVE  SeenAt(p)'
    <3>1. SeenAt(p)
      BY <1>1, <2>1, <2>2, ZenonT(30) DEF VisitedOK
    <3> QED
      BY <1>1, <1>6, <3>1, ZenonT(30) DEF SeenAt
  <2>3. ASSUME NEW p \in visited', p \notin visited
        PROVE  SeenAt(p)' \/ (page'.parsed /\ p = page'.url)
    <3>1. Visits(reply) /\ p \in fetch.hops /\ fetch.hops \subseteq visited'
      BY <1>1, <2>3
    <3>2. CASE p = fetch.url
      BY <1>1, <1>2, <1>11, <3>1, <3>2, ZenonT(30) DEF Visits, SeenAt
    <3>3. CASE p # fetch.url
      BY <1>1, <1>10, <3>1, <3>3, ZenonT(30) DEF SeenAt
    <3> QED
      BY <3>2, <3>3, ZenonT(30)
  <2>4. /\ DOMAIN parsedAt' \subseteq visited' /\ IsFiniteSet(DOMAIN parsedAt')
        /\ \A k \in DOMAIN attempts' : attempts'[k].outcome = "complete" =>
                attempts'[k].last \in visited'
    BY <1>1, <1>6, <2>1 DEF VisitedOK
  <2> QED
    BY <1>1, <2>2, <2>3, <2>4 DEF VisitedOK
<1> QED
  BY <1>7, <1>8, <1>9, <1>12, <1>13, ZenonT(30) DEF CrawlInv

LEMMA GetKeeps == CrawlInv /\ (GetReply \/ GetFails) => CrawlInv'
<1>1. ASSUME CrawlInv, GetReply
      PROVE  CrawlInv'
  <2>1. PICK late \in BOOLEAN : Get(site[fetch.url], late)
    BY <1>1 DEF GetReply
  <2>2. IsReply(site[fetch.url])
    BY <1>1, CrawlConfigAssumption DEF CrawlInv, TypeOK, PageFetch
  <2> QED
    BY <1>1, <2>1, <2>2, FollowKeeps, RetryKeeps, EndKeeps
<1>2. ASSUME CrawlInv, GetFails
      PROVE  CrawlInv'
  <2>1. PICK after \in BOOLEAN : Get(Failure("transient", after), FALSE)
    BY <1>2, ZenonT(30) DEF GetFails
  <2>2. PICK reply : reply = Failure("transient", after)
    OBVIOUS
  <2>3. /\ DOMAIN reply = {"kind", "to", "origins", "after"}
        /\ reply.kind = "transient" /\ reply.to = <<>>
        /\ reply.origins = {} /\ reply.after = after
    BY <2>2 DEF Failure
  <2>4. IsReply(reply)
    <3>1. IsFiniteSet({}) /\ <<>> \in Seq(Pages) /\ DOMAIN <<>> = {}
      BY FS_EmptySet
    <3> QED
      BY <2>3, <3>1 DEF IsReply, Kinds
  <2>5. ~Follows(reply)
    BY <2>3 DEF Follows
  <2> QED
    BY <1>2, <2>1, <2>2, <2>3, <2>4, <2>5, RetryKeeps, EndKeeps, ZenonT(30)
<1> QED
  BY <1>1, <1>2

-----------------------------------------------------------------------------
(* Recording a page                                                        *)

(* The attempt of the present entry is added after the others.             *)
LEMMA AttemptAdded ==
    ASSUME CrawlInv, Attempted
    PROVE  /\ attempts' \in Seq(PageAttempt)
           /\ \E n : /\ DOMAIN attempts' = DOMAIN attempts \cup {n}
                     /\ n \notin DOMAIN attempts
                     /\ attempts'[n].url = entry.url
                     /\ attempts'[n].last = page.url
                     /\ attempts'[n].category = page.category
                     /\ attempts'[n].outcome =
                            IF page.category # "none" THEN "failed"
                            ELSE IF page.parsed THEN "complete"
                            ELSE "redirected"
                     /\ \A k \in DOMAIN attempts : attempts'[k] = attempts[k]
<1>1. PICK a : a = [url |-> entry.url, last |-> page.url,
                    category |-> page.category,
                    outcome |-> IF page.category # "none" THEN "failed"
                                ELSE IF page.parsed THEN "complete"
                                ELSE "redirected"]
  BY ZenonT(30)
<1>2. a \in PageAttempt
  BY <1>1 DEF CrawlInv, TypeOK, PageAttempt, Entry
<1>3. attempts' = Append(attempts, a) /\ attempts \in Seq(PageAttempt)
  BY <1>1 DEF Attempted, CrawlInv, TypeOK
<1>4. /\ attempts' \in Seq(PageAttempt)
      /\ DOMAIN attempts' = DOMAIN attempts \cup {Len(attempts) + 1}
      /\ Len(attempts) + 1 \notin DOMAIN attempts
      /\ attempts'[Len(attempts) + 1] = a
      /\ \A k \in DOMAIN attempts : attempts'[k] = attempts[k]
  BY ONLY <1>2, <1>3, AppendIs
<1>5. /\ a.url = entry.url /\ a.last = page.url
      /\ a.category = page.category
      /\ a.outcome = IF page.category # "none" THEN "failed"
                     ELSE IF page.parsed THEN "complete" ELSE "redirected"
  BY <1>1, ZenonT(30)
<1> QED
  BY ONLY <1>4, <1>5

(* It is the only one of its entry, and of its page if that is complete.   *)
LEMMA AttemptIsNew ==
    ASSUME CrawlInv, pc = "page", Attempted
    PROVE  /\ \A i, j \in DOMAIN attempts' :
                i # j => attempts'[i].url # attempts'[j].url
           /\ \A i, j \in DOMAIN attempts' :
                i # j /\ attempts'[i].outcome = "complete"
                      /\ attempts'[j].outcome = "complete"
                => attempts'[i].last # attempts'[j].last
           /\ \A k \in DOMAIN attempts' :
                attempts'[k].url = entry.url \/
                    \E i \in DOMAIN attempts : attempts'[k].url = attempts[i].url
           /\ \A k \in DOMAIN attempts' :
                attempts'[k].outcome = "failed" <=>
                    attempts'[k].category # "none"
           /\ \A k \in DOMAIN attempts' :
                attempts'[k].outcome = "complete" =>
                    attempts'[k].last \in visited
<1>1. PICK n : /\ DOMAIN attempts' = DOMAIN attempts \cup {n}
               /\ n \notin DOMAIN attempts
               /\ attempts'[n].url = entry.url
               /\ attempts'[n].last = page.url
               /\ attempts'[n].category = page.category
               /\ attempts'[n].outcome =
                      IF page.category # "none" THEN "failed"
                      ELSE IF page.parsed THEN "complete" ELSE "redirected"
               /\ \A k \in DOMAIN attempts : attempts'[k] = attempts[k]
  BY AttemptAdded, ZenonT(30)
<1>2. \A k \in DOMAIN attempts : attempts[k].url # entry.url
  BY ZenonT(30) DEF CrawlInv, FrontierOK, Fetching
<1>3. attempts'[n].outcome = "complete" =>
        /\ page.url \in visited
        /\ \A k \in DOMAIN attempts : attempts[k].outcome = "complete" =>
                attempts[k].last # page.url
  BY <1>1 DEF CrawlInv, PageOK
<1>4. /\ \A i, j \in DOMAIN attempts :
            i # j => attempts[i].url # attempts[j].url
      /\ \A i, j \in DOMAIN attempts :
            i # j /\ attempts[i].outcome = "complete"
                  /\ attempts[j].outcome = "complete"
            => attempts[i].last # attempts[j].last
  BY DEF CrawlInv, EachPageOnce
<1>5. \A k \in DOMAIN attempts :
        /\ attempts[k].outcome = "failed" <=> attempts[k].category # "none"
        /\ attempts[k].outcome = "complete" => attempts[k].last \in visited
  BY DEF CrawlInv, CategoryOK, VisitedOK
<1>6. attempts'[n].outcome = "failed" <=> attempts'[n].category # "none"
  BY <1>1
<1>7. \A i, j \in DOMAIN attempts' :
        i # j => attempts'[i].url # attempts'[j].url
  BY <1>1, <1>2, <1>4, ZenonT(30)
<1>8. \A i, j \in DOMAIN attempts' :
        i # j /\ attempts'[i].outcome = "complete"
              /\ attempts'[j].outcome = "complete"
        => attempts'[i].last # attempts'[j].last
  BY <1>1, <1>3, <1>4, ZenonT(30)
<1> QED
  BY <1>1, <1>3, <1>5, <1>6, <1>7, <1>8

(* The category of the result stays the worst one.                         *)
LEMMA CategoryRecorded ==
    ASSUME CrawlInv, pc = "page", Attempted,
           result'.category = Worst(result.category, page.category)
    PROVE  CategoryOK'
<1>1. PICK n : /\ DOMAIN attempts' = DOMAIN attempts \cup {n}
               /\ attempts'[n].category = page.category
               /\ \A k \in DOMAIN attempts : attempts'[k] = attempts[k]
  BY AttemptAdded, ZenonT(30)
<1>2. /\ result.category = "transient" <=>
            \E k \in DOMAIN attempts : attempts[k].category = "transient"
      /\ result.category = "none" <=>
            \A k \in DOMAIN attempts : attempts[k].category = "none"
  BY DEF CrawlInv, CategoryOK
<1>3. result.category \in Categories /\ page.category \in Categories
  BY DEF CrawlInv, TypeOK, CrawlResult
<1>4. /\ result'.category = "transient" <=>
            result.category = "transient" \/ page.category = "transient"
      /\ result'.category = "none" <=>
            result.category = "none" /\ page.category = "none"
  BY <1>3 DEF Worst, Categories
<1>5. /\ (\E k \in DOMAIN attempts' : attempts'[k].category = "transient")
            <=> \/ \E k \in DOMAIN attempts : attempts[k].category = "transient"
                \/ page.category = "transient"
      /\ (\A k \in DOMAIN attempts' : attempts'[k].category = "none")
            <=> /\ \A k \in DOMAIN attempts : attempts[k].category = "none"
                /\ page.category = "none"
  BY <1>1
<1>6. \A k \in DOMAIN attempts' :
        attempts'[k].outcome = "failed" <=> attempts'[k].category # "none"
  BY AttemptIsNew
<1> QED
  BY <1>2, <1>4, <1>5, <1>6 DEF CategoryOK

(* The page that was fetched is now one of the attempts.                   *)
LEMMA VisitedRecorded ==
    ASSUME CrawlInv, pc = "page", Attempted, UNCHANGED <<site, visited>>,
           DOMAIN parsedAt' \subseteq visited, IsFiniteSet(DOMAIN parsedAt')
    PROVE  VisitedOK'
<1>1. PICK n : /\ DOMAIN attempts' = DOMAIN attempts \cup {n}
               /\ attempts'[n].last = page.url
               /\ attempts'[n].outcome =
                      IF page.category # "none" THEN "failed"
                      ELSE IF page.parsed THEN "complete" ELSE "redirected"
               /\ \A k \in DOMAIN attempts : attempts'[k] = attempts[k]
  BY AttemptAdded, ZenonT(30)
<1>2. ASSUME NEW p \in visited
      PROVE  SeenAt(p)'
  <2>1. SeenAt(p) \/ (page.parsed /\ p = page.url)
    BY DEF CrawlInv, VisitedOK
  <2>2. CASE SeenAt(p)
    BY <1>1, <2>2, ZenonT(30) DEF SeenAt
  <2>3. CASE page.parsed /\ p = page.url
    <3>1. attempts'[n].outcome = "complete" /\ n \in DOMAIN attempts'
      BY <1>1, <2>3, ZenonT(30) DEF CrawlInv, PageOK
    <3> QED
      BY <1>1, <2>3, <3>1, ZenonT(30) DEF SeenAt
  <2> QED
    BY <2>1, <2>2, <2>3
<1>3. \A k \in DOMAIN attempts' : attempts'[k].outcome = "complete" =>
            attempts'[k].last \in visited
  BY AttemptIsNew
<1> QED
  BY <1>2, <1>3 DEF VisitedOK

(* A failed page changes the category and the delay of the result.         *)
LEMMA FailedIs ==
    ASSUME CrawlInv, NEW r, r = Failed(result)
    PROVE  /\ r \in CrawlResult
           /\ r.category = Worst(result.category, page.category)
           /\ r.attempted = result.attempted /\ r.parsed = result.parsed
           /\ r.candidates = result.candidates /\ r.budget = result.budget
           /\ r.remaining = result.remaining
<1>1. result \in CrawlResult /\ page.category \in Categories
  BY DEF CrawlInv, TypeOK
<1>2. Worst(result.category, page.category) \in Categories
  BY <1>1 DEF Worst, CrawlResult
<1>3. PICK c, a : /\ c = Worst(result.category, page.category)
                  /\ a = (result.after
                            \/ (page.category # "none" /\ page.after))
  OBVIOUS
<1>4. r = [result EXCEPT !.category = c, !.after = a]
  BY <1>3, Zenon DEF Failed
<1>5. a \in BOOLEAN
  BY <1>3, Zenon
<1>6. r \in CrawlResult
  BY ONLY <1>1, <1>2, <1>3, <1>4, <1>5, ZenonT(30) DEF CrawlResult
<1> QED
  BY <1>1, <1>3, <1>4, <1>6 DEF CrawlResult

LEMMA RecordOnlyKeeps == CrawlInv /\ RecordOnly => CrawlInv'
<1> SUFFICES ASSUME CrawlInv, RecordOnly
             PROVE  CrawlInv'
  OBVIOUS
<1>1. /\ pc = "page" /\ Attempted /\ result' = Failed(result)
      /\ pc' = IF page.category = "transient" /\ page.after THEN "finalize"
               ELSE "select"
      /\ UNCHANGED <<site, frontier, queued, visited, seen, entry, fetch,
                     page, stopped, parsedAt>>
  BY DEF RecordOnly
<1>2. /\ result' \in CrawlResult
      /\ result'.category = Worst(result.category, page.category)
      /\ result'.parsed = result.parsed
      /\ result'.candidates = result.candidates
      /\ result'.budget = result.budget
  BY <1>1, FailedIs
<1>3. TypeOK'
  <2>1. attempts' \in Seq(PageAttempt)
    BY <1>1, AttemptAdded
  <2> QED
    BY <1>1, <1>2, <2>1 DEF CrawlInv, TypeOK
<1>4. BreadthFirst'
  BY <1>1, ZenonT(30) DEF CrawlInv, BreadthFirst
<1>5. EachPageOnce'
  BY <1>1, <1>2, AttemptIsNew, ZenonT(30) DEF CrawlInv, EachPageOnce
<1>6. FrontierOK'
  <2>1. \A k \in DOMAIN attempts' :
            attempts'[k].url = entry.url \/
                \E i \in DOMAIN attempts : attempts'[k].url = attempts[i].url
    BY <1>1, AttemptIsNew
  <2>2. FrontierOK /\ Fetching
    BY <1>1 DEF CrawlInv, Fetching
  <2> QED
    BY <1>1, <2>1, <2>2, ZenonT(30) DEF FrontierOK, Fetching
<1>7. FetchOK' /\ PageOK'
  BY <1>1, ZenonT(30) DEF FetchOK, PageOK
<1>8. VisitedOK'
  BY <1>1, VisitedRecorded DEF CrawlInv, VisitedOK
<1>9. CategoryOK'
  BY <1>1, <1>2, CategoryRecorded, ZenonT(30)
<1>10. NothingLost'
  <2>1. NothingLost /\ PageOK
    BY ZenonT(30) DEF CrawlInv
  <2>2. ~result'.budget => Closed(visited \cup queued)'
    BY <1>1, <1>2, <2>1, ZenonT(30) DEF NothingLost, Closed
  <2>3. ASSUME ~result'.budget, result'.category = "none"
        PROVE  /\ \A p \in queued : p \in visited \/ InFrontier(p)'
               /\ pc' = "select"
    <3>1. result.category = "none" /\ page.category = "none"
      <4>1. result.category \in Categories /\ page.category \in Categories
        BY DEF CrawlInv, TypeOK, CrawlResult
      <4> QED
        BY <1>2, <2>3, <4>1 DEF Worst, Categories
    <3>2. entry.url \in visited /\ pc' = "select"
      BY <1>1, <2>1, <3>1, ZenonT(30) DEF PageOK
    <3> QED
      BY <1>1, <1>2, <2>1, <2>3, <3>1, <3>2, ZenonT(30) DEF NothingLost, InFrontier
  <2> QED
    BY <1>1, <2>1, <2>2, <2>3 DEF NothingLost
<1> QED
  BY <1>3, <1>4, <1>5, <1>6, <1>7, <1>8, <1>9, <1>10, ZenonT(30) DEF CrawlInv

(* What joins the frontier: entries one level deeper, new to the crawl,    *)
(* each once; and no link of the page is left out but for the depth.       *)
LEMMA LinksJoin ==
    ASSUME CrawlInv, RecordPage
    PROVE  \E u \in Seq(Entry) :
              /\ frontier' = frontier \o u
              /\ queued' = queued \cup {u[i].url : i \in DOMAIN u}
              /\ \A i \in DOMAIN u :
                    /\ u[i].depth = entry.depth + 1 /\ u[i].depth <= MaxDepth
                    /\ u[i].url \notin visited \cup queued
              /\ \A i, j \in DOMAIN u : u[i].url = u[j].url => i = j
              /\ ~Cut => \A i \in DOMAIN page.links :
                            page.links[i] \in visited \cup queued'
<1>1. pc = "page" /\ PageOK /\ page.links \in Seq(Pages)
  BY DEF RecordPage, CrawlInv, TypeOK
<1>2. \A i, j \in DOMAIN page.links : page.links[i] = page.links[j] => i = j
  <2>1. CASE page.parsed
    <3>1. page.links = site[page.url].to /\ IsReply(site[page.url])
      BY <1>1, <2>1, CrawlConfigAssumption DEF PageOK, CrawlInv, TypeOK
    <3> QED
      BY <3>1 DEF IsReply
  <2>2. CASE ~page.parsed
    <3>1. page.links = <<>>
      BY <1>1, <2>2 DEF PageOK
    <3> QED
      BY <3>1
  <2> QED
    BY <2>1, <2>2, ZenonT(30)
<1>3. PICK NL : NL = NewLinks
  OBVIOUS
<1>4. /\ NL \in Seq(Pages)
      /\ \A i \in DOMAIN NL : NL[i] \notin visited \cup queued
      /\ \A i, j \in DOMAIN NL : NL[i] = NL[j] => i = j
      /\ \A i \in DOMAIN page.links :
            page.links[i] \in visited \cup queued \cup Range(NL)
  BY ONLY <1>1, <1>2, <1>3, NewLinksAre
<1>5. /\ queued' = IF TooDeep THEN queued ELSE queued \cup Range(NL)
      /\ frontier' = frontier \o
            (IF TooDeep THEN <<>>
             ELSE [i \in DOMAIN NL |->
                     [url |-> NL[i], depth |-> entry.depth + 1]])
      /\ Cut <=> TooDeep /\ NL # <<>>
  BY <1>3 DEF RecordPage, Cut
<1>6. entry.depth \in Nat /\ MaxDepth \in Nat
  BY CrawlConfigAssumption DEF CrawlInv, TypeOK, Entry
<1>7. CASE TooDeep
  <2>1. <<>> \in Seq(Entry) /\ DOMAIN <<>> = {}
    OBVIOUS
  <2>2. ~Cut => Range(NL) = {}
    BY <1>5, <1>7 DEF Range
  <2>3. /\ frontier' = frontier \o <<>> /\ queued' = queued
        /\ queued' = queued \cup {<<>>[i].url : i \in DOMAIN <<>>}
    BY <1>5, <1>7, <2>1, ZenonT(30)
  <2> QED
    BY <1>4, <2>1, <2>2, <2>3, ZenonT(30)
<1>8. CASE ~TooDeep
  <2>1. PICK u : u = [i \in DOMAIN NL |->
                        [url |-> NL[i], depth |-> entry.depth + 1]]
    BY ZenonT(30)
  <2>2. /\ DOMAIN u = DOMAIN NL
        /\ \A i \in DOMAIN NL : /\ u[i].url = NL[i]
                                /\ u[i].depth = entry.depth + 1
                                /\ u[i] \in Entry
    BY <1>4, <1>6, <2>1 DEF Entry
  <2>3. u \in Seq(Entry)
    <3>1. Len(NL) \in Nat /\ DOMAIN NL = 1..Len(NL)
      BY <1>4, LenProperties
    <3>2. u \in [1..Len(NL) -> Entry]
      BY <2>1, <2>2, <3>1
    <3> QED
      BY <3>1, <3>2
  <2>4. Range(NL) = {u[i].url : i \in DOMAIN u}
    BY <2>2 DEF Range
  <2>5. frontier' = frontier \o u /\ queued' = queued \cup Range(NL)
    BY <1>5, <1>8, <2>1
  <2>6. entry.depth + 1 <= MaxDepth
    BY <1>6, <1>8 DEF TooDeep
  <2>7. \A i, j \in DOMAIN u : u[i].url = u[j].url => i = j
    BY <1>4, <2>2, ZenonT(30)
  <2>8. \A i \in DOMAIN u :
            /\ u[i].depth = entry.depth + 1 /\ u[i].depth <= MaxDepth
            /\ u[i].url \notin visited \cup queued
    BY <1>4, <2>2, <2>6, ZenonT(30)
  <2>9. \A i \in DOMAIN page.links : page.links[i] \in visited \cup queued'
    BY <1>4, <2>5
  <2> QED
    BY <2>3, <2>4, <2>5, <2>7, <2>8, <2>9, ZenonT(30)
<1> QED
  BY <1>7, <1>8

(* The frontier stays in order and free of duplicates when links join it.  *)
LEMMA JoinKeepsFrontier ==
    ASSUME CrawlInv, RecordPage
    PROVE  frontier' \in Seq(Entry) /\ BreadthFirst' /\ FrontierOK'
<1>1. PICK u \in Seq(Entry) :
        /\ frontier' = frontier \o u
        /\ queued' = queued \cup {u[i].url : i \in DOMAIN u}
        /\ \A i \in DOMAIN u :
              /\ u[i].depth = entry.depth + 1 /\ u[i].depth <= MaxDepth
              /\ u[i].url \notin visited \cup queued
        /\ \A i, j \in DOMAIN u : u[i].url = u[j].url => i = j
  BY LinksJoin
<1>2. pc = "page" /\ pc' = "select" /\ entry' = entry /\ Attempted
  BY DEF RecordPage
<1>3. frontier \in Seq(Entry)
  BY DEF CrawlInv, TypeOK
<1>4. PICK t, n : t = frontier' /\ n = Len(frontier)
  BY ZenonT(30)
<1>5. /\ t \in Seq(Entry) /\ n \in Nat /\ Len(u) \in Nat
      /\ DOMAIN frontier = 1..n /\ DOMAIN u = 1..Len(u)
      /\ DOMAIN t = 1..(n + Len(u))
      /\ \A i \in DOMAIN frontier : i \in DOMAIN t /\ t[i] = frontier[i]
      /\ \A i \in DOMAIN t : i \in DOMAIN frontier
                             \/ (i > n /\ i - n \in DOMAIN u
                                 /\ t[i] = u[i - n])
  BY ONLY <1>1, <1>3, <1>4, ConcatIs
<1>6. \A i \in DOMAIN frontier : frontier[i].depth \in Nat
  BY Elements DEF CrawlInv
<1>7. entry.depth \in Nat /\ MaxDepth \in Nat
  BY CrawlConfigAssumption DEF CrawlInv, TypeOK, Entry
<1>8. /\ \A i, j \in DOMAIN frontier :
            i < j => frontier[i].depth <= frontier[j].depth
      /\ \A i \in DOMAIN frontier :
            frontier[i].depth \in entry.depth..(entry.depth + 1)
                /\ frontier[i].depth <= MaxDepth
  BY DEF CrawlInv, BreadthFirst
<1>9. ASSUME NEW i \in DOMAIN t
      PROVE  /\ t[i].depth \in entry.depth..(entry.depth + 1)
             /\ t[i].depth <= MaxDepth
             /\ i \notin DOMAIN frontier => t[i].depth = entry.depth + 1
  <2>1. CASE i \in DOMAIN frontier
    BY <1>5, <1>8, <2>1, ZenonT(30)
  <2>2. CASE i \notin DOMAIN frontier
    BY <1>1, <1>5, <1>7, <2>2
  <2> QED
    BY <2>1, <2>2, ZenonT(30)
<1>10. ASSUME NEW i \in DOMAIN t, NEW j \in DOMAIN t, i < j
       PROVE  t[i].depth <= t[j].depth
  <2>1. CASE j \in DOMAIN frontier
    <3>1. i \in DOMAIN frontier
      BY <1>5, <1>10, <2>1
    <3> QED
      BY <1>5, <1>8, <1>10, <2>1, <3>1, ZenonT(30)
  <2>2. CASE j \notin DOMAIN frontier
    <3>1. t[j].depth = entry.depth + 1
          /\ t[i].depth \in entry.depth..(entry.depth + 1)
      BY <1>9, <2>2, ZenonT(30)
    <3> QED
      BY <1>7, <3>1
  <2> QED
    BY <2>1, <2>2
<1>11. BreadthFirst'
  BY <1>2, <1>4, <1>9, <1>10, ZenonT(30) DEF BreadthFirst
<1>12. FrontierOK /\ Fetching
  BY <1>2, ZenonT(30) DEF CrawlInv, Fetching
<1>13. \A i \in DOMAIN t :
         \/ i \in DOMAIN frontier /\ t[i] = frontier[i]
         \/ /\ i \notin DOMAIN frontier
            /\ i - n \in DOMAIN u /\ t[i] = u[i - n]
            /\ t[i].url \notin queued /\ t[i].url \in queued'
  BY <1>1, <1>5
<1>14. ASSUME NEW i \in DOMAIN t, NEW j \in DOMAIN t, t[i].url = t[j].url
       PROVE  i = j
  <2>1. CASE i \in DOMAIN frontier /\ j \in DOMAIN frontier
    BY <1>12, <1>13, <1>14, <2>1, ZenonT(30) DEF FrontierOK
  <2>2. CASE i \notin DOMAIN frontier /\ j \notin DOMAIN frontier
    <3>1. i - n \in DOMAIN u /\ j - n \in DOMAIN u
          /\ u[i - n].url = u[j - n].url
      BY <1>13, <1>14, <2>2, ZenonT(30)
    <3>2. i - n = j - n
      BY <1>1, <3>1, ZenonT(30)
    <3>3. i \in Int /\ j \in Int
      BY <1>5
    <3> QED
      BY <1>5, <3>2, <3>3
  <2>3. CASE \/ i \in DOMAIN frontier /\ j \notin DOMAIN frontier
             \/ i \notin DOMAIN frontier /\ j \in DOMAIN frontier
    BY <1>12, <1>13, <1>14, <2>3, ZenonT(30) DEF FrontierOK
  <2> QED
    BY <2>1, <2>2, <2>3, ZenonT(30)
<1>15. \A k \in DOMAIN attempts' :
         attempts'[k].url = entry.url \/
             \E i \in DOMAIN attempts : attempts'[k].url = attempts[i].url
  BY <1>2, AttemptIsNew, ZenonT(30)
<1>16. \A k \in DOMAIN attempts' :
         /\ attempts'[k].url \in queued
         /\ \A i \in DOMAIN frontier : frontier[i].url # attempts'[k].url
  BY <1>12, <1>15, ZenonT(30) DEF FrontierOK
<1>17. \A k \in DOMAIN attempts' :
         /\ attempts'[k].url \in queued'
         /\ \A i \in DOMAIN t : t[i].url # attempts'[k].url
  BY <1>1, <1>13, <1>16
<1>18. \A i \in DOMAIN t : t[i].url \in queued'
  BY <1>1, <1>12, <1>13, ZenonT(30) DEF FrontierOK
<1>19. entry.url \in queued' /\ entry.depth <= MaxDepth
  BY <1>1, <1>12 DEF FrontierOK
<1>20. FrontierOK'
  BY <1>2, <1>4, <1>14, <1>17, <1>18, <1>19, ZenonT(30) DEF FrontierOK, Fetching
<1> QED
  BY <1>4, <1>5, <1>11, <1>20, ZenonT(30)

(* The counts of the result when a page has been recorded.                 *)
LEMMA RecordPageResult ==
    ASSUME CrawlInv, RecordPage, frontier' \in Seq(Entry)
    PROVE  /\ result' \in CrawlResult
           /\ result'.category = Worst(result.category, page.category)
           /\ result'.parsed = IF page.parsed THEN result.parsed + 1
                               ELSE result.parsed
           /\ IsFiniteSet(seen') /\ Cardinality(seen') = result'.candidates
           /\ result'.budget = (result.budget \/ Cut)
<1>1. PICK r : r = Failed(result)
  OBVIOUS
<1>2. /\ r \in CrawlResult
      /\ r.category = Worst(result.category, page.category)
      /\ r.parsed = result.parsed /\ r.candidates = result.candidates
      /\ r.budget = result.budget
  BY <1>1, FailedIs, ZenonT(30)
<1>3. /\ IsFiniteSet(seen) /\ IsFiniteSet(page.origins)
      /\ Cardinality(seen) = result.candidates
  BY DEF CrawlInv, TypeOK, EachPageOnce
<1>4. IsFiniteSet(Fresh) /\ Cardinality(Fresh) \in Nat /\ seen \cap Fresh = {}
  BY <1>3, FS_Difference, FS_CardinalityType, ZenonT(30) DEF Fresh
<1>5. IsFiniteSet(seen \cup Fresh)
      /\ Cardinality(seen \cup Fresh) = result.candidates + Cardinality(Fresh)
  <2>1. PICK F : F = Fresh
    OBVIOUS
  <2>2. /\ IsFiniteSet(seen \cup F)
        /\ Cardinality(seen \cup F) =
              Cardinality(seen) + Cardinality(F) - Cardinality(seen \cap F)
    BY ONLY <1>3, <1>4, <2>1, FS_Union, ZenonT(30)
  <2>3. Cardinality({}) = 0
    BY FS_EmptySet
  <2>4. Cardinality(seen) \in Nat
    BY <1>3, FS_CardinalityType
  <2>5. seen \cap F = {}
    BY <1>4, <2>1, Zenon
  <2>6. Cardinality(seen \cap F) = 0
    BY ONLY <2>3, <2>5
  <2>7. Cardinality(F) \in Nat /\ Cardinality(F) = Cardinality(Fresh)
    BY <1>4, <2>1
  <2>8. Cardinality(seen \cup F) = Cardinality(seen) + Cardinality(F)
    BY ONLY <2>2, <2>4, <2>6, <2>7
  <2> QED
    BY ONLY <1>3, <2>1, <2>2, <2>7, <2>8, ZenonT(30)
<1>6. PICK a, c, b, m :
        /\ a = IF page.parsed THEN r.parsed + 1 ELSE r.parsed
        /\ c = r.candidates + Cardinality(Fresh)
        /\ b = (r.budget \/ Cut)
        /\ m = IF page.parsed THEN Len(frontier') ELSE r.remaining
  BY ZenonT(30)
<1>7. result' = [r EXCEPT !.parsed = a, !.candidates = c, !.budget = b,
                          !.remaining = m]
  BY <1>1, <1>6, Zenon DEF RecordPage
<1>8. a \in Nat /\ c \in Nat /\ m \in Nat
  <2>1. Len(frontier') \in Nat
    BY LenProperties
  <2> QED
    BY <1>2, <1>4, <1>6, <2>1 DEF CrawlResult
<1>9. b \in BOOLEAN
  BY <1>6, Zenon
<1>10. /\ result' \in CrawlResult /\ result'.category = r.category
       /\ result'.parsed = a /\ result'.candidates = c /\ result'.budget = b
  BY ONLY <1>2, <1>7, <1>8, <1>9, ZenonT(30) DEF CrawlResult
<1>11. result'.budget = (result.budget \/ Cut)
  BY <1>2, <1>6, <1>10, Zenon
<1>12. seen' = seen \cup Fresh
  BY DEF RecordPage
<1> QED
  BY <1>2, <1>5, <1>6, <1>10, <1>11, <1>12, ZenonT(30)

LEMMA RecordPageKeeps == CrawlInv /\ RecordPage => CrawlInv'
<1> SUFFICES ASSUME CrawlInv, RecordPage
             PROVE  CrawlInv'
  OBVIOUS
<1>1. /\ pc = "page" /\ pc' = "select" /\ Attempted
      /\ seen' = seen \cup Fresh
      /\ parsedAt' = IF page.parsed
                     THEN [p \in DOMAIN parsedAt \cup {page.url} |->
                             IF p = page.url THEN entry.depth ELSE parsedAt[p]]
                     ELSE parsedAt
      /\ UNCHANGED <<site, visited, entry, fetch, page, stopped>>
  BY DEF RecordPage
<1>2. frontier' \in Seq(Entry) /\ BreadthFirst' /\ FrontierOK'
  BY JoinKeepsFrontier
<1>3. /\ result' \in CrawlResult
      /\ result'.category = Worst(result.category, page.category)
      /\ result'.parsed = IF page.parsed THEN result.parsed + 1
                          ELSE result.parsed
      /\ IsFiniteSet(seen') /\ Cardinality(seen') = result'.candidates
      /\ result'.budget = (result.budget \/ Cut)
  BY <1>2, RecordPageResult
<1>4. PICK u \in Seq(Entry) :
        /\ frontier' = frontier \o u
        /\ queued' = queued \cup {u[i].url : i \in DOMAIN u}
        /\ ~Cut => \A i \in DOMAIN page.links :
                      page.links[i] \in visited \cup queued'
  BY LinksJoin, ZenonT(30)
<1>5. /\ DOMAIN parsedAt' = IF page.parsed THEN DOMAIN parsedAt \cup {page.url}
                            ELSE DOMAIN parsedAt
      /\ parsedAt' \in [DOMAIN parsedAt' -> Nat]
  BY <1>1, ZenonT(30) DEF CrawlInv, TypeOK, Entry
<1>6. /\ DOMAIN parsedAt \subseteq visited /\ IsFiniteSet(DOMAIN parsedAt)
      /\ page.parsed => page.url \in visited /\ page.url \notin DOMAIN parsedAt
  BY <1>1 DEF CrawlInv, VisitedOK, PageOK
<1>7. /\ DOMAIN parsedAt' \subseteq visited /\ IsFiniteSet(DOMAIN parsedAt')
      /\ Cardinality(DOMAIN parsedAt') =
            IF page.parsed THEN Cardinality(DOMAIN parsedAt) + 1
            ELSE Cardinality(DOMAIN parsedAt)
  BY <1>5, <1>6, FS_AddElement
<1>8. queued' \subseteq Pages
  <2>1. \A i \in DOMAIN u : u[i].url \in Pages
    <3>1. \A i \in DOMAIN u : u[i] \in Entry
      BY ONLY u \in Seq(Entry)
    <3> QED
      BY <3>1 DEF Entry
  <2>2. queued \subseteq Pages
    BY DEF CrawlInv, TypeOK
  <2> QED
    BY <1>4, <2>1, <2>2
<1>9. TypeOK'
  <2>1. attempts' \in Seq(PageAttempt)
    BY <1>1, AttemptAdded
  <2>2. visited \subseteq Pages
    BY DEF CrawlInv, TypeOK
  <2>3. DOMAIN parsedAt' \subseteq Pages
    BY <1>7, <2>2, Zenon
  <2> QED
    BY <1>1, <1>2, <1>3, <1>5, <1>8, <2>1, <2>3, ZenonT(30) DEF CrawlInv, TypeOK
<1>10. EachPageOnce'
  <2>1. /\ \A i, j \in DOMAIN attempts' :
              i # j => attempts'[i].url # attempts'[j].url
        /\ \A i, j \in DOMAIN attempts' :
              i # j /\ attempts'[i].outcome = "complete"
                    /\ attempts'[j].outcome = "complete"
              => attempts'[i].last # attempts'[j].last
    BY <1>1, AttemptIsNew, ZenonT(30)
  <2>2. Cardinality(DOMAIN parsedAt') = result'.parsed
    <3>1. stopped = "no"
      BY <1>1 DEF CrawlInv, NothingLost
    <3>2. Cardinality(DOMAIN parsedAt) = result.parsed
      BY <3>1 DEF CrawlInv, EachPageOnce
    <3> QED
      BY <1>3, <1>7, <3>2
  <2> QED
    BY <1>3, <2>1, <2>2, ZenonT(30) DEF EachPageOnce
<1>11. FetchOK' /\ PageOK'
  BY <1>1 DEF FetchOK, PageOK
<1>12. VisitedOK'
  BY <1>1, <1>7, VisitedRecorded, ZenonT(30)
<1>13. CategoryOK'
  BY <1>1, <1>3, CategoryRecorded, ZenonT(30)
<1>14. NothingLost'
  <2>1. NothingLost /\ PageOK
    BY DEF CrawlInv
  <2>2. queued \subseteq queued' /\ seen \subseteq seen'
    BY <1>1, <1>4, ZenonT(30)
  <2>3. page.parsed => /\ page.links = site[page.url].to
                       /\ page.origins = site[page.url].origins
    BY <1>1, <2>1 DEF PageOK
  <2>4. \A p \in DOMAIN parsedAt' : site'[p].origins \subseteq seen'
    <3>1. page.origins \subseteq seen'
      BY <1>1 DEF Fresh
    <3> QED
      BY <1>1, <1>5, <2>1, <2>2, <2>3, <3>1, ZenonT(30) DEF NothingLost
  <2>5. ASSUME ~result'.budget
        PROVE  Closed(visited \cup queued)' /\ ~result.budget
    <3>1. ~Cut /\ ~result.budget
      BY <1>3, <2>5, ZenonT(30)
    <3>2. \A p \in DOMAIN parsedAt : \A i \in DOMAIN site[p].to :
            site[p].to[i] \in visited \cup queued'
      BY <2>1, <2>2, <3>1 DEF NothingLost, Closed
    <3>3. page.parsed => \A i \in DOMAIN site[page.url].to :
            site[page.url].to[i] \in visited \cup queued'
      BY <1>4, <2>3, <3>1, ZenonT(30)
    <3>4. \A p \in DOMAIN parsedAt' : \A i \in DOMAIN site[p].to :
            site[p].to[i] \in visited \cup queued'
      BY <1>5, <3>2, <3>3, ZenonT(30)
    <3> QED
      BY <1>1, <3>1, <3>4 DEF Closed
  <2>6. ASSUME ~result'.budget, result'.category = "none"
        PROVE  \A p \in queued' : p \in visited \/ InFrontier(p)'
    <3>1. result.category = "none" /\ page.category = "none"
      <4>1. result.category \in Categories /\ page.category \in Categories
        BY DEF CrawlInv, TypeOK, CrawlResult
      <4> QED
        BY <1>3, <2>6, <4>1, ZenonT(30) DEF Worst, Categories
    <3>2. entry.url \in visited
      BY <1>1, <2>1, <3>1 DEF PageOK
    <3>3. frontier \in Seq(Entry)
      BY DEF CrawlInv, TypeOK
    <3>4. PICK t : t = frontier'
      BY ZenonT(30)
    <3>5. /\ \A i \in DOMAIN frontier : i \in DOMAIN t /\ t[i] = frontier[i]
          /\ \A i \in DOMAIN u : Len(frontier) + i \in DOMAIN t
                                 /\ t[Len(frontier) + i] = u[i]
      BY ONLY <1>4, <3>3, <3>4, ConcatIs
    <3>6. ASSUME NEW p \in queued
          PROVE  p \in visited \/ InFrontier(p)'
      <4>1. p \in visited \/ InFrontier(p)
        BY <1>1, <2>1, <2>5, <2>6, <3>1, <3>2, ZenonT(30) DEF NothingLost
      <4> QED
        BY <3>4, <3>5, <4>1 DEF InFrontier
    <3>7. ASSUME NEW i \in DOMAIN u
          PROVE  InFrontier(u[i].url)'
      BY <3>4, <3>5 DEF InFrontier
    <3> QED
      BY <1>4, <3>6, <3>7, ZenonT(30)
  <2>7. stopped' = "no"
    BY <1>1, <2>1 DEF NothingLost
  <2> QED
    BY <1>1, <2>4, <2>5, <2>6, <2>7, ZenonT(30) DEF NothingLost
<1> QED
  BY <1>2, <1>9, <1>10, <1>11, <1>12, <1>13, <1>14, ZenonT(30) DEF CrawlInv

-----------------------------------------------------------------------------
(* The end of a crawl                                                      *)

(* The crawl returns an error, with or without the last attempt recorded.  *)
LEMMA StopKeeps ==
    ASSUME CrawlInv, NEW why \in {"error", "canceled"}, Return(why),
           result' \in CrawlResult,
           result'.candidates = result.candidates,
           result'.budget = result.budget,
           UNCHANGED attempts \/ (pc = "page" /\ Attempted)
    PROVE  CrawlInv'
<1>1. /\ pc' = "done" /\ stopped' = why
      /\ UNCHANGED <<site, frontier, queued, visited, seen, entry, fetch,
                     page, parsedAt>>
  BY DEF Return
<1>2. /\ attempts' \in Seq(PageAttempt)
      /\ \A i, j \in DOMAIN attempts' :
            i # j => attempts'[i].url # attempts'[j].url
      /\ \A i, j \in DOMAIN attempts' :
            i # j /\ attempts'[i].outcome = "complete"
                  /\ attempts'[j].outcome = "complete"
            => attempts'[i].last # attempts'[j].last
      /\ \A k \in DOMAIN attempts' :
            /\ attempts'[k].url \in queued
            /\ \A i \in DOMAIN frontier : frontier[i].url # attempts'[k].url
      /\ \A k \in DOMAIN attempts' :
            attempts'[k].outcome = "failed" <=> attempts'[k].category # "none"
      /\ \A k \in DOMAIN attempts' :
            attempts'[k].outcome = "complete" => attempts'[k].last \in visited
  <2>1. CASE UNCHANGED attempts
    BY <2>1 DEF CrawlInv, TypeOK, EachPageOnce, FrontierOK, CategoryOK,
                VisitedOK
  <2>2. CASE pc = "page" /\ Attempted
    <3>1. FrontierOK /\ Fetching
      BY <2>2, ZenonT(30) DEF CrawlInv, Fetching
    <3>2. \A k \in DOMAIN attempts' :
            attempts'[k].url = entry.url \/
                \E i \in DOMAIN attempts : attempts'[k].url = attempts[i].url
      BY <2>2, AttemptIsNew, ZenonT(30)
    <3>3. \A k \in DOMAIN attempts' :
            /\ attempts'[k].url \in queued
            /\ \A i \in DOMAIN frontier : frontier[i].url # attempts'[k].url
      BY <3>1, <3>2 DEF FrontierOK
    <3> QED
      BY <2>2, <3>3, AttemptAdded, AttemptIsNew, ZenonT(30)
  <2> QED
    BY <2>1, <2>2, ZenonT(30)
<1>3. TypeOK'
  BY <1>1, <1>2, ZenonT(30) DEF CrawlInv, TypeOK
<1>4. BreadthFirst'
  BY <1>1 DEF CrawlInv, BreadthFirst
<1>5. EachPageOnce'
  <2>1. Cardinality(seen) = result.candidates
    BY DEF CrawlInv, EachPageOnce
  <2> QED
    BY <1>1, <1>2, <2>1, ZenonT(30) DEF EachPageOnce
<1>6. FrontierOK'
  BY <1>1, <1>2, ZenonT(30) DEF CrawlInv, FrontierOK, Fetching
<1>7. FetchOK' /\ PageOK'
  BY <1>1, ZenonT(30) DEF FetchOK, PageOK
<1>8. VisitedOK'
  BY <1>1, <1>2, ZenonT(30) DEF CrawlInv, VisitedOK
<1>9. NothingLost'
  BY <1>1, ZenonT(30) DEF CrawlInv, NothingLost, Closed
<1>10. CategoryOK'
  BY <1>1, <1>2 DEF CategoryOK
<1> QED
  BY <1>3, <1>4, <1>5, <1>6, <1>7, <1>8, <1>9, <1>10, ZenonT(30) DEF CrawlInv

LEMMA ErrorsKeep ==
    CrawlInv /\ (TelemetryFails \/ CandidatesFail \/ FinalizeFails \/ Cancel)
        => CrawlInv'
<1>1. ASSUME CrawlInv, TelemetryFails
      PROVE  CrawlInv'
  <2>1. PICK why \in {"error", "canceled"} : Return(why)
    BY <1>1 DEF TelemetryFails
  <2>2. result' = Failed(result) /\ UNCHANGED attempts
    BY <1>1 DEF TelemetryFails
  <2>3. /\ result' \in CrawlResult /\ result'.candidates = result.candidates
        /\ result'.budget = result.budget
    BY <1>1, <2>2, FailedIs
  <2> QED
    BY <1>1, <2>1, <2>2, <2>3, StopKeeps
<1>2. ASSUME CrawlInv, CandidatesFail
      PROVE  CrawlInv'
  <2>1. PICK why \in {"error", "canceled"} : Return(why)
    BY <1>2 DEF CandidatesFail
  <2>2. PICK r, n : r = Failed(result)
                    /\ n = IF page.parsed THEN r.parsed + 1 ELSE r.parsed
    OBVIOUS
  <2>3. /\ r \in CrawlResult /\ r.candidates = result.candidates
        /\ r.budget = result.budget
    BY <1>2, <2>2, FailedIs
  <2>4. result' = [r EXCEPT !.parsed = n] /\ pc = "page" /\ Attempted
    BY <1>2, <2>2 DEF CandidatesFail
  <2>5. n \in Nat
    BY <2>2, <2>3 DEF CrawlResult
  <2>6. /\ result' \in CrawlResult /\ result'.candidates = result.candidates
        /\ result'.budget = result.budget
    BY <2>3, <2>4, <2>5 DEF CrawlResult
  <2> QED
    BY <1>2, <2>1, <2>4, <2>6, StopKeeps
<1>3. ASSUME CrawlInv, FinalizeFails \/ Cancel
      PROVE  CrawlInv'
  <2>1. PICK why \in {"error", "canceled"} : Return(why)
    BY <1>3 DEF FinalizeFails, Cancel
  <2>2. UNCHANGED <<result, attempts>> /\ result \in CrawlResult
    BY <1>3 DEF FinalizeFails, Cancel, CrawlInv, TypeOK
  <2> QED
    BY <1>3, <2>1, <2>2, StopKeeps
<1> QED
  BY <1>1, <1>2, <1>3

LEMMA FinalizeKeeps == CrawlInv /\ FinalizeCandidates => CrawlInv'
<1> SUFFICES ASSUME CrawlInv, FinalizeCandidates
             PROVE  CrawlInv'
  OBVIOUS
<1>1. /\ pc = "finalize" /\ pc' = "done" /\ stopped' = "no"
      /\ UNCHANGED <<site, frontier, queued, visited, seen, entry, fetch,
                     page, parsedAt, result, attempts>>
  BY ZenonT(30) DEF FinalizeCandidates, Return
<1>2. stopped = "no"
  BY <1>1 DEF CrawlInv, NothingLost
<1>3. TypeOK'
  BY <1>1, ZenonT(30) DEF CrawlInv, TypeOK
<1>4. BreadthFirst' /\ FrontierOK'
  BY <1>1, ZenonT(30) DEF CrawlInv, BreadthFirst, FrontierOK, Fetching
<1>5. EachPageOnce' /\ VisitedOK' /\ CategoryOK'
  BY <1>1, <1>2, AttemptsUntouched, ZenonT(30)
<1>6. FetchOK' /\ PageOK'
  BY <1>1, ZenonT(30) DEF FetchOK, PageOK
<1>7. NothingLost'
  BY <1>1, <1>2 DEF CrawlInv, NothingLost, Closed, InFrontier, Fetching
<1> QED
  BY <1>3, <1>4, <1>5, <1>6, <1>7, ZenonT(30) DEF CrawlInv

(* A stuttering step.                                                      *)
LEMMA StutterKeeps == CrawlInv /\ UNCHANGED vars => CrawlInv'
<1> SUFFICES ASSUME CrawlInv, UNCHANGED vars
             PROVE  CrawlInv'
  OBVIOUS
<1> USE DEF vars
<1>1. TypeOK' /\ BreadthFirst' /\ EachPageOnce'
  BY ZenonT(30) DEF CrawlInv, TypeOK, BreadthFirst, EachPageOnce
<1>2. FrontierOK' /\ FetchOK' /\ PageOK'
  BY ZenonT(30) DEF CrawlInv, FrontierOK, FetchOK, PageOK, Fetching
<1>3. VisitedOK' /\ CategoryOK'
  BY ZenonT(30) DEF CrawlInv, VisitedOK, SeenAt, CategoryOK
<1>4. NothingLost'
  BY DEF CrawlInv, NothingLost, Closed, InFrontier, Fetching
<1> QED
  BY <1>1, <1>2, <1>3, <1>4 DEF CrawlInv

-----------------------------------------------------------------------------
(* The theorems                                                            *)

LEMMA CrawlInductive == Spec => []CrawlInv
<1>1. CrawlInv /\ [Next]_vars => CrawlInv'
  BY SkipKeeps, BudgetKeeps, SelectKeeps, ExhaustedKeeps, GetKeeps,
     RecordOnlyKeeps, RecordPageKeeps, ErrorsKeep, FinalizeKeeps,
     StutterKeeps, ZenonT(30) DEF Next
<1> QED
  BY InitCrawl, <1>1, PTL DEF Spec

(* For every site and every limit, the frontier of Crawl stays breadth     *)
(* first, every page is selected and parsed at most once, counts are       *)
(* exact, and nothing counts as visited whose content was not seen.        *)
THEOREM CrawlAccounts == Spec => []PagesAccounted
<1>1. CrawlInv => PagesAccounted
  BY ZenonT(30) DEF CrawlInv, PagesAccounted, VisitedMeansSeen, VisitedOK, SeenAt
<1> QED
  BY CrawlInductive, <1>1, PTL

(* For every site and every limit, a crawl that reports complete has       *)
(* fetched every link of every parsed page and recorded every foreign      *)
(* origin on them.                                                         *)
THEOREM CompleteCrawlsMissNothing == Spec => []CompleteMeansAll
<1>1. ASSUME CrawlInv, pc = "done", Outcome[1] = "complete"
      PROVE  /\ Closed(visited)
             /\ \A p \in DOMAIN parsedAt : site[p].origins \subseteq seen
  <2>1. stopped = "no" /\ ~result.budget /\ result.category = "none"
    <3>1. stopped \in {"no", "error", "canceled"}
      BY <1>1, ZenonT(30) DEF CrawlInv, TypeOK
    <3> QED
      BY <1>1, <3>1 DEF Outcome
  <2>2. /\ Closed(visited \cup queued)
        /\ \A p \in queued : p \in visited \/ InFrontier(p)
        /\ frontier = <<>>
        /\ \A p \in DOMAIN parsedAt : site[p].origins \subseteq seen
    BY <1>1, <2>1 DEF CrawlInv, NothingLost, Fetching
  <2>3. \A p \in queued : p \in visited
    BY <2>2 DEF InFrontier
  <2> QED
    BY <2>2, <2>3 DEF Closed
<1>2. CrawlInv => CompleteMeansAll
  BY <1>1, ZenonT(30) DEF CompleteMeansAll
<1> QED
  BY CrawlInductive, <1>2, PTL

(* For every site and every limit, the result is transient exactly when a  *)
(* page failed transiently on its last attempt, and none exactly when no   *)
(* page failed.                                                            *)
THEOREM TransientFailuresKept == Spec => []TransientKept
<1>1. CrawlInv => TransientKept
  BY DEF CrawlInv, TransientKept, CategoryOK
<1> QED
  BY CrawlInductive, <1>1, PTL

=============================================================================
