---------------------------- MODULE ReportPages ----------------------------
(***************************************************************************)
(* A client that reads a report page by page (internal/reporting) while    *)
(* the services change what it is about.  Every page is a query of its     *)
(* own; a cursor, encoded by one request and decoded by the next, is all   *)
(* that connects them.                                                     *)
(*                                                                         *)
(* A row is known by its id: an origin, a number of the database or the    *)
(* sequence number of a page.  Sources and pages are ordered by it, the    *)
(* queue by available_at and origin, and the others newest first.          *)
(***************************************************************************)
EXTENDS Integers, Sequences, FiniteSets, SequencesExt

CONSTANTS
    Kinds,
    Ids, Times,  \* positive numbers
    Legacy,      \* ids of stored origins that origin.Parse now rejects
    Limits,
    Run,         \* the crawl that is asked for its pages
    MaxChanges   \* bound on changes while the report is read

VARIABLES
    kind, limit,  \* of the report; do not change
    rows,         \* what the table holds: [id, at, matches]
    cursor,
    seen,         \* the items of all pages so far
    stage,
    stable,       \* ids that were there, and as they are, at the first page
    changes

vars == <<kind, limit, rows, cursor, seen, stage, stable, changes>>

ById == kind \in {"sources", "crawl_pages"}
NewestFirst == kind \in {"crawls", "queue_events", "audit"}

Row == [id : Ids, at : Times, matches : BOOLEAN]
RowOf(id) == CHOOSE r \in rows : r.id = id
Present == {r.id : r \in rows}

(* Version is always 1; a field that is left out is 0.                     *)
NoCursor == [kind |-> "none", origin |-> 0, at |-> 0, id |-> 0]

TypeOK ==
    /\ kind \in Kinds /\ limit \in Limits
    /\ rows \subseteq Row /\ Cardinality(Present) = Cardinality(rows)
    /\ stage \in {"reading", "done", "refused"}
    /\ stable \subseteq Ids /\ changes \in 0..MaxChanges

-----------------------------------------------------------------------------
(* Cursors: sourceNextCursor and its likes, decodeCursor and its likes     *)

(* Mutant: the time of a cursor is formatted without its fraction.         *)
FormattedSeconds(at) == (at \div 2) * 2

(* RFC3339Nano keeps every digit.                                          *)
Formatted(at) == at

(* The cursor that a page of report k ends with.                           *)
Encoded(k, run, r) ==
    CASE k = "sources" -> [NoCursor EXCEPT !.kind = k, !.origin = r.id]
      [] k = "crawl_pages" ->
             [NoCursor EXCEPT !.kind = k, !.origin = run, !.id = r.id]
      [] k = "queue" ->
             [NoCursor EXCEPT !.kind = k, !.origin = r.id,
                              !.at = Formatted(r.at)]
      [] OTHER ->
             [NoCursor EXCEPT !.kind = k, !.id = r.id, !.at = Formatted(r.at)]

(* canonicalCursorOrigin: nothing is 0.                                    *)
CanonicalOrigin(id) == id > 0 /\ id \notin Legacy

Decodes(c) ==
    \/ c = NoCursor
    \/ /\ c.kind = kind
       /\ CASE kind = "sources" -> c.at = 0 /\ c.id = 0 /\ CanonicalOrigin(c.origin)
            [] kind = "crawl_pages" -> c.origin = Run /\ c.at = 0 /\ c.id > 0
            [] kind = "queue" ->
                   c.id = 0 /\ c.at > 0 /\ CanonicalOrigin(c.origin)
            [] NewestFirst -> c.origin = 0 /\ c.id > 0 /\ c.at > 0

-----------------------------------------------------------------------------
Tables == {t \in SUBSET {r \in Row : r.matches} :
               \A r, s \in t : r.id = s.id => r = s}

(* Cursors of other reports, or of other crawls.                           *)
Foreign ==
    {Encoded(k, run, r) : k \in Kinds, run \in {Run, Run + 1}, r \in Row}
        \ {Encoded(kind, Run, r) : r \in Row}

Init ==
    /\ kind \in Kinds /\ limit \in Limits
    /\ rows \in Tables
    /\ ById => \A r, s \in rows : r.at = s.at
    /\ stable = Present
    /\ cursor \in {NoCursor} \cup Foreign
    /\ seen = <<>> /\ stage = "reading" /\ changes = 0

-----------------------------------------------------------------------------
(* SourcesPage, CrawlsPage, QueuePage, QueueEventsPage, AuditsPage and     *)
(* CrawlPage                                                               *)

Less(at1, id1, at2, id2) == at1 < at2 \/ (at1 = at2 /\ id1 < id2)

Before(r, s) ==
    CASE ById -> r.id < s.id
      [] kind = "queue" -> Less(r.at, r.id, s.at, s.id)
      [] NewestFirst -> Less(s.at, s.id, r.at, r.id)

Beyond(r, c) ==
    CASE c = NoCursor -> TRUE
      [] kind = "sources" -> r.id > c.origin
      [] kind = "crawl_pages" -> r.id > c.id
      [] kind = "queue" -> Less(c.at, c.origin, r.at, r.id)
      [] NewestFirst -> Less(r.at, r.id, c.at, c.id)

Queried == SetToSortSeq({r \in rows : r.matches /\ Beyond(r, cursor)}, Before)

(* One row more than the limit is fetched, to see whether there is more.   *)
Fetched == SubSeq(Queried, 1, IF Len(Queried) < limit + 1 THEN Len(Queried)
                              ELSE limit + 1)

NextPage ==
    /\ stage = "reading" /\ Decodes(cursor)
    /\ IF Len(Fetched) <= limit
       THEN /\ seen' = seen \o Fetched /\ stage' = "done"
            /\ UNCHANGED cursor
       ELSE /\ seen' = seen \o SubSeq(Fetched, 1, limit)
            /\ cursor' = Encoded(kind, Run, Fetched[limit])
            /\ UNCHANGED stage
    /\ UNCHANGED <<kind, limit, rows, stable, changes>>

InvalidCursor ==
    /\ stage = "reading" /\ ~Decodes(cursor)
    /\ stage' = "refused"
    /\ UNCHANGED <<kind, limit, rows, cursor, seen, stable, changes>>

-----------------------------------------------------------------------------
(* What the services do meanwhile.                                         *)

Change(id, table) ==
    /\ stage = "reading" /\ seen # <<>> /\ changes < MaxChanges
    /\ rows' = table
    /\ stable' = stable \ {id} /\ changes' = changes + 1
    /\ UNCHANGED <<kind, limit, cursor, seen, stage>>

OfOrigins == kind \in {"sources", "queue"}

(* Nothing stores an origin any more that does not parse.                  *)
Insert(r) ==
    /\ r.id \notin Present
    /\ ~(OfOrigins /\ r.id \in Legacy)
    /\ Change(r.id, rows \cup {r})

(* Audit events are never removed, and pages only together with the crawl. *)
Delete(id) ==
    /\ kind \notin {"audit", "crawl_pages"} /\ id \in Present
    /\ Change(id, rows \ {RowOf(id)})

(* A row comes to match the filters, or no longer does; in the queue it    *)
(* may also become available at another time.                              *)
Update(r) ==
    /\ kind \notin {"audit", "queue_events", "crawl_pages"} /\ r.id \in Present
    /\ r # RowOf(r.id) /\ (kind # "queue" => r.at = RowOf(r.id).at)
    /\ Change(r.id, (rows \ {RowOf(r.id)}) \cup {r})

Next ==
    \/ NextPage \/ InvalidCursor
    \/ \E r \in Row : Insert(r) \/ Update(r)
    \/ \E id \in Ids : Delete(id)

Spec == Init /\ [][Next]_vars

-----------------------------------------------------------------------------
(* Whatever is inserted, changed and removed between the pages, the pages  *)
(* together show every row that matched from the first page to the last    *)
(* and was not touched, nothing twice and all in order.  A cursor of       *)
(* another report is refused.  One that a page gave out is accepted by the *)
(* next, unless that page ended at an origin of an older crawl that does   *)
(* not parse any more: there the report cannot be read to its end.         *)
PagesComplete ==
    /\ stage = "refused" =>
          \/ cursor \in Foreign
          \/ OfOrigins /\ seen # <<>> /\ Last(seen).id \in Legacy
    /\ cursor \in Foreign => seen = <<>>
    /\ \A i, j \in DOMAIN seen : i < j => Before(seen[i], seen[j])
    /\ stage = "done" => stable \subseteq {seen[i].id : i \in DOMAIN seen}

=============================================================================
