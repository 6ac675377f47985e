# Verification of JoshBot

TLA+ models of JoshBot, TLC configurations that check them on small instances,
and TLAPS proofs for instances of any size.

## The system

JoshBot finds web origins and checks whether they publish a valid declaration.
Its processes share one PostgreSQL database and talk to each other only through
it; the registry export and its publication also share a directory.

| Part | Code | Modules |
| --- | --- | --- |
| Verification queue, probe admission | `internal/store/queue.go`, `queue_abandon.go`, `discovery.go` | `VerificationQueue` |
| Verification worker | `internal/worker` | `VerificationWorker` |
| Declaration verifier, retry policy | `internal/declaration`, `internal/retry` | `DeclarationVerifier`, `RetryIntervals` |
| Source lease, crawl runner | `internal/store/discovery_lease*.go`, `internal/discovery/crawl_runner.go` | `DiscoveryLease`, `ExclusiveLease` |
| Crawler | `internal/discovery/crawler.go` | `Crawler` |
| Automatic admission | `internal/store/discovery.go`, `cmd/joshbot/discovery.go` | `Admission` |
| Source scheduling, block policy | `internal/store/discovery.go`, `crawl_block_policy.go` | `SourcePolicy` |
| Robots checker, request scheduler | `internal/robots` | `RobotsChecker`, `RobotsParse`, `RobotsMatch` |
| Records and retention | `internal/store` | `ParticipationHistory` |
| Registry export and publication | `cmd/joshbot/registry_interval.go`, `internal/publicdata` | `RegistryExport`, `SnapshotFiles` |
| GitHub publisher | `internal/githubpublish` | `Publisher`, `PublicationTarget` |
| Service heartbeat | `cmd/joshbot/service_heartbeat.go`, `internal/store` | `ServiceHeartbeat` |
| Reports | `internal/reporting`, `internal/store` | `ReportPages` |

A crawl runner leases a source, the crawler walks its pages through the robots
checker, and the candidates that it finds become probes in the verification
queue. Workers take them from there and record what they saw. The records
decide which origins are sources of further crawls, and what the registry shows;
exporter and publisher bring that to a Git branch.

`PROJECT.json` lists every part with its status, the source lines behind every
definition, and the hazards of the code.

## The models

In all of them a transaction of the database is one step. Where the code reads
something in one statement and uses it in another one, or outside the
transaction, the model has two steps, and others act in between. A process may
stop between any two steps; a call may commit and its reply be lost.

**VerificationQueue.** `queue` is the table `verification_queue`, with
`AbsentRow` for an origin that has no row; `misses`, `facts`, `scheduled` and
`discovered` are what the store keeps beside it; `lease` and `read` are a
worker's `Lease` value and the clock that it read for the call it is making;
`batch` and `demand` are calls between two steps; `history` is a ghost that
counts claims. Every method of the queue is an action of the same name, preceded
by `ReadClock`. `OthersActive` stands for `SKIP LOCKED`: while another call is
under way any eligible row may be the first one that is not locked. A worker may
repeat the calls on its lease and make them in any order, which includes what
`RunOnce` does. The advisory lock under which completion reads its clock is left
out, which only adds behaviours.

**DiscoveryLease.** `holder`, `left`, `due`, `fails` and `order` are the columns
of `discovery_source_state`, with times that count down; `run`, `pc`, `src` and
the others are a runner with its renewal goroutine. Generations are represented
by the holder of the newest claim; rows that `SKIP LOCKED` passes over are part
of `policy.open`. Completions are ordered by their commits. It implements
`ExclusiveLease`, which says what a lease promises: it is granted only when the
earlier one has expired; a client that works on a source it no longer holds does
not know; and only the client that both works on a source and holds it may
finish it, which alone changes its failure streak and ends the lease. A crash
and a refused completion drop the work and change nothing else.

**Crawler.** `Crawl` and `fetchPage` for one crawl: `frontier`, `queued`,
`visited` and `seen` are the variables of the code, `attempts` the recorded page
attempts, `parsedAt` a ghost. Pages are canonical URLs, and a site replies to a
page in the same way for the length of a crawl, apart from failures, which come
at any time. The links of a page are its reply.

**Admission.** Crawl runs record candidates, allocate batches of them, resolve
their names outside any transaction and complete the batch; meanwhile rules,
blocks, the pause, evidence and other runs change. `CompleteAutomaticCandidates`
runs under read committed, so it is not one step: `StartAdmission` reads the
exclusions and the pending probes, `ReadOrigin` reads the block of one origin of
the batch after the other, and the last step commits what follows from these
readings. The transaction holds the admission lock and the pause row from the
first of these steps, and the locks of its origins from the second. The
statement of `FinishCrawlSummary` is two steps, because its sub-selects see the
snapshot of the statement also when it had to wait for the row. `Abandon` is a
later claim or completion of the lease that closes the run and counts nothing.
Probes that wait for a later retry are left out, and a blocked candidate's probe
keeps its place.

**SourcePolicy.** Seeds, exact blocks, avoid rules and the blocks derived from
them, the recomputation with its unlocked read, the admission that reads the
exclusions before it promotes, and the repair of schedules. A host pattern is
the set of origins that it matches. `overtaken` is a ghost: origins that were
promoted although a rule had come to match them after it was read.

**RobotsChecker.** Goroutines call `Get`: they share a policy cache with one
fetch in flight per origin, and schedules for origins and groups of addresses in
tables of limited size, from which idle entries are evicted. A request that ends
releases its origin and then, in a critical section of its own, its
neighborhood; `leaving` is the neighborhood that a caller has yet to release.
Sites do not change their policy during a run. **RobotsParse** is the parser of
`robots.txt`, over lines whose words are abstract, with delays in numbers of
limited width; **RobotsMatch** is the matching loop of patterns, one step for
each iteration, over octets of every kind that the code tells apart, with the
percent-encoding normalised as the code does it before the loop.

**VerificationWorker.** `RunOnce` with its attempts, renewals, completion and
abandonment, where the worker's clock differs from the database's by a constant.
The verifier ends at the timeout of its context. **DeclarationVerifier** is
`Verify` over every answer that a site can give; malformed JSON is a declaration
without version, and Retry-After values are what `ParseRetryAfter` returns.
**RetryIntervals** has the delays of retries and reprobes with scaled durations
of limited width.

**ParticipationHistory.** The observations, what is derived from them for the
registry and for one origin, and the purge of old ones. `category` stands for
the failure category and its Retry-After.

**RegistryExport.** Exporter and publisher as processes over a directory, with
one step for each call of the file system, failures and kills at each of them.
Names are used again when nothing has them any longer, and a removal takes the
files of a directory in any order. A graceful stop is a failure and then a kill.
**SnapshotFiles** is the reader of a directory with its limits.

**Publisher.** `Publish` with one step for each request to GitHub; an update of
the branch is in flight until GitHub handles it, which may be after the caller
gave up, or never. Others push without force, and push none of the snapshots.
It implements `PublicationTarget`: a call is one atomic update of the branch or
none, never on top of a branch that is not managed, and answers are true.

**ServiceHeartbeat.** Start, ticker and stop of processes that share the row of
a service; a write may arrive after its caller's timeout. Readings of the clock
are distinct, and all processes read one clock. **ReportPages** has every report
that is read in pages, with insertions and deletions between two pages; filters
are one Boolean. `Legacy` are origins of older crawls, whose cursors the code
gives out and then refuses.

## What TLC checks

| Run | Instance | Properties |
| --- | --- | --- |
| `queue_leases` | one origin, two workers, time to 4, three claims | `ValidTables`, `Fenced`, `ResultsInOrder`, `LeasedWorkIsDue` |
| `queue_parts` | five small queues (`MCQueue`): an operator; two workers with one ID; two crawlers and room for two probes; sources found again; a seed found | `FencedByGeneration`, `ScheduleFollowsEvidence`, `KnownOriginsStayQueued`, `WorkIsKept`, `AdmissionWithinCapacity` |
| `source_lease` | two sources, two runners, lease of 2, work on source 2 crashes and fails | `RunsConsistent`, `RenewedInTime`, `ImplementsLease`, `Recovers` |
| `crawl` | all sites of four pages with the links of `ManySites`, three pages and depth two allowed | `PagesAccounted`, `CompleteMeansAll`, `TransientKept`, `Terminates` |
| `robots_requests` | four origins in three neighborhoods, two callers, tables of two entries, in three parts (`MCRobotsChecker`) | `TablesConsistent`, `SpacingKept`, `CallsReturn` |
| `admission` | three candidates; two runs side by side, one run and an operator, or runs without end (`MCAdmission`) | `PromotionsCounted`, `PromotionPermitted`, `EveryCandidateDecided` |
| `publication` | two publishers, two snapshots, pushes of others, late and lost updates; exporter and publisher with three names, two versions and two failures or kills (`MCPublisher`) | `PublicationHonest`, `SnapshotsWhole`, `NoRegression`, `ImplementsTarget`, `RetryPublishes`, `PublicationFollows` |
| `components` | thirteen small systems of ten components (`MCComponents`) | `RulesAsWritten`, `MatchesMeaning`, `AnswersHandled`, `PagesComplete`, `ReadsExactly`, `HistoryReadable`, `PurgeInvisible`, `SourcesConsistent`, `BlocksFollowRules`, `LeaseFitsWork`, `HeartbeatReliable` |
| `queue_politeness` | one origin, one worker | `PoliteVisits`, violated |
| `source_rule_race` | two origins, two processes that change rules | `BlocksFollowRules`, violated |
| `promotion_race` | two origins, one process that changes rules, one admission | `AvoidedStayOut`, violated |
| `promotions_lost` | the two runs of `admission` | `PromotionsExact`, violated |

Some questions need bounds of their own. `MCQueue`, `MCRobotsChecker`,
`MCAdmission`, `MCPublisher` and `MCComponents` therefore hold several small
systems: the initial state picks one of them, and the others stay as they are.

What the properties say is written above each of them. Some that compare two
pieces of code:

- `ScheduleFollowsEvidence`: migration 0023 computes the source schedule from
  seeds, observations and evidence; `CompleteVerification` and `recordDiscovery`
  maintain it row by row. The two agree in every reachable state.
- `MatchesMeaning` and `RulesAsWritten`: matcher and parser give what a
  definition without loops gives.
- `CompleteMeansAll`: a crawl that reports complete has fetched every link of
  every parsed page and recorded every foreign origin on them.
- `HistoryReadable`: the registry, its export and the state of one origin, which
  are three queries, say what the whole history says.

### Bounds

The unit of time is the shortest interval that matters.

- `queue_leases`: a lease lasts 2 and the politeness interval 1, so a lease
  expires, is claimed again and expires again, and a probe is removed, admitted
  and claimed again. Workers are symmetric: no constant tells them apart.
- `queue_parts`: every part has the time for a result, newer evidence and a
  second result. The shared ID has no terminal results: the generation starts
  again when a row is removed, and two processes with one ID are then told
  apart by nothing.
- `source_lease`: times count down, so there is no bound on the length of a
  behaviour, and every order of crash, expiration and claim happens.
- `crawl`: four pages where three may be selected, so that each budget is hit
  and is not hit; links to earlier, later and the same page; redirects in
  chains, in loops and away.
- `robots_requests`: delays up to `Horizon`, which is 2, and a policy cache of
  one entry. One caller alone visits three origins; two callers share two
  origins of one neighborhood; and two callers compete for the two places of the
  tables with three origins of three neighborhoods, one of which redirects its
  `robots.txt`. In the last part one unit of time passes during the calls.
- `admission`: the budget, the room for probes and the number of candidates
  differ, so that each of them is the limit somewhere. `runs` has a budget of one
  for each run, `fair` a batch of two with one name that never resolves.
- `publication`: six commits in the part with retries, which is one for each
  attempt that two failures and one push can cause.
  The services have three names, as many as are in use at once; two versions
  make a pointer move during a read, and two kills hit both processes.
- `components`: texts of up to five characters, files of up to four lines,
  durations around their limits, four records, two processes.

### Fairness

Safety is checked without fairness. The liveness properties assume:

- `Terminates` (Crawler): the crawl is a sequential loop whose requests have a
  timeout, so weak fairness of `Next`.
- `CallsReturn` (RobotsChecker): time passes and goroutines run; no caller
  relies on the end of its own context.
- `Recovers` (DiscoveryLease): a runner's loop goes on, and time passes however
  often the operator changes the policy (strong fairness of `Tick`). Crashes and
  failures are limited to source 2: two sources whose work always crashes, or a
  runner that is held up for whole leases, can starve the others.
- `EveryCandidateDecided` (Admission): the discovery service keeps crawling, a
  crawl does not always fail before its admission, and a name outside
  `Unresolvable` that is resolved again and again resolves in the end; hence
  strong fairness of these. Names in `Unresolvable` never resolve. The property
  is stated for batches larger than their number, and for a probe queue that
  does not fill up again and again: without either of these a candidate may
  wait for as long as that lasts.
- `RetryPublishes` (Publisher): the service tries again after every failure, and
  requests that do not fail are answered.
- `PublicationFollows` (RegistryExport): killed processes are started again, by
  the restart policy of `deploy`.

Deadlock is checked except in `crawl`, `publication`, `admission`, `components`
and the three races, whose systems may come to an end.

## Where code and texts disagree

Four runs end in a violation, each of one property that a text of the
repository states.

- `PoliteVisits` (`queue_politeness`): `docs/architecture.md:390-391` has queue
  eligibility include the minimum interval for the origin. The claim time is a
  column of the queue row. A terminal result deletes the row of a probe, and the
  next admission inserts one without a claim time, which may be claimed at once.
- `BlocksFollowRules` (`source_rule_race`): `README.md:555-557` says that
  removing a rule retains other matching rules. The recomputation reads the
  rules without a lock and then waits for the rows; a rule that is committed
  meanwhile is not in what it read, and what that rule had blocked is unblocked.
  With one process at a time the property holds (`components`, and a theorem).
- `AvoidedStayOut` (`promotion_race`): `docs/crawler.md:288-291` says that
  avoid-listed hosts stay out of the crawl. An admission reads the exclusions
  and then waits for the locks of its origins, which a change of rules does not
  take. A rule committed in between finds no automatic source to block, and the
  promotion that follows leaves one that matches the rule and is not blocked,
  until its block is next computed. `BlocksFollowRules` leaves these out, and
  `PromotionPermitted` speaks of the exclusions that the transaction has read.
- `PromotionsExact` (`promotions_lost`): `docs/crawler.md:499-504` says that
  `promotions_admitted` counts what was eventually promoted. The statement that
  finishes a run counts in its snapshot; if an admission of another run holds
  the row, the statement waits and then writes the old counts over the new ones.
  `PromotionsCounted` says that nothing else loses a promotion.

Two passing properties hold of the code and not of a text:

- `WorkIsKept` (`queue_parts`): the comment at
  `internal/store/discovery.go:208-212` says that pending probes of excluded
  automatic sources are removed. No statement removes them; they stay queued and
  cannot be claimed, as `docs/crawler.md:508-511` says.
- `PagesComplete` (`components`): `README.md:514-519` promises that the cursor of
  a page leads to the next one. A page that ends at an origin of an older crawl
  that no longer parses gives out a cursor that is refused
  (`internal/reporting/pagination.go:740`). The property leaves this case out.

Others were met while modelling. The models have the behaviour, and no property
here claims the opposite:

- `internal/store/crawl_observability.go:58`: `BeginCrawl` does not compare the
  lease. A runner held up past its expiration inserts its run after the next
  claim has closed the earlier ones, and the source has two open runs for a
  time (`docs/crawler.md:475-478`).
- `internal/discovery/crawler.go:345`: a page that was parsed when its context
  expired is recorded without failure, but its candidates and links are not
  taken (`docs/crawler.md:554`). `CompleteMeansAll` speaks of parsed pages
  whose links were taken.
- `internal/discovery/crawler.go:196`: a run with failed pages that reaches its
  budget is reported as `budget_exhausted`, not as `partial_failure`
  (`docs/crawler.md:552-553`).
- `internal/robots/request_scheduler.go:130`: a redirect of another origin's
  `robots.txt` makes a schedule without the cached crawl delay, and that
  schedule may be evicted early (`docs/crawler.md:154-156`). Likewise a slow
  reader of the cache may set a delay that is out of date (`checker.go:177`).
- `internal/store/discovery.go:1123`: avoid rules are read before the
  transaction that queues probes; a rule committed in between does not keep the
  host out (`docs/crawler.md:125`).
- `internal/store/discovery.go:1263`: a promotion is counted for the first run
  that found the candidate in any way, the original candidates are counted by
  links only (`docs/crawler.md:295`).
- `internal/store/discovery_lease.go:309`: a run that a later claim or
  completion closes is not counted. Unless some admission touches a candidate
  that it found first, its `promotions_deferred` stays 0
  (`docs/crawler.md:501-503`).
- `internal/robots/request_scheduler.go:173`: between the two releases of a hop
  its origin may already be evicted and its neighborhood not, so a caller may
  find room in one table and not in the other, and its call fails.
- `internal/store/crawl_block_policy.go:68`: a source that a rule blocked before
  it was seeded stays blocked when the rule is removed (`README.md:555-557`).
- `internal/store/discovery.go:586`: the repair of schedules inserts from a
  snapshot of the seeds, also for one that was removed meanwhile
  (`discovery.go:577`).
- `cmd/joshbot/registry_interval.go:248`: a read that is overtaken by two moves
  of the pointer, or by one move and a restart of the exporter, which then keeps
  the current snapshot alone, may return a part of a snapshot
  (`internal/publicdata/reader.go:106`). Reads take milliseconds and the interval
  minutes, and nothing else rules it out; `PublishedWhole` excludes both.
- `cmd/joshbot/registry_interval.go:462`: staging directories of killed exports
  are never removed (`registry_interval.go:211`). They are not in the model.

## What is proved

The theorems hold for every value of the constants that satisfies the
assumptions named in the modules: any number of origins, workers, runners,
callers, pages and names, any interval, and no bound on the length of a
behaviour except those that the specification itself has (`MaxTime` and the
like, which may be any number).

| Module | Theorem | States |
| --- | --- | --- |
| `VerificationQueueProofs` | `TablesStayValid`, `LeasedWorkStaysDue`, `KnownOriginsKept` | `[]ValidTables`, `[]LeasedWorkIsDue`, `[]KnownOriginsStayQueued` |
| | `Fencing`, `ResultsOrdered`, `ScheduleDerived` | `[]Fenced`, `[]ResultsInOrder`, `[]ScheduleFollowsEvidence`, when worker IDs are distinct (`UniqueIDs`) |
| | `WorkKept`, `AdmissionBounded` | the action properties `WorkIsKept`, `AdmissionWithinCapacity` |
| `DiscoveryLeaseProofs` | `RunsStayConsistent`, `LeaseOutlivesCrawl` | `[]RunsConsistent`, `[]RenewedInTime` |
| | `SourceLeaseIsExclusive` | the refinement `ImplementsLease` |
| `CrawlerProofs` | `CrawlAccounts`, `CompleteCrawlsMissNothing`, `TransientFailuresKept` | `[]PagesAccounted`, `[]CompleteMeansAll`, `[]TransientKept` |
| `PublisherProofs` | `AnswersAreTrue`, `BranchAdvances` | `[]PublicationHonest`, the action property `NoRegression` |
| | `PublisherImplementsTarget` | the refinement `ImplementsTarget` |
| `RobotsCheckerProofs` (with `RobotsTablesProofs`) | `TablesConsistentAlways`, `SpacingAlwaysKept` | `[]TablesConsistent`, the action properties of `SpacingKept` |
| `RegistryProofs` | `RegistryFaithful`, `PurgesInvisible` | `[]HistoryReadable`, the action property `PurgeInvisible` |
| | `SnapshotsStayWhole` | `[]SnapshotsWhole` |
| `ServiceProofs` | `TablesAgree`, `OneWriterKeepsBlocks` | `[]SourcesConsistent`; `[]BlocksFollowRules` with one process that changes rules |
| | `LeaseIsForWork`, `HeartbeatsCanBeTrusted` | `[]LeaseFitsWork`, `[]HeartbeatReliable` |

**Verification queue.** Lemma `RowChange` lists what a step can do to one row;
`StepCases`, `OnlyClaimLeases` and `OnlyCompletionRecords` do the same for the
rest of the state. The theorems argue from these.

- `RowsOK` is the inductive form of the row invariants: renewal and scheduling
  of a leased row need both of them at once.
- `OwnerIsNewest` strengthens `Fenced` by dropping the generation. The
  generation starts again when a row is removed, so the owner carries the
  argument, and that needs distinct IDs.
- `StampsInOrder` strengthens `ResultsInOrder`: no stamp is ahead of the clock,
  and completion clears the owner.
- `ScheduleDerived` rests on `ResultsOrdered` and on `FactsOK` (a valid result
  makes a participant, a participant has a result, no result is newer than the
  last check). Without the order of results a late miss would be compared with
  evidence under one time and recorded under another.
- `AdmissionBounded` counts: `LowestAreFew` says that the origins with fewer
  than n others before them are at most n, for every finite set.

**Source lease.** `LeaseInv` adds to `RunsConsistent` that a runner that is not
idle has a source and that only a crawling one has an open run. `TimelyInv`
adds, for a runner that is served promptly, how its renewal timer relates to
what is left of the lease. The refinement maps each step to one of
`ExclusiveLease` or to a stutter, and rests on `LeaseInv`.

**Crawler.** `CrawlInv` has nine parts. `CompleteMeansAll` needs `NothingLost`:
unless a failure or a spent budget is reported, what was queued has been
visited, waits in the frontier or is being fetched, and pages link only to what
was queued. That in turn needs that no URL is in the frontier twice
(`FrontierOK`), that the hops of a fetch are new (`FetchOK`) and that a page is
what the site has at its URL (`PageOK`). `InOrderEnumerates` shows that the new
links of a page, taken in document order, are all of them and each once, by
counting how many positions lie below each.

**Publisher.** `PublisherInv` describes the commits (`CommitsOK`) and each call
at each of its stages (`CallsOK`). The histories of commits are closed, a commit
of a publisher was made on top of a managed one that the branch has had, and
changes it. Since an update without force succeeds only on top of the present
head, an update that comes late is refused unless the branch is where its call
saw it. As long as calls come one after the other and none is for an older
snapshot than one before (`ordered`), the branch then never goes back to an
older snapshot. The refinement uses the same invariant; late updates are steps
of their own in `PublicationTarget`.

**Robots checker.** `RobotsInv` has eight parts, and holds for tables and caches
of any capacity.

- `CountsOK` has the users of every entry as a count of the callers that pin it,
  with 0 for an entry that is absent. `RobotsTablesProofs` shows for each action
  how it changes the counts and, as `Evolves`, what it may do to a table: an
  entry stays as it is, is new, or goes only when nobody uses it and its delay
  is over. A caller between its two releases still counts for its neighborhood;
  `LeavingOK` says that it counts for no other request.
- `FlightsOK` pairs fetches in flight with the callers that lead them, and gives
  that who waits has a leader.
- `MinimumOK`: a table remembers the last request, or the operator's minimum is
  over. That survives evictions because of `Evolves`, and gives
  `OperatorMinimumKept`.
- `GroupsOK`: a neighborhood that has to wait has an origin that has to. Together
  with a count (`GroupFollows`) it shows that neighborhoods do not run out of
  room before origins do, while no caller is between its two releases.
- `DelaysOK`, for sites without redirected `robots.txt`, says the same as
  `MinimumOK` for the crawl delay, which a schedule learns only when a caller
  has looked up the policy. It needs `PoliciesOK` (who has a policy has the one
  that the site serves) and `RequestsOK` (a request goes to the origin of its
  call), and gives `CrawlDelayKept`.

`Horizon` is the age from which on ages are not told apart; every
delay lies within it.

**Registry export.** `ExporterInv`: the exporter keeps what the pointer names
and writes below a name that nothing refers to. `ReaderInv`: a read that was
overtaken at most once, by a move or by a start after a move, is at the present
or the previous snapshot, which the exporter keeps.

**History.** `HistoryInv` relates what is stored to a ghost of everything that
was recorded: the newest observation and the newest authoritative one are never
purged, and the row of an origin has what else is read. `TypeInv` is the type.
The assumption `WellFormed` says that times are positive numbers.

**Sources.** `RowsInv` and `ReasonInv` hold for any number of processes and
repairs, and give `TablesAgree` together with `PolicyInv`. `FollowInv` says that
what the only writer has read are the rules that it is going to commit, and that
blocks follow the rules also while it works, but for promotions that a rule
overtook; with two writers this fails, which is what `source_rule_race` shows.

**Worker and heartbeat.** `WorkInv` adds to `LeaseFitsWork` that only an expired
lease is lost before completion. `HeartbeatInv` says that processes start at
different times, that no write is from the future, and that the last write of a
process is the newest of its writes and is on its way or was delivered.

### Only model-checked

- Liveness: `Recovers`, `Terminates`, `CallsReturn`, `EveryCandidateDecided`,
  `RetryPublishes`, `PublicationFollows`. Fairness and `ENABLED` are out of the
  prover's reach.
- `FencedByGeneration`: with a shared ID the argument by owners does not apply.
- `RulesAsWritten`, `MatchesMeaning`, `ReadsExactly`, `PagesComplete` and the
  delays in `AnswersHandled`: they compare a loop with what it computes over all
  of its input, which needs induction over data.
- `Admission`: no theorem is stated about it; its properties are checked on the
  instances of `MCAdmission`.

## What is not modelled

- Migrations: all pending ones are applied in one transaction under a lock
  before the services start.
- Web Bot Auth, network guard, origins and database configuration, command line:
  cryptography, I/O, parsing and wiring without state that changes.
- The trigger that appends queue events; reports read them in `ReportPages`.
- Extraction of links from HTML, JSON syntax, connections and TLS, tokens and
  HTTP of the control plane. Each mutation of the control plane is one
  transaction with its audit event.
- Deletion of heartbeats by age, and of a crawl between two pages of a report
  about it.
- Reports that are a single query.
- Numbers of Retry-After beyond 64 bits count as text.
