--------------------------- MODULE DiscoveryLease ---------------------------
(***************************************************************************)
(* Discovery sources and the runners that crawl them: the lease on a       *)
(* source (internal/store/discovery_lease.go), the goroutine that renews   *)
(* it while the crawl runs (internal/discovery/crawl_runner.go), and the   *)
(* rows of crawl_runs that report the crawl (crawl_observability.go).      *)
(*                                                                         *)
(* Time is relative: a deadline is the time left until it passes, and 0    *)
(* once it has.  Behaviours are therefore unbounded and still finite-state.*)
(* A lease generation is only ever compared with the generation of the     *)
(* row, so that the row keeps the runner that made the latest claim.       *)
(***************************************************************************)
EXTENDS Integers, FiniteSets

CONSTANTS
    NumSources,        \* sources are 1..NumSources, in canonical order
    Runners,           \* discovery processes
    Nobody,            \* lease_owner IS NULL
    Seeds,             \* curated seeds
    Verified,          \* sources whose effective declaration is valid
    LeaseDuration,     \* CrawlRunnerConfig.LeaseDuration
    DiscoveryInterval, \* CrawlRunnerConfig.DiscoveryInterval
    RetrySteps,        \* length of the schedule of retry.Policy.Delay
    RetryDelays,       \* the delays that each step may give, with jitter
    Policies,          \* what the operator and the probe queue may set
    Crashing,          \* sources whose crawl may take the process down
    Failing            \* sources on which store calls may fail

Sources == 1..NumSources
NoSource == 0

(* Mutant: a renewal when the lease is about to expire.                    *)
WholeLease == LeaseDuration

(* discoveryLeaseRenewInterval.                                            *)
RenewInterval == LeaseDuration \div 2

ASSUME SourcesAssumption ==
    /\ NumSources \in Nat \ {0}
    /\ Nobody \notin Runners
    /\ Seeds \subseteq Sources /\ Verified \subseteq Sources

ASSUME TimesAssumption ==
    /\ LeaseDuration \in Nat /\ LeaseDuration > 1
    /\ DiscoveryInterval \in Nat \ {0}
    /\ RetrySteps \in Nat \ {0}
    /\ RetryDelays \in [1..RetrySteps -> SUBSET (Nat \ {0})]
    /\ \A n \in 1..RetrySteps : RetryDelays[n] # {}

ASSUME PoliciesAssumption ==
    Policies \subseteq [paused : BOOLEAN, automatic : BOOLEAN,
                        open : SUBSET Sources]

VARIABLES
    (* discovery_source_state *)
    holder,    \* the runner that made the latest claim, or Nobody
    left,      \* time until lease_expires_at
    due,       \* time until the source may be attempted again
    fails,     \* consecutive_failures, no further than the schedule tells apart
    order,     \* sources by last_attempted_at, never attempted ones first
    (* what others decide: crawl_control, the blocks, the probes that are due *)
    policy,
    prompt,    \* whether steps that wait for nothing take no time
    (* crawl_runs *)
    run,       \* the row of each runner's present crawl
    orphans,   \* sources with an unfinished row that no crawl reports to
    (* the runners *)
    pc,        \* where runOnceWithLease is
    src,       \* the source of the runner's lease
    renewIn,   \* time until the renewal timer fires
    lost       \* a renewal failed: the crawl is canceled

env == <<policy, prompt>>
rows == <<holder, left, due, fails, order>>
runs == <<run, orphans>>
runners == <<pc, src, renewIn, lost>>
vars == <<rows, env, runs, runners>>

Open == {"running", "late"}

TypeOK ==
    /\ holder \in [Sources -> Runners \cup {Nobody}]
    /\ left \in [Sources -> 0..LeaseDuration]
    /\ due \in [Sources -> Nat]
    /\ fails \in [Sources -> 0..RetrySteps]
    /\ order \in [Sources -> Sources]
    /\ policy \in Policies
    /\ prompt \in BOOLEAN
    /\ run \in [Runners -> Open \cup {"none", "closed"}]
    /\ orphans \subseteq Sources
    /\ pc \in [Runners -> {"idle", "claimed", "crawling", "crawled",
                           "completing"}]
    /\ src \in [Runners -> Sources \cup {NoSource}]
    /\ renewIn \in [Runners -> 0..RenewInterval]
    /\ lost \in [Runners -> BOOLEAN]

Init ==
    /\ holder = [s \in Sources |-> Nobody]
    /\ left = [s \in Sources |-> 0]
    /\ due = [s \in Sources |-> 0]
    /\ fails = [s \in Sources |-> 0]
    /\ order = [i \in Sources |-> i]
    /\ policy \in Policies
    /\ prompt \in BOOLEAN
    /\ run = [r \in Runners |-> "none"]
    /\ orphans = {}
    /\ pc = [r \in Runners |-> "idle"]
    /\ src = [r \in Runners |-> NoSource]
    /\ renewIn = [r \in Runners |-> 0]
    /\ lost = [r \in Runners |-> FALSE]

-----------------------------------------------------------------------------
(* Claiming                                                                *)

(* Mutant: the probe limit and the operator's pause hold back all sources. *)
EligibleIfOpen(s) ==
    /\ s \in policy.open
    /\ due[s] = 0
    /\ left[s] = 0
    /\ policy.automatic

(* A scheduled source that a claim may take: not blocked, due, not leased, *)
(* and either curated, verified, or admitted by automatic expansion, which *)
(* the operator's pause and the probes that are due can hold back.         *)
Eligible(s) ==
    /\ s \in policy.open
    /\ due[s] = 0
    /\ left[s] = 0
    /\ s \in Seeds \/ s \in Verified \/ policy.automatic

(* The source attempted longest ago is claimed first.                      *)
Claimable(s) ==
    /\ ~policy.paused
    /\ Eligible(s)
    /\ \E i \in Sources :
        order[i] = s /\ \A j \in 1..(i - 1) : ~Eligible(order[j])

(* Mutant: runs are left open.                                             *)
CloseNone(S) == UNCHANGED <<run, orphans>>

(* Unfinished runs of the sources S are closed as canceled.                *)
CloseRuns(S) ==
    /\ run' = [q \in Runners |->
                 IF run[q] \in Open /\ src[q] \in S THEN "closed" ELSE run[q]]
    /\ orphans' = orphans \ S

(* A claim starts a lease and closes the runs that an earlier claim of the *)
(* source left open, and those of every source that nobody leases.         *)
Claim(r, s) ==
    /\ pc[r] = "idle"
    /\ Claimable(s)
    /\ holder' = [holder EXCEPT ![s] = r]
    /\ left' = [left EXCEPT ![s] = LeaseDuration]
    /\ CloseRuns({s} \cup {t \in Sources : left[t] = 0})
    /\ pc' = [pc EXCEPT ![r] = "claimed"]
    /\ src' = [src EXCEPT ![r] = s]
    /\ renewIn' = [renewIn EXCEPT ![r] = RenewInterval]
    /\ lost' = [lost EXCEPT ![r] = FALSE]
    /\ UNCHANGED <<due, fails, order, env>>

-----------------------------------------------------------------------------
(* The crawl and its run                                                   *)

(* BeginCrawl inserts the run: no lease is compared, and a runner that was *)
(* held up may begin after its source was claimed again ("late").          *)
BeginCrawl(r) ==
    /\ pc[r] = "claimed"
    /\ ~lost[r]
    /\ run' = [run EXCEPT ![r] =
                 IF holder[src[r]] = r THEN "running" ELSE "late"]
    /\ pc' = [pc EXCEPT ![r] = "crawling"]
    /\ UNCHANGED <<rows, env, orphans, src, renewIn, lost>>

(* The run cannot be inserted: the crawl context is canceled, or the store *)
(* fails.  The crawl ends before its first page.                           *)
BeginCrawlFails(r) ==
    /\ pc[r] = "claimed"
    /\ lost[r] \/ src[r] \in Failing
    /\ pc' = [pc EXCEPT ![r] = "crawled"]
    /\ UNCHANGED <<rows, env, runs, src, renewIn, lost>>

(* The crawl ends, and its deferred FinishCrawlSummary seals the run       *)
(* unless another transaction has closed it.  The runner then cancels and  *)
(* awaits its renewals.                                                    *)
FinishCrawl(r) ==
    /\ pc[r] = "crawling"
    /\ run' = [run EXCEPT ![r] = "none"]
    /\ pc' = [pc EXCEPT ![r] = "crawled"]
    /\ UNCHANGED <<rows, env, orphans, src, renewIn, lost>>

LeftOpen(r) == IF run[r] \in Open THEN {src[r]} ELSE {}

(* The run cannot be sealed in time: an open row is left behind.           *)
FinishCrawlFails(r) ==
    /\ pc[r] = "crawling"
    /\ src[r] \in Failing
    /\ run' = [run EXCEPT ![r] = "none"]
    /\ orphans' = orphans \cup LeftOpen(r)
    /\ pc' = [pc EXCEPT ![r] = "crawled"]
    /\ UNCHANGED <<rows, env, src, renewIn, lost>>

-----------------------------------------------------------------------------
(* Renewal and completion                                                  *)

(* The lease that a renewal requires: the generation of the row, not       *)
(* expired.                                                                *)
Authority(r) ==
    /\ holder[src[r]] = r
    /\ left[src[r]] > 0

Renewing(r) ==
    /\ pc[r] \in {"claimed", "crawling"}
    /\ ~lost[r]
    /\ renewIn[r] = 0

(* A renewal never shortens the lease.                                     *)
Extended(t) == IF t > LeaseDuration THEN t ELSE LeaseDuration

(* The timer of renewCrawlSourceLease fired and the lease still holds.     *)
Renew(r) ==
    /\ Renewing(r)
    /\ Authority(r)
    /\ left' = [left EXCEPT ![src[r]] = Extended(@)]
    /\ renewIn' = [renewIn EXCEPT ![r] = RenewInterval]
    /\ UNCHANGED <<holder, due, fails, order, env, runs, pc, src, lost>>

(* The lease is lost, or the store fails: the crawl is canceled.           *)
RenewFails(r) ==
    /\ Renewing(r)
    /\ ~Authority(r) \/ src[r] \in Failing
    /\ lost' = [lost EXCEPT ![r] = TRUE]
    /\ UNCHANGED <<rows, env, runs, pc, src, renewIn>>

Idle(r) ==
    /\ pc' = [pc EXCEPT ![r] = "idle"]
    /\ src' = [src EXCEPT ![r] = NoSource]
    /\ renewIn' = [renewIn EXCEPT ![r] = 0]
    /\ lost' = [lost EXCEPT ![r] = FALSE]

Failures(s, transient) ==
    IF ~transient THEN 0
    ELSE IF fails[s] < RetrySteps THEN fails[s] + 1 ELSE RetrySteps

(* When the source may be attempted again: a transient result follows the  *)
(* retry schedule, any other the discovery interval.                       *)
NextAttempts(s, transient) ==
    IF transient THEN RetryDelays[Failures(s, transient)]
    ELSE {DiscoveryInterval}

(* The others keep their order, and s comes last.                          *)
MovedBack(s) ==
    LET place == CHOOSE i \in Sources : order[i] = s
    IN  [i \in Sources |-> IF i < place THEN order[i]
                           ELSE IF i < NumSources THEN order[i + 1] ELSE s]

(* The completion reads the database clock before it locks the row: a      *)
(* lease that expires in between still counts as unexpired.                *)
ReadCompletionClock(r) ==
    /\ pc[r] = "crawled"
    /\ ~lost[r]
    /\ left[src[r]] > 0
    /\ pc' = [pc EXCEPT ![r] = "completing"]
    /\ UNCHANGED <<rows, env, runs, src, renewIn, lost>>

(* Mutant: the generation of the row is not compared.                      *)
NewestUnchecked(r) == TRUE

(* The row has the generation of the runner's lease.                       *)
Newest(r) == holder[src[r]] = r

(* The attempt is recorded, the lease ends, and what is left of its runs   *)
(* is closed.                                                              *)
Complete(r, transient) ==
    LET s == src[r] IN
    /\ pc[r] = "completing"
    /\ Newest(r)
    /\ holder' = [holder EXCEPT ![s] = Nobody]
    /\ left' = [left EXCEPT ![s] = 0]
    /\ fails' = [fails EXCEPT ![s] = Failures(s, transient)]
    /\ \E d \in NextAttempts(s, transient) : due' = [due EXCEPT ![s] = d]
    /\ order' = MovedBack(s)
    /\ CloseRuns({s})
    /\ Idle(r)
    /\ UNCHANGED env

(* A renewal had failed, the lease is lost, or the store fails: the runner *)
(* turns to other sources and leaves the lease to expire.  A claim that    *)
(* commits without its reply leaves a lease behind in the same way.        *)
GiveUp(r) ==
    /\ \/ pc[r] = "crawled" /\ (lost[r] \/ left[src[r]] = 0)
       \/ pc[r] = "completing" /\ ~Newest(r)
       \/ pc[r] \in {"claimed", "crawled", "completing"} /\ src[r] \in Failing
    /\ Idle(r)
    /\ UNCHANGED <<rows, env, runs>>

(* The process dies and is started again.                                  *)
Crash(r) ==
    /\ src[r] \in Crashing
    /\ run' = [run EXCEPT ![r] = "none"]
    /\ orphans' = orphans \cup LeftOpen(r)
    /\ Idle(r)
    /\ UNCHANGED <<rows, env>>

-----------------------------------------------------------------------------
(* The environment                                                         *)

(* The operator pauses, blocks or unschedules, the probes that are due     *)
(* reach their limit or drain.                                             *)
PolicyChanges ==
    /\ policy' \in Policies \ {policy}
    /\ UNCHANGED <<rows, prompt, runs, runners>>

(* A runner with a step to take that waits neither for time nor for a site.*)
Urgent(r) ==
    \/ pc[r] = "idle" /\ \E s \in Sources : Claimable(s)
    \/ Renewing(r)
    \/ pc[r] # "idle" /\ lost[r]
    \/ pc[r] \in {"crawled", "completing"}

Earlier(t) == IF t > 0 THEN t - 1 ELSE 0

Tick ==
    /\ prompt => \A r \in Runners : ~Urgent(r)
    /\ left' = [s \in Sources |-> Earlier(left[s])]
    /\ due' = [s \in Sources |-> Earlier(due[s])]
    /\ renewIn' = [r \in Runners |-> Earlier(renewIn[r])]
    /\ UNCHANGED <<holder, fails, order, env, runs, pc, src, lost>>

Next ==
    \/ \E r \in Runners :
        \/ \E s \in Sources : Claim(r, s)
        \/ BeginCrawl(r)
        \/ BeginCrawlFails(r)
        \/ FinishCrawl(r)
        \/ FinishCrawlFails(r)
        \/ Renew(r)
        \/ RenewFails(r)
        \/ ReadCompletionClock(r)
        \/ \E transient \in BOOLEAN : Complete(r, transient)
        \/ GiveUp(r)
        \/ Crash(r)
    \/ PolicyChanges
    \/ Tick

(* A runner's loop goes on, its crawl is bounded by pages and timeouts,    *)
(* its renewals are a goroutine of their own, and time passes however      *)
(* often the policy changes.                                               *)
Fairness ==
    /\ SF_vars(Tick)
    /\ \A r \in Runners :
        /\ WF_vars(\E s \in Sources : Claim(r, s))
        /\ WF_vars(BeginCrawl(r) \/ BeginCrawlFails(r))
        /\ WF_vars(FinishCrawl(r) \/ FinishCrawlFails(r))
        /\ WF_vars(Renew(r) \/ RenewFails(r))
        /\ WF_vars(ReadCompletionClock(r) \/ GiveUp(r))
        /\ WF_vars((\E t \in BOOLEAN : Complete(r, t)) \/ GiveUp(r))

Spec == Init /\ [][Next]_vars

FairSpec == Spec /\ Fairness

-----------------------------------------------------------------------------
(* Properties                                                              *)

(* A run that began under the lease is closed by the claim that supersedes *)
(* the lease: as long as it is open, nobody else has claimed the source,   *)
(* and the pages of two crawls never mix (RecordPageAttempt, FinishCrawl). *)
SupersededRunsClosed ==
    \A r \in Runners : run[r] = "running" => holder[src[r]] = r

(* The tables keep to their types and constraints, and runs to the lease.  *)
RunsConsistent == TypeOK /\ SupersededRunsClosed

(* A renewal after half the lease is soon enough: while renewals do not    *)
(* fail and are served in time, the lease holds until the crawl is over    *)
(* and its completion is recorded, whatever becomes of other sources.      *)
RenewedInTime ==
    \A r \in Runners :
        prompt /\ pc[r] # "idle" /\ src[r] \notin Failing => Authority(r)

(* The leases of discovery sources are exclusive leases whose record is    *)
(* the failure streak of the source: a runner whose lease was superseded   *)
(* neither ends the lease of its successor nor changes the record.         *)
Lease == INSTANCE ExclusiveLease WITH
    Items <- Sources,
    Clients <- Runners,
    Nothing <- NoSource,
    work <- src,
    owner <- holder,
    lapsed <- {s \in Sources : left[s] = 0},
    record <- fails

ImplementsLease == Lease!Spec

(* Curated seeds and verified participants are claimed for ever, even if   *)
(* one source always takes the process down or fails in the store, and     *)
(* whatever automatic expansion and the probe queue do meanwhile: "one     *)
(* source cannot park discovery" (Run).  A runner that is held up for the  *)
(* whole of a lease, time and again, is not promised anything.             *)
SourcesServed ==
    \A s \in Seeds \cup Verified :
        prompt => []<>(\E r \in Runners : pc[r] = "claimed" /\ src[r] = s)

(* A run left open by a crash or a failed FinishCrawl is closed in the end.*)
OrphansClosed ==
    \A s \in Sources : s \in orphans ~> s \notin orphans

(* Sources are served and their runs closed, in spite of a source that     *)
(* takes its runner down or fails every time.                              *)
Recovers == SourcesServed /\ OrphansClosed

=============================================================================
