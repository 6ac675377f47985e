----------------------------- MODULE Admission -----------------------------
(***************************************************************************)
(* Automatic expansion (internal/store/discovery.go and FinalizeCandidates *)
(* of cmd/joshbot/discovery.go): crawl runs record candidates, queue       *)
(* probes for them, allocate bounded batches, resolve the names of a batch *)
(* and promote candidates to sources, with the promotion telemetry.        *)
(*                                                                         *)
(* Several runs are open at a time, and the operator and the verification  *)
(* workers act between their steps.  A transaction is one step, with two   *)
(* exceptions.  CompleteAutomaticCandidates reads the exclusions, waits    *)
(* for the locks of its origins, reads one origin after the other and      *)
(* commits; FinishCrawlSummary counts promotions in the snapshot of its    *)
(* statement, and writes when it gets the row.                             *)
(***************************************************************************)
EXTENDS Integers, FiniteSets, FiniteSetsExt

CONSTANTS
    NumCandidates,   \* candidates are 1..NumCandidates, in canonical order
    NumRuns,         \* crawl runs are 1..NumRuns, by ID
    MaxPromotions,   \* crawl_runs.max_automatic_promotions
    MaxProbes,       \* AutomaticCrawlConfig.MaxPendingProbes
    Linked,          \* candidates that crawls find links to
    Redirected,      \* candidates that crawls are redirected to
    Resolutions,     \* what resolving a name may give
    Unresolvable,    \* candidates for which that is a transient failure
    Verdicts,        \* what verification may give
    Avoidable,       \* candidates that avoid rules may come to match
    AvoidStates,     \* whether such rules are added, removed or both
    Blockable,       \* candidates that the operator may block
    PauseStates,     \* values that the expansion pause is set to
    Recycled         \* TRUE if finished runs are purged and their IDs reused

Candidates == 1..NumCandidates
Runs == 1..NumRuns
Kinds == {"link", "redirect"}

VARIABLES
    run,       \* crawl_runs, and where the process of each run is
    admitting, \* the transaction that holds the admission lock
    found,     \* crawl_run_discovery_candidates: kinds by run and candidate
    edges,     \* discovery_edges: the kinds of evidence of each candidate
    batch,     \* crawl_run_automatic_admission_batches
    durable,   \* discovery_candidate_admission_state
    waiting,   \* candidates whose next_attempt_at is in the future
    source,    \* discovery_source_state and _schedule of each candidate
    evidence,  \* the effective observation, compared with last_discovered_at
    queue,     \* verification_queue: "none", "probe" or "other"
    avoided,   \* candidates that match the avoid rules
    paused     \* crawl_control.automatic_expansion_paused

vars == <<run, admitting, found, edges, batch, durable, waiting, source,
          evidence, queue, avoided, paused>>

(* A run that crawls may be recording a candidate: its evidence is stored  *)
(* ("recorded"), then its exclusion is checked ("eligible").  What a run   *)
(* that is finishing has counted is not written yet; raced is history: an  *)
(* admission changed these counts meanwhile.                               *)
NewRun == [stage |-> "new", cand |-> 0, promotions |-> 0,
           admitted |-> 0, deferred |-> 0, counted |-> <<0, 0>>,
           raced |-> FALSE]

(* Nobody holds the lock.                                                  *)
Free == [run |-> 0, view |-> {}, probes |-> 0, read |-> {}, blocked |-> {}]

NoRow == [outcome |-> "none", discovered |-> 0]

NoSource == [automatic |-> FALSE, scheduled |-> FALSE, operator |-> FALSE,
             blocked |-> FALSE]

Outcomes == {"none", "pending", "retry_deferred", "network_rejected",
             "policy_deferred", "existing", "capacity_deferred",
             "expansion_paused", "promoted"}

TypeOK ==
    /\ run \in [Runs -> [stage : {"new", "crawling", "recorded", "eligible",
                                  "resolving", "admitted", "finishing",
                                  "finished"},
                         cand : Candidates \cup {0},
                         promotions : 0..MaxPromotions,
                         admitted : 0..NumCandidates,
                         deferred : 0..NumCandidates,
                         counted : (0..NumCandidates) \X (0..NumCandidates),
                         raced : BOOLEAN]]
    /\ admitting \in [run : Runs \cup {0}, view : SUBSET Candidates,
                      probes : 0..NumCandidates, read : SUBSET Candidates,
                      blocked : SUBSET Candidates]
    /\ found \in [Runs -> [Candidates -> SUBSET Kinds]]
    /\ edges \in [Candidates -> SUBSET Kinds]
    /\ batch \in [Runs -> [Candidates ->
                     [outcome : Outcomes, discovered : Runs \cup {0}]]]
    /\ durable \in [Candidates -> {"none", "network_rejected", "promoted",
                                   "existing"}]
    /\ waiting \subseteq Candidates
    /\ source \in [Candidates -> [automatic : BOOLEAN, scheduled : BOOLEAN,
                                  operator : BOOLEAN, blocked : BOOLEAN]]
    /\ evidence \in [Candidates -> {"none", "valid", "miss", "stale"}]
    /\ queue \in [Candidates -> {"none", "probe", "other"}]
    /\ avoided \subseteq Candidates
    /\ paused \in BOOLEAN

Init ==
    /\ run = [r \in Runs |-> NewRun]
    /\ admitting = Free
    /\ found = [r \in Runs |-> [c \in Candidates |-> {}]]
    /\ edges = [c \in Candidates |-> {}]
    /\ batch = [r \in Runs |-> [c \in Candidates |-> NoRow]]
    /\ durable = [c \in Candidates |-> "none"]
    /\ waiting = {}
    /\ source = [c \in Candidates |-> NoSource]
    /\ evidence = [c \in Candidates |-> "none"]
    /\ queue = [c \in Candidates |-> "none"]
    /\ avoided = {}
    /\ paused = FALSE

Operator == <<avoided, paused>>

Probes == {c \in Candidates : queue[c] = "probe"}

(* The first n members of a set, in canonical order.                       *)
FirstOf(S, n) == {c \in S : Cardinality({d \in S : d < c}) < n}

-----------------------------------------------------------------------------
(* A crawl run                                                             *)

(* IDs are given out in order.                                             *)
Begin(r) ==
    /\ run[r].stage = "new"
    /\ Recycled \/ \A q \in Runs : q < r => run[q].stage # "new"
    /\ run' = [run EXCEPT ![r].stage = "crawling"]
    /\ UNCHANGED <<admitting, found, edges, batch, durable, waiting, source,
                   evidence, queue, Operator>>

(* A miss that is older than the last discovery is a stale one.            *)
Rediscovered(c) == IF evidence[c] = "miss" THEN "stale" ELSE evidence[c]

Reactivates(c) ==
    \/ evidence[c] = "valid"
    \/ source[c].automatic /\ Rediscovered(c) \in {"none", "stale"}

(* An admission holds the locks of its origins from before it reads the    *)
(* first of them.                                                          *)
Locked(c) ==
    admitting.read # {} /\ batch[admitting.run][c].outcome = "pending"

(* The first transaction of recordDiscovery: the evidence.                 *)
RecordEvidence(r, c, kind) ==
    /\ run[r].stage = "crawling" /\ ~Locked(c)
    /\ found' = [found EXCEPT ![r][c] = @ \cup {kind}]
    /\ edges' = [edges EXCEPT ![c] = @ \cup {kind}]
    /\ evidence' = [evidence EXCEPT ![c] = Rediscovered(c)]
    /\ source' = [source EXCEPT ![c].scheduled = @ \/ Reactivates(c)]
    /\ run' = [run EXCEPT ![r].stage = "recorded", ![r].cand = c]
    /\ UNCHANGED <<admitting, batch, durable, waiting, queue, Operator>>

(* scheduleProbeCandidates reads the exclusions before its transaction.    *)
CheckExclusions(r) ==
    /\ run[r].stage = "recorded"
    /\ run' = IF run[r].cand \in avoided
              THEN [run EXCEPT ![r].stage = "crawling", ![r].cand = 0]
              ELSE [run EXCEPT ![r].stage = "eligible"]
    /\ UNCHANGED <<admitting, found, edges, batch, durable, waiting, source,
                   evidence, queue, Operator>>

ProbeFits(c) ==
    /\ ~source[c].blocked
    /\ queue[c] = "none"
    /\ Cardinality(Probes) < MaxProbes

ScheduleProbe(r) ==
    LET c == run[r].cand IN
    /\ run[r].stage = "eligible" /\ admitting = Free
    /\ queue' = [queue EXCEPT ![c] = IF ProbeFits(c) THEN "probe" ELSE @]
    /\ run' = [run EXCEPT ![r].stage = "crawling", ![r].cand = 0]
    /\ UNCHANGED <<admitting, found, edges, batch, durable, waiting, source,
                   evidence, Operator>>

(* PurgeCrawlTelemetry, with the rows that it cascades to.                 *)
Purge(r) ==
    /\ Recycled /\ run[r].stage = "finished"
    /\ run' = [run EXCEPT ![r] = NewRun]
    /\ found' = [found EXCEPT ![r] = [c \in Candidates |-> {}]]
    /\ batch' = [q \in Runs |-> [c \in Candidates |->
                    IF q = r \/ batch[q][c].discovered = r THEN NoRow
                    ELSE batch[q][c]]]
    /\ UNCHANGED <<admitting, edges, durable, waiting, source, evidence, queue,
                   Operator>>

-----------------------------------------------------------------------------
(* PendingAutomaticCandidates                                              *)

Allocatable(r, c) ==
    /\ "link" \in edges[c]
    /\ c \notin waiting
    /\ ~source[c].automatic /\ ~source[c].blocked /\ ~source[c].scheduled
    /\ evidence[c] \in {"none", "stale"}
    /\ durable[c] = "none"
    /\ batch[r][c] = NoRow
    /\ c \notin avoided

(* The run that found the candidate first, with evidence of any kind.      *)
FirstRun(r, c) ==
    LET finders == {q \in Runs : found[q][c] # {}}
    IN  IF finders = {} THEN r ELSE Min(finders)

(* Mutant: the batch is one short of its budget.                           *)
AllocatedShort(r) ==
    LET allocated == Cardinality({c \in Candidates : batch[r][c] # NoRow})
    IN  FirstOf({c \in Candidates : Allocatable(r, c)},
                MaxPromotions - allocated - 1)

Allocated(r) ==
    LET allocated == Cardinality({c \in Candidates : batch[r][c] # NoRow})
    IN  FirstOf({c \in Candidates : Allocatable(r, c)},
                MaxPromotions - allocated)

(* Candidates that only a redirect leads to are probed, not promoted.      *)
RedirectProbes ==
    FirstOf({c \in Candidates : /\ edges[c] = {"redirect"}
                                /\ ~source[c].blocked
                                /\ queue[c] = "none"
                                /\ c \notin avoided},
            MaxProbes - Cardinality(Probes))

PendingAutomaticCandidates(r) ==
    /\ run[r].stage = "crawling" /\ admitting = Free
    /\ batch' = [batch EXCEPT ![r] = [c \in Candidates |->
                    IF c \in Allocated(r)
                    THEN [outcome |-> "pending", discovered |-> FirstRun(r, c)]
                    ELSE @[c]]]
    /\ queue' = [c \in Candidates |->
                    IF c \in RedirectProbes THEN "probe" ELSE queue[c]]
    /\ run' = [run EXCEPT ![r].stage = "resolving"]
    /\ UNCHANGED <<admitting, found, edges, durable, waiting, source, evidence,
                   Operator>>

-----------------------------------------------------------------------------
(* CompleteAutomaticCandidates                                             *)

PendingOf(r) == {c \in Candidates : batch[r][c].outcome = "pending"}

(* The transaction has the admission lock, a share of the pause row and    *)
(* the row of its run, and reads the exclusions and the pending probes.    *)
(* A transaction that fails is one that did not start.                     *)
StartAdmission(r) ==
    /\ run[r].stage = "resolving" /\ admitting = Free
    /\ admitting' = [run |-> r, view |-> avoided,
                     probes |-> Cardinality(Probes), read |-> {},
                     blocked |-> {}]
    /\ UNCHANGED <<run, found, edges, batch, durable, waiting, source, evidence,
                   queue, Operator>>

(* With the locks of all its origins, it reads one after the other.  What  *)
(* it reads besides the block is under these locks until it commits.       *)
ReadOrigin(r) ==
    /\ admitting.run = r
    /\ \E c \in FirstOf(PendingOf(r) \ admitting.read, 1) :
          admitting' = [admitting EXCEPT
                           !.read = @ \cup {c},
                           !.blocked = IF source[c].blocked THEN @ \cup {c}
                                       ELSE @]
    /\ UNCHANGED <<run, found, edges, batch, durable, waiting, source, evidence,
                   queue, Operator>>

(* The tables that one turn of the loop works on.                          *)
Tables(r) == [batch |-> batch[r], durable |-> durable, waiting |-> waiting,
              source |-> source, queue |-> queue,
              probes |-> admitting.probes, promotions |-> run[r].promotions]

Room(t) == t.probes < MaxProbes

Deferred(t, c, outcome) == [t EXCEPT !.batch[c].outcome = outcome]

(* The outcomes that keep a candidate out of later batches.                *)
Decided(t, c, outcome) ==
    [t EXCEPT !.batch[c].outcome = outcome, !.durable[c] = outcome]

(* Mutant: policy is not looked at again after the names were resolved.    *)
PolicyRefusesNever(c) == FALSE

(* By the exclusions and the block that the transaction has read.          *)
PolicyRefuses(c) == c \in admitting.blocked \/ c \in admitting.view

Exists(c) ==
    source[c].automatic \/ source[c].scheduled \/ evidence[c] = "valid"

Promoted(t, c) ==
    [Decided(t, c, "promoted") EXCEPT
        !.source[c].automatic = TRUE, !.source[c].scheduled = TRUE,
        !.promotions = @ + 1]

(* With a safe address: the probe if there is room, and the promotion.     *)
Admit(t, c) ==
    LET probed == IF t.queue[c] = "none" /\ Room(t)
                  THEN [t EXCEPT !.queue[c] = "probe", !.probes = @ + 1]
                  ELSE t
    IN  CASE PolicyRefuses(c) -> Deferred(t, c, "policy_deferred")
          [] ~PolicyRefuses(c) /\ Exists(c) -> Decided(t, c, "existing")
          [] ~PolicyRefuses(c) /\ ~Exists(c) /\ evidence[c] = "miss" ->
                Deferred(t, c, "policy_deferred")
          [] OTHER ->
                IF probed.queue[c] = "none"
                THEN Deferred(probed, c, "capacity_deferred")
                ELSE IF paused THEN Deferred(probed, c, "expansion_paused")
                ELSE IF probed.promotions >= MaxPromotions
                THEN Deferred(probed, c, "capacity_deferred")
                ELSE Promoted(probed, c)

Completed(t, c, resolution) ==
    CASE resolution = "transient" ->
            [Deferred(t, c, "retry_deferred") EXCEPT
                !.waiting = @ \cup {c}]
      [] resolution = "unsafe" -> Decided(t, c, "network_rejected")
      [] OTHER -> Admit([t EXCEPT !.waiting = @ \ {c}], c)

(* The batch in canonical order.                                           *)
CompletedAll(r, resolve) ==
    LET T[c \in 0..NumCandidates] ==
            IF c = 0 THEN Tables(r)
            ELSE IF c \in PendingOf(r) THEN Completed(T[c - 1], c, resolve[c])
            ELSE T[c - 1]
    IN  T[NumCandidates]

(* Candidates found by run d with a link before any other run did.         *)
Originals(d) ==
    {c \in Candidates : /\ "link" \in found[d][c]
                        /\ \A q \in Runs : q < d => "link" \notin found[q][c]}

(* Promotions attributed to run d in the batches b.                        *)
AdmittedOf(b, d) ==
    {c \in Candidates : \E q \in Runs :
        b[q][c].outcome = "promoted" /\ b[q][c].discovered = d}

(* Mutant: only the telemetry of the admitting run is brought up to date.  *)
AffectedSelf(b, r) == {r}

(* The runs that the batch of run r is attributed to.                      *)
Affected(b, r) ==
    {b[r][c].discovered : c \in {c \in Candidates : b[r][c] # NoRow}}

(* Links count towards the run that was first to find a link, promotions   *)
(* towards the run that was first to find anything.                        *)
DeferredCount(d, admitted) ==
    Max({0, Cardinality(Originals(d)) - admitted})

Telemetry(rs, b, r) ==
    [d \in Runs |->
        IF d \notin Affected(b, r) THEN rs[d]
        ELSE LET admitted == Cardinality(AdmittedOf(b, d)) IN
             [rs[d] EXCEPT !.admitted = admitted,
                           !.deferred = DeferredCount(d, admitted),
                           !.raced = @ \/ rs[d].stage = "finishing"]]

(* The loop over the batch, and the commit.                                *)
CompleteAutomaticCandidates(r, resolve) ==
    LET t == CompletedAll(r, resolve)
        b == [batch EXCEPT ![r] = t.batch]
        rs == [run EXCEPT ![r].promotions = t.promotions,
                          ![r].stage = "admitted"]
    IN  /\ admitting.run = r /\ admitting.read = PendingOf(r)
        /\ admitting' = Free
        /\ batch' = b
        /\ run' = Telemetry(rs, b, r)
        /\ durable' = t.durable
        /\ waiting' = t.waiting
        /\ source' = t.source
        /\ queue' = t.queue
        /\ UNCHANGED <<found, edges, evidence, Operator>>

(* FinalizeCandidates resolves every name of the batch, twice when the     *)
(* first failure is transient.                                             *)
ResolutionsOf(r) ==
    {resolve \in [PendingOf(r) -> Resolutions] :
        \A c \in PendingOf(r) \cap Unresolvable : resolve[c] = "transient"}

Finalize(r) ==
    \E resolve \in ResolutionsOf(r) : CompleteAutomaticCandidates(r, resolve)

(* next_attempt_at comes.                                                  *)
Due(c) ==
    /\ c \in waiting
    /\ waiting' = waiting \ {c}
    /\ UNCHANGED <<run, admitting, found, edges, batch, durable, source,
                   evidence, queue, Operator>>

-----------------------------------------------------------------------------
(* The end of a run, after admission or at any earlier point.              *)

(* The statement of FinishCrawlSummary counts in its snapshot ...          *)
CountPromotions(r) ==
    LET admitted == Cardinality(AdmittedOf(batch, r)) IN
    /\ run[r].stage \in {"crawling", "resolving", "admitted"}
    /\ admitting.run # r
    /\ run' = [run EXCEPT ![r].stage = "finishing",
                          ![r].counted = <<admitted,
                                           DeferredCount(r, admitted)>>]
    /\ UNCHANGED <<admitting, found, edges, batch, durable, waiting, source,
                   evidence, queue, Operator>>

(* ... and writes the counts when it has the row.                          *)
Finish(r) ==
    /\ run[r].stage = "finishing"
    /\ run' = [run EXCEPT ![r].stage = "finished",
                          ![r].admitted = run[r].counted[1],
                          ![r].deferred = run[r].counted[2],
                          ![r].counted = <<0, 0>>]
    /\ UNCHANGED <<admitting, found, edges, batch, durable, waiting, source,
                   evidence, queue, Operator>>

(* A claim or a failed completion of the lease closes the run of a crawl   *)
(* that did not get there, and counts nothing.                             *)
Abandon(r) ==
    /\ run[r].stage \notin {"new", "finished"} /\ admitting.run # r
    /\ run' = [run EXCEPT ![r].stage = "finished", ![r].cand = 0,
                          ![r].counted = <<0, 0>>]
    /\ UNCHANGED <<admitting, found, edges, batch, durable, waiting, source,
                   evidence, queue, Operator>>

-----------------------------------------------------------------------------
(* Verification and the operator                                           *)

(* A probe completes (CompleteVerification of VerificationQueue).  A miss  *)
(* that a discovery overtook is a miss that RecordEvidence follows.        *)
Verify(c, verdict) ==
    /\ queue[c] = "probe" /\ ~source[c].blocked /\ ~Locked(c)
    /\ queue' = [queue EXCEPT ![c] = IF verdict = "terminal" THEN "none"
                                     ELSE "other"]
    /\ evidence' = [evidence EXCEPT ![c] = IF verdict = "terminal" THEN @
                                           ELSE verdict]
    /\ source' = [source EXCEPT ![c].scheduled =
                     (@ \/ verdict = "valid") /\ verdict # "miss"]
    /\ UNCHANGED <<run, admitting, found, edges, batch, durable, waiting,
                   Operator>>

(* Avoid rules change, and automatic sources are blocked accordingly.      *)
SetAvoided(c, avoid) ==
    /\ avoid # (c \in avoided)
    /\ avoided' = IF avoid THEN avoided \cup {c} ELSE avoided \ {c}
    /\ source' = [source EXCEPT ![c].blocked =
                     IF source[c].automatic THEN avoid \/ source[c].operator ELSE @]
    /\ UNCHANGED <<run, admitting, found, edges, batch, durable, waiting,
                   evidence, queue, paused>>

(* An exact block; allowing does not override avoid rules.                 *)
SetBlocked(c, block) ==
    /\ block # source[c].operator
    /\ source' = [source EXCEPT
                     ![c].operator = block,
                     ![c].blocked = block \/ (source[c].automatic
                                              /\ c \in avoided)]
    /\ UNCHANGED <<run, admitting, found, edges, batch, durable, waiting,
                   evidence, queue, Operator>>

(* Waits for an admission, which shares the row.                           *)
SetPaused(p) ==
    /\ p # paused /\ admitting = Free
    /\ paused' = p
    /\ UNCHANGED <<run, admitting, found, edges, batch, durable, waiting,
                   source, evidence, queue, avoided>>

RunStep(r) ==
    \/ Begin(r)
    \/ \E c \in Linked : RecordEvidence(r, c, "link")
    \/ \E c \in Redirected : RecordEvidence(r, c, "redirect")
    \/ CheckExclusions(r)
    \/ ScheduleProbe(r)
    \/ PendingAutomaticCandidates(r)
    \/ StartAdmission(r)
    \/ ReadOrigin(r)
    \/ Finalize(r)
    \/ CountPromotions(r)
    \/ Finish(r)
    \/ Abandon(r)
    \/ Purge(r)

Next ==
    \/ \E r \in Runs : RunStep(r)
    \/ \E c \in Candidates : Due(c)
    \/ \E c \in Candidates, verdict \in Verdicts : Verify(c, verdict)
    \/ \E c \in Avoidable, avoid \in AvoidStates : SetAvoided(c, avoid)
    \/ \E c \in Blockable, block \in BOOLEAN : SetBlocked(c, block)
    \/ \E p \in PauseStates : SetPaused(p)

Spec == Init /\ [][Next]_vars

(***************************************************************************)
(* Fairness.  The discovery service keeps crawling, and a crawl does not   *)
(* always fail before its admission, so that PendingAutomaticCandidates    *)
(* and StartAdmission, open again and again, happen; what a run has begun  *)
(* goes on, and retention purges it; a name outside Unresolvable that is   *)
(* resolved again and again resolves in the end; workers complete probes,  *)
(* with any verdict; and due times come.                                   *)
(***************************************************************************)
Resolves(r, c) ==
    /\ c \in PendingOf(r)
    /\ \E resolve \in ResolutionsOf(r) :
           resolve[c] = "none" /\ CompleteAutomaticCandidates(r, resolve)

Proceeds(r) ==
    \/ Begin(r) \/ CheckExclusions(r) \/ ScheduleProbe(r) \/ ReadOrigin(r)
    \/ Finalize(r) \/ CountPromotions(r) \/ Finish(r) \/ Purge(r)

Verified(c) == \E verdict \in Verdicts : Verify(c, verdict)

Fairness ==
    /\ \A r \in Runs :
        /\ WF_vars(Proceeds(r))
        /\ SF_vars(PendingAutomaticCandidates(r)) /\ SF_vars(StartAdmission(r))
        /\ \A c \in Candidates \ Unresolvable : SF_vars(Resolves(r, c))
    /\ \A c \in Candidates :
        /\ WF_vars(Due(c))
        /\ WF_vars(Verified(c))

FairSpec == Spec /\ Fairness

-----------------------------------------------------------------------------
(* Properties                                                              *)

PromotedIn(r) == {c \in Candidates : batch[r][c].outcome = "promoted"}

(* Whatever runs hold the same candidate in their batches, one of them     *)
(* promotes it, and the counter of a run is the number of its promotions,  *)
(* which its budget bounds (TypeOK).                                       *)
PromotedOnce ==
    /\ \A q, r \in Runs : q # r => PromotedIn(q) \cap PromotedIn(r) = {}
    /\ \A r \in Runs : run[r].promotions = Cardinality(PromotedIn(r))

(* The telemetry of a run counts the candidates that it was the first to   *)
(* find and that were promoted, by whatever run and whenever: no promotion *)
(* is counted that did not happen, and none is missed unless an admission  *)
(* committed between the counting and the writing of FinishCrawlSummary.   *)
PromotionsCounted ==
    \A d \in Runs :
        LET admitted == Cardinality(AdmittedOf(batch, d)) IN
        /\ run[d].admitted <= admitted
        /\ run[d].raced \/ run[d].admitted = admitted

(* The same without the exception, as the documentation has it: the count  *)
(* of a run is that of the candidates eventually promoted from its         *)
(* evidence.                                                               *)
PromotionsExact ==
    \A d \in Runs : run[d].admitted = Cardinality(AdmittedOf(batch, d))

(* A candidate becomes a source only when no exclusion and no block was    *)
(* there as the transaction read them, after the names were resolved, and  *)
(* when at the commit expansion is not paused, verification has not found  *)
(* it newer evidence, and it has a place in the queue.  All of these may   *)
(* have changed since its batch was allocated.                             *)
PromotionPermitted ==
    [][\A c \in Candidates :
          ~source[c].automatic /\ source'[c].automatic =>
              /\ c \notin admitting.view /\ c \notin admitting.blocked
              /\ ~paused
              /\ evidence[c] \in {"none", "stale"}
              /\ queue'[c] # "none"]_vars

(* The probe queue is full as a batch completes.                           *)
Backpressure ==
    \E r \in Runs, c \in Candidates : batch[r][c].outcome = "capacity_deferred"

(* Every link candidate whose name can be resolved is decided about, by a  *)
(* promotion, a rejection or a verdict of verification, however many       *)
(* others come before it in canonical order or fail to resolve, unless the *)
(* probe queue is full again and again.  It takes a batch that is larger   *)
(* than the number of unresolvable names.                                  *)
EveryCandidateDecided ==
    \A c \in Candidates \ Unresolvable :
        "link" \in edges[c] ~>
            \/ durable[c] # "none" \/ evidence[c] \in {"valid", "miss"}
            \/ c \in avoided \/ source[c].blocked \/ paused
            \/ Backpressure

=============================================================================
