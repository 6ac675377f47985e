---------------------------- MODULE SourcePolicy ---------------------------
(***************************************************************************)
(* Which origins are discovery sources and which are blocked: curated      *)
(* seeds, automatic promotion, verification results, exact blocks and      *)
(* domain avoid rules (internal/store/discovery.go, crawl_block_policy.go  *)
(* and control.go).                                                        *)
(*                                                                         *)
(* A transaction is one step, with three exceptions.  The recomputation of *)
(* blocks reads the avoid rules first and locks the sources afterwards;    *)
(* the admission of candidates reads the rules before it waits for the     *)
(* locks of its origins; and the repair of seeds reads the seeds, without  *)
(* a lock, before it inserts their schedules.  These are two steps each.   *)
(***************************************************************************)
EXTENDS Integers, FiniteSets

CONSTANTS
    Origins,
    Patterns,    \* domain patterns
    Covers,      \* Covers[p]: the origins whose host matches pattern p
    Configured,  \* patterns of JOSHBOT_AUTOMATIC_CRAWL_EXCLUDED_HOSTS
    Unparsable,  \* origins of older crawls that origin.Parse now rejects
    Seedable,    \* origins that the operator seeds
    Policies,    \* processes that change the rules or reconcile blocks
    MaxRepairs   \* bound: repairs of seeds

ASSUME RepairsAssumption == MaxRepairs \in Nat

VARIABLES
    source,     \* discovery_source_state, and whether a schedule row exists
    facts,      \* the effective observation of each origin
    rules,      \* crawl_domain_avoid_rules
    policy,     \* the recomputation that each process is making
    admission,  \* the admission transaction, one at a time, and its rules
    overtaken,  \* history: promoted although a rule had come to match
    repairing,  \* the seeds that a repair has read
    repairs     \* repairs so far

policyVars == <<source, facts, rules, policy, admission, overtaken, repairing,
                repairs>>
promotionVars == <<admission, overtaken>>

NoSource == [seeded |-> FALSE, automatic |-> FALSE, operator_blocked |-> FALSE,
             crawl_blocked |-> FALSE, scheduled |-> FALSE]

(* The effective outcome, whether discovery evidence was recorded after it *)
(* was observed, and whether the origin ever participated.                 *)
NoFacts == [outcome |-> "none", discovered |-> FALSE, participated |-> FALSE]

Idle == [stage |-> "idle", change |-> "none", pattern |-> "none", view |-> {}]

NoAdmission == [stage |-> "idle", view |-> {}]

PolicyTypeOK ==
    /\ source \in [Origins -> [seeded : BOOLEAN, automatic : BOOLEAN,
                               operator_blocked : BOOLEAN,
                               crawl_blocked : BOOLEAN, scheduled : BOOLEAN]]
    /\ facts \in [Origins -> [outcome : {"none", "valid", "miss"},
                              discovered : BOOLEAN, participated : BOOLEAN]]
    /\ rules \subseteq Patterns
    /\ policy \in [Policies -> [stage : {"idle", "read"},
                                change : {"none", "add", "remove"},
                                pattern : Patterns \cup {"none"},
                                view : SUBSET Patterns]]
    /\ admission \in [stage : {"idle", "read"}, view : SUBSET Patterns]
    /\ overtaken \subseteq Origins
    /\ repairing \subseteq Origins
    /\ repairs \in 0..MaxRepairs

(* Sources of older crawls are automatic ones.                             *)
PolicyInit ==
    /\ source = [o \in Origins |->
                    [NoSource EXCEPT !.automatic = o \in Unparsable,
                                     !.scheduled = o \in Unparsable]]
    /\ facts = [o \in Origins |-> NoFacts]
    /\ rules = {}
    /\ policy = [p \in Policies |-> Idle]
    /\ admission = NoAdmission
    /\ overtaken = {}
    /\ repairing = {}
    /\ repairs = 0

-----------------------------------------------------------------------------
(* Schedules                                                               *)

(* Evidence that keeps an origin that is no seed scheduled.                *)
Kept(s, f) ==
    \/ f.outcome = "valid"
    \/ s.automatic /\ f.outcome = "none"
    \/ /\ s.automatic \/ f.participated
       /\ f.outcome = "miss" /\ f.discovered

AddCrawlSeed(o) ==
    /\ ~source[o].seeded
    /\ source' = [source EXCEPT ![o].seeded = TRUE, ![o].scheduled = TRUE]
    /\ UNCHANGED <<facts, rules, policy, promotionVars, repairing, repairs>>

(* Mutant: the schedule goes with the seed, whatever the evidence.         *)
ScheduledWithoutSeedNever(o) == FALSE

(* Without its seed an origin stays scheduled if evidence keeps it.        *)
ScheduledWithoutSeed(o) == source[o].scheduled /\ Kept(source[o], facts[o])

RemoveCrawlSeed(o) ==
    /\ source[o].seeded
    /\ source' = [source EXCEPT ![o].seeded = FALSE,
                                ![o].scheduled = ScheduledWithoutSeed(o)]
    /\ UNCHANGED <<facts, rules, policy, promotionVars, repairing, repairs>>

(* Evidence of another crawl (RecordDiscovery).                            *)
Rediscover(o) ==
    LET f == [facts[o] EXCEPT !.discovered = TRUE]
    IN  /\ facts' = [facts EXCEPT ![o] = f]
        /\ source' = [source EXCEPT ![o].scheduled = @ \/ Kept(source[o], f)]
        /\ <<facts', source'>> # <<facts, source>>
        /\ UNCHANGED <<rules, policy, promotionVars, repairing, repairs>>

Unscheduled(o, outcome, late) ==
    outcome = "miss" /\ ~source[o].seeded /\ ~late

(* An authoritative result (CompleteVerification).  It is late if a        *)
(* discovery was recorded after the observation and before this step.      *)
Verified(o, outcome, late) ==
    /\ late => facts[o].discovered
    /\ facts' = [facts EXCEPT ![o] =
           [outcome |-> outcome, discovered |-> late,
            participated |-> @.participated \/ outcome = "valid"]]
    /\ source' = [source EXCEPT ![o].scheduled =
           (@ \/ outcome = "valid") /\ ~Unscheduled(o, outcome, late)]
    /\ UNCHANGED <<rules, policy, promotionVars, repairing, repairs>>

Avoids(R, o) == \E p \in R \cup Configured : o \in Covers[p]

(* CompleteAutomaticCandidates reads the exclusions and then waits for the *)
(* locks of the origins in its batch, which no change of rules takes.      *)
ReadExclusions ==
    /\ admission = NoAdmission
    /\ admission' = [stage |-> "read", view |-> rules]
    /\ UNCHANGED <<source, facts, rules, policy, overtaken, repairing, repairs>>

(* Not for known sources, blocked ones and those that the exclusions       *)
(* matched.  A block that comes after it was looked at leaves what one     *)
(* after the promotion would.                                              *)
Promotable(o) ==
    /\ ~source[o].automatic /\ ~source[o].scheduled
    /\ ~source[o].crawl_blocked /\ ~Avoids(admission.view, o)
    /\ facts[o].discovered /\ facts[o].outcome # "valid"

(* The promotions S of a batch are committed.                              *)
Promote(S) ==
    /\ admission.stage = "read"
    /\ \A o \in S : Promotable(o)
    /\ source' = [o \in Origins |->
           IF o \in S
           THEN [source[o] EXCEPT !.automatic = TRUE, !.scheduled = TRUE]
           ELSE source[o]]
    /\ overtaken' = overtaken \cup {o \in S : Avoids(rules, o)}
    /\ admission' = NoAdmission
    /\ UNCHANGED <<facts, rules, policy, repairing, repairs>>

(* EnsureSeededSourcesScheduled: one statement without the lock of the     *)
(* origins; its snapshot is older than its inserts.                        *)
ReadSeeds ==
    /\ repairing = {} /\ repairs < MaxRepairs
    /\ repairing' = {o \in Origins : source[o].seeded}
    /\ repairs' = repairs + 1
    /\ UNCHANGED <<source, facts, rules, policy, promotionVars>>

ScheduleSeeds ==
    /\ repairing # {}
    /\ source' = [o \in Origins |->
                     [source[o] EXCEPT !.scheduled = @ \/ o \in repairing]]
    /\ repairing' = {}
    /\ UNCHANGED <<facts, rules, policy, promotionVars, repairs>>

-----------------------------------------------------------------------------
(* Blocks                                                                  *)

(* Mutant: allowing an origin overrides the rules.                         *)
ExactBlockOnly(o, blocked) == blocked

(* The exclusions count for automatic sources that are no seeds.           *)
ExactBlock(o, blocked) ==
    \/ blocked
    \/ source[o].automatic /\ ~source[o].seeded /\ Avoids(rules, o)

(* SetOriginBlocked and SetCrawlBlocked.                                   *)
SetExactBlock(o, blocked) ==
    /\ source[o].operator_blocked # blocked
    /\ source' = [source EXCEPT ![o].operator_blocked = blocked,
                                ![o].crawl_blocked = ExactBlock(o, blocked)]
    /\ overtaken' = overtaken \ {o}
    /\ UNCHANGED <<facts, rules, policy, admission, repairing, repairs>>

(* The rules as a transaction sees them that made the change.              *)
View(change, pattern) ==
    CASE change = "add" -> rules \cup {pattern}
      [] change = "remove" -> rules \ {pattern}
      [] OTHER -> rules

(* AddDomainAvoid, RemoveDomainAvoid and ReconcileAutomaticCrawlPolicy     *)
(* change the rules and read what is committed, and their own change.      *)
ReadRules(p, change, pattern) ==
    /\ policy[p] = Idle
    /\ (change = "none") <=> (pattern = "none")
    /\ policy' = [policy EXCEPT ![p] =
           [stage |-> "read", change |-> change, pattern |-> pattern,
            view |-> View(change, pattern)]]
    /\ UNCHANGED <<source, facts, rules, promotionVars, repairing, repairs>>

(* The block of an automatic source.                                       *)
Effective(s, o, view) ==
    s.operator_blocked \/ Avoids(view, o) \/ o \in Unparsable

Recomputes(s) == s.automatic /\ ~s.seeded

(* The sources are locked, recomputed and committed with the change.       *)
Recompute(p) ==
    LET view == policy[p].view
    IN  /\ policy[p].stage = "read"
        /\ source' = [o \in Origins |->
               IF Recomputes(source[o])
               THEN [source[o] EXCEPT
                        !.crawl_blocked = Effective(source[o], o, view)]
               ELSE source[o]]
        /\ rules' = View(policy[p].change, policy[p].pattern)
        /\ policy' = [policy EXCEPT ![p] = Idle]
        /\ overtaken' = {o \in overtaken : ~Recomputes(source[o])}
        /\ UNCHANGED <<facts, admission, repairing, repairs>>

(* The transaction fails and is rolled back.                               *)
Rollback(p) ==
    /\ policy[p] # Idle
    /\ policy' = [policy EXCEPT ![p] = Idle]
    /\ UNCHANGED <<source, facts, rules, promotionVars, repairing, repairs>>

PolicyNext ==
    \/ \E o \in Origins \ Unparsable :
        \/ o \in Seedable /\ (AddCrawlSeed(o) \/ RemoveCrawlSeed(o))
        \/ Rediscover(o)
        \/ \E outcome \in {"valid", "miss"}, late \in BOOLEAN :
              Verified(o, outcome, late)
        \/ \E blocked \in BOOLEAN : SetExactBlock(o, blocked)
    \/ ReadExclusions
    \/ \E S \in SUBSET (Origins \ Unparsable) : Promote(S)
    \/ ReadSeeds \/ ScheduleSeeds
    \/ \E p \in Policies :
        \/ \E change \in {"none", "add", "remove"},
              pattern \in Patterns \cup {"none"} :
                  ReadRules(p, change, pattern)
        \/ Recompute(p)
        \/ Rollback(p)

PolicySpec == PolicyInit /\ [][PolicyNext]_policyVars

-----------------------------------------------------------------------------
(* Properties                                                              *)

(* An origin is scheduled exactly while a seed or its evidence gives a     *)
(* reason, in whatever order seeds, results, promotions and rediscoveries  *)
(* come.  A repair that overlaps the removal of a seed schedules it again; *)
(* stated therefore for as long as no repair was made.                     *)
ScheduledForReason ==
    repairs = 0 =>
        \A o \in Origins \ Unparsable :
            source[o].scheduled <=>
                source[o].seeded \/ Kept(source[o], facts[o])

(* Every curated seed has a schedule, whatever verification finds and      *)
(* whichever repair runs beside the operator.                              *)
SeedsClaimable == \A o \in Origins : source[o].seeded => source[o].scheduled

(* A block that the operator set holds until the operator removes it: no   *)
(* rule change and no reconciliation lifts it.                             *)
OperatorBlockHolds ==
    \A o \in Origins : source[o].operator_blocked => source[o].crawl_blocked

(* The tables agree with each other at all times.                          *)
SourcesConsistent ==
    /\ PolicyTypeOK
    /\ ScheduledForReason /\ SeedsClaimable /\ OperatorBlockHolds

(* README.md: "removing a rule restores eligible automatic sources while   *)
(* retaining explicit blocks and other matching rules."  Origins that were *)
(* never seeded, with no rule change in progress: blocked are those that   *)
(* the operator blocked or that match a rule.  Left out are promotions     *)
(* that a rule overtook, until their block is next computed; they are what *)
(* AvoidedStayOut is about.                                                *)
BlocksFollowRules ==
    (\A p \in Policies : policy[p] = Idle) =>
        \A o \in Origins \ (Unparsable \cup Seedable \cup overtaken) :
            source[o].automatic =>
                (source[o].crawl_blocked <=>
                    source[o].operator_blocked \/ Avoids(rules, o))

(* docs/crawler.md: "Avoid-listed hosts, crawl blocks, expansion pause,    *)
(* probe backpressure, and the promotion budget still keep those origins   *)
(* out of the crawl."  With no rule change in progress, an automatic       *)
(* source that was never seeded and matches a rule is blocked.             *)
AvoidedStayOut ==
    (\A p \in Policies : policy[p] = Idle) =>
        \A o \in Origins \ Seedable :
            source[o].automatic /\ Avoids(rules, o) => source[o].crawl_blocked

=============================================================================
