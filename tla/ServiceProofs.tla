--------------------------- MODULE ServiceProofs ----------------------------
(*****************************************************************************)
(* Proofs about what a service works from and what it does on its own.       *)
(* Its sources agree with the rules, for any origins, patterns, seeds and    *)
(* number of processes that change them (SourcePolicy).  The lease of a      *)
(* verification worker covers its work, and ends with it, for every length   *)
(* of lease, timeouts and difference of clocks (VerificationWorker).  The    *)
(* heartbeat row shows the last state of a service, for any number of        *)
(* processes and of late writes (ServiceHeartbeat).                          *)
(*****************************************************************************)
EXTENDS SourcePolicy, VerificationWorker, ServiceHeartbeat, TLAPS

(* The time each prover may take for a leaf that names none, in seconds.   *)
USE SMTT(30), ZenonT(30)

-----------------------------------------------------------------------------
(* The source policy                                                       *)

SourceRow == [seeded : BOOLEAN, automatic : BOOLEAN,
              operator_blocked : BOOLEAN, crawl_blocked : BOOLEAN,
              scheduled : BOOLEAN]

FactRow == [outcome : {"none", "valid", "miss"}, discovered : BOOLEAN,
            participated : BOOLEAN]

(* The types of the two tables, and what every row keeps whatever the      *)
(* rules are and whoever changes them: a block of the operator is a block, *)
(* a seed is scheduled, only what may be seeded is, and a repair read      *)
(* seeds only.                                                             *)
RowsInv ==
    /\ source \in [Origins -> SourceRow]
    /\ facts \in [Origins -> FactRow]
    /\ repairs \in Nat
    /\ repairing # {} => repairs > 0
    /\ \A o \in Origins :
        /\ source[o].operator_blocked => source[o].crawl_blocked
        /\ source[o].seeded => source[o].scheduled
        /\ source[o].seeded => o \in Seedable

LEMMA InitRows == PolicyInit => RowsInv
<1> SUFFICES ASSUME PolicyInit PROVE RowsInv
  OBVIOUS
<1>1. \A o \in Origins : (o \in Unparsable) \in BOOLEAN
  BY SMTT(30)
<1>2. /\ source \in [Origins -> SourceRow]
      /\ \A o \in Origins : ~source[o].operator_blocked /\ ~source[o].seeded
  BY <1>1, ZenonT(30) DEF PolicyInit, NoSource, SourceRow
<1> QED BY <1>2, ZenonT(30) DEF PolicyInit, RowsInv, NoFacts, FactRow

(* One row is replaced.                                                    *)
LEMMA RowReplaced ==
    ASSUME RowsInv, NEW o \in Origins, NEW new \in SourceRow,
           new.operator_blocked => new.crawl_blocked,
           new.seeded => new.scheduled,
           new.seeded => o \in Seedable,
           source' = [source EXCEPT ![o] = new],
           UNCHANGED <<facts, repairing, repairs>>
    PROVE  RowsInv'
BY DEF RowsInv

(* Every step keeps the rows.                                              *)
LEMMA StepRows == RowsInv /\ [PolicyNext]_policyVars => RowsInv'
<1> SUFFICES ASSUME RowsInv, [PolicyNext]_policyVars PROVE RowsInv'
  OBVIOUS
<1> USE DEF RowsInv, SourceRow, FactRow
<1>1. ASSUME NEW o \in Origins, o \in Seedable, AddCrawlSeed(o)
      PROVE  RowsInv'
  <2> DEFINE new == [source[o] EXCEPT !.seeded = TRUE, !.scheduled = TRUE]
  <2>1. /\ source' = [source EXCEPT ![o] = new]
        /\ UNCHANGED <<facts, repairing, repairs>>
    BY <1>1, ZenonT(30) DEF AddCrawlSeed
  <2>2. /\ new \in SourceRow /\ new.scheduled
        /\ new.operator_blocked => new.crawl_blocked
    BY ZenonT(30)
  <2> QED BY <1>1, <2>1, <2>2, RowReplaced
<1>2. ASSUME NEW o \in Origins, RemoveCrawlSeed(o) PROVE RowsInv'
  <2>1. ScheduledWithoutSeed(o) \in BOOLEAN
    BY SMTT(30) DEF ScheduledWithoutSeed
  <2>2. PICK b \in BOOLEAN :
            /\ source' = [source EXCEPT ![o].seeded = FALSE,
                                        ![o].scheduled = b]
            /\ UNCHANGED <<facts, repairing, repairs>>
    BY <1>2, <2>1, ZenonT(30) DEF RemoveCrawlSeed
  <2> DEFINE new == [source[o] EXCEPT !.seeded = FALSE, !.scheduled = b]
  <2>3. source' = [source EXCEPT ![o] = new]
    BY <2>2, ZenonT(30)
  <2>4. /\ new \in SourceRow /\ ~new.seeded
        /\ new.operator_blocked => new.crawl_blocked
    BY ZenonT(30)
  <2> QED BY <2>2, <2>3, <2>4, RowReplaced
<1>3. ASSUME NEW o \in Origins, Rediscover(o) PROVE RowsInv'
  <2> DEFINE f == [facts[o] EXCEPT !.discovered = TRUE]
             now == source[o].scheduled \/ Kept(source[o], f)
  <2>1. now \in BOOLEAN /\ (source[o].scheduled => now)
    OBVIOUS
  <2>2. /\ source' = [source EXCEPT ![o].scheduled = now]
        /\ facts' = [facts EXCEPT ![o] = f]
        /\ UNCHANGED <<repairing, repairs>>
    BY <1>3 DEF Rediscover
  <2>3. f \in FactRow
    BY ZenonT(30)
  <2> HIDE DEF now, f
  <2>4. facts' \in [Origins -> FactRow]
    BY <2>2, <2>3, SMTT(30)
  <2>5. source' \in [Origins -> SourceRow]
    BY <2>1, <2>2, SMTT(30)
  <2>6. \A p \in Origins :
           /\ source'[p].operator_blocked = source[p].operator_blocked
           /\ source'[p].crawl_blocked = source[p].crawl_blocked
           /\ source'[p].seeded = source[p].seeded
           /\ source[p].scheduled => source'[p].scheduled
    BY <2>1, <2>2, SMTT(30)
  <2> QED BY <2>2, <2>4, <2>5, <2>6, SMTT(30)
<1>4. ASSUME NEW S \in SUBSET (Origins \ Unparsable), Promote(S)
      PROVE  RowsInv'
  <2>1. /\ source' = [o \in Origins |->
               IF o \in S
               THEN [source[o] EXCEPT !.automatic = TRUE, !.scheduled = TRUE]
               ELSE source[o]]
        /\ UNCHANGED <<facts, repairing, repairs>>
    BY <1>4, ZenonT(30) DEF Promote
  <2>2. ASSUME NEW o \in Origins
        PROVE  /\ source'[o] \in SourceRow
               /\ source'[o].operator_blocked = source[o].operator_blocked
               /\ source'[o].crawl_blocked = source[o].crawl_blocked
               /\ source'[o].seeded = source[o].seeded
               /\ source[o].scheduled => source'[o].scheduled
    BY <2>1
  <2> QED BY <2>1, <2>2
<1>5. ASSUME NEW o \in Origins, NEW outcome \in {"valid", "miss"},
             NEW late \in BOOLEAN, Verified(o, outcome, late)
      PROVE  RowsInv'
  <2> DEFINE now == /\ source[o].scheduled \/ outcome = "valid"
                    /\ ~Unscheduled(o, outcome, late)
             ever == facts[o].participated \/ outcome = "valid"
  <2>1. /\ now \in BOOLEAN /\ ever \in BOOLEAN
        /\ source[o].seeded => now
    BY DEF Unscheduled
  <2>2. /\ source' = [source EXCEPT ![o].scheduled = now]
        /\ facts' = [facts EXCEPT ![o] =
               [outcome |-> outcome, discovered |-> late,
                participated |-> ever]]
        /\ UNCHANGED <<repairing, repairs>>
    BY <1>5, ZenonT(30) DEF Verified
  <2> HIDE DEF now, ever
  <2> QED BY <2>1, <2>2
<1>6. ASSUME NEW o \in Origins, NEW blocked \in BOOLEAN,
             SetExactBlock(o, blocked)
      PROVE  RowsInv'
  <2>1. /\ ExactBlock(o, blocked) \in BOOLEAN
        /\ blocked => ExactBlock(o, blocked)
    BY DEF ExactBlock
  <2> DEFINE new == [source[o] EXCEPT !.operator_blocked = blocked,
                                      !.crawl_blocked = ExactBlock(o, blocked)]
  <2>2. /\ source' = [source EXCEPT ![o] = new]
        /\ UNCHANGED <<facts, repairing, repairs>>
    BY <1>6, ZenonT(30) DEF SetExactBlock
  <2>3. /\ new \in SourceRow
        /\ new.operator_blocked => new.crawl_blocked
        /\ new.seeded = source[o].seeded /\ new.scheduled = source[o].scheduled
    BY <2>1, ZenonT(30)
  <2> QED BY <2>2, <2>3, RowReplaced
<1>7. CASE ReadSeeds
  BY <1>7 DEF ReadSeeds
<1>8. CASE ScheduleSeeds
  <2> DEFINE now(o) == source[o].scheduled \/ o \in repairing
  <2>1. \A o \in Origins :
            now(o) \in BOOLEAN /\ (source[o].scheduled => now(o))
    OBVIOUS
  <2>2. /\ source' = [o \in Origins |->
                        [source[o] EXCEPT !.scheduled = now(o)]]
        /\ repairing' = {} /\ UNCHANGED <<facts, repairs>>
    BY <1>8 DEF ScheduleSeeds
  <2> HIDE DEF now
  <2> QED BY <2>1, <2>2
<1>9. ASSUME NEW p \in Policies, Recompute(p) PROVE RowsInv'
  <2> DEFINE view == policy[p].view
  <2>1. \A o \in Origins :
            /\ Effective(source[o], o, view) \in BOOLEAN
            /\ source[o].operator_blocked => Effective(source[o], o, view)
    BY DEF Effective
  <2>2. /\ source' = [o \in Origins |->
               IF Recomputes(source[o])
               THEN [source[o] EXCEPT
                        !.crawl_blocked = Effective(source[o], o, view)]
               ELSE source[o]]
        /\ UNCHANGED <<facts, repairing, repairs>>
    BY <1>9 DEF Recompute
  <2> QED BY <2>1, <2>2
<1>10. CASE UNCHANGED <<source, facts, repairing, repairs>>
  BY <1>10
<1> QED
  BY <1>1, <1>2, <1>3, <1>4, <1>5, <1>6, <1>7, <1>8, <1>9, <1>10
  DEF PolicyNext, ReadExclusions, ReadRules, Rollback, policyVars

LEMMA RowsInvariant == PolicySpec => []RowsInv
BY InitRows, StepRows, PTL DEF PolicySpec

LEMMA BlocksAndSeedsHold ==
    PolicySpec => [](OperatorBlockHolds /\ SeedsClaimable)
<1>1. RowsInv => OperatorBlockHolds /\ SeedsClaimable
  BY DEF RowsInv, OperatorBlockHolds, SeedsClaimable
<1> QED BY <1>1, RowsInvariant, PTL

-----------------------------------------------------------------------------
(* Schedules and their reasons.                                            *)

(* An origin has participated only if it has a result, and has if its      *)
(* present result is valid.                                                *)
ReasonInv ==
    /\ ScheduledForReason
    /\ \A o \in Origins :
        /\ facts[o].outcome = "valid" => facts[o].participated
        /\ facts[o].participated => facts[o].outcome # "none"

Reason(s, f) == s.scheduled <=> s.seeded \/ Kept(s, f)

(* What a step does to one origin that is not given up by the parser.      *)
LEMMA KeptEvidence ==
    ASSUME NEW s \in SourceRow, NEW f \in FactRow, Reason(s, f),
           s.seeded => s.scheduled,
           f.outcome = "valid" => f.participated,
           f.participated => f.outcome # "none"
    PROVE  /\ Kept(s, f) => Kept(s, [f EXCEPT !.discovered = TRUE])
           /\ f.discovered => (s.scheduled <=>
                s.seeded \/ s.automatic \/ f.participated)
BY DEF SourceRow, FactRow, Reason, Kept

(* A result changes facts so that they say what happened to the origin.    *)
LEMMA StepEvidence ==
    ASSUME RowsInv, ReasonInv, [PolicyNext]_policyVars, NEW q \in Origins
    PROVE  /\ facts'[q].outcome = "valid" => facts'[q].participated
           /\ facts'[q].participated => facts'[q].outcome # "none"
<1> DEFINE Goal == /\ facts'[q].outcome = "valid" => facts'[q].participated
                   /\ facts'[q].participated => facts'[q].outcome # "none"
<1>0. /\ facts[q] \in FactRow
      /\ facts[q].outcome = "valid" => facts[q].participated
      /\ facts[q].participated => facts[q].outcome # "none"
  BY DEF RowsInv, ReasonInv
<1>1. ASSUME NEW o \in Origins, Rediscover(o) PROVE Goal
  BY <1>0, <1>1 DEF Rediscover, RowsInv, FactRow
<1>2. ASSUME NEW o \in Origins, NEW outcome \in {"valid", "miss"},
             NEW late \in BOOLEAN, Verified(o, outcome, late)
      PROVE  Goal
  <2> DEFINE ever == facts[o].participated \/ outcome = "valid"
  <2>1. ever \in BOOLEAN /\ (outcome = "valid" => ever)
    OBVIOUS
  <2>2. facts' = [facts EXCEPT ![o] =
                    [outcome |-> outcome, discovered |-> late,
                     participated |-> ever]]
    BY <1>2 DEF Verified
  <2> HIDE DEF ever
  <2> QED BY <1>0, <2>1, <2>2 DEF RowsInv
<1>3. CASE UNCHANGED facts
  BY <1>0, <1>3
<1> QED
  BY <1>1, <1>2, <1>3, ZenonT(30)
  DEF PolicyNext, policyVars, AddCrawlSeed, RemoveCrawlSeed, Promote,
      SetExactBlock, ReadExclusions, ReadSeeds, ScheduleSeeds, ReadRules,
      Recompute, Rollback

(* Every step keeps the schedule and its reason together.                  *)
LEMMA StepReason ==
    ASSUME RowsInv, ReasonInv, [PolicyNext]_policyVars, repairs' = 0,
           NEW q \in Origins \ Unparsable
    PROVE  Reason(source'[q], facts'[q])
<1> DEFINE Goal == Reason(source'[q], facts'[q])
           s == source[q]
           f == facts[q]
<1>0. repairs = 0
  <2>1. ReadSeeds \/ UNCHANGED repairs
    BY Zenon
    DEF PolicyNext, policyVars, AddCrawlSeed, RemoveCrawlSeed, Rediscover,
        ReadExclusions, Promote, Verified, SetExactBlock, ScheduleSeeds,
        ReadRules, Recompute, Rollback
  <2> QED BY <2>1 DEF ReadSeeds, RowsInv
<1>1. /\ s \in SourceRow /\ f \in FactRow /\ Reason(s, f)
      /\ s.seeded => s.scheduled
      /\ f.outcome = "valid" => f.participated
      /\ f.participated => f.outcome # "none"
  BY <1>0 DEF RowsInv, ReasonInv, ScheduledForReason, Reason
<1>2. /\ Kept(s, f) => Kept(s, [f EXCEPT !.discovered = TRUE])
      /\ f.discovered => (s.scheduled <=>
           s.seeded \/ s.automatic \/ f.participated)
  BY <1>1, KeptEvidence
<1>3. ASSUME NEW o \in Origins, AddCrawlSeed(o) PROVE Goal
  <2>1. CASE o # q
    BY <1>1, <1>3, <2>1 DEF AddCrawlSeed, RowsInv
  <2>2. CASE o = q
    <3>1. source'[q] = [s EXCEPT !.seeded = TRUE, !.scheduled = TRUE]
      BY <1>3, <2>2 DEF AddCrawlSeed, RowsInv
    <3>2. source'[q].seeded /\ source'[q].scheduled
      BY <1>1, <3>1 DEF SourceRow
    <3> QED BY <3>2 DEF Reason
  <2> QED BY <2>1, <2>2
<1>4. ASSUME NEW o \in Origins, RemoveCrawlSeed(o) PROVE Goal
  <2>1. CASE o # q
    BY <1>1, <1>4, <2>1 DEF RemoveCrawlSeed, RowsInv
  <2>2. CASE o = q
    <3>1. ScheduledWithoutSeed(q) \in BOOLEAN
      BY DEF ScheduledWithoutSeed
    <3>2. /\ source'[q] = [s EXCEPT !.seeded = FALSE,
                                    !.scheduled = ScheduledWithoutSeed(q)]
          /\ facts' = facts /\ s.seeded
      BY <1>4, <2>2, <3>1 DEF RemoveCrawlSeed, RowsInv
    <3>3. /\ source'[q].scheduled <=> Kept(s, f)
          /\ ~source'[q].seeded
          /\ source'[q].automatic = s.automatic
      BY <1>1, <3>1, <3>2, ZenonT(30) DEF ScheduledWithoutSeed, SourceRow
    <3> QED BY <3>2, <3>3 DEF Reason, Kept
  <2> QED BY <2>1, <2>2
<1>5. ASSUME NEW o \in Origins, Rediscover(o) PROVE Goal
  <2>1. CASE o # q
    BY <1>1, <1>5, <2>1 DEF Rediscover, RowsInv
  <2>2. CASE o = q
    <3> DEFINE g == [f EXCEPT !.discovered = TRUE]
               now == s.scheduled \/ Kept(s, g)
    <3>1. now \in BOOLEAN /\ (now <=> s.seeded \/ Kept(s, g))
      BY <1>1, <1>2 DEF Reason
    <3>2. source'[q] = [s EXCEPT !.scheduled = now] /\ facts'[q] = g
      BY <1>5, <2>2 DEF Rediscover, RowsInv
    <3> HIDE DEF now
    <3>3. /\ source'[q].scheduled = now
          /\ source'[q].seeded = s.seeded
          /\ source'[q].automatic = s.automatic
      BY <1>1, <3>2 DEF SourceRow
    <3> QED BY <3>1, <3>2, <3>3 DEF Reason, Kept
  <2> QED BY <2>1, <2>2
<1>6. ASSUME NEW S \in SUBSET (Origins \ Unparsable), Promote(S) PROVE Goal
  <2>1. CASE q \notin S
    BY <1>1, <1>6, <2>1 DEF Promote
  <2>2. CASE q \in S
    <3>1. /\ source'[q] = [s EXCEPT !.automatic = TRUE, !.scheduled = TRUE]
          /\ facts' = facts /\ f.discovered /\ f.outcome # "valid"
      BY <1>6, <2>2 DEF Promote, Promotable
    <3> QED BY <1>1, <3>1 DEF Reason, Kept, SourceRow, FactRow
  <2> QED BY <2>1, <2>2
<1>7. ASSUME NEW o \in Origins, NEW outcome \in {"valid", "miss"},
             NEW late \in BOOLEAN, Verified(o, outcome, late)
      PROVE  Goal
  <2>1. CASE o # q
    BY <1>1, <1>7, <2>1 DEF Verified, RowsInv
  <2>2. CASE o = q
    <3> DEFINE ever == f.participated \/ outcome = "valid"
               now == /\ s.scheduled \/ outcome = "valid"
                      /\ ~Unscheduled(q, outcome, late)
    <3>1. /\ now \in BOOLEAN /\ ever \in BOOLEAN
          /\ late => f.discovered
      BY <1>7, <2>2 DEF Verified
    <3>2. /\ source'[q] = [s EXCEPT !.scheduled = now]
          /\ facts'[q] = [outcome |-> outcome, discovered |-> late,
                          participated |-> ever]
      BY <1>7, <2>2, ZenonT(30) DEF Verified, RowsInv
    <3>3. /\ outcome = "valid" => now
          /\ outcome = "miss" =>
                (now <=> s.seeded \/ (late /\ (s.automatic \/ ever)))
      BY <1>1, <1>2, <3>1 DEF Unscheduled
    <3> HIDE DEF now, ever
    <3>4. /\ source'[q].scheduled = now
          /\ source'[q].seeded = s.seeded
          /\ source'[q].automatic = s.automatic
      BY <1>1, <3>2 DEF SourceRow
    <3>5. CASE outcome = "valid"
      BY <3>2, <3>3, <3>4, <3>5 DEF Reason, Kept
    <3>6. CASE outcome = "miss"
      BY <3>2, <3>3, <3>4, <3>6 DEF Reason, Kept
    <3> QED BY <3>5, <3>6
  <2> QED BY <2>1, <2>2
<1>8. ASSUME NEW o \in Origins, NEW blocked \in BOOLEAN,
             SetExactBlock(o, blocked)
      PROVE  Goal
  <2>1. /\ source'[q].scheduled = s.scheduled
        /\ source'[q].seeded = s.seeded
        /\ source'[q].automatic = s.automatic
        /\ facts' = facts
    BY <1>1, <1>8 DEF SetExactBlock, RowsInv, SourceRow
  <2> QED BY <1>1, <2>1 DEF Reason, Kept
<1>9. ASSUME NEW p \in Policies, Recompute(p) PROVE Goal
  <2>1. /\ source'[q].scheduled = s.scheduled
        /\ source'[q].seeded = s.seeded
        /\ source'[q].automatic = s.automatic
        /\ facts' = facts
    BY <1>1, <1>9 DEF Recompute, RowsInv, SourceRow
  <2> QED BY <1>1, <2>1 DEF Reason, Kept
<1>10. ~ReadSeeds /\ ~ScheduleSeeds
  BY <1>0 DEF ReadSeeds, ScheduleSeeds, RowsInv
<1>11. CASE UNCHANGED <<source, facts>>
  BY <1>1, <1>11
<1> QED
  BY <1>3, <1>4, <1>5, <1>6, <1>7, <1>8, <1>9, <1>10, <1>11
  DEF PolicyNext, policyVars, ReadExclusions, ReadRules, Rollback

LEMMA SchedulesHaveReason == PolicySpec => []ScheduledForReason
<1>1. PolicyInit => ReasonInv
  <2> SUFFICES ASSUME PolicyInit PROVE ReasonInv
    OBVIOUS
  <2>1. ASSUME NEW o \in Origins \ Unparsable
        PROVE  /\ ~source[o].scheduled /\ ~source[o].seeded
               /\ ~source[o].automatic
    <3> DEFINE b == o \in Unparsable
    <3>1. b \in BOOLEAN /\ ~b
      BY <2>1, SMTT(30)
    <3>2. source[o] = [NoSource EXCEPT !.automatic = b, !.scheduled = b]
      BY <2>1, ZenonT(30) DEF PolicyInit
    <3> HIDE DEF b
    <3> QED BY <3>1, <3>2 DEF NoSource
  <2>2. \A o \in Origins : facts[o] = NoFacts
    BY ZenonT(30) DEF PolicyInit
  <2> QED
    BY <2>1, <2>2 DEF ReasonInv, ScheduledForReason, Kept, NoFacts
<1>2. RowsInv /\ ReasonInv /\ [PolicyNext]_policyVars => ReasonInv'
  BY StepEvidence, StepReason DEF ReasonInv, ScheduledForReason, Reason
<1>3. ReasonInv => ScheduledForReason
  BY DEF ReasonInv
<1> QED BY <1>1, <1>2, <1>3, RowsInvariant, PTL DEF PolicySpec

-----------------------------------------------------------------------------
(* Types.                                                                  *)

Recomputation == [stage : {"idle", "read"}, change : {"none", "add", "remove"},
                  pattern : Patterns \cup {"none"}, view : SUBSET Patterns]

(* The type of what RowsInv leaves out: a change names its pattern.        *)
PolicyInv ==
    /\ rules \subseteq Patterns
    /\ policy \in [Policies -> Recomputation]
    /\ \A p \in Policies :
           (policy[p].change = "none") <=> (policy[p].pattern = "none")
    /\ admission \in [stage : {"idle", "read"}, view : SUBSET Patterns]
    /\ overtaken \subseteq Origins
    /\ repairing \subseteq Origins
    /\ repairs \in 0..MaxRepairs

LEMMA ViewTyped ==
    ASSUME rules \subseteq Patterns, NEW change \in {"none", "add", "remove"},
           NEW pattern \in Patterns \cup {"none"},
           (change = "none") <=> (pattern = "none")
    PROVE  View(change, pattern) \in SUBSET Patterns
BY DEF View

LEMMA InitPolicy == PolicyInit => PolicyInv
<1> SUFFICES ASSUME PolicyInit PROVE PolicyInv
  OBVIOUS
<1>1. Idle \in Recomputation /\ Idle.change = "none" /\ Idle.pattern = "none"
  BY SMTT(30) DEF Idle, Recomputation
<1>2. /\ policy = [p \in Policies |-> Idle]
      /\ rules = {} /\ repairing = {} /\ repairs = 0
      /\ admission = NoAdmission /\ overtaken = {}
  BY ZenonT(30) DEF PolicyInit
<1> QED BY <1>1, <1>2, RepairsAssumption DEF PolicyInv, NoAdmission

LEMMA StepPolicy == PolicyInv /\ [PolicyNext]_policyVars => PolicyInv'
<1> SUFFICES ASSUME PolicyInv, [PolicyNext]_policyVars PROVE PolicyInv'
  OBVIOUS
<1>1. ASSUME NEW p \in Policies, NEW change \in {"none", "add", "remove"},
             NEW pattern \in Patterns \cup {"none"},
             ReadRules(p, change, pattern)
      PROVE  PolicyInv'
  <2> DEFINE w == [stage |-> "read", change |-> change,
                   pattern |-> pattern, view |-> View(change, pattern)]
  <2>1. w \in Recomputation
    BY <1>1, ViewTyped DEF ReadRules, PolicyInv, Recomputation
  <2>2. /\ policy' = [policy EXCEPT ![p] = w]
        /\ w.change = "none" <=> w.pattern = "none"
        /\ UNCHANGED <<rules, admission, overtaken, repairing, repairs>>
    BY <1>1 DEF ReadRules, promotionVars
  <2> HIDE DEF w
  <2> QED BY <2>1, <2>2 DEF PolicyInv
<1>2. ASSUME NEW p \in Policies, Recompute(p) \/ Rollback(p) PROVE PolicyInv'
  <2>1. Idle \in Recomputation /\ Idle.change = "none" /\ Idle.pattern = "none"
    BY DEF Idle, Recomputation
  <2>2. /\ policy' = [policy EXCEPT ![p] = Idle]
        /\ UNCHANGED <<admission, repairing, repairs>>
        /\ overtaken' \subseteq overtaken
        /\ \/ UNCHANGED rules
           \/ rules' = View(policy[p].change, policy[p].pattern)
    BY <1>2 DEF Recompute, Rollback, promotionVars
  <2>3. View(policy[p].change, policy[p].pattern) \in SUBSET Patterns
    BY ViewTyped DEF PolicyInv, Recomputation
  <2> HIDE DEF Idle
  <2> QED BY <2>1, <2>2, <2>3 DEF PolicyInv
<1>3. CASE ReadSeeds
  BY <1>3, RepairsAssumption DEF ReadSeeds, PolicyInv, promotionVars
<1>4. CASE ScheduleSeeds
  BY <1>4 DEF ScheduleSeeds, PolicyInv, promotionVars
<1>5. CASE ReadExclusions
  BY <1>5 DEF ReadExclusions, PolicyInv
<1>6. ASSUME NEW S \in SUBSET (Origins \ Unparsable), Promote(S)
      PROVE  PolicyInv'
  BY <1>6 DEF Promote, PolicyInv, NoAdmission
<1>7. ASSUME NEW o \in Origins, NEW blocked \in BOOLEAN,
             SetExactBlock(o, blocked)
      PROVE  PolicyInv'
  BY <1>7 DEF SetExactBlock, PolicyInv
<1>8. CASE UNCHANGED <<rules, policy, admission, overtaken, repairing, repairs>>
  BY <1>8 DEF PolicyInv
<1> QED
  BY <1>1, <1>2, <1>3, <1>4, <1>5, <1>6, <1>7, <1>8, ZenonT(30)
  DEF PolicyNext, policyVars, promotionVars, AddCrawlSeed, RemoveCrawlSeed,
      Rediscover, Verified

(* An origin is scheduled exactly while a seed or its evidence gives a     *)
(* reason, as long as no repair of seeds has run.  A block of the operator *)
(* holds until the operator lifts it, and a seed always has its schedule,  *)
(* however many processes change the rules, read a state that is stale by  *)
(* now, or repair the schedules of seeds.                                  *)
THEOREM TablesAgree == PolicySpec => []SourcesConsistent
<1>1. RowsInv /\ PolicyInv => PolicyTypeOK
  BY DEF RowsInv, PolicyInv, PolicyTypeOK, SourceRow, FactRow, Recomputation
<1> QED
  BY <1>1, InitPolicy, StepPolicy, RowsInvariant, BlocksAndSeedsHold,
     SchedulesHaveReason, PTL DEF PolicySpec, SourcesConsistent

-----------------------------------------------------------------------------
(* Blocks and rules, when one process changes the rules.                   *)

OneWriter == \A p, q \in Policies : p = q

Follows(s, o) == s.crawl_blocked <=> s.operator_blocked \/ Avoids(rules, o)

(* What the only writer has read are the rules that it is going to commit, *)
(* and blocks follow the rules also while it works, but for promotions     *)
(* that a rule overtook.                                                   *)
FollowInv ==
    /\ rules \subseteq Patterns
    /\ policy \in [Policies -> Recomputation]
    /\ \A p \in Policies : policy[p].stage = "read" =>
           policy[p].view = View(policy[p].change, policy[p].pattern)
    /\ \A o \in Origins \ (Unparsable \cup Seedable \cup overtaken) :
           source[o].automatic => Follows(source[o], o)

(* A step that leaves the rules alone treats one origin.                   *)
LEMMA StepFollows ==
    ASSUME RowsInv, FollowInv, [PolicyNext]_policyVars, UNCHANGED rules,
           \A p \in Policies : ~Recompute(p),
           NEW q \in Origins \ (Unparsable \cup Seedable),
           q \notin overtaken', source'[q].automatic
    PROVE  source'[q].crawl_blocked <=>
               source'[q].operator_blocked \/ Avoids(rules, q)
<1> DEFINE s == source[q]
           Goal == source'[q].crawl_blocked <=>
                       source'[q].operator_blocked \/ Avoids(rules, q)
<1>1. /\ s \in SourceRow /\ ~s.seeded
      /\ s.operator_blocked => s.crawl_blocked
      /\ s.automatic /\ q \notin overtaken =>
            (s.crawl_blocked <=> s.operator_blocked \/ Avoids(rules, q))
  BY DEF RowsInv, FollowInv, Follows
<1>2. ASSUME q \notin overtaken,
             source'[q].automatic = s.automatic,
             source'[q].crawl_blocked = s.crawl_blocked,
             source'[q].operator_blocked = s.operator_blocked
      PROVE  Goal
  BY <1>1, <1>2
<1>3. ASSUME NEW o \in Origins, o \in Seedable,
             AddCrawlSeed(o) \/ RemoveCrawlSeed(o)
      PROVE  Goal
  <2>1. source'[q] = s /\ q \notin overtaken
    BY <1>3 DEF AddCrawlSeed, RemoveCrawlSeed, RowsInv, promotionVars
  <2> QED BY <2>1, <1>2, ZenonT(30)
<1>4. ASSUME NEW o \in Origins, Rediscover(o) PROVE Goal
  BY <1>1, <1>2, <1>4 DEF Rediscover, RowsInv, SourceRow, promotionVars
<1>5. ASSUME NEW S \in SUBSET (Origins \ Unparsable), Promote(S) PROVE Goal
  <2>1. CASE q \notin S
    <3>1. source'[q] = s /\ q \notin overtaken
      BY <1>5, <2>1 DEF Promote
    <3> QED BY <3>1, <1>2, ZenonT(30)
  <2>2. CASE q \in S
    <3>1. /\ source'[q] = [s EXCEPT !.automatic = TRUE, !.scheduled = TRUE]
          /\ ~s.crawl_blocked /\ ~Avoids(rules, q)
      BY <1>5, <2>2 DEF Promote, Promotable
    <3> QED BY <1>1, <3>1 DEF SourceRow
  <2> QED BY <2>1, <2>2
<1>6. ASSUME NEW o \in Origins, NEW outcome \in {"valid", "miss"},
             NEW late \in BOOLEAN, Verified(o, outcome, late)
      PROVE  Goal
  BY <1>1, <1>2, <1>6 DEF Verified, RowsInv, SourceRow, promotionVars
<1>7. ASSUME NEW o \in Origins, NEW blocked \in BOOLEAN,
             SetExactBlock(o, blocked)
      PROVE  Goal
  <2>1. CASE o # q
    <3>1. source'[q] = s /\ q \notin overtaken
      BY <1>7, <2>1 DEF SetExactBlock, RowsInv
    <3> QED BY <3>1, <1>2, ZenonT(30)
  <2>2. CASE o = q
    <3> DEFINE b == ExactBlock(q, blocked)
    <3>1. b \in BOOLEAN
      BY DEF ExactBlock
    <3>2. source'[q] = [s EXCEPT !.operator_blocked = blocked,
                                 !.crawl_blocked = b]
      BY <1>7, <2>2 DEF SetExactBlock, RowsInv
    <3>3. s.automatic => (b <=> blocked \/ Avoids(rules, q))
      BY <1>1 DEF ExactBlock
    <3> HIDE DEF b
    <3>4. /\ source'[q].automatic = s.automatic
          /\ source'[q].operator_blocked = blocked
          /\ source'[q].crawl_blocked = b
      BY <1>1, <3>2, ZenonT(30) DEF SourceRow
    <3> QED BY <3>3, <3>4
  <2> QED BY <2>1, <2>2
<1>8. CASE ScheduleSeeds
  BY <1>1, <1>2, <1>8 DEF ScheduleSeeds, RowsInv, SourceRow, promotionVars
<1>9. CASE UNCHANGED <<source, overtaken>>
  BY <1>2, <1>9, ZenonT(30)
<1> QED
  BY <1>3, <1>4, <1>5, <1>6, <1>7, <1>8, <1>9
  DEF PolicyNext, policyVars, promotionVars, ReadExclusions, ReadSeeds,
      ReadRules, Rollback

LEMMA StepFollowInv ==
    ASSUME OneWriter, RowsInv, FollowInv, [PolicyNext]_policyVars
    PROVE  FollowInv'
<1> DEFINE Plain == Origins \ (Unparsable \cup Seedable)
<1>1. ASSUME NEW p \in Policies, Recompute(p) PROVE FollowInv'
  <2> DEFINE view == policy[p].view
  <2>1. /\ policy[p] \in Recomputation /\ policy[p].stage = "read"
        /\ view = View(policy[p].change, policy[p].pattern)
        /\ rules' = view /\ view \subseteq Patterns
        /\ policy' = [policy EXCEPT ![p] = Idle]
    BY <1>1 DEF Recompute, FollowInv, Recomputation
  <2>2. \A q \in Policies : policy'[q] = Idle
    BY <2>1 DEF OneWriter, FollowInv
  <2>3. policy' \in [Policies -> Recomputation]
    <3>1. Idle \in Recomputation
      BY DEF Idle, Recomputation
    <3> QED BY <2>1, <3>1 DEF FollowInv
  <2>4. ASSUME NEW o \in Plain, source'[o].automatic
        PROVE  Follows(source[o], o)'
    <3> DEFINE b == Effective(source[o], o, view)
    <3>1. /\ b \in BOOLEAN
          /\ b <=> source[o].operator_blocked \/ Avoids(view, o)
      BY <2>4 DEF Effective
    <3>2. source[o] \in SourceRow /\ ~source[o].seeded
      BY <2>4 DEF RowsInv
    <3>3. source'[o] = IF Recomputes(source[o])
                       THEN [source[o] EXCEPT !.crawl_blocked = b]
                       ELSE source[o]
      BY <1>1, <2>4 DEF Recompute
    <3> HIDE DEF b
    <3>4. source[o].automatic
      BY <2>4, <3>2, <3>3 DEF SourceRow
    <3>5. source'[o] = [source[o] EXCEPT !.crawl_blocked = b]
      BY <3>2, <3>3, <3>4 DEF Recomputes
    <3>6. /\ source'[o].crawl_blocked = b
          /\ source'[o].operator_blocked = source[o].operator_blocked
      BY <3>2, <3>5 DEF SourceRow
    <3>7. Avoids(view, o) <=> Avoids(rules', o)
      BY <2>1
    <3> QED BY <3>1, <3>6, <3>7 DEF Follows
  <2>5. \A q \in Policies : policy'[q].stage # "read"
    BY <2>2 DEF Idle
  <2> QED BY <2>1, <2>3, <2>4, <2>5 DEF FollowInv
<1>2. ASSUME \A p \in Policies : ~Recompute(p) PROVE FollowInv'
  <2>1. UNCHANGED rules
    BY <1>2, Zenon
    DEF PolicyNext, policyVars, AddCrawlSeed, RemoveCrawlSeed, Rediscover,
        ReadExclusions, Promote, Verified, SetExactBlock, ReadSeeds,
        ScheduleSeeds, ReadRules, Rollback
  <2>2. \A o \in Plain : o \notin overtaken' /\ source'[o].automatic =>
            Follows(source[o], o)'
    <3>1. \A o : Avoids(rules', o) <=> Avoids(rules, o)
      BY <2>1
    <3> QED BY <1>2, <2>1, <3>1, StepFollows DEF Follows
  <2> DEFINE Good ==
        /\ policy' \in [Policies -> Recomputation]
        /\ \A p \in Policies : policy'[p].stage = "read" =>
               policy'[p].view = View(policy'[p].change, policy'[p].pattern)
  <2>3. Good
    <3>1. ASSUME NEW p \in Policies,
                 NEW change \in {"none", "add", "remove"},
                 NEW pattern \in Patterns \cup {"none"},
                 ReadRules(p, change, pattern)
          PROVE  Good
      <4> DEFINE w == [stage |-> "read", change |-> change,
                       pattern |-> pattern, view |-> View(change, pattern)]
      <4>1. w \in Recomputation
        BY <3>1, ViewTyped DEF ReadRules, FollowInv, Recomputation
      <4>2. policy' = [policy EXCEPT ![p] = w]
        BY <3>1 DEF ReadRules
      <4> QED BY <4>1, <4>2 DEF FollowInv
    <3>2. ASSUME NEW p \in Policies, Rollback(p) PROVE Good
      BY <3>2 DEF Rollback, FollowInv, Idle, Recomputation
    <3>3. CASE UNCHANGED policy
      BY <3>3 DEF FollowInv
    <3> QED
      BY <1>2, <3>1, <3>2, <3>3, ZenonT(30)
      DEF PolicyNext, policyVars, AddCrawlSeed, RemoveCrawlSeed, Rediscover,
          ReadExclusions, Promote, Verified, SetExactBlock, ReadSeeds,
          ScheduleSeeds
  <2>4. \A p \in Policies : policy'[p].stage = "read" =>
          policy'[p].view = View(policy[p].change, policy[p].pattern)'
    BY <2>1, <2>3 DEF View
  <2> QED BY <2>1, <2>2, <2>3, <2>4 DEF FollowInv
<1> QED BY <1>1, <1>2

(* With one process that changes the rules at a time, an automatic origin  *)
(* that was never seeded is blocked exactly if the operator blocked it or  *)
(* a rule matches it, unless that rule was added while the admission that  *)
(* promoted it was under way and no block was computed for it since.  With *)
(* two processes it need not be: source_rule_race shows how a stale        *)
(* reading is committed, and promotion_race the promotion left out here.   *)
THEOREM OneWriterKeepsBlocks ==
    OneWriter => (PolicySpec => []BlocksFollowRules)
<1> SUFFICES ASSUME OneWriter PROVE PolicySpec => []BlocksFollowRules
  OBVIOUS
<1>1. PolicyInit => FollowInv
  <2> SUFFICES ASSUME PolicyInit PROVE FollowInv
    OBVIOUS
  <2>1. ASSUME NEW o \in Origins \ Unparsable PROVE ~source[o].automatic
    <3> DEFINE b == o \in Unparsable
    <3>1. b \in BOOLEAN /\ ~b
      BY <2>1
    <3>2. source[o] = [NoSource EXCEPT !.automatic = b, !.scheduled = b]
      BY <2>1, ZenonT(30) DEF PolicyInit
    <3> HIDE DEF b
    <3> QED BY <3>1, <3>2 DEF NoSource
  <2>2. Idle \in Recomputation /\ Idle.stage # "read"
    BY DEF Idle, Recomputation
  <2> QED BY <2>1, <2>2, ZenonT(30) DEF PolicyInit, FollowInv
<1>2. RowsInv /\ FollowInv /\ [PolicyNext]_policyVars => FollowInv'
  BY StepFollowInv
<1>3. FollowInv => BlocksFollowRules
  BY DEF FollowInv, BlocksFollowRules, Follows
<1> QED BY <1>1, <1>2, <1>3, RowsInvariant, PTL DEF PolicySpec

-----------------------------------------------------------------------------
(* The verification worker                                                 *)

(* Times are numbers; nothing is assumed of how they compare.              *)
WellFormed ==
    /\ LeaseDuration \in Nat /\ JobTimeout \in Nat /\ CompletionGrace \in Nat
    /\ Late \in Nat
    /\ Skews \subseteq Int

(* Before the lease is completed, only a lease that has expired is lost.   *)
LostOnlyExpired ==
    pc \in {"ensure", "renew", "renewed", "verify", "complete"} /\ left > 0
        => held

WorkInv ==
    /\ WorkerTypeOK
    /\ pc = "idle" => read = 0
    /\ read <= LeaseDuration - left
    /\ LostOnlyExpired
    /\ LeaseCoversWork
    /\ NothingLeftLeased

LEMMA InitInv == WellFormed /\ WorkerInit => WorkInv
<1> SUFFICES ASSUME WellFormed, WorkerInit PROVE WorkInv
  OBVIOUS
<1>1. /\ left \in -Late..LeaseDuration /\ read \in 0..(LeaseDuration + Late)
      /\ timer \in Nat /\ attempt \in 1..2
  BY DEF WellFormed, WorkerInit
<1>2. WorkerTypeOK
  BY <1>1, ZenonT(30) DEF WorkerInit, WorkerTypeOK
<1>3. read <= LeaseDuration - left
  BY DEF WellFormed, WorkerInit
<1> QED
  BY <1>2, <1>3 DEF WorkerInit, WorkInv, LostOnlyExpired, LeaseCoversWork,
                    NothingLeftLeased

LEMMA Numbers ==
    ASSUME WellFormed, WorkerTypeOK
    PROVE  /\ left \in Int /\ read \in Nat /\ timer \in Nat /\ skew \in Int
           /\ Late \in Nat /\ LeaseDuration \in Nat
           /\ JobTimeout \in Nat /\ CompletionGrace \in Nat
           /\ -Late <= left /\ left <= LeaseDuration
BY DEF WellFormed, WorkerTypeOK

LEMMA TypeStep ==
    ASSUME WellFormed, WorkInv, WorkerNext
    PROVE  /\ WorkerTypeOK'
           /\ (pc = "idle" => read = 0)' /\ (read <= LeaseDuration - left)'
<1> USE DEF WorkInv
<1>1. left' \in -Late..LeaseDuration
  <2>1. CASE UNCHANGED left
    BY <2>1 DEF WorkerTypeOK
  <2>2. CASE left' \in -Late..LeaseDuration
    BY <2>2
  <2>3. CASE left' = Greatest(left, LeaseDuration - read)
    BY <2>3, Numbers DEF Greatest
  <2>4. CASE Tick
    BY <2>4, Numbers DEF Tick
  <2> QED
    BY <2>1, <2>2, <2>3, <2>4
    DEF WorkerNext, Claim, ClaimFails, Ensure, Renewed, ReadClock, Renew,
        CompleteVerification, AbandonVerification, Succeeds, Effect, Refused,
        CallFails, Verifies, VerifyFails, Cancel, Reclaim
<1>2. read' \in Nat /\ timer' \in Nat
  BY Numbers
  DEF WorkerNext, Claim, ClaimFails, Ensure, Renewed, ReadClock, Renew,
      CompleteVerification, AbandonVerification, Succeeds, Refused, AfterError,
      CallFails, Verifies, VerifyFails, Cancel, Reclaim, Tick, StartCall,
      StartVerify, Return, Deadline, WorkerTypeOK
<1>3. (read <= LeaseDuration - left)'
  <2>1. CASE read' = 0
    BY <1>1, <2>1, Numbers
  <2>2. CASE UNCHANGED <<read, left>>
    BY <2>2
  <2>3. CASE Tick
    BY <2>3, Numbers DEF Tick, WorkerTypeOK, Call
  <2> QED
    BY <2>1, <2>2, <2>3, Numbers
    DEF WorkerNext, Claim, ClaimFails, Ensure, Renewed, ReadClock, Renew,
        CompleteVerification, AbandonVerification, Succeeds, Refused, AfterError,
        CallFails, Verifies, VerifyFails, Cancel, Reclaim, StartCall,
        StartVerify, Return
<1>4. read' \in 0..(LeaseDuration + Late)
  BY <1>1, <1>2, <1>3, Numbers
<1>5. attempt' \in 1..2
  BY DEF WorkerNext, Claim, ClaimFails, Ensure, Renewed, ReadClock, Renew,
         CompleteVerification, AbandonVerification, Succeeds, Refused,
         CallFails, Verifies, MaxAttemptsPerCycle, VerifyFails, Cancel, Reclaim,
         Tick, WorkerTypeOK
<1>6. pc' \in {"idle", "ensure", "renew", "renewed", "verify", "complete",
               "abandon"}
  BY DEF WorkerNext, Claim, ClaimFails, Ensure, Renewed, ReadClock, Renew,
         CompleteVerification, AbandonVerification, Refused, AfterError,
         CallFails, Verifies, VerifyFails, Cancel, Reclaim, Tick, StartCall,
         StartVerify, Return, WorkerTypeOK
<1>7. skew' \in Skews /\ held' \in BOOLEAN /\ undisturbed' \in BOOLEAN
  BY ZenonT(30) DEF WorkerNext, Claim, ClaimFails, Ensure, Renewed, ReadClock, Renew,
         CompleteVerification, AbandonVerification, Succeeds, Effect, Refused,
         CallFails, Verifies, VerifyFails, Cancel, Reclaim, Tick, WorkerTypeOK
<1>8. timedOut' \in BOOLEAN
  BY ZenonT(30) DEF WorkerNext, Claim, ClaimFails, Ensure, Renewed, ReadClock, Renew,
         CompleteVerification, AbandonVerification, Succeeds, Refused,
         CallFails, Verifies, VerifyFails, Cancel, Reclaim, Tick, WorkerTypeOK
<1>9. (pc = "idle" => read = 0)'
  BY DEF WorkerNext, Claim, ClaimFails, Ensure, Renewed, ReadClock, Renew,
         CompleteVerification, AbandonVerification, Refused, AfterError,
         CallFails, Verifies, VerifyFails, Cancel, Reclaim, Tick, Call,
         StartCall, StartVerify, Return
<1> QED
  BY <1>1, <1>2, <1>3, <1>4, <1>5, <1>6, <1>7, <1>8, <1>9 DEF WorkerTypeOK

(* What a verification that starts finds.                                  *)
LEMMA BudgetCovers ==
    ASSUME WellFormed, WorkerTypeOK, hasCompletionBudget(Budget)
    PROVE  left > JobTimeout + CompletionGrace + skew
BY Numbers DEF hasCompletionBudget, Budget

LEMMA InvStep == WellFormed /\ WorkInv /\ [WorkerNext]_workerVars => WorkInv'
<1> SUFFICES ASSUME WellFormed, WorkInv, [WorkerNext]_workerVars PROVE WorkInv'
  OBVIOUS
<1> USE DEF WorkInv
<1>1. CASE UNCHANGED workerVars
  BY <1>1 DEF workerVars, WorkerTypeOK, LostOnlyExpired, LeaseCoversWork,
              NothingLeftLeased
<1>2. CASE WorkerNext
  <2>1. /\ WorkerTypeOK'
        /\ (pc = "idle" => read = 0)' /\ (read <= LeaseDuration - left)'
    BY <1>2, TypeStep, ZenonT(30)
  <2>2. (LostOnlyExpired /\ LeaseCoversWork /\ NothingLeftLeased)'
    <3> USE DEF LostOnlyExpired, LeaseCoversWork, NothingLeftLeased
    <3>1. CASE Claim \/ ClaimFails
      BY <3>1 DEF Claim, ClaimFails
    <3>2. CASE Ensure \/ Renewed
      <4>1. CASE hasCompletionBudget(Budget)
        BY <3>2, <4>1, BudgetCovers, Numbers DEF Ensure, Renewed, StartVerify
      <4>2. CASE ~hasCompletionBudget(Budget)
        BY <3>2, <4>2 DEF Ensure, Renewed, StartCall
      <4> QED
        BY <4>1, <4>2
    <3>3. CASE ReadClock
      BY <3>3 DEF ReadClock
    <3>4. CASE Renew
      BY <3>4 DEF Renew, Succeeds, Effect, Authority
    <3>5. CASE CompleteVerification \/ AbandonVerification
      BY <3>5 DEF CompleteVerification, AbandonVerification, Succeeds, Effect,
                  Return
    <3>6. CASE Refused
      <4>1. ~(held /\ left > 0)
        BY <3>6, Numbers DEF Refused, Authority
      <4> QED
        BY <3>6, <4>1 DEF Refused, AfterError, StartCall, Return
    <3>7. CASE CallFails
      BY <3>7 DEF CallFails, AfterError, StartCall, Return
    <3>8. ASSUME NEW transient \in BOOLEAN, NEW delayed \in BOOLEAN,
                 Verifies(transient, delayed)
          PROVE  (LostOnlyExpired /\ LeaseCoversWork /\ NothingLeftLeased)'
      BY <3>8, Numbers DEF Verifies, StartCall
    <3>9. CASE VerifyFails
      BY <3>9 DEF VerifyFails, StartCall
    <3>10. CASE Cancel
      BY <3>10 DEF Cancel, Return
    <3>11. CASE Reclaim
      <4>1. pc \in {"verify", "complete"} => skew < 0
        BY <3>11, Numbers DEF Reclaim
      <4> QED
        BY <3>11, <4>1, Numbers DEF Reclaim
    <3>12. CASE Tick
      BY <3>12, Numbers DEF Tick, Deadline
    <3> QED
      BY <1>2, <3>1, <3>2, <3>3, <3>4, <3>5, <3>6, <3>7, <3>8, <3>9, <3>10,
         <3>11, <3>12 DEF WorkerNext
  <2> QED
    BY <2>1, <2>2
<1> QED
  BY <1>1, <1>2

LEMMA WorkInvariant == WellFormed => (WorkerSpec => []WorkInv)
<1> SUFFICES ASSUME WellFormed PROVE WorkerSpec => []WorkInv
  OBVIOUS
<1>1. WorkerInit => WorkInv
  BY InitInv
<1>2. WorkInv /\ [WorkerNext]_workerVars => WorkInv'
  BY InvStep
<1> QED
  BY <1>1, <1>2, PTL DEF WorkerSpec

(* The verification of RunOnce, each retry of it and the completion all    *)
(* end before the lease does, whatever the lengths of lease and timeouts;  *)
(* and RunOnce leaves no origin leased behind it, unless a call of the     *)
(* store failed, it was canceled or the origin was blocked.                *)
THEOREM LeaseIsForWork == WellFormed => (WorkerSpec => []LeaseFitsWork)
<1> SUFFICES ASSUME WellFormed PROVE WorkerSpec => []LeaseFitsWork
  OBVIOUS
<1>1. WorkInv => LeaseFitsWork
  BY DEF WorkInv, LeaseFitsWork
<1> QED
  BY <1>1, WorkInvariant, PTL

-----------------------------------------------------------------------------
(* The heartbeat of a service.                                             *)

HeartbeatBound == MaxClock \in Nat

(* Writes that may still decide what the row shows.                        *)
Writes == sent \cup {row}

Delivered(x) == row.started > x.started \/ row = x.write

(* A process is known by the time it was started at; no write is from the  *)
(* future; of the writes of a process that waits for a reply, or stopped,  *)
(* its last one is the newest, and is on its way or was delivered; and a   *)
(* process that runs has been accepted once.                               *)
ProcessOK(x) ==
    /\ x.pc = "new" => x.call = "start"
    /\ x.pc # "new" => x.started \in 1..clock /\ x.write.started = x.started
    /\ x.pc \in {"write", "stopped"} =>
           \A w \in Writes : w.started = x.started =>
               w.updated < x.write.updated \/ w = x.write
    /\ x.pc = "write" => x.write \in sent \/ Delivered(x)
    /\ x.pc = "stopped" => Delivered(x)
    /\ \/ x.pc \in {"running", "stopped", "failed"}
       \/ x.pc \in {"read", "write"} /\ x.call # "start"
       => row.started >= x.started

HeartbeatInv ==
    /\ HeartbeatTypeOK
    /\ \A w \in Writes : w.updated <= clock
    /\ \A p \in Processes : ProcessOK(process[p])
    /\ \A p, q \in Processes :
        p # q /\ process[p].pc # "new" /\ process[q].pc # "new" =>
            process[p].started # process[q].started

Process ==
    [pc : {"new", "running", "read", "write", "stopped", "failed", "dead"},
     call : {"start", "tick", "stop"},
     started : 0..MaxClock, state : Shown, write : Write]

LEMMA InitHeartbeat == HeartbeatBound /\ HeartbeatInit => HeartbeatInv
<1> SUFFICES ASSUME HeartbeatBound, HeartbeatInit PROVE HeartbeatInv
  OBVIOUS
<1>1. NoWrite \in Write /\ "starting" \in Shown /\ 0 \in 0..MaxClock
  BY DEF HeartbeatBound, NoWrite, Write, Shown
<1>2. \A p \in Processes : process[p] \in Process /\ process[p].pc = "new"
  BY <1>1 DEF HeartbeatInit, Process
<1>3. HeartbeatTypeOK
  BY <1>1, <1>2 DEF HeartbeatInit, HeartbeatTypeOK, Process
<1> QED
  BY <1>2, <1>3
  DEF HeartbeatInit, HeartbeatInv, ProcessOK, Writes, NoWrite

(* A step that changes one process, to one with the same start.            *)
LEMMA ProcessChanges ==
    ASSUME HeartbeatInv, NEW p \in Processes, NEW x \in Process,
           process' = [process EXCEPT ![p] = x],
           process[p].pc # "new", x.started = process[p].started,
           UNCHANGED <<clock, row>>, sent' \subseteq sent,
           \A q \in Processes \ {p} : process[q].pc = "write" /\
               process[q].write \in sent => process[q].write \in sent',
           ProcessOK(x)'
    PROVE  HeartbeatInv'
<1>1. HeartbeatTypeOK'
  BY DEF HeartbeatInv, HeartbeatTypeOK, Process
<1>2. Writes' \subseteq Writes
  BY DEF Writes
<1>3. ASSUME NEW q \in Processes PROVE ProcessOK(process[q])'
  <2>1. CASE q = p
    <3>1. process'[q] = x
      BY <2>1, ZenonT(30) DEF HeartbeatInv, HeartbeatTypeOK
    <3> QED BY <3>1 DEF ProcessOK, Delivered
  <2>2. CASE q # p
    <3>1. process'[q] = process[q] /\ ProcessOK(process[q])
      BY <2>2 DEF HeartbeatInv, HeartbeatTypeOK
    <3> QED BY <1>2, <2>2, <3>1 DEF ProcessOK, Delivered
  <2> QED BY <2>1, <2>2
<1> QED
  BY <1>1, <1>2, <1>3 DEF HeartbeatInv, HeartbeatTypeOK

(* Calls begin and end, and the state of the work changes.                 *)
LEMMA StepProcess ==
    ASSUME HeartbeatBound, HeartbeatInv, NEW p \in Processes,
           \/ TickerWrites(p) \/ Reply(p) \/ WriteFails(p) \/ Die(p)
           \/ \E state \in States : Observe(p, state)
           \/ \E state \in Final : Stop(p, state)
    PROVE  HeartbeatInv'
<1>1. /\ process \in [Processes -> Process] /\ process[p] \in Process
      /\ ProcessOK(process[p])
  BY DEF HeartbeatInv, HeartbeatTypeOK, Process
<1>2. ASSUME NEW state \in Shown, NEW call \in {"tick", "stop"},
             process[p].pc = "running", ReadState(p, call, state),
             UNCHANGED <<clock, row, sent>>
      PROVE  HeartbeatInv'
  <2>1. PICK w : w = [started |-> process[p].started, updated |-> 0,
                      state |-> state]
    BY ZenonT(30)
  <2>2. PICK x : x = [process[p] EXCEPT !.pc = "read", !.call = call,
                                        !.state = state, !.write = w]
    OBVIOUS
  <2>3. process' = [process EXCEPT ![p] = x]
    BY <1>1, <1>2, <2>1, <2>2, ZenonT(30) DEF ReadState
  <2>4. w \in Write /\ w.started = process[p].started
    BY <1>1, <2>1 DEF HeartbeatBound, Write, Process
  <2>5. /\ x \in Process /\ x.pc = "read" /\ x.started = process[p].started
        /\ x.write = w /\ x.call = call
    BY <1>1, <2>2, <2>4, ZenonT(30) DEF Process
  <2>6. ProcessOK(x)'
    BY <1>1, <1>2, <2>4, <2>5 DEF ProcessOK, Process
  <2> QED BY <1>1, <1>2, <2>3, <2>5, <2>6, ProcessChanges, ZenonT(30)
<1>3. CASE TickerWrites(p)
  BY <1>1, <1>2, <1>3 DEF TickerWrites, Process
<1>4. ASSUME NEW state \in Final, Stop(p, state) PROVE HeartbeatInv'
  BY <1>2, <1>4 DEF Stop, Shown
<1>5. ASSUME NEW state \in States, Observe(p, state) PROVE HeartbeatInv'
  <2>0. PICK x : x = [process[p] EXCEPT !.state = state]
    BY ZenonT(30)
  <2>1. /\ process' = [process EXCEPT ![p] = x]
        /\ UNCHANGED <<clock, row, sent>> /\ process[p].pc # "new"
    BY <1>1, <1>5, <2>0 DEF Observe
  <2>2. /\ x \in Process /\ x.started = process[p].started
        /\ x.pc = process[p].pc /\ x.call = process[p].call
        /\ x.write = process[p].write
    BY <1>1, <1>5, <2>0, ZenonT(30) DEF Process, Shown
  <2>3. ProcessOK(x)'
    BY <1>1, <2>1, <2>2 DEF ProcessOK, Delivered, Writes
  <2> QED BY <2>1, <2>2, <2>3, ProcessChanges, ZenonT(30)
<1>6. ASSUME NEW new \in {"running", "stopped", "failed", "dead"},
             process' = [process EXCEPT ![p].pc = new],
             process[p].pc # "new", UNCHANGED <<clock, row>>,
             sent' \in {sent, sent \ {process[p].write}},
             new = "stopped" => /\ process[p].pc = "write"
                                /\ process[p].write \notin sent,
             new = "running" => \/ process[p].call = "tick"
                                \/ process[p].write \notin sent,
             new = "failed" => process[p].call = "stop",
             \/ process[p].pc = "write"
             \/ new = "dead" /\ sent' = sent
      PROVE  HeartbeatInv'
  <2>0. PICK x : x = [process[p] EXCEPT !.pc = new]
    BY ZenonT(30)
  <2>1. process' = [process EXCEPT ![p] = x]
    BY <1>1, <1>6, <2>0
  <2>2. /\ x \in Process /\ x.started = process[p].started
        /\ x.pc = new /\ x.call = process[p].call /\ x.write = process[p].write
    BY <1>1, <2>0 DEF Process
  <2>3. process[p].write \notin sent /\ process[p].pc = "write" =>
            Delivered(process[p]) /\ row.started >= process[p].started
    BY <1>1 DEF ProcessOK, Delivered, HeartbeatInv, HeartbeatTypeOK, Process,
                Write
  <2>4. ProcessOK(x)'
    BY <1>1, <1>6, <2>2, <2>3 DEF ProcessOK, Delivered, Writes
  <2>5. ASSUME NEW q \in Processes \ {p}, process[q].pc = "write",
               process[q].write \in sent
        PROVE  process[q].write \in sent'
    <3>1. CASE process[p].pc = "write"
      <4>a. /\ ProcessOK(process[p]) /\ ProcessOK(process[q])
            /\ process[p].started # process[q].started
        BY <2>5, <3>1, ZenonT(30) DEF HeartbeatInv
      <4>b. /\ process[p].write.started = process[p].started
            /\ process[q].write.started = process[q].started
        BY <2>5, <3>1, <4>a, ZenonT(30) DEF ProcessOK
      <4>1. process[q].write.started # process[p].write.started
        BY <4>a, <4>b
      <4> QED BY <1>6, <2>5, <4>1, SMTT(30)
    <3>2. CASE process[p].pc # "write"
      BY <1>6, <2>5, <3>2
    <3> QED BY <3>1, <3>2
  <2> QED BY <1>6, <2>1, <2>2, <2>4, <2>5, ProcessChanges, ZenonT(30)
<1>7. CASE Reply(p)
  <2>1. PICK new \in {"running", "stopped"} :
            process' = [process EXCEPT ![p].pc = new]
    BY <1>1, <1>7, ZenonT(30) DEF Reply, Returned, Process
  <2>2. /\ process[p].pc = "write" /\ process[p].write \notin sent
        /\ UNCHANGED <<clock, row, sent>>
    BY <1>7 DEF Reply
  <2> QED BY <1>6, <2>1, <2>2, ZenonT(30)
<1>8. CASE WriteFails(p)
  <2>1. PICK new \in {"running", "dead", "failed"} :
            /\ process' = [process EXCEPT ![p].pc = new]
            /\ new = "running" => process[p].call = "tick"
            /\ new = "failed" => process[p].call = "stop"
    BY <1>1, <1>8, ZenonT(30) DEF WriteFails, Returned, Process
  <2> QED BY <1>6, <1>8, <2>1, ZenonT(30) DEF WriteFails
<1>9. CASE Die(p)
  BY <1>6, <1>9 DEF Die
<1> QED BY <1>3, <1>4, <1>5, <1>7, <1>8, <1>9

(* The clock is read: a process starts, or stamps its write.               *)
LEMMA StepClock ==
    ASSUME HeartbeatBound, HeartbeatInv, NEW p \in Processes,
           Start(p) \/ Send(p)
    PROVE  HeartbeatInv'
<1>1. /\ process \in [Processes -> Process] /\ process[p] \in Process
      /\ ProcessOK(process[p]) /\ row \in Write /\ sent \in SUBSET Write
      /\ MaxClock \in Nat /\ clock \in Nat
  BY DEF HeartbeatBound, HeartbeatInv, HeartbeatTypeOK, Process
<1>2. /\ clock' = clock + 1 /\ clock' \in 1..MaxClock /\ row' = row
      /\ clock + 1 \in 0..MaxClock
  BY <1>1 DEF Start, Send, TakeTime, Now
<1>3. ASSUME NEW x \in Process, process' = [process EXCEPT ![p] = x],
             x.pc \in {"read", "write"},
             \/ process[p].pc = "new" /\ x.started = clock + 1
             \/ process[p].pc # "new" /\ x.started = process[p].started,
             ProcessOK(x)',
             sent' \in SUBSET Write, sent \subseteq sent',
             \A w \in sent' : \/ w \in sent
                              \/ /\ w.started = process[p].started
                                 /\ w.updated = clock + 1
                                 /\ process[p].pc # "new"
      PROVE  HeartbeatInv'
  <2>1. HeartbeatTypeOK'
    BY <1>1, <1>2, <1>3 DEF HeartbeatInv, HeartbeatTypeOK, Process
  <2>2. \A w \in Writes' : w.updated <= clock'
    BY <1>1, <1>2, <1>3 DEF HeartbeatInv, Writes, Write
  <2>3. \A q \in Processes :
            /\ process'[q] = IF q = p THEN x ELSE process[q]
            /\ process[q] \in Process /\ ProcessOK(process[q])
    BY <1>1, <1>3, ZenonT(30) DEF HeartbeatInv
  <2>4. ASSUME NEW q \in Processes \ {p} PROVE ProcessOK(process[q])'
    <3> DEFINE y == process[q]
    <3>1. process'[q] = y /\ y \in Process /\ ProcessOK(y)
      BY <2>3
    <3>2. \A w \in Writes' : w.started = y.started /\ y.pc # "new" =>
              w \in Writes
      BY <1>1, <1>2, <1>3, <3>1, ZenonT(30) DEF HeartbeatInv, Writes
    <3> HIDE DEF y
    <3>3. y.pc # "new" => y.started \in 1..clock' /\ y.write.started = y.started
      BY <1>1, <1>2, <3>1, SMTT(30) DEF ProcessOK
    <3>4. y.pc \in {"write", "stopped"} =>
              \A w \in Writes' : w.started = y.started =>
                  w.updated < y.write.updated \/ w = y.write
      BY <3>1, <3>2, SMTT(30) DEF ProcessOK
    <3> QED BY <1>2, <1>3, <3>1, <3>3, <3>4, ZenonT(30) DEF ProcessOK, Delivered
  <2>5. ProcessOK(process[p])'
    BY <1>3, <2>3, ZenonT(30) DEF ProcessOK, Delivered
  <2>6. ASSUME NEW q \in Processes, NEW r \in Processes, q # r,
               process'[q].pc # "new", process'[r].pc # "new"
        PROVE  process'[q].started # process'[r].started
    <3>1. \A i \in Processes : i # p =>
              /\ process'[i] = process[i]
              /\ process'[i].pc # "new" => process[i].started \in 1..clock
      BY <2>3, SMTT(30) DEF ProcessOK
    <3>2. process'[p] = x
      BY <2>3
    <3>3. CASE q # p /\ r # p
      BY <2>6, <3>1, <3>3, ZenonT(30) DEF HeartbeatInv
    <3>4. CASE q = p \/ r = p
      <4>1. process'[p].pc # "new"
        BY <2>6, <3>4
      <4> QED BY <1>1, <1>3, <2>3, <2>6, <3>1, <3>2, <3>4, <4>1, SMTT(30)
                 DEF HeartbeatInv
    <3> QED BY <3>3, <3>4
  <2> QED BY <2>1, <2>2, <2>4, <2>5, <2>6 DEF HeartbeatInv
<1>4. CASE Start(p)
  <2>1. PICK w : w = [started |-> clock + 1, updated |-> 0,
                      state |-> "starting"]
    BY ZenonT(30)
  <2>2. PICK x : x = [process[p] EXCEPT !.pc = "read", !.started = clock + 1,
                                        !.write = w]
    OBVIOUS
  <2>3. /\ process' = [process EXCEPT ![p] = x]
        /\ process[p].pc = "new" /\ UNCHANGED sent
    BY <1>1, <1>4, <2>1, <2>2, ZenonT(30) DEF Start, Now
  <2>4. w \in Write /\ w.started = clock + 1
    BY <1>1, <1>2, <2>1 DEF Write, Shown
  <2>5. /\ x \in Process /\ x.pc = "read" /\ x.started = clock + 1
        /\ x.write = w /\ x.call = process[p].call
    BY <1>1, <1>2, <2>2, <2>4, ZenonT(30) DEF Process
  <2>6. x.call = "start"
    BY <2>3, <2>5, ZenonT(30) DEF HeartbeatInv, ProcessOK
  <2>7. ProcessOK(x)'
    BY <1>1, <1>2, <2>4, <2>5, <2>6, SMTT(30) DEF ProcessOK
  <2> QED BY <1>1, <1>3, <2>3, <2>5, <2>7, ZenonT(30)
<1>5. CASE Send(p)
  <2>1. PICK w : w = [process[p].write EXCEPT !.updated = clock + 1]
    BY ZenonT(30)
  <2>2. PICK x : x = [process[p] EXCEPT !.pc = "write", !.write = w]
    OBVIOUS
  <2>3. w \in Write /\ w.started = process[p].started /\ w.updated = clock + 1
    BY <1>1, <1>2, <1>5, <2>1 DEF Send, Write, Process, ProcessOK
  <2>4. /\ x \in Process /\ x.pc = "write" /\ x.started = process[p].started
        /\ x.write = w /\ x.call = process[p].call
    BY <1>1, <2>2, <2>3, ZenonT(30) DEF Process
  <2>5. /\ process' = [process EXCEPT ![p] = x]
        /\ process[p].pc = "read" /\ sent' = sent \cup {w}
    <3>1. /\ process' = [process EXCEPT ![p].pc = "write",
                                        ![p].write.updated = clock + 1]
          /\ process[p].pc = "read" /\ sent' = sent \cup {process'[p].write}
      BY <1>5 DEF Send, Now
    <3>2. process' = [process EXCEPT ![p] = x]
      BY <1>1, <2>1, <2>2, <3>1, ZenonT(30) DEF Process, Write
    <3>3. process'[p] = x
      BY <1>1, <3>2
    <3> QED BY <2>4, <3>1, <3>2, <3>3, ZenonT(30)
  <2>6. ProcessOK(x)'
    <3>1. \A v \in Writes' : v.updated < w.updated \/ v = w
      BY <1>1, <1>2, <2>3, <2>5 DEF HeartbeatInv, Writes, Write
    <3>2. /\ process[p].started \in 1..clock
          /\ process[p].call # "start" => row.started >= process[p].started
      BY <1>1, <2>5, ZenonT(30) DEF ProcessOK
    <3>3. x.started \in 1..clock' /\ x.write.started = x.started
      BY <1>1, <1>2, <2>3, <2>4, <3>2, SMTT(30)
    <3>4. x.call # "start" => row'.started >= x.started
      BY <1>2, <2>4, <3>2
    <3>5. x.pc = "write" /\ x.write \in sent' /\ x.write = w
      BY <2>4, <2>5
    <3> QED BY <3>1, <3>3, <3>4, <3>5, SMTT(30) DEF ProcessOK
  <2> QED BY <1>1, <1>3, <2>3, <2>4, <2>5, <2>6, ZenonT(30)
<1> QED BY <1>4, <1>5

(* A write arrives, late or not.                                           *)
LEMMA StepDeliver ==
    ASSUME HeartbeatInv, NEW w \in sent, Deliver(w)
    PROVE  HeartbeatInv'
<1>1. /\ process \in [Processes -> Process] /\ row \in Write /\ w \in Write
      /\ sent \in SUBSET Write
  BY DEF HeartbeatInv, HeartbeatTypeOK, Process
<1>2. /\ row' = IF Accepts(w) THEN w ELSE row
      /\ sent' = sent \ {w} /\ UNCHANGED <<clock, process>>
  BY DEF Deliver
<1>3. Writes' \subseteq Writes
  BY <1>2 DEF Writes
<1>4. row'.started >= row.started
  BY <1>1, <1>2, SMTT(30) DEF Accepts, Write
<1>5. ASSUME NEW p \in Processes PROVE ProcessOK(process[p])'
  <2> DEFINE x == process[p]
  <2>1. x \in Process /\ ProcessOK(x) /\ process'[p] = x
    BY <1>1, <1>2, ZenonT(30) DEF HeartbeatInv
  <2> HIDE DEF x
  <2>2. ASSUME x.pc \in {"write", "stopped"}, Delivered(x)
        PROVE  row'.started > x.started \/ row' = x.write
    <3>1. CASE row.started > x.started
      BY <1>1, <1>2, <1>4, <2>1, <3>1 DEF Write, Process
    <3>2. CASE row = x.write /\ ~Accepts(w)
      BY <1>2, <3>2
    <3>3. CASE row = x.write /\ Accepts(w)
      <4>1. w.started = x.started => w.updated < row.updated \/ w = row
        BY <2>1, <2>2, <3>3 DEF ProcessOK, Writes
      <4>2. row.started = x.started
        BY <2>1, <2>2, <3>3 DEF ProcessOK
      <4> QED BY <1>1, <1>2, <3>3, <4>1, <4>2 DEF Accepts, Write
    <3> QED BY <2>2, <3>1, <3>2, <3>3 DEF Delivered
  <2>3. ASSUME x.pc = "write"
        PROVE  x.write \in sent' \/ row'.started > x.started \/ row' = x.write
    <3>1. CASE w # x.write
      BY <1>2, <2>1, <2>2, <2>3, <3>1 DEF ProcessOK
    <3>2. CASE w = x.write /\ Accepts(w)
      BY <1>2, <3>2, ZenonT(30)
    <3>3. CASE w = x.write /\ ~Accepts(w)
      <4>1. w.started = x.started
        BY <2>1, <2>3, <3>3, ZenonT(30) DEF ProcessOK
      <4>2. row.started = x.started => row.updated < w.updated \/ row = w
        BY <2>1, <2>3, <3>3 DEF ProcessOK, Writes
      <4> QED BY <1>1, <1>2, <3>3, <4>1, <4>2, SMTT(30) DEF Accepts, Write
    <3> QED BY <3>1, <3>2, <3>3
  <2>4. row.started >= x.started => row'.started >= x.started
    BY <1>1, <1>2, <1>4, <2>1 DEF Write, Process
  <2> QED
    BY <1>2, <1>3, <2>1, <2>2, <2>3, <2>4 DEF ProcessOK, Delivered
<1>6. HeartbeatTypeOK'
  BY <1>1, <1>2 DEF HeartbeatInv, HeartbeatTypeOK
<1> QED
  BY <1>2, <1>3, <1>5, <1>6 DEF HeartbeatInv

(* Once stop has returned without error the row shows the state that the   *)
(* process ended in until a later process writes, and once a process has   *)
(* started the row never goes back to an earlier one, however many         *)
(* processes share the slot and however late their writes arrive.          *)
THEOREM HeartbeatsCanBeTrusted ==
    HeartbeatBound => (HeartbeatSpec => []HeartbeatReliable)
<1> SUFFICES ASSUME HeartbeatBound PROVE HeartbeatSpec => []HeartbeatReliable
  OBVIOUS
<1>1. HeartbeatInit => HeartbeatInv
  BY InitHeartbeat
<1>2. HeartbeatInv /\ [HeartbeatNext]_heartbeatVars => HeartbeatInv'
  <2> SUFFICES ASSUME HeartbeatInv, [HeartbeatNext]_heartbeatVars
               PROVE  HeartbeatInv'
    BY ZenonT(30)
  <2>1. CASE UNCHANGED heartbeatVars
    BY <2>1 DEF heartbeatVars, HeartbeatInv, HeartbeatTypeOK, ProcessOK,
                Writes, Delivered
  <2> QED BY <2>1, StepProcess, StepClock, StepDeliver DEF HeartbeatNext
<1>3. HeartbeatInv => HeartbeatReliable
  <2> SUFFICES ASSUME HeartbeatInv PROVE LastStateStays
    BY DEF HeartbeatInv, HeartbeatReliable
  <2>1. \A p \in Processes : ProcessOK(process[p])
    BY DEF HeartbeatInv
  <2> QED BY <2>1, ZenonT(30) DEF LastStateStays, ProcessOK, Delivered
<1> QED BY <1>1, <1>2, <1>3, PTL DEF HeartbeatSpec

=============================================================================
