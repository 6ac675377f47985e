------------------------- MODULE VerificationQueue -------------------------
(***************************************************************************)
(* The durable verification queue of JoshBot: the PostgreSQL table         *)
(* verification_queue, the verification facts kept beside it, and the      *)
(* clients that work on them: verification workers, the discovery process  *)
(* that admits probes, and the operator.                                   *)
(*                                                                         *)
(* Every queue call first reads the database clock and then runs the       *)
(* statement or transaction that uses the value it read.  The two are      *)
(* separate steps here: time may pass, and other clients may commit,       *)
(* between them.  A transaction is one step, the one that commits it.      *)
(*                                                                         *)
(* NULL is NoTime in a column of times and NoOwner in lease_owner.  An     *)
(* origin that has no row in the queue has the row AbsentRow.              *)
(***************************************************************************)
EXTENDS Integers, FiniteSets

CONSTANTS
    NumOrigins,        \* origins are 1..NumOrigins, in canonical order
    Workers,           \* worker processes
    IDOf,              \* the configured or generated ID of each worker
    NoOwner,           \* lease_owner IS NULL
    Crawlers,          \* discovery processes
    Avoided,           \* origins matched by the automatic-crawl exclusions
    Seeded,            \* origins that the operator seeded as sources
    Automatic,         \* origins that were promoted to sources
    LeaseDuration,     \* QueueConfig.LeaseDuration
    MinOriginInterval, \* QueueConfig.MinOriginInterval
    RecheckAfter,      \* worker.Config.RecheckInterval
    RetrySteps,        \* length of the schedule of retry.Policy.Delay
    RetryDelays,       \* RetryDelays[n]: what Delay may give for a streak of n
    BackoffSteps,      \* transientRetryBackoffSteps
    StaleRecheck,      \* staleParticipantRecheckInterval
    ReprobeSteps,      \* misses after which reprobeInterval stays the same
    ReprobeDelay,      \* ReprobeDelay[m]: reprobeInterval after m earlier misses
    MaxPendingProbes,  \* AutomaticCrawlConfig.MaxPendingProbes
    RequestTimes,      \* availability times that callers ask for
    Schedulable,       \* origins that the operator schedules
    Blockable,         \* origins whose crawl block changes
    PauseStates,       \* values that the pause of verification is set to
    Outcomes,          \* the results that verification can produce
    MaxTime,           \* bound: the clock stops here
    LastDiscovery,     \* bound: no evidence is recorded after this time
    MaxClaims          \* bound: claims of one origin

Origins == 1..NumOrigins
Time == Nat
NoTime == -1
MaybeTime == Time \cup {NoTime}
Owners == {IDOf[w] : w \in Workers}
UniqueIDs == \A v, w \in Workers : IDOf[v] = IDOf[w] => v = w
Greatest(a, b) == IF a >= b THEN a ELSE b
Least(a, b) == IF a <= b THEN a ELSE b

(***************************************************************************)
(* The results of declaration.Verifier, as the queue tells them apart:     *)
(* "miss" is absent, invalid, unsupported_version or                       *)
(* cross_origin_redirect; "denied" is robots_denied; "transient" and       *)
(* "terminal" are unavailable with a category that is, or is not,          *)
(* transient.                                                              *)
(***************************************************************************)
AllOutcomes == {"valid", "miss", "denied", "transient", "terminal"}
shouldReprobeOutcome(r) == r \in {"miss", "denied"}
Authoritative(r) == r \in {"valid", "miss"}

ASSUME ConstantsAssumption ==
    /\ NumOrigins \in Nat \ {0}
    /\ NoOwner \notin Owners
    /\ Avoided \subseteq Origins
    /\ Seeded \subseteq Origins
    /\ Automatic \subseteq Origins
    /\ LeaseDuration \in Nat \ {0}
    /\ MinOriginInterval \in Nat \ {0}
    /\ RecheckAfter \in Nat \ {0}
    /\ RetrySteps \in Nat \ {0}
    /\ RetryDelays \in [1..RetrySteps -> SUBSET Nat]
    /\ BackoffSteps \in Nat
    /\ StaleRecheck \in Nat
    /\ ReprobeSteps \in Nat
    /\ ReprobeDelay \in [0..ReprobeSteps -> Nat]
    /\ MaxPendingProbes \in Nat \ {0}
    /\ RequestTimes \subseteq Nat
    /\ Schedulable \subseteq Origins
    /\ Blockable \subseteq Origins
    /\ PauseStates \subseteq BOOLEAN
    /\ Outcomes \subseteq AllOutcomes
    /\ MaxTime \in Nat
    /\ LastDiscovery \in Nat
    /\ MaxClaims \in Nat

VARIABLES
    now,        \* clock_timestamp() of the database
    queue,      \* verification_queue, by origin
    misses,     \* verification_reprobe_state.miss_count
    facts,      \* origins and the newest authoritative verification_observations
    scheduled,  \* discovery_source_schedule: the origins that are crawled
    discovered, \* discovery_candidates.last_discovered_at
    blocked,    \* discovery_source_state.crawl_blocked
    paused,     \* crawl_control.verification_paused
    lease,      \* the Lease value each worker holds
    read,       \* the clock each worker has read for the queue call it is making
    batch,      \* the probe admission each crawler is making
    demand,     \* the operator's Schedule call, with the clock it read
    history     \* per origin: how many claims ever, and when the last one was

vars == <<now, queue, misses, facts, scheduled, discovered, blocked, paused,
          lease, read, batch, demand, history>>

-----------------------------------------------------------------------------
AbsentRow == [mode |-> "none", available |-> 0, gen |-> 0, owner |-> NoOwner,
              expires |-> NoTime, claimed |-> NoTime,
              failures |-> 0, next |-> NoTime]
NewRow(m, t) == [AbsentRow EXCEPT !.mode = m, !.available = t]
Queued(o) == queue[o].mode # "none"

NoLease == [origin |-> 1, gen |-> 0, claimed |-> 0, token |-> 0]
NoBatch == [stage |-> "idle", cands |-> {}, at |-> 0]
NoDemand == [origin |-> 0, want |-> 0, at |-> 0]
NoFacts == [outcome |-> "none", at |-> 0, participated |-> FALSE, checked |-> NoTime]

Row == [mode : {"none", "probe", "reprobe", "recurring"}, available : Time,
        gen : Nat, owner : Owners \cup {NoOwner}, expires : MaybeTime,
        claimed : MaybeTime, failures : Nat, next : MaybeTime]
Lease == [origin : Origins, gen : Nat, claimed : Time, token : Nat]

TypeOK ==
    /\ now \in Time
    /\ queue \in [Origins -> Row]
    /\ misses \in [Origins -> Nat]
    /\ facts \in [Origins -> [outcome : {"none", "valid", "miss"}, at : Time,
                              participated : BOOLEAN, checked : MaybeTime]]
    /\ scheduled \in SUBSET Origins
    /\ discovered \in [Origins -> MaybeTime]
    /\ blocked \in SUBSET Origins
    /\ paused \in BOOLEAN
    /\ lease \in [Workers -> Lease]
    /\ read \in [Workers -> MaybeTime]
    /\ batch \in [Crawlers -> [stage : {"idle", "recorded", "listed"},
                               cands : SUBSET Origins, at : Time]]
    /\ demand \in [origin : Origins \cup {0}, want : Time, at : Time]
    /\ history \in [Origins -> [claims : Nat, last : MaybeTime]]

(* A promoted source starts with the evidence and the probe that its       *)
(* promotion required.                                                     *)
Init ==
    /\ now = 0
    /\ queue = [o \in Origins |-> IF o \in Automatic THEN NewRow("probe", 0)
                                                   ELSE AbsentRow]
    /\ misses = [o \in Origins |-> 0]
    /\ facts = [o \in Origins |-> NoFacts]
    /\ scheduled = Seeded \cup Automatic
    /\ discovered = [o \in Origins |-> IF o \in Automatic THEN 0 ELSE NoTime]
    /\ blocked = {}
    /\ paused = FALSE
    /\ lease = [w \in Workers |-> NoLease]
    /\ read = [w \in Workers |-> NoTime]
    /\ batch = [c \in Crawlers |-> NoBatch]
    /\ demand = NoDemand
    /\ history = [o \in Origins |-> [claims |-> 0, last |-> NoTime]]

-----------------------------------------------------------------------------
(* The clock, and the clients' reads of it.                                *)

Tick ==
    /\ now < MaxTime
    /\ now' = now + 1
    /\ UNCHANGED <<queue, misses, facts, scheduled, discovered, blocked, paused,
                   lease, read, batch, demand, history>>

(* A worker starts a queue call: Claim when it holds no lease, otherwise a *)
(* call about the lease it holds.                                          *)
ReadClock(w) ==
    /\ read[w] = NoTime
    /\ read' = [read EXCEPT ![w] = now]
    /\ UNCHANGED <<now, queue, misses, facts, scheduled, discovered, blocked, paused,
                   lease, batch, demand, history>>

-----------------------------------------------------------------------------
(* Claim.                                                                  *)

Calling(w) == read[w] # NoTime

(* Mutant: only fresh probes are suspended.                                *)
SuspendedProbe(o) == queue[o].mode = "probe" /\ o \in blocked

(* Probes and reprobes of a blocked origin are suspended.                  *)
Suspended(o) == queue[o].mode # "recurring" /\ o \in blocked

(* Mutant: the requested availability is not compared.                     *)
EligibleEarly(o, t) ==
    /\ Queued(o)
    /\ ~Suspended(o)
    /\ queue[o].next = NoTime \/ queue[o].next <= t
    /\ queue[o].expires = NoTime \/ queue[o].expires <= t
    /\ queue[o].claimed = NoTime \/ queue[o].claimed <= t - MinOriginInterval

Eligible(o, t) ==
    /\ Queued(o)
    /\ queue[o].available <= t
    /\ ~Suspended(o)
    /\ queue[o].next = NoTime \/ queue[o].next <= t
    /\ queue[o].expires = NoTime \/ queue[o].expires <= t
    /\ queue[o].claimed = NoTime \/ queue[o].claimed <= t - MinOriginInterval

(* ORDER BY probes first, then available_at, then origin.                  *)
Precedes(o, p) ==
    LET class(q) == IF queue[q].mode = "probe" THEN 0 ELSE 1
    IN  \/ class(o) < class(p)
        \/ class(o) = class(p) /\ queue[o].available < queue[p].available
        \/ class(o) = class(p) /\ queue[o].available = queue[p].available /\ o < p

(* A row that another call has locked is skipped, so the first row is the  *)
(* one taken only when no other call can be holding a row.                 *)
OthersActive(w) ==
    \/ \E v \in Workers \ {w} : read[v] # NoTime
    \/ demand # NoDemand

ClaimedRow(row, id, t) ==
    [row EXCEPT !.gen = @ + 1, !.owner = id,
                !.expires = t + LeaseDuration, !.claimed = t]

Claim(w, o, replied) ==
    /\ Calling(w)
    /\ lease[w] = NoLease
    /\ ~paused
    /\ Eligible(o, read[w])
    /\ OthersActive(w) \/ \A p \in Origins \ {o} :
                             Eligible(p, read[w]) => Precedes(o, p)
    /\ history[o].claims < MaxClaims
    /\ queue' = [queue EXCEPT ![o] = ClaimedRow(@, IDOf[w], read[w])]
    /\ history' = [history EXCEPT ![o] = [claims |-> @.claims + 1,
                                          last |-> read[w]]]
    /\ lease' = IF replied
                THEN [lease EXCEPT ![w] = [origin |-> o, gen |-> queue[o].gen + 1,
                                           claimed |-> read[w],
                                           token |-> history[o].claims + 1]]
                ELSE lease
    /\ read' = [read EXCEPT ![w] = NoTime]
    /\ UNCHANGED <<now, misses, facts, scheduled, discovered, blocked, paused, batch, demand>>

(* Nothing to claim: verification is paused, or every eligible row is      *)
(* locked by another call.                                                 *)
ClaimNothing(w) ==
    /\ Calling(w)
    /\ lease[w] = NoLease
    /\ paused \/ OthersActive(w) \/ \A o \in Origins : ~Eligible(o, read[w])
    /\ read' = [read EXCEPT ![w] = NoTime]
    /\ UNCHANGED <<now, queue, misses, facts, scheduled, discovered, blocked, paused,
                   lease, batch, demand, history>>

-----------------------------------------------------------------------------
(* Calls on a held lease.  A reply that is lost leaves the worker with the *)
(* Lease value it sent.                                                    *)

(* Mutant: the statement does not name the owner.                          *)
HoldsGeneration(w) == queue[lease[w].origin].gen = lease[w].gen

(* Mutant: the statement does not name the generation.                     *)
HoldsOwner(w) == queue[lease[w].origin].owner = IDOf[w]

(* The row still carries the owner and the generation of the lease.        *)
Holds(w) ==
    /\ queue[lease[w].origin].owner = IDOf[w]
    /\ queue[lease[w].origin].gen = lease[w].gen

HasAuthority(w) == Holds(w) /\ queue[lease[w].origin].expires > read[w]

OnLease(w) == Calling(w) /\ lease[w] # NoLease

(* ErrLeaseLost: the call changes nothing.  Renew and CompleteVerification *)
(* also lose the lease of suspended work.                                  *)
LeaseLost(w) ==
    /\ OnLease(w)
    /\ ~HasAuthority(w) \/ Suspended(lease[w].origin)
    /\ read' = [read EXCEPT ![w] = NoTime]
    /\ UNCHANGED <<now, queue, misses, facts, scheduled, discovered, blocked, paused,
                   lease, batch, demand, history>>

Renew(w) ==
    /\ OnLease(w)
    /\ HasAuthority(w)
    /\ ~Suspended(lease[w].origin)
    /\ queue' = [queue EXCEPT ![lease[w].origin].expires =
                                 Greatest(@, read[w] + LeaseDuration)]
    /\ read' = [read EXCEPT ![w] = NoTime]
    /\ UNCHANGED <<now, misses, facts, scheduled, discovered, blocked, paused,
                   lease, batch, demand, history>>

Release(w, replied) ==
    /\ lease' = IF replied THEN [lease EXCEPT ![w] = NoLease] ELSE lease
    /\ read' = [read EXCEPT ![w] = NoTime]

Unleased(row) == [row EXCEPT !.owner = NoOwner, !.expires = NoTime]

Rescheduled(row, want) ==
    [Unleased(row) EXCEPT
       !.available = Greatest(want, row.claimed + MinOriginInterval),
       !.failures = 0,
       !.next = NoTime]

Reschedule(w, want, replied) ==
    /\ OnLease(w)
    /\ HasAuthority(w)
    /\ queue' = [queue EXCEPT ![lease[w].origin] = Rescheduled(@, want)]
    /\ Release(w, replied)
    /\ UNCHANGED <<now, misses, facts, scheduled, discovered, blocked, paused,
                   batch, demand, history>>

AbandonVerification(w, replied) ==
    /\ OnLease(w)
    /\ HasAuthority(w)
    /\ queue' = [queue EXCEPT ![lease[w].origin] = Unleased(@)]
    /\ Release(w, replied)
    /\ UNCHANGED <<now, misses, facts, scheduled, discovered, blocked, paused,
                   batch, demand, history>>

-----------------------------------------------------------------------------
(* CompleteVerification records the result r at time t and finalizes the   *)
(* row.  delay is what the retry policy gave for a transient result.       *)

(* Mutant: a terminal failure also extends the streak.                     *)
FailuresOfEveryKind(row, r) ==
    IF r \in {"transient", "terminal"} THEN row.failures + 1 ELSE 0

NextFailures(row, r) == IF r = "transient" THEN row.failures + 1 ELSE 0

(* The availability asked for, before the politeness floor of the row.     *)
RequestedAt(o, r, t, delay, claimed) ==
    LET row == queue[o]
        retryDelay == IF /\ facts[o].participated
                         /\ NextFailures(row, r) > BackoffSteps
                      THEN StaleRecheck
                      ELSE delay
    IN  CASE r = "transient" ->
               Greatest(t + retryDelay, claimed + MinOriginInterval)
          [] row.mode \in {"probe", "reprobe"} /\ shouldReprobeOutcome(r) ->
               t + ReprobeDelay[Least(misses[o], ReprobeSteps)]
          [] OTHER -> t + RecheckAfter

(* Mutant: a miss demotes recurring work too.                              *)
DemotedMode(mode, r) ==
    CASE r = "valid" -> "recurring"
      [] shouldReprobeOutcome(r) -> "reprobe"
      [] OTHER -> mode

CompletedMode(mode, r) ==
    CASE r = "valid" -> "recurring"
      [] mode = "probe" /\ shouldReprobeOutcome(r) -> "reprobe"
      [] OTHER -> mode

(* Mutant: a terminal failure removes work of every mode.                  *)
RemovesWork(mode, r) == r = "terminal"

RemovesProbe(mode, r) == mode = "probe" /\ r = "terminal"

CompletedRow(o, r, t, delay, claimed) ==
    LET row == queue[o]
        available == Greatest(RequestedAt(o, r, t, delay, claimed),
                              row.claimed + MinOriginInterval)
    IN  IF RemovesProbe(row.mode, r)
        THEN AbsentRow
        ELSE [Unleased(row) EXCEPT
                !.mode = CompletedMode(@, r),
                !.available = available,
                !.failures = NextFailures(row, r),
                !.next = IF r = "transient" THEN available ELSE NoTime]

(* Mutant: the newest observation of any outcome is the effective one.     *)
ObservedAny(f, r, t) ==
    [outcome |-> IF t >= f.at THEN r ELSE f.outcome,
     at |-> Greatest(f.at, t),
     participated |-> f.participated \/ r = "valid",
     checked |-> Greatest(f.checked, t)]

(* The newest authoritative observation is the effective one; a later      *)
(* insert wins a tie.                                                      *)
Observed(f, r, t) ==
    [outcome |-> IF Authoritative(r) /\ t >= f.at THEN r ELSE f.outcome,
     at |-> IF Authoritative(r) THEN Greatest(f.at, t) ELSE f.at,
     participated |-> f.participated \/ r = "valid",
     checked |-> Greatest(f.checked, t)]

(* Mutant: evidence newer than the result does not keep the source.        *)
UnschedulesAlways(o, r, t) == r = "miss" /\ o \notin Seeded

(* A miss removes a source that is not seeded and has no newer evidence.   *)
Unschedules(o, r, t) == r = "miss" /\ o \notin Seeded /\ discovered[o] <= t

CompletedSources(o, r, t) ==
    CASE r = "valid" -> scheduled \cup {o}
      [] Unschedules(o, r, t) -> scheduled \ {o}
      [] OTHER -> scheduled

CompleteVerification(w, r, delay, replied) ==
    LET o == lease[w].origin
        t == read[w]
    IN  /\ OnLease(w)
        /\ HasAuthority(w)
        /\ ~Suspended(o)
        /\ queue' = [queue EXCEPT ![o] = CompletedRow(o, r, t, delay, lease[w].claimed)]
        /\ facts' = [facts EXCEPT ![o] = Observed(@, r, t)]
        /\ scheduled' = CompletedSources(o, r, t)
        /\ misses' = [misses EXCEPT ![o] = IF shouldReprobeOutcome(r) THEN @ + 1 ELSE @]
        /\ Release(w, replied)
        /\ UNCHANGED <<now, discovered, blocked, paused, batch, demand, history>>

(* The process stops, its context is cancelled, or it gives the lease up   *)
(* after an error.  A transaction in progress is rolled back.              *)
Forget(w) ==
    /\ lease[w] # NoLease \/ Calling(w)
    /\ lease' = [lease EXCEPT ![w] = NoLease]
    /\ read' = [read EXCEPT ![w] = NoTime]
    /\ UNCHANGED <<now, queue, misses, facts, scheduled, discovered, blocked, paused,
                   batch, demand, history>>

-----------------------------------------------------------------------------
(* Probe admission by the discovery process.                               *)

(* Probes that are due or being checked occupy the high-water mark.        *)
activeProbes ==
    {o \in Origins : /\ queue[o].mode = "probe"
                     /\ queue[o].available <= now \/ queue[o].expires > now}

(* Candidates whose evidence of time t makes them sources again: current   *)
(* participants, automatic sources without an authoritative result, and    *)
(* former ones when the evidence is newer than the result.                 *)
Reactivated(cands, t) ==
    {o \in cands :
        \/ facts[o].outcome = "valid"
        \/ o \in Automatic /\ facts[o].outcome = "none"
        \/ /\ o \in Automatic \/ facts[o].participated
           /\ facts[o].outcome # "none"
           /\ Greatest(discovered[o], t) > facts[o].at}

(* First transaction of RecordDiscovery: the evidence, and the sources     *)
(* that it reactivates.                                                    *)
RecordDiscovery(c, cands) ==
    /\ batch[c] = NoBatch
    /\ cands # {}
    /\ now <= LastDiscovery
    /\ discovered' = [o \in Origins |-> IF o \in cands
                                        THEN Greatest(discovered[o], now)
                                        ELSE discovered[o]]
    /\ scheduled' = scheduled \cup Reactivated(cands, now)
    /\ batch' = [batch EXCEPT ![c] = [stage |-> "recorded", cands |-> cands, at |-> now]]
    /\ UNCHANGED <<now, queue, misses, facts, blocked, paused,
                   lease, read, demand, history>>

PendingCandidate(o) ==
    /\ discovered[o] # NoTime
    /\ o \notin blocked
    /\ ~Queued(o)
    /\ \/ facts[o].outcome = "none"
       \/ facts[o].outcome = "miss" /\ discovered[o] > facts[o].at

(* SchedulePendingDiscoveryProbes lists the candidates that have no row.   *)
ListPendingProbes(c) ==
    LET pending == {o \in Origins : PendingCandidate(o)}
    IN  /\ batch[c] = NoBatch
        /\ pending # {}
        /\ batch' = [batch EXCEPT ![c] = [stage |-> "listed", cands |-> pending, at |-> now]]
        /\ UNCHANGED <<now, queue, misses, facts, scheduled, discovered, blocked, paused,
                       lease, read, demand, history>>

(* Mutant: one probe too many fits under the mark.                         *)
AdmittedOneMore(cands) ==
    LET eligible == {o \in cands \ Avoided : o \notin blocked /\ ~Queued(o)}
        room == MaxPendingProbes - Cardinality(activeProbes)
    IN  {o \in eligible : Cardinality({p \in eligible : p < o}) <= room}

(* The first candidates in canonical order that fit under the mark.        *)
Admitted(cands) ==
    LET eligible == {o \in cands \ Avoided : o \notin blocked /\ ~Queued(o)}
        room == MaxPendingProbes - Cardinality(activeProbes)
    IN  {o \in eligible : Cardinality({p \in eligible : p < o}) < room}

(* Recorded candidates become available when they were recorded, listed    *)
(* ones at the clock of the admitting transaction.                         *)
scheduleProbeCandidates(c, t) ==
    /\ batch[c] # NoBatch
    /\ batch[c].stage = "recorded" => t = batch[c].at
    /\ queue' = [o \in Origins |-> IF o \in Admitted(batch[c].cands)
                                   THEN NewRow("probe", t)
                                   ELSE queue[o]]
    /\ batch' = [batch EXCEPT ![c] = NoBatch]
    /\ UNCHANGED <<now, misses, facts, scheduled, discovered, blocked, paused,
                   lease, read, demand, history>>

(* The discovery process stops between the evidence and the probes.        *)
CrawlerStops(c) ==
    /\ batch[c] # NoBatch
    /\ batch' = [batch EXCEPT ![c] = NoBatch]
    /\ UNCHANGED <<now, queue, misses, facts, scheduled, discovered, blocked, paused,
                   lease, read, demand, history>>

-----------------------------------------------------------------------------
(* The operator.                                                           *)

RequestSchedule(o, want) ==
    /\ demand = NoDemand
    /\ demand' = [origin |-> o, want |-> want, at |-> now]
    /\ UNCHANGED <<now, queue, misses, facts, scheduled, discovered, blocked, paused,
                   lease, read, batch, history>>

(* A row under a lease that has not expired keeps its times; the demand is *)
(* coalesced into the work in flight.                                      *)
ScheduledRow(row, want, t) ==
    IF row.mode = "none" THEN NewRow("recurring", want)
    ELSE IF row.owner # NoOwner /\ row.expires > t
    THEN [row EXCEPT !.mode = "recurring"]
    ELSE [row EXCEPT !.mode = "recurring",
                     !.available = Least(@, want),
                     !.failures = 0,
                     !.next = NoTime]

Schedule(o) ==
    /\ demand.origin = o
    /\ queue' = [queue EXCEPT ![o] = ScheduledRow(@, demand.want, demand.at)]
    /\ demand' = NoDemand
    /\ UNCHANGED <<now, misses, facts, scheduled, discovered, blocked, paused,
                   lease, read, batch, history>>

(* The effective crawl block of an origin, and the processor pause, as the *)
(* source policy and the control plane set them.                           *)
SetBlocked(o, block) ==
    /\ blocked' = IF block THEN blocked \cup {o} ELSE blocked \ {o}
    /\ UNCHANGED <<now, queue, misses, facts, scheduled, discovered, paused,
                   lease, read, batch, demand, history>>

SetPaused(pause) ==
    /\ paused' = pause
    /\ UNCHANGED <<now, queue, misses, facts, scheduled, discovered, blocked,
                   lease, read, batch, demand, history>>

-----------------------------------------------------------------------------
WorkerStep(w) ==
    \/ ReadClock(w)
    \/ \E o \in Origins, replied \in BOOLEAN : Claim(w, o, replied)
    \/ ClaimNothing(w)
    \/ Renew(w)
    \/ \E want \in RequestTimes, replied \in BOOLEAN : Reschedule(w, want, replied)
    \/ \E replied \in BOOLEAN : AbandonVerification(w, replied)
    \/ \E r \in Outcomes, replied \in BOOLEAN :
         \E delay \in RetryDelays[Least(queue[lease[w].origin].failures + 1, RetrySteps)] :
            CompleteVerification(w, r, delay, replied)
    \/ LeaseLost(w)
    \/ Forget(w)

CrawlerStep(c) ==
    \/ \E cands \in SUBSET Origins : RecordDiscovery(c, cands)
    \/ ListPendingProbes(c)
    \/ \E t \in batch[c].at..now : scheduleProbeCandidates(c, t)
    \/ CrawlerStops(c)

OperatorStep ==
    \/ \E o \in Schedulable, want \in RequestTimes : RequestSchedule(o, want)
    \/ \E o \in Schedulable : Schedule(o)
    \/ \E o \in Blockable, block \in BOOLEAN : SetBlocked(o, block)
    \/ \E pause \in PauseStates : SetPaused(pause)

Next ==
    \/ Tick
    \/ \E w \in Workers : WorkerStep(w)
    \/ \E c \in Crawlers : CrawlerStep(c)
    \/ OperatorStep

Spec == Init /\ [][Next]_vars

-----------------------------------------------------------------------------
(* Properties.                                                             *)

(* The CHECK constraints that the migrations put on verification_queue: a  *)
(* lease has an owner and an expiration or neither, it expires after it    *)
(* was claimed, and a failure streak has a retry time equal to             *)
(* available_at.  A statement that broke one would be rejected, and the    *)
(* call would fail.                                                        *)
TableConstraints ==
    \A o \in Origins :
        LET row == queue[o]
        IN  /\ (row.owner = NoOwner) <=> (row.expires = NoTime)
            /\ row.owner # NoOwner => row.claimed # NoTime /\ row.expires > row.claimed
            /\ \/ row.failures = 0 /\ row.next = NoTime
               \/ row.failures > 0 /\ row.next # NoTime /\ row.next = row.available

(* Every row is of its type and satisfies the constraints of the table.    *)
ValidTables == TypeOK /\ TableConstraints

(* Fencing: a lease that the queue would accept is the one given out by    *)
(* the newest claim of the origin, whatever expired, was reclaimed, was    *)
(* removed and was queued again since.                                     *)
Fenced ==
    \A w \in Workers :
        lease[w] # NoLease /\ Holds(w)
            => /\ lease[w].token = history[lease[w].origin].claims
               /\ lease[w].claimed = queue[lease[w].origin].claimed

(* A result that a worker can still commit was obtained under a clock that *)
(* is not older than the last check recorded for the origin, so results    *)
(* are recorded in the order of their times.                               *)
ResultsInOrder ==
    \A w \in Workers :
        OnLease(w) /\ HasAuthority(w)
            => read[w] >= facts[lease[w].origin].checked

(* An origin with an authoritative result never leaves the queue, one that *)
(* ever participated is recurring work, and a reprobe has had a miss:      *)
(* CompleteVerification removes only probes without a usable answer.       *)
KnownOriginsStayQueued ==
    \A o \in Origins :
        /\ facts[o].outcome # "none" => queue[o].mode \in {"reprobe", "recurring"}
        /\ facts[o].participated => queue[o].mode = "recurring"
        /\ queue[o].mode = "reprobe" => misses[o] > 0

(* Work whose worker vanished is not lost: a leased row was due when it    *)
(* was claimed and still is, so that it is eligible again as soon as the   *)
(* lease has expired and the politeness interval has passed.               *)
LeasedWorkIsDue ==
    \A o \in Origins :
        queue[o].owner # NoOwner
            => /\ Queued(o)
               /\ queue[o].available <= queue[o].claimed
               /\ queue[o].next <= queue[o].claimed

(* CompleteVerification and RecordDiscovery keep the source schedule by    *)
(* insertions and deletions.  In whatever order they commit it is the set  *)
(* that the migration that created the table computes from the evidence:   *)
(* seeded origins, participants, automatic sources without an              *)
(* authoritative result, and automatic sources and former participants     *)
(* with evidence newer than their result.                                  *)
SourceByEvidence(o) ==
    \/ o \in Seeded
    \/ facts[o].outcome = "valid"
    \/ o \in Automatic /\ facts[o].outcome = "none"
    \/ /\ o \in Automatic \/ facts[o].participated
       /\ facts[o].outcome = "miss"
       /\ discovered[o] > facts[o].at

ScheduleFollowsEvidence ==
    scheduled = {o \in Origins : SourceByEvidence(o)}

(* While an origin is blocked its probe or reprobe stays queued, and it is *)
(* not claimed, renewed or completed.                                      *)
SuspendedWorkIsKept ==
    [][\A o \in Origins :
         queue[o].mode \in {"probe", "reprobe"} /\ o \in blocked
            => /\ queue'[o].mode # "none"
               /\ queue'[o].gen = queue[o].gen
               /\ queue'[o].expires \in {queue[o].expires, NoTime}
               /\ facts'[o] = facts[o]]_vars

(* Recurring work is never demoted or removed: a participant, or an origin *)
(* that the operator scheduled, is checked for ever.                       *)
RecurringIsKept ==
    [][\A o \in Origins :
         queue[o].mode = "recurring" => queue'[o].mode = "recurring"]_vars

(* No step drops work: neither that of a blocked origin nor that of a      *)
(* recurring one.                                                          *)
WorkIsKept == SuspendedWorkIsKept /\ RecurringIsKept

(* Two claims of an origin start at least MinOriginInterval apart.         *)
PoliteVisits ==
    [][\A o \in Origins :
         history'[o].claims # history[o].claims /\ history[o].last # NoTime
            => history'[o].last >= history[o].last + MinOriginInterval]_vars

(* Admission never lifts the probes that are due or being checked over     *)
(* the high-water mark, whatever admissions race with it.                  *)
AdmissionStep ==
    (\E o \in Origins : ~Queued(o) /\ queue'[o].mode = "probe")
        => Cardinality(activeProbes') <= MaxPendingProbes

AdmissionWithinCapacity == [][AdmissionStep]_vars

=============================================================================
