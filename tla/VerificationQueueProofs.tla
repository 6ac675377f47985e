---------------------- MODULE VerificationQueueProofs ----------------------
(***************************************************************************)
(* Theorems about VerificationQueue, for every number of origins, workers  *)
(* and crawlers and for every choice of the intervals.                     *)
(***************************************************************************)
EXTENDS VerificationQueue, FiniteSetTheorems, TLAPS

(* The time each prover may take for a leaf that names none, in seconds.   *)
USE SMTT(30), ZenonT(30)

-----------------------------------------------------------------------------
(* The rows and facts that the statements compute are well typed.          *)

(* A stamp that is not NULL is a time of the clock.                        *)
LEMMA CallTime ==
    ASSUME TypeOK, NEW w \in Workers, Calling(w)
    PROVE  read[w] \in Nat
BY DEF TypeOK, Calling, MaybeTime, Time, NoTime

(* A row inserted by Schedule or by admission is well typed.               *)
LEMMA NewRowType ==
    ASSUME NEW m \in {"probe", "recurring"}, NEW t \in Nat
    PROVE  NewRow(m, t) \in Row
BY ZenonT(30) DEF NewRow, AbsentRow, Row, Time, MaybeTime, NoTime

(* The columns of a well-typed row, with NULL as -1.                       *)
LEMMA RowFields ==
    ASSUME NEW row \in Row
    PROVE  /\ row = [mode |-> row.mode, available |-> row.available,
                     gen |-> row.gen, owner |-> row.owner,
                     expires |-> row.expires, claimed |-> row.claimed,
                     failures |-> row.failures, next |-> row.next]
           /\ row.mode \in {"none", "probe", "reprobe", "recurring"}
           /\ row.owner \in Owners \cup {NoOwner}
           /\ row.available \in Nat
           /\ row.gen \in Nat
           /\ row.failures \in Nat
           /\ row.expires \in Int /\ row.expires >= -1
           /\ row.claimed \in Int /\ row.claimed >= -1
           /\ row.next \in Int /\ row.next >= -1
BY DEF Row, Time, MaybeTime, NoTime

(* The constants that time is computed with.                               *)
LEMMA Intervals ==
    /\ LeaseDuration \in Nat /\ LeaseDuration > 0
    /\ MinOriginInterval \in Nat /\ MinOriginInterval > 0
    /\ RecheckAfter \in Nat
    /\ StaleRecheck \in Nat
    /\ ReprobeSteps \in Nat
BY ConstantsAssumption

(* The politeness floor of a row is a time of the clock.                   *)
LEMMA PoliteTime ==
    ASSUME NEW row \in Row, NEW want \in Nat
    PROVE  Greatest(want, row.claimed + MinOriginInterval) \in Nat
BY RowFields, Intervals DEF Greatest

(* Claim keeps the row well typed.                                         *)
LEMMA ClaimedRowType ==
    ASSUME NEW row \in Row, NEW w \in Workers, NEW t \in Nat
    PROVE  ClaimedRow(row, IDOf[w], t) \in Row
<1>1. row.gen + 1 \in Nat /\ t + LeaseDuration \in Nat /\ IDOf[w] \in Owners
  BY RowFields, Intervals DEF Owners
<1> QED
  BY <1>1, ZenonT(30) DEF ClaimedRow, Row, Time, MaybeTime

(* Reschedule and AbandonVerification keep the row well typed.             *)
LEMMA ReleasedRowType ==
    ASSUME NEW row \in Row, NEW want \in Nat
    PROVE  Unleased(row) \in Row /\ Rescheduled(row, want) \in Row
<1> DEFINE available == Greatest(want, row.claimed + MinOriginInterval)
<1>1. available \in Nat
  BY PoliteTime
<1>2. Unleased(row) \in Row
  BY ZenonT(30) DEF Unleased, Row, MaybeTime
<1> HIDE DEF available
<1>3. [Unleased(row) EXCEPT !.available = available, !.failures = 0,
                            !.next = NoTime] \in Row
  BY <1>1, <1>2, ZenonT(30) DEF Row, Time, MaybeTime
<1> QED
  BY <1>2, <1>3 DEF Rescheduled, available

(* The upsert of Schedule keeps the row well typed.                        *)
LEMMA ScheduledRowType ==
    ASSUME NEW row \in Row, NEW want \in Nat, NEW t \in Nat
    PROVE  ScheduledRow(row, want, t) \in Row
<1>1. NewRow("recurring", want) \in Row
  BY NewRowType
<1>2. [row EXCEPT !.mode = "recurring"] \in Row
  BY DEF Row
<1>3. Least(row.available, want) \in Nat
  BY RowFields DEF Least
<1>4. [row EXCEPT !.mode = "recurring", !.available = Least(row.available, want),
                  !.failures = 0, !.next = NoTime] \in Row
  BY <1>3, ZenonT(30) DEF Row, Time, MaybeTime
<1> QED
  BY <1>1, <1>2, <1>4 DEF ScheduledRow

(* CompleteVerification asks for a time that is not NULL.                  *)
LEMMA RequestedTime ==
    ASSUME TypeOK, NEW o \in Origins, NEW r, NEW t \in Nat,
           NEW delay \in Nat, NEW claimed \in Nat
    PROVE  RequestedAt(o, r, t, delay, claimed) \in Nat
<1>1. queue[o] \in Row /\ misses[o] \in Nat
  BY DEF TypeOK
<1>2. Least(misses[o], ReprobeSteps) \in 0..ReprobeSteps
  BY <1>1, ConstantsAssumption DEF Least
<1>3. ReprobeDelay[Least(misses[o], ReprobeSteps)] \in Nat
  BY <1>2, ConstantsAssumption
<1>4. t + StaleRecheck \in Nat /\ t + RecheckAfter \in Nat /\ t + delay \in Nat
  BY Intervals
<1>5. t + ReprobeDelay[Least(misses[o], ReprobeSteps)] \in Nat
  BY <1>3
<1>6. claimed + MinOriginInterval \in Nat
  BY Intervals
<1>7. \A a, b \in Nat : Greatest(a, b) \in Nat
  BY DEF Greatest
<1> QED
  BY <1>4, <1>5, <1>6, <1>7 DEF RequestedAt

(* CompleteVerification keeps the row well typed.                          *)
LEMMA CompletedRowType ==
    ASSUME TypeOK, NEW o \in Origins, NEW r, NEW t \in Nat,
           NEW delay \in Nat, NEW claimed \in Nat
    PROVE  CompletedRow(o, r, t, delay, claimed) \in Row
<1> DEFINE requested == RequestedAt(o, r, t, delay, claimed)
           available == Greatest(requested, queue[o].claimed + MinOriginInterval)
<1>1. queue[o] \in Row
  BY DEF TypeOK
<1>2. requested \in Nat
  BY RequestedTime
<1>3. available \in Nat
  BY <1>1, <1>2, PoliteTime
<1>4. NextFailures(queue[o], r) \in Nat
  BY <1>1 DEF NextFailures, Row
<1>5. CompletedMode(queue[o].mode, r) \in {"none", "probe", "reprobe", "recurring"}
  BY <1>1 DEF CompletedMode, Row
<1>6. AbsentRow \in Row
  BY DEF AbsentRow, Row, Time, MaybeTime, NoTime
<1> HIDE DEF available, requested
<1>7. [Unleased(queue[o]) EXCEPT
          !.mode = CompletedMode(@, r),
          !.available = available,
          !.failures = NextFailures(queue[o], r),
          !.next = IF r = "transient" THEN available ELSE NoTime] \in Row
  BY <1>1, <1>3, <1>4, <1>5, ZenonT(30) DEF Unleased, Row, Time, MaybeTime, NoTime
<1> QED
  BY <1>6, <1>7 DEF CompletedRow, available, requested

(* The facts that CompleteVerification records are well typed.             *)
LEMMA ObservedType ==
    ASSUME TypeOK, NEW o \in Origins, NEW r \in AllOutcomes, NEW t \in Nat
    PROVE  Observed(facts[o], r, t) \in
             [outcome : {"none", "valid", "miss"}, at : Time,
              participated : BOOLEAN, checked : MaybeTime]
<1> DEFINE f == facts[o]
<1>1. /\ f.outcome \in {"none", "valid", "miss"}
      /\ f.at \in Nat
      /\ f.participated \in BOOLEAN
      /\ f.checked \in Nat \cup {-1}
  BY DEF TypeOK, Time, MaybeTime, NoTime
<1> HIDE DEF f
<1>2. (IF Authoritative(r) /\ t >= f.at THEN r ELSE f.outcome) \in {"none", "valid", "miss"}
  BY <1>1 DEF Authoritative
<1>3. /\ (IF Authoritative(r) THEN Greatest(f.at, t) ELSE f.at) \in Nat
      /\ Greatest(f.checked, t) \in Nat
  BY <1>1 DEF Greatest
<1>4. (f.participated \/ r = "valid") \in BOOLEAN
  OBVIOUS
<1>5. Observed(f, r, t) \in
             [outcome : {"none", "valid", "miss"}, at : Time,
              participated : BOOLEAN, checked : MaybeTime]
  BY <1>2, <1>3, <1>4 DEF Observed, Time, MaybeTime
<1> QED
  BY <1>5 DEF f

(* The delays that the retry policy gives are natural numbers.             *)
LEMMA RetryDelayType ==
    ASSUME TypeOK, NEW w \in Workers,
           NEW delay \in RetryDelays[Least(queue[lease[w].origin].failures + 1, RetrySteps)]
    PROVE  delay \in Nat
<1>1. queue[lease[w].origin] \in Row
  BY DEF TypeOK, Lease
<1>2. Least(queue[lease[w].origin].failures + 1, RetrySteps) \in 1..RetrySteps
  <2>1. queue[lease[w].origin].failures \in Nat
    BY <1>1, RowFields
  <2>2. RetrySteps \in Nat /\ RetrySteps >= 1
    BY ConstantsAssumption
  <2> QED
    BY <2>1, <2>2 DEF Least
<1>3. RetryDelays \in [1..RetrySteps -> SUBSET Nat]
  BY ConstantsAssumption
<1> QED
  BY <1>2, <1>3

(* The value of a worker that holds no lease is well typed.                *)
LEMMA NoLeaseType == NoLease \in Lease
<1>1. 1 \in Origins
  BY ConstantsAssumption DEF Origins
<1> QED
  BY <1>1 DEF NoLease, Lease, Time

-----------------------------------------------------------------------------
(* Every step keeps the variables well typed.                              *)
LEMMA TypeInductive == TypeOK /\ [Next]_vars => TypeOK'
<1> SUFFICES ASSUME TypeOK, [Next]_vars PROVE TypeOK'
  OBVIOUS
<1>1. CASE Tick
  BY <1>1 DEF TypeOK, Tick, Time
<1>2. ASSUME NEW w \in Workers, ReadClock(w) PROVE TypeOK'
  BY <1>2 DEF TypeOK, ReadClock, Time, MaybeTime
<1>3. ASSUME NEW w \in Workers, NEW o \in Origins, NEW replied \in BOOLEAN,
             Claim(w, o, replied)
      PROVE  TypeOK'
  <2>1. read[w] \in Nat
    BY <1>3, CallTime DEF Claim
  <2>2. queue[o] \in Row /\ history[o].claims \in Nat
    BY DEF TypeOK
  <2>3. ClaimedRow(queue[o], IDOf[w], read[w]) \in Row
    BY <2>1, <2>2, ClaimedRowType
  <2>4. queue' \in [Origins -> Row]
    BY <1>3, <2>3 DEF TypeOK, Claim
  <2>5. history' \in [Origins -> [claims : Nat, last : MaybeTime]]
    BY <1>3, <2>1, <2>2 DEF TypeOK, Claim, Time, MaybeTime
  <2>6. queue[o].gen + 1 \in Nat
    BY <2>2, RowFields
  <2>7. lease' \in [Workers -> Lease]
    <3>1. [origin |-> o, gen |-> queue[o].gen + 1, claimed |-> read[w],
           token |-> history[o].claims + 1] \in Lease
      BY <2>1, <2>2, <2>6 DEF Lease, Time
    <3> QED
      BY <1>3, <3>1 DEF TypeOK, Claim
  <2>8. read' \in [Workers -> MaybeTime]
    BY <1>3 DEF TypeOK, Claim, MaybeTime
  <2> QED
    BY <1>3, <2>4, <2>5, <2>7, <2>8 DEF TypeOK, Claim
<1>4. ASSUME NEW w \in Workers, ClaimNothing(w) \/ LeaseLost(w) PROVE TypeOK'
  BY <1>4, ZenonT(30) DEF TypeOK, ClaimNothing, LeaseLost, MaybeTime
<1>5. ASSUME NEW w \in Workers, Renew(w) PROVE TypeOK'
  <2>1. read[w] \in Nat
    BY <1>5, CallTime DEF Renew, OnLease
  <2>2. lease[w].origin \in Origins /\ queue[lease[w].origin] \in Row
    BY DEF TypeOK, Lease
  <2>3. Greatest(queue[lease[w].origin].expires, read[w] + LeaseDuration) \in Nat
    BY <2>1, <2>2, RowFields, Intervals DEF Greatest
  <2>4. queue' \in [Origins -> Row]
    BY <1>5, <2>2, <2>3, ZenonT(30) DEF TypeOK, Renew, Row, Time, MaybeTime
  <2> QED
    BY <1>5, <2>4 DEF TypeOK, Renew, MaybeTime
<1>6. ASSUME NEW w \in Workers, NEW want \in RequestTimes,
             NEW replied \in BOOLEAN, Reschedule(w, want, replied)
      PROVE  TypeOK'
  <2>1. lease[w].origin \in Origins /\ queue[lease[w].origin] \in Row
    BY DEF TypeOK, Lease
  <2>2. Rescheduled(queue[lease[w].origin], want) \in Row
    BY <2>1, ReleasedRowType, ConstantsAssumption, ZenonT(30)
  <2>3. queue' \in [Origins -> Row]
    BY <1>6, <2>1, <2>2 DEF TypeOK, Reschedule
  <2>4. lease' \in [Workers -> Lease] /\ read' \in [Workers -> MaybeTime]
    BY <1>6, NoLeaseType DEF TypeOK, Reschedule, Release, MaybeTime
  <2> QED
    BY <1>6, <2>3, <2>4 DEF TypeOK, Reschedule
<1>7. ASSUME NEW w \in Workers, NEW replied \in BOOLEAN,
             AbandonVerification(w, replied)
      PROVE  TypeOK'
  <2>1. lease[w].origin \in Origins /\ queue[lease[w].origin] \in Row
    BY DEF TypeOK, Lease
  <2>2. Unleased(queue[lease[w].origin]) \in Row
    BY <2>1, ReleasedRowType
  <2>3. queue' \in [Origins -> Row]
    BY <1>7, <2>1, <2>2 DEF TypeOK, AbandonVerification
  <2>4. lease' \in [Workers -> Lease] /\ read' \in [Workers -> MaybeTime]
    BY <1>7, NoLeaseType, ZenonT(30) DEF TypeOK, AbandonVerification, Release, MaybeTime
  <2> QED
    BY <1>7, <2>3, <2>4 DEF TypeOK, AbandonVerification
<1>8. ASSUME NEW w \in Workers, NEW r \in Outcomes, NEW replied \in BOOLEAN,
             NEW delay \in RetryDelays[Least(queue[lease[w].origin].failures + 1,
                                             RetrySteps)],
             CompleteVerification(w, r, delay, replied)
      PROVE  TypeOK'
  <2> DEFINE o == lease[w].origin
  <2>1. /\ read[w] \in Nat
        /\ delay \in Nat
        /\ r \in AllOutcomes
    BY <1>8, CallTime, RetryDelayType, ConstantsAssumption, ZenonT(30)
       DEF CompleteVerification, OnLease
  <2>2. o \in Origins /\ lease[w].claimed \in Nat
    BY DEF TypeOK, Lease, Time
  <2>3. CompletedRow(o, r, read[w], delay, lease[w].claimed) \in Row
    BY <2>1, <2>2, CompletedRowType
  <2>4. Observed(facts[o], r, read[w]) \in
           [outcome : {"none", "valid", "miss"}, at : Time,
            participated : BOOLEAN, checked : MaybeTime]
    BY <2>1, <2>2, ObservedType, ZenonT(30)
  <2>5. queue' \in [Origins -> Row]
    BY <1>8, <2>2, <2>3, ZenonT(30) DEF TypeOK, CompleteVerification
  <2>6. facts' \in [Origins -> [outcome : {"none", "valid", "miss"}, at : Time,
                                participated : BOOLEAN, checked : MaybeTime]]
    BY <1>8, <2>2, <2>4, ZenonT(30) DEF TypeOK, CompleteVerification
  <2>7. misses' \in [Origins -> Nat]
    BY <1>8, <2>2 DEF TypeOK, CompleteVerification
  <2>8. lease' \in [Workers -> Lease] /\ read' \in [Workers -> MaybeTime]
    BY <1>8, NoLeaseType DEF TypeOK, CompleteVerification, Release, MaybeTime
  <2>9. scheduled' \in SUBSET Origins
    BY <1>8, <2>2 DEF TypeOK, CompleteVerification, CompletedSources
  <2> QED
    BY <1>8, <2>5, <2>6, <2>7, <2>8, <2>9 DEF TypeOK, CompleteVerification
<1>9. ASSUME NEW w \in Workers, Forget(w) PROVE TypeOK'
  BY <1>9, NoLeaseType DEF TypeOK, Forget, MaybeTime
<1>10. ASSUME NEW c \in Crawlers, NEW cands \in SUBSET Origins,
              RecordDiscovery(c, cands)
       PROVE  TypeOK'
  <2>1. \A o \in Origins : Greatest(discovered[o], now) \in MaybeTime
    BY DEF TypeOK, Greatest, MaybeTime, Time, NoTime
  <2>2. discovered' \in [Origins -> MaybeTime]
    BY <1>10, <2>1 DEF TypeOK, RecordDiscovery
  <2>3. scheduled' \in SUBSET Origins
    BY <1>10 DEF TypeOK, RecordDiscovery, Reactivated
  <2> QED
    BY <1>10, <2>2, <2>3 DEF TypeOK, RecordDiscovery, Time
<1>11. ASSUME NEW c \in Crawlers, ListPendingProbes(c) PROVE TypeOK'
  BY <1>11 DEF TypeOK, ListPendingProbes, Time
<1>12. ASSUME NEW c \in Crawlers, NEW t \in batch[c].at..now,
              scheduleProbeCandidates(c, t)
       PROVE  TypeOK'
  <2>1. t \in Nat
    BY DEF TypeOK, Time
  <2>2. NewRow("probe", t) \in Row
    BY <2>1, NewRowType
  <2>3. queue' \in [Origins -> Row]
    BY <1>12, <2>2 DEF TypeOK, scheduleProbeCandidates
  <2>4. batch' \in [Crawlers -> [stage : {"idle", "recorded", "listed"},
                                 cands : SUBSET Origins, at : Time]]
    BY <1>12 DEF TypeOK, scheduleProbeCandidates, NoBatch, Time
  <2> QED
    BY <1>12, <2>3, <2>4 DEF TypeOK, scheduleProbeCandidates
<1>13. ASSUME NEW c \in Crawlers, CrawlerStops(c) PROVE TypeOK'
  BY <1>13 DEF TypeOK, CrawlerStops, NoBatch, Time
<1>14. ASSUME NEW o \in Schedulable, NEW want \in RequestTimes,
              RequestSchedule(o, want)
       PROVE  TypeOK'
  BY <1>14, ConstantsAssumption, ZenonT(30) DEF TypeOK, RequestSchedule, Time
<1>15. ASSUME NEW o \in Schedulable, Schedule(o)
       PROVE  TypeOK'
  <2>1. /\ demand.want \in Nat
        /\ demand.at \in Nat
    BY DEF TypeOK, Time
  <2>2. \A row \in Row : ScheduledRow(row, demand.want, demand.at) \in Row
    BY <2>1, ScheduledRowType
  <2>3. queue' \in [Origins -> Row]
    BY <1>15, <2>2, ZenonT(30) DEF TypeOK, Schedule
  <2> QED
    BY <1>15, <2>3 DEF TypeOK, Schedule, NoDemand, Time
<1>16. ASSUME NEW o \in Blockable, NEW block \in BOOLEAN, SetBlocked(o, block)
       PROVE  TypeOK'
  BY <1>16, ConstantsAssumption DEF TypeOK, SetBlocked
<1>17. ASSUME NEW pause \in PauseStates, SetPaused(pause) PROVE TypeOK'
  BY <1>17, ConstantsAssumption DEF TypeOK, SetPaused
<1>18. CASE UNCHANGED vars
  BY <1>18 DEF TypeOK, vars
<1> QED
  BY <1>1, <1>2, <1>3, <1>4, <1>5, <1>6, <1>7, <1>8, <1>9, <1>10, <1>11, <1>12,
     <1>13, <1>14, <1>15, <1>16, <1>17, <1>18
     DEF Next, WorkerStep, CrawlerStep, OperatorStep

(* Type correctness: every call, whatever others commit between its clock  *)
(* read and its statement, leaves the tables and the clients' leases in    *)
(* well-typed states.                                                      *)
THEOREM TypeCorrect == Spec => []TypeOK
<1>1. Init => TypeOK
  <2> SUFFICES ASSUME Init PROVE TypeOK
    OBVIOUS
  <2>1. AbsentRow \in Row /\ NewRow("probe", 0) \in Row
    BY NewRowType DEF AbsentRow, Row, Time, MaybeTime
  <2>2. queue \in [Origins -> Row]
    BY <2>1 DEF Init
  <2>3. lease \in [Workers -> Lease]
    BY NoLeaseType DEF Init
  <2>4. /\ batch \in [Crawlers -> [stage : {"idle", "recorded", "listed"},
                                  cands : SUBSET Origins, at : Time]]
        /\ demand \in [origin : Origins \cup {0}, want : Time, at : Time]
    BY DEF Init, NoBatch, NoDemand, Time
  <2>5. /\ facts \in [Origins -> [outcome : {"none", "valid", "miss"}, at : Time,
                                  participated : BOOLEAN, checked : MaybeTime]]
        /\ history \in [Origins -> [claims : Nat, last : MaybeTime]]
    BY DEF Init, NoFacts, Time, MaybeTime
  <2>6. scheduled \in SUBSET Origins /\ discovered \in [Origins -> MaybeTime]
    BY ConstantsAssumption DEF Init, Time, MaybeTime
  <2> QED
    BY <2>2, <2>3, <2>4, <2>5, <2>6, ZenonT(30) DEF Init, TypeOK, Time, MaybeTime
<1> QED
  BY <1>1, TypeInductive, PTL DEF Spec

-----------------------------------------------------------------------------
(* The steps, by what they change.                                         *)

ClaimStep ==
    \E v \in Workers, p \in Origins, replied \in BOOLEAN : Claim(v, p, replied)

(* A step that leaves the rows, the facts and the leases alone.            *)
Quiet ==
    /\ queue' = queue
    /\ lease' = lease
    /\ history' = history
    /\ facts' = facts
    /\ misses' = misses

(* The steps that are not quiet, one by one.                               *)
LEMMA StepCases ==
    ASSUME [Next]_vars
    PROVE  \/ Quiet
           \/ ClaimStep
           \/ \E w \in Workers : Renew(w)
           \/ \E w \in Workers, want \in RequestTimes, replied \in BOOLEAN :
                 Reschedule(w, want, replied)
           \/ \E w \in Workers, replied \in BOOLEAN : AbandonVerification(w, replied)
           \/ \E w \in Workers, r \in Outcomes, replied \in BOOLEAN :
                 \E delay \in RetryDelays[Least(queue[lease[w].origin].failures + 1,
                                                RetrySteps)] :
                    CompleteVerification(w, r, delay, replied)
           \/ \E w \in Workers : Forget(w)
           \/ \E c \in Crawlers : \E t \in batch[c].at..now : scheduleProbeCandidates(c, t)
           \/ \E o \in Schedulable : Schedule(o)
<1>1. CASE UNCHANGED vars
  BY <1>1, ZenonT(30) DEF vars, Quiet
<1>2. CASE Tick
  BY <1>2, ZenonT(30) DEF Tick, Quiet
<1>3. ASSUME NEW w \in Workers, ReadClock(w) \/ ClaimNothing(w) \/ LeaseLost(w)
      PROVE  Quiet
  BY <1>3 DEF ReadClock, ClaimNothing, LeaseLost, Quiet
<1>4. ASSUME NEW c \in Crawlers, NEW cands \in SUBSET Origins,
             RecordDiscovery(c, cands)
      PROVE  Quiet
  BY <1>4 DEF RecordDiscovery, Quiet
<1>5. ASSUME NEW c \in Crawlers, ListPendingProbes(c) \/ CrawlerStops(c)
      PROVE  Quiet
  BY <1>5 DEF ListPendingProbes, CrawlerStops, Quiet
<1>6. ASSUME NEW o \in Schedulable, NEW want \in RequestTimes, RequestSchedule(o, want)
      PROVE  Quiet
  BY <1>6 DEF RequestSchedule, Quiet
<1>7. ASSUME NEW o \in Blockable, NEW block \in BOOLEAN, SetBlocked(o, block)
      PROVE  Quiet
  BY <1>7 DEF SetBlocked, Quiet
<1>8. ASSUME NEW pause \in PauseStates, SetPaused(pause)
      PROVE  Quiet
  BY <1>8 DEF SetPaused, Quiet
<1> QED
  BY <1>1, <1>2, <1>3, <1>4, <1>5, <1>6, <1>7, <1>8, ZenonT(30)
     DEF Next, WorkerStep, CrawlerStep, OperatorStep, ClaimStep

-----------------------------------------------------------------------------
(* What a step may do to one row: the case analysis that the invariants of *)
(* the rows share.                                                         *)

ByHolder(w, o) == OnLease(w) /\ HasAuthority(w) /\ lease[w].origin = o

RowClaimed(o) ==
    \E w \in Workers : /\ Calling(w)
                       /\ Eligible(o, read[w])
                       /\ queue'[o] = ClaimedRow(queue[o], IDOf[w], read[w])

RowRenewed(o) ==
    \E w \in Workers :
        /\ ByHolder(w, o)
        /\ ~Suspended(o)
        /\ queue'[o] = [queue[o] EXCEPT !.expires = Greatest(@, read[w] + LeaseDuration)]

RowReleased(o) ==
    \E w \in Workers :
        /\ ByHolder(w, o)
        /\ \/ queue'[o] = Unleased(queue[o])
           \/ \E want \in Nat : queue'[o] = Rescheduled(queue[o], want)

RowCompleted(o) ==
    \E w \in Workers, r \in Outcomes, delay \in Nat :
        /\ ByHolder(w, o)
        /\ ~Suspended(o)
        /\ queue'[o] = CompletedRow(o, r, read[w], delay, lease[w].claimed)

ProbesScheduled ==
    \E c \in Crawlers : \E t \in batch[c].at..now : scheduleProbeCandidates(c, t)

RowAdmitted(o) ==
    /\ ~Queued(o)
    /\ \E t \in Nat : queue'[o] = NewRow("probe", t)
    /\ ProbesScheduled

RowScheduled(o) ==
    \E want \in Nat, t \in Nat : queue'[o] = ScheduledRow(queue[o], want, t)

(* Every step leaves a row alone, or changes it in one of these ways.      *)
LEMMA RowChange ==
    ASSUME TypeOK, [Next]_vars, NEW o \in Origins
    PROVE  \/ queue'[o] = queue[o]
           \/ RowClaimed(o)
           \/ RowRenewed(o)
           \/ RowReleased(o)
           \/ RowCompleted(o)
           \/ RowAdmitted(o)
           \/ RowScheduled(o)
<1> USE DEF TypeOK
<1>1. CASE Quiet \/ \E w \in Workers : Forget(w)
  BY <1>1 DEF Quiet, Forget
<1>2. ASSUME NEW w \in Workers, NEW p \in Origins, NEW replied \in BOOLEAN,
             Claim(w, p, replied)
      PROVE  queue'[o] = queue[o] \/ RowClaimed(o)
  BY <1>2, ZenonT(30) DEF Claim, RowClaimed
<1>3. ASSUME NEW w \in Workers, Renew(w)
      PROVE  queue'[o] = queue[o] \/ RowRenewed(o)
  BY <1>3, ZenonT(30) DEF Renew, RowRenewed, ByHolder, Lease
<1>4. ASSUME NEW w \in Workers, NEW want \in RequestTimes, NEW replied \in BOOLEAN,
             Reschedule(w, want, replied)
      PROVE  queue'[o] = queue[o] \/ RowReleased(o)
  <2>1. want \in Nat
    BY ConstantsAssumption
  <2> QED
    BY <1>4, <2>1 DEF Reschedule, RowReleased, ByHolder, Lease
<1>5. ASSUME NEW w \in Workers, NEW replied \in BOOLEAN,
             AbandonVerification(w, replied)
      PROVE  queue'[o] = queue[o] \/ RowReleased(o)
  BY <1>5 DEF AbandonVerification, RowReleased, ByHolder, Lease
<1>6. ASSUME NEW w \in Workers, NEW r \in Outcomes, NEW replied \in BOOLEAN,
             NEW delay \in RetryDelays[Least(queue[lease[w].origin].failures + 1,
                                             RetrySteps)],
             CompleteVerification(w, r, delay, replied)
      PROVE  queue'[o] = queue[o] \/ RowCompleted(o)
  <2>1. delay \in Nat
    BY RetryDelayType
  <2> QED
    BY <1>6, <2>1, ZenonT(30) DEF CompleteVerification, RowCompleted, ByHolder, Lease
<1>7. ASSUME NEW c \in Crawlers, NEW t \in batch[c].at..now,
             scheduleProbeCandidates(c, t)
      PROVE  queue'[o] = queue[o] \/ RowAdmitted(o)
  <2>1. t \in Nat
    BY DEF Time
  <2>2. o \in Admitted(batch[c].cands) => ~Queued(o)
    BY DEF Admitted
  <2>3. ProbesScheduled
    BY <1>7 DEF ProbesScheduled
  <2> QED
    BY <1>7, <2>1, <2>2, <2>3 DEF scheduleProbeCandidates, RowAdmitted
<1>8. CASE \E s \in Schedulable : Schedule(s)
  BY <1>8 DEF Schedule, RowScheduled, Time
<1> HIDE DEF TypeOK
<1> QED
  BY <1>1, <1>2, <1>3, <1>4, <1>5, <1>6, <1>7, <1>8, StepCases, ZenonT(30) DEF ClaimStep

(* The recurring mode of a row survives every statement, because only      *)
(* probes are removed and only probes and reprobes become reprobes.        *)
THEOREM RecurringForEver == Spec => RecurringIsKept
<1>1. TypeOK /\ [Next]_vars =>
        [\A o \in Origins :
           queue[o].mode = "recurring" => queue'[o].mode = "recurring"]_vars
  <2> SUFFICES ASSUME TypeOK, [Next]_vars, NEW o \in Origins,
                      queue[o].mode = "recurring"
               PROVE  queue'[o].mode = "recurring"
    OBVIOUS
  <2>1. queue[o] \in Row
    BY DEF TypeOK
  <2>2. CASE RowClaimed(o)
    BY <2>1, <2>2 DEF RowClaimed, ClaimedRow, Row
  <2>3. CASE RowRenewed(o)
    BY <2>1, <2>3 DEF RowRenewed, Row
  <2>4. CASE RowReleased(o)
    BY <2>1, <2>4, ZenonT(30) DEF RowReleased, Unleased, Rescheduled, Row
  <2>5. CASE RowCompleted(o)
    BY <2>1, <2>5 DEF RowCompleted, CompletedRow, RemovesProbe, CompletedMode, Unleased, Row
  <2>6. CASE RowAdmitted(o)
    BY <2>6 DEF RowAdmitted, Queued
  <2>7. CASE RowScheduled(o)
    BY <2>1, <2>7 DEF RowScheduled, ScheduledRow, Row
  <2> QED
    BY <2>2, <2>3, <2>4, <2>5, <2>6, <2>7, RowChange
<1> QED
  BY <1>1, TypeCorrect, PTL DEF Spec, RecurringIsKept

-----------------------------------------------------------------------------
(* The rows.  RowOK is inductive: what is due when a lease is taken stays  *)
(* due while the lease lasts, which neither TableConstraints nor           *)
(* LeasedWorkIsDue says alone.                                             *)
RowOK(row) ==
    /\ (row.owner = NoOwner) <=> (row.expires = NoTime)
    /\ row.owner # NoOwner => /\ row.mode # "none"
                              /\ row.claimed # NoTime
                              /\ row.expires > row.claimed
                              /\ row.available <= row.claimed
                              /\ row.next <= row.claimed
    /\ \/ row.failures = 0 /\ row.next = NoTime
       \/ row.failures > 0 /\ row.next # NoTime /\ row.next = row.available

RowsOK == \A o \in Origins : RowOK(queue[o])

(* A holder of a lease is a worker's ID, never NULL, so that its row is    *)
(* leased.                                                                 *)
LEMMA HolderOwns ==
    ASSUME NEW w \in Workers, NEW o \in Origins, ByHolder(w, o)
    PROVE  queue[o].owner # NoOwner
BY ConstantsAssumption DEF ByHolder, HasAuthority, Holds, Owners

(* Every statement leaves the rows consistent.                             *)
THEOREM RowsConsistent == Spec => []RowsOK
<1>1. Init => RowsOK
  BY DEF Init, RowsOK, RowOK, NewRow, AbsentRow, NoTime
<1>2. TypeOK /\ RowsOK /\ [Next]_vars => RowsOK'
  <2> SUFFICES ASSUME TypeOK, RowsOK, [Next]_vars, NEW o \in Origins
               PROVE  RowOK(queue'[o])
    BY DEF RowsOK
  <2>1. queue[o] \in Row /\ RowOK(queue[o])
    BY DEF TypeOK, RowsOK
  <2>2. CASE RowClaimed(o)
    <3>1. PICK w \in Workers : /\ Calling(w)
                              /\ Eligible(o, read[w])
                              /\ queue'[o] = ClaimedRow(queue[o], IDOf[w], read[w])
      BY <2>2 DEF RowClaimed
    <3>2. read[w] \in Nat
      BY <3>1, CallTime
    <3>3. IDOf[w] # NoOwner
      BY ConstantsAssumption, ZenonT(30) DEF Owners
    <3>4. /\ queue[o].mode # "none"
          /\ queue[o].available <= read[w]
          /\ queue[o].next <= read[w]
      BY <3>1, <3>2 DEF Eligible, Queued, NoTime
    <3>5. read[w] + LeaseDuration > read[w] /\ read[w] + LeaseDuration # -1
      BY <3>2, Intervals
    <3> QED
      BY <2>1, <3>1, <3>2, <3>3, <3>4, <3>5 DEF RowOK, ClaimedRow, Row, NoTime
  <2>3. CASE RowRenewed(o)
    <3>1. PICK w \in Workers :
            /\ ByHolder(w, o)
            /\ queue'[o] = [queue[o] EXCEPT !.expires = Greatest(@, read[w] + LeaseDuration)]
      BY <2>3 DEF RowRenewed
    <3>2. read[w] \in Nat
      BY <3>1, CallTime DEF ByHolder, OnLease
    <3>3. queue[o].owner # NoOwner
      BY <3>1, HolderOwns
    <3>4. /\ Greatest(queue[o].expires, read[w] + LeaseDuration) >= queue[o].expires
          /\ Greatest(queue[o].expires, read[w] + LeaseDuration) \in Nat
      BY <2>1, <3>2, RowFields, Intervals DEF Greatest
    <3> DEFINE e == Greatest(queue[o].expires, read[w] + LeaseDuration)
    <3>5. queue'[o] = [queue[o] EXCEPT !.expires = e]
      BY <3>1
    <3>6. e >= queue[o].expires /\ e \in Nat
      BY <3>4
    <3> HIDE DEF e
    <3>7. queue[o].expires \in Int /\ queue[o].claimed \in Int
      BY <2>1, RowFields
    <3> QED
      BY <2>1, <3>3, <3>5, <3>6, <3>7 DEF RowOK, Row, NoTime
  <2>4. CASE RowReleased(o)
    BY <2>1, <2>4, ZenonT(30) DEF RowReleased, Unleased, Rescheduled, RowOK, Row
  <2>5. CASE RowCompleted(o)
    <3>1. PICK w \in Workers, r \in Outcomes, delay \in Nat :
            /\ ByHolder(w, o)
            /\ queue'[o] = CompletedRow(o, r, read[w], delay, lease[w].claimed)
      BY <2>5 DEF RowCompleted
    <3>2. read[w] \in Nat /\ lease[w].claimed \in Nat
      BY <3>1, CallTime, ZenonT(30) DEF ByHolder, OnLease, TypeOK, Lease, Time
    <3> DEFINE available == Greatest(RequestedAt(o, r, read[w], delay, lease[w].claimed),
                                     queue[o].claimed + MinOriginInterval)
    <3>3. available \in Nat
      BY <2>1, <3>2, RequestedTime, PoliteTime
    <3>4. queue[o].failures \in Nat
      BY <2>1, RowFields
    <3>5. \/ queue'[o] = AbsentRow
          \/ queue'[o] = [Unleased(queue[o]) EXCEPT
                            !.mode = CompletedMode(@, r),
                            !.available = available,
                            !.failures = NextFailures(queue[o], r),
                            !.next = IF r = "transient" THEN available ELSE NoTime]
      BY <3>1, ZenonT(30) DEF CompletedRow
    <3> HIDE DEF available
    <3>6. CASE queue'[o] = AbsentRow
      BY <3>6 DEF AbsentRow, RowOK, NoTime
    <3>7. CASE queue'[o] = [Unleased(queue[o]) EXCEPT
                            !.mode = CompletedMode(@, r),
                            !.available = available,
                            !.failures = NextFailures(queue[o], r),
                            !.next = IF r = "transient" THEN available ELSE NoTime]
      BY <2>1, <3>3, <3>4, <3>7 DEF Unleased, NextFailures, RowOK, Row, NoTime
    <3> QED
      BY <3>5, <3>6, <3>7
  <2>6. CASE RowAdmitted(o)
    BY <2>6, ZenonT(30) DEF RowAdmitted, NewRow, AbsentRow, RowOK, NoTime
  <2>7. CASE RowScheduled(o)
    <3>1. PICK want \in Nat, t \in Nat : queue'[o] = ScheduledRow(queue[o], want, t)
      BY <2>7 DEF RowScheduled
    <3>2. CASE queue[o].mode = "none"
      BY <3>1, <3>2 DEF ScheduledRow, NewRow, AbsentRow, RowOK, NoTime
    <3>3. CASE queue[o].mode # "none" /\ queue[o].owner # NoOwner /\ queue[o].expires > t
      BY <2>1, <3>1, <3>3 DEF ScheduledRow, RowOK, Row
    <3>4. CASE queue[o].mode # "none" /\ ~(queue[o].owner # NoOwner /\ queue[o].expires > t)
      <4> DEFINE available == Least(queue[o].available, want)
      <4>1. available <= queue[o].available /\ available \in Nat
        BY <2>1, RowFields DEF Least
      <4>2. queue'[o] = [queue[o] EXCEPT !.mode = "recurring", !.available = available,
                                         !.failures = 0, !.next = NoTime]
        BY <3>1, <3>4 DEF ScheduledRow
      <4> HIDE DEF available
      <4>3. queue[o].available \in Nat /\ queue[o].claimed \in Int /\ queue[o].claimed >= -1
        BY <2>1, RowFields
      <4> QED
        BY <2>1, <4>1, <4>2, <4>3 DEF RowOK, Row, NoTime
    <3> QED
      BY <3>2, <3>3, <3>4
  <2> QED
    BY <2>1, <2>2, <2>3, <2>4, <2>5, <2>6, <2>7, RowChange
<1> QED
  BY <1>1, <1>2, TypeCorrect, PTL DEF Spec

(* No statement is ever rejected by the CHECK constraints of the table.    *)
THEOREM ConstraintsHold == Spec => []TableConstraints
<1>1. RowsOK => TableConstraints
  BY DEF RowsOK, RowOK, TableConstraints
<1> QED
  BY <1>1, RowsConsistent, PTL

(* No statement of the queue breaks the type or a constraint of a row.     *)
THEOREM TablesStayValid == Spec => []ValidTables
BY TypeCorrect, ConstraintsHold, PTL DEF ValidTables

(* Work whose worker vanished is due as soon as its lease has expired.     *)
THEOREM LeasedWorkStaysDue == Spec => []LeasedWorkIsDue
<1>1. RowsOK => LeasedWorkIsDue
  BY DEF RowsOK, RowOK, LeasedWorkIsDue, Queued
<1> QED
  BY <1>1, RowsConsistent, PTL

-----------------------------------------------------------------------------
(* The leases.  The ghost token of a lease numbers the claims of its       *)
(* origin.                                                                 *)

(* The row keeps its owner and claim time, or has no owner any more.       *)
OwnerKeptOrCleared(o) ==
    \/ queue'[o].owner = NoOwner
    \/ queue'[o].owner = queue[o].owner /\ queue'[o].claimed = queue[o].claimed

(* Only Claim gives out a lease or sets an owner.                          *)
LEMMA OnlyClaimLeases ==
    ASSUME TypeOK, [Next]_vars, ~ClaimStep
    PROVE  /\ history' = history
           /\ \A w \in Workers : lease'[w] = lease[w] \/ lease'[w] = NoLease
           /\ \A o \in Origins : OwnerKeptOrCleared(o)
<1> DEFINE Goal == /\ history' = history
                   /\ \A v \in Workers : lease'[v] = lease[v] \/ lease'[v] = NoLease
                   /\ \A o \in Origins : OwnerKeptOrCleared(o)
<1> USE DEF TypeOK
<1>1. ASSUME Quiet
      PROVE  Goal
  BY <1>1, ZenonT(30) DEF Quiet, OwnerKeptOrCleared
<1>2. ASSUME NEW w \in Workers, Forget(w)
      PROVE  Goal
  BY <1>2 DEF Forget, OwnerKeptOrCleared
<1>3. ASSUME NEW w \in Workers, Renew(w)
      PROVE  Goal
  BY <1>3 DEF Renew, OwnerKeptOrCleared, Row, Lease
<1>4. ASSUME NEW w \in Workers, NEW want \in RequestTimes, NEW replied \in BOOLEAN,
             Reschedule(w, want, replied)
      PROVE  Goal
  <2>1. \A row \in Row : Rescheduled(row, want).owner = NoOwner
    BY DEF Rescheduled, Unleased, Row
  <2> QED
    BY <1>4, <2>1 DEF Reschedule, Release, OwnerKeptOrCleared, Lease
<1>5. ASSUME NEW w \in Workers, NEW replied \in BOOLEAN,
             AbandonVerification(w, replied)
      PROVE  Goal
  <2>1. \A row \in Row : Unleased(row).owner = NoOwner
    BY ZenonT(30) DEF Unleased, Row
  <2> QED
    BY <1>5, <2>1 DEF AbandonVerification, Release, OwnerKeptOrCleared, Lease
<1>6. ASSUME NEW w \in Workers, NEW r, NEW replied \in BOOLEAN, NEW delay,
             CompleteVerification(w, r, delay, replied)
      PROVE  Goal
  <2>1. \A o \in Origins :
          CompletedRow(o, r, read[w], delay, lease[w].claimed).owner = NoOwner
    BY DEF CompletedRow, AbsentRow, Unleased, Row
  <2> QED
    BY <1>6, <2>1 DEF CompleteVerification, Release, OwnerKeptOrCleared, Lease
<1>7. ASSUME NEW c \in Crawlers, NEW t, scheduleProbeCandidates(c, t)
      PROVE  Goal
  BY <1>7, ZenonT(30) DEF scheduleProbeCandidates, OwnerKeptOrCleared, NewRow, AbsentRow
<1>8. ASSUME NEW s \in Schedulable, Schedule(s)
      PROVE  Goal
  <2>1. \A row \in Row : LET new == ScheduledRow(row, demand.want, demand.at)
                         IN  \/ new.owner = NoOwner
                             \/ new.owner = row.owner /\ new.claimed = row.claimed
    BY ZenonT(30) DEF ScheduledRow, NewRow, AbsentRow, Row
  <2> QED
    BY <1>8, <2>1 DEF Schedule, OwnerKeptOrCleared
<1> HIDE DEF Goal, TypeOK
<1>9. Goal
  BY <1>1, <1>2, <1>3, <1>4, <1>5, <1>6, <1>7, <1>8, StepCases
<1> QED
  BY <1>9 DEF Goal

(* A worker that holds a lease and is named as the owner of its origin     *)
(* made the newest claim.  With distinct IDs this holds without looking at *)
(* the generation, and survives the removal and return of the row, which   *)
(* starts the generations again.                                           *)
OwnerIsNewest ==
    \A w \in Workers :
        lease[w] # NoLease /\ queue[lease[w].origin].owner = IDOf[w]
            => /\ lease[w].token = history[lease[w].origin].claims
               /\ lease[w].claimed = queue[lease[w].origin].claimed

(* Fencing, for workers with distinct IDs: no lease but the one of the     *)
(* newest claim can renew, complete or abandon work.                       *)
THEOREM Fencing ==
    ASSUME UniqueIDs
    PROVE  Spec => []Fenced
<1>1. Init => OwnerIsNewest
  BY ZenonT(30) DEF Init, OwnerIsNewest
<1>2. TypeOK /\ OwnerIsNewest /\ [Next]_vars => OwnerIsNewest'
  <2> SUFFICES ASSUME TypeOK, OwnerIsNewest, [Next]_vars, NEW w \in Workers,
                      lease'[w] # NoLease, queue'[lease'[w].origin].owner = IDOf[w]
               PROVE  /\ lease'[w].token = history'[lease'[w].origin].claims
                      /\ lease'[w].claimed = queue'[lease'[w].origin].claimed
    BY DEF OwnerIsNewest
  <2>1. IDOf[w] # NoOwner
    BY ConstantsAssumption, ZenonT(30) DEF Owners
  <2>2. CASE ClaimStep
    <3>1. PICK v \in Workers, p \in Origins, replied \in BOOLEAN : Claim(v, p, replied)
      BY <2>2, ZenonT(30) DEF ClaimStep
    <3>2. queue[p] \in Row
      BY DEF TypeOK
    <3>3. /\ queue'[p].owner = IDOf[v]
          /\ queue'[p].claimed = read[v]
          /\ history'[p].claims = history[p].claims + 1
      BY <3>1, <3>2, ZenonT(30) DEF Claim, ClaimedRow, Row, TypeOK
    <3>4. CASE v = w
      BY <3>1, <3>3, <3>4, ZenonT(30) DEF Claim, TypeOK
    <3>5. CASE v # w
      <4>1. lease'[w] = lease[w] /\ lease[w].origin \in Origins
        BY <3>1, <3>5, ZenonT(30) DEF Claim, TypeOK, Lease
      <4>2. lease[w].origin # p
        BY <3>3, <3>5, <4>1 DEF UniqueIDs
      <4> QED
        BY <3>1, <4>1, <4>2, ZenonT(30) DEF Claim, TypeOK, OwnerIsNewest
    <3> QED
      BY <3>4, <3>5
  <2>3. CASE ~ClaimStep
    <3>1. lease'[w] = lease[w] /\ lease[w].origin \in Origins /\ history' = history
      BY <2>3, OnlyClaimLeases, ZenonT(30) DEF TypeOK, Lease
    <3>2. OwnerKeptOrCleared(lease[w].origin)
      BY <2>3, <3>1, OnlyClaimLeases
    <3> QED
      BY <2>1, <3>1, <3>2, ZenonT(30) DEF OwnerKeptOrCleared, OwnerIsNewest
  <2> QED
    BY <2>2, <2>3, ZenonT(30)
<1>3. OwnerIsNewest => Fenced
  BY ZenonT(30) DEF OwnerIsNewest, Fenced, Holds
<1> QED
  BY <1>1, <1>2, <1>3, TypeCorrect, PTL DEF Spec

-----------------------------------------------------------------------------
(* The order of results.                                                   *)

CompleteStep(w, r, delay, replied) ==
    /\ r \in Outcomes
    /\ replied \in BOOLEAN
    /\ delay \in RetryDelays[Least(queue[lease[w].origin].failures + 1, RetrySteps)]
    /\ CompleteVerification(w, r, delay, replied)

(* Only CompleteVerification records facts.  Another step leaves the mode  *)
(* of a row, admits a probe where there was no row, or makes it recurring. *)
LEMMA OnlyCompletionRecords ==
    ASSUME TypeOK, [Next]_vars
    PROVE  \/ \E w \in Workers : \E r, delay, replied : CompleteStep(w, r, delay, replied)
           \/ /\ facts' = facts
              /\ misses' = misses
              /\ \A o \in Origins : \/ queue'[o].mode = queue[o].mode
                                    \/ ~Queued(o) /\ queue'[o].mode = "probe"
                                    \/ queue'[o].mode = "recurring"
<1> DEFINE Kept == /\ facts' = facts
                   /\ misses' = misses
                   /\ \A o \in Origins : \/ queue'[o].mode = queue[o].mode
                                         \/ ~Queued(o) /\ queue'[o].mode = "probe"
                                         \/ queue'[o].mode = "recurring"
<1> USE DEF TypeOK
<1>1. ASSUME Quiet PROVE Kept
  BY <1>1, ZenonT(30) DEF Quiet
<1>2. ASSUME ClaimStep PROVE Kept
  <2>1. \A row \in Row : \A id, t : ClaimedRow(row, id, t).mode = row.mode
    BY DEF ClaimedRow, Row
  <2> QED
    BY <1>2, <2>1 DEF ClaimStep, Claim
<1>3. ASSUME NEW w \in Workers, Renew(w) PROVE Kept
  BY <1>3 DEF Renew, Row, Lease
<1>4. ASSUME NEW w \in Workers, NEW want \in RequestTimes, NEW replied \in BOOLEAN,
             Reschedule(w, want, replied)
      PROVE  Kept
  <2>1. \A row \in Row : Rescheduled(row, want).mode = row.mode
    BY ZenonT(30) DEF Rescheduled, Unleased, Row
  <2> QED
    BY <1>4, <2>1 DEF Reschedule, Lease
<1>5. ASSUME NEW w \in Workers, NEW replied \in BOOLEAN,
             AbandonVerification(w, replied)
      PROVE  Kept
  <2>1. \A row \in Row : Unleased(row).mode = row.mode
    BY DEF Unleased, Row
  <2> QED
    BY <1>5, <2>1 DEF AbandonVerification, Lease
<1>6. ASSUME NEW w \in Workers, Forget(w) PROVE Kept
  BY <1>6 DEF Forget
<1>7. ASSUME NEW c \in Crawlers, NEW t, scheduleProbeCandidates(c, t) PROVE Kept
  BY <1>7 DEF scheduleProbeCandidates, Admitted, NewRow, AbsentRow
<1>8. ASSUME NEW s \in Schedulable, Schedule(s) PROVE Kept
  <2>1. \A row \in Row : ScheduledRow(row, demand.want, demand.at).mode = "recurring"
    BY DEF ScheduledRow, NewRow, AbsentRow, Row
  <2> QED
    BY <1>8, <2>1 DEF Schedule
<1> HIDE DEF Kept
<1> DEFINE Completed == \E w \in Workers : \E r, delay, replied :
                           CompleteStep(w, r, delay, replied)
<1>9. ASSUME NEW w \in Workers, NEW r \in Outcomes, NEW replied \in BOOLEAN,
             NEW delay \in RetryDelays[Least(queue[lease[w].origin].failures + 1,
                                             RetrySteps)],
             CompleteVerification(w, r, delay, replied)
      PROVE  Completed
  BY <1>9, ZenonT(30) DEF CompleteStep
<1> HIDE DEF Completed, TypeOK
<1>10. Kept \/ Completed
  BY <1>1, <1>2, <1>3, <1>4, <1>5, <1>6, <1>7, <1>8, <1>9, StepCases, ZenonT(30)
<1> QED
  BY <1>10 DEF Kept, Completed

(* The clock does not go back.                                             *)
LEMMA ClockAdvances ==
    ASSUME TypeOK, [Next]_vars
    PROVE  now \in Nat /\ now' \in Nat /\ now' >= now
<1>1. now \in Nat
  BY DEF TypeOK, Time
<1>2. now' = now \/ now' = now + 1
  BY ZenonT(30) DEF Next, WorkerStep, CrawlerStep, OperatorStep, vars, Tick, ReadClock, Claim,
         ClaimNothing, LeaseLost, Renew, Reschedule, AbandonVerification,
         CompleteVerification, Forget, RecordDiscovery, ListPendingProbes,
         scheduleProbeCandidates, CrawlerStops, RequestSchedule, Schedule,
         SetBlocked, SetPaused
<1> QED
  BY <1>1, <1>2

(* A worker's stamp is kept, used up, or read from the clock.  Completion  *)
(* and Claim use it up.                                                    *)
LEMMA Stamps ==
    ASSUME TypeOK, [Next]_vars, NEW w \in Workers
    PROVE  \/ read'[w] = read[w]
           \/ read'[w] = NoTime
           \/ read'[w] = now /\ facts' = facts
<1> USE DEF TypeOK
<1>1. ASSUME NEW v \in Workers, WorkerStep(v)
      PROVE  \/ read'[w] = read[w]
             \/ read'[w] = NoTime
             \/ read'[w] = now /\ facts' = facts
  BY <1>1 DEF WorkerStep, ReadClock, Claim, ClaimNothing, LeaseLost, Renew, Reschedule,
              AbandonVerification, CompleteVerification, Release, Forget
<1>2. ASSUME NEW c \in Crawlers, CrawlerStep(c)
      PROVE  read' = read
  BY <1>2 DEF CrawlerStep, RecordDiscovery, ListPendingProbes,
              scheduleProbeCandidates, CrawlerStops
<1>3. CASE Tick \/ OperatorStep \/ UNCHANGED vars
  BY <1>3, ZenonT(30)
     DEF Tick, OperatorStep, RequestSchedule, Schedule, SetBlocked, SetPaused, vars
<1> QED
  BY <1>1, <1>2, <1>3 DEF Next

(* Nothing is stamped ahead of the clock, and a worker named as the owner  *)
(* read its stamp after the last check that was recorded.                  *)
StampsInOrder ==
    /\ \A w \in Workers : read[w] <= now
    /\ \A o \in Origins : facts[o].checked <= now
    /\ \A w \in Workers :
          OnLease(w) /\ queue[lease[w].origin].owner = IDOf[w]
             => read[w] >= facts[lease[w].origin].checked

(* Results are recorded in the order of their times, for workers with      *)
(* distinct IDs: completion clears the owner, so that a stamp that was     *)
(* read before it is useless after it.                                     *)
THEOREM ResultsOrdered ==
    ASSUME UniqueIDs
    PROVE  Spec => []ResultsInOrder
<1>1. Init => StampsInOrder
  <2> SUFFICES ASSUME Init PROVE StampsInOrder
    OBVIOUS
  <2>1. \A w \in Workers : read[w] <= now /\ ~OnLease(w)
    BY DEF Init, OnLease, NoTime
  <2>2. \A o \in Origins : facts[o].checked <= now
    BY DEF Init, NoFacts, NoTime
  <2> QED
    BY <2>1, <2>2 DEF StampsInOrder
<1>2. TypeOK /\ StampsInOrder /\ [Next]_vars => StampsInOrder'
  <2> SUFFICES ASSUME TypeOK, StampsInOrder, [Next]_vars PROVE StampsInOrder'
    OBVIOUS
  <2>1. now \in Nat /\ now' \in Nat /\ now' >= now
    BY ClockAdvances, ZenonT(30)
  <2>2. \A w \in Workers : read[w] \in Int /\ read[w] <= now
    BY DEF TypeOK, MaybeTime, Time, NoTime, StampsInOrder
  <2>3. \A o \in Origins : facts[o].checked \in Int /\ facts[o].checked <= now
    BY DEF TypeOK, MaybeTime, Time, NoTime, StampsInOrder
  <2>4. \A w \in Workers : read'[w] <= now'
    BY <2>1, <2>2, Stamps DEF NoTime
  <2>5. \A o \in Origins : facts'[o].checked <= now'
    <3>1. CASE facts' = facts
      BY <2>1, <2>3, <3>1
    <3>2. ASSUME NEW w \in Workers, NEW r, NEW delay, NEW replied,
                 CompleteStep(w, r, delay, replied), NEW o \in Origins
          PROVE  facts'[o].checked <= now'
      <4>1. \/ facts'[o] = facts[o]
            \/ facts'[o].checked = Greatest(facts[o].checked, read[w])
        BY <3>2, ZenonT(30) DEF CompleteStep, CompleteVerification, Observed, TypeOK
      <4> QED
        BY <2>1, <2>2, <2>3, <4>1 DEF Greatest
    <3> QED
      BY <3>1, <3>2, OnlyCompletionRecords
  <2>6. ASSUME NEW w \in Workers, OnLease(w)',
               queue'[lease'[w].origin].owner = IDOf[w]
        PROVE  read'[w] >= facts'[lease'[w].origin].checked
    <3> DEFINE o == lease[w].origin
    <3>1. o \in Origins /\ IDOf[w] # NoOwner
      BY ConstantsAssumption, ZenonT(30) DEF TypeOK, Lease, Owners
    <3>2. read'[w] # NoTime /\ lease'[w] # NoLease
      BY <2>6, ZenonT(30) DEF OnLease, Calling
    <3>3. CASE ClaimStep
      <4>1. PICK v \in Workers, p \in Origins, replied \in BOOLEAN : Claim(v, p, replied)
        BY <3>3, ZenonT(30) DEF ClaimStep
      <4>2. v # w
        BY <3>2, <4>1, ZenonT(30) DEF Claim, TypeOK
      <4>3. lease'[w] = lease[w] /\ read'[w] = read[w] /\ facts' = facts
        BY <4>1, <4>2, ZenonT(30) DEF Claim, TypeOK
      <4>4. queue[p] \in Row
        BY DEF TypeOK
      <4>5. queue'[p].owner = IDOf[v]
        BY <4>1, <4>4 DEF Claim, ClaimedRow, Row, TypeOK
      <4>6. o # p
        BY <2>6, <4>2, <4>3, <4>5, ZenonT(30) DEF UniqueIDs
      <4>7. queue'[o] = queue[o]
        BY <3>1, <4>1, <4>6, ZenonT(30) DEF Claim, TypeOK
      <4> QED
        BY <2>6, <3>2, <4>3, <4>7 DEF StampsInOrder, OnLease, Calling
    <3>4. CASE ~ClaimStep
      <4>1. lease'[w] = lease[w]
        BY <3>2, <3>4, OnlyClaimLeases, ZenonT(30)
      <4>2. queue[o].owner = IDOf[w]
        BY <2>6, <3>1, <3>4, <4>1, OnlyClaimLeases, ZenonT(30) DEF OwnerKeptOrCleared
      <4>3. CASE read'[w] = now /\ facts' = facts
        BY <2>1, <2>3, <3>1, <4>1, <4>3, ZenonT(30)
      <4>4. CASE read'[w] = read[w]
        <5>1. read[w] >= facts[o].checked
          BY <3>2, <4>1, <4>2, <4>4, ZenonT(30) DEF StampsInOrder, OnLease, Calling
        <5>2. facts'[o] = facts[o]
          <6>1. ASSUME NEW v \in Workers, NEW r, NEW delay, NEW replied,
                       CompleteStep(v, r, delay, replied), lease[v].origin = o
                PROVE  FALSE
            <7>1. queue[o] \in Row
              BY <3>1 DEF TypeOK
            <7>2. CompletedRow(o, r, read[v], delay, lease[v].claimed).owner = NoOwner
              BY <7>1 DEF CompletedRow, AbsentRow, Unleased, Row
            <7>3. queue'[o].owner = NoOwner
              BY <3>1, <6>1, <7>2, ZenonT(30) DEF CompleteStep, CompleteVerification, TypeOK
            <7> QED
              BY <2>6, <3>1, <4>1, <7>3, ZenonT(30)
          <6>2. ASSUME NEW v \in Workers, NEW r, NEW delay, NEW replied,
                       CompleteStep(v, r, delay, replied), lease[v].origin # o
                PROVE  facts'[o] = facts[o]
            BY <3>1, <6>2, ZenonT(30) DEF CompleteStep, CompleteVerification, TypeOK
          <6> QED
            BY <6>1, <6>2, OnlyCompletionRecords
        <5> QED
          BY <4>1, <4>4, <5>1, <5>2
      <4> QED
        BY <3>2, <4>3, <4>4, Stamps
    <3> QED
      BY <3>3, <3>4
  <2> QED
    BY <2>4, <2>5, <2>6 DEF StampsInOrder
<1>3. StampsInOrder => ResultsInOrder
  BY ZenonT(30) DEF StampsInOrder, ResultsInOrder, HasAuthority, Holds
<1> QED
  BY <1>1, <1>2, <1>3, TypeCorrect, PTL DEF Spec

-----------------------------------------------------------------------------
(* An origin with an authoritative result stays in the queue, and a        *)
(* participant stays recurring work: CompleteVerification runs only on a   *)
(* queued row, and removes only a probe, which has no such result.         *)
THEOREM KnownOriginsKept == Spec => []KnownOriginsStayQueued
<1>1. Init => KnownOriginsStayQueued
  BY DEF Init, KnownOriginsStayQueued, NoFacts, NewRow, AbsentRow
<1>2. TypeOK /\ RowsOK /\ KnownOriginsStayQueued /\ [Next]_vars
        => KnownOriginsStayQueued'
  <2> SUFFICES ASSUME TypeOK, RowsOK, KnownOriginsStayQueued, [Next]_vars,
                      NEW o \in Origins
               PROVE  /\ facts'[o].outcome # "none"
                            => queue'[o].mode \in {"reprobe", "recurring"}
                      /\ facts'[o].participated => queue'[o].mode = "recurring"
                      /\ queue'[o].mode = "reprobe" => misses'[o] > 0
    BY DEF KnownOriginsStayQueued
  <2>1. /\ facts[o].outcome # "none" => queue[o].mode \in {"reprobe", "recurring"}
        /\ facts[o].participated => queue[o].mode = "recurring"
        /\ queue[o].mode = "reprobe" => misses[o] > 0
    BY DEF KnownOriginsStayQueued
  <2>2. CASE /\ facts' = facts
             /\ misses' = misses
             /\ \/ queue'[o].mode = queue[o].mode
                \/ ~Queued(o) /\ queue'[o].mode = "probe"
                \/ queue'[o].mode = "recurring"
    BY <2>1, <2>2, ZenonT(30) DEF Queued
  <2>3. ASSUME NEW w \in Workers, NEW r, NEW delay, NEW replied,
               CompleteStep(w, r, delay, replied)
        PROVE  /\ facts'[o].outcome # "none"
                     => queue'[o].mode \in {"reprobe", "recurring"}
               /\ facts'[o].participated => queue'[o].mode = "recurring"
               /\ queue'[o].mode = "reprobe" => misses'[o] > 0
    <3>1. CASE lease[w].origin # o
      BY <2>1, <2>3, <3>1, ZenonT(30) DEF CompleteStep, CompleteVerification, TypeOK
    <3>2. CASE lease[w].origin = o
      <4>1. queue[o] \in Row /\ misses[o] \in Nat
        BY DEF TypeOK
      <4>2. queue[o].mode # "none"
        <5>1. queue[o].owner # NoOwner
          BY <2>3, <3>2, HolderOwns, ZenonT(30) DEF CompleteStep, CompleteVerification, ByHolder
        <5> QED
          BY <5>1 DEF RowsOK, RowOK
      <4>3. queue[o].mode \in {"probe", "reprobe", "recurring"}
        BY <4>1, <4>2, RowFields, ZenonT(30)
      <4>4. r \in AllOutcomes
        BY <2>3, ConstantsAssumption DEF CompleteStep
      <4>5. /\ facts'[o].outcome = IF Authoritative(r) /\ read[w] >= facts[o].at
                                   THEN r ELSE facts[o].outcome
            /\ facts'[o].participated => facts[o].participated \/ r = "valid"
            /\ misses'[o] = IF shouldReprobeOutcome(r) THEN misses[o] + 1 ELSE misses[o]
        BY <2>3, <3>2, ZenonT(30) DEF CompleteStep, CompleteVerification, Observed, TypeOK
      <4>6. queue'[o] = CompletedRow(o, r, read[w], delay, lease[w].claimed)
        BY <2>3, <3>2, ZenonT(30) DEF CompleteStep, CompleteVerification, TypeOK
      <4>7. queue'[o].mode = IF RemovesProbe(queue[o].mode, r)
                             THEN "none" ELSE CompletedMode(queue[o].mode, r)
        BY <4>1, <4>6 DEF CompletedRow, AbsentRow, Unleased, Row
      <4>8. facts'[o].outcome # "none" => queue'[o].mode \in {"reprobe", "recurring"}
        BY <2>1, <4>3, <4>4, <4>5, <4>7
           DEF AllOutcomes, RemovesProbe, CompletedMode, shouldReprobeOutcome, Authoritative
      <4>9. facts'[o].participated => queue'[o].mode = "recurring"
        <5>1. facts'[o].participated => queue[o].mode = "recurring" \/ r = "valid"
          BY <2>1, <4>5, Zenon
        <5>2. queue[o].mode = "recurring" \/ r = "valid" => queue'[o].mode = "recurring"
          BY <4>3, <4>7 DEF RemovesProbe, CompletedMode, shouldReprobeOutcome
        <5> QED
          BY <5>1, <5>2, Zenon
      <4>10. queue'[o].mode = "reprobe" => misses'[o] > 0
        BY <2>1, <4>1, <4>3, <4>5, <4>7 DEF RemovesProbe, CompletedMode
      <4> QED
        BY <4>8, <4>9, <4>10, ZenonT(30)
    <3> QED
      BY <3>1, <3>2
  <2> QED
    BY <2>2, <2>3, OnlyCompletionRecords, ZenonT(30)
<1> QED
  BY <1>1, <1>2, TypeCorrect, RowsConsistent, PTL DEF Spec

(* The probe or reprobe of a blocked origin is neither worked on nor lost: *)
(* Claim, Renew and CompleteVerification all test the block.               *)
THEOREM SuspensionHolds == Spec => SuspendedWorkIsKept
<1>1. TypeOK /\ [Next]_vars =>
        [\A o \in Origins :
           queue[o].mode \in {"probe", "reprobe"} /\ o \in blocked
              => /\ queue'[o].mode # "none"
                 /\ queue'[o].gen = queue[o].gen
                 /\ queue'[o].expires \in {queue[o].expires, NoTime}
                 /\ facts'[o] = facts[o]]_vars
  <2> SUFFICES ASSUME TypeOK, [Next]_vars, NEW o \in Origins,
                      queue[o].mode \in {"probe", "reprobe"}, o \in blocked
               PROVE  /\ queue'[o].mode # "none"
                      /\ queue'[o].gen = queue[o].gen
                      /\ queue'[o].expires \in {queue[o].expires, NoTime}
                      /\ facts'[o] = facts[o]
    BY ZenonT(30)
  <2>1. Suspended(o) /\ Queued(o) /\ queue[o] \in Row
    BY ZenonT(30) DEF Suspended, Queued, TypeOK
  <2>2. facts'[o] = facts[o]
    <3>1. ASSUME NEW w \in Workers, NEW r, NEW delay, NEW replied,
                 CompleteStep(w, r, delay, replied)
          PROVE  facts'[o] = facts[o]
      BY <2>1, <3>1, ZenonT(30) DEF CompleteStep, CompleteVerification, TypeOK
    <3> QED
      BY <3>1, OnlyCompletionRecords
  <2>3. ~RowClaimed(o) /\ ~RowRenewed(o) /\ ~RowCompleted(o) /\ ~RowAdmitted(o)
    BY <2>1 DEF RowClaimed, Eligible, RowRenewed, RowCompleted, RowAdmitted
  <2>4. CASE RowReleased(o)
    BY <2>1, <2>2, <2>4, ZenonT(30) DEF RowReleased, Unleased, Rescheduled, Row, Queued
  <2>5. CASE RowScheduled(o)
    BY <2>1, <2>2, <2>5 DEF RowScheduled, ScheduledRow, Row, Queued
  <2> QED
    BY <2>1, <2>2, <2>3, <2>4, <2>5, RowChange, ZenonT(30) DEF Queued
<1> QED
  BY <1>1, TypeCorrect, PTL DEF Spec, SuspendedWorkIsKept

(* Blocked work is suspended, recurring work recurs, and neither is lost.  *)
THEOREM WorkKept == Spec => WorkIsKept
BY SuspensionHolds, RecurringForEver DEF WorkIsKept

-----------------------------------------------------------------------------
(* The source schedule.                                                    *)

(* Only completion and discovery touch the evidence or the schedule.       *)
LEMMA ScheduleChange ==
    ASSUME TypeOK, [Next]_vars
    PROVE  \/ \E w \in Workers : \E r, delay, replied : CompleteStep(w, r, delay, replied)
           \/ \E c \in Crawlers, cands \in SUBSET Origins : RecordDiscovery(c, cands)
           \/ facts' = facts /\ discovered' = discovered /\ scheduled' = scheduled
<1> DEFINE Same == facts' = facts /\ discovered' = discovered /\ scheduled' = scheduled
           Completed == \E w \in Workers : \E r, delay, replied :
                           CompleteStep(w, r, delay, replied)
           Recorded == \E c \in Crawlers, cands \in SUBSET Origins :
                          RecordDiscovery(c, cands)
<1>1. ASSUME NEW w \in Workers, NEW r \in Outcomes, NEW replied \in BOOLEAN,
             NEW delay \in RetryDelays[Least(queue[lease[w].origin].failures + 1,
                                             RetrySteps)],
             CompleteVerification(w, r, delay, replied)
      PROVE  Completed
  BY <1>1, ZenonT(30) DEF CompleteStep
<1>2. ASSUME NEW c \in Crawlers, NEW cands \in SUBSET Origins, RecordDiscovery(c, cands)
      PROVE  Recorded
  BY <1>2, ZenonT(30)
<1>3. ASSUME Tick \/ OperatorStep \/ UNCHANGED vars PROVE Same
  BY <1>3, ZenonT(30)
     DEF Tick, OperatorStep, RequestSchedule, Schedule, SetBlocked, SetPaused, vars
<1> HIDE DEF Completed, Recorded
<1>4. ASSUME NEW w \in Workers, WorkerStep(w) PROVE Completed \/ Same
  BY <1>1, <1>4, ZenonT(30) DEF WorkerStep, ReadClock, Claim, ClaimNothing, LeaseLost, Renew,
                    Reschedule, AbandonVerification, Forget
<1>5. ASSUME NEW c \in Crawlers, CrawlerStep(c) PROVE Recorded \/ Same
  BY <1>2, <1>5 DEF CrawlerStep, ListPendingProbes, scheduleProbeCandidates, CrawlerStops
<1> HIDE DEF Same
<1>6. Completed \/ Recorded \/ Same
  BY <1>3, <1>4, <1>5 DEF Next
<1> QED
  BY <1>6 DEF Completed, Recorded, Same

(* A participant has an authoritative result, a valid result makes a       *)
(* participant, and the effective result is not newer than the last check. *)
FactOK(f) ==
    /\ f.outcome = "valid" => f.participated
    /\ f.participated => f.outcome # "none"
    /\ f.at = 0 \/ f.at <= f.checked

FactsOK == \A o \in Origins : FactOK(facts[o])

(* A completion that commits is the newest result of its origin.           *)
LEMMA NewestResult ==
    ASSUME TypeOK, FactsOK, ResultsInOrder, NEW w \in Workers, NEW r, NEW delay,
           NEW replied, CompleteStep(w, r, delay, replied)
    PROVE  /\ lease[w].origin \in Origins
           /\ read[w] \in Nat
           /\ read[w] >= facts[lease[w].origin].at
           /\ r \in AllOutcomes
           /\ facts' = [facts EXCEPT ![lease[w].origin] =
                           Observed(facts[lease[w].origin], r, read[w])]
           /\ discovered' = discovered
           /\ scheduled' = CompletedSources(lease[w].origin, r, read[w])
<1> DEFINE o == lease[w].origin
<1>1. CompleteVerification(w, r, delay, replied) /\ r \in AllOutcomes
  BY ConstantsAssumption DEF CompleteStep
<1>2. OnLease(w) /\ HasAuthority(w)
  BY <1>1, ZenonT(30) DEF CompleteVerification
<1>3. o \in Origins /\ read[w] \in Nat
  BY <1>2, CallTime, ZenonT(30) DEF TypeOK, Lease, OnLease
<1>4. read[w] >= facts[o].checked
  BY <1>2 DEF ResultsInOrder
<1>5. facts[o].at \in Nat /\ facts[o].checked \in Int
  BY <1>3 DEF TypeOK, Time, MaybeTime, NoTime
<1>6. facts[o].at = 0 \/ facts[o].at <= facts[o].checked
  BY <1>3, ZenonT(30) DEF FactsOK, FactOK
<1>7. read[w] >= facts[o].at
  BY <1>3, <1>4, <1>5, <1>6
<1> QED
  BY <1>1, <1>3, <1>7, ZenonT(30) DEF CompleteVerification

(* What the newest result makes of the facts.                              *)
LEMMA NewestFacts ==
    ASSUME NEW f, NEW r, NEW t \in Nat, f.at \in Nat, t >= f.at,
           NEW g, g = Observed(f, r, t)
    PROVE  /\ Authoritative(r) => g.outcome = r /\ g.at = t
           /\ ~Authoritative(r) => g.outcome = f.outcome /\ g.at = f.at
           /\ g.checked = Greatest(f.checked, t)
<1>1. Greatest(f.at, t) = t
  BY DEF Greatest
<1> QED
  BY <1>1 DEF Observed

(* Whatever the result, only a valid one makes a participant.              *)
LEMMA ObservedParticipation ==
    ASSUME NEW f, NEW r, NEW t
    PROVE  Observed(f, r, t).participated <=> f.participated \/ r = "valid"
BY Zenon DEF Observed

(* The newest result keeps the facts of its origin consistent.             *)
LEMMA FactKept ==
    ASSUME NEW f, NEW r, NEW t \in Nat, f.at \in Nat, f.checked \in Int, t >= f.at,
           FactOK(f), NEW g, g = Observed(f, r, t)
    PROVE  FactOK(g)
<1>1. /\ Authoritative(r) => g.outcome = r /\ g.at = t
      /\ ~Authoritative(r) => g.outcome = f.outcome /\ g.at = f.at
      /\ g.checked = Greatest(f.checked, t)
  BY NewestFacts
<1>2. g.participated <=> f.participated \/ r = "valid"
  <2>1. Observed(f, r, t).participated <=> f.participated \/ r = "valid"
    BY ObservedParticipation
  <2>2. g.participated = Observed(f, r, t).participated
    BY ZenonT(30)
  <2> QED
    BY <2>1, <2>2, Zenon
<1>3. g.at = 0 \/ g.at <= g.checked
  <2>1. f.at = 0 \/ f.at <= f.checked
    BY ZenonT(30) DEF FactOK
  <2>2. g.at = t \/ g.at = f.at
    BY <1>1
  <2> QED
    BY <1>1, <2>1, <2>2 DEF Greatest
<1>4. /\ g.outcome = "valid" => f.outcome = "valid" \/ r = "valid"
      /\ r = "valid" \/ f.outcome # "none" => g.outcome # "none"
  <2>1. CASE Authoritative(r)
    BY <1>1, <2>1 DEF Authoritative
  <2>2. CASE ~Authoritative(r)
    BY <1>1, <2>2 DEF Authoritative
  <2> QED
    BY <2>1, <2>2
<1> QED
  BY <1>2, <1>3, <1>4, Zenon DEF FactOK

(* The source schedule is what the evidence says, for workers with         *)
(* distinct IDs: a result that commits is the newest of its origin, so     *)
(* that what CompleteVerification compares with the evidence is what       *)
(* RecordDiscovery will compare it with.                                   *)
THEOREM ScheduleDerived ==
    ASSUME UniqueIDs
    PROVE  Spec => []ScheduleFollowsEvidence
<1>1. Init => FactsOK /\ ScheduleFollowsEvidence
  <2> SUFFICES ASSUME Init PROVE FactsOK /\ ScheduleFollowsEvidence
    BY ZenonT(30)
  <2>1. FactsOK
    BY ZenonT(30) DEF Init, FactsOK, FactOK, NoFacts
  <2>2. \A o \in Origins : facts[o].outcome = "none"
    BY DEF Init, NoFacts
  <2>3. \A o \in Origins : SourceByEvidence(o) <=> o \in Seeded \cup Automatic
    BY <2>2 DEF SourceByEvidence
  <2> QED
    BY <2>1, <2>3, ConstantsAssumption DEF Init, ScheduleFollowsEvidence
<1>2. TypeOK /\ ResultsInOrder /\ FactsOK /\ [Next]_vars => FactsOK'
  <2> SUFFICES ASSUME TypeOK, ResultsInOrder, FactsOK, [Next]_vars, NEW o \in Origins
               PROVE  FactOK(facts'[o])
    BY DEF FactsOK
  <2>1. FactOK(facts[o])
    BY ZenonT(30) DEF FactsOK
  <2>2. ASSUME NEW w \in Workers, NEW r, NEW delay, NEW replied,
               CompleteStep(w, r, delay, replied), lease[w].origin = o
        PROVE  FactOK(facts'[o])
    <3>1. /\ read[w] \in Nat
          /\ read[w] >= facts[o].at
          /\ r \in AllOutcomes
          /\ facts'[o] = Observed(facts[o], r, read[w])
      BY <2>2, NewestResult DEF TypeOK
    <3>2. facts[o].at \in Nat /\ facts[o].checked \in Int
      BY DEF TypeOK, Time, MaybeTime, NoTime
    <3> QED
      BY <2>1, <3>1, <3>2, FactKept, ZenonT(30)
  <2>3. ASSUME NEW w \in Workers, NEW r, NEW delay, NEW replied,
               CompleteStep(w, r, delay, replied), lease[w].origin # o
        PROVE  facts'[o] = facts[o]
    BY <2>3, ZenonT(30) DEF CompleteStep, CompleteVerification, TypeOK
  <2> QED
    BY <2>1, <2>2, <2>3, OnlyCompletionRecords, ZenonT(30)
<1>3. /\ TypeOK /\ ResultsInOrder /\ FactsOK /\ ScheduleFollowsEvidence /\ [Next]_vars
      => ScheduleFollowsEvidence'
  <2> SUFFICES ASSUME TypeOK, ResultsInOrder, FactsOK, ScheduleFollowsEvidence, [Next]_vars
               PROVE  ScheduleFollowsEvidence'
    OBVIOUS
  <2>1. \A o \in Origins : o \in scheduled <=> SourceByEvidence(o)
    BY DEF ScheduleFollowsEvidence
  <2>2. \A o \in Origins : /\ facts[o].outcome \in {"none", "valid", "miss"}
                           /\ facts[o].at \in Nat
                           /\ discovered[o] \in Int
    BY DEF TypeOK, Time, MaybeTime, NoTime
  <2>3. ASSUME NEW w \in Workers, NEW r, NEW delay, NEW replied,
               CompleteStep(w, r, delay, replied), NEW o \in Origins
        PROVE  o \in scheduled' <=> SourceByEvidence(o)'
    <3> DEFINE t == read[w]
    <3>1. /\ lease[w].origin \in Origins
          /\ t \in Nat
          /\ r \in AllOutcomes
          /\ t >= facts[lease[w].origin].at
          /\ discovered' = discovered
          /\ facts' = [facts EXCEPT ![lease[w].origin] =
                          Observed(facts[lease[w].origin], r, t)]
          /\ scheduled' = CompletedSources(lease[w].origin, r, t)
      BY <2>3, NewestResult, ZenonT(30)
    <3>2. CASE lease[w].origin # o
      <4>1. facts'[o] = facts[o]
        BY <3>1, <3>2 DEF TypeOK
      <4>2. o \in scheduled' <=> o \in scheduled
        BY <3>1, <3>2 DEF CompletedSources
      <4> QED
        BY <2>1, <3>1, <4>1, <4>2, ZenonT(30) DEF SourceByEvidence
    <3>3. CASE lease[w].origin = o
      <4>1. facts'[o] = Observed(facts[o], r, t)
        BY <3>1, <3>3, ZenonT(30) DEF TypeOK
      <4>2. /\ Authoritative(r) => facts'[o].outcome = r /\ facts'[o].at = t
            /\ ~Authoritative(r) => /\ facts'[o].outcome = facts[o].outcome
                                    /\ facts'[o].at = facts[o].at
        <5>1. t \in Nat /\ t >= facts[o].at /\ facts[o].at \in Nat
          BY <2>2, <3>1, <3>3, ZenonT(30)
        <5> QED
          BY <4>1, <5>1, NewestFacts
      <4>3. facts'[o].participated <=> facts[o].participated \/ r = "valid"
        BY <4>1, ObservedParticipation, Zenon
      <4>4. CASE r = "valid"
        <5>1. facts'[o].outcome = "valid"
          BY <4>2, <4>4 DEF Authoritative
        <5>2. o \in scheduled'
          <6>1. scheduled' = CompletedSources(o, "valid", t)
            BY <3>1, <3>3, <4>4
          <6>2. ~Unschedules(o, "valid", t)
            BY DEF Unschedules
          <6> QED
            BY <6>1, <6>2, ZenonT(30) DEF CompletedSources
        <5> QED
          BY <5>1, <5>2, Zenon DEF SourceByEvidence
      <4>5. CASE r = "miss"
        <5>1. facts'[o].outcome = "miss" /\ facts'[o].at = t
          BY <4>2, <4>5 DEF Authoritative
        <5>2. o \in scheduled' <=> o \in scheduled /\ (o \in Seeded \/ discovered[o] > t)
          <6>1. Unschedules(o, r, t) <=> o \notin Seeded /\ ~(discovered[o] > t)
            BY <2>2, <3>1, <4>5 DEF Unschedules
          <6>2. scheduled' = IF Unschedules(o, r, t) THEN scheduled \ {o} ELSE scheduled
            BY <3>1, <3>3, <4>5 DEF CompletedSources
          <6> QED
            BY <6>1, <6>2, ZenonT(30)
        <5>3. SourceByEvidence(o)' <=>
                \/ o \in Seeded
                \/ (o \in Automatic \/ facts[o].participated) /\ discovered[o] > t
          <6>1. r # "valid" /\ discovered'[o] = discovered[o]
            BY <3>1, <4>5, ZenonT(30)
          <6>2. facts'[o].outcome # "valid" /\ facts'[o].outcome # "none"
            BY <5>1, ZenonT(30)
          <6> QED
            BY <4>3, <5>1, <6>1, <6>2, Zenon DEF SourceByEvidence
        <5>4. discovered[o] > t => discovered[o] > facts[o].at
          BY <2>2, <3>1, <3>3
        <5>5. /\ facts[o].outcome = "valid" => facts[o].participated
              /\ facts[o].participated => facts[o].outcome # "none"
          BY DEF FactsOK, FactOK
        <5>6. discovered[o] > t /\ o \notin Seeded =>
                (o \in scheduled <=> o \in Automatic \/ facts[o].participated)
          <6>1. /\ \/ facts[o].outcome = "none"
                   \/ facts[o].outcome = "valid"
                   \/ facts[o].outcome = "miss"
                /\ facts[o].outcome = "none" => facts[o].outcome # "valid"
            BY <2>2
          <6>2. o \in scheduled <=> SourceByEvidence(o)
            BY <2>1
          <6> QED
            BY <5>4, <5>5, <6>1, <6>2, Zenon DEF SourceByEvidence
        <5>7. o \in Seeded => o \in scheduled
          BY <2>1 DEF SourceByEvidence
        <5> QED
          BY <5>2, <5>3, <5>6, <5>7, Zenon
      <4>6. CASE r # "valid" /\ r # "miss"
        <5>1. scheduled' = scheduled
          BY <3>1, <4>6 DEF CompletedSources, Unschedules
        <5>2. facts'[o].outcome = facts[o].outcome /\ facts'[o].at = facts[o].at
          BY <4>2, <4>6, ZenonT(30) DEF Authoritative
        <5>3. discovered'[o] = discovered[o]
          BY <3>1
        <5>4. facts'[o].participated <=> facts[o].participated
          BY <4>3, <4>6, Zenon
        <5>5. SourceByEvidence(o)' <=> SourceByEvidence(o)
          BY <5>2, <5>3, <5>4, Zenon DEF SourceByEvidence
        <5> QED
          BY <2>1, <5>1, <5>5
      <4> QED
        BY <4>4, <4>5, <4>6
    <3> QED
      BY <3>2, <3>3
  <2>4. ASSUME NEW c \in Crawlers, NEW cands \in SUBSET Origins,
               RecordDiscovery(c, cands), NEW o \in Origins
        PROVE  o \in scheduled' <=> SourceByEvidence(o)'
    <3> DEFINE d == Greatest(discovered[o], now)
    <3>1. /\ facts' = facts
          /\ scheduled' = scheduled \cup Reactivated(cands, now)
          /\ discovered'[o] = IF o \in cands THEN d ELSE discovered[o]
      BY <2>4 DEF RecordDiscovery
    <3>2. CASE o \notin cands
      <4>1. o \in scheduled' <=> o \in scheduled
        BY <3>1, <3>2 DEF Reactivated
      <4> QED
        BY <2>1, <3>1, <3>2, <4>1, ZenonT(30) DEF SourceByEvidence
    <3>3. CASE o \in cands
      <4>1. o \in Reactivated(cands, now) <=>
              \/ facts[o].outcome = "valid"
              \/ o \in Automatic /\ facts[o].outcome = "none"
              \/ /\ o \in Automatic \/ facts[o].participated
                 /\ facts[o].outcome # "none"
                 /\ d > facts[o].at
        BY <3>3, Zenon DEF Reactivated
      <4>2. discovered[o] > facts[o].at => d > facts[o].at
        BY <2>2 DEF Greatest, TypeOK, Time
      <4>3. discovered'[o] = d
        BY <3>1, <3>3, ZenonT(30)
      <4>4. /\ \/ facts[o].outcome = "none"
               \/ facts[o].outcome = "valid"
               \/ facts[o].outcome = "miss"
            /\ facts[o].outcome = "miss" => facts[o].outcome # "none"
        BY <2>2
      <4>5. o \in scheduled <=> SourceByEvidence(o)
        BY <2>1, ZenonT(30)
      <4>6. o \in scheduled' <=> o \in scheduled \/ o \in Reactivated(cands, now)
        BY <3>1
      <4> HIDE DEF d
      <4> QED
        BY <3>1, <4>1, <4>2, <4>3, <4>4, <4>5, <4>6, Zenon DEF SourceByEvidence
    <3> QED
      BY <3>2, <3>3, ZenonT(30)
  <2>5. CASE facts' = facts /\ discovered' = discovered /\ scheduled' = scheduled
    BY <2>5, ZenonT(30) DEF ScheduleFollowsEvidence, SourceByEvidence
  <2>6. scheduled' \subseteq Origins
    <3>1. TypeOK /\ [Next]_vars => TypeOK'
      BY TypeInductive
    <3> QED
      BY <3>1 DEF TypeOK
  <2>7. ASSUME \A o \in Origins : o \in scheduled' <=> SourceByEvidence(o)'
        PROVE  ScheduleFollowsEvidence'
    BY <2>6, <2>7 DEF ScheduleFollowsEvidence
  <2> QED
    BY <2>3, <2>4, <2>5, <2>7, ScheduleChange
<1> QED
  BY <1>1, <1>2, <1>3, TypeCorrect, ResultsOrdered, PTL DEF Spec

-----------------------------------------------------------------------------
(* Admission and the high-water mark.                                      *)

(* The members of a set with fewer than n members below them are at most   *)
(* n: counting those below gives each of them a number of its own.         *)
LEMMA LowestAreFew ==
    ASSUME NEW S \in SUBSET Nat, IsFiniteSet(S), NEW n \in Nat,
           NEW T, T = {x \in S : Cardinality({y \in S : y < x}) < n}
    PROVE  IsFiniteSet(T) /\ Cardinality(T) \in Nat /\ Cardinality(T) <= n
<1> DEFINE Below(x) == {y \in S : y < x}
           rank == [x \in T |-> Cardinality(Below(x))]
<1>1. IsFiniteSet(T) /\ Cardinality(T) \in Nat
  BY FS_Subset, FS_CardinalityType, ZenonT(30)
<1>2. ASSUME NEW x \in S
      PROVE  IsFiniteSet(Below(x)) /\ Cardinality(Below(x)) \in Nat
  BY FS_Subset, FS_CardinalityType
<1>3. ASSUME NEW x \in S, NEW y \in S, x < y
      PROVE  Cardinality(Below(x)) # Cardinality(Below(y))
  <2>1. Below(x) \in SUBSET Below(y) /\ x \in Below(y) /\ x \notin Below(x)
    <3>1. x \in Nat /\ y \in Nat
      OBVIOUS
    <3>2. ASSUME NEW z \in S, z < x
          PROVE  z < y
      <4>1. z \in Nat
        OBVIOUS
      <4> QED
        BY <1>3, <3>1, <3>2, <4>1
    <3>3. ~(x < x)
      BY <3>1
    <3> QED
      BY <1>3, <3>2, <3>3, Zenon
  <2>2. Below(x) # Below(y)
    BY <2>1
  <2> HIDE DEF Below
  <2>3. Cardinality(Below(y)) = Cardinality(Below(x)) => Below(y) = Below(x)
    BY <1>2, <2>1, FS_Subset
  <2> QED
    BY <2>2, <2>3
<1>4. rank \in [T -> 0..(n - 1)]
  <2>1. ASSUME NEW x \in T
        PROVE  Cardinality(Below(x)) \in 0..(n - 1)
    BY <1>2
  <2> QED
    BY <2>1, ZenonT(30)
<1>5. IsFiniteSet(0..(n - 1)) /\ Cardinality(0..(n - 1)) = n
  <2>1. 0 \in Int /\ n - 1 \in Int
    OBVIOUS
  <2>2. /\ IsFiniteSet(0..(n - 1))
        /\ Cardinality(0..(n - 1)) = IF 0 > n - 1 THEN 0 ELSE n - 1 - 0 + 1
    BY ONLY <2>1, FS_Interval
  <2> QED
    BY <2>2
<1>6. ASSUME NEW x \in T, NEW y \in T, x # y
      PROVE  rank[x] # rank[y]
  <2>1. x \in S /\ y \in S /\ x \in Nat /\ y \in Nat
    OBVIOUS
  <2>2. x < y \/ y < x
    BY <1>6, <2>1
  <2> QED
    BY <1>3, <2>1, <2>2
<1>7. ~(Cardinality(0..(n - 1)) < Cardinality(T))
  <2> HIDE DEF rank
  <2> QED
    BY ONLY <1>1, <1>4, <1>5, <1>6, FS_PigeonHole
<1> QED
  BY <1>1, <1>5, <1>7

(* Sets of origins are finite.                                             *)
LEMMA OriginsFinite ==
    ASSUME NEW S \in SUBSET Origins
    PROVE  IsFiniteSet(S) /\ Cardinality(S) \in Nat
<1>1. NumOrigins \in Int /\ 1 \in Int
  BY ConstantsAssumption
<1>2. IsFiniteSet(1..NumOrigins)
  BY ONLY <1>1, FS_Interval
<1>3. S \in SUBSET (1..NumOrigins)
  BY DEF Origins
<1>4. IsFiniteSet(S)
  BY ONLY <1>2, <1>3, FS_Subset, ZenonT(30)
<1> QED
  BY <1>4, FS_CardinalityType

(* Only admission gives an origin without a row a probe.                   *)
LEMMA OnlyAdmissionProbes ==
    ASSUME TypeOK, [Next]_vars, NEW o \in Origins, ~Queued(o),
           queue'[o].mode = "probe"
    PROVE  ProbesScheduled
<1>1. queue[o] \in Row /\ queue[o].mode = "none"
  BY DEF TypeOK, Queued
<1>2. ~RowClaimed(o)
  BY ZenonT(30) DEF RowClaimed, Eligible
<1>3. ~RowRenewed(o)
  BY <1>1, ZenonT(30) DEF RowRenewed, Row
<1>4. ~RowReleased(o)
  BY <1>1, ZenonT(30) DEF RowReleased, Unleased, Rescheduled, Row
<1>5. ~RowCompleted(o)
  BY <1>1, ZenonT(30) DEF RowCompleted, CompletedRow, RemovesProbe, CompletedMode, Unleased,
              AbsentRow, Row
<1>6. ~RowScheduled(o)
  BY <1>1, ZenonT(30) DEF RowScheduled, ScheduledRow, NewRow, AbsentRow, Row
<1> QED
  BY <1>1, <1>2, <1>3, <1>4, <1>5, <1>6, RowChange, ZenonT(30) DEF RowAdmitted

(* What one admission adds fits into the room below the high-water mark,   *)
(* however many candidates of a batch are eligible.                        *)
LEMMA AdmittedFit ==
    ASSUME TypeOK, NEW c \in Crawlers, NEW o \in Admitted(batch[c].cands)
    PROVE  /\ Admitted(batch[c].cands) \subseteq Origins
           /\ Cardinality(activeProbes) + Cardinality(Admitted(batch[c].cands))
                <= MaxPendingProbes
<1>1. batch[c].cands \subseteq Origins
  BY DEF TypeOK
<1>2. PICK eligible : eligible = {x \in batch[c].cands \ Avoided :
                                    x \notin blocked /\ ~Queued(x)}
  BY ZenonT(30)
<1>3. PICK room : room = MaxPendingProbes - Cardinality(activeProbes)
  OBVIOUS
<1>4. PICK T : T = {x \in eligible : Cardinality({y \in eligible : y < x}) < room}
  BY ZenonT(30)
<1>5. Admitted(batch[c].cands) = T
  BY <1>2, <1>3, <1>4, ZenonT(30) DEF Admitted
<1>6. eligible \in SUBSET Origins
  BY <1>1, <1>2
<1>7. eligible \in SUBSET Nat /\ IsFiniteSet(eligible)
  BY <1>6, OriginsFinite DEF Origins
<1>8. Cardinality(activeProbes) \in Nat
  <2>1. activeProbes \in SUBSET Origins
    BY ZenonT(30) DEF activeProbes
  <2> QED
    BY <2>1, OriginsFinite, ZenonT(30)
<1>9. room \in Nat
  <2>1. o \in eligible /\ Cardinality({y \in eligible : y < o}) < room
    BY <1>4, <1>5
  <2>2. {y \in eligible : y < o} \in SUBSET Origins
    BY <1>6
  <2>3. Cardinality({y \in eligible : y < o}) \in Nat
    BY <2>2, OriginsFinite, ZenonT(30)
  <2> QED
    BY <1>3, <1>8, <2>1, <2>3, ConstantsAssumption
<1>10. Cardinality(T) \in Nat /\ Cardinality(T) <= room
  BY ONLY <1>4, <1>7, <1>9, LowestAreFew, ZenonT(30)
<1>11. T \subseteq Origins
  BY <1>4, <1>6
<1> QED
  BY <1>3, <1>5, <1>8, <1>9, <1>10, <1>11, ConstantsAssumption

(* The transaction that admits probes leaves the active ones within the    *)
(* high-water mark, for every batch and every number of origins.  It holds *)
(* of the rows as the transaction finds them, so that admissions by other  *)
(* crawlers in between make no difference.                                 *)
THEOREM AdmissionBounded == Spec => AdmissionWithinCapacity
<1>1. TypeOK /\ [Next]_vars => [AdmissionStep]_vars
  <2> SUFFICES ASSUME TypeOK, [Next]_vars, NEW o \in Origins, ~Queued(o),
                      queue'[o].mode = "probe"
               PROVE  Cardinality(activeProbes') <= MaxPendingProbes
    BY ZenonT(30) DEF AdmissionStep
  <2>1. PICK c \in Crawlers : \E t \in batch[c].at..now : scheduleProbeCandidates(c, t)
    BY OnlyAdmissionProbes, ZenonT(30) DEF ProbesScheduled
  <2>2. PICK t \in batch[c].at..now : scheduleProbeCandidates(c, t)
    BY <2>1
  <2>3. PICK new : new = Admitted(batch[c].cands)
    BY ZenonT(30)
  <2>4. /\ now' = now
        /\ \A x \in Origins : x \notin new => queue'[x] = queue[x]
    BY <2>2, <2>3, ZenonT(30) DEF scheduleProbeCandidates
  <2>5. o \in new
    BY <2>4 DEF Queued
  <2>6. /\ new \in SUBSET Origins
        /\ Cardinality(activeProbes) + Cardinality(new) <= MaxPendingProbes
    BY <2>3, <2>5, AdmittedFit, ZenonT(30)
  <2>7. activeProbes' \in SUBSET (activeProbes \cup new)
    BY <2>4, ZenonT(30) DEF activeProbes
  <2>8. activeProbes \in SUBSET Origins
    BY ZenonT(30) DEF activeProbes
  <2>9. PICK old, act : old = activeProbes /\ act = activeProbes'
    BY ZenonT(30)
  <2>10. /\ IsFiniteSet(old) /\ IsFiniteSet(new)
         /\ Cardinality(old) \in Nat /\ Cardinality(new) \in Nat
    BY <2>6, <2>8, <2>9, OriginsFinite, ZenonT(30)
  <2>11. /\ IsFiniteSet(old \cup new)
         /\ Cardinality(old \cup new)
              = Cardinality(old) + Cardinality(new) - Cardinality(old \cap new)
    BY ONLY <2>10, FS_Union, ZenonT(30)
  <2>12. Cardinality(old \cap new) \in Nat
    <3>1. old \cap new \in SUBSET Origins
      BY <2>6
    <3> QED
      BY <3>1, OriginsFinite, ZenonT(30)
  <2>13. act \in SUBSET (old \cup new)
    BY <2>7, <2>9, ZenonT(30)
  <2>14. Cardinality(act) \in Nat /\ Cardinality(act) <= Cardinality(old \cup new)
    BY ONLY <2>11, <2>13, FS_Subset, FS_CardinalityType, ZenonT(30)
  <2>15. Cardinality(old) + Cardinality(new) <= MaxPendingProbes
    BY <2>6, <2>9, ZenonT(30)
  <2>16. MaxPendingProbes \in Nat
    BY ConstantsAssumption, ZenonT(30)
  <2>17. Cardinality(old \cup new) <= Cardinality(old) + Cardinality(new)
    BY ONLY <2>10, <2>11, <2>12
  <2> QED
    BY <2>9, <2>10, <2>11, <2>12, <2>14, <2>15, <2>16, <2>17
<1> QED
  BY <1>1, TypeCorrect, PTL DEF Spec, AdmissionWithinCapacity

=============================================================================
