------------------------ MODULE DiscoveryLeaseProofs ------------------------
(***************************************************************************)
(* Proofs about DiscoveryLease, for any number of sources and runners, any *)
(* lease, any retry schedule and any policy of the operator.               *)
(***************************************************************************)
EXTENDS DiscoveryLease, TLAPS

(* The time each prover may take for a leaf that names none, in seconds.   *)
USE SMTT(30), ZenonT(30)

(* A runner has a source unless it is idle, and only a runner that crawls  *)
(* has a run that is open.                                                 *)
CrawlsHaveSource ==
    \A r \in Runners :
        /\ pc[r] # "idle" => src[r] \in Sources
        /\ run[r] \in Open => pc[r] = "crawling"

(* The inductive invariant behind RunsConsistent.                          *)
LeaseInv == TypeOK /\ CrawlsHaveSource /\ SupersededRunsClosed

LEMMA RenewIntervalInside ==
    RenewInterval \in Nat /\ RenewInterval > 0 /\ RenewInterval < LeaseDuration
BY TimesAssumption DEF RenewInterval

LEMMA InitTyped == Init => TypeOK
BY SourcesAssumption, TimesAssumption, RenewIntervalInside
DEF Init, TypeOK, Sources, NoSource, Open

LEMMA IdleTyped ==
    ASSUME TypeOK, NEW r \in Runners, Idle(r)
    PROVE  /\ pc' \in [Runners -> {"idle", "claimed", "crawling", "crawled",
                                   "completing"}]
           /\ src' \in [Runners -> Sources \cup {NoSource}]
           /\ renewIn' \in [Runners -> 0..RenewInterval]
           /\ lost' \in [Runners -> BOOLEAN]
BY RenewIntervalInside DEF Idle, TypeOK

LEMMA CloseRunsTyped ==
    ASSUME TypeOK, NEW S, CloseRuns(S)
    PROVE  /\ run' \in [Runners -> Open \cup {"none", "closed"}]
           /\ orphans' \subseteq Sources
BY DEF CloseRuns, TypeOK

LEMMA MovedBackTyped ==
    ASSUME TypeOK, NEW s \in Sources
    PROVE  MovedBack(s) \in [Sources -> Sources]
<1> DEFINE place == CHOOSE i \in Sources : order[i] = s
<1>1. \A i \in Sources : i < NumSources => i + 1 \in Sources
  BY SourcesAssumption DEF Sources
<1>2. \A i \in Sources :
        (IF i < place THEN order[i]
         ELSE IF i < NumSources THEN order[i + 1] ELSE s) \in Sources
  BY <1>1 DEF TypeOK
<1> QED BY <1>2 DEF MovedBack

LEMMA FailuresTyped ==
    ASSUME TypeOK, NEW s \in Sources, NEW transient \in BOOLEAN
    PROVE  /\ Failures(s, transient) \in 0..RetrySteps
           /\ NextAttempts(s, transient) \subseteq Nat
<1>1. fails[s] \in 0..RetrySteps
  BY DEF TypeOK
<1>2. Failures(s, transient) \in 0..RetrySteps
  BY <1>1, TimesAssumption DEF Failures
<1>3. transient => Failures(s, transient) \in 1..RetrySteps
  BY <1>1, TimesAssumption DEF Failures
<1> QED BY <1>2, <1>3, TimesAssumption DEF NextAttempts

(* Every step keeps the types.                                             *)
LEMMA StepTyped ==
    ASSUME TypeOK, CrawlsHaveSource, [Next]_vars
    PROVE  TypeOK'
<1> USE RenewIntervalInside
<1>1. ASSUME NEW r \in Runners, NEW s \in Sources, Claim(r, s) PROVE TypeOK'
  <2>1. /\ run' \in [Runners -> Open \cup {"none", "closed"}]
        /\ orphans' \subseteq Sources
    BY <1>1, CloseRunsTyped DEF Claim
  <2>2. /\ holder' \in [Sources -> Runners \cup {Nobody}]
        /\ left' \in [Sources -> 0..LeaseDuration]
        /\ UNCHANGED <<due, fails, order, policy, prompt>>
    BY <1>1, TimesAssumption DEF Claim, TypeOK, env
  <2>3. /\ pc' \in [Runners -> {"idle", "claimed", "crawling", "crawled",
                                "completing"}]
        /\ src' \in [Runners -> Sources \cup {NoSource}]
        /\ renewIn' \in [Runners -> 0..RenewInterval]
        /\ lost' \in [Runners -> BOOLEAN]
    BY <1>1 DEF Claim, TypeOK
  <2> QED BY <2>1, <2>2, <2>3 DEF TypeOK
<1>2. ASSUME NEW r \in Runners, BeginCrawl(r) PROVE TypeOK'
  BY <1>2 DEF BeginCrawl, TypeOK, rows, env, Open
<1>3. ASSUME NEW r \in Runners, BeginCrawlFails(r) PROVE TypeOK'
  BY <1>3 DEF BeginCrawlFails, TypeOK, rows, env, runs
<1>4. ASSUME NEW r \in Runners, FinishCrawl(r) PROVE TypeOK'
  BY <1>4 DEF FinishCrawl, TypeOK, rows, env
<1>5. ASSUME NEW r \in Runners, FinishCrawlFails(r) PROVE TypeOK'
  <2>1. LeftOpen(r) \subseteq Sources
    BY <1>5 DEF FinishCrawlFails, CrawlsHaveSource, LeftOpen
  <2> QED BY <1>5, <2>1 DEF FinishCrawlFails, TypeOK, rows, env
<1>6. ASSUME NEW r \in Runners, Renew(r) PROVE TypeOK'
  <2>1. src[r] \in Sources
    BY <1>6 DEF Renew, Renewing, CrawlsHaveSource
  <2>2. Extended(left[src[r]]) \in 0..LeaseDuration
    BY <2>1, TimesAssumption DEF Extended, TypeOK
  <2> QED BY <1>6, <2>1, <2>2 DEF Renew, TypeOK, env, runs
<1>7. ASSUME NEW r \in Runners, RenewFails(r) PROVE TypeOK'
  BY <1>7 DEF RenewFails, TypeOK, rows, env, runs
<1>8. ASSUME NEW r \in Runners, ReadCompletionClock(r) PROVE TypeOK'
  BY <1>8 DEF ReadCompletionClock, TypeOK, rows, env, runs
<1>9. ASSUME NEW r \in Runners, NEW transient \in BOOLEAN,
             Complete(r, transient)
      PROVE  TypeOK'
  <2> DEFINE s == src[r]
  <2>1. s \in Sources
    BY <1>9 DEF Complete, CrawlsHaveSource
  <2>2. /\ Idle(r) /\ CloseRuns({s}) /\ UNCHANGED env
        /\ holder' = [holder EXCEPT ![s] = Nobody]
        /\ left' = [left EXCEPT ![s] = 0]
        /\ fails' = [fails EXCEPT ![s] = Failures(s, transient)]
        /\ order' = MovedBack(s)
    BY <1>9 DEF Complete
  <2>3. PICK d \in NextAttempts(s, transient) : due' = [due EXCEPT ![s] = d]
    BY <1>9, ZenonT(30) DEF Complete
  <2>4. /\ Failures(s, transient) \in 0..RetrySteps
        /\ d \in Nat
    BY <2>1, <2>3, FailuresTyped
  <2>5. order' \in [Sources -> Sources]
    BY <2>1, <2>2, MovedBackTyped
  <2>6. /\ run' \in [Runners -> Open \cup {"none", "closed"}]
        /\ orphans' \subseteq Sources
    BY <2>2, CloseRunsTyped
  <2>7. /\ pc' \in [Runners -> {"idle", "claimed", "crawling", "crawled",
                                "completing"}]
        /\ src' \in [Runners -> Sources \cup {NoSource}]
        /\ renewIn' \in [Runners -> 0..RenewInterval]
        /\ lost' \in [Runners -> BOOLEAN]
    BY <2>2, IdleTyped
  <2>8. /\ holder' \in [Sources -> Runners \cup {Nobody}]
        /\ left' \in [Sources -> 0..LeaseDuration]
        /\ due' \in [Sources -> Nat]
        /\ fails' \in [Sources -> 0..RetrySteps]
        /\ policy' \in Policies /\ prompt' \in BOOLEAN
    BY <2>1, <2>2, <2>3, <2>4, TimesAssumption DEF TypeOK, env
  <2> QED BY <2>5, <2>6, <2>7, <2>8 DEF TypeOK
<1>10. ASSUME NEW r \in Runners, GiveUp(r) PROVE TypeOK'
  BY <1>10, IdleTyped DEF GiveUp, TypeOK, rows, env, runs
<1>11. ASSUME NEW r \in Runners, Crash(r) PROVE TypeOK'
  <2>1. LeftOpen(r) \subseteq Sources
    BY DEF LeftOpen, CrawlsHaveSource
  <2> QED BY <1>11, <2>1, IdleTyped DEF Crash, TypeOK, rows, env
<1>12. ASSUME PolicyChanges PROVE TypeOK'
  BY <1>12 DEF PolicyChanges, TypeOK, rows, runs, runners
<1>13. ASSUME Tick PROVE TypeOK'
  <2>1. left' \in [Sources -> 0..LeaseDuration] /\ due' \in [Sources -> Nat]
    BY <1>13, TimesAssumption DEF Tick, TypeOK, Earlier
  <2>2. renewIn' \in [Runners -> 0..RenewInterval]
    BY <1>13 DEF Tick, TypeOK, Earlier
  <2> QED BY <1>13, <2>1, <2>2 DEF Tick, TypeOK, env, runs
<1>14. ASSUME UNCHANGED vars PROVE TypeOK'
  BY <1>14 DEF vars, rows, env, runs, runners, TypeOK
<1> QED
  BY <1>1, <1>2, <1>3, <1>4, <1>5, <1>6, <1>7, <1>8, <1>9, <1>10, <1>11,
     <1>12, <1>13, <1>14
  DEF Next

LEMMA InitLease == Init => LeaseInv
BY InitTyped DEF Init, LeaseInv, CrawlsHaveSource, SupersededRunsClosed, Open

(* Every step keeps crawls and their sources together.                     *)
LEMMA StepCrawls ==
    ASSUME TypeOK, CrawlsHaveSource, [Next]_vars
    PROVE  CrawlsHaveSource'
<1> SUFFICES ASSUME NEW q \in Runners
             PROVE  /\ pc'[q] # "idle" => src'[q] \in Sources
                    /\ run'[q] \in Open => pc'[q] = "crawling"
  BY DEF CrawlsHaveSource
<1>0. /\ pc[q] # "idle" => src[q] \in Sources
      /\ run[q] \in Open => pc[q] = "crawling"
  BY DEF CrawlsHaveSource
<1>1. ASSUME NEW r \in Runners, NEW s \in Sources, Claim(r, s)
      PROVE  /\ pc'[q] # "idle" => src'[q] \in Sources
             /\ run'[q] \in Open => pc'[q] = "crawling"
  BY <1>0, <1>1 DEF Claim, CloseRuns, TypeOK, Open
<1>2. ASSUME NEW r \in Runners,
             \/ BeginCrawl(r) \/ BeginCrawlFails(r)
             \/ FinishCrawl(r) \/ FinishCrawlFails(r)
      PROVE  /\ pc'[q] # "idle" => src'[q] \in Sources
             /\ run'[q] \in Open => pc'[q] = "crawling"
  BY <1>0, <1>2
  DEF BeginCrawl, BeginCrawlFails, FinishCrawl, FinishCrawlFails, TypeOK,
      Open, runs
<1>3. ASSUME NEW r \in Runners,
             Renew(r) \/ RenewFails(r) \/ ReadCompletionClock(r)
      PROVE  /\ pc'[q] # "idle" => src'[q] \in Sources
             /\ run'[q] \in Open => pc'[q] = "crawling"
  BY <1>0, <1>3 DEF Renew, RenewFails, ReadCompletionClock, TypeOK, runs
<1>4. ASSUME NEW r \in Runners, NEW transient \in BOOLEAN,
             Complete(r, transient)
      PROVE  /\ pc'[q] # "idle" => src'[q] \in Sources
             /\ run'[q] \in Open => pc'[q] = "crawling"
  BY <1>0, <1>4 DEF Complete, CloseRuns, Idle, TypeOK, Open
<1>5. ASSUME NEW r \in Runners, GiveUp(r)
      PROVE  /\ pc'[q] # "idle" => src'[q] \in Sources
             /\ run'[q] \in Open => pc'[q] = "crawling"
  BY <1>0, <1>5 DEF GiveUp, Idle, TypeOK, runs
<1>6. ASSUME NEW r \in Runners, Crash(r)
      PROVE  /\ pc'[q] # "idle" => src'[q] \in Sources
             /\ run'[q] \in Open => pc'[q] = "crawling"
  BY <1>0, <1>6 DEF Crash, Idle, TypeOK, Open
<1>7. ASSUME PolicyChanges \/ Tick \/ UNCHANGED vars
      PROVE  /\ pc'[q] # "idle" => src'[q] \in Sources
             /\ run'[q] \in Open => pc'[q] = "crawling"
  BY <1>0, <1>7 DEF PolicyChanges, Tick, vars, runs, runners
<1> QED BY <1>1, <1>2, <1>3, <1>4, <1>5, <1>6, <1>7 DEF Next

(* Every step keeps open runs under their lease.  A claim or a completion  *)
(* takes the source from its holder and closes the holder's run with it.   *)
LEMMA StepSuperseded ==
    ASSUME LeaseInv, [Next]_vars
    PROVE  SupersededRunsClosed'
<1> USE DEF LeaseInv
<1> SUFFICES ASSUME NEW q \in Runners, run'[q] = "running"
             PROVE  holder'[src'[q]] = q
  BY DEF SupersededRunsClosed
<1>0. run[q] = "running" => /\ pc[q] = "crawling"
                            /\ src[q] \in Sources
                            /\ holder[src[q]] = q
  BY DEF CrawlsHaveSource, SupersededRunsClosed, Open
<1>1. ASSUME NEW r \in Runners, NEW s \in Sources, Claim(r, s)
      PROVE  holder'[src'[q]] = q
  BY <1>0, <1>1 DEF Claim, CloseRuns, TypeOK, Open
<1>2. ASSUME NEW r \in Runners, BeginCrawl(r) PROVE holder'[src'[q]] = q
  BY <1>0, <1>2 DEF BeginCrawl, TypeOK, rows
<1>3. ASSUME NEW r \in Runners,
             BeginCrawlFails(r) \/ FinishCrawl(r) \/ FinishCrawlFails(r)
      PROVE  holder'[src'[q]] = q
  BY <1>0, <1>3
  DEF BeginCrawlFails, FinishCrawl, FinishCrawlFails, TypeOK, rows, runs
<1>4. ASSUME NEW r \in Runners,
             Renew(r) \/ RenewFails(r) \/ ReadCompletionClock(r)
      PROVE  holder'[src'[q]] = q
  BY <1>0, <1>4 DEF Renew, RenewFails, ReadCompletionClock, rows, runs
<1>5. ASSUME NEW r \in Runners, NEW transient \in BOOLEAN,
             Complete(r, transient)
      PROVE  holder'[src'[q]] = q
  BY <1>0, <1>5 DEF Complete, CloseRuns, Idle, TypeOK, Open
<1>6. ASSUME NEW r \in Runners, GiveUp(r) PROVE holder'[src'[q]] = q
  BY <1>0, <1>6 DEF GiveUp, Idle, TypeOK, rows, runs
<1>7. ASSUME NEW r \in Runners, Crash(r) PROVE holder'[src'[q]] = q
  BY <1>0, <1>7 DEF Crash, Idle, TypeOK, rows
<1>8. ASSUME PolicyChanges \/ Tick \/ UNCHANGED vars
      PROVE  holder'[src'[q]] = q
  BY <1>0, <1>8 DEF PolicyChanges, Tick, vars, rows, runs, runners
<1> QED BY <1>1, <1>2, <1>3, <1>4, <1>5, <1>6, <1>7, <1>8 DEF Next

LEMMA LeaseInvariant == Spec => []LeaseInv
<1>1. LeaseInv /\ [Next]_vars => LeaseInv'
  BY StepTyped, StepCrawls, StepSuperseded DEF LeaseInv
<1> QED BY InitLease, <1>1, PTL DEF Spec

(* The tables keep their types, and a run that began under a lease is open *)
(* only while no other runner has claimed the source.                      *)
THEOREM RunsStayConsistent == Spec => []RunsConsistent
<1>1. LeaseInv => RunsConsistent
  BY DEF LeaseInv, RunsConsistent
<1> QED BY <1>1, LeaseInvariant, PTL

-----------------------------------------------------------------------------
(* Leases of sources are exclusive leases.                                 *)

LEMMA InitRefines == Init => Lease!Init
BY DEF Init, Lease!Init

(* A claim grants, a completion finishes, time lets leases lapse, a runner *)
(* that gives up or dies drops its source; all else is invisible.          *)
LEMMA StepRefines ==
    ASSUME LeaseInv, [Next]_vars
    PROVE  [Lease!Next]_(Lease!vars)
<1> USE DEF LeaseInv
<1>1. ASSUME NEW r \in Runners, NEW s \in Sources, Claim(r, s)
      PROVE  Lease!Grant(s, r)
  <2>1. left[s] = 0 /\ left' = [left EXCEPT ![s] = LeaseDuration]
    BY <1>1 DEF Claim, Claimable, Eligible
  <2>2. {t \in Sources : left[t] = 0}' = {t \in Sources : left[t] = 0} \ {s}
    BY <2>1, TimesAssumption DEF TypeOK
  <2> QED BY <1>1, <2>1, <2>2 DEF Claim, Lease!Grant
<1>2. ASSUME NEW r \in Runners, Renew(r) PROVE UNCHANGED Lease!vars
  <2>1. /\ src[r] \in Sources /\ left[src[r]] > 0
        /\ left' = [left EXCEPT ![src[r]] = Extended(@)]
    BY <1>2 DEF Renew, Renewing, Authority, CrawlsHaveSource
  <2>2. Extended(left[src[r]]) # 0
    BY <2>1, TimesAssumption DEF Extended, TypeOK
  <2>3. {t \in Sources : left[t] = 0}' = {t \in Sources : left[t] = 0}
    BY <2>1, <2>2 DEF TypeOK
  <2> QED BY <1>2, <2>3 DEF Renew, Lease!vars
<1>3. ASSUME NEW r \in Runners, NEW s \in Sources, s = src[r],
             NEW transient \in BOOLEAN, Complete(r, transient)
      PROVE  Lease!Finish(s, r)
  <2>1. /\ holder[s] = r
        /\ holder' = [holder EXCEPT ![s] = Nobody]
        /\ left' = [left EXCEPT ![s] = 0]
        /\ fails' = [fails EXCEPT ![s] = Failures(s, transient)]
        /\ src' = [src EXCEPT ![r] = NoSource]
    BY <1>3 DEF Complete, Newest, Idle
  <2>2. {t \in Sources : left[t] = 0}' = {t \in Sources : left[t] = 0} \cup {s}
    BY <2>1 DEF TypeOK
  <2>3. \A j \in Sources \ {s} : fails'[j] = fails[j]
    BY <2>1 DEF TypeOK
  <2> QED BY <1>3, <2>1, <2>2, <2>3 DEF Lease!Finish
<1>4. ASSUME Tick PROVE Lease!Lapse
  <2>1. \A t \in Sources : left[t] = 0 => left'[t] = 0
    BY <1>4 DEF Tick, Earlier, TypeOK
  <2> QED BY <1>4, <2>1 DEF Tick, Lease!Lapse
<1>5. ASSUME UNCHANGED rows, UNCHANGED src PROVE UNCHANGED Lease!vars
  BY <1>5 DEF rows, Lease!vars
<1>6. ASSUME NEW r \in Runners,
             \/ BeginCrawl(r) \/ BeginCrawlFails(r)
             \/ FinishCrawl(r) \/ FinishCrawlFails(r)
             \/ RenewFails(r) \/ ReadCompletionClock(r)
      PROVE  UNCHANGED rows /\ UNCHANGED src
  BY <1>6
  DEF BeginCrawl, BeginCrawlFails, FinishCrawl, FinishCrawlFails, RenewFails,
      ReadCompletionClock
<1>7. ASSUME PolicyChanges \/ UNCHANGED vars
      PROVE  UNCHANGED rows /\ UNCHANGED src
  BY <1>7 DEF PolicyChanges, vars, runners
<1>8. ASSUME NEW r \in Runners, GiveUp(r) \/ Crash(r) PROVE Lease!Drop(r)
  BY <1>8 DEF GiveUp, Crash, Idle, rows, Lease!Drop
<1>9. CASE \E r \in Runners, s \in Sources : Claim(r, s)
  BY <1>9, <1>1 DEF Lease!Next
<1>10. CASE \E r \in Runners, transient \in BOOLEAN : Complete(r, transient)
  <2>1. PICK r \in Runners, transient \in BOOLEAN : Complete(r, transient)
    BY <1>10
  <2>2. PICK s \in Sources : s = src[r]
    BY <2>1 DEF Complete, CrawlsHaveSource
  <2> QED BY <2>1, <2>2, <1>3 DEF Lease!Next
<1>11. CASE Tick
  BY <1>11, <1>4 DEF Lease!Next
<1>12. CASE \E r \in Runners : GiveUp(r) \/ Crash(r)
  BY <1>12, <1>8 DEF Lease!Next
<1> QED
  BY <1>2, <1>5, <1>6, <1>7, <1>9, <1>10, <1>11, <1>12 DEF Next

(* The lease on a source is exclusive: it is granted only when the earlier *)
(* one has expired, only the runner that holds it ends it, and only that   *)
(* changes the failure streak of the source; a runner whose lease was      *)
(* claimed again can but drop it.                                          *)
THEOREM SourceLeaseIsExclusive == Spec => ImplementsLease
<1>1. LeaseInv /\ [Next]_vars => [Lease!Next]_(Lease!vars)
  BY StepRefines
<1> QED BY <1>1, InitRefines, LeaseInvariant, PTL
  DEF Spec, ImplementsLease, Lease!Spec

-----------------------------------------------------------------------------
(* Renewal after half the lease.                                           *)

(* Until its crawl is over, a prompt runner has at least the second half   *)
(* of its lease left when the renewal timer fires; from then on no time    *)
(* passes before it has completed.                                         *)
Timely(r) ==
    /\ Authority(r)
    /\ ~lost[r]
    /\ pc[r] \in {"claimed", "crawling"} =>
        left[src[r]] >= renewIn[r] + (LeaseDuration - RenewInterval)

Served(r) == prompt /\ pc[r] # "idle" /\ src[r] \notin Failing

TimelyInv == \A r \in Runners : Served(r) => Timely(r)

(* What a step of another runner, or of the environment, leaves alone.     *)
LEMMA OthersTimely ==
    ASSUME LeaseInv, LeaseInv', NEW q \in Runners,
           Served(q)', Served(q) => Timely(q),
           prompt' = prompt, pc'[q] = pc[q], src'[q] = src[q],
           renewIn'[q] = renewIn[q], lost'[q] = lost[q],
           Timely(q) => holder'[src[q]] = q /\ left'[src[q]] >= left[src[q]]
    PROVE  Timely(q)'
<1>1. Timely(q) /\ src[q] \in Sources
  BY DEF Served, LeaseInv, CrawlsHaveSource
<1>2. /\ left[src[q]] \in Nat /\ left'[src[q]] \in Nat
      /\ renewIn[q] \in Nat
      /\ holder'[src[q]] = q /\ left'[src[q]] >= left[src[q]]
  BY <1>1, RenewIntervalInside DEF LeaseInv, TypeOK
<1>3. Authority(q)'
  BY <1>1, <1>2 DEF Timely, Authority
<1>4. ~lost'[q]
  BY <1>1, Zenon DEF Timely
<1>5. pc'[q] \in {"claimed", "crawling"} =>
        left'[src'[q]] >= renewIn'[q] + (LeaseDuration - RenewInterval)
  BY <1>1, <1>2, RenewIntervalInside, TimesAssumption DEF Timely
<1> QED BY <1>3, <1>4, <1>5 DEF Timely

(* A runner that goes idle leaves the others as they are.                  *)
LEMMA OthersStay ==
    ASSUME LeaseInv, NEW r \in Runners, NEW q \in Runners, r # q, Idle(r)
    PROVE  /\ pc'[q] = pc[q] /\ src'[q] = src[q]
           /\ renewIn'[q] = renewIn[q] /\ lost'[q] = lost[q]
<1>1. /\ pc \in [Runners -> {"idle", "claimed", "crawling", "crawled",
                           "completing"}]
      /\ src \in [Runners -> Sources \cup {NoSource}]
      /\ renewIn \in [Runners -> 0..RenewInterval]
      /\ lost \in [Runners -> BOOLEAN]
  BY ZenonT(30) DEF LeaseInv, TypeOK
<1>2. pc'[q] = pc[q] /\ src'[q] = src[q]
  BY <1>1 DEF Idle
<1> QED BY <1>1, <1>2 DEF Idle

(* Nobody else takes, renews or ends a lease that is held and not expired, *)
(* and time passes only before the renewal timer fires.                    *)
LEMMA StepTimely ==
    ASSUME LeaseInv, LeaseInv', TimelyInv, [Next]_vars
    PROVE  TimelyInv'
<1> SUFFICES ASSUME NEW q \in Runners, Served(q)' PROVE Timely(q)'
  BY DEF TimelyInv
<1>0. /\ Served(q) => Timely(q)
      /\ pc[q] # "idle" => src[q] \in Sources
  BY DEF TimelyInv, LeaseInv, CrawlsHaveSource
<1> USE <1>0
<1>1. ASSUME NEW r \in Runners, NEW s \in Sources, Claim(r, s)
      PROVE  Timely(q)'
  <2>1. CASE r = q
    <3>1. /\ src'[q] = s /\ holder'[s] = q /\ left'[s] = LeaseDuration
          /\ renewIn'[q] = RenewInterval /\ lost'[q] = FALSE
      BY <1>1, <2>1 DEF Claim, LeaseInv, TypeOK
    <3>2. Authority(q)' /\ ~lost'[q]
      BY <3>1, TimesAssumption DEF Authority
    <3>3. left'[src'[q]] >= renewIn'[q] + (LeaseDuration - RenewInterval)
      BY <3>1, RenewIntervalInside, TimesAssumption
    <3> QED BY <3>2, <3>3, ZenonT(30) DEF Timely
  <2>2. CASE r # q
    <3>1. left[s] = 0
      BY <1>1 DEF Claim, Claimable, Eligible
    <3>2. ASSUME Timely(q)
          PROVE  holder'[src[q]] = q /\ left'[src[q]] >= left[src[q]]
      <4>1. Served(q)
        BY <1>1, <2>2, ZenonT(30) DEF Served, Claim, env, LeaseInv, TypeOK
      <4>2. src[q] \in Sources /\ src[q] # s
        BY <3>1, <3>2, <4>1 DEF Timely, Authority, Served
      <4> QED BY <1>1, <3>2, <4>2 DEF Claim, Timely, Authority, LeaseInv, TypeOK
    <3>3. /\ prompt' = prompt /\ pc'[q] = pc[q] /\ src'[q] = src[q]
          /\ renewIn'[q] = renewIn[q] /\ lost'[q] = lost[q]
      BY <1>1, <2>2, ZenonT(30) DEF Claim, env, LeaseInv, TypeOK
    <3> QED BY <3>2, <3>3, OthersTimely
  <2> QED BY <2>1, <2>2
<1>2. ASSUME NEW r \in Runners,
             \/ BeginCrawl(r) \/ BeginCrawlFails(r)
             \/ FinishCrawl(r) \/ FinishCrawlFails(r)
             \/ ReadCompletionClock(r)
      PROVE  Timely(q)'
  <2>1. UNCHANGED <<holder, left, prompt, src, renewIn, lost>>
    BY <1>2
    DEF BeginCrawl, BeginCrawlFails, FinishCrawl, FinishCrawlFails,
        ReadCompletionClock, rows, env
  <2>2. /\ pc[q] # "idle"
        /\ pc'[q] \in {"claimed", "crawling"} =>
             pc[q] \in {"claimed", "crawling"}
    BY <1>2
    DEF BeginCrawl, BeginCrawlFails, FinishCrawl, FinishCrawlFails,
        ReadCompletionClock, LeaseInv, TypeOK, Served
  <2>3. Timely(q)
    BY <2>1, <2>2 DEF Served
  <2> QED BY <2>1, <2>2, <2>3 DEF Timely, Authority
<1>3. ASSUME NEW r \in Runners, Renew(r) PROVE Timely(q)'
  <2>1. /\ src[r] \in Sources /\ holder[src[r]] = r
        /\ left' = [left EXCEPT ![src[r]] = Extended(@)]
        /\ renewIn' = [renewIn EXCEPT ![r] = RenewInterval]
        /\ UNCHANGED <<holder, prompt, pc, src, lost>>
    BY <1>3 DEF Renew, Renewing, Authority, LeaseInv, CrawlsHaveSource, env
  <2>2. /\ Extended(left[src[r]]) >= LeaseDuration
        /\ Extended(left[src[r]]) >= left[src[r]]
        /\ Extended(left[src[r]]) \in Nat
    BY <2>1, TimesAssumption DEF Extended, LeaseInv, TypeOK
  <2>3. Timely(q) /\ src[q] \in Sources
    BY <2>1, ZenonT(30) DEF Served
  <2>4. CASE r = q
    <3>1. left'[src'[q]] >= LeaseDuration /\ left'[src'[q]] \in Nat
          /\ renewIn'[q] = RenewInterval
      BY <2>1, <2>2, <2>4 DEF LeaseInv, TypeOK
    <3>2. Authority(q)' /\ ~lost'[q]
      BY <2>1, <2>3, <3>1, TimesAssumption DEF Timely, Authority
    <3>3. left'[src'[q]] >= renewIn'[q] + (LeaseDuration - RenewInterval)
      BY <3>1, RenewIntervalInside, TimesAssumption
    <3> QED BY <3>2, <3>3, ZenonT(30) DEF Timely
  <2>5. CASE r # q
    <3>1. holder'[src[q]] = q /\ left'[src[q]] >= left[src[q]]
      BY <2>1, <2>2, <2>3 DEF Timely, Authority, LeaseInv, TypeOK
    <3>2. renewIn'[q] = renewIn[q]
      BY <2>1, <2>5 DEF LeaseInv, TypeOK
    <3> QED BY <2>1, <3>1, <3>2, OthersTimely
  <2> QED BY <2>4, <2>5
<1>4. ASSUME NEW r \in Runners, RenewFails(r) PROVE Timely(q)'
  <2>1. /\ UNCHANGED <<holder, left, prompt, pc, src, renewIn>>
        /\ Timely(q)
    BY <1>4, ZenonT(30) DEF RenewFails, rows, env, Served
  <2>2. r # q
    BY <1>4, <2>1 DEF RenewFails, Timely, Served
  <2>3. lost'[q] = lost[q]
    BY <1>4, <2>2, ZenonT(30) DEF RenewFails, LeaseInv, TypeOK
  <2> QED BY <2>1, <2>3 DEF Timely, Authority
<1>5. ASSUME NEW r \in Runners, NEW transient \in BOOLEAN,
             Complete(r, transient)
      PROVE  Timely(q)'
  <2>1. r # q
    BY <1>5, SMTT(30) DEF Complete, Idle, Served, LeaseInv, TypeOK
  <2>a. prompt' = prompt /\ Idle(r)
    BY <1>5, ZenonT(30) DEF Complete, env
  <2>2. /\ prompt' = prompt /\ pc'[q] = pc[q] /\ src'[q] = src[q]
        /\ renewIn'[q] = renewIn[q] /\ lost'[q] = lost[q]
    BY <2>a, <2>1, OthersStay
  <2>3. Timely(q) /\ src[q] \in Sources
    BY <2>2 DEF Served
  <2>4. src[q] # src[r]
    BY <1>5, <2>1, <2>3 DEF Complete, Newest, Timely, Authority
  <2>5. holder'[src[q]] = q /\ left'[src[q]] >= left[src[q]]
    BY <1>5, <2>3, <2>4 DEF Complete, Newest, Timely, Authority, LeaseInv, TypeOK
  <2> QED BY <2>2, <2>5, OthersTimely
<1>6. ASSUME NEW r \in Runners, GiveUp(r) \/ Crash(r) PROVE Timely(q)'
  <2>1. r # q
    BY <1>6 DEF GiveUp, Crash, Idle, Served, LeaseInv, TypeOK
  <2>2. /\ UNCHANGED <<holder, left, prompt>>
        /\ pc'[q] = pc[q] /\ src'[q] = src[q]
        /\ renewIn'[q] = renewIn[q] /\ lost'[q] = lost[q]
    <3>1. UNCHANGED <<holder, left, prompt>> /\ Idle(r)
      BY <1>6 DEF GiveUp, Crash, rows, env
    <3> QED BY <2>1, <3>1, OthersStay
  <2>3. Timely(q)
    BY <2>2 DEF Served
  <2> QED BY <2>2, <2>3, ZenonT(30) DEF Timely, Authority
<1>7. ASSUME Tick PROVE Timely(q)'
  <2>1. /\ UNCHANGED <<holder, prompt, pc, src, lost>>
        /\ Timely(q) /\ src[q] \in Sources
    BY <1>7, ZenonT(30) DEF Tick, env, Served
  <2>2. ~Urgent(q)
    BY <1>7, <2>1 DEF Tick, Served
  <2>3. pc[q] \in {"claimed", "crawling"} /\ renewIn[q] # 0
    BY <2>1, <2>2 DEF Urgent, Renewing, Timely, Served, LeaseInv, TypeOK
  <2>4. /\ left[src[q]] \in Nat /\ renewIn[q] \in Nat
        /\ left'[src[q]] = Earlier(left[src[q]])
        /\ renewIn'[q] = Earlier(renewIn[q])
    BY <1>7, <2>1, RenewIntervalInside, SMTT(30) DEF Tick, LeaseInv, TypeOK
  <2>5. left[src[q]] >= renewIn[q] + (LeaseDuration - RenewInterval)
    BY <2>1, <2>3 DEF Timely
  <2>6. /\ left'[src[q]] > 0
        /\ left'[src[q]] >= renewIn'[q] + (LeaseDuration - RenewInterval)
    BY <2>3, <2>4, <2>5, RenewIntervalInside, TimesAssumption DEF Earlier
  <2> QED BY <2>1, <2>6 DEF Timely, Authority
<1>8. ASSUME PolicyChanges \/ UNCHANGED vars PROVE Timely(q)'
  <2>1. UNCHANGED <<holder, left, prompt, pc, src, renewIn, lost>>
    BY <1>8 DEF PolicyChanges, vars, rows, env, runners
  <2> QED BY <2>1, ZenonT(30) DEF Served, Timely, Authority
<1> QED
  BY <1>1, <1>2, <1>3, <1>4, <1>5, <1>6, <1>7, <1>8 DEF Next

(* Renewing after half the lease is soon enough: a runner whose steps are  *)
(* served promptly and whose store calls do not fail keeps the lease until *)
(* its completion is recorded.                                             *)
THEOREM LeaseOutlivesCrawl == Spec => []RenewedInTime
<1>1. Init => TimelyInv
  BY DEF Init, TimelyInv, Served
<1>2. LeaseInv /\ LeaseInv' /\ TimelyInv /\ [Next]_vars => TimelyInv'
  BY StepTimely
<1>3. TimelyInv => RenewedInTime
  BY DEF TimelyInv, RenewedInTime, Served, Timely
<1> QED BY <1>1, <1>2, <1>3, LeaseInvariant, PTL DEF Spec

=============================================================================
