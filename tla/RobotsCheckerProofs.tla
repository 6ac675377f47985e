------------------------ MODULE RobotsCheckerProofs ------------------------
(***************************************************************************)
(* Proofs about RobotsChecker, for any number of origins and callers, any  *)
(* delays and any size of the tables: the inductive invariant, and what    *)
(* follows from it.  What the steps do to the tables is in                 *)
(* RobotsTablesProofs.                                                     *)
(***************************************************************************)
EXTENDS RobotsTablesProofs

(* The time each prover may take for a leaf that names none, in seconds.   *)
USE SMTT(30), ZenonT(30)

-----------------------------------------------------------------------------
(* The inductive invariant                                                 *)

(* Fetches in flight are those of the callers that make them, and a policy *)
(* that is being fetched is not in the cache.                              *)
OnRequest == {"hop", "waiting", "sent"}

Leading(g) ==
    \/ kind[g] = "robots" /\ pc[g] \in OnRequest
    \/ pc[g] \in {"learned", "publish", "failed", "forget"}

FlightsOK ==
    /\ \A g \in Callers : Leading(g) =>
        /\ kind[g] = "robots"
        /\ at[g] \in DOMAIN inflight
        /\ inflight[at[g]].leader = g
        /\ inflight[at[g]].closed <=> pc[g] = "forget"
    /\ \A o \in DOMAIN inflight :
        LET l == inflight[o].leader IN Leading(l) /\ at[l] = o
    /\ \A g \in Callers : pc[g] = "join" =>
        at[g] \in DOMAIN inflight /\ ~inflight[at[g]].closed
    /\ DOMAIN cache \cap DOMAIN inflight = {}

(* Who has the policy of its origin has the one that the origin serves.    *)
HasPolicy(g) ==
    \/ pc[g] \in {"hit", "learned", "publish", "judge"}
    \/ kind[g] = "page" /\ pc[g] \in OnRequest

PoliciesOK ==
    /\ \A o \in DOMAIN cache : cache[o].policy = site[o].policy
    /\ \A g \in Callers : HasPolicy(g) => policy[g] = site[at[g]].policy

(* Without redirects requests go to the origin of the call.                *)
NotMoved == \A o \in Origins : ~site[o].moved

RequestsOK ==
    \A g \in Callers :
        pc[g] \in OnRequest /\ (kind[g] = "page" \/ NotMoved) => url[g] = at[g]

(* A table knows of the last request, or the operator's minimum is over.   *)
Remembered(f, k, since) == k \in DOMAIN f /\ f[k].start <= since

MinimumOK ==
    /\ \A o \in Origins :
        Remembered(schedules, o, sinceOrigin[o]) \/ sinceOrigin[o] >= Minimum
    /\ \A n \in Groups :
        Remembered(neighborhoods, n, sinceGroup[n]) \/ sinceGroup[n] >= Minimum

(* A neighborhood that has to wait has an origin that has to.              *)
GroupsOK ==
    \A n \in DOMAIN neighborhoods :
        /\ neighborhoods[n].delay = 0
        /\ neighborhoods[n].start < Minimum =>
            \E o \in DOMAIN schedules :
                Neighborhood[o] = n /\ schedules[o].start <= neighborhoods[n].start

(* The Crawl-delay of an origin whose policy is known is either over, or   *)
(* the schedule has what it takes to wait for it: the last request, and    *)
(* the delay, unless a caller is about to set it.                          *)
Delay(o) == site[o].policy.delay
Knows(o) == Remembered(schedules, o, sinceOrigin[o])
Over(o) == sinceOrigin[o] >= Delay(o)
DelaySet(g) ==
    \/ pc[g] \in {"publish", "judge"}
    \/ kind[g] = "page" /\ pc[g] \in OnRequest

DelaysOK ==
    NotMoved =>
        /\ \A o \in DOMAIN cache :
            Over(o) \/ (Knows(o) /\ schedules[o].delay = Delay(o))
        /\ \A g \in Callers : HasPolicy(g) => Over(at[g]) \/ Knows(at[g])
        /\ \A g \in Callers : DelaySet(g) =>
            at[g] \in DOMAIN schedules /\ schedules[at[g]].delay = Delay(at[g])
        /\ \A g \in Callers : pc[g] = "sent" => Knows(at[g])

RobotsInv ==
    /\ TypeOK /\ CountsOK /\ FlightsOK /\ PoliciesOK /\ RequestsOK
    /\ MinimumOK /\ GroupsOK /\ DelaysOK

-----------------------------------------------------------------------------
(* Fetches in flight                                                       *)

(* Steps that neither begin nor end a fetch.                               *)
SameFlight(h) ==
    /\ Leading(h)' <=> Leading(h)
    /\ Leading(h) => /\ at'[h] = at[h] /\ kind'[h] = kind[h]
                     /\ pc'[h] = "forget" <=> pc[h] = "forget"
    /\ pc'[h] = "join" =>
        /\ at'[h] = at[h]
        /\ \/ pc[h] = "join"
           \/ at[h] \in DOMAIN inflight /\ ~inflight[at[h]].closed

(* Such steps keep FlightsOK.                                              *)
LEMMA FlightsKept ==
    ASSUME TypeOK, FlightsOK, inflight' = inflight, DOMAIN cache' \subseteq DOMAIN cache,
           \A h \in Callers : SameFlight(h)
    PROVE  FlightsOK'
<1>1. \A o \in DOMAIN inflight : inflight[o].leader \in Callers
  BY DEF TypeOK, Flight
<1>2. ASSUME NEW g \in Callers, Leading(g)'
      PROVE  /\ kind'[g] = "robots"
             /\ at'[g] \in DOMAIN inflight'
             /\ inflight'[at'[g]].leader = g
             /\ inflight'[at'[g]].closed <=> pc'[g] = "forget"
  BY <1>2 DEF SameFlight, FlightsOK
<1>3. ASSUME NEW o \in DOMAIN inflight'
      PROVE  \E l \in Callers : inflight'[o].leader = l /\ Leading(l)' /\ at'[l] = o
  BY <1>1, <1>3 DEF SameFlight, FlightsOK
<1>4. ASSUME NEW g \in Callers, pc'[g] = "join"
      PROVE  at'[g] \in DOMAIN inflight' /\ ~inflight'[at'[g]].closed
  BY <1>4 DEF SameFlight, FlightsOK
<1>5. DOMAIN cache' \cap DOMAIN inflight' = {}
  BY DEF FlightsOK
<1> QED
  BY <1>2, <1>3, <1>4, <1>5 DEF FlightsOK, Leading

(* A caller that begins a fetch becomes its leader.                        *)
LEMMA LeadStep ==
    ASSUME TypeOK, FlightsOK, NEW g \in Callers, LookupLead(g)
    PROVE  FlightsOK'
<1> DEFINE o == at[g]
<1>1. /\ DOMAIN inflight' = DOMAIN inflight \cup {o} /\ o \notin DOMAIN inflight
      /\ inflight'[o].leader = g /\ inflight'[o].closed = FALSE
      /\ \A k \in DOMAIN inflight : inflight'[k] = inflight[k]
  BY DEF LookupLead, Announced
<1>2. /\ at' = at /\ kind'[g] = "robots" /\ pc'[g] = "hop" /\ pc[g] = "lookup"
      /\ \A h \in Callers : h # g => kind'[h] = kind[h] /\ pc'[h] = pc[h]
  BY DEF LookupLead, Goto, TypeOK
<1>3. /\ o \notin DOMAIN cache'
      /\ DOMAIN cache' \subseteq DOMAIN cache
  BY UnexpiredCache DEF LookupLead
<1>4. \A k \in DOMAIN inflight : inflight[k].leader \in Callers
  BY DEF TypeOK, Flight
<1>5. ~Leading(g) /\ Leading(g)' /\ \A h \in Callers : h # g => (Leading(h)' <=> Leading(h))
  BY <1>2 DEF Leading, OnRequest
<1>6. ASSUME NEW h \in Callers, Leading(h)'
      PROVE  /\ kind'[h] = "robots"
             /\ at'[h] \in DOMAIN inflight'
             /\ inflight'[at'[h]].leader = h
             /\ inflight'[at'[h]].closed <=> pc'[h] = "forget"
  BY <1>1, <1>2, <1>5, <1>6 DEF FlightsOK
<1>7. ASSUME NEW k \in DOMAIN inflight'
      PROVE  \E l \in Callers : inflight'[k].leader = l /\ Leading(l)' /\ at'[l] = k
  BY <1>1, <1>2, <1>4, <1>5 DEF FlightsOK
<1>8. ASSUME NEW h \in Callers, pc'[h] = "join"
      PROVE  at'[h] \in DOMAIN inflight' /\ ~inflight'[at'[h]].closed
  BY <1>1, <1>2, <1>8 DEF FlightsOK
<1>9. DOMAIN cache' \cap DOMAIN inflight' = {}
  BY <1>1, <1>3 DEF FlightsOK
<1> QED
  BY <1>6, <1>7, <1>8, <1>9 DEF FlightsOK, Leading

(* The leader takes its flight away; nobody is left waiting for it.        *)
LEMMA EndStep ==
    ASSUME TypeOK, FlightsOK, NEW g \in Callers, Publish(g) \/ Forget(g)
    PROVE  FlightsOK'
<1> DEFINE o == at[g]
<1>0. Leading(g) /\ o \in DOMAIN inflight /\ inflight[o].leader = g
  BY DEF Publish, Forget, Leading, FlightsOK
<1>1. /\ DOMAIN inflight' = DOMAIN inflight \ {o}
      /\ \A k \in DOMAIN inflight' : inflight'[k] = inflight[k]
  BY DEF Publish, Forget, Restrict
<1>2. at' = at /\ kind' = kind /\ pc'[g] \in {"judge", "refused"}
  BY DEF Publish, Forget, Goto, callerVars, TypeOK
<1>3. \A h \in Callers : h # g => \/ pc'[h] = pc[h]
                                  \/ pc[h] = "join" /\ pc'[h] = "judge"
  BY DEF Publish, Forget, Goto, Joined, TypeOK
<1>4. \A h \in Callers : pc'[h] = "join" => pc[h] = "join" /\ at[h] # o
  <2>1. CASE Publish(g)
    BY <2>1 DEF Publish, Joined
  <2>2. CASE Forget(g)
    <3>1. inflight[o].closed
      BY <1>0, <2>2 DEF FlightsOK, Forget
    <3> QED BY <1>2, <1>3, <3>1 DEF FlightsOK
  <2> QED BY <2>1, <2>2
<1>5. DOMAIN cache' \subseteq DOMAIN cache \cup {o}
  <2>1. CASE Publish(g)
    BY <2>1, PublishCache
  <2>2. CASE Forget(g)
    BY <2>2 DEF Forget
  <2> QED BY <2>1, <2>2
<1>6. ~Leading(g)' /\ \A h \in Callers : h # g => (Leading(h)' <=> Leading(h))
  BY <1>2, <1>3 DEF Leading, OnRequest
<1>7. \A h \in Callers : Leading(h)' => pc'[h] = pc[h]
  BY <1>3, <1>6 DEF Leading, OnRequest
<1>8. \A k \in DOMAIN inflight : inflight[k].leader \in Callers
  BY DEF TypeOK, Flight
<1>9. ASSUME NEW h \in Callers, Leading(h)'
      PROVE  /\ kind'[h] = "robots"
             /\ at'[h] \in DOMAIN inflight'
             /\ inflight'[at'[h]].leader = h
             /\ inflight'[at'[h]].closed <=> pc'[h] = "forget"
  BY <1>0, <1>1, <1>2, <1>6, <1>7, <1>9 DEF FlightsOK
<1>10. ASSUME NEW k \in DOMAIN inflight'
      PROVE  \E l \in Callers : inflight'[k].leader = l /\ Leading(l)' /\ at'[l] = k
  BY <1>0, <1>1, <1>2, <1>6, <1>8, ZenonT(30) DEF FlightsOK
<1>11. ASSUME NEW h \in Callers, pc'[h] = "join"
      PROVE  at'[h] \in DOMAIN inflight' /\ ~inflight'[at'[h]].closed
  BY <1>1, <1>2, <1>4, <1>11 DEF FlightsOK
<1>12. DOMAIN cache' \cap DOMAIN inflight' = {}
  BY <1>1, <1>5 DEF FlightsOK
<1> QED
  BY <1>9, <1>10, <1>11, <1>12 DEF FlightsOK, Leading

(* A leader that ends its fetch wakes those who wait for it.               *)
LEMMA CloseStep ==
    ASSUME TypeOK, FlightsOK, NEW g \in Callers, CloseFailed(g)
    PROVE  FlightsOK'
<1> DEFINE o == at[g]
<1>0. /\ Leading(g) /\ o \in DOMAIN inflight /\ inflight[o].leader = g
      /\ inflight \in [DOMAIN inflight -> Flight]
  BY DEF CloseFailed, Leading, FlightsOK, TypeOK
<1>1. /\ DOMAIN inflight' = DOMAIN inflight
      /\ inflight'[o].leader = g /\ inflight'[o].closed = TRUE
      /\ \A k \in DOMAIN inflight : k # o => inflight'[k] = inflight[k]
  <2>1. inflight' = [inflight EXCEPT ![o].closed = TRUE]
    BY DEF CloseFailed
  <2> QED BY <1>0, <2>1 DEF Flight
<1>2. at' = at /\ kind' = kind /\ cache' = cache /\ pc'[g] = "forget"
  BY DEF CloseFailed, callerVars
<1>3. \A h \in Callers : h # g => \/ pc'[h] = pc[h] /\ ~Joined(g, h)
                                  \/ Joined(g, h) /\ pc'[h] = "refused"
  BY DEF CloseFailed
<1>4. \A h \in Callers : Leading(h)' <=> Leading(h)
  BY <1>0, <1>2, <1>3 DEF Leading, OnRequest, Joined
<1>5. \A k \in DOMAIN inflight : inflight[k].leader \in Callers
  BY DEF TypeOK, Flight
<1>6. ASSUME NEW h \in Callers, Leading(h)'
      PROVE  /\ kind'[h] = "robots"
             /\ at'[h] \in DOMAIN inflight'
             /\ inflight'[at'[h]].leader = h
             /\ inflight'[at'[h]].closed <=> pc'[h] = "forget"
  <2>1. CASE h = g
    BY <1>0, <1>1, <1>2, <2>1 DEF FlightsOK
  <2>2. CASE h # g
    <3>1. pc'[h] = pc[h]
      BY <1>3, <1>6, <2>2 DEF Leading, OnRequest
    <3>2. Leading(h) /\ at[h] # o
      BY <1>0, <1>4, <1>6, <2>2 DEF FlightsOK
    <3> QED BY <1>1, <1>2, <3>1, <3>2 DEF FlightsOK
  <2> QED BY <2>1, <2>2
<1>7. ASSUME NEW k \in DOMAIN inflight'
      PROVE  \E l \in Callers : inflight'[k].leader = l /\ Leading(l)' /\ at'[l] = k
  BY <1>0, <1>1, <1>2, <1>4, <1>5 DEF FlightsOK
<1>8. ASSUME NEW h \in Callers, pc'[h] = "join"
      PROVE  at'[h] \in DOMAIN inflight' /\ ~inflight'[at'[h]].closed
  <2>1. pc[h] = "join" /\ at[h] # o
    BY <1>2, <1>3, <1>8 DEF Joined
  <2> QED BY <1>1, <1>2, <2>1 DEF FlightsOK
<1>9. DOMAIN cache' \cap DOMAIN inflight' = {}
  BY <1>1, <1>2 DEF FlightsOK
<1> QED
  BY <1>6, <1>7, <1>8, <1>9 DEF FlightsOK, Leading

(* Every step keeps FlightsOK.                                             *)
LEMMA FlightsStep ==
    ASSUME TypeOK, FlightsOK, [Next]_vars
    PROVE  FlightsOK'
<1>k. ASSUME inflight' = inflight, \A h \in Callers : SameFlight(h),
             \A h \in Callers : ~Publish(h)
      PROVE  FlightsOK'
  <2>1. DOMAIN cache' \subseteq DOMAIN cache
    BY <1>k, CacheStep
  <2> QED BY <1>k, <2>1, FlightsKept
<1>1. CASE UNCHANGED vars
  <2>1. \A h \in Callers : SameFlight(h)
    BY <1>1 DEF vars, callerVars, SameFlight, Leading
  <2>2. inflight' = inflight /\ cache' = cache
    BY <1>1 DEF vars, checkerVars
  <2> QED BY <2>1, <2>2, FlightsKept
<1>2. CASE Tick
  <2>1. \A h \in Callers : SameFlight(h)
    BY <1>2, ZenonT(30) DEF Tick, callerVars, SameFlight, Leading
  <2>2. inflight' = inflight /\ DOMAIN cache' = DOMAIN cache
    BY <1>2, TickCache, ZenonT(30) DEF Tick
  <2> QED BY <2>1, <2>2, FlightsKept
<1>3. ASSUME NEW g \in Callers, Step(g) \/ CancelJoin(g)
      PROVE  FlightsOK'
  <2>0. /\ pc \in [Callers -> Labels] /\ at \in [Callers -> Origins]
        /\ kind \in [Callers -> {"robots", "page"}]
    BY DEF TypeOK
  (* A step of g that is none of a fetch's begin and end.                  *)
  <2>k. ASSUME inflight' = inflight, SameFlight(g),
               \A h \in Callers : h # g => /\ pc'[h] = pc[h] /\ at'[h] = at[h]
                                           /\ kind'[h] = kind[h]
        PROVE  FlightsOK'
    <3>1. \A h \in Callers : SameFlight(h)
      BY <2>k DEF SameFlight, Leading
    <3>2. ASSUME NEW h \in Callers, Publish(h) PROVE FALSE
      <4>1. pc[h] = "publish" /\ pc'[h] = "judge" /\ at[h] \notin DOMAIN inflight'
        BY <3>2 DEF Publish, Restrict
      <4>2. at[h] \in DOMAIN inflight
        BY <4>1 DEF FlightsOK, Leading
      <4> QED BY <2>k, <4>1, <4>2
    <3> QED BY <1>k, <2>k, <3>1, <3>2
  <2> USE <2>0 DEF SameFlight, Leading, OnRequest, checkerVars, callerVars, Goto, Labels
  <2>1. ASSUME NEW o \in Origins, Begin(g, o) PROVE FlightsOK'
    BY <2>1, <2>k DEF Begin
  <2>2. ASSUME NEW o \in Origins, BeginFails(g, o) PROVE FlightsOK'
    BY <2>2, <2>k DEF BeginFails
  <2>3. CASE LookupHit(g)
    BY <2>3, <2>k DEF LookupHit
  <2>4. CASE LookupJoin(g)
    BY <2>4, <2>k DEF LookupJoin
  <2>5. CASE LookupLead(g)
    BY <2>5, LeadStep
  <2>6. CASE SetCrawlDelay(g)
    BY <2>6, <2>k DEF SetCrawlDelay
  <2>7. CASE Publish(g) \/ Forget(g)
    BY <2>7, EndStep
  <2>8. CASE CloseFailed(g)
    BY <2>8, CloseStep
  <2>10. CASE Refused(g) \/ Disallowed(g)
    BY <2>10, <2>k DEF Refused, Disallowed, Return
  <2>12. CASE Allowed(g)
    BY <2>12, <2>k DEF Allowed
  <2>13. CASE AcquireTarget(g)
    BY <2>13, <2>k DEF AcquireTarget
  <2>14. CASE AcquireTargetFails(g)
    BY <2>14, <2>k DEF AcquireTargetFails, Broken
  <2>15. CASE Start(g)
    BY <2>15, <2>k DEF Start
  <2>16. CASE RequestFails(g)
    BY <2>16, <2>k DEF RequestFails, Broken
  <2>17. CASE PageReply(g)
    BY <2>17, <2>k DEF PageReply
  <2>18. CASE PolicyReply(g)
    BY <2>18, <2>k DEF PolicyReply
  <2>19. ASSUME NEW o \in Origins, RobotsRedirect(g, o) PROVE FlightsOK'
    BY <2>19, <2>k DEF RobotsRedirect
  <2>20. CASE CancelJoin(g)
    BY <2>20, <2>k DEF CancelJoin
  <2>21. CASE ReleaseNeighborhood(g)
    BY <2>21, <2>k DEF ReleaseNeighborhood
  <2> QED
    BY <1>3, <2>1, <2>2, <2>3, <2>4, <2>5, <2>6, <2>7, <2>8, <2>10, <2>12,
       <2>13, <2>14, <2>15, <2>16, <2>17, <2>18, <2>19, <2>20, <2>21, ZenonT(30)
       DEF Step, Proceed
<1> QED
  BY <1>1, <1>2, <1>3 DEF Next

-----------------------------------------------------------------------------
(* Policies and requests                                                   *)

(* How a caller may come to have a policy.                                 *)
LearnsPolicy(g) ==
    \/ /\ pc[g] = "lookup" /\ pc'[g] = "hit" /\ at[g] \in DOMAIN cache
       /\ policy'[g] = cache[at[g]].policy
    \/ pc[g] = "sent" /\ pc'[g] = "learned" /\ policy'[g] = site[at[g]].policy
    \/ /\ pc[g] = "join" /\ pc'[g] = "judge"
       /\ \E l \in Callers : pc[l] = "publish" /\ at[l] = at[g] /\ policy'[g] = policy[l]

(* A caller that has a policy has kept it or has just learned it.          *)
LEMMA CallerMoves ==
    ASSUME TypeOK, [Next]_vars, NEW h \in Callers, HasPolicy(h)'
    PROVE  at'[h] = at[h] /\ (LearnsPolicy(h) \/ (HasPolicy(h) /\ policy'[h] = policy[h]))
<1>0. /\ pc \in [Callers -> Labels] /\ at \in [Callers -> Origins]
      /\ kind \in [Callers -> {"robots", "page"}] /\ policy \in [Callers -> Policy]
  BY DEF TypeOK
<1> USE <1>0 DEF HasPolicy, OnRequest, callerVars, Goto
<1>1. CASE UNCHANGED vars
  BY <1>1 DEF vars
<1>2. CASE Tick
  BY <1>2, ZenonT(30) DEF Tick
<1>3. ASSUME NEW g \in Callers, Step(g) \/ CancelJoin(g)
      PROVE  at'[h] = at[h] /\ (LearnsPolicy(h) \/ (HasPolicy(h) /\ policy'[h] = policy[h]))
  <2>1. ASSUME NEW o \in Origins, Begin(g, o) \/ BeginFails(g, o)
        PROVE  at'[h] = at[h] /\ HasPolicy(h) /\ policy'[h] = policy[h]
    BY <2>1 DEF Begin, BeginFails
  <2>3. CASE LookupHit(g)
    <3>1. at[g] \in DOMAIN cache
      BY <2>3, HitCache
    <3> QED BY <2>3, <3>1 DEF LookupHit, LearnsPolicy
  <2>4. CASE LookupJoin(g) \/ LookupLead(g)
    BY <2>4 DEF LookupJoin, LookupLead
  <2>6. CASE SetCrawlDelay(g)
    BY <2>6, ZenonT(30) DEF SetCrawlDelay
  <2>7. CASE Publish(g)
    BY <2>7 DEF Publish, LearnsPolicy, Joined
  <2>8. CASE CloseFailed(g)
    BY <2>8 DEF CloseFailed
  <2>9. CASE Forget(g) \/ CancelJoin(g)
    BY <2>9 DEF Forget, CancelJoin
  <2>10. CASE Refused(g) \/ Disallowed(g)
    BY <2>10 DEF Refused, Disallowed, Return
  <2>12. CASE Allowed(g)
    BY <2>12 DEF Allowed
  <2>13. CASE AcquireTarget(g) \/ Start(g)
    BY <2>13 DEF AcquireTarget, Start
  <2>14. CASE AcquireTargetFails(g) \/ RequestFails(g)
    BY <2>14 DEF AcquireTargetFails, RequestFails, Broken
  <2>17. CASE PageReply(g)
    BY <2>17 DEF PageReply
  <2>18. CASE PolicyReply(g)
    BY <2>18 DEF PolicyReply, LearnsPolicy
  <2>19. ASSUME NEW o \in Origins, RobotsRedirect(g, o)
         PROVE  at'[h] = at[h] /\ HasPolicy(h) /\ policy'[h] = policy[h]
    BY <2>19 DEF RobotsRedirect
  <2>21. CASE ReleaseNeighborhood(g)
    BY <2>21, ZenonT(30) DEF ReleaseNeighborhood
  <2> QED
    BY <1>3, <2>1, <2>3, <2>4, <2>6, <2>7, <2>8, <2>9, <2>10, <2>12,
       <2>13, <2>14, <2>17, <2>18, <2>19, <2>21, ZenonT(30) DEF Step, Proceed
<1> QED
  BY <1>1, <1>2, <1>3 DEF Next

(* Every step keeps PoliciesOK.                                            *)
LEMMA PoliciesStep ==
    ASSUME TypeOK, PoliciesOK, [Next]_vars
    PROVE  PoliciesOK'
<1>1. site' = site
  BY WireStep
<1>2. \A g \in Callers : pc[g] = "publish" => policy[g] = site[at[g]].policy
  BY DEF PoliciesOK, HasPolicy
<1>3. ASSUME NEW o \in DOMAIN cache' PROVE cache'[o].policy = site'[o].policy
  <2>1. CASE o \in DOMAIN cache /\ cache'[o].policy = cache[o].policy
    BY <1>1, <2>1, ZenonT(30) DEF PoliciesOK
  <2>2. ASSUME NEW g \in Callers, Publish(g), o = at[g], cache'[o].policy = policy[g]
        PROVE  cache'[o].policy = site'[o].policy
    BY <1>1, <1>2, <2>2 DEF Publish
  <2> QED BY <2>1, <2>2, CacheStep
<1>4. ASSUME NEW h \in Callers, HasPolicy(h)'
      PROVE  policy'[h] = site'[at'[h]].policy
  <2>1. at'[h] = at[h] /\ (LearnsPolicy(h) \/ (HasPolicy(h) /\ policy'[h] = policy[h]))
    BY <1>4, CallerMoves
  <2>2. CASE LearnsPolicy(h)
    BY <1>1, <1>2, <2>1, <2>2, ZenonT(30) DEF LearnsPolicy, PoliciesOK
  <2>3. CASE HasPolicy(h) /\ policy'[h] = policy[h]
    BY <1>1, <2>1, <2>3, ZenonT(30) DEF PoliciesOK
  <2> QED BY <2>1, <2>2, <2>3
<1> QED
  BY <1>3, <1>4 DEF PoliciesOK, HasPolicy

(* Every step keeps RequestsOK.                                            *)
LEMMA RequestsStep ==
    ASSUME TypeOK, RequestsOK, [Next]_vars
    PROVE  RequestsOK'
<1>1. site' = site /\ (NotMoved' <=> NotMoved)
  BY WireStep DEF NotMoved
<1>2. SUFFICES ASSUME NEW h \in Callers, (pc[h] \in OnRequest)',
                      (kind[h] = "page" \/ NotMoved)'
               PROVE  url'[h] = at'[h]
  BY DEF RequestsOK
<1>0. /\ pc \in [Callers -> Labels] /\ at \in [Callers -> Origins]
      /\ url \in [Callers -> Origins] /\ kind \in [Callers -> {"robots", "page"}]
  BY DEF TypeOK
<1>r. pc[h] \in OnRequest /\ (kind[h] = "page" \/ NotMoved) => url[h] = at[h]
  BY ZenonT(30) DEF RequestsOK
<1> USE <1>0, <1>1, <1>2, <1>r DEF OnRequest, callerVars, Goto
<1>3. CASE UNCHANGED vars
  BY <1>3 DEF vars
<1>4. CASE Tick
  BY <1>4, ZenonT(30) DEF Tick
<1>5. ASSUME NEW g \in Callers, Step(g) \/ CancelJoin(g)
      PROVE  url'[h] = at'[h]
  <2>1. ASSUME NEW o \in Origins, Begin(g, o) \/ BeginFails(g, o)
        PROVE  url'[h] = at'[h]
    BY <2>1 DEF Begin, BeginFails
  <2>3. CASE LookupHit(g)
    BY <2>3 DEF LookupHit
  <2>4. CASE LookupJoin(g) \/ LookupLead(g)
    BY <2>4 DEF LookupJoin, LookupLead
  <2>6. CASE SetCrawlDelay(g)
    BY <2>6 DEF SetCrawlDelay
  <2>7. CASE Publish(g) \/ CloseFailed(g)
    BY <2>7 DEF Publish, CloseFailed, Joined
  <2>9. CASE Forget(g) \/ CancelJoin(g)
    BY <2>9 DEF Forget, CancelJoin
  <2>10. CASE Refused(g) \/ Disallowed(g)
    BY <2>10 DEF Refused, Disallowed, Return
  <2>12. CASE Allowed(g)
    BY <2>12 DEF Allowed
  <2>13. CASE AcquireTarget(g) \/ Start(g)
    BY <2>13, ZenonT(30) DEF AcquireTarget, Start
  <2>14. CASE AcquireTargetFails(g) \/ RequestFails(g)
    BY <2>14 DEF AcquireTargetFails, RequestFails, Broken
  <2>17. CASE PageReply(g) \/ PolicyReply(g)
    BY <2>17 DEF PageReply, PolicyReply
  <2>19. ASSUME NEW o \in Origins, RobotsRedirect(g, o)
         PROVE  url'[h] = at'[h]
    <3>1. ~NotMoved
      BY <2>19 DEF RobotsRedirect, NotMoved
    <3> QED BY <2>19, <3>1 DEF RobotsRedirect
  <2>21. CASE ReleaseNeighborhood(g)
    BY <2>21, ZenonT(30) DEF ReleaseNeighborhood
  <2> QED
    BY <1>5, <2>1, <2>3, <2>4, <2>6, <2>7, <2>9, <2>10, <2>12,
       <2>13, <2>14, <2>17, <2>19, <2>21, ZenonT(30) DEF Step, Proceed
<1> QED
  BY <1>3, <1>4, <1>5 DEF Next

-----------------------------------------------------------------------------
(* Distances                                                               *)

(* An entry that may go has waited for the minimum and for its delay.      *)
LEMMA SpacingBounds ==
    ASSUME NEW x \in Entry
    PROVE  /\ x.start \in Age /\ x.delay \in Age
           /\ Elapsed(x) => x.start >= Minimum /\ x.start >= x.delay
BY ConfigAssumption DEF Entry, Age, Elapsed, Spacing

(* Growing older keeps the order of ages.                                  *)
LEMMA OlderMonotone ==
    ASSUME NEW a \in Age, NEW b \in Age, a <= b
    PROVE  Older(a) <= Older(b)
BY ConfigAssumption DEF Older, Age

(* What a table remembers it goes on to remember, or it may forget.        *)
LEMMA EvolvesRemembers ==
    ASSUME NEW Keys, NEW f, IsTable(f, Keys), NEW h, Evolves(f, h), NEW k,
           NEW since \in Age,
           Remembered(f, k, since)
    PROVE  \/ Remembered(h, k, since) /\ h[k].delay = f[k].delay
           \/ f[k].users = 0 /\ since >= Minimum /\ since >= f[k].delay
<1>1. k \in DOMAIN f /\ f[k] \in Entry /\ f[k].start <= since
  BY DEF Remembered, IsTable, IsMap
<1>2. CASE Same(f, h, k)
  BY <1>1, <1>2, ZenonT(30) DEF Same, Remembered
<1>3. CASE Elapsed(f[k])
  <2>1. f[k].start >= Minimum /\ f[k].start >= f[k].delay
        /\ f[k].start \in Age /\ f[k].delay \in Age
    BY <1>1, <1>3, SpacingBounds, ZenonT(30)
  <2>2. f[k].users = 0
    BY <1>3 DEF Elapsed
  <2> QED BY <1>1, <2>1, <2>2, ConfigAssumption DEF Age
<1> QED
  BY <1>1, <1>2, <1>3 DEF Evolves

(* The start of a request makes no other entry forget.                     *)
LEMMA StartRemembers ==
    ASSUME NEW f, NEW h, NEW k, StartEffect(f, h, k), NEW j, NEW since,
           j # k, Remembered(f, j, since)
    PROVE  Remembered(h, j, since)
BY DEF StartEffect, Remembered

(* A table remembers as long as time passes for both.                      *)
LEMMA TickRemembers ==
    ASSUME NEW Keys, NEW f, IsTable(f, Keys), NEW h, TickEffect(f, h), NEW k,
           NEW since \in Age, Remembered(f, k, since)
    PROVE  Remembered(h, k, Older(since))
<1>1. k \in DOMAIN f /\ f[k] \in Entry /\ f[k].start <= since /\ f[k].start \in Age
  BY DEF Remembered, IsTable, IsMap, Entry
<1>2. Older(f[k].start) <= Older(since)
  BY <1>1, OlderMonotone, ZenonT(30)
<1> QED
  BY <1>1, <1>2 DEF TickEffect, Remembered

(* Every step keeps MinimumOK.                                             *)
LEMMA MinimumStep ==
    ASSUME TypeOK, CountsOK, MinimumOK, [Next]_vars
    PROVE  MinimumOK'
<1>0. /\ IsTable(schedules, Origins) /\ IsTable(neighborhoods, Groups)
      /\ sinceOrigin \in [Origins -> Age] /\ sinceGroup \in [Groups -> Age]
  BY DEF TypeOK
<1>1. CASE Calm
  <2>0. /\ Evolves(schedules, schedules') /\ Evolves(neighborhoods, neighborhoods')
        /\ sinceOrigin' = sinceOrigin /\ sinceGroup' = sinceGroup
    BY <1>1, ZenonT(30) DEF Calm
  <2>1. ASSUME NEW o \in Origins
        PROVE  Remembered(schedules', o, sinceOrigin'[o]) \/ sinceOrigin'[o] >= Minimum
    BY <1>0, <2>0, EvolvesRemembers, ZenonT(30) DEF MinimumOK
  <2>2. ASSUME NEW n \in Groups
        PROVE  Remembered(neighborhoods', n, sinceGroup'[n]) \/ sinceGroup'[n] >= Minimum
    BY <1>0, <2>0, EvolvesRemembers DEF MinimumOK
  <2> QED BY <2>1, <2>2 DEF MinimumOK, Remembered
<1>2. ASSUME NEW g \in Callers, SetCrawlDelay(g) PROVE MinimumOK'
  <2>1. /\ DOMAIN schedules' = DOMAIN schedules
        /\ \A o \in DOMAIN schedules : schedules'[o].start = schedules[o].start
    BY <1>2, SetCrawlDelayStep
  <2>2. UNCHANGED <<neighborhoods, sinceOrigin, sinceGroup>>
    BY <1>2 DEF SetCrawlDelay, wireVars
  <2> QED BY <2>1, <2>2 DEF MinimumOK, Remembered
<1>3. ASSUME NEW g \in Callers, Start(g) PROVE MinimumOK'
  <2> DEFINE u == url[g]  m == Neighborhood[u]
  <2>1. /\ StartEffect(schedules, schedules', u)
        /\ IF Grouped(u) THEN StartEffect(neighborhoods, neighborhoods', m)
           ELSE neighborhoods' = neighborhoods
    BY <1>3, StartStep
  <2>2. /\ sinceOrigin'[u] = 0
        /\ \A o \in Origins : o # u => sinceOrigin'[o] = sinceOrigin[o]
        /\ \A n \in Groups : sinceGroup'[n] = IF n = m THEN 0 ELSE sinceGroup[n]
    BY <1>3 DEF Start, TypeOK
  <2> HIDE DEF u
  <2>3. ASSUME NEW o \in Origins
        PROVE  Remembered(schedules', o, sinceOrigin'[o]) \/ sinceOrigin'[o] >= Minimum
    <3>1. CASE o = u
      BY <2>1, <2>2, <3>1 DEF StartEffect, Remembered
    <3>2. CASE o # u
      BY <2>1, <2>2, <3>2, StartRemembers, ZenonT(30) DEF MinimumOK
    <3> QED BY <3>1, <3>2
  <2>4. ASSUME NEW n \in Groups
        PROVE  Remembered(neighborhoods', n, sinceGroup'[n]) \/ sinceGroup'[n] >= Minimum
    <3>1. CASE n = m
      <4>1. Grouped(u)
        BY <3>1, <2>4, ZenonT(30) DEF Grouped, Groups
      <4> QED BY <2>1, <2>2, <3>1, <4>1 DEF StartEffect, Remembered
    <3>2. CASE n # m /\ Grouped(u)
      BY <2>1, <2>2, <3>2, StartRemembers, ZenonT(30) DEF MinimumOK
    <3>3. CASE n # m /\ ~Grouped(u)
      BY <2>1, <2>2, <3>3, ZenonT(30) DEF MinimumOK
    <3> QED BY <3>1, <3>2, <3>3, ZenonT(30)
  <2> QED BY <2>3, <2>4 DEF MinimumOK, Remembered
<1>4. CASE Tick
  <2>1. TickEffect(schedules, schedules') /\ TickEffect(neighborhoods, neighborhoods')
    BY <1>4, TickStep
  <2>2. /\ \A o \in Origins : sinceOrigin'[o] = Older(sinceOrigin[o])
        /\ \A n \in Groups : sinceGroup'[n] = Older(sinceGroup[n])
    BY <1>4, ZenonT(30) DEF Tick
  <2>3. \A a \in Age : a >= Minimum => Older(a) >= Minimum
    BY OlderAge, ConfigAssumption DEF Age
  <2>4. ASSUME NEW o \in Origins
        PROVE  Remembered(schedules', o, sinceOrigin'[o]) \/ sinceOrigin'[o] >= Minimum
    BY <1>0, <2>1, <2>2, <2>3, TickRemembers DEF MinimumOK
  <2>5. ASSUME NEW n \in Groups
        PROVE  Remembered(neighborhoods', n, sinceGroup'[n]) \/ sinceGroup'[n] >= Minimum
    BY <1>0, <2>1, <2>2, <2>3, TickRemembers DEF MinimumOK
  <2> QED BY <2>4, <2>5 DEF MinimumOK, Remembered
<1> QED
  BY <1>1, <1>2, <1>3, <1>4, TablesStep, ZenonT(30)

(* Every step keeps GroupsOK.                                              *)
LEMMA GroupsStep ==
    ASSUME TypeOK, CountsOK, GroupsOK, [Next]_vars
    PROVE  GroupsOK'
<1>0. /\ \A o \in DOMAIN schedules : schedules[o] \in Entry
      /\ \A n \in DOMAIN neighborhoods : neighborhoods[n] \in Entry
      /\ DOMAIN neighborhoods \subseteq Groups
  BY DEF TypeOK, IsTable, IsMap
<1>a. /\ \A o \in DOMAIN schedules : schedules[o].start \in Age
      /\ \A n \in DOMAIN neighborhoods : neighborhoods[n].start \in Age
  BY <1>0, SpacingBounds, ZenonT(30)
<1>1. CASE Calm
  <2>0. Evolves(schedules, schedules') /\ Evolves(neighborhoods, neighborhoods')
    BY <1>1 DEF Calm
  <2> SUFFICES ASSUME NEW n \in DOMAIN neighborhoods'
               PROVE  /\ neighborhoods'[n].delay = 0
                      /\ neighborhoods'[n].start < Minimum =>
                          \E o \in DOMAIN schedules' :
                             /\ Neighborhood[o] = n
                             /\ schedules'[o].start <= neighborhoods'[n].start
    BY DEF GroupsOK
  <2>1. CASE neighborhoods'[n].start = Horizon /\ neighborhoods'[n].delay = 0
    BY <2>1, ConfigAssumption DEF Age
  <2>2. CASE Same(neighborhoods, neighborhoods', n)
    <3>1. /\ n \in DOMAIN neighborhoods
          /\ neighborhoods'[n].start = neighborhoods[n].start
          /\ neighborhoods'[n].delay = 0
      BY <2>2 DEF Same, GroupsOK
    <3>2. ASSUME neighborhoods[n].start < Minimum
          PROVE  \E o \in DOMAIN schedules' :
                   /\ Neighborhood[o] = n
                   /\ schedules'[o].start <= neighborhoods[n].start
      <4>1. PICK o \in DOMAIN schedules :
              Neighborhood[o] = n /\ schedules[o].start <= neighborhoods[n].start
        BY <3>1, <3>2, ZenonT(30) DEF GroupsOK
      <4>2. ~Elapsed(schedules[o])
        BY <1>0, <1>a, <3>1, <3>2, <4>1, SpacingBounds, ConfigAssumption DEF Age
      <4>3. Same(schedules, schedules', o)
        BY <2>0, <4>2, ZenonT(30) DEF Evolves
      <4> QED BY <4>1, <4>3 DEF Same
    <3> QED BY <3>1, <3>2
  <2> QED BY <2>0, <2>1, <2>2 DEF Evolves
<1>2. ASSUME NEW g \in Callers, SetCrawlDelay(g) PROVE GroupsOK'
  <2>1. /\ DOMAIN schedules' = DOMAIN schedules
        /\ \A o \in DOMAIN schedules : schedules'[o].start = schedules[o].start
        /\ neighborhoods' = neighborhoods
    BY <1>2, SetCrawlDelayStep, ZenonT(30) DEF SetCrawlDelay
  <2> QED BY <2>1 DEF GroupsOK
<1>3. ASSUME NEW g \in Callers, Start(g) PROVE GroupsOK'
  <2> DEFINE u == url[g]  m == Neighborhood[u]
  <2>1. /\ StartEffect(schedules, schedules', u)
        /\ IF Grouped(u) THEN StartEffect(neighborhoods, neighborhoods', m)
           ELSE neighborhoods' = neighborhoods
    BY <1>3, StartStep
  <2> HIDE DEF u
  <2>2. DOMAIN neighborhoods' = DOMAIN neighborhoods
    BY <2>1, ZenonT(30) DEF StartEffect
  <2>3. ASSUME NEW n \in DOMAIN neighborhoods', n = m, Grouped(u)
        PROVE  /\ neighborhoods'[n].delay = 0
               /\ \E o \in DOMAIN schedules' :
                    Neighborhood[o] = n /\ schedules'[o].start <= neighborhoods'[n].start
    <3>1. neighborhoods'[n].delay = 0 /\ neighborhoods'[n].start = 0
      BY <2>1, <2>2, <2>3, ZenonT(30) DEF StartEffect, GroupsOK
    <3>2. u \in DOMAIN schedules' /\ Neighborhood[u] = n /\ schedules'[u].start = 0
      BY <2>1, <2>3, ZenonT(30) DEF StartEffect
    <3> QED BY <3>1, <3>2
  <2>4. ASSUME NEW n \in DOMAIN neighborhoods', n # m
        PROVE  /\ neighborhoods'[n].delay = 0
               /\ neighborhoods'[n].start < Minimum =>
                    \E o \in DOMAIN schedules' :
                      Neighborhood[o] = n /\ schedules'[o].start <= neighborhoods'[n].start
    <3>1. neighborhoods'[n] = neighborhoods[n] /\ n \in DOMAIN neighborhoods
      BY <2>1, <2>2, <2>4, ZenonT(30) DEF StartEffect
    <3>2. \A o \in DOMAIN schedules : Neighborhood[o] = n =>
            o \in DOMAIN schedules' /\ schedules'[o] = schedules[o]
      BY <2>1, <2>4, ZenonT(30) DEF StartEffect
    <3> QED BY <3>1, <3>2, ZenonT(30) DEF GroupsOK
  <2>5. ASSUME NEW n \in DOMAIN neighborhoods' PROVE n = m => Grouped(u)
    BY <1>0, <2>2 DEF Grouped, Groups
  <2> QED BY <2>3, <2>4, <2>5, ZenonT(30) DEF GroupsOK
<1>4. CASE Tick
  <2>1. TickEffect(schedules, schedules') /\ TickEffect(neighborhoods, neighborhoods')
    BY <1>4, TickStep
  <2> SUFFICES ASSUME NEW n \in DOMAIN neighborhoods'
               PROVE  /\ neighborhoods'[n].delay = 0
                      /\ neighborhoods'[n].start < Minimum =>
                          \E o \in DOMAIN schedules' :
                             /\ Neighborhood[o] = n
                             /\ schedules'[o].start <= neighborhoods'[n].start
    BY DEF GroupsOK
  <2>2. /\ n \in DOMAIN neighborhoods
        /\ neighborhoods'[n].start = Older(neighborhoods[n].start)
        /\ neighborhoods'[n].delay = 0
    BY <2>1 DEF TickEffect, GroupsOK
  <2>3. ASSUME Older(neighborhoods[n].start) < Minimum
        PROVE  \E o \in DOMAIN schedules' :
                 /\ Neighborhood[o] = n
                 /\ schedules'[o].start <= Older(neighborhoods[n].start)
    <3>1. neighborhoods[n].start < Minimum
      BY <1>a, <2>2, <2>3, OlderAge, ConfigAssumption DEF Age
    <3>2. PICK o \in DOMAIN schedules :
            Neighborhood[o] = n /\ schedules[o].start <= neighborhoods[n].start
      BY <2>2, <3>1 DEF GroupsOK
    <3>3. Older(schedules[o].start) <= Older(neighborhoods[n].start)
      BY <1>a, <2>2, <3>2, OlderMonotone, ZenonT(30)
    <3> QED BY <2>1, <3>2, <3>3, ZenonT(30) DEF TickEffect
  <2> QED BY <2>2, <2>3, ZenonT(30)
<1> QED
  BY <1>1, <1>2, <1>3, <1>4, TablesStep

-----------------------------------------------------------------------------
(* The Crawl-delay                                                         *)

(* The schedule of o has what it takes, or need not have it.               *)
Spaced(o) == Over(o) \/ (Knows(o) /\ schedules[o].delay = Delay(o))

(* How a caller may get behind setCrawlDelay, and how a request is sent.   *)
LEMMA DelayMoves ==
    ASSUME TypeOK, [Next]_vars, NEW h \in Callers
    PROVE  /\ DelaySet(h)' =>
                /\ at'[h] = at[h] /\ pc[h] # "idle"
                /\ \/ DelaySet(h) \/ SetCrawlDelay(h)
                   \/ \E l \in Callers : pc[l] = "publish" /\ at[l] = at[h]
           /\ (pc[h] = "sent")' =>
                at'[h] = at[h] /\ pc[h] # "idle" /\ (pc[h] = "sent" \/ Start(h))
<1> DEFINE Goal == /\ DelaySet(h)' =>
                        /\ at'[h] = at[h] /\ pc[h] # "idle"
                        /\ \/ DelaySet(h) \/ SetCrawlDelay(h)
                           \/ \E l \in Callers : pc[l] = "publish" /\ at[l] = at[h]
                   /\ (pc[h] = "sent")' =>
                        at'[h] = at[h] /\ pc[h] # "idle" /\ (pc[h] = "sent" \/ Start(h))
<1>0. /\ pc \in [Callers -> Labels] /\ at \in [Callers -> Origins]
      /\ kind \in [Callers -> {"robots", "page"}]
  BY DEF TypeOK
<1> USE <1>0 DEF DelaySet, OnRequest, callerVars, Goto
<1>1. CASE UNCHANGED vars
  BY <1>1 DEF vars
<1>2. CASE Tick
  BY <1>2, ZenonT(30) DEF Tick
<1>3. ASSUME NEW g \in Callers, Step(g) \/ CancelJoin(g) PROVE Goal
  <2>1. ASSUME NEW o \in Origins, Begin(g, o) \/ BeginFails(g, o) PROVE Goal
    BY <2>1 DEF Begin, BeginFails
  <2>3. CASE LookupHit(g)
    BY <2>3, ZenonT(30) DEF LookupHit
  <2>4. CASE LookupJoin(g) \/ LookupLead(g)
    BY <2>4, ZenonT(30) DEF LookupJoin, LookupLead
  <2>6. CASE SetCrawlDelay(g)
    <3>1. CASE h = g
      BY <2>6, <3>1 DEF SetCrawlDelay
    <3>2. CASE h # g
      BY <2>6, <3>2, ZenonT(30) DEF SetCrawlDelay
    <3> QED BY <3>1, <3>2
  <2>7. CASE Publish(g)
    BY <2>7 DEF Publish, Joined
  <2>8. CASE CloseFailed(g)
    BY <2>8, ZenonT(30) DEF CloseFailed
  <2>9. CASE Forget(g) \/ CancelJoin(g)
    BY <2>9, ZenonT(30) DEF Forget, CancelJoin
  <2>10. CASE Refused(g) \/ Disallowed(g)
    BY <2>10 DEF Refused, Disallowed, Return
  <2>12. CASE Allowed(g)
    BY <2>12, ZenonT(30) DEF Allowed
  <2>13. CASE AcquireTarget(g)
    BY <2>13, ZenonT(30) DEF AcquireTarget
  <2>15. CASE Start(g)
    <3>1. CASE h = g
      BY <2>15, <3>1 DEF Start
    <3>2. CASE h # g
      BY <2>15, <3>2, ZenonT(30) DEF Start
    <3> QED BY <3>1, <3>2
  <2>14. CASE AcquireTargetFails(g) \/ RequestFails(g)
    BY <2>14 DEF AcquireTargetFails, RequestFails, Broken
  <2>17. CASE PageReply(g) \/ PolicyReply(g)
    BY <2>17 DEF PageReply, PolicyReply
  <2>19. ASSUME NEW o \in Origins, RobotsRedirect(g, o) PROVE Goal
    BY <2>19 DEF RobotsRedirect
  <2>21. CASE ReleaseNeighborhood(g)
    BY <2>21, ZenonT(30) DEF ReleaseNeighborhood
  <2> QED
    BY <1>3, <2>1, <2>3, <2>4, <2>6, <2>7, <2>8, <2>9, <2>10, <2>12,
       <2>13, <2>14, <2>15, <2>17, <2>19, <2>21, ZenonT(30) DEF Step, Proceed
<1> QED
  BY <1>1, <1>2, <1>3, ZenonT(30) DEF Next

(* What the invariant says, before the step, of who relies on it after.    *)
Before ==
    /\ \A o \in DOMAIN cache' : Spaced(o)
    /\ \A h \in Callers : HasPolicy(h)' =>
        at'[h] = at[h] /\ pc[h] # "idle" /\ (Over(at[h]) \/ Knows(at[h]))
    /\ \A h \in Callers : DelaySet(h)' =>
        /\ at'[h] = at[h] /\ pc[h] # "idle"
        /\ \/ SetCrawlDelay(h)
           \/ at[h] \in DOMAIN schedules /\ schedules[at[h]].delay = Delay(at[h])
    /\ \A h \in Callers : (pc[h] = "sent")' =>
        at'[h] = at[h] /\ pc[h] # "idle" /\ (Knows(at[h]) \/ Start(h))

(* What DelaysOK says before a step of those it speaks of after it.        *)
LEMMA BeforeStep ==
    ASSUME TypeOK, DelaysOK, NotMoved, [Next]_vars
    PROVE  Before
<1>1. \A l \in Callers : pc[l] = "publish" =>
        /\ Spaced(at[l]) /\ (Over(at[l]) \/ Knows(at[l]))
        /\ at[l] \in DOMAIN schedules /\ schedules[at[l]].delay = Delay(at[l])
  BY DEF DelaysOK, HasPolicy, DelaySet, Spaced
<1>2. \A o \in DOMAIN cache : Spaced(o)
  BY DEF DelaysOK, Spaced
<1>3. ASSUME NEW o \in DOMAIN cache' PROVE Spaced(o)
  <2>1. o \in DOMAIN cache \/ \E g \in Callers : Publish(g) /\ o = at[g]
    BY <1>3, CacheStep, ZenonT(30)
  <2>2. \A g \in Callers : Publish(g) => pc[g] = "publish"
    BY DEF Publish
  <2> QED BY <1>1, <1>2, <2>1, <2>2
<1>4. ASSUME NEW h \in Callers, HasPolicy(h)'
      PROVE  at'[h] = at[h] /\ pc[h] # "idle" /\ (Over(at[h]) \/ Knows(at[h]))
  <2>1. at'[h] = at[h] /\ (LearnsPolicy(h) \/ HasPolicy(h))
    BY <1>4, CallerMoves, ZenonT(30)
  <2>2. CASE HasPolicy(h)
    <3>1. pc[h] # "idle"
      BY <2>2 DEF HasPolicy, OnRequest
    <3> QED BY <2>1, <2>2, <3>1 DEF DelaysOK
  <2>3. CASE LearnsPolicy(h)
    <3>1. pc[h] # "idle"
      BY <2>3, ZenonT(30) DEF LearnsPolicy
    <3>2. \/ at[h] \in DOMAIN cache \/ pc[h] = "sent"
          \/ \E l \in Callers : pc[l] = "publish" /\ at[l] = at[h]
      BY <2>3, ZenonT(30) DEF LearnsPolicy
    <3>3. at[h] \in DOMAIN cache => Over(at[h]) \/ Knows(at[h])
      BY <1>2, ZenonT(30) DEF Spaced
    <3>4. pc[h] = "sent" => Knows(at[h])
      BY DEF DelaysOK
    <3> QED BY <1>1, <2>1, <3>1, <3>2, <3>3, <3>4, ZenonT(30)
  <2> QED BY <2>1, <2>2, <2>3, ZenonT(30)
<1>5. ASSUME NEW h \in Callers, DelaySet(h)'
      PROVE  /\ at'[h] = at[h] /\ pc[h] # "idle"
             /\ \/ SetCrawlDelay(h)
                \/ at[h] \in DOMAIN schedules /\ schedules[at[h]].delay = Delay(at[h])
  <2>1. /\ at'[h] = at[h] /\ pc[h] # "idle"
        /\ \/ DelaySet(h) \/ SetCrawlDelay(h)
           \/ \E l \in Callers : pc[l] = "publish" /\ at[l] = at[h]
    BY <1>5, DelayMoves, ZenonT(30)
  <2> QED BY <1>1, <2>1, ZenonT(30) DEF DelaysOK
<1>6. ASSUME NEW h \in Callers, (pc[h] = "sent")'
      PROVE  at'[h] = at[h] /\ pc[h] # "idle" /\ (Knows(at[h]) \/ Start(h))
  <2>1. at'[h] = at[h] /\ pc[h] # "idle" /\ (pc[h] = "sent" \/ Start(h))
    BY <1>6, DelayMoves
  <2> QED BY <2>1, ZenonT(30) DEF DelaysOK
<1> QED
  BY <1>3, <1>4, <1>5, <1>6, ZenonT(30) DEF Before

(* What remains true of an origin in a step, and when.                     *)
Lasting(o) ==
    /\ Over(o) => (Over(o) \/ Knows(o))'
    /\ UsersOf(schedules, o) > 0 =>
        /\ Knows(o) => Knows(o)'
        /\ schedules[o].delay = Delay(o) =>
            o \in DOMAIN schedules' /\ schedules'[o].delay = Delay(o)'

StaysSpaced(o) == Spaced(o) => Spaced(o)'

(* DelaysOK is kept if what the tables know lasts.                         *)
LEMMA DelaysKept ==
    ASSUME TypeOK, CountsOK, NotMoved, Before, site' = site,
           \A o \in DOMAIN cache' : StaysSpaced(o),
           \A h \in Callers : pc[h] # "idle" => Lasting(at[h]),
           \A h \in Callers : SetCrawlDelay(h) =>
             /\ at[h] \in DOMAIN schedules'
             /\ schedules'[at[h]].delay = Delay(at[h])',
           \A h \in Callers : Start(h) => Knows(at[h])'
    PROVE  DelaysOK'
<1>1. \A h \in Callers : pc[h] # "idle" => UsersOf(schedules, at[h]) > 0
  BY PinnedIsThere DEF Pins
<1>2. ASSUME NEW o \in DOMAIN cache' PROVE Spaced(o)'
  BY <1>2, ZenonT(30) DEF Before, StaysSpaced
<1>3. ASSUME NEW h \in Callers, HasPolicy(h)' PROVE (Over(at[h]) \/ Knows(at[h]))'
  <2> DEFINE o == at[h]
  <2>1. at'[h] = o /\ Lasting(o) /\ UsersOf(schedules, o) > 0 /\ (Over(o) \/ Knows(o))
    BY <1>1, <1>3, ZenonT(30) DEF Before
  <2> QED BY <2>1, ZenonT(30) DEF Lasting, Over, Knows, Delay
<1>4. ASSUME NEW h \in Callers, DelaySet(h)'
      PROVE  at'[h] \in DOMAIN schedules' /\ schedules'[at'[h]].delay = Delay(at[h])'
  <2> DEFINE o == at[h]
  <2>1. /\ at'[h] = o /\ Lasting(o) /\ UsersOf(schedules, o) > 0
        /\ SetCrawlDelay(h) \/ schedules[o].delay = Delay(o)
    BY <1>1, <1>4, ZenonT(30) DEF Before
  <2> QED BY <2>1, ZenonT(30) DEF Lasting, Delay
<1>5. ASSUME NEW h \in Callers, (pc[h] = "sent")' PROVE Knows(at[h])'
  <2> DEFINE o == at[h]
  <2>1. /\ at'[h] = o /\ Lasting(o) /\ UsersOf(schedules, o) > 0
        /\ Start(h) \/ Knows(o)
    BY <1>1, <1>5, ZenonT(30) DEF Before
  <2> QED BY <2>1, ZenonT(30) DEF Lasting, Knows
<1> QED
  BY <1>2, <1>3, <1>4, <1>5, ZenonT(30) DEF DelaysOK, Spaced

(* Steps that neither start a request nor set a delay lose nothing.        *)
LEMMA CalmLasting ==
    ASSUME TypeOK, Calm, site' = site, NEW o \in Origins
    PROVE  Lasting(o) /\ StaysSpaced(o)
<1>0. /\ IsTable(schedules, Origins) /\ sinceOrigin[o] \in Age
      /\ Evolves(schedules, schedules') /\ sinceOrigin' = sinceOrigin
  BY ZenonT(30) DEF TypeOK, Calm
<1>1. Knows(o) => \/ Knows(o)' /\ schedules'[o].delay = schedules[o].delay
                  \/ /\ schedules[o].users = 0 /\ o \in DOMAIN schedules
                     /\ sinceOrigin[o] >= schedules[o].delay
  <2>1. ASSUME Knows(o)
        PROVE  \/ Remembered(schedules', o, sinceOrigin[o])
                  /\ schedules'[o].delay = schedules[o].delay
               \/ schedules[o].users = 0 /\ sinceOrigin[o] >= schedules[o].delay
    BY <1>0, <2>1, EvolvesRemembers, ZenonT(30) DEF Knows
  <2> QED BY <1>0, <2>1, ZenonT(30) DEF Knows, Remembered
<1>2. UsersOf(schedules, o) > 0 => /\ o \in DOMAIN schedules /\ schedules[o].users # 0
                                   /\ Same(schedules, schedules', o)
  BY <1>0 DEF UsersOf, Evolves, Elapsed
<1>3. Over(o)' <=> Over(o)
  BY <1>0, ZenonT(30) DEF Over, Delay
<1>4. Spaced(o) => Spaced(o)'
  BY <1>0, <1>1, <1>3 DEF Spaced, Over, Delay
<1>5. Lasting(o)
  BY <1>1, <1>2, <1>3, ZenonT(30) DEF Lasting, Same, Delay
<1> QED
  BY <1>4, <1>5 DEF StaysSpaced

(* Setting a delay loses nothing.                                          *)
LEMMA SetDelayLasting ==
    ASSUME TypeOK, CountsOK, PoliciesOK, site' = site, NEW g \in Callers,
           SetCrawlDelay(g), NEW o
    PROVE  Lasting(o) /\ StaysSpaced(o)
<1>1. /\ at[g] \in DOMAIN schedules /\ DOMAIN schedules' = DOMAIN schedules
      /\ schedules'[at[g]].delay = policy[g].delay
      /\ \A k \in DOMAIN schedules : /\ schedules'[k].start = schedules[k].start
                                     /\ k # at[g] => schedules'[k] = schedules[k]
  BY SetCrawlDelayStep
<1>2. policy[g].delay = Delay(at[g])
  BY DEF PoliciesOK, SetCrawlDelay, HasPolicy, Delay
<1>3. sinceOrigin' = sinceOrigin /\ Delay(o)' = Delay(o)
  BY DEF SetCrawlDelay, wireVars, Delay
<1>4. (Over(o)' <=> Over(o)) /\ (Knows(o)' <=> Knows(o))
  BY <1>1, <1>3, ZenonT(30) DEF Over, Knows, Remembered
<1>5. o \in DOMAIN schedules /\ schedules[o].delay = Delay(o) =>
        o \in DOMAIN schedules' /\ schedules'[o].delay = Delay(o)'
  BY <1>1, <1>2, <1>3, ZenonT(30)
<1>u. /\ UsersOf(schedules, o) > 0 => o \in DOMAIN schedules
      /\ Knows(o) => o \in DOMAIN schedules
  BY DEF UsersOf, Knows, Remembered
<1>6. Lasting(o)
  BY <1>4, <1>5, <1>u, ZenonT(30) DEF Lasting
<1>7. StaysSpaced(o)
  BY <1>4, <1>5, <1>u, ZenonT(30) DEF StaysSpaced, Spaced
<1> QED
  BY <1>6, <1>7, ZenonT(30)

(* The passing of time loses nothing.                                      *)
LEMMA TickLasting ==
    ASSUME TypeOK, CountsOK, Tick, NEW o \in Origins
    PROVE  Lasting(o) /\ StaysSpaced(o)
<1>0. /\ IsTable(schedules, Origins) /\ sinceOrigin[o] \in Age
      /\ TickEffect(schedules, schedules')
  BY TickStep DEF TypeOK
<1>1. sinceOrigin'[o] = Older(sinceOrigin[o]) /\ Delay(o)' = Delay(o)
  BY ZenonT(30) DEF Tick, Delay
<1>2. Knows(o) => Knows(o)'
  BY <1>0, <1>1, TickRemembers, ZenonT(30) DEF Knows
<1>3. Over(o) => Over(o)'
  <2>1. Delay(o) \in Age
    BY ConfigAssumption DEF Delay, TypeOK, Policy
  <2>2. sinceOrigin[o] <= Older(sinceOrigin[o]) /\ Older(sinceOrigin[o]) \in Age
    BY <1>0, OlderAge
  <2> HIDE DEF Delay
  <2> QED BY <1>0, <1>1, <2>1, <2>2, ConfigAssumption DEF Over, Age
<1>4. o \in DOMAIN schedules =>
        o \in DOMAIN schedules' /\ schedules'[o].delay = schedules[o].delay
  BY <1>0 DEF TickEffect
<1>u. /\ UsersOf(schedules, o) > 0 => o \in DOMAIN schedules
      /\ Knows(o) => o \in DOMAIN schedules
  BY DEF UsersOf, Knows, Remembered
<1>5. Lasting(o)
  BY <1>1, <1>2, <1>3, <1>4, <1>u, ZenonT(30) DEF Lasting
<1>6. StaysSpaced(o)
  BY <1>1, <1>2, <1>3, <1>4, <1>u, ZenonT(30) DEF StaysSpaced, Spaced
<1> QED
  BY <1>5, <1>6, ZenonT(30)

(* A request to an origin whose policy is in the cache waits for it.       *)
LEMMA StartLasting ==
    ASSUME TypeOK, CountsOK, NEW g \in Callers, Start(g),
           NEW o \in Origins
    PROVE  /\ Lasting(o)
           /\ (o = url[g] => schedules[o].delay = Delay(o)) => StaysSpaced(o)
<1>1. StartEffect(schedules, schedules', url[g])
  BY StartStep, ZenonT(30)
<1>2. /\ Delay(o)' = Delay(o)
      /\ o = url[g] => sinceOrigin'[o] = 0
      /\ o # url[g] => sinceOrigin'[o] = sinceOrigin[o]
  BY ZenonT(30) DEF Start, Delay, TypeOK
<1>3. o = url[g] => Knows(o)'
  BY <1>1, <1>2 DEF StartEffect, Knows, Remembered
<1>4. o # url[g] => (Over(o)' <=> Over(o)) /\ (Knows(o)' <=> Knows(o))
  BY <1>1, <1>2, ZenonT(30) DEF StartEffect, Over, Knows, Remembered
<1>5. o \in DOMAIN schedules =>
        o \in DOMAIN schedules' /\ schedules'[o].delay = schedules[o].delay
  BY <1>1 DEF StartEffect
<1>6. o = url[g] => o \in DOMAIN schedules
  BY <1>1, ZenonT(30) DEF StartEffect
<1>u. /\ UsersOf(schedules, o) > 0 => o \in DOMAIN schedules
      /\ Knows(o) => o \in DOMAIN schedules
  BY DEF UsersOf, Knows, Remembered
<1>7. Lasting(o)
  BY <1>2, <1>3, <1>4, <1>5, <1>u, ZenonT(30) DEF Lasting
<1>8. ASSUME o = url[g] => schedules[o].delay = Delay(o)
      PROVE  StaysSpaced(o)
  <2>1. CASE o = url[g]
    BY <1>2, <1>3, <1>5, <1>6, <1>8, <2>1, ZenonT(30) DEF StaysSpaced, Spaced
  <2>2. CASE o # url[g]
    BY <1>2, <1>4, <1>5, <1>u, <2>2, ZenonT(30) DEF StaysSpaced, Spaced
  <2> QED BY <2>1, <2>2
<1> QED
  BY <1>7, <1>8

(* Every step keeps DelaysOK.                                              *)
LEMMA DelaysStep ==
    ASSUME RobotsInv, [Next]_vars
    PROVE  DelaysOK'
<1>0. /\ TypeOK /\ CountsOK /\ FlightsOK /\ PoliciesOK /\ RequestsOK /\ DelaysOK
      /\ site' = site /\ \A h \in Callers : at[h] \in Origins
  BY WireStep DEF RobotsInv, TypeOK
<1>1. CASE ~NotMoved
  BY <1>0, <1>1, ZenonT(30) DEF DelaysOK, NotMoved
<1>2. CASE NotMoved
  <2>0. Before /\ DOMAIN cache' \subseteq Origins
    BY <1>0, <1>2, BeforeStep, CacheStep, ZenonT(30) DEF CacheTyped, IsMap
  <2>1. ASSUME NEW h \in Callers, SetCrawlDelay(h)
        PROVE  at[h] \in DOMAIN schedules' /\ schedules'[at[h]].delay = Delay(at[h])'
    <3>1. /\ at[h] \in DOMAIN schedules' /\ schedules'[at[h]].delay = policy[h].delay
      BY <1>0, <2>1, SetCrawlDelayStep, ZenonT(30)
    <3>2. policy[h].delay = Delay(at[h]) /\ at' = at
      BY <1>0, <2>1, ZenonT(30) DEF PoliciesOK, SetCrawlDelay, HasPolicy, Delay, callerVars
    <3> QED BY <1>0, <3>1, <3>2, ZenonT(30) DEF Delay
  <2>2. ASSUME NEW h \in Callers, Start(h) PROVE Knows(at[h])' /\ at[h] = url[h]
    <3>1. at[h] = url[h] /\ at' = at
      BY <1>0, <1>2, <2>2, ZenonT(30) DEF RequestsOK, Start, OnRequest, callerVars
    <3>2. StartEffect(schedules, schedules', at[h]) /\ sinceOrigin'[at[h]] = 0
      BY <1>0, <2>2, <3>1, StartStep, ZenonT(30) DEF Start, TypeOK
    <3> QED BY <3>1, <3>2 DEF StartEffect, Knows, Remembered
  <2>3. ASSUME \A o \in DOMAIN cache' : StaysSpaced(o),
               \A o \in Origins : Lasting(o)
        PROVE  DelaysOK'
    BY <1>0, <1>2, <2>0, <2>1, <2>2, <2>3, DelaysKept, ZenonT(30)
  <2>4. CASE Calm
    BY <1>0, <2>0, <2>3, <2>4, CalmLasting, ZenonT(30)
  <2>5. ASSUME NEW g \in Callers, SetCrawlDelay(g) PROVE DelaysOK'
    BY <1>0, <2>0, <2>3, <2>5, SetDelayLasting, ZenonT(30)
  <2>6. CASE Tick
    BY <1>0, <2>0, <2>3, <2>6, TickLasting, ZenonT(30)
  <2>7. ASSUME NEW g \in Callers, Start(g) PROVE DelaysOK'
    <3>1. url[g] = at[g] /\ cache' = cache /\ pc[g] = "waiting"
      BY <2>2, <2>7, ZenonT(30) DEF Start, checkerVars
    <3>2. url[g] \in DOMAIN cache' => schedules[url[g]].delay = Delay(url[g])
      <4>1. CASE kind[g] = "page"
        BY <1>0, <1>2, <3>1, <4>1, ZenonT(30) DEF DelaysOK, DelaySet, OnRequest
      <4>2. CASE kind[g] = "robots"
        BY <1>0, <3>1, <4>2, ZenonT(30) DEF FlightsOK, Leading, OnRequest
      <4> QED BY <1>0, <4>1, <4>2, ZenonT(30) DEF TypeOK
    <3>3. \A o \in Origins : Lasting(o)
      BY <1>0, <2>7, StartLasting
    <3>4. \A o \in DOMAIN cache' : StaysSpaced(o)
      BY <1>0, <2>0, <2>7, <3>2, StartLasting, ZenonT(30)
    <3> QED BY <2>3, <3>3, <3>4
  <2> QED BY <1>0, <2>4, <2>5, <2>6, <2>7, TablesStep, ZenonT(30)
<1> QED
  BY <1>1, <1>2, ZenonT(30)

-----------------------------------------------------------------------------
(* Neighborhoods follow their origins                                      *)

Busy == {o \in DOMAIN schedules : ~Elapsed(schedules[o])}

(* No request is between its two releases.                                 *)
NoneLeaves == \A h \in Callers : leaving[h] = 0

(* Then a neighborhood that must stay is that of an origin that must stay. *)
LEMMA BusyGroups ==
    ASSUME RobotsInv, NoneLeaves, NEW n \in DOMAIN neighborhoods, ~Elapsed(neighborhoods[n])
    PROVE  \E o \in Busy : Neighborhood[o] = n
<1>0. /\ TypeOK /\ CountsOK /\ GroupsOK
      /\ neighborhoods[n] \in Entry /\ n \in Groups
      /\ \A o \in DOMAIN schedules : schedules[o] \in Entry
  BY DEF RobotsInv, TypeOK, IsTable, IsMap
<1>1. neighborhoods[n].users # 0 \/ neighborhoods[n].start < Minimum
  <2>1. Spacing(neighborhoods[n]) = Minimum
    BY <1>0, ConfigAssumption DEF GroupsOK, Spacing, Age
  <2>2. neighborhoods[n].start \in Age
    BY <1>0, ZenonT(30) DEF Entry
  <2> QED BY <2>1, <2>2, ConfigAssumption DEF Elapsed, Age
<1>2. CASE neighborhoods[n].users # 0
  <2>1. Cardinality(GroupSet(n)) # 0
    BY <1>0, <1>2 DEF CountsOK, UsersOf
  <2>2. GroupSet(n) # {}
    BY <2>1, FS_EmptySet, ZenonT(30)
  <2>a. PICK h \in Callers : \E o \in HopPins(h) : Neighborhood[o] = n
    BY <1>0, <2>2 DEF GroupSet, InGroup, NoneLeaves, Groups
  <2>3. PICK o \in HopPins(h) : Neighborhood[o] = n
    BY <2>a, ZenonT(30)
  <2>4. UsersOf(schedules, o) > 0 /\ o \in DOMAIN schedules
    BY <1>0, <2>3, PinnedIsThere, ZenonT(30)
  <2> QED BY <2>3, <2>4 DEF Busy, UsersOf, Elapsed
<1>3. CASE neighborhoods[n].start < Minimum
  <2>1. PICK o \in DOMAIN schedules :
          Neighborhood[o] = n /\ schedules[o].start <= neighborhoods[n].start
    BY <1>0, <1>3 DEF GroupsOK
  <2>2. neighborhoods[n].start \in Age /\ schedules[o].start \in Age
    BY <1>0, SpacingBounds, ZenonT(30)
  <2>3. ~Elapsed(schedules[o])
    BY <1>0, <1>3, <2>1, <2>2, SpacingBounds, ConfigAssumption DEF Age
  <2> QED BY <2>1, <2>3, ZenonT(30) DEF Busy
<1> QED
  BY <1>1, <1>2, <1>3, ZenonT(30)

(* Then a neighborhood can be pinned whenever its origin can: as many as   *)
(* must stay have as many origins that must stay, and the capacity is the  *)
(* same.                                                                   *)
LEMMA GroupFollows ==
    ASSUME RobotsInv, NoneLeaves, NEW u \in Origins, Grouped(u),
           CanPin(schedules, u)
    PROVE  CanPin(neighborhoods, Neighborhood[u])
<1> DEFINE n == Neighborhood[u]
           K == Kept(neighborhoods)
           S == Kept(schedules)
           Image == {Neighborhood[o] : o \in Busy}
<1> SUFFICES ASSUME ~CanPin(neighborhoods, n) PROVE FALSE
  BY ZenonT(30)
<1>0. TypeOK /\ IsTable(schedules, Origins) /\ IsTable(neighborhoods, Groups)
  BY DEF RobotsInv, TypeOK
<1>1. n \notin K /\ ~(Cardinality(K) < ScheduleCapacity)
      /\ \A k \in K : ~Elapsed(neighborhoods[k])
  BY ZenonT(30) DEF CanPin, Fits, Evictable
<1>2. K \subseteq Image
  <2>1. K \subseteq DOMAIN neighborhoods
    BY DEF Kept
  <2> QED BY <1>1, <2>1, BusyGroups, ZenonT(30)
<1>3. /\ Busy \subseteq S /\ S \subseteq DOMAIN schedules
      /\ \A o \in S : o \in Busy \/ o \in Evictable(schedules)
  BY ZenonT(30) DEF Busy, Kept, Evictable
<1>4. /\ IsFiniteSet(DOMAIN schedules) /\ IsFiniteSet(S) /\ IsFiniteSet(Busy)
      /\ IsFiniteSet(Image)
      /\ Cardinality(Image) <= Cardinality(Busy)
  <2>1. IsFiniteSet(DOMAIN schedules) /\ IsFiniteSet(S) /\ IsFiniteSet(Busy)
    BY <1>0, <1>3, KeysFinite, FS_Subset, ZenonT(30) DEF IsTable, IsMap
  <2>2. [o \in Busy |-> Neighborhood[o]] \in Surjection(Busy, Image)
    BY DEF Surjection
  <2> QED BY <2>1, <2>2, FS_Surjection
<1> HIDE DEF n, K, S, Image
<1>5. /\ IsFiniteSet(K)
      /\ Cardinality(K) \in Nat /\ Cardinality(Image) \in Nat
      /\ Cardinality(Busy) \in Nat /\ Cardinality(S) \in Nat
      /\ Cardinality(DOMAIN schedules) \in Nat /\ ScheduleCapacity \in Nat
  BY <1>2, <1>4, FS_Subset, FS_CardinalityType, ConfigAssumption, ZenonT(30)
<1>6. /\ Cardinality(K) <= Cardinality(Image)
      /\ Cardinality(S) <= Cardinality(DOMAIN schedules)
      /\ Cardinality(DOMAIN schedules) <= ScheduleCapacity
  BY <1>0, <1>2, <1>3, <1>4, FS_Subset, ZenonT(30) DEF IsTable, IsMap
<1>7. Cardinality(Busy) <= Cardinality(S)
  BY <1>3, <1>4, FS_Subset, ZenonT(30)
<1>8. Evictable(schedules) = {}
  <2> SUFFICES ASSUME NEW e \in Evictable(schedules) PROVE FALSE
    OBVIOUS
  <2>1. e \in S /\ e \notin Busy
    BY DEF Evictable, Busy, S
  <2>2. Cardinality(S \ {e}) = Cardinality(S) - 1
    BY <1>4, <2>1, FS_RemoveElement, ZenonT(30)
  <2>3. Busy \subseteq S \ {e} /\ IsFiniteSet(S \ {e})
    BY <1>3, <1>4, <2>1, FS_Subset, ZenonT(30)
  <2>4. Cardinality(Busy) <= Cardinality(S \ {e})
    BY <2>3, FS_Subset
  <2> QED BY <1>1, <1>4, <1>5, <1>6, <2>2, <2>4
<1>9. u \in S \/ Cardinality(S) < ScheduleCapacity
  BY <1>8, ZenonT(30) DEF CanPin, Fits, S
<1>10. CASE Cardinality(S) < ScheduleCapacity
  BY <1>1, <1>4, <1>5, <1>6, <1>7, <1>10
<1>11. CASE u \in S
  <2>1. n \in Image
    BY <1>3, <1>8, <1>11 DEF Image, n
  <2>2. Cardinality(Image \ {n}) = Cardinality(Image) - 1
    BY <1>4, <2>1, FS_RemoveElement, ZenonT(30)
  <2>3. K \subseteq Image \ {n} /\ IsFiniteSet(Image \ {n})
    BY <1>1, <1>2, <1>4, FS_Subset, ZenonT(30)
  <2>4. Cardinality(K) <= Cardinality(Image \ {n})
    BY <2>3, FS_Subset
  <2> QED BY <1>1, <1>4, <1>5, <1>6, <1>7, <2>2, <2>4
<1> QED
  BY <1>9, <1>10, <1>11, ZenonT(30)

-----------------------------------------------------------------------------
(* Theorems                                                                *)

(* The invariant holds at first.                                           *)
LEMMA RobotsInit == Init => RobotsInv
<1> SUFFICES ASSUME Init PROVE RobotsInv
  OBVIOUS
<1>0. 1 \in Origins /\ NoPolicy \in Policy /\ Horizon \in Age /\ 0 \in 0..MaxRedirects
      /\ Calls \in 0..Calls
  BY ConfigAssumption DEF Origins, NoPolicy, Policy, Age
<1>1. ASSUME NEW f, f = <<>> PROVE DOMAIN f = {}
  BY <1>1
<1>2. /\ DOMAIN schedules = {} /\ DOMAIN neighborhoods = {}
      /\ DOMAIN cache = {} /\ DOMAIN inflight = {}
  BY <1>1 DEF Init
<1>3. \A g \in Callers : /\ pc[g] = "idle" /\ kind[g] = "page"
                         /\ Pins(g) = {} /\ HopPins(g) = {} /\ leaving[g] = 0
  BY DEF Init, Pins, HopPins
<1>4. TypeOK
  <2>1. /\ Cardinality({}) = 0 /\ 0 <= ScheduleCapacity /\ 0 <= CacheCapacity
    BY FS_EmptySet, ConfigAssumption
  <2>2. ASSUME NEW f, f = <<>>, NEW T PROVE f \in [DOMAIN f -> T]
    BY <2>2
  <2>3. /\ schedules \in [DOMAIN schedules -> Entry]
        /\ neighborhoods \in [DOMAIN neighborhoods -> Entry]
        /\ cache \in [DOMAIN cache -> Cached]
        /\ inflight \in [DOMAIN inflight -> Flight]
    BY <2>2 DEF Init
  <2>4. /\ IsTable(schedules, Origins) /\ IsTable(neighborhoods, Groups)
        /\ IsMap(cache, Origins, Cached, CacheCapacity)
    BY <1>2, <2>1, <2>3, ZenonT(30) DEF IsTable, IsMap
  <2> QED BY <1>0, <1>2, <2>3, <2>4, ZenonT(30) DEF Init, TypeOK, Labels
<1>5. CountsOK
  <2>1. /\ \A o : PinSet(o) = {} /\ HopSet(o) = {}
        /\ \A n \in Groups : GroupSet(n) = {}
    BY <1>3 DEF PinSet, HopSet, GroupSet, InGroup, Groups
  <2>2. \A o : UsersOf(schedules, o) = 0 /\ UsersOf(neighborhoods, o) = 0
    BY <1>2, ZenonT(30) DEF UsersOf
  <2>3. LeavingOK
    BY <1>3, ZenonT(30) DEF LeavingOK
  <2> QED BY <2>1, <2>2, <2>3, FS_EmptySet DEF CountsOK
<1>6. FlightsOK
  BY <1>2, <1>3, ZenonT(30) DEF FlightsOK, Leading, OnRequest
<1>7. PoliciesOK /\ RequestsOK /\ GroupsOK
  BY <1>2, <1>3, ZenonT(30) DEF PoliciesOK, HasPolicy, RequestsOK, GroupsOK, OnRequest
<1>8. MinimumOK
  BY ConfigAssumption DEF Init, MinimumOK, Age
<1>9. DelaysOK
  BY <1>2, <1>3 DEF DelaysOK, HasPolicy, DelaySet, OnRequest
<1> QED
  BY <1>4, <1>5, <1>6, <1>7, <1>8, <1>9, ZenonT(30) DEF RobotsInv

(* Every step keeps the invariant.                                         *)
LEMMA RobotsStep == RobotsInv /\ [Next]_vars => RobotsInv'
<1> SUFFICES ASSUME RobotsInv, [Next]_vars PROVE RobotsInv'
  OBVIOUS
<1>1. /\ TypeOK /\ CountsOK /\ FlightsOK /\ PoliciesOK /\ RequestsOK
      /\ MinimumOK /\ GroupsOK
  BY DEF RobotsInv
<1>2. TypeOK' /\ CountsOK'
  BY <1>1, TypeStep, TablesStep DEF TablesOK
<1>3. FlightsOK' /\ PoliciesOK' /\ RequestsOK'
  BY <1>1, FlightsStep, PoliciesStep, RequestsStep
<1>4. MinimumOK' /\ GroupsOK' /\ DelaysOK'
  BY <1>1, MinimumStep, GroupsStep, DelaysStep
<1> QED
  BY <1>2, <1>3, <1>4 DEF RobotsInv

(* The inductive invariant holds of the outbound boundary.                 *)
THEOREM RobotsInvariant == Spec => []RobotsInv
BY RobotsInit, RobotsStep, PTL DEF Spec

(* The tables that concurrent calls share agree with the calls: users,     *)
(* capacities, neighborhoods (while no request is between the releases of  *)
(* its origin and of its neighborhood) and fetches in flight.              *)
THEOREM TablesConsistentAlways == Spec => []TablesConsistent
<1>1. RobotsInv => TablesConsistent
  <2> SUFFICES ASSUME RobotsInv PROVE TablesConsistent
    OBVIOUS
  <2>0. TypeOK /\ CountsOK /\ FlightsOK
    BY ZenonT(30) DEF RobotsInv
  <2>1. PinsExact
    <3>1. \A g \in Callers : Pins(g) \cup HopPins(g) \subseteq DOMAIN schedules
      BY <2>0, PinnedIsThere, ZenonT(30)
    <3>2. /\ \A o \in DOMAIN schedules : o \in Origins
          /\ \A n \in DOMAIN neighborhoods : n \in Groups
      BY <2>0, ZenonT(30) DEF TypeOK, IsTable, IsMap
    <3> QED BY <2>0, <3>1, <3>2
               DEF PinsExact, CountsOK, UsersOf, PinSet, HopSet, GroupSet
  <2>2. NeighborhoodsFollow
    <3>1. \A g \in Callers : url[g] \in Origins
      BY <2>0, ZenonT(30) DEF TypeOK
    <3> QED BY <3>1, GroupFollows DEF NeighborhoodsFollow, NoneLeaves
  <2>3. JoinersHaveLeader
    <3>1. \A o \in DOMAIN inflight : inflight[o].leader \in Callers
      BY <2>0 DEF TypeOK, Flight
    <3>2. ASSUME NEW g \in Callers, pc[g] = "join"
          PROVE  /\ at[g] \in DOMAIN inflight
                 /\ ~inflight[at[g]].closed
                 /\ at[inflight[at[g]].leader] = at[g]
                 /\ pc[inflight[at[g]].leader] \notin {"idle", "join", "lookup", "refused"}
      BY <2>0, <3>1, <3>2, ZenonT(30) DEF FlightsOK, Leading, OnRequest
    <3>3. ASSUME NEW g \in Callers, NEW h \in Callers,
                 kind[g] = "robots" /\ kind[h] = "robots" /\ at[g] = at[h],
                 pc[g] \in {"hop", "waiting", "sent", "learned", "publish"},
                 pc[h] \in {"hop", "waiting", "sent", "learned", "publish"}
          PROVE  g = h
      BY <2>0, <3>3 DEF FlightsOK, Leading, OnRequest
    <3> QED BY <3>2, <3>3 DEF JoinersHaveLeader
  <2> QED BY <2>0, <2>1, <2>2, <2>3 DEF TablesConsistent
<1> QED
  BY <1>1, RobotsInvariant, PTL

(* Only Start sends a request.                                             *)
LEMMA OnlyStarts ==
    ASSUME TypeOK, [Next]_vars, NEW g \in Callers, Starts(g)
    PROVE  Start(g)
BY DelayMoves DEF Starts

(* Requests keep the operator's distance and that of robots.txt: between   *)
(* any two requests to one origin or neighborhood lies the operator's      *)
(* minimum, and before any page the Crawl-delay of its origin, unless a    *)
(* robots.txt is redirected.                                               *)
THEOREM SpacingAlwaysKept == Spec => SpacingKept
<1>1. RobotsInv /\ [Next]_vars =>
        [\A g \in Callers : Starts(g) =>
            /\ sinceOrigin[url[g]] >= Minimum
            /\ Grouped(url[g]) => sinceGroup[Neighborhood[url[g]]] >= Minimum]_vars
  <2> SUFFICES ASSUME RobotsInv, [Next]_vars, NEW g \in Callers, Starts(g)
               PROVE  /\ sinceOrigin[url[g]] >= Minimum
                      /\ Grouped(url[g]) => sinceGroup[Neighborhood[url[g]]] >= Minimum
    OBVIOUS
  <2>0. TypeOK /\ MinimumOK /\ CountsOK
    BY DEF RobotsInv
  <2>1. Start(g) /\ MayStart(url[g])
    BY <2>0, OnlyStarts DEF Start
  <2> DEFINE o == url[g]  n == Neighborhood[o]
  <2>2. /\ o \in Origins /\ sinceOrigin[o] \in Age
        /\ \A k \in DOMAIN schedules : schedules[k] \in Entry
        /\ \A k \in DOMAIN neighborhoods : neighborhoods[k] \in Entry
        /\ \A k \in Groups : sinceGroup[k] \in Age
    BY <2>0, ZenonT(30) DEF TypeOK, IsTable, IsMap
  <2>3. o \in DOMAIN schedules => /\ schedules[o].start >= Minimum
                                  /\ schedules[o].start \in Age
    BY <2>1, <2>2, SpacingBounds, ConfigAssumption
       DEF MayStart, Spacing, Entry, Age
  <2>4. sinceOrigin[o] >= Minimum
    BY <2>0, <2>2, <2>3, ConfigAssumption DEF MinimumOK, Remembered, Age
  <2>5. Grouped(o) => sinceGroup[n] >= Minimum
    <3> SUFFICES ASSUME Grouped(o) PROVE sinceGroup[n] >= Minimum
      OBVIOUS
    <3>1. n \in Groups /\ neighborhoods[n].start >= Minimum
      BY <2>1, <2>2, GroupOf, ZenonT(30) DEF MayStart
    <3>2. n \in DOMAIN neighborhoods => neighborhoods[n].start \in Age
      BY <2>2, ZenonT(30) DEF Entry
    <3> HIDE DEF n
    <3> QED BY <2>0, <2>2, <3>1, <3>2, ConfigAssumption
               DEF MinimumOK, Remembered, Age
  <2> QED BY <2>4, <2>5, ZenonT(30)
<1>2. RobotsInv /\ [Next]_vars =>
        [\A g \in Callers :
            Starts(g) /\ kind[g] = "page" /\ (\A o \in Origins : ~site[o].moved) =>
                sinceOrigin[url[g]] >= policy[g].delay]_vars
  <2> SUFFICES ASSUME RobotsInv, [Next]_vars, NEW g \in Callers, Starts(g),
                      kind[g] = "page", NotMoved
               PROVE  sinceOrigin[url[g]] >= policy[g].delay
    BY DEF NotMoved
  <2>0. TypeOK /\ PoliciesOK /\ RequestsOK /\ DelaysOK
    BY DEF RobotsInv
  <2>1. Start(g) /\ MayStart(url[g]) /\ pc[g] = "waiting"
    BY <2>0, OnlyStarts DEF Start
  <2> DEFINE o == at[g]
  <2>2. url[g] = o /\ o \in Origins
    BY <2>0, <2>1, ZenonT(30) DEF RequestsOK, OnRequest, TypeOK
  <2>3. HasPolicy(g) /\ DelaySet(g)
    BY <2>1 DEF HasPolicy, DelaySet, OnRequest
  <2>4. /\ policy[g].delay = Delay(o) /\ (Over(o) \/ Knows(o))
        /\ o \in DOMAIN schedules /\ schedules[o].delay = Delay(o)
    BY <2>0, <2>3, ZenonT(30) DEF PoliciesOK, DelaysOK, Delay
  <2>5. schedules[o] \in Entry /\ sinceOrigin[o] \in Age
    BY <2>0, <2>2, <2>4, ZenonT(30) DEF TypeOK, IsTable, IsMap
  <2>6. schedules[o].start \in Age /\ schedules[o].delay \in Age
        /\ schedules[o].start >= Spacing(schedules[o])
    BY <2>1, <2>2, <2>5, ZenonT(30) DEF MayStart, Entry
  <2>7. schedules[o].start >= schedules[o].delay
    BY <2>6, ConfigAssumption DEF Spacing, Age
  <2> HIDE DEF o
  <2>8. CASE Over(o)
    BY <2>2, <2>4, <2>8, ZenonT(30) DEF Over
  <2>9. CASE Knows(o)
    BY <2>2, <2>4, <2>5, <2>6, <2>7, <2>9, ConfigAssumption
       DEF Knows, Remembered, Age
  <2> QED BY <2>4, <2>8, <2>9, ZenonT(30)
<1> QED
  BY <1>1, <1>2, RobotsInvariant, PTL
     DEF Spec, SpacingKept, OperatorMinimumKept,
     CrawlDelayKept
=============================================================================
