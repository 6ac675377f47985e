--------------------------- MODULE RobotsChecker ---------------------------
(***************************************************************************)
(* The outbound request boundary that all workers of a process share       *)
(* (internal/robots/checker.go, request_scheduler.go, http.go): the cache  *)
(* of robots policies with its shared fetches, and the schedules that      *)
(* space the requests to an origin and to its neighborhood.                *)
(*                                                                         *)
(* One step is one critical section of Checker.mu or scheduler.mu, or one  *)
(* turn of the loop of wait, which holds the mutexes of both schedules.    *)
(* Times are ages: how long ago something happened, no further than        *)
(* Horizon, beyond which no test can tell them apart.  A pin that is taken *)
(* while the same call holds another pin of the same schedule is not       *)
(* counted twice.                                                          *)
(***************************************************************************)
EXTENDS Integers, FiniteSets, Functions

CONSTANTS
    NumOrigins,        \* origins are 1..NumOrigins, in the order of lessOrigin
    Neighborhood,      \* the pacing group of every origin, 0 for none
    Callers,           \* goroutines that call Get
    Calls,             \* bound: calls of Get that they make in all
    Minimum,           \* operator request delay
    Sites,             \* what the origins may serve: a set of functions
    MaxRedirects,      \* redirects of one robots fetch
    Lifetime,          \* maxCacheLifetime
    Horizon,           \* bound: ages from here on are all the same
    ScheduleCapacity,  \* maxScheduleEntries
    CacheCapacity      \* maxCacheEntries

Origins == 1..NumOrigins
Groups == {Neighborhood[o] : o \in Origins} \ {0}
Age == 0..Horizon
Policy == [allowed : BOOLEAN, delay : Age]
NoPolicy == [allowed |-> FALSE, delay |-> 0]

(* Every delay is within the horizon: no test compares with more.          *)
ASSUME ConfigAssumption ==
    /\ NumOrigins \in Nat \ {0} /\ Neighborhood \in [Origins -> Nat]
    /\ IsFiniteSet(Callers) /\ Calls \in Nat /\ MaxRedirects \in Nat
    /\ Horizon \in Nat /\ Minimum \in Age /\ Lifetime \in Age \ {0}
    /\ Sites \subseteq [Origins -> [policy : Policy, moved : BOOLEAN]]
    /\ ScheduleCapacity \in Nat \ {0} /\ CacheCapacity \in Nat \ {0}

VARIABLES
    site,           \* what every origin serves: its policy, and whether
                    \* requests for its robots.txt may be redirected
    schedules,      \* scheduler.schedules, by origin
    neighborhoods,  \* scheduler.neighborhoods, by group
    cache,          \* Checker.cache
    inflight,       \* Checker.inflight: [leader, closed]
    calls,          \* calls left to make
    pc,
    at,             \* the origin of the caller's Get
    url,            \* the origin of the request at hand
    kind,           \* whether that request is for "robots" or for the "page"
    hops,           \* redirects followed by the robots fetch
    policy,         \* the policy that the caller has obtained
    leaving,        \* the group that the caller has yet to release, or 0
    sinceOrigin,    \* what sites see: age of the last request to an origin
    sinceGroup      \* and to a group

schedulerVars == <<schedules, neighborhoods>>
checkerVars == <<cache, inflight>>
callerVars == <<calls, at, url, kind, hops, policy, leaving>>
wireVars == <<site, sinceOrigin, sinceGroup>>
vars == <<schedulerVars, checkerVars, pc, callerVars, wireVars>>

Init ==
    /\ site \in Sites
    /\ schedules = <<>> /\ neighborhoods = <<>>
    /\ cache = <<>> /\ inflight = <<>>
    /\ calls = Calls
    /\ pc = [g \in Callers |-> "idle"]
    /\ at = [g \in Callers |-> 1]
    /\ url = [g \in Callers |-> 1]
    /\ kind = [g \in Callers |-> "page"]
    /\ hops = [g \in Callers |-> 0]
    /\ policy = [g \in Callers |-> NoPolicy]
    /\ leaving = [g \in Callers |-> 0]
    /\ sinceOrigin = [o \in Origins |-> Horizon]
    /\ sinceGroup = [n \in Groups |-> Horizon]

-----------------------------------------------------------------------------
(* Schedules                                                               *)

Fresh == [users |-> 0, delay |-> 0, start |-> Horizon, access |-> 0]

Spacing(e) == IF e.delay > Minimum THEN e.delay ELSE Minimum

(* Mutant: a schedule may go although a caller uses it.                    *)
ElapsedInUse(e) == e.start >= Spacing(e)

(* Only an idle entry whose spacing has elapsed may be evicted.            *)
Elapsed(e) == e.users = 0 /\ e.start >= Spacing(e)

(* Entries that outlive the sweep that every pin makes.                    *)
Kept(f) == {k \in DOMAIN f : ~(Elapsed(f[k]) /\ f[k].access >= Lifetime)}

Evictable(f) == {k \in Kept(f) : Elapsed(f[k])}

Oldest(f) ==
    CHOOSE k \in Evictable(f) : \A j \in Evictable(f) \ {k} :
        \/ f[k].access > f[j].access
        \/ f[k].access = f[j].access /\ k < j

Fits(f, k) == k \in Kept(f) \/ Cardinality(Kept(f)) < ScheduleCapacity

CanPin(f, k) == Fits(f, k) \/ Evictable(f) # {}

Swept(f) == Restrict(f, Kept(f))

(* The schedules once k is pinned: swept, made room, created if absent.    *)
Pinned(f, k) ==
    LET keep == IF Fits(f, k) THEN Kept(f) ELSE Kept(f) \ {Oldest(f)}
        e == IF k \in Kept(f) THEN f[k] ELSE Fresh
    IN  [j \in keep \cup {k} |->
            IF j = k THEN [e EXCEPT !.users = @ + 1, !.access = 0] ELSE f[j]]

Unpinned(f, k) == [f EXCEPT ![k].users = @ - 1, ![k].access = 0]

Grouped(o) == Neighborhood[o] # 0

(* releasePinned for the request at hand: the origin is released, and in a *)
(* second critical section, before the caller goes on, its neighborhood.   *)
ReleaseOrigin(g) ==
    /\ schedules' = Unpinned(schedules, url[g])
    /\ leaving' = [leaving EXCEPT ![g] = Neighborhood[url[g]]]
    /\ UNCHANGED neighborhoods

-----------------------------------------------------------------------------
(* Get and policyFor                                                       *)

Goto(g, label) == pc' = [pc EXCEPT ![g] = label]

(* Get pins the schedule of its origin until it returns.                   *)
Begin(g, o) ==
    /\ pc[g] = "idle" /\ calls > 0
    /\ CanPin(schedules, o)
    /\ schedules' = Pinned(schedules, o)
    /\ calls' = calls - 1
    /\ at' = [at EXCEPT ![g] = o]
    /\ Goto(g, "lookup")
    /\ UNCHANGED <<neighborhoods, checkerVars, url, kind, hops, policy,
                   leaving, wireVars>>

(* The schedules are full: a temporary failure.                            *)
BeginFails(g, o) ==
    /\ pc[g] = "idle" /\ calls > 0
    /\ ~CanPin(schedules, o)
    /\ schedules' = Swept(schedules)
    /\ calls' = calls - 1
    /\ UNCHANGED <<neighborhoods, checkerVars, pc, at, url, kind, hops,
                   policy, leaving, wireVars>>

(* Get returns, and its local variables are gone.                          *)
Return(g) ==
    /\ schedules' = Unpinned(schedules, at[g])
    /\ Goto(g, "idle")
    /\ at' = [at EXCEPT ![g] = 1]
    /\ url' = [url EXCEPT ![g] = 1]
    /\ kind' = [kind EXCEPT ![g] = "page"]
    /\ hops' = [hops EXCEPT ![g] = 0]
    /\ policy' = [policy EXCEPT ![g] = NoPolicy]
    /\ UNCHANGED <<neighborhoods, checkerVars, calls, leaving, wireVars>>

Unexpired == Restrict(cache, {o \in DOMAIN cache : cache[o].left > 0})

(* A cached policy is used for as long as it lives.                        *)
LookupHit(g) ==
    LET o == at[g] IN
    /\ pc[g] = "lookup"
    /\ o \in DOMAIN Unexpired
    /\ cache' = [Unexpired EXCEPT ![o].access = 0]
    /\ policy' = [policy EXCEPT ![g] = cache[o].policy]
    /\ Goto(g, "hit")
    /\ UNCHANGED <<schedulerVars, inflight, calls, at, url, kind, hops,
                   leaving, wireVars>>

(* Another caller is fetching the policy: its outcome is awaited.          *)
LookupJoin(g) ==
    LET o == at[g] IN
    /\ pc[g] = "lookup"
    /\ o \notin DOMAIN Unexpired /\ o \in DOMAIN inflight
    /\ cache' = Unexpired
    /\ Goto(g, IF inflight[o].closed THEN "refused" ELSE "join")
    /\ UNCHANGED <<schedulerVars, inflight, callerVars, wireVars>>

Announced(g) ==
    [o \in DOMAIN inflight \cup {at[g]} |->
        IF o = at[g] THEN [leader |-> g, closed |-> FALSE] ELSE inflight[o]]

LookupLead(g) ==
    LET o == at[g] IN
    /\ pc[g] = "lookup"
    /\ o \notin DOMAIN Unexpired /\ o \notin DOMAIN inflight
    /\ cache' = Unexpired
    /\ inflight' = Announced(g)
    /\ url' = [url EXCEPT ![g] = o]
    /\ kind' = [kind EXCEPT ![g] = "robots"]
    /\ hops' = [hops EXCEPT ![g] = 0]
    /\ Goto(g, "hop")
    /\ UNCHANGED <<schedulerVars, calls, at, policy, leaving, wireVars>>

(* Mutant: a policy that was just fetched leaves the delay alone.          *)
SetCachedDelay(g) ==
    /\ pc[g] \in {"hit", "learned"}
    /\ schedules' = IF pc[g] = "hit"
                    THEN [schedules EXCEPT ![at[g]].delay = policy[g].delay]
                    ELSE schedules
    /\ Goto(g, IF pc[g] = "hit" THEN "judge" ELSE "publish")
    /\ UNCHANGED <<neighborhoods, checkerVars, callerVars, wireVars>>

(* setCrawlDelay, after Checker.mu was released.                           *)
SetCrawlDelay(g) ==
    /\ pc[g] \in {"hit", "learned"}
    /\ schedules' = [schedules EXCEPT ![at[g]].delay = policy[g].delay]
    /\ Goto(g, IF pc[g] = "hit" THEN "judge" ELSE "publish")
    /\ UNCHANGED <<neighborhoods, checkerVars, callerVars, wireVars>>

Joined(g, h) == pc[h] = "join" /\ at[h] = at[g]

(* The fetched policy is cached, in place of the entry that was used       *)
(* longest ago if the cache is full, and handed to those who wait for it.  *)
Publish(g) ==
    LET o == at[g]
        full == Cardinality(DOMAIN Unexpired) >= CacheCapacity
        oldest == {k \in DOMAIN Unexpired : \A j \in DOMAIN Unexpired :
                        cache[k].access >= cache[j].access}
    IN
    /\ pc[g] = "publish"
    /\ inflight' = Restrict(inflight, DOMAIN inflight \ {o})
    /\ \E victim \in IF full THEN oldest ELSE {0} :
        cache' = [k \in (DOMAIN Unexpired \ {victim}) \cup {o} |->
                    IF k = o THEN [policy |-> policy[g], left |-> Lifetime,
                                   access |-> 0]
                    ELSE cache[k]]
    /\ policy' = [h \in Callers |->
                    IF Joined(g, h) THEN policy[g] ELSE policy[h]]
    /\ pc' = [h \in Callers |->
                IF h = g \/ Joined(g, h) THEN "judge" ELSE pc[h]]
    /\ UNCHANGED <<schedulerVars, calls, at, url, kind, hops, leaving,
                   wireVars>>

(* Mutant: a failed fetch answers nobody.                                  *)
CloseSilently(g) ==
    /\ pc[g] = "failed"
    /\ inflight' = [inflight EXCEPT ![at[g]].closed = TRUE]
    /\ Goto(g, "forget")
    /\ UNCHANGED <<schedulerVars, cache, callerVars, wireVars>>

(* The fetch failed: those who wait get its error ...                      *)
CloseFailed(g) ==
    /\ pc[g] = "failed"
    /\ inflight' = [inflight EXCEPT ![at[g]].closed = TRUE]
    /\ pc' = [h \in Callers |->
                IF h = g THEN "forget"
                ELSE IF Joined(g, h) THEN "refused" ELSE pc[h]]
    /\ UNCHANGED <<schedulerVars, cache, callerVars, wireVars>>

(* ... and the next caller fetches anew.                                   *)
Forget(g) ==
    /\ pc[g] = "forget"
    /\ inflight' = Restrict(inflight, DOMAIN inflight \ {at[g]})
    /\ Goto(g, "refused")
    /\ UNCHANGED <<schedulerVars, cache, callerVars, wireVars>>

Refused(g) ==
    /\ pc[g] = "refused"
    /\ Return(g)

Disallowed(g) ==
    /\ pc[g] = "judge" /\ ~policy[g].allowed
    /\ Return(g)

Allowed(g) ==
    /\ pc[g] = "judge" /\ policy[g].allowed
    /\ url' = [url EXCEPT ![g] = at[g]]
    /\ kind' = [kind EXCEPT ![g] = "page"]
    /\ Goto(g, "hop")
    /\ UNCHANGED <<schedulerVars, checkerVars, calls, at, hops, policy,
                   leaving, wireVars>>

-----------------------------------------------------------------------------
(* One scheduled request                                                   *)

(* acquireTarget pins the origin and its neighborhood.                     *)
AcquireTarget(g) ==
    LET o == url[g] n == Neighborhood[url[g]] IN
    /\ pc[g] = "hop"
    /\ CanPin(schedules, o)
    /\ Grouped(o) => CanPin(neighborhoods, n)
    /\ schedules' = Pinned(schedules, o)
    /\ neighborhoods' = IF Grouped(o) THEN Pinned(neighborhoods, n)
                        ELSE neighborhoods
    /\ Goto(g, "waiting")
    /\ UNCHANGED <<checkerVars, callerVars, wireVars>>

(* Where a request that ends with an error leads to.                       *)
Broken(g) ==
    Goto(g, IF kind[g] = "robots" THEN "failed" ELSE "refused")

(* The origin's pin is undone when its neighborhood cannot be pinned.      *)
AcquireTargetFails(g) ==
    LET o == url[g] n == Neighborhood[url[g]] IN
    /\ pc[g] = "hop"
    /\ IF CanPin(schedules, o)
       THEN /\ Grouped(o) /\ ~CanPin(neighborhoods, n)
            /\ schedules' = Unpinned(Pinned(schedules, o), o)
            /\ neighborhoods' = Swept(neighborhoods)
       ELSE /\ schedules' = Swept(schedules)
            /\ UNCHANGED neighborhoods
    /\ Broken(g)
    /\ UNCHANGED <<checkerVars, callerVars, wireVars>>

MayStart(o) ==
    /\ schedules[o].start >= Spacing(schedules[o])
    /\ Grouped(o) => neighborhoods[Neighborhood[o]].start >= Minimum

(* A turn of the loop of wait that finds nothing left to wait for.         *)
Start(g) ==
    LET o == url[g] IN
    /\ pc[g] = "waiting"
    /\ MayStart(o)
    /\ schedules' = [schedules EXCEPT ![o].start = 0]
    /\ neighborhoods' = IF Grouped(o)
                        THEN [neighborhoods EXCEPT ![Neighborhood[o]].start = 0]
                        ELSE neighborhoods
    /\ sinceOrigin' = [sinceOrigin EXCEPT ![o] = 0]
    /\ sinceGroup' = [n \in Groups |->
                        IF n = Neighborhood[o] THEN 0 ELSE sinceGroup[n]]
    /\ Goto(g, "sent")
    /\ UNCHANGED <<checkerVars, callerVars, site>>

(* The request fails, or the caller's context ends.                        *)
RequestFails(g) ==
    /\ pc[g] \in {"waiting", "sent"}
    /\ ReleaseOrigin(g)
    /\ Broken(g)
    /\ UNCHANGED <<checkerVars, calls, at, url, kind, hops, policy, wireVars>>

(* The caller's context ends while it waits for another's fetch.           *)
CancelJoin(g) ==
    /\ pc[g] = "join"
    /\ Goto(g, "refused")
    /\ UNCHANGED <<schedulerVars, checkerVars, callerVars, wireVars>>

PageReply(g) ==
    /\ pc[g] = "sent" /\ kind[g] = "page"
    /\ ReleaseOrigin(g)
    /\ Goto(g, "refused")
    /\ UNCHANGED <<checkerVars, calls, at, url, kind, hops, policy, wireVars>>

PolicyReply(g) ==
    /\ pc[g] = "sent" /\ kind[g] = "robots"
    /\ ReleaseOrigin(g)
    /\ policy' = [policy EXCEPT ![g] = site[at[g]].policy]
    /\ Goto(g, "learned")
    /\ UNCHANGED <<checkerVars, calls, at, url, kind, hops, wireVars>>

(* The policy is fetched from where the site redirects to, which may be    *)
(* another origin; too many redirects are a failure (RequestFails).        *)
RobotsRedirect(g, o) ==
    /\ pc[g] = "sent" /\ kind[g] = "robots"
    /\ site[url[g]].moved /\ hops[g] < MaxRedirects
    /\ ReleaseOrigin(g)
    /\ url' = [url EXCEPT ![g] = o]
    /\ hops' = [hops EXCEPT ![g] = @ + 1]
    /\ Goto(g, "hop")
    /\ UNCHANGED <<checkerVars, calls, at, kind, policy, wireVars>>

(* The neighborhood of the request that is over is released.               *)
ReleaseNeighborhood(g) ==
    /\ leaving[g] # 0
    /\ neighborhoods' = Unpinned(neighborhoods, leaving[g])
    /\ leaving' = [leaving EXCEPT ![g] = 0]
    /\ UNCHANGED <<schedules, checkerVars, pc, calls, at, url, kind, hops,
                   policy, wireVars>>

-----------------------------------------------------------------------------
Older(a) == IF a < Horizon THEN a + 1 ELSE Horizon

Aged(f) == [k \in DOMAIN f |->
              [f[k] EXCEPT !.start = Older(@), !.access = Older(@)]]

Tick ==
    /\ schedules' = Aged(schedules)
    /\ neighborhoods' = Aged(neighborhoods)
    /\ cache' = [o \in DOMAIN cache |->
                   [cache[o] EXCEPT !.left = IF @ > 0 THEN @ - 1 ELSE 0,
                                    !.access = Older(@)]]
    /\ sinceOrigin' = [o \in Origins |-> Older(sinceOrigin[o])]
    /\ sinceGroup' = [n \in Groups |-> Older(sinceGroup[n])]
    /\ UNCHANGED <<site, inflight, pc, callerVars>>

(* What a caller does once nothing is left to release.                     *)
Proceed(g) ==
    \/ \E o \in Origins : Begin(g, o) \/ BeginFails(g, o)
    \/ LookupHit(g) \/ LookupJoin(g) \/ LookupLead(g)
    \/ SetCrawlDelay(g) \/ Publish(g)
    \/ CloseFailed(g) \/ Forget(g) \/ Refused(g)
    \/ Disallowed(g) \/ Allowed(g)
    \/ AcquireTarget(g) \/ AcquireTargetFails(g)
    \/ Start(g) \/ RequestFails(g)
    \/ PageReply(g) \/ PolicyReply(g)
    \/ \E o \in Origins : RobotsRedirect(g, o)

Step(g) == ReleaseNeighborhood(g) \/ (leaving[g] = 0 /\ Proceed(g))

Next == Tick \/ \E g \in Callers : Step(g) \/ CancelJoin(g)

Spec == Init /\ [][Next]_vars

(* Time passes, goroutines run, and requests have a timeout.  Nobody       *)
(* relies on the end of its own context.                                   *)
FairSpec == Spec /\ WF_vars(Tick) /\ \A g \in Callers : WF_vars(Step(g))

-----------------------------------------------------------------------------
(* Properties                                                              *)

Entry == [users : Nat, delay : Age, start : Age, access : Age]
Cached == [policy : Policy, left : Age, access : Age]
Flight == [leader : Callers, closed : BOOLEAN]

(* A map of Go with keys and values of these types, and of limited size.   *)
IsMap(f, Keys, Values, size) ==
    /\ DOMAIN f \subseteq Keys
    /\ f \in [DOMAIN f -> Values]
    /\ Cardinality(DOMAIN f) <= size

IsTable(f, Keys) == IsMap(f, Keys, Entry, ScheduleCapacity)

Labels == {"idle", "lookup", "hit", "join", "learned", "publish", "judge",
           "hop", "waiting", "sent", "failed", "forget", "refused"}

TypeOK ==
    /\ site \in Sites
    /\ IsTable(schedules, Origins) /\ IsTable(neighborhoods, Groups)
    /\ IsMap(cache, Origins, Cached, CacheCapacity)
    /\ DOMAIN inflight \subseteq Origins
    /\ inflight \in [DOMAIN inflight -> Flight]
    /\ calls \in 0..Calls
    /\ pc \in [Callers -> Labels]
    /\ at \in [Callers -> Origins] /\ url \in [Callers -> Origins]
    /\ kind \in [Callers -> {"robots", "page"}]
    /\ hops \in [Callers -> 0..MaxRedirects]
    /\ policy \in [Callers -> Policy]
    /\ leaving \in [Callers -> Groups \cup {0}]
    /\ sinceOrigin \in [Origins -> Age] /\ sinceGroup \in [Groups -> Age]

Pins(g) == IF pc[g] # "idle" THEN {at[g]} ELSE {}
HopPins(g) == IF pc[g] \in {"waiting", "sent"} THEN {url[g]} ELSE {}
InGroup(g, n) == leaving[g] = n \/ \E o \in HopPins(g) : Neighborhood[o] = n

(* A schedule is in the table as long as a call uses it, and its count of  *)
(* users is exact on every path, errors included: none is evicted in use,  *)
(* and none is kept for ever after its last user has gone.                 *)
PinsExact ==
    /\ \A g \in Callers : Pins(g) \cup HopPins(g) \subseteq DOMAIN schedules
    /\ \A o \in DOMAIN schedules :
        schedules[o].users = Cardinality({g \in Callers : o \in Pins(g)})
                           + Cardinality({g \in Callers : o \in HopPins(g)})
    /\ \A n \in DOMAIN neighborhoods :
        neighborhoods[n].users = Cardinality({g \in Callers : InGroup(g, n)})

(* Starts a request in this step.                                          *)
Starts(g) == pc[g] = "waiting" /\ pc'[g] = "sent"

(* The operator's minimum lies between any two requests to one origin or   *)
(* to one neighborhood, whoever makes them, through evictions, capacity    *)
(* limits, failures and redirects.                                         *)
OperatorMinimumKept ==
    [][\A g \in Callers : Starts(g) =>
        /\ sinceOrigin[url[g]] >= Minimum
        /\ Grouped(url[g]) => sinceGroup[Neighborhood[url[g]]] >= Minimum
      ]_vars

(* Whenever the origin has a place, so has its neighborhood: the two       *)
(* tables have one capacity, and a neighborhood that must stay has an      *)
(* origin that must stay.  Requests are therefore never refused on account *)
(* of the neighborhoods, but for one window: between the two releases of a *)
(* redirected request its origin may already be gone while its             *)
(* neighborhood takes up a place.                                          *)
NeighborhoodsFollow ==
    (\A h \in Callers : leaving[h] = 0) =>
        \A g \in Callers :
            pc[g] = "hop" /\ Grouped(url[g]) /\ CanPin(schedules, url[g]) =>
                CanPin(neighborhoods, Neighborhood[url[g]])

(* Unless a robots.txt is redirected to another origin, a page is          *)
(* requested no sooner after any other request to its origin than the      *)
(* Crawl-delay that the origin asks for, through evictions of the schedule *)
(* and of the cached policy.                                               *)
CrawlDelayKept ==
    [][\A g \in Callers :
        Starts(g) /\ kind[g] = "page" /\ (\A o \in Origins : ~site[o].moved) =>
            sinceOrigin[url[g]] >= policy[g].delay]_vars

(* A caller that waits for a policy waits for a live fetch of its origin,  *)
(* and an origin's policy is fetched by one caller at a time.              *)
JoinersHaveLeader ==
    /\ \A g \in Callers : pc[g] = "join" =>
        /\ at[g] \in DOMAIN inflight
        /\ ~inflight[at[g]].closed
        /\ LET l == inflight[at[g]].leader IN
            at[l] = at[g] /\ pc[l] \notin {"idle", "join", "lookup", "refused"}
    /\ \A g, h \in Callers :
        /\ kind[g] = "robots" /\ kind[h] = "robots" /\ at[g] = at[h]
        /\ pc[g] \in {"hop", "waiting", "sent", "learned", "publish"}
        /\ pc[h] \in {"hop", "waiting", "sent", "learned", "publish"}
        => g = h

(* The tables that concurrent calls share agree with the calls: users,     *)
(* capacities, neighborhoods and fetches in flight.                        *)
TablesConsistent ==
    TypeOK /\ PinsExact /\ NeighborhoodsFollow /\ JoinersHaveLeader

(* Requests keep the operator's distance and that of robots.txt.           *)
SpacingKept == OperatorMinimumKept /\ CrawlDelayKept

(* Every call returns: nobody waits for ever for a policy, for a schedule  *)
(* or for its turn.                                                        *)
CallsReturn == \A g \in Callers : pc[g] # "idle" ~> pc[g] = "idle"

=============================================================================
