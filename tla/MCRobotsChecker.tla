-------------------------- MODULE MCRobotsChecker --------------------------
(***************************************************************************)
(* RobotsChecker for TLC.  The initial state picks one of three parts of   *)
(* the system with the constants of robots_requests.cfg; every behaviour   *)
(* of a part is one of Spec.                                               *)
(*                                                                         *)
(*   "alone"      one caller and more origins than schedules, so that      *)
(*                schedules and policies are evicted between its calls     *)
(*   "neighbors"  two callers at two origins of one neighborhood           *)
(*   "crowded"    two callers at three origins with neighborhoods of their *)
(*                own, one more than there are schedules; redirects are    *)
(*                followed, and calls last for one tick at most            *)
(***************************************************************************)
EXTENDS RobotsChecker, TLC

CONSTANT Second        \* the caller that "alone" does without

VARIABLES part, ticks

partVars == <<part, ticks, vars>>

(* The first two origins are neighbors.                                    *)
Neighbors == <<1, 1, 2, 3>>

Serves(allowed, delay, moved) ==
    [policy |-> [allowed |-> allowed, delay |-> delay], moved |-> moved]

(* Every origin asks for a delay; or the first, whose robots.txt may be    *)
(* anywhere, does, and the others admit nobody.                            *)
TwoSites == {[o \in Origins |-> Serves(TRUE, 2, FALSE)],
             [o \in Origins |-> Serves(o = 1, 2, o = 1)]}

OnlyAt(S) == \A g \in Callers : {at[g], url[g]} \subseteq S

Within ==
    \/ part = "alone" /\ pc[Second] = "idle" /\ OnlyAt({1, 2, 3})
    \/ part = "neighbors" /\ Calls - calls <= 2 /\ OnlyAt({1, 2})
    \/ part = "crowded" /\ Calls - calls <= 2 /\ OnlyAt({1, 3, 4})

PartInit ==
    /\ Init /\ ticks = 0
    /\ \/ part \in {"alone", "neighbors"}
       \/ part = "crowded" /\ site[1].moved

(* In "crowded" time passes once during calls, and between them.          *)
PartTick ==
    /\ Tick
    /\ IF part = "crowded" /\ \E g \in Callers : pc[g] # "idle"
       THEN ticks = 0 /\ ticks' = 1
       ELSE ticks' = ticks
    /\ part' = part

PartDoes(A) == A /\ UNCHANGED <<part, ticks>> /\ Within'

PartNext ==
    \/ PartTick
    \/ \E g \in Callers : PartDoes(Step(g) \/ CancelJoin(g))

(* The fairness of FairSpec.                                               *)
PartSpec ==
    /\ PartInit /\ [][PartNext]_partVars
    /\ WF_partVars(PartTick)
    /\ \A g \in Callers : WF_partVars(PartDoes(Step(g)))

=============================================================================
