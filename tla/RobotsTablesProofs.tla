------------------------ MODULE RobotsTablesProofs -------------------------
(***************************************************************************)
(* What the steps of RobotsChecker do to the schedules, the neighborhoods  *)
(* and the cache, for any number of origins and callers, any delays and    *)
(* any size of the tables.                                                 *)
(***************************************************************************)
EXTENDS RobotsChecker, FiniteSetTheorems, WellFoundedInduction, TLAPS

(* The time each prover may take for a leaf that names none, in seconds.   *)
USE SMTT(30), ZenonT(30)

-----------------------------------------------------------------------------
(* Users                                                                   *)

(* How many pins an origin and a neighborhood have.                        *)
UsersOf(f, k) == IF k \in DOMAIN f THEN f[k].users ELSE 0

PinSet(o) == {g \in Callers : o \in Pins(g)}
HopSet(o) == {g \in Callers : o \in HopPins(g)}
GroupSet(n) == {g \in Callers : InGroup(g, n)}

(* A caller that has a neighborhood to release has no request.             *)
LeavingOK == \A g \in Callers : leaving[g] # 0 => HopPins(g) = {}

(* Entries without users may be absent.                                    *)
CountsOK ==
    /\ LeavingOK
    /\ \A o \in Origins :
        UsersOf(schedules, o) = Cardinality(PinSet(o)) + Cardinality(HopSet(o))
    /\ \A n \in Groups : UsersOf(neighborhoods, n) = Cardinality(GroupSet(n))

-----------------------------------------------------------------------------
(* Tables                                                                  *)

(* Every nonempty set of numbers has a least one.                          *)
LEMMA LeastNat ==
    ASSUME NEW T, T \subseteq Nat, T # {}
    PROVE  \E x \in T : \A y \in T : x <= y
<1>1. PICK x \in T : \A y \in T : ~(<<y, x>> \in OpToRel(<, Nat))
  BY WFMin, NatLessThanWellFounded, ZenonT(30)
<1>2. \A y \in T : <<y, x>> \in Nat \X Nat /\ ~(y < x)
  BY <1>1 DEF OpToRel
<1>3. \A y \in T : x \in Nat /\ y \in Nat /\ ~(y < x)
  BY <1>2, ZenonT(30)
<1>4. \A y \in T : x <= y
  BY <1>3
<1> QED BY <1>4

(* Origins and neighborhoods are finite sets of numbers.                   *)
LEMMA KeysFinite ==
    /\ IsFiniteSet(Origins) /\ Origins \subseteq Nat
    /\ IsFiniteSet(Groups) /\ Groups \subseteq Nat
<1>1. IsFiniteSet(Origins) /\ Origins \subseteq Nat
  BY FS_Interval, ConfigAssumption DEF Origins
<1>2. {Neighborhood[o] : o \in Origins} \subseteq Nat
  BY ConfigAssumption
<1>3. Neighborhood \in Surjection(Origins, {Neighborhood[o] : o \in Origins})
  BY ConfigAssumption DEF Surjection
<1>4. IsFiniteSet({Neighborhood[o] : o \in Origins})
  BY <1>1, <1>3, FS_Surjection
<1> QED
  BY <1>1, <1>2, <1>4, FS_Subset DEF Groups

(* Among the entries that may go there is one that goes first.             *)
LEMMA OldestExists ==
    ASSUME NEW Keys, Keys \subseteq Nat, NEW f, IsTable(f, Keys),
           Evictable(f) # {}
    PROVE  Oldest(f) \in Evictable(f)
<1> DEFINE E == Evictable(f)
           Ages == {Horizon - f[k].access : k \in E}
<1>1. /\ E \subseteq Nat
      /\ \A k \in E : f[k].access \in Age
  BY DEF IsTable, IsMap, Evictable, Kept, Entry
<1>2. Ages \subseteq Nat /\ Ages # {}
  BY <1>1, ConfigAssumption DEF Age
<1>3. PICK a \in Ages : \A b \in Ages : a <= b
  BY <1>2, LeastNat, ZenonT(30)
<1> DEFINE First == {k \in E : Horizon - f[k].access = a}
<1>4. First \subseteq Nat /\ First # {}
  BY <1>1, <1>3
<1>5. PICK k \in First : \A j \in First : k <= j
  BY <1>4, LeastNat, ZenonT(30)
<1>6. \A j \in E \ {k} :
        f[k].access > f[j].access \/ (f[k].access = f[j].access /\ k < j)
  <2> SUFFICES ASSUME NEW j \in E \ {k}
               PROVE  f[k].access > f[j].access
                      \/ (f[k].access = f[j].access /\ k < j)
    OBVIOUS
  <2>1. /\ f[k].access \in Int /\ f[j].access \in Int /\ k \in Nat /\ j \in Nat
        /\ Horizon \in Int
    BY <1>1, <1>4, ConfigAssumption DEF Age
  <2>2. Horizon - f[k].access = a /\ a <= Horizon - f[j].access
    BY <1>3, <1>5
  <2>3. Horizon - f[j].access = a => k <= j
    BY <1>5
  <2> QED BY <2>1, <2>2, <2>3
<1>7. k \in E
  BY <1>5
<1> HIDE DEF E
<1> QED
  BY <1>6, <1>7 DEF Oldest, E

(* Nothing is lost of an entry that stays, and one that goes had elapsed.  *)
Same(f, h, k) ==
    /\ k \in DOMAIN f /\ k \in DOMAIN h
    /\ h[k].start = f[k].start /\ h[k].delay = f[k].delay

Evolves(f, h) ==
    /\ \A k \in DOMAIN f : Same(f, h, k) \/ Elapsed(f[k])
    /\ \A k \in DOMAIN h :
        Same(f, h, k) \/ (h[k].start = Horizon /\ h[k].delay = 0)

(* A fresh entry is an entry.                                              *)
LEMMA FreshEntry == Fresh \in Entry /\ Fresh.users = 0
BY ConfigAssumption DEF Fresh, Entry, Age

(* A sweep leaves a table with the same users.                             *)
LEMMA SweptTable ==
    ASSUME NEW Keys, IsFiniteSet(Keys), NEW f, IsTable(f, Keys)
    PROVE  /\ IsTable(Swept(f), Keys)
           /\ Evolves(f, Swept(f))
           /\ \A k \in Keys : UsersOf(Swept(f), k) = UsersOf(f, k)
<1>1. Kept(f) \subseteq DOMAIN f /\ IsFiniteSet(DOMAIN f)
  BY FS_Subset DEF Kept, IsTable, IsMap
<1>2. /\ DOMAIN Swept(f) = Kept(f)
      /\ \A k \in Kept(f) : Swept(f)[k] = f[k]
  BY DEF Swept, Restrict
<1>3. Cardinality(Kept(f)) <= ScheduleCapacity
  <2>1. Cardinality(Kept(f)) <= Cardinality(DOMAIN f)
    BY <1>1, FS_Subset
  <2>2. /\ Cardinality(Kept(f)) \in Nat /\ Cardinality(DOMAIN f) \in Nat
        /\ ScheduleCapacity \in Nat
    BY <1>1, FS_Subset, FS_CardinalityType, ConfigAssumption
  <2>3. Cardinality(DOMAIN f) <= ScheduleCapacity
    BY DEF IsTable, IsMap
  <2> QED BY <2>1, <2>2, <2>3
<1>4. Swept(f) \in [Kept(f) -> Entry]
  BY <1>1 DEF Swept, Restrict, IsTable, IsMap
<1>5. IsTable(Swept(f), Keys)
  BY <1>1, <1>2, <1>3, <1>4 DEF IsTable, IsMap
<1>6. \A k \in DOMAIN f : k \in Kept(f) \/ Elapsed(f[k])
  BY DEF Kept
<1>7. Evolves(f, Swept(f))
  BY <1>1, <1>2, <1>6 DEF Evolves, Same
<1>8. \A k \in Keys : UsersOf(Swept(f), k) = UsersOf(f, k)
  BY <1>1, <1>2, <1>6 DEF UsersOf, Elapsed
<1> QED BY <1>5, <1>7, <1>8

(* Pins change users and last access of an entry, and nothing else.        *)
LEMMA EntryTouched ==
    ASSUME NEW x \in Entry, NEW u \in Nat
    PROVE  /\ [x EXCEPT !.users = u, !.access = 0] \in Entry
           /\ [x EXCEPT !.users = u, !.access = 0].users = u
           /\ [x EXCEPT !.users = u, !.access = 0].start = x.start
           /\ [x EXCEPT !.users = u, !.access = 0].delay = x.delay
<1>1. 0 \in Age
  BY ConfigAssumption DEF Age
<1> QED
  BY <1>1, ZenonT(30) DEF Entry

(* A table h in which k has one pin more than in f.                        *)
PinEffect(f, h, k, Keys) ==
    /\ IsTable(h, Keys)
    /\ Evolves(f, h)
    /\ k \in DOMAIN h
    /\ UsersOf(h, k) = UsersOf(f, k) + 1
    /\ \A j \in Keys \ {k} : UsersOf(h, j) = UsersOf(f, j)

(* acquire pins one entry and touches no other, but those that elapsed.    *)
LEMMA PinnedEffect ==
    ASSUME NEW Keys \in {Origins, Groups}, NEW f, IsTable(f, Keys),
           NEW k \in Keys, CanPin(f, k)
    PROVE  PinEffect(f, Pinned(f, k), k, Keys)
<1>0. IsFiniteSet(Keys) /\ Keys \subseteq Nat
  BY KeysFinite
<1> DEFINE keep == IF Fits(f, k) THEN Kept(f) ELSE Kept(f) \ {Oldest(f)}
           e == IF k \in Kept(f) THEN f[k] ELSE Fresh
           new == [e EXCEPT !.users = @ + 1, !.access = 0]
           p == Pinned(f, k)
<1>1. /\ Kept(f) \subseteq DOMAIN f /\ IsFiniteSet(DOMAIN f)
      /\ IsFiniteSet(Kept(f)) /\ f \in [DOMAIN f -> Entry]
      /\ DOMAIN f \subseteq Keys
  <2>1. Kept(f) \subseteq DOMAIN f
    BY DEF Kept
  <2> QED BY <1>0, <2>1, FS_Subset DEF IsTable, IsMap
<1>2. /\ DOMAIN p = keep \cup {k} /\ p[k] = new
      /\ \A j \in keep \ {k} : p[j] = f[j]
  BY DEF Pinned
<1>3. keep \subseteq Kept(f) /\ \A j \in Kept(f) \ keep : Elapsed(f[j]) /\ j # k
  <2>1. CASE Fits(f, k)
    BY <2>1
  <2>2. CASE ~Fits(f, k)
    <3>1. Oldest(f) \in Evictable(f)
      BY <1>0, <2>2, OldestExists, ZenonT(30) DEF CanPin
    <3>2. Elapsed(f[Oldest(f)]) /\ k \notin Kept(f)
      BY <3>1, <2>2 DEF Evictable, Fits
    <3> QED BY <2>2, <3>2
  <2> QED BY <2>1, <2>2
<1>4. \A j \in DOMAIN f : j \in Kept(f) \/ Elapsed(f[j])
  BY DEF Kept
<1>5. e \in Entry /\ (k \in Kept(f) => e = f[k]) /\ (k \notin Kept(f) => e = Fresh)
  BY <1>1, FreshEntry
<1> HIDE DEF e
<1>6. /\ new \in Entry /\ new.users = e.users + 1
      /\ new.start = e.start /\ new.delay = e.delay
  <2>1. e.users \in Nat /\ e.users + 1 \in Nat
    BY <1>5 DEF Entry
  <2>2. new = [e EXCEPT !.users = e.users + 1, !.access = 0]
    OBVIOUS
  <2> QED BY <1>5, <2>1, <2>2, EntryTouched, ZenonT(30)
<1> HIDE DEF new
<1>7. Cardinality(DOMAIN p) <= ScheduleCapacity
  <2>1. /\ IsFiniteSet(keep) /\ Cardinality(keep) \in Nat
        /\ Cardinality(Kept(f)) \in Nat /\ Cardinality(DOMAIN f) \in Nat
        /\ ScheduleCapacity \in Nat
    BY <1>1, <1>3, FS_Subset, FS_CardinalityType, ConfigAssumption
  <2>2. /\ Cardinality(keep \cup {k}) = IF k \in keep THEN Cardinality(keep)
                                        ELSE Cardinality(keep) + 1
    BY <2>1, FS_AddElement
  <2>3. Cardinality(Kept(f)) <= ScheduleCapacity
    <3>1. Cardinality(Kept(f)) <= Cardinality(DOMAIN f)
      BY <1>1, FS_Subset
    <3>2. Cardinality(DOMAIN f) <= ScheduleCapacity
      BY DEF IsTable, IsMap
    <3> QED BY <2>1, <3>1, <3>2
  <2>4. CASE Fits(f, k)
    <3>1. keep = Kept(f)
      BY <2>4
    <3>2. k \in Kept(f) \/ Cardinality(Kept(f)) < ScheduleCapacity
      BY <2>4 DEF Fits
    <3> HIDE DEF keep
    <3> QED BY <1>2, <2>1, <2>2, <2>3, <3>1, <3>2
  <2>5. CASE ~Fits(f, k)
    <3>1. Oldest(f) \in Kept(f)
      BY <1>0, <2>5, OldestExists, ZenonT(30) DEF CanPin, Evictable
    <3>2. Cardinality(Kept(f) \ {Oldest(f)}) = Cardinality(Kept(f)) - 1
      BY <1>1, <3>1, FS_RemoveElement, ZenonT(30)
    <3>3. keep = Kept(f) \ {Oldest(f)}
      BY <2>5
    <3> HIDE DEF keep
    <3> QED BY <1>2, <2>1, <2>2, <2>3, <3>2, <3>3
  <2> QED BY <2>4, <2>5
<1> HIDE DEF keep
<1>8. p \in [DOMAIN p -> Entry]
  <2>1. \A j \in DOMAIN p : p[j] \in Entry
    BY <1>1, <1>2, <1>3, <1>6
  <2>2. p = [j \in DOMAIN p |-> p[j]]
    BY DEF Pinned
  <2> HIDE DEF p
  <2> QED BY <2>1, <2>2
<1> HIDE DEF p
<1>9. IsTable(p, Keys)
  BY <1>1, <1>2, <1>3, <1>7, <1>8 DEF IsTable, IsMap
<1>10. Evolves(f, p)
  <2>1. \A j \in DOMAIN f : Same(f, p, j) \/ Elapsed(f[j])
    BY <1>1, <1>2, <1>3, <1>4, <1>5, <1>6 DEF Same
  <2>2. \A j \in DOMAIN p :
          Same(f, p, j) \/ (p[j].start = Horizon /\ p[j].delay = 0)
    BY <1>1, <1>2, <1>3, <1>5, <1>6 DEF Same, Fresh
  <2> QED BY <2>1, <2>2 DEF Evolves
<1>11. UsersOf(p, k) = UsersOf(f, k) + 1
  <2>1. k \in Kept(f) => UsersOf(f, k) = e.users
    BY <1>1, <1>5 DEF UsersOf
  <2>2. k \notin Kept(f) => UsersOf(f, k) = 0 /\ e.users = 0
    BY <1>4, <1>5, FreshEntry DEF UsersOf, Elapsed
  <2>3. UsersOf(p, k) = e.users + 1
    BY <1>2, <1>6 DEF UsersOf
  <2> QED BY <2>1, <2>2, <2>3
<1>12. \A j \in Keys \ {k} : UsersOf(p, j) = UsersOf(f, j)
  <2> SUFFICES ASSUME NEW j \in Keys \ {k} PROVE UsersOf(p, j) = UsersOf(f, j)
    OBVIOUS
  <2>1. CASE j \in keep
    BY <2>1, <1>1, <1>2, <1>3 DEF UsersOf
  <2>2. CASE j \notin keep
    <3>1. j \in DOMAIN f => f[j].users = 0
      BY <2>2, <1>3, <1>4 DEF Elapsed
    <3> QED BY <2>2, <3>1, <1>2 DEF UsersOf
  <2> QED BY <2>1, <2>2
<1> QED
  BY <1>2, <1>9, <1>10, <1>11, <1>12 DEF p, PinEffect

(* A table h in which k has one pin less than in f.                        *)
UnpinEffect(f, h, k, Keys) ==
    /\ IsTable(h, Keys)
    /\ DOMAIN h = DOMAIN f
    /\ \A j \in DOMAIN f : Same(f, h, j)
    /\ UsersOf(h, k) = UsersOf(f, k) - 1
    /\ \A j \in Keys \ {k} : UsersOf(h, j) = UsersOf(f, j)

(* releasePinned gives back one pin.                                       *)
LEMMA UnpinnedEffect ==
    ASSUME NEW Keys, NEW f, IsTable(f, Keys), NEW k \in Keys, UsersOf(f, k) > 0
    PROVE  UnpinEffect(f, Unpinned(f, k), k, Keys)
<1> DEFINE p == Unpinned(f, k)
           new == [f[k] EXCEPT !.users = @ - 1, !.access = 0]
<1>1. k \in DOMAIN f /\ f[k] \in Entry /\ f[k].users \in Nat /\ f[k].users > 0
  BY DEF UsersOf, IsTable, IsMap, Entry
<1>2. /\ new \in Entry /\ new.users = f[k].users - 1
      /\ new.start = f[k].start /\ new.delay = f[k].delay
  <2>1. f[k].users - 1 \in Nat
    BY <1>1
  <2>2. new = [f[k] EXCEPT !.users = f[k].users - 1, !.access = 0]
    OBVIOUS
  <2> QED BY <1>1, <2>1, <2>2, EntryTouched, ZenonT(30)
<1>3. /\ DOMAIN p = DOMAIN f /\ p[k] = new
      /\ \A j \in DOMAIN f \ {k} : p[j] = f[j]
      /\ p \in [DOMAIN f -> Entry]
  BY <1>1, <1>2 DEF Unpinned, IsTable, IsMap
<1> HIDE DEF p, new
<1>4. IsTable(p, Keys)
  BY <1>3 DEF IsTable, IsMap
<1>5. \A j \in DOMAIN f : Same(f, p, j)
  BY <1>2, <1>3 DEF Same
<1>6. UsersOf(p, k) = UsersOf(f, k) - 1
  BY <1>1, <1>2, <1>3 DEF UsersOf
<1>7. \A j \in Keys \ {k} : UsersOf(p, j) = UsersOf(f, j)
  BY <1>3 DEF UsersOf
<1> QED
  BY <1>3, <1>4, <1>5, <1>6, <1>7 DEF p, UnpinEffect

(* When entries only keep what they say, nothing new has evolved.          *)
LEMMA EvolvesSame ==
    ASSUME NEW f, NEW p, NEW h, Evolves(f, p), DOMAIN h = DOMAIN p,
           \A j \in DOMAIN p : Same(p, h, j)
    PROVE  Evolves(f, h)
BY DEF Evolves, Same

(* A table that stays evolves.                                             *)
LEMMA EvolvesSelf == ASSUME NEW f PROVE Evolves(f, f)
BY DEF Evolves, Same

-----------------------------------------------------------------------------
(* Pins                                                                    *)

(* Sets that differ in one caller differ by that one in their size.        *)
LEMMA CountChange ==
    ASSUME NEW S, S \subseteq Callers, NEW T, T \subseteq Callers, NEW g,
           S \ {g} = T \ {g}
    PROVE  /\ Cardinality(S) \in Nat /\ Cardinality(T) \in Nat
           /\ Cardinality(T) = Cardinality(S) + (IF g \in T THEN 1 ELSE 0)
                                              - (IF g \in S THEN 1 ELSE 0)
<1>1. IsFiniteSet(S) /\ IsFiniteSet(T)
  BY FS_Subset, ConfigAssumption
<1>2. Cardinality(S) \in Nat /\ Cardinality(T) \in Nat
  BY <1>1, FS_CardinalityType
<1>3. Cardinality(S \ {g}) = IF g \in S THEN Cardinality(S) - 1 ELSE Cardinality(S)
  BY <1>1, FS_RemoveElement
<1>4. Cardinality(T \ {g}) = IF g \in T THEN Cardinality(T) - 1 ELSE Cardinality(T)
  BY <1>1, FS_RemoveElement
<1> QED
  BY <1>2, <1>3, <1>4

Bit(b) == IF b THEN 1 ELSE 0

KeepsPins(h) ==
    Pins(h)' = Pins(h) /\ HopPins(h)' = HopPins(h) /\ leaving'[h] = leaving[h]

OthersKeepPins(g) == \A h \in Callers \ {g} : KeepsPins(h)

(* What the pins of one caller mean for the counts.                        *)
LEMMA PinsChange ==
    ASSUME NEW g \in Callers, OthersKeepPins(g)
    PROVE  /\ \A o : Cardinality(PinSet(o))' =
                     Cardinality(PinSet(o)) + Bit(o \in Pins(g)') - Bit(o \in Pins(g))
           /\ \A o : Cardinality(HopSet(o))' =
                     Cardinality(HopSet(o)) + Bit(o \in HopPins(g)')
                                            - Bit(o \in HopPins(g))
           /\ \A n : Cardinality(GroupSet(n))' =
                     Cardinality(GroupSet(n)) + Bit(InGroup(g, n)') - Bit(InGroup(g, n))
<1>1. ASSUME NEW o
      PROVE  Cardinality(PinSet(o))' =
             Cardinality(PinSet(o)) + Bit(o \in Pins(g)') - Bit(o \in Pins(g))
  <2>1. PinSet(o) \ {g} = PinSet(o)' \ {g}
    BY DEF PinSet, OthersKeepPins, KeepsPins
  <2>2. (g \in PinSet(o) <=> o \in Pins(g)) /\ (g \in PinSet(o)' <=> o \in Pins(g)')
    BY DEF PinSet
  <2>3. PinSet(o) \subseteq Callers /\ PinSet(o)' \subseteq Callers
    BY DEF PinSet
  <2>4. Cardinality(PinSet(o)') = Cardinality(PinSet(o))
              + (IF g \in PinSet(o)' THEN 1 ELSE 0)
              - (IF g \in PinSet(o) THEN 1 ELSE 0)
    BY <2>1, <2>3, CountChange
  <2> QED BY <2>2, <2>4 DEF Bit
<1>2. ASSUME NEW o
      PROVE  Cardinality(HopSet(o))' =
             Cardinality(HopSet(o)) + Bit(o \in HopPins(g)') - Bit(o \in HopPins(g))
  <2>1. HopSet(o) \ {g} = HopSet(o)' \ {g}
    BY DEF HopSet, OthersKeepPins, KeepsPins
  <2>2. (g \in HopSet(o) <=> o \in HopPins(g))
        /\ (g \in HopSet(o)' <=> o \in HopPins(g)')
    BY DEF HopSet
  <2>3. HopSet(o) \subseteq Callers /\ HopSet(o)' \subseteq Callers
    BY DEF HopSet
  <2>4. Cardinality(HopSet(o)') = Cardinality(HopSet(o))
              + (IF g \in HopSet(o)' THEN 1 ELSE 0)
              - (IF g \in HopSet(o) THEN 1 ELSE 0)
    BY <2>1, <2>3, CountChange
  <2> QED BY <2>2, <2>4 DEF Bit
<1>3. ASSUME NEW n
      PROVE  Cardinality(GroupSet(n))' =
             Cardinality(GroupSet(n)) + Bit(InGroup(g, n)') - Bit(InGroup(g, n))
  <2>1. GroupSet(n) \ {g} = GroupSet(n)' \ {g}
    BY DEF GroupSet, OthersKeepPins, KeepsPins, InGroup
  <2>2. (g \in GroupSet(n) <=> InGroup(g, n))
        /\ (g \in GroupSet(n)' <=> InGroup(g, n)')
    BY DEF GroupSet, InGroup
  <2>3. GroupSet(n) \subseteq Callers /\ GroupSet(n)' \subseteq Callers
    BY DEF GroupSet
  <2>4. Cardinality(GroupSet(n)') = Cardinality(GroupSet(n))
              + (IF g \in GroupSet(n)' THEN 1 ELSE 0)
              - (IF g \in GroupSet(n) THEN 1 ELSE 0)
    BY <2>1, <2>3, CountChange
  <2> QED BY <2>2, <2>4 DEF Bit
<1> QED
  BY <1>1, <1>2, <1>3

(* A caller that has no request, or nothing to release, keeps LeavingOK.   *)
LEMMA OthersLeave ==
    ASSUME CountsOK, NEW g \in Callers, OthersKeepPins(g),
           HopPins(g)' = {} \/ leaving'[g] = 0
    PROVE  LeavingOK'
BY DEF CountsOK, LeavingOK, OthersKeepPins, KeepsPins, HopPins

(* Counts of pins are numbers.                                             *)
LEMMA CountTypes ==
    ASSUME NEW o
    PROVE  /\ Cardinality(PinSet(o)) \in Nat
           /\ Cardinality(HopSet(o)) \in Nat
           /\ Cardinality(GroupSet(o)) \in Nat
BY FS_Subset, FS_CardinalityType, ConfigAssumption DEF PinSet, HopSet, GroupSet

(* What a caller pins is in the tables.                                    *)
LEMMA PinnedIsThere ==
    ASSUME TypeOK, CountsOK, NEW g \in Callers
    PROVE  /\ \A o \in Pins(g) \cup HopPins(g) :
                o \in Origins /\ UsersOf(schedules, o) > 0 /\ o \in DOMAIN schedules
           /\ \A n \in Groups : InGroup(g, n) =>
                UsersOf(neighborhoods, n) > 0 /\ n \in DOMAIN neighborhoods
<1>1. ASSUME NEW S, S \subseteq Callers, g \in S PROVE Cardinality(S) > 0
  <2>1. IsFiniteSet(S) /\ S # {}
    BY <1>1, FS_Subset, ConfigAssumption
  <2> QED BY <2>1, FS_EmptySet, FS_CardinalityType
<1>2. ASSUME NEW o \in Pins(g) \cup HopPins(g)
      PROVE  o \in Origins /\ UsersOf(schedules, o) > 0 /\ o \in DOMAIN schedules
  <2>1. o \in Origins
    BY <1>2 DEF Pins, HopPins, TypeOK
  <2>2. Cardinality(PinSet(o)) > 0 \/ Cardinality(HopSet(o)) > 0
    BY <1>1, <1>2 DEF PinSet, HopSet
  <2>3. UsersOf(schedules, o) > 0
    BY <2>1, <2>2, CountTypes DEF CountsOK
  <2> QED BY <2>1, <2>3 DEF UsersOf
<1>3. ASSUME NEW n \in Groups, InGroup(g, n)
      PROVE  UsersOf(neighborhoods, n) > 0 /\ n \in DOMAIN neighborhoods
  <2>1. Cardinality(GroupSet(n)) > 0
    BY <1>1, <1>3 DEF GroupSet, InGroup
  <2>2. UsersOf(neighborhoods, n) > 0
    BY <2>1 DEF CountsOK
  <2> QED BY <2>2 DEF UsersOf
<1> QED
  BY <1>2, <1>3


-----------------------------------------------------------------------------
(* What the steps do to the tables                                         *)

TablesOK ==
    IsTable(schedules, Origins) /\ IsTable(neighborhoods, Groups) /\ CountsOK

(* Only schedules whose time is over go, and only fresh ones come.         *)
Calm ==
    /\ Evolves(schedules, schedules') /\ Evolves(neighborhoods, neighborhoods')
    /\ UNCHANGED <<sinceOrigin, sinceGroup>>

(* Users are numbers.                                                      *)
LEMMA UsersNat ==
    ASSUME NEW Keys, NEW f, IsTable(f, Keys), NEW k
    PROVE  UsersOf(f, k) \in Nat
BY DEF UsersOf, IsTable, IsMap, Entry

(* The neighborhood of a grouped origin is one of the groups.              *)
LEMMA GroupOf ==
    ASSUME NEW o \in Origins, Grouped(o)
    PROVE  Neighborhood[o] \in Groups
BY DEF Grouped, Groups

(* A call pins the schedule of its origin.                                 *)
LEMMA BeginStep ==
    ASSUME TypeOK, CountsOK, NEW g \in Callers, NEW o \in Origins, Begin(g, o)
    PROVE  TablesOK' /\ Calm
<1>0. IsTable(schedules, Origins) /\ IsTable(neighborhoods, Groups)
  BY DEF TypeOK
<1>1. /\ schedules' = Pinned(schedules, o) /\ CanPin(schedules, o)
      /\ neighborhoods' = neighborhoods
      /\ UNCHANGED <<sinceOrigin, sinceGroup>>
  BY DEF Begin, wireVars
<1>2. /\ IsTable(schedules', Origins) /\ Evolves(schedules, schedules')
      /\ UsersOf(schedules', o) = UsersOf(schedules, o) + 1
      /\ \A j \in Origins \ {o} : UsersOf(schedules', j) = UsersOf(schedules, j)
  <2>1. PinEffect(schedules, Pinned(schedules, o), o, Origins)
    BY <1>0, <1>1, PinnedEffect
  <2> QED BY <1>1, <2>1 DEF PinEffect
<1>3. OthersKeepPins(g) /\ Pins(g) = {} /\ Pins(g)' = {o}
      /\ HopPins(g) = {} /\ HopPins(g)' = {} /\ leaving'[g] = leaving[g]
  BY DEF Begin, Goto, OthersKeepPins, KeepsPins, Pins, HopPins, TypeOK
<1>4. ASSUME NEW j \in Origins
      PROVE  UsersOf(schedules', j) =
             Cardinality(PinSet(j))' + Cardinality(HopSet(j))'
  <2>1. Cardinality(PinSet(j))' = Cardinality(PinSet(j)) + (IF j = o THEN 1 ELSE 0)
    BY <1>3, PinsChange, CountTypes DEF Bit
  <2>2. Cardinality(HopSet(j))' = Cardinality(HopSet(j))
    BY <1>3, PinsChange, CountTypes DEF Bit
  <2>3. UsersOf(schedules, j) = Cardinality(PinSet(j)) + Cardinality(HopSet(j))
    BY DEF CountsOK
  <2> QED BY <1>2, <2>1, <2>2, <2>3, CountTypes
<1>5. ASSUME NEW n \in Groups
      PROVE  UsersOf(neighborhoods', n) = Cardinality(GroupSet(n))'
  <2>1. InGroup(g, n)' <=> InGroup(g, n)
    BY <1>3 DEF InGroup
  <2>2. Cardinality(GroupSet(n))' = Cardinality(GroupSet(n))
    BY <1>3, <2>1, PinsChange, CountTypes DEF Bit
  <2> QED BY <1>1, <2>2 DEF CountsOK
<1>l. LeavingOK'
  BY <1>3, OthersLeave, ZenonT(30)
<1> QED
  BY <1>l, <1>0, <1>1, <1>2, <1>4, <1>5, EvolvesSelf DEF TablesOK, Calm, CountsOK

(* Steps that change no pin.                                               *)
LEMMA SamePins ==
    ASSUME \A h \in Callers : KeepsPins(h)
    PROVE  \A o : /\ PinSet(o)' = PinSet(o) /\ HopSet(o)' = HopSet(o)
                  /\ GroupSet(o)' = GroupSet(o)
BY DEF PinSet, HopSet, GroupSet, KeepsPins, InGroup

(* Tables with the same users keep CountsOK.                               *)
LEMMA SameUsers ==
    ASSUME CountsOK,
           \A h \in Callers : KeepsPins(h),
           \A o \in Origins : UsersOf(schedules', o) = UsersOf(schedules, o),
           \A n \in Groups : UsersOf(neighborhoods', n) = UsersOf(neighborhoods, n)
    PROVE  CountsOK'
BY SamePins DEF CountsOK, LeavingOK, KeepsPins, HopPins

(* A call that is refused pins nothing.                                    *)
LEMMA BeginFailsStep ==
    ASSUME TypeOK, CountsOK, NEW g \in Callers, NEW o \in Origins, BeginFails(g, o)
    PROVE  TablesOK' /\ Calm
<1>0. IsTable(schedules, Origins) /\ IsTable(neighborhoods, Groups)
  BY DEF TypeOK
<1>1. /\ schedules' = Swept(schedules) /\ neighborhoods' = neighborhoods
      /\ UNCHANGED <<sinceOrigin, sinceGroup, pc, at, url, leaving>>
  BY DEF BeginFails, wireVars
<1>2. /\ IsTable(schedules', Origins) /\ Evolves(schedules, schedules')
      /\ \A j \in Origins : UsersOf(schedules', j) = UsersOf(schedules, j)
  BY <1>0, <1>1, SweptTable, KeysFinite
<1>3. \A h \in Callers : KeepsPins(h)
  BY <1>1 DEF KeepsPins, Pins, HopPins
<1>4. CountsOK'
  BY <1>1, <1>2, <1>3, SameUsers
<1> QED
  BY <1>0, <1>1, <1>2, <1>4, EvolvesSelf DEF TablesOK, Calm

(* A call that returns releases its pin.                                   *)
LEMMA ReturnStep ==
    ASSUME TypeOK, CountsOK, NEW g \in Callers, pc[g] \in {"refused", "judge"},
           Return(g)
    PROVE  TablesOK' /\ Calm
<1>0. IsTable(schedules, Origins) /\ IsTable(neighborhoods, Groups)
  BY DEF TypeOK
<1> DEFINE o == at[g]
<1>1. /\ schedules' = Unpinned(schedules, o)
      /\ neighborhoods' = neighborhoods
      /\ UNCHANGED <<sinceOrigin, sinceGroup>>
  BY DEF Return, wireVars
<1>3. OthersKeepPins(g) /\ Pins(g) = {o} /\ Pins(g)' = {}
      /\ HopPins(g) = {} /\ HopPins(g)' = {} /\ leaving'[g] = leaving[g]
  BY DEF Return, Goto, OthersKeepPins, KeepsPins, Pins, HopPins, TypeOK
<1>a. o \in Origins /\ UsersOf(schedules, o) > 0
  BY <1>3, PinnedIsThere
<1> HIDE DEF o
<1>2. /\ IsTable(schedules', Origins) /\ Evolves(schedules, schedules')
      /\ UsersOf(schedules', o) = UsersOf(schedules, o) - 1
      /\ \A j \in Origins \ {o} : UsersOf(schedules', j) = UsersOf(schedules, j)
  <2>1. UnpinEffect(schedules, schedules', o, Origins)
    BY <1>0, <1>1, <1>a, UnpinnedEffect
  <2>2. Evolves(schedules, schedules')
    BY <2>1, EvolvesSelf, EvolvesSame DEF UnpinEffect
  <2> QED BY <2>1, <2>2 DEF UnpinEffect
<1>4. ASSUME NEW j \in Origins
      PROVE  UsersOf(schedules', j) =
             Cardinality(PinSet(j))' + Cardinality(HopSet(j))'
  <2>1. Cardinality(PinSet(j))' = Cardinality(PinSet(j)) - (IF j = o THEN 1 ELSE 0)
    BY <1>3, PinsChange, CountTypes DEF Bit
  <2>2. Cardinality(HopSet(j))' = Cardinality(HopSet(j))
    BY <1>3, PinsChange, CountTypes DEF Bit
  <2>3. UsersOf(schedules, j) = Cardinality(PinSet(j)) + Cardinality(HopSet(j))
    BY DEF CountsOK
  <2> QED BY <1>2, <2>1, <2>2, <2>3, CountTypes
<1>5. ASSUME NEW n \in Groups
      PROVE  UsersOf(neighborhoods', n) = Cardinality(GroupSet(n))'
  <2>1. InGroup(g, n)' <=> InGroup(g, n)
    BY <1>3 DEF InGroup
  <2>2. Cardinality(GroupSet(n))' = Cardinality(GroupSet(n))
    BY <1>3, <2>1, PinsChange, CountTypes DEF Bit
  <2> QED BY <1>1, <2>2 DEF CountsOK
<1>l. LeavingOK'
  BY <1>3, OthersLeave, ZenonT(30)
<1> QED
  BY <1>l, <1>0, <1>1, <1>2, <1>4, <1>5, EvolvesSelf DEF TablesOK, Calm, CountsOK

(* A request pins its origin and neighborhood.                             *)
LEMMA AcquireStep ==
    ASSUME TypeOK, CountsOK, NEW g \in Callers, AcquireTarget(g), leaving[g] = 0
    PROVE  TablesOK' /\ Calm
<1> DEFINE o == url[g]  n == Neighborhood[o]
<1>0. /\ IsTable(schedules, Origins) /\ IsTable(neighborhoods, Groups)
      /\ o \in Origins
  BY DEF TypeOK
<1>1. /\ schedules' = Pinned(schedules, o) /\ CanPin(schedules, o)
      /\ Grouped(o) => CanPin(neighborhoods, n)
                       /\ neighborhoods' = Pinned(neighborhoods, n)
      /\ ~Grouped(o) => neighborhoods' = neighborhoods
      /\ UNCHANGED <<sinceOrigin, sinceGroup>>
  BY DEF AcquireTarget, wireVars
<1>2. /\ OthersKeepPins(g) /\ Pins(g)' = Pins(g)
      /\ HopPins(g) = {} /\ HopPins(g)' = {o} /\ leaving'[g] = 0
  BY DEF AcquireTarget, callerVars, Goto, OthersKeepPins, KeepsPins, Pins, HopPins, TypeOK
<1>a. \A k \in Groups : ~InGroup(g, k) /\ (InGroup(g, k)' <=> k = n)
  BY <1>2 DEF InGroup, Groups
<1> HIDE DEF o
<1>3. PinEffect(schedules, schedules', o, Origins)
  BY <1>0, <1>1, PinnedEffect
<1>4. Grouped(o) => /\ n \in Groups
                    /\ PinEffect(neighborhoods, neighborhoods', n, Groups)
  BY <1>0, <1>1, PinnedEffect, GroupOf
<1>5. ~Grouped(o) => n \notin Groups
  BY DEF Grouped, Groups
<1> HIDE DEF n
<1>6. ASSUME NEW j \in Origins
      PROVE  UsersOf(schedules', j) =
             Cardinality(PinSet(j))' + Cardinality(HopSet(j))'
  <2>1. Cardinality(HopSet(j))' = Cardinality(HopSet(j)) + (IF j = o THEN 1 ELSE 0)
    BY <1>2, PinsChange, CountTypes DEF Bit
  <2>2. Cardinality(PinSet(j))' = Cardinality(PinSet(j))
    BY <1>2, PinsChange, CountTypes DEF Bit
  <2>3. UsersOf(schedules, j) = Cardinality(PinSet(j)) + Cardinality(HopSet(j))
    BY DEF CountsOK
  <2> QED BY <1>3, <2>1, <2>2, <2>3, CountTypes DEF PinEffect
<1>7. ASSUME NEW k \in Groups
      PROVE  UsersOf(neighborhoods', k) = Cardinality(GroupSet(k))'
  <2>1. Cardinality(GroupSet(k))' =
        Cardinality(GroupSet(k)) + (IF k = n THEN 1 ELSE 0)
    BY <1>2, <1>a, PinsChange, CountTypes DEF Bit
  <2>2. UsersOf(neighborhoods, k) = Cardinality(GroupSet(k))
    BY DEF CountsOK
  <2>3. CASE Grouped(o)
    BY <1>4, <2>1, <2>2, <2>3, CountTypes DEF PinEffect
  <2>4. CASE ~Grouped(o)
    BY <1>1, <1>5, <2>1, <2>2, <2>4, CountTypes
  <2> QED BY <2>3, <2>4
<1>8. /\ IsTable(neighborhoods', Groups)
      /\ Evolves(neighborhoods, neighborhoods')
  BY <1>0, <1>1, <1>4, EvolvesSelf DEF PinEffect
<1>l. LeavingOK'
  BY <1>2, OthersLeave, ZenonT(30)
<1> QED
  BY <1>l, <1>1, <1>3, <1>6, <1>7, <1>8 DEF TablesOK, Calm, CountsOK, PinEffect

(* A request that is refused pins neither.                                 *)
LEMMA AcquireFailsStep ==
    ASSUME TypeOK, CountsOK, NEW g \in Callers, AcquireTargetFails(g)
    PROVE  TablesOK' /\ Calm
<1> DEFINE o == url[g]
<1>0. /\ IsTable(schedules, Origins) /\ IsTable(neighborhoods, Groups)
      /\ o \in Origins
  BY DEF TypeOK
<1>1. /\ UNCHANGED <<sinceOrigin, sinceGroup>>
      /\ \/ /\ CanPin(schedules, o)
            /\ schedules' = Unpinned(Pinned(schedules, o), o)
            /\ neighborhoods' = Swept(neighborhoods)
         \/ schedules' = Swept(schedules) /\ neighborhoods' = neighborhoods
  BY DEF AcquireTargetFails, wireVars
<1>2. \A h \in Callers : KeepsPins(h)
  BY DEF AcquireTargetFails, Broken, callerVars, Goto, KeepsPins, Pins, HopPins, TypeOK
<1> HIDE DEF o
<1>3. /\ IsTable(schedules', Origins) /\ Evolves(schedules, schedules')
      /\ \A j \in Origins : UsersOf(schedules', j) = UsersOf(schedules, j)
  <2>1. CASE schedules' = Swept(schedules)
    BY <1>0, <2>1, SweptTable, KeysFinite
  <2>2. CASE CanPin(schedules, o) /\ schedules' = Unpinned(Pinned(schedules, o), o)
    <3> DEFINE p == Pinned(schedules, o)
    <3>1. PinEffect(schedules, p, o, Origins)
      BY <1>0, <2>2, PinnedEffect
    <3> HIDE DEF p
    <3>2. UsersOf(schedules, o) \in Nat
      BY <1>0, UsersNat
    <3>3. IsTable(p, Origins) /\ UsersOf(p, o) > 0
      BY <3>1, <3>2 DEF PinEffect
    <3>4. UnpinEffect(p, Unpinned(p, o), o, Origins)
      BY <1>0, <3>3, UnpinnedEffect
    <3>5. UnpinEffect(p, schedules', o, Origins)
      BY <2>2, <3>4 DEF p
    <3>6. Evolves(schedules, schedules')
      BY <3>1, <3>5, EvolvesSame DEF PinEffect, UnpinEffect
    <3>7. \A j \in Origins : UsersOf(schedules', j) = UsersOf(schedules, j)
      BY <3>1, <3>2, <3>5 DEF PinEffect, UnpinEffect
    <3> QED BY <3>5, <3>6, <3>7 DEF UnpinEffect
  <2> QED BY <1>1, <2>1, <2>2, ZenonT(30)
<1>4. /\ IsTable(neighborhoods', Groups) /\ Evolves(neighborhoods, neighborhoods')
      /\ \A j \in Groups : UsersOf(neighborhoods', j) = UsersOf(neighborhoods, j)
  <2>1. CASE neighborhoods' = Swept(neighborhoods)
    BY <1>0, <2>1, SweptTable, KeysFinite
  <2>2. CASE neighborhoods' = neighborhoods
    BY <1>0, <2>2, EvolvesSelf
  <2> QED BY <1>1, <2>1, <2>2
<1>5. CountsOK'
  BY <1>2, <1>3, <1>4, SameUsers, ZenonT(30)
<1> QED
  BY <1>1, <1>3, <1>4, <1>5, ZenonT(30) DEF TablesOK, Calm

(* A request ends, however it ends: its origin is released.                *)
LEMMA ReleaseStep ==
    ASSUME TypeOK, CountsOK, NEW g \in Callers, pc[g] \in {"waiting", "sent"},
           leaving[g] = 0,
           ReleaseOrigin(g), NEW l \in {"failed", "refused", "learned", "hop"},
           Goto(g, l), at' = at, \A h \in Callers \ {g} : url'[h] = url[h],
           UNCHANGED <<sinceOrigin, sinceGroup>>
    PROVE  TablesOK' /\ Calm
<1> DEFINE o == url[g]  n == Neighborhood[o]
<1>0. /\ IsTable(schedules, Origins) /\ IsTable(neighborhoods, Groups)
      /\ o \in Origins
  BY DEF TypeOK
<1>1. /\ schedules' = Unpinned(schedules, o) /\ neighborhoods' = neighborhoods
      /\ leaving'[g] = n /\ \A h \in Callers \ {g} : leaving'[h] = leaving[h]
  BY DEF ReleaseOrigin, TypeOK
<1>2. /\ OthersKeepPins(g) /\ Pins(g)' = Pins(g)
      /\ HopPins(g) = {o} /\ HopPins(g)' = {}
  BY <1>1, ZenonT(30) DEF Goto, OthersKeepPins, KeepsPins, Pins, HopPins, TypeOK
<1>a. \A k \in Groups : InGroup(g, k)' <=> InGroup(g, k)
  BY <1>1, <1>2 DEF InGroup, Groups
<1> HIDE DEF o
<1>3. UnpinEffect(schedules, schedules', o, Origins)
  <2>1. UsersOf(schedules, o) > 0
    BY <1>2, PinnedIsThere
  <2> QED BY <1>0, <1>1, <2>1, UnpinnedEffect
<1> HIDE DEF n
<1>6. ASSUME NEW j \in Origins
      PROVE  UsersOf(schedules', j) =
             Cardinality(PinSet(j))' + Cardinality(HopSet(j))'
  <2>1. Cardinality(HopSet(j))' = Cardinality(HopSet(j)) - (IF j = o THEN 1 ELSE 0)
    BY <1>2, PinsChange, CountTypes DEF Bit
  <2>2. Cardinality(PinSet(j))' = Cardinality(PinSet(j))
    BY <1>2, PinsChange, CountTypes DEF Bit
  <2>3. UsersOf(schedules, j) = Cardinality(PinSet(j)) + Cardinality(HopSet(j))
    BY ZenonT(30) DEF CountsOK
  <2>4. CASE j = o
    <3>1. UsersOf(schedules', j) = UsersOf(schedules, j) - 1
      BY <1>3, <2>4, ZenonT(30) DEF UnpinEffect
    <3> QED BY <2>1, <2>2, <2>3, <2>4, <3>1, CountTypes
  <2>5. CASE j # o
    <3>1. UsersOf(schedules', j) = UsersOf(schedules, j)
      BY <1>3, <2>5, ZenonT(30) DEF UnpinEffect
    <3> QED BY <2>1, <2>2, <2>3, <2>5, <3>1, CountTypes
  <2> QED BY <2>4, <2>5, ZenonT(30)
<1>7. ASSUME NEW k \in Groups
      PROVE  UsersOf(neighborhoods', k) = Cardinality(GroupSet(k))'
  <2>1. Cardinality(GroupSet(k))' = Cardinality(GroupSet(k))
    BY <1>2, <1>a, PinsChange, CountTypes DEF Bit
  <2> QED BY <1>1, <2>1, ZenonT(30) DEF CountsOK
<1>8. IsTable(schedules', Origins) /\ Evolves(schedules, schedules')
  BY <1>3, EvolvesSelf, EvolvesSame DEF UnpinEffect
<1>l. LeavingOK'
  BY <1>2, OthersLeave, ZenonT(30)
<1> QED
  BY <1>l, <1>0, <1>1, <1>6, <1>7, <1>8, EvolvesSelf DEF TablesOK, Calm, CountsOK

(* Then its neighborhood is released.                                      *)
LEMMA ReleaseGroupStep ==
    ASSUME TypeOK, CountsOK, NEW g \in Callers, ReleaseNeighborhood(g)
    PROVE  TablesOK' /\ Calm
<1> DEFINE n == leaving[g]
<1>0. /\ IsTable(schedules, Origins) /\ IsTable(neighborhoods, Groups)
      /\ n \in Groups
  BY DEF TypeOK, ReleaseNeighborhood
<1>1. /\ neighborhoods' = Unpinned(neighborhoods, n) /\ schedules' = schedules
      /\ UNCHANGED <<sinceOrigin, sinceGroup, pc, at, url>>
      /\ leaving'[g] = 0 /\ \A h \in Callers \ {g} : leaving'[h] = leaving[h]
  BY DEF ReleaseNeighborhood, wireVars, TypeOK
<1>b. HopPins(g) = {}
  BY DEF ReleaseNeighborhood, CountsOK, LeavingOK
<1>2. /\ OthersKeepPins(g) /\ Pins(g)' = Pins(g)
      /\ HopPins(g) = {} /\ HopPins(g)' = {}
  BY <1>1, <1>b, ZenonT(30) DEF OthersKeepPins, KeepsPins, Pins, HopPins
<1>a. \A k \in Groups : ~InGroup(g, k)' /\ (InGroup(g, k) <=> k = n)
  BY <1>1, <1>2 DEF InGroup, Groups
<1> HIDE DEF n
<1>3. UnpinEffect(neighborhoods, neighborhoods', n, Groups)
  <2>1. UsersOf(neighborhoods, n) > 0
    BY <1>0, <1>a, PinnedIsThere
  <2> QED BY <1>0, <1>1, <2>1, UnpinnedEffect
<1>6. ASSUME NEW j \in Origins
      PROVE  UsersOf(schedules', j) =
             Cardinality(PinSet(j))' + Cardinality(HopSet(j))'
  <2>1. /\ Cardinality(HopSet(j))' = Cardinality(HopSet(j))
        /\ Cardinality(PinSet(j))' = Cardinality(PinSet(j))
    BY <1>2, PinsChange, CountTypes DEF Bit
  <2> QED BY <1>1, <2>1, ZenonT(30) DEF CountsOK
<1>7. ASSUME NEW k \in Groups
      PROVE  UsersOf(neighborhoods', k) = Cardinality(GroupSet(k))'
  <2>1. Cardinality(GroupSet(k))' =
        Cardinality(GroupSet(k)) - (IF k = n THEN 1 ELSE 0)
    BY <1>2, <1>a, PinsChange, CountTypes DEF Bit
  <2>2. UsersOf(neighborhoods, k) = Cardinality(GroupSet(k))
    BY ZenonT(30) DEF CountsOK
  <2>3. CASE k = n
    <3>1. UsersOf(neighborhoods', k) = UsersOf(neighborhoods, k) - 1
      BY <1>3, <2>3, ZenonT(30) DEF UnpinEffect
    <3> QED BY <2>1, <2>2, <2>3, <3>1, CountTypes
  <2>4. CASE k # n
    <3>1. UsersOf(neighborhoods', k) = UsersOf(neighborhoods, k)
      BY <1>3, <2>4, ZenonT(30) DEF UnpinEffect
    <3> QED BY <2>1, <2>2, <2>4, <3>1, CountTypes
  <2> QED BY <2>3, <2>4, ZenonT(30)
<1>8. IsTable(neighborhoods', Groups) /\ Evolves(neighborhoods, neighborhoods')
  BY <1>3, EvolvesSelf, EvolvesSame DEF UnpinEffect
<1>l. LeavingOK'
  BY <1>2, OthersLeave, ZenonT(30)
<1> QED
  BY <1>l, <1>0, <1>1, <1>6, <1>7, <1>8, EvolvesSelf DEF TablesOK, Calm, CountsOK

(* Steps that leave the tables alone leave the counts alone.               *)
LEMMA QuietStep ==
    ASSUME TypeOK, CountsOK,
           UNCHANGED <<schedules, neighborhoods, sinceOrigin, sinceGroup>>,
           \A h \in Callers : KeepsPins(h)
    PROVE  TablesOK' /\ Calm
<1>1. IsTable(schedules, Origins) /\ IsTable(neighborhoods, Groups)
  BY DEF TypeOK
<1>2. CountsOK'
  BY SameUsers
<1>3. Evolves(schedules, schedules') /\ Evolves(neighborhoods, neighborhoods')
  BY EvolvesSelf
<1> QED
  BY <1>1, <1>2, <1>3 DEF TablesOK, Calm

(* A table h with the keys and the users of f.                             *)
SameKeysAndUsers(f, h) ==
    /\ DOMAIN h = DOMAIN f
    /\ h \in [DOMAIN f -> Entry]
    /\ \A k \in DOMAIN f : h[k].users = f[k].users

(* A table with the same keys and users is a table with these users.       *)
LEMMA KeysAndUsers ==
    ASSUME NEW Keys, NEW f, IsTable(f, Keys), NEW h, SameKeysAndUsers(f, h)
    PROVE  IsTable(h, Keys) /\ \A k : UsersOf(h, k) = UsersOf(f, k)
BY DEF SameKeysAndUsers, IsTable, IsMap, UsersOf

(* Steps that change no pins keep the counts.                              *)
LEMMA SamePinsStep ==
    ASSUME TypeOK, CountsOK,
           SameKeysAndUsers(schedules, schedules'),
           SameKeysAndUsers(neighborhoods, neighborhoods'),
           \A h \in Callers : KeepsPins(h)
    PROVE  TablesOK'
<1>1. IsTable(schedules, Origins) /\ IsTable(neighborhoods, Groups)
  BY DEF TypeOK
<1>2. IsTable(schedules', Origins)
      /\ \A k : UsersOf(schedules', k) = UsersOf(schedules, k)
  BY <1>1, KeysAndUsers
<1>3. IsTable(neighborhoods', Groups)
      /\ \A k : UsersOf(neighborhoods', k) = UsersOf(neighborhoods, k)
  BY <1>1, KeysAndUsers
<1>4. CountsOK'
  BY <1>2, <1>3, SameUsers
<1> QED
  BY <1>2, <1>3, <1>4 DEF TablesOK

(* Setting a delay keeps keys and users.                                   *)
LEMMA SetCrawlDelayStep ==
    ASSUME TypeOK, CountsOK, NEW g \in Callers, SetCrawlDelay(g)
    PROVE  /\ TablesOK' /\ at[g] \in DOMAIN schedules
           /\ DOMAIN schedules' = DOMAIN schedules
           /\ schedules'[at[g]].delay = policy[g].delay
           /\ \A o \in DOMAIN schedules :
                /\ schedules'[o].start = schedules[o].start
                /\ o # at[g] => schedules'[o] = schedules[o]
<1> DEFINE o == at[g]
<1>0. /\ IsTable(schedules, Origins) /\ IsTable(neighborhoods, Groups)
      /\ schedules \in [DOMAIN schedules -> Entry]
      /\ policy[g] \in Policy /\ policy[g].delay \in Age
  BY DEF TypeOK, IsTable, IsMap, Policy
<1>1. /\ schedules' = [schedules EXCEPT ![o].delay = policy[g].delay]
      /\ neighborhoods' = neighborhoods
  BY DEF SetCrawlDelay
<1>2. \A h \in Callers : KeepsPins(h)
  BY DEF SetCrawlDelay, callerVars, Goto, KeepsPins, Pins, HopPins, TypeOK
<1>3. o \in DOMAIN schedules
  <2>1. o \in Pins(g)
    BY DEF SetCrawlDelay, Pins
  <2> QED BY <2>1, PinnedIsThere
<1> HIDE DEF o
<1>4. /\ DOMAIN schedules' = DOMAIN schedules
      /\ schedules'[o] = [schedules[o] EXCEPT !.delay = policy[g].delay]
      /\ \A k \in DOMAIN schedules : k # o => schedules'[k] = schedules[k]
  BY <1>0, <1>1, <1>3
<1>5. /\ schedules'[o].delay = policy[g].delay /\ schedules'[o] \in Entry
      /\ schedules'[o].start = schedules[o].start
      /\ schedules'[o].users = schedules[o].users
  BY <1>0, <1>3, <1>4 DEF Entry
<1>6. SameKeysAndUsers(schedules, schedules')
  <2>1. schedules' \in [DOMAIN schedules -> Entry]
    BY <1>0, <1>1, <1>3, <1>4, <1>5
  <2> QED BY <2>1, <1>4, <1>5, ZenonT(30) DEF SameKeysAndUsers
<1>7. SameKeysAndUsers(neighborhoods, neighborhoods')
  BY <1>0, <1>1 DEF SameKeysAndUsers, IsTable, IsMap
<1>8. TablesOK'
  BY <1>2, <1>6, <1>7, SamePinsStep
<1> QED
  BY <1>3, <1>4, <1>5, <1>8, ZenonT(30) DEF o

(* A table h in which k starts now.                                        *)
StartEffect(f, h, k) ==
    /\ k \in DOMAIN f /\ DOMAIN h = DOMAIN f
    /\ h[k].start = 0 /\ h[k].delay = f[k].delay
    /\ \A j \in DOMAIN f : j # k => h[j] = f[j]

(* What the start of a request does to one entry.                          *)
LEMMA Restarted ==
    ASSUME NEW Keys, NEW f, IsTable(f, Keys), NEW k \in DOMAIN f
    PROVE  /\ StartEffect(f, [f EXCEPT ![k].start = 0], k)
           /\ SameKeysAndUsers(f, [f EXCEPT ![k].start = 0])
<1> DEFINE h == [f EXCEPT ![k].start = 0]
<1>1. f \in [DOMAIN f -> Entry] /\ 0 \in Age
  BY ConfigAssumption DEF IsTable, IsMap, Age
<1>2. /\ DOMAIN h = DOMAIN f
      /\ h[k] = [f[k] EXCEPT !.start = 0]
      /\ \A j \in DOMAIN f : j # k => h[j] = f[j]
  BY <1>1
<1>3. h[k] \in Entry /\ h[k].start = 0 /\ h[k].delay = f[k].delay
      /\ h[k].users = f[k].users
  BY <1>1, <1>2 DEF Entry
<1>4. h \in [DOMAIN f -> Entry]
  BY <1>1, <1>2, <1>3
<1> QED
  BY <1>2, <1>3, <1>4 DEF StartEffect, SameKeysAndUsers

(* The start of a request keeps keys and users.                            *)
LEMMA StartStep ==
    ASSUME TypeOK, CountsOK, NEW g \in Callers, Start(g)
    PROVE  /\ TablesOK'
           /\ StartEffect(schedules, schedules', url[g])
           /\ IF Grouped(url[g])
              THEN StartEffect(neighborhoods, neighborhoods', Neighborhood[url[g]])
              ELSE neighborhoods' = neighborhoods
<1> DEFINE o == url[g]  n == Neighborhood[o]
<1>0. /\ IsTable(schedules, Origins) /\ IsTable(neighborhoods, Groups)
      /\ o \in Origins
  BY DEF TypeOK
<1>1. /\ schedules' = [schedules EXCEPT ![o].start = 0]
      /\ Grouped(o) => neighborhoods' = [neighborhoods EXCEPT ![n].start = 0]
      /\ ~Grouped(o) => neighborhoods' = neighborhoods
  BY DEF Start
<1>2. \A h \in Callers : KeepsPins(h)
  BY DEF Start, callerVars, Goto, KeepsPins, Pins, HopPins, TypeOK
<1>3. o \in HopPins(g) /\ InGroup(g, n)
  BY DEF Start, HopPins, InGroup
<1> HIDE DEF o
<1>4. o \in DOMAIN schedules
  BY <1>3, PinnedIsThere, ZenonT(30)
<1>5. Grouped(o) => n \in DOMAIN neighborhoods
  <2>1. Grouped(o) => n \in Groups
    BY <1>0, GroupOf
  <2> QED BY <1>3, <2>1, PinnedIsThere, ZenonT(30)
<1>6. StartEffect(schedules, schedules', o) /\ SameKeysAndUsers(schedules, schedules')
  BY <1>0, <1>1, <1>4, Restarted, ZenonT(30)
<1>7. CASE Grouped(o)
  <2>1. /\ StartEffect(neighborhoods, neighborhoods', n)
        /\ SameKeysAndUsers(neighborhoods, neighborhoods')
    BY <1>0, <1>1, <1>5, <1>7, Restarted
  <2> QED BY <1>2, <1>6, <1>7, <2>1, SamePinsStep DEF o
<1>8. CASE ~Grouped(o)
  <2>1. SameKeysAndUsers(neighborhoods, neighborhoods')
    BY <1>0, <1>1, <1>8 DEF SameKeysAndUsers, IsTable, IsMap
  <2>2. TablesOK'
    BY <1>2, <1>6, <2>1, SamePinsStep
  <2> QED BY <1>1, <1>6, <1>8, <2>2 DEF o
<1> QED BY <1>7, <1>8

(* A table h that is one tick older than f.                                *)
TickEffect(f, h) ==
    /\ DOMAIN h = DOMAIN f
    /\ \A k \in DOMAIN f : h[k].start = Older(f[k].start) /\ h[k].delay = f[k].delay

(* Ages stay ages.                                                         *)
LEMMA OlderAge == \A a \in Age : Older(a) \in Age /\ a <= Older(a)
BY ConfigAssumption DEF Older, Age

(* What the passing of time does to a table.                               *)
LEMMA AgedEffect ==
    ASSUME NEW Keys, NEW f, IsTable(f, Keys)
    PROVE  TickEffect(f, Aged(f)) /\ SameKeysAndUsers(f, Aged(f))
<1>1. f \in [DOMAIN f -> Entry]
  BY DEF IsTable, IsMap
<1>2. /\ DOMAIN Aged(f) = DOMAIN f
      /\ \A k \in DOMAIN f : Aged(f)[k] = [f[k] EXCEPT !.start = Older(f[k].start),
                                               !.access = Older(f[k].access)]
  BY DEF Aged
<1>3. ASSUME NEW x \in Entry
      PROVE  LET y == [x EXCEPT !.start = Older(x.start), !.access = Older(x.access)]
             IN  /\ y \in Entry /\ y.start = Older(x.start)
                 /\ y.delay = x.delay /\ y.users = x.users
  <2>1. x.start \in Age /\ x.access \in Age
    BY DEF Entry
  <2>2. Older(x.start) \in Age /\ Older(x.access) \in Age
    BY <2>1, OlderAge
  <2> QED BY <2>2, ZenonT(30) DEF Entry
<1>4. Aged(f) \in [DOMAIN f -> Entry]
  <2>1. \A k \in DOMAIN f : Aged(f)[k] \in Entry
    BY <1>1, <1>2, <1>3, ZenonT(30)
  <2>2. Aged(f) = [k \in DOMAIN f |-> Aged(f)[k]]
    BY DEF Aged
  <2> QED BY <2>1, <2>2
<1> QED
  BY <1>1, <1>2, <1>3, <1>4, ZenonT(30) DEF TickEffect, SameKeysAndUsers

(* The passing of time keeps keys and users.                               *)
LEMMA TickStep ==
    ASSUME TypeOK, CountsOK, Tick
    PROVE  /\ TablesOK' /\ TickEffect(schedules, schedules')
           /\ TickEffect(neighborhoods, neighborhoods')
<1>1. IsTable(schedules, Origins) /\ IsTable(neighborhoods, Groups)
  BY DEF TypeOK
<1>2. /\ TickEffect(schedules, schedules') /\ SameKeysAndUsers(schedules, schedules')
      /\ TickEffect(neighborhoods, neighborhoods')
      /\ SameKeysAndUsers(neighborhoods, neighborhoods')
  BY <1>1, AgedEffect, ZenonT(30) DEF Tick
<1>3. \A h \in Callers : KeepsPins(h)
  BY ZenonT(30) DEF Tick, callerVars, KeepsPins, Pins, HopPins
<1> QED
  BY <1>2, <1>3, SamePinsStep

(* Every step keeps the types of the tables and the counts.                *)
LEMMA TablesStep ==
    ASSUME TypeOK, CountsOK, [Next]_vars
    PROVE  /\ TablesOK'
           /\ Calm \/ Tick \/ \E g \in Callers : SetCrawlDelay(g) \/ Start(g)
<1>1. CASE UNCHANGED vars
  <2>1. UNCHANGED <<schedules, neighborhoods, sinceOrigin, sinceGroup, pc, at, url,
                   leaving>>
    BY <1>1 DEF vars, schedulerVars, callerVars, wireVars
  <2>2. \A h \in Callers : KeepsPins(h)
    BY <2>1 DEF KeepsPins, Pins, HopPins
  <2> QED BY <2>1, <2>2, QuietStep
<1>2. CASE Tick
  BY <1>2, TickStep
<1>3. ASSUME NEW g \in Callers, Step(g) \/ CancelJoin(g)
      PROVE  TablesOK' /\ (Calm \/ SetCrawlDelay(g) \/ Start(g))
  <2> DEFINE Quiet == /\ UNCHANGED <<schedules, neighborhoods, sinceOrigin, sinceGroup>>
                      /\ \A h \in Callers : KeepsPins(h)
  <2>q. ASSUME Quiet PROVE TablesOK' /\ Calm
    BY <2>q, QuietStep
  <2>1. ASSUME NEW o \in Origins, Begin(g, o) PROVE TablesOK' /\ Calm
    BY <2>1, BeginStep
  <2>2. ASSUME NEW o \in Origins, BeginFails(g, o) PROVE TablesOK' /\ Calm
    BY <2>2, BeginFailsStep
  <2>3. CASE LookupHit(g)
    BY <2>3, <2>q, ZenonT(30)
       DEF LookupHit, schedulerVars, wireVars, Goto, KeepsPins, Pins, HopPins, TypeOK
  <2>4. CASE LookupJoin(g)
    BY <2>4, <2>q
       DEF LookupJoin, schedulerVars, callerVars, wireVars, Goto, Pins,
                      KeepsPins, HopPins, TypeOK
  <2>5. CASE LookupLead(g)
    BY <2>5, <2>q, ZenonT(30)
       DEF LookupLead, schedulerVars, wireVars, Goto, Pins,
                      KeepsPins, HopPins, TypeOK
  <2>6. CASE SetCrawlDelay(g)
    BY <2>6, SetCrawlDelayStep
  <2>7. CASE Publish(g)
    <3>1. UNCHANGED <<schedules, neighborhoods, sinceOrigin, sinceGroup, at, url,
                     leaving>>
      BY <2>7, ZenonT(30) DEF Publish, schedulerVars, wireVars
    <3>2. \A h \in Callers : \/ pc'[h] = pc[h]
                             \/ pc[h] \in {"publish", "join"} /\ pc'[h] = "judge"
      BY <2>7, ZenonT(30) DEF Publish, Joined
    <3> QED BY <3>1, <3>2, <2>q, ZenonT(30) DEF KeepsPins, Pins, HopPins
  <2>8. CASE CloseFailed(g)
    <3>1. UNCHANGED <<schedules, neighborhoods, sinceOrigin, sinceGroup, at, url,
                     leaving>>
      BY <2>8 DEF CloseFailed, schedulerVars, wireVars, callerVars
    <3>2. \A h \in Callers : \/ pc'[h] = pc[h]
                             \/ /\ pc[h] \in {"failed", "join"}
                                /\ pc'[h] \in {"forget", "refused"}
      BY <2>8 DEF CloseFailed, Joined
    <3> QED BY <3>1, <3>2, <2>q DEF KeepsPins, Pins, HopPins
  <2>9. CASE Forget(g)
    BY <2>9, <2>q
       DEF Forget, schedulerVars, callerVars, wireVars, Goto, KeepsPins, Pins, HopPins,
                      TypeOK
  <2>10. CASE Refused(g)
    BY <2>10, ReturnStep, ZenonT(30) DEF Refused
  <2>11. CASE Disallowed(g)
    BY <2>11, ReturnStep DEF Disallowed
  <2>12. CASE Allowed(g)
    BY <2>12, <2>q, ZenonT(30) DEF Allowed, schedulerVars, wireVars, Goto, Pins,
                       KeepsPins, HopPins, TypeOK
  <2>13. ASSUME leaving[g] = 0, AcquireTarget(g) PROVE TablesOK' /\ Calm
    BY <2>13, AcquireStep
  <2>14. CASE AcquireTargetFails(g)
    BY <2>14, AcquireFailsStep
  <2>15. CASE Start(g)
    BY <2>15, StartStep
  <2>16. ASSUME leaving[g] = 0, RequestFails(g) PROVE TablesOK' /\ Calm
    <3>1. PICK l \in {"failed", "refused"} : Goto(g, l)
      BY <2>16 DEF RequestFails, Broken
    <3>2. /\ pc[g] \in {"waiting", "sent"} /\ ReleaseOrigin(g)
          /\ at' = at /\ url' = url /\ UNCHANGED <<sinceOrigin, sinceGroup>>
      BY <2>16 DEF RequestFails, callerVars, wireVars
    <3> QED BY <2>16, <3>1, <3>2, ReleaseStep, ZenonT(30)
  <2>17. ASSUME leaving[g] = 0, PageReply(g) PROVE TablesOK' /\ Calm
    <3>1. /\ pc[g] \in {"waiting", "sent"} /\ ReleaseOrigin(g) /\ Goto(g, "refused")
          /\ at' = at /\ url' = url /\ UNCHANGED <<sinceOrigin, sinceGroup>>
      BY <2>17 DEF PageReply, callerVars, wireVars
    <3> QED BY <2>17, <3>1, ReleaseStep
  <2>18. ASSUME leaving[g] = 0, PolicyReply(g) PROVE TablesOK' /\ Calm
    <3>1. /\ pc[g] \in {"waiting", "sent"} /\ ReleaseOrigin(g) /\ Goto(g, "learned")
          /\ at' = at /\ url' = url /\ UNCHANGED <<sinceOrigin, sinceGroup>>
      BY <2>18 DEF PolicyReply, wireVars
    <3> QED BY <2>18, <3>1, ReleaseStep
  <2>19. ASSUME NEW o \in Origins, leaving[g] = 0, RobotsRedirect(g, o)
         PROVE  TablesOK' /\ Calm
    <3>1. /\ pc[g] \in {"waiting", "sent"} /\ ReleaseOrigin(g) /\ Goto(g, "hop")
          /\ at' = at /\ \A h \in Callers \ {g} : url'[h] = url[h]
          /\ UNCHANGED <<sinceOrigin, sinceGroup>>
      BY <2>19 DEF RobotsRedirect, wireVars, TypeOK
    <3> QED BY <2>19, <3>1, ReleaseStep, ZenonT(30)
  <2>20. CASE CancelJoin(g)
    BY <2>20, <2>q
       DEF CancelJoin, schedulerVars, callerVars, wireVars, Goto, Pins,
                       KeepsPins, HopPins, TypeOK
  <2>21. CASE ReleaseNeighborhood(g)
    BY <2>21, ReleaseGroupStep
  <2> QED
    BY <1>3, <2>1, <2>2, <2>3, <2>4, <2>5, <2>6, <2>7, <2>8, <2>9, <2>10,
       <2>11, <2>12, <2>13, <2>14, <2>15, <2>16, <2>17, <2>18, <2>19, <2>20,
       <2>21, ZenonT(30) DEF Step, Proceed
<1> QED
  BY <1>1, <1>2, <1>3 DEF Next

-----------------------------------------------------------------------------
(* Types of the other variables                                            *)

CallersTyped ==
    /\ calls \in 0..Calls
    /\ pc \in [Callers -> Labels]
    /\ at \in [Callers -> Origins] /\ url \in [Callers -> Origins]
    /\ kind \in [Callers -> {"robots", "page"}]
    /\ hops \in [Callers -> 0..MaxRedirects]
    /\ policy \in [Callers -> Policy]
    /\ leaving \in [Callers -> Groups \cup {0}]

FlightsTyped ==
    DOMAIN inflight \subseteq Origins /\ inflight \in [DOMAIN inflight -> Flight]

CacheTyped == IsMap(cache, Origins, Cached, CacheCapacity)

WireTyped ==
    /\ site \in Sites
    /\ sinceOrigin \in [Origins -> Age] /\ sinceGroup \in [Groups -> Age]

(* Dropping expired policies leaves a cache.                               *)
LEMMA UnexpiredCache ==
    ASSUME TypeOK
    PROVE  /\ IsMap(Unexpired, Origins, Cached, CacheCapacity)
           /\ DOMAIN Unexpired \subseteq DOMAIN cache
           /\ IsFiniteSet(DOMAIN Unexpired)
           /\ \A o \in DOMAIN Unexpired : Unexpired[o] = cache[o]
<1>1. /\ DOMAIN Unexpired = {o \in DOMAIN cache : cache[o].left > 0}
      /\ Unexpired = [o \in DOMAIN Unexpired |-> cache[o]]
  BY DEF Unexpired, Restrict
<1> HIDE DEF Unexpired
<1>2. DOMAIN cache \subseteq Origins /\ cache \in [DOMAIN cache -> Cached]
      /\ Cardinality(DOMAIN cache) <= CacheCapacity
  BY DEF TypeOK, IsMap
<1>3. IsFiniteSet(DOMAIN cache)
  BY <1>2, KeysFinite, FS_Subset
<1>4. /\ IsFiniteSet(DOMAIN Unexpired)
      /\ Cardinality(DOMAIN Unexpired) <= Cardinality(DOMAIN cache)
  BY <1>1, <1>3, FS_Subset
<1>5. Cardinality(DOMAIN Unexpired) <= CacheCapacity
  BY <1>2, <1>3, <1>4, FS_CardinalityType, ConfigAssumption
<1>6. Unexpired \in [DOMAIN Unexpired -> Cached]
  BY <1>1, <1>2
<1> QED
  BY <1>1, <1>2, <1>4, <1>5, <1>6 DEF IsMap

(* A policy that is used stays a cached policy.                            *)
LEMMA CachedTouched ==
    ASSUME NEW x \in Cached
    PROVE  /\ [x EXCEPT !.access = 0] \in Cached
           /\ [x EXCEPT !.access = 0].policy = x.policy
BY ConfigAssumption DEF Cached, Age

(* A hit leaves a cache.                                                   *)
LEMMA HitCache ==
    ASSUME TypeOK, NEW g \in Callers, LookupHit(g)
    PROVE  /\ CacheTyped'
           /\ at[g] \in DOMAIN cache
           /\ DOMAIN cache' \subseteq DOMAIN cache
           /\ \A o \in DOMAIN cache' : cache'[o].policy = cache[o].policy
<1>1. /\ cache' = [Unexpired EXCEPT ![at[g]].access = 0]
      /\ at[g] \in DOMAIN Unexpired
  BY DEF LookupHit
<1>2. /\ IsMap(Unexpired, Origins, Cached, CacheCapacity)
      /\ DOMAIN Unexpired \subseteq DOMAIN cache
      /\ \A o \in DOMAIN Unexpired : Unexpired[o] = cache[o]
      /\ Unexpired \in [DOMAIN Unexpired -> Cached]
  BY UnexpiredCache DEF IsMap
<1>3. /\ DOMAIN cache' = DOMAIN Unexpired
      /\ cache'[at[g]] = [Unexpired[at[g]] EXCEPT !.access = 0]
      /\ \A o \in DOMAIN Unexpired : o # at[g] => cache'[o] = Unexpired[o]
  BY <1>1, <1>2
<1>4. cache'[at[g]] \in Cached /\ cache'[at[g]].policy = Unexpired[at[g]].policy
  BY <1>1, <1>2, <1>3, CachedTouched, ZenonT(30)
<1>5. cache' \in [DOMAIN cache' -> Cached]
  BY <1>1, <1>2, <1>3, <1>4, ZenonT(30)
<1> QED
  BY <1>1, <1>2, <1>3, <1>4, <1>5 DEF CacheTyped, IsMap

(* Publishing a policy leaves a cache within its capacity.                 *)
LEMMA PublishCache ==
    ASSUME TypeOK, NEW g \in Callers, Publish(g)
    PROVE  /\ CacheTyped'
           /\ DOMAIN cache' \subseteq DOMAIN cache \cup {at[g]}
           /\ \A o \in DOMAIN cache' :
                cache'[o].policy = IF o = at[g] THEN policy[g] ELSE cache[o].policy
<1> DEFINE o == at[g]
           D == DOMAIN Unexpired
           full == Cardinality(D) >= CacheCapacity
           new == [policy |-> policy[g], left |-> Lifetime, access |-> 0]
<1>1. PICK victim :
        /\ full => victim \in D
        /\ ~full => victim = 0
        /\ cache' = [k \in (D \ {victim}) \cup {o} |-> IF k = o THEN new ELSE cache[k]]
  <2>1. PICK victim \in IF full
                        THEN {k \in D : \A j \in D : cache[k].access >= cache[j].access}
                        ELSE {0} :
          cache' = [k \in (D \ {victim}) \cup {o} |-> IF k = o THEN new ELSE cache[k]]
    BY ZenonT(30) DEF Publish
  <2> QED BY <2>1, ZenonT(30)
<1>2. /\ D \subseteq DOMAIN cache /\ IsFiniteSet(D) /\ D \subseteq Origins
      /\ Cardinality(D) <= CacheCapacity
      /\ \A k \in D : cache[k] \in Cached
      /\ o \in Origins /\ policy[g] \in Policy
  <2>1. \A k \in D : Unexpired[k] \in Cached
    BY UnexpiredCache, ZenonT(30) DEF IsMap
  <2> QED BY <2>1, UnexpiredCache DEF TypeOK, IsMap
<1>3. new \in Cached
  BY <1>2, ConfigAssumption DEF Cached, Age
<1> HIDE DEF D, o, new
<1>4. Cardinality((D \ {victim}) \cup {o}) <= CacheCapacity
  <2> DEFINE R == D \ {victim}
  <2>1. /\ IsFiniteSet(R) /\ Cardinality(R) \in Nat /\ Cardinality(D) \in Nat
        /\ CacheCapacity \in Nat
    BY <1>2, FS_Subset, FS_CardinalityType, ConfigAssumption
  <2>2. Cardinality(R) = IF victim \in D THEN Cardinality(D) - 1 ELSE Cardinality(D)
    BY <1>2, FS_RemoveElement, ZenonT(30)
  <2>3. Cardinality(R) < CacheCapacity
    BY <1>1, <1>2, <2>1, <2>2
  <2>4. Cardinality(R \cup {o}) = IF o \in R THEN Cardinality(R) ELSE Cardinality(R) + 1
    BY <2>1, FS_AddElement, ZenonT(30)
  <2> HIDE DEF R
  <2>5. Cardinality(R \cup {o}) <= CacheCapacity
    BY <2>1, <2>3, <2>4
  <2> QED BY <2>5, ZenonT(30) DEF R
<1>5. /\ DOMAIN cache' = (D \ {victim}) \cup {o}
      /\ \A k \in DOMAIN cache' : cache'[k] = IF k = o THEN new ELSE cache[k]
  BY <1>1
<1>6. cache' \in [DOMAIN cache' -> Cached]
  BY <1>1, <1>2, <1>3
<1>7. CacheTyped'
  BY <1>2, <1>4, <1>5, <1>6 DEF CacheTyped, IsMap
<1> QED
  BY <1>2, <1>5, <1>7 DEF o, new

(* The passing of time leaves a cache.                                     *)
LEMMA TickCache ==
    ASSUME TypeOK, Tick
    PROVE  /\ CacheTyped' /\ DOMAIN cache' = DOMAIN cache
           /\ \A o \in DOMAIN cache : cache'[o].policy = cache[o].policy
<1>1. ASSUME NEW x \in Cached
      PROVE  LET y == [x EXCEPT !.left = IF x.left > 0 THEN x.left - 1 ELSE 0,
                                !.access = Older(x.access)]
             IN  y \in Cached /\ y.policy = x.policy
  <2>1. x.left \in Age /\ x.access \in Age /\ x.policy \in Policy
    BY DEF Cached
  <2>2. /\ (IF x.left > 0 THEN x.left - 1 ELSE 0) \in Age
        /\ Older(x.access) \in Age
    BY <2>1, OlderAge, ConfigAssumption DEF Age
  <2> QED BY <2>2, ZenonT(30) DEF Cached
<1>2. DOMAIN cache \subseteq Origins /\ cache \in [DOMAIN cache -> Cached]
      /\ Cardinality(DOMAIN cache) <= CacheCapacity
  BY DEF TypeOK, IsMap
<1>3. /\ DOMAIN cache' = DOMAIN cache
      /\ cache' = [o \in DOMAIN cache |->
                     [cache[o] EXCEPT !.left = IF cache[o].left > 0
                                               THEN cache[o].left - 1 ELSE 0,
                                      !.access = Older(cache[o].access)]]
  BY ZenonT(30) DEF Tick
<1>4. \A o \in DOMAIN cache : cache'[o] \in Cached /\ cache'[o].policy = cache[o].policy
  BY <1>1, <1>2, <1>3, ZenonT(30)
<1>5. cache' = [o \in DOMAIN cache |-> cache'[o]]
  BY <1>3, ZenonT(30)
<1> QED
  BY <1>2, <1>3, <1>4, <1>5, ZenonT(30) DEF CacheTyped, IsMap

(* Policies enter the cache only when they are published.                  *)
LEMMA CacheStep ==
    ASSUME TypeOK, [Next]_vars
    PROVE  /\ CacheTyped'
           /\ \A o \in DOMAIN cache' :
                \/ o \in DOMAIN cache /\ cache'[o].policy = cache[o].policy
                \/ \E g \in Callers : /\ Publish(g) /\ o = at[g]
                                      /\ cache'[o].policy = policy[g]
<1>1. CacheTyped
  BY ZenonT(30) DEF TypeOK, CacheTyped
<1>2. CASE cache' = cache
  BY <1>1, <1>2, ZenonT(30) DEF CacheTyped
<1>3. CASE cache' = Unexpired
  BY <1>3, UnexpiredCache DEF CacheTyped
<1>4. CASE Tick
  BY <1>4, TickCache
<1>5. ASSUME NEW g \in Callers, LookupHit(g)
      PROVE  /\ CacheTyped'
             /\ \A o \in DOMAIN cache' :
                  o \in DOMAIN cache /\ cache'[o].policy = cache[o].policy
  BY <1>5, HitCache
<1>6. ASSUME NEW g \in Callers, Publish(g)
      PROVE  /\ CacheTyped'
             /\ \A o \in DOMAIN cache' :
                \/ o \in DOMAIN cache /\ cache'[o].policy = cache[o].policy
                \/ o = at[g] /\ cache'[o].policy = policy[g]
  BY <1>6, PublishCache
<1>7. \/ cache' = cache \/ cache' = Unexpired \/ Tick
      \/ \E g \in Callers : LookupHit(g) \/ Publish(g)
  <2>1. CASE UNCHANGED vars
    BY <2>1, ZenonT(30) DEF vars, checkerVars
  <2>2. ASSUME NEW g \in Callers, Step(g) \/ CancelJoin(g), ~LookupHit(g), ~Publish(g)
        PROVE  cache' = cache \/ cache' = Unexpired
    BY <2>2 DEF Step, Proceed, ReleaseNeighborhood, CancelJoin, Begin,
                BeginFails, LookupJoin, LookupLead,
                SetCrawlDelay, CloseFailed, Forget, Refused, Disallowed, Return,
                Allowed, AcquireTarget, AcquireTargetFails, Start, RequestFails,
                PageReply, PolicyReply, RobotsRedirect, checkerVars
  <2> QED BY <2>1, <2>2 DEF Next
<1> QED
  BY <1>2, <1>3, <1>4, <1>5, <1>6, <1>7

(* Every step keeps the types of the callers.                              *)
LEMMA CallersStep ==
    ASSUME TypeOK, [Next]_vars
    PROVE  CallersTyped'
<1>0. /\ CallersTyped
      /\ \A g \in Callers : site[at[g]].policy \in Policy
      /\ \A o \in DOMAIN cache : cache[o].policy \in Policy
  <2>1. site \in [Origins -> [policy : Policy, moved : BOOLEAN]]
    BY ConfigAssumption, ZenonT(30) DEF TypeOK
  <2> QED BY <2>1 DEF TypeOK, CallersTyped, IsMap, Cached
<1>1. CASE UNCHANGED vars
  BY <1>0, <1>1 DEF vars, callerVars, CallersTyped
<1>2. CASE Tick
  BY <1>0, <1>2, ZenonT(30) DEF Tick, callerVars, CallersTyped
<1>3. ASSUME NEW g \in Callers, Step(g) \/ CancelJoin(g)
      PROVE  CallersTyped'
  <2> USE <1>0 DEF CallersTyped, callerVars, Goto, Labels
  <2>1. ASSUME NEW o \in Origins, Begin(g, o) PROVE CallersTyped'
    BY <2>1, ConfigAssumption DEF Begin
  <2>2. ASSUME NEW o \in Origins, BeginFails(g, o) PROVE CallersTyped'
    BY <2>2, ConfigAssumption DEF BeginFails
  <2>3. CASE LookupHit(g)
    <3>1. cache[at[g]].policy \in Policy
      BY <2>3, HitCache
    <3> QED BY <2>3, <3>1, ZenonT(30) DEF LookupHit
  <2>4. CASE LookupJoin(g)
    BY <2>4, ZenonT(30) DEF LookupJoin
  <2>5. CASE LookupLead(g)
    BY <2>5, ConfigAssumption DEF LookupLead
  <2>6. CASE SetCrawlDelay(g)
    BY <2>6, ZenonT(30) DEF SetCrawlDelay
  <2>7. CASE Publish(g)
    BY <2>7 DEF Publish
  <2>8. CASE CloseFailed(g)
    BY <2>8 DEF CloseFailed
  <2>9. CASE Forget(g)
    BY <2>9, ZenonT(30) DEF Forget
  <2>10. CASE Refused(g) \/ Disallowed(g)
    <3>1. NoPolicy \in Policy /\ 1 \in Origins /\ 0 \in 0..MaxRedirects
      BY ConfigAssumption DEF NoPolicy, Policy, Age, Origins
    <3>2. Return(g)
      BY <2>10, ZenonT(30) DEF Refused, Disallowed
    <3>3. /\ calls' = calls /\ pc' = [pc EXCEPT ![g] = "idle"]
          /\ at' = [at EXCEPT ![g] = 1] /\ url' = [url EXCEPT ![g] = 1]
          /\ kind' = [kind EXCEPT ![g] = "page"] /\ hops' = [hops EXCEPT ![g] = 0]
          /\ policy' = [policy EXCEPT ![g] = NoPolicy] /\ leaving' = leaving
      BY <3>2 DEF Return
    <3> QED BY <3>1, <3>3, ZenonT(30)
  <2>12. CASE Allowed(g)
    BY <2>12, ZenonT(30) DEF Allowed
  <2>13. CASE AcquireTarget(g)
    BY <2>13 DEF AcquireTarget
  <2>14. CASE AcquireTargetFails(g)
    BY <2>14, ZenonT(30) DEF AcquireTargetFails, Broken
  <2>15. CASE Start(g)
    BY <2>15 DEF Start
  <2>r. Neighborhood[url[g]] \in Groups \cup {0}
    BY DEF Groups
  <2>16. CASE RequestFails(g)
    BY <2>16, <2>r, ZenonT(30) DEF RequestFails, ReleaseOrigin, Broken
  <2>17. CASE PageReply(g)
    BY <2>17, <2>r, ZenonT(30) DEF PageReply, ReleaseOrigin
  <2>18. CASE PolicyReply(g)
    BY <2>18, <2>r, ZenonT(30) DEF PolicyReply, ReleaseOrigin
  <2>19. ASSUME NEW o \in Origins, RobotsRedirect(g, o) PROVE CallersTyped'
    BY <2>19, <2>r, ConfigAssumption DEF RobotsRedirect, ReleaseOrigin
  <2>21. CASE ReleaseNeighborhood(g)
    BY <2>21, ZenonT(30) DEF ReleaseNeighborhood
  <2>20. CASE CancelJoin(g)
    BY <2>20 DEF CancelJoin
  <2> QED
    BY <1>3, <2>1, <2>2, <2>3, <2>4, <2>5, <2>6, <2>7, <2>8, <2>9, <2>10, <2>12,
       <2>13, <2>14, <2>15, <2>16, <2>17, <2>18, <2>19, <2>20, <2>21, ZenonT(30)
       DEF Step, Proceed
<1> QED
  BY <1>1, <1>2, <1>3 DEF Next

(* Every step keeps the types of what sites see, and what they serve.      *)
LEMMA WireStep ==
    ASSUME TypeOK, [Next]_vars
    PROVE  WireTyped' /\ site' = site
<1>1. CASE UNCHANGED wireVars
  BY <1>1 DEF wireVars, TypeOK, WireTyped
<1>2. CASE Tick
  <2>1. \A o \in Origins : Older(sinceOrigin[o]) \in Age
    BY OlderAge DEF TypeOK
  <2>2. \A n \in Groups : Older(sinceGroup[n]) \in Age
    BY OlderAge DEF TypeOK
  <2> QED BY <1>2, <2>1, <2>2, ZenonT(30) DEF Tick, TypeOK, WireTyped
<1>3. ASSUME NEW g \in Callers, Start(g) PROVE WireTyped' /\ site' = site
  <2>1. 0 \in Age
    BY ConfigAssumption DEF Age
  <2> QED BY <1>3, <2>1 DEF Start, TypeOK, WireTyped
<1>4. UNCHANGED wireVars \/ Tick \/ \E g \in Callers : Start(g)
  BY ZenonT(30)
     DEF Next, Step, Proceed, ReleaseNeighborhood, CancelJoin, Begin, BeginFails, LookupHit, LookupJoin, LookupLead,
         SetCrawlDelay, Publish, CloseFailed, Forget, Refused, Disallowed, Return,
         Allowed, AcquireTarget, AcquireTargetFails, RequestFails,
         PageReply, PolicyReply, RobotsRedirect, vars
<1> QED
  BY <1>1, <1>2, <1>3, <1>4

(* Every step keeps the type of the fetches in flight.                     *)
LEMMA FlightsTypedStep ==
    ASSUME TypeOK, [Next]_vars
    PROVE  FlightsTyped'
<1>1. FlightsTyped
  BY DEF TypeOK, FlightsTyped
<1>2. ASSUME NEW g \in Callers, LookupLead(g) PROVE FlightsTyped'
  <2>1. at[g] \in Origins
    BY ZenonT(30) DEF TypeOK
  <2> QED BY <1>1, <1>2, <2>1 DEF LookupLead, Announced, FlightsTyped, Flight
<1>3. ASSUME NEW g \in Callers, Publish(g) \/ Forget(g) PROVE FlightsTyped'
  BY <1>1, <1>3 DEF Publish, Forget, Restrict, FlightsTyped
<1>4. ASSUME NEW g \in Callers, CloseFailed(g) PROVE FlightsTyped'
  BY <1>1, <1>4, ZenonT(30) DEF CloseFailed, FlightsTyped, Flight
<1>5. \/ inflight' = inflight
      \/ \E g \in Callers : LookupLead(g) \/ Publish(g) \/ CloseFailed(g) \/ Forget(g)
  BY ZenonT(30)
     DEF Next, Step, Proceed, ReleaseNeighborhood, CancelJoin, Begin, BeginFails, LookupHit, LookupJoin, Tick, Start,
         SetCrawlDelay, Refused, Disallowed, Return,
         Allowed, AcquireTarget, AcquireTargetFails, RequestFails,
         PageReply, PolicyReply, RobotsRedirect, vars, checkerVars
<1> QED
  BY <1>1, <1>2, <1>3, <1>4, <1>5 DEF FlightsTyped

(* Every step keeps the types.                                             *)
LEMMA TypeStep ==
    ASSUME TypeOK, CountsOK, [Next]_vars
    PROVE  TypeOK'
BY TablesStep, CacheStep, CallersStep, WireStep, FlightsTypedStep
   DEF TypeOK, TablesOK, CacheTyped, CallersTyped, WireTyped, FlightsTyped
=============================================================================
