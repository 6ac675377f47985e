--------------------------- MODULE RegistryProofs ---------------------------
(*****************************************************************************)
(* Proofs about the public registry.  What it shows of an origin does not    *)
(* depend on when history is purged, for any origins, times and results      *)
(* and any order in which they are recorded (ParticipationHistory).  Its     *)
(* snapshots stay whole, for any names, files and versions and any number    *)
(* of failures and kills (RegistryExport).                                   *)
(*****************************************************************************)
EXTENDS ParticipationHistory, RegistryExport, FiniteSetTheorems, TLAPS

(* The time each prover may take for a leaf that names none, in seconds.   *)
USE SMTT(30), ZenonT(30)

-----------------------------------------------------------------------------
(* Participation history                                                   *)

(* Times are positive, 0 stands for a time that is not set; a result is a  *)
(* struct with an outcome, a declaration and a failure category.           *)
WellFormed ==
    /\ Times \subseteq Nat \ {0}
    /\ Results \subseteq [outcome : STRING,
                          declaration : [version : Nat, identity : STRING],
                          category : STRING]
    /\ MaxRecords \in Nat

-----------------------------------------------------------------------------
(* The newest and the earliest of a set of observations.                   *)

Timed(S) == \A x \in S : x.at \in Nat /\ x.id \in Nat

HasNewest(S) == S # {} => Newest(S) # {}

Earlier(x, y) == x.at < y.at \/ (x.at = y.at /\ x.id < y.id)

Earliest(S) == {x \in S : \A y \in S \ {x} : Earlier(x, y)}

HasEarliest(S) == S # {} => Earliest(S) # {}

LEMMA NewestUnique ==
    ASSUME NEW S, Timed(S), NEW x \in Newest(S), NEW y \in Newest(S)
    PROVE  x = y
BY DEF Newest, Newer, Timed

(* An observation with the greatest id is the newest, unless an older one  *)
(* has a later time.                                                       *)
LEMMA NewestAdded ==
    ASSUME NEW S, NEW x, Timed(S \cup {x}), \A y \in S : y.id < x.id,
           HasNewest(S)
    PROVE  /\ (\A z \in Newest(S) : x.at >= z.at) => Newest(S \cup {x}) = {x}
           /\ (\E z \in Newest(S) : x.at < z.at) =>
                  Newest(S \cup {x}) = Newest(S)
           /\ HasNewest(S \cup {x})
<1> USE DEF Timed, Newer
<1>1. ASSUME \A z \in Newest(S) : x.at >= z.at
      PROVE  Newest(S \cup {x}) = {x}
  <2>1. ASSUME NEW y \in S PROVE Newer(x, y)
    <3>1. PICK z \in Newest(S) : x.at >= z.at
      BY <1>1, <2>1 DEF HasNewest
    <3>2. z \in S /\ (z = y \/ Newer(z, y))
      BY <2>1, <3>1 DEF Newest
    <3> QED BY <2>1, <3>1, <3>2
  <2>2. x \in Newest(S \cup {x})
    BY <2>1 DEF Newest
  <2> QED BY <2>2, NewestUnique DEF Newest
<1>2. ASSUME NEW z \in Newest(S), x.at < z.at
      PROVE  Newest(S \cup {x}) = Newest(S)
  <2>1. z \in Newest(S \cup {x})
    BY <1>2 DEF Newest
  <2>2. Newest(S) = {z}
    BY <1>2, NewestUnique
  <2>3. Newest(S \cup {x}) = {z}
    BY <2>1, NewestUnique
  <2> QED BY <2>2, <2>3
<1>3. HasNewest(S \cup {x})
  BY <1>1, <1>2 DEF HasNewest, Newest
<1> QED BY <1>1, <1>2, <1>3, ZenonT(30)

(* A subset with the newest observation has the same newest observation.   *)
LEMMA NewestKept ==
    ASSUME NEW S, NEW T, T \subseteq S, Timed(S), HasNewest(S),
           Newest(S) \subseteq T
    PROVE  Newest(T) = Newest(S) /\ HasNewest(T)
<1>1. CASE S = {}
  BY <1>1 DEF HasNewest, Newest
<1>2. CASE S # {}
  <2>1. PICK z : z \in Newest(S)
    BY <1>2 DEF HasNewest
  <2>2. z \in Newest(T)
    BY <2>1 DEF Newest
  <2>3. Newest(S) = {z}
    BY <2>1, NewestUnique
  <2>4. Newest(T) = {z}
    BY <2>2, NewestUnique DEF Timed
  <2> QED BY <2>3, <2>4 DEF HasNewest
<1> QED BY <1>1, <1>2

LEMMA EarliestUnique ==
    ASSUME NEW S, Timed(S), NEW x \in Earliest(S), NEW y \in Earliest(S)
    PROVE  x = y
BY DEF Earliest, Earlier, Timed

(* An observation with the greatest id is the earliest, only if its time   *)
(* is before that of the others.                                           *)
LEMMA EarliestAdded ==
    ASSUME NEW S, NEW x, Timed(S \cup {x}), \A y \in S : y.id < x.id,
           HasEarliest(S)
    PROVE  /\ (\A z \in Earliest(S) : x.at < z.at) =>
                  Earliest(S \cup {x}) = {x}
           /\ (\E z \in Earliest(S) : x.at >= z.at) =>
                  Earliest(S \cup {x}) = Earliest(S)
           /\ HasEarliest(S \cup {x})
<1> USE DEF Timed, Earlier
<1>1. ASSUME \A z \in Earliest(S) : x.at < z.at
      PROVE  Earliest(S \cup {x}) = {x}
  <2>1. ASSUME NEW y \in S PROVE Earlier(x, y)
    <3>1. PICK z \in Earliest(S) : x.at < z.at
      BY <1>1, <2>1 DEF HasEarliest
    <3>2. z \in S /\ (z = y \/ Earlier(z, y))
      BY <2>1, <3>1 DEF Earliest
    <3> QED BY <2>1, <3>1, <3>2
  <2>2. x \in Earliest(S \cup {x})
    BY <2>1 DEF Earliest
  <2> QED BY <2>2, EarliestUnique DEF Earliest
<1>2. ASSUME NEW z \in Earliest(S), x.at >= z.at
      PROVE  Earliest(S \cup {x}) = Earliest(S)
  <2>1. z \in Earliest(S \cup {x})
    BY <1>2 DEF Earliest
  <2>2. Earliest(S) = {z}
    BY <1>2, EarliestUnique
  <2>3. Earliest(S \cup {x}) = {z}
    BY <2>1, EarliestUnique
  <2> QED BY <2>2, <2>3
<1>3. HasEarliest(S \cup {x})
  BY <1>1, <1>2 DEF HasEarliest, Earliest
<1> QED BY <1>1, <1>2, <1>3, ZenonT(30)

-----------------------------------------------------------------------------
(* The inductive invariant.                                                *)

Obs == [id : Nat, at : Times, outcome : Outcomes, declaration : Declarations]

Row == [stored : BOOLEAN, firstObserved : Nat, participated : Nat,
        initial : Declarations, latestAt : Nat,
        latestOutcome : Outcomes \cup {"none"}]

ValidOnes(R) == {x \in R : x.outcome = "valid"}

(* The row of an origin says what its whole history R says.                *)
RowFits(row, R) ==
    /\ row.stored <=> R # {}
    /\ HasNewest(R)
    /\ \A x \in Newest(R) :
           row.latestAt = x.at /\ row.latestOutcome = x.outcome
    /\ HasEarliest(ValidOnes(R))
    /\ row.participated = 0 <=> ValidOnes(R) = {}
    /\ \A x \in Earliest(ValidOnes(R)) :
           row.participated = x.at /\ row.initial = x.declaration

(* The observations S that are left have the newest ones of R.             *)
SameNewest(S, R) == S \subseteq R /\ HasNewest(R) /\ Newest(S) = Newest(R)

(* A declaration comes with a valid outcome and with no other.             *)
Consistent(x) == IF x.outcome = "valid" THEN x.declaration.version = 1
                 ELSE x.declaration = NoDeclaration

IdsOf(rec) == UNION {{<<o, x.id>> : x \in rec[o]} : o \in VerifiedOrigins}

Ids == IdsOf(recorded)

HistoryInv ==
    /\ rows \in [VerifiedOrigins -> Row]
    /\ observations \in [VerifiedOrigins -> SUBSET Obs]
    /\ recorded \in [VerifiedOrigins -> SUBSET Obs]
    /\ IsFiniteSet(Ids)
    /\ \A o \in VerifiedOrigins :
        /\ \A x \in recorded[o] : Consistent(x) /\ x.id <= Total
        /\ RowFits(rows[o], recorded[o])
        /\ SameNewest(observations[o], recorded[o])
        /\ SameNewest(WithAuthority(observations[o]),
                      WithAuthority(recorded[o]))

LEMMA ObsTimed ==
    ASSUME WellFormed, NEW R \in SUBSET Obs
    PROVE  Timed(R) /\ Timed(WithAuthority(R)) /\ Timed(ValidOnes(R))
BY ZenonT(30) DEF WellFormed, Obs, Timed, WithAuthority, ValidOnes

(* One more observation keeps what is left and the whole history together. *)
LEMMA SameNewestAdded ==
    ASSUME NEW S, NEW R, NEW x, SameNewest(S, R), Timed(R \cup {x}),
           \A y \in R : y.id < x.id
    PROVE  SameNewest(S \cup {x}, R \cup {x})
<1>1. /\ HasNewest(S) /\ Timed(S \cup {x}) /\ \A y \in S : y.id < x.id
      /\ HasNewest(R) /\ Newest(S) = Newest(R) /\ S \subseteq R
  BY DEF SameNewest, HasNewest, Timed
<1>2. HasNewest(R \cup {x})
  BY <1>1, NewestAdded, ZenonT(30)
<1>3. CASE \A z \in Newest(R) : x.at >= z.at
  <2>1. Newest(R \cup {x}) = {x}
    BY <1>1, <1>3, NewestAdded
  <2>2. Newest(S \cup {x}) = {x}
    BY <1>1, <1>3, NewestAdded
  <2> QED BY <1>1, <1>2, <2>1, <2>2, ZenonT(30) DEF SameNewest
<1>4. CASE \E z \in Newest(R) : ~(x.at >= z.at)
  <2>0. \E z \in Newest(R) : x.at < z.at
    BY <1>4 DEF Timed, Newest
  <2>1. Newest(R \cup {x}) = Newest(R)
    BY <1>1, <2>0, NewestAdded
  <2>2. Newest(S \cup {x}) = Newest(S)
    BY <1>1, <2>0, NewestAdded
  <2> QED BY <1>1, <1>2, <2>1, <2>2 DEF SameNewest
<1> QED BY <1>3, <1>4

LEMMA SameNewestPurged ==
    ASSUME NEW S, NEW R, NEW T, SameNewest(S, R), Timed(R),
           T \subseteq S, Newest(S) \subseteq T
    PROVE  SameNewest(T, R) /\ Newest(T) = Newest(S)
<1>1. HasNewest(S) /\ Timed(S)
  BY DEF SameNewest, HasNewest, Timed
<1>2. Newest(T) = Newest(S)
  BY <1>1, NewestKept
<1> QED BY <1>2 DEF SameNewest

-----------------------------------------------------------------------------
(* What a recorded result does to the row.                                 *)

Recorded(row, at, r) == IF row.stored THEN Updated(row, at, r)
                        ELSE Inserted(at, r)

LEMMA RecordedTyped ==
    ASSUME WellFormed, NEW row \in Row, NEW at \in Times, NEW r,
           r.outcome \in Outcomes, r.declaration \in Declarations
    PROVE  Recorded(row, at, r) \in Row
<1>1. at \in Nat /\ NoDeclaration \in Declarations
  BY DEF WellFormed, Declarations
<1>2. Inserted(at, r) \in Row
  BY <1>1 DEF Inserted, Row
<1>3. Updated(row, at, r) \in Row
  BY <1>1 DEF Updated, Row
<1> QED BY <1>2, <1>3 DEF Recorded

(* The fields of the row that is written.                                  *)
LEMMA RecordedFields ==
    ASSUME WellFormed, NEW R \in SUBSET Obs, NEW row \in Row, RowFits(row, R),
           NEW at \in Times, NEW r
    PROVE  LET new == Recorded(row, at, r)
               latest == R = {} \/ at >= row.latestAt
               first == /\ r.outcome = "valid"
                        /\ row.participated = 0 \/ at < row.participated
           IN  /\ new.stored
               /\ new.latestAt = IF latest THEN at ELSE row.latestAt
               /\ new.latestOutcome =
                      IF latest THEN r.outcome ELSE row.latestOutcome
               /\ new.participated = IF first THEN at ELSE row.participated
               /\ first => new.initial = r.declaration
               /\ R # {} /\ ~first => new.initial = row.initial
<1>1. CASE row.stored
  <2>1. R # {}
    BY <1>1 DEF RowFits
  <2> QED BY <1>1, <2>1 DEF Recorded, Updated, NotOlder, EarlierParticipation
<1>2. CASE ~row.stored
  <2>1. R = {} /\ row.participated = 0
    BY <1>2 DEF RowFits, ValidOnes
  <2> QED BY <1>2, <2>1 DEF Recorded, Inserted
<1> QED BY <1>1, <1>2

LEMMA RecordedFits ==
    ASSUME WellFormed, NEW R \in SUBSET Obs, NEW row \in Row, RowFits(row, R),
           NEW r, NEW x \in Obs, x.outcome = r.outcome,
           x.declaration = r.declaration, \A y \in R : y.id < x.id
    PROVE  RowFits(Recorded(row, x.at, r), R \cup {x})
<1> DEFINE new == Recorded(row, x.at, r)
           V == ValidOnes(R)
           latest == R = {} \/ x.at >= row.latestAt
           first == /\ r.outcome = "valid"
                    /\ row.participated = 0 \/ x.at < row.participated
<1>1. /\ new.stored
      /\ new.latestAt = IF latest THEN x.at ELSE row.latestAt
      /\ new.latestOutcome = IF latest THEN x.outcome ELSE row.latestOutcome
      /\ new.participated = IF first THEN x.at ELSE row.participated
      /\ first => new.initial = x.declaration
      /\ R # {} /\ ~first => new.initial = row.initial
  <2>1. x.at \in Times
    BY DEF Obs
  <2> QED BY <2>1, RecordedFields
<1> HIDE DEF new
<1> DEFINE W == ValidOnes(R \cup {x})
           Participation ==
               /\ HasEarliest(W)
               /\ new.participated = 0 <=> W = {}
               /\ \A z \in Earliest(W) :
                      new.participated = z.at /\ new.initial = z.declaration
<1>2. /\ Timed(R \cup {x}) /\ Timed(V \cup {x}) /\ Timed(R) /\ Timed(V)
      /\ x.at \in Nat /\ x.at # 0
  BY ObsTimed, ZenonT(30) DEF Timed, WellFormed, Obs, ValidOnes
<1>3. /\ HasNewest(R) /\ HasEarliest(V)
      /\ \A z \in Newest(R) :
             row.latestAt = z.at /\ row.latestOutcome = z.outcome
      /\ row.participated = 0 <=> V = {}
      /\ \A z \in Earliest(V) :
             row.participated = z.at /\ row.initial = z.declaration
  BY DEF RowFits
<1>4. /\ HasNewest(R \cup {x})
      /\ \A z \in Newest(R \cup {x}) :
             new.latestAt = z.at /\ new.latestOutcome = z.outcome
  <2>1. HasNewest(R \cup {x})
    BY <1>2, <1>3, NewestAdded, ZenonT(30)
  <2>2. CASE latest
    <3>1. \A z \in Newest(R) : x.at >= z.at
      BY <1>3, <2>2 DEF Newest
    <3>2. Newest(R \cup {x}) = {x}
      BY <1>2, <1>3, <3>1, NewestAdded
    <3> QED BY <1>1, <2>1, <2>2, <3>2, ZenonT(30)
  <2>3. CASE ~latest
    <3>1. PICK z \in Newest(R) : TRUE
      BY <1>3, <2>3 DEF HasNewest
    <3>2. x.at < z.at
      BY <1>2, <1>3, <2>3, <3>1 DEF Timed, Newest
    <3>3. Newest(R \cup {x}) = Newest(R)
      BY <1>2, <1>3, <3>1, <3>2, NewestAdded
    <3> QED BY <1>1, <1>3, <2>1, <2>3, <3>3, ZenonT(30)
  <2> QED BY <2>2, <2>3, ZenonT(30)
<1>5. ASSUME x.outcome = "valid" PROVE Participation
  <2>1. W = V \cup {x}
    BY <1>5 DEF ValidOnes
  <2>2. /\ HasEarliest(V \cup {x})
        /\ \A y \in V : y.id < x.id
    BY <1>2, <1>3, EarliestAdded, ZenonT(30) DEF ValidOnes
  <2>3. CASE first
    <3>1. \A z \in Earliest(V) : x.at < z.at
      BY <1>3, <2>3 DEF Earliest
    <3>2. Earliest(V \cup {x}) = {x}
      BY <1>2, <1>3, <2>2, <3>1, EarliestAdded
    <3> HIDE DEF W, V
    <3>3. new.participated = x.at /\ new.initial = x.declaration
      BY <1>1, <2>3
    <3> QED BY <1>2, <2>1, <2>2, <3>2, <3>3, ZenonT(30)
  <2>4. CASE ~first
    <3>1. V # {} /\ R # {}
      BY <1>3, <1>5, <2>4 DEF ValidOnes
    <3>2. PICK z \in Earliest(V) : TRUE
      BY <1>3, <3>1 DEF HasEarliest
    <3>3. x.at >= z.at
      BY <1>2, <1>3, <1>5, <2>4, <3>2 DEF Timed, Earliest
    <3>4. Earliest(V \cup {x}) = Earliest(V)
      BY <1>2, <1>3, <2>2, <3>2, <3>3, EarliestAdded
    <3>5. new.participated = row.participated /\ new.initial = row.initial
      BY <1>1, <2>4, <3>1
    <3> HIDE DEF W, V
    <3> QED BY <1>3, <2>1, <2>2, <3>1, <3>4, <3>5, ZenonT(30)
  <2> QED BY <2>3, <2>4, ZenonT(30)
<1>6. ASSUME x.outcome # "valid" PROVE Participation
  <2>1. W = V
    BY <1>6 DEF ValidOnes
  <2>2. \A z \in Earliest(V) : R # {}
    BY DEF Earliest, ValidOnes
  <2>3. /\ new.participated = row.participated
        /\ R # {} => new.initial = row.initial
    BY <1>1, <1>6
  <2> HIDE DEF W, V
  <2> QED BY <1>3, <2>1, <2>2, <2>3
<1>7. Participation
  BY <1>5, <1>6, ZenonT(30)
<1> QED BY <1>1, <1>4, <1>7, ZenonT(30) DEF RowFits, new

-----------------------------------------------------------------------------
(* Every step keeps the invariant.                                         *)

LEMMA IdsMember ==
    ASSUME NEW rec, NEW e
    PROVE  e \in IdsOf(rec) <=>
               \E o \in VerifiedOrigins : \E x \in rec[o] : e = <<o, x.id>>
BY DEF IdsOf

LEMMA ResultTyped ==
    ASSUME WellFormed, NEW r \in Results, ValidResult(r)
    PROVE  /\ r.outcome \in Outcomes /\ r.declaration \in Declarations
           /\ IF r.outcome = "valid" THEN r.declaration.version = 1
              ELSE r.declaration = NoDeclaration
BY DEF WellFormed, ValidResult, Declarations

(* The new id is greater than those of all observations before it.         *)
LEMMA NextId ==
    ASSUME HistoryInv, NEW o \in VerifiedOrigins, NEW x, x.id = Total + 1,
           recorded' = [recorded EXCEPT ![o] = @ \cup {x}]
    PROVE  /\ Total \in Nat /\ Total' = Total + 1 /\ IsFiniteSet(Ids')
           /\ \A y \in recorded[o] : y.id < x.id
<1>1. IsFiniteSet(Ids) /\ Total = Cardinality(Ids)
  BY DEF HistoryInv, Total, Ids, IdsOf
<1>2. Total \in Nat
  BY <1>1, FS_CardinalityType
<1>3. \A p \in VerifiedOrigins :
          \A y \in recorded[p] : y.id \in Nat /\ y.id <= Total
  BY DEF HistoryInv, Obs
<1>4. <<o, x.id>> \notin Ids
  <2> SUFFICES ASSUME <<o, x.id>> \in Ids PROVE FALSE
    OBVIOUS
  <2>1. PICK p \in VerifiedOrigins :
            \E y \in recorded[p] : <<o, x.id>> = <<p, y.id>>
    BY IdsMember DEF Ids
  <2>2. PICK y \in recorded[p] : x.id = y.id
    BY <2>1
  <2> QED BY <1>2, <1>3, <2>2
<1>5. Ids' = Ids \cup {<<o, x.id>>}
  <2>1. ASSUME NEW e PROVE e \in Ids' <=> e \in Ids \cup {<<o, x.id>>}
    <3>1. e \in Ids' <=>
            \E p \in VerifiedOrigins : \E y \in recorded'[p] : e = <<p, y.id>>
      BY DEF Ids, IdsOf
    <3>2. e \in Ids <=>
            \E p \in VerifiedOrigins : \E y \in recorded[p] : e = <<p, y.id>>
      BY IdsMember DEF Ids
    <3>3. \A p \in VerifiedOrigins :
              recorded'[p] = IF p = o THEN recorded[p] \cup {x}
                             ELSE recorded[p]
      BY ZenonT(30) DEF HistoryInv
    <3> HIDE DEF Ids
    <3> QED BY <3>1, <3>2, <3>3
  <2> HIDE DEF Ids
  <2> QED BY <2>1
<1>6. IsFiniteSet(Ids') /\ Cardinality(Ids') = Cardinality(Ids) + 1
  BY <1>1, <1>4, <1>5, FS_AddElement, ZenonT(30)
<1>7. Total' = Cardinality(Ids')
  BY DEF Total, Ids, IdsOf
<1> QED BY <1>1, <1>2, <1>3, <1>6, <1>7

LEMMA StepRecord ==
    ASSUME WellFormed, HistoryInv, NEW o \in VerifiedOrigins, NEW at \in Times,
           NEW r \in Results, RecordVerification(o, at, r)
    PROVE  HistoryInv' /\ recorded' # recorded
<1> DEFINE x == [id |-> Total + 1, at |-> at, outcome |-> r.outcome,
                 declaration |-> r.declaration]
<1>1. /\ ValidResult(r)
      /\ rows' = [rows EXCEPT ![o] = Recorded(@, at, r)]
      /\ observations' = [observations EXCEPT ![o] = @ \cup {x}]
      /\ recorded' = [recorded EXCEPT ![o] = @ \cup {x}]
  BY DEF RecordVerification, Recorded
<1>2. /\ x.id = Total + 1 /\ x.at = at
      /\ x.outcome = r.outcome /\ x.declaration = r.declaration
  OBVIOUS
<1>3. /\ Total \in Nat /\ Total' = Total + 1 /\ IsFiniteSet(Ids')
      /\ \A y \in recorded[o] : y.id < x.id
  BY <1>1, <1>2, NextId, ZenonT(30)
<1>4. /\ r.outcome \in Outcomes /\ r.declaration \in Declarations
      /\ x \in Obs /\ Consistent(x)
  BY <1>1, <1>3, ResultTyped DEF Obs, Consistent
<1> HIDE DEF x
<1>5. /\ rows[o] \in Row /\ recorded[o] \in SUBSET Obs
      /\ observations[o] \in SUBSET Obs
      /\ RowFits(rows[o], recorded[o])
      /\ SameNewest(observations[o], recorded[o])
      /\ SameNewest(WithAuthority(observations[o]),
                    WithAuthority(recorded[o]))
  BY DEF HistoryInv
<1>6. /\ Recorded(rows[o], at, r) \in Row
      /\ RowFits(Recorded(rows[o], at, r), recorded[o] \cup {x})
  BY <1>2, <1>3, <1>4, <1>5, RecordedTyped, RecordedFits, ZenonT(30)
<1>7. SameNewest(observations[o] \cup {x}, recorded[o] \cup {x})
  <2>1. Timed(recorded[o] \cup {x})
    BY <1>4, <1>5, ObsTimed
  <2> QED BY <1>3, <1>5, <2>1, SameNewestAdded
<1>8. SameNewest(WithAuthority(observations[o] \cup {x}),
                 WithAuthority(recorded[o] \cup {x}))
  <2>1. CASE x.outcome \in Authoritative
    <3>1. /\ WithAuthority(observations[o] \cup {x})
                 = WithAuthority(observations[o]) \cup {x}
          /\ WithAuthority(recorded[o] \cup {x})
                 = WithAuthority(recorded[o]) \cup {x}
      BY <2>1 DEF WithAuthority
    <3>2. /\ Timed(WithAuthority(recorded[o]) \cup {x})
          /\ \A y \in WithAuthority(recorded[o]) : y.id < x.id
      BY <1>3, <1>4, <1>5, ObsTimed DEF Timed, WithAuthority
    <3>3. SameNewest(WithAuthority(observations[o]) \cup {x},
                     WithAuthority(recorded[o]) \cup {x})
      BY <1>5, <3>2, SameNewestAdded
    <3> QED BY <3>1, <3>3, ZenonT(30)
  <2>2. CASE x.outcome \notin Authoritative
    <3>1. /\ WithAuthority(observations[o] \cup {x})
                 = WithAuthority(observations[o])
          /\ WithAuthority(recorded[o] \cup {x}) = WithAuthority(recorded[o])
      BY <2>2 DEF WithAuthority
    <3> QED BY <1>5, <3>1
  <2> QED BY <2>1, <2>2
<1>9. /\ rows' \in [VerifiedOrigins -> Row]
      /\ observations' \in [VerifiedOrigins -> SUBSET Obs]
      /\ recorded' \in [VerifiedOrigins -> SUBSET Obs]
  BY <1>1, <1>4, <1>6 DEF HistoryInv
<1>10. ASSUME NEW p \in VerifiedOrigins
       PROVE  /\ \A y \in recorded'[p] : Consistent(y) /\ y.id <= Total'
              /\ RowFits(rows'[p], recorded'[p])
              /\ SameNewest(observations'[p], recorded'[p])
              /\ SameNewest(WithAuthority(observations'[p]),
                            WithAuthority(recorded'[p]))
  <2>1. CASE p = o
    <3>1. /\ rows'[p] = Recorded(rows[o], at, r)
          /\ observations'[p] = observations[o] \cup {x}
          /\ recorded'[p] = recorded[o] \cup {x}
      BY <1>1, <2>1 DEF HistoryInv
    <3>2. \A y \in recorded'[p] : Consistent(y) /\ y.id <= Total'
      BY <1>2, <1>3, <1>4, <3>1 DEF HistoryInv, Obs
    <3> QED BY <1>6, <1>7, <1>8, <3>1, <3>2
  <2>2. CASE p # o
    <3>1. /\ rows'[p] = rows[p]
          /\ observations'[p] = observations[p]
          /\ recorded'[p] = recorded[p]
      BY <1>1, <2>2 DEF HistoryInv
    <3>2. \A y \in recorded'[p] : Consistent(y) /\ y.id <= Total'
      BY <1>3, <3>1 DEF HistoryInv, Obs
    <3> QED BY <3>1, <3>2 DEF HistoryInv
  <2> QED BY <2>1, <2>2
<1>11. recorded' # recorded
  <2>1. x \in recorded'[o] /\ x \notin recorded[o]
    BY <1>1, <1>2, <1>3 DEF HistoryInv
  <2> QED BY <2>1
<1> QED BY <1>3, <1>9, <1>10, <1>11 DEF HistoryInv

(* A purge keeps what Protected names, and with it everything that is read.*)
LEMMA StepPurge ==
    ASSUME WellFormed, HistoryInv, NEW cutoff, PurgeOperationalHistory(cutoff)
    PROVE  /\ HistoryInv'
           /\ \A o \in VerifiedOrigins :
                /\ Newest(observations'[o]) = Newest(observations[o])
                /\ Newest(WithAuthority(observations'[o]))
                       = Newest(WithAuthority(observations[o]))
<1>1. ASSUME NEW o \in VerifiedOrigins
      PROVE  LET S == observations[o]
                 T == observations'[o]
                 R == recorded[o]
             IN  /\ T \in SUBSET Obs
                 /\ SameNewest(T, R) /\ Newest(T) = Newest(S)
                 /\ SameNewest(WithAuthority(T), WithAuthority(R))
                 /\ Newest(WithAuthority(T)) = Newest(WithAuthority(S))
  <2> DEFINE S == observations[o]
             T == observations'[o]
             R == recorded[o]
  <2>1. /\ S \in SUBSET Obs /\ R \in SUBSET Obs
        /\ SameNewest(S, R)
        /\ SameNewest(WithAuthority(S), WithAuthority(R))
    BY <1>1 DEF HistoryInv
  <2>2. T = {x \in S : x.at >= cutoff \/ x \in Protected(S)}
    BY <1>1 DEF PurgeOperationalHistory
  <2> HIDE DEF S, T, R
  <2>3. /\ T \subseteq S /\ Newest(S) \subseteq T
        /\ WithAuthority(T) \subseteq WithAuthority(S)
        /\ Newest(WithAuthority(S)) \subseteq WithAuthority(T)
    BY <2>2 DEF Protected, Newest, WithAuthority
  <2>4. SameNewest(T, R) /\ Newest(T) = Newest(S)
    BY <2>1, <2>3, ObsTimed, SameNewestPurged
  <2>5. /\ SameNewest(WithAuthority(T), WithAuthority(R))
        /\ Newest(WithAuthority(T)) = Newest(WithAuthority(S))
    BY <2>1, <2>3, ObsTimed, SameNewestPurged
  <2> QED BY <2>1, <2>3, <2>4, <2>5 DEF S, T, R
<1>2. UNCHANGED <<rows, recorded, Ids, Total>>
  BY DEF PurgeOperationalHistory, Ids, IdsOf, Total
<1>3. observations' \in [VerifiedOrigins -> SUBSET Obs]
  <2>1. observations' = [o \in VerifiedOrigins |-> observations'[o]]
    BY DEF PurgeOperationalHistory
  <2>2. \A o \in VerifiedOrigins : observations'[o] \in SUBSET Obs
    BY <1>1
  <2> QED BY <2>1, <2>2
<1>4. HistoryInv'
  BY <1>1, <1>2, <1>3 DEF HistoryInv
<1> QED BY <1>1, <1>4

LEMMA InitHistory == HistoryInit => HistoryInv
<1> SUFFICES ASSUME HistoryInit PROVE HistoryInv
  OBVIOUS
<1>1. NoRow \in Row /\ ~NoRow.stored /\ NoRow.participated = 0
  BY DEF NoRow, Row, Declarations
<1>2. /\ rows \in [VerifiedOrigins -> Row]
      /\ observations \in [VerifiedOrigins -> SUBSET Obs]
      /\ recorded \in [VerifiedOrigins -> SUBSET Obs]
      /\ \A o \in VerifiedOrigins :
            rows[o] = NoRow /\ recorded[o] = {} /\ observations[o] = {}
  BY <1>1 DEF HistoryInit
<1>3. Ids = {}
  BY <1>2 DEF Ids, IdsOf
<1>4. RowFits(NoRow, {})
  BY <1>1 DEF RowFits, HasNewest, Newest, HasEarliest, Earliest, ValidOnes
<1>5. SameNewest({}, {}) /\ WithAuthority({}) = {}
  BY DEF SameNewest, HasNewest, WithAuthority
<1> QED BY <1>2, <1>3, <1>4, <1>5, FS_EmptySet DEF HistoryInv

LEMMA StepHistory ==
    WellFormed /\ HistoryInv /\ [HistoryNext]_historyVars => HistoryInv'
<1>1. ASSUME HistoryInv, UNCHANGED historyVars PROVE HistoryInv'
  <2>1. UNCHANGED <<rows, observations, recorded, Ids, Total>>
    BY <1>1 DEF historyVars, Ids, IdsOf, Total
  <2> QED BY <1>1, <2>1 DEF HistoryInv
<1> QED BY <1>1, StepRecord, StepPurge DEF HistoryNext

LEMMA HistoryInvariant == WellFormed => (HistorySpec => []HistoryInv)
<1> SUFFICES ASSUME WellFormed PROVE HistorySpec => []HistoryInv
  OBVIOUS
<1>1. HistoryInv /\ [HistoryNext]_historyVars => HistoryInv'
  BY StepHistory
<1> QED BY <1>1, InitHistory, PTL DEF HistorySpec

-----------------------------------------------------------------------------
(* What readers see.                                                       *)

(* A purge changes neither the state of an origin nor its current          *)
(* declaration; what it does change is the plain list of observations.     *)
THEOREM PurgesInvisible == WellFormed => (HistorySpec => PurgeInvisible)
<1> SUFFICES ASSUME WellFormed PROVE HistorySpec => PurgeInvisible
  OBVIOUS
<1>1. ASSUME HistoryInv, HistoryNext PROVE PurgeInvisibleStep
  <2>1. ASSUME NEW o \in VerifiedOrigins, NEW at \in Times, NEW r \in Results,
               RecordVerification(o, at, r)
        PROVE  PurgeInvisibleStep
    BY <1>1, <2>1, StepRecord DEF PurgeInvisibleStep
  <2>2. ASSUME NEW cutoff \in Times, PurgeOperationalHistory(cutoff)
        PROVE  PurgeInvisibleStep
    <3>1. ASSUME NEW o \in VerifiedOrigins
          PROVE  OriginState(o)' = OriginState(o) /\ Current(o)' = Current(o)
      <4>1. /\ Newest(observations'[o]) = Newest(observations[o])
            /\ Newest(WithAuthority(observations'[o]))
                   = Newest(WithAuthority(observations[o]))
        BY <1>1, <2>2, <3>1, StepPurge
      <4> DEFINE StateOf(l, e) ==
                   [latest |-> l,
                    state  |-> IF e = {} THEN "unknown"
                               ELSE IF \E x \in e : x.outcome = "valid"
                               THEN "verified" ELSE "not_verified"]
                 CurrentOf(e) == IF \E x \in e : x.outcome = "valid"
                                 THEN (CHOOSE x \in e : TRUE).declaration
                                 ELSE NoDeclaration
                 l0 == Newest(observations[o])
                 e0 == Newest(WithAuthority(observations[o]))
                 l1 == Newest(observations'[o])
                 e1 == Newest(WithAuthority(observations'[o]))
      <4>2. OriginState(o) = StateOf(l0, e0) /\ Current(o) = CurrentOf(e0)
        BY DEF OriginState, Current
      <4>3. OriginState(o)' = StateOf(l1, e1) /\ Current(o)' = CurrentOf(e1)
        BY DEF OriginState, Current
      <4> HIDE DEF StateOf, CurrentOf, l0, e0, l1, e1
      <4>4. l1 = l0 /\ e1 = e0
        BY <4>1 DEF l0, e0, l1, e1
      <4> QED BY <4>2, <4>3, <4>4
    <3> QED BY <3>1 DEF PurgeInvisibleStep
  <2> QED BY <1>1, <2>1, <2>2 DEF HistoryNext
<1>2. HistoryInv /\ [HistoryNext]_historyVars =>
          [PurgeInvisibleStep]_historyVars
  BY <1>1
<1> QED BY <1>2, HistoryInvariant, PTL DEF HistorySpec, PurgeInvisible

(* The declaration that the registry takes from the observations left is   *)
(* the one of the newest result with authority in the whole history.       *)
LEMMA CurrentTrue ==
    ASSUME WellFormed, HistoryInv, NEW o \in VerifiedOrigins,
           NEW x \in Newest(WithAuthority(recorded[o]))
    PROVE  Current(o) = x.declaration
<1> DEFINE e == Newest(WithAuthority(observations[o]))
<1>1. e = Newest(WithAuthority(recorded[o])) /\ recorded[o] \in SUBSET Obs
  BY DEF HistoryInv, SameNewest
<1>2. e = {x}
  BY <1>1, ObsTimed, NewestUnique
<1>3. Consistent(x)
  BY ZenonT(30) DEF HistoryInv, Newest, WithAuthority
<1> HIDE DEF e
<1>4. Current(o) = IF x.outcome = "valid" THEN x.declaration
                   ELSE NoDeclaration
  <2>1. Current(o) = IF \E y \in e : y.outcome = "valid"
                     THEN (CHOOSE y \in e : TRUE).declaration
                     ELSE NoDeclaration
    BY DEF Current, e
  <2>2. (CHOOSE y \in e : TRUE) = x
    BY <1>2
  <2> QED BY <1>2, <2>1, <2>2
<1> QED BY <1>3, <1>4 DEF Consistent

(* The registry tells the truth about the whole history.                   *)
LEMMA RegistryIsTrue == WellFormed /\ HistoryInv => RegistryTrue
<1> SUFFICES ASSUME WellFormed, HistoryInv, NEW n \in BuildRegistry
             PROVE  /\ \A x \in Earliest(ValidOnes(recorded[n.origin])) :
                           /\ n.participated = x.at
                           /\ n.initial = x.declaration
                    /\ \A x \in Newest(recorded[n.origin]) :
                           n.checked = x.at /\ n.outcome = x.outcome
                    /\ \A x \in Newest(WithAuthority(recorded[n.origin])) :
                           n.current = x.declaration
  BY DEF RegistryTrue, Earliest, Earlier, ValidOnes
<1>1. PICK o \in VerifiedOrigins : n = Node(o)
  BY DEF BuildRegistry, Participants
<1>2. /\ n.origin = o /\ n.participated = rows[o].participated
      /\ n.initial = rows[o].initial /\ n.checked = rows[o].latestAt
      /\ n.outcome = rows[o].latestOutcome /\ n.current = Current(o)
  BY <1>1 DEF Node
<1>3. RowFits(rows[o], recorded[o])
  BY DEF HistoryInv
<1> QED BY <1>2, <1>3, CurrentTrue DEF RowFits

(* No participant is refused: the newest result with authority is there,   *)
(* and agrees with the latest result if that has authority itself.         *)
LEMMA ExportAccepts == WellFormed /\ HistoryInv => ExportNeverRefuses
<1> SUFFICES ASSUME WellFormed, HistoryInv, NEW o \in VerifiedOrigins,
                    rows[o].participated # 0
             PROVE  Scanned(o) /\ ValidRegistryOrigin(o)
  BY DEF ExportNeverRefuses, ExportSucceeds, Participants
<1> DEFINE row == rows[o]
           R == recorded[o]
           A == WithAuthority(R)
           V == ValidOnes(R)
<1>1. /\ row \in Row /\ R \in SUBSET Obs /\ RowFits(row, R)
      /\ SameNewest(WithAuthority(observations[o]), A)
      /\ \A x \in R : Consistent(x)
  BY DEF HistoryInv
<1>2. PICK f \in Earliest(V) : TRUE
  BY <1>1 DEF RowFits, HasEarliest
<1>3. /\ f \in R /\ f \in A /\ f.outcome = "valid"
      /\ row.participated = f.at /\ row.initial = f.declaration
  BY <1>1, <1>2
  DEF RowFits, Earliest, ValidOnes, WithAuthority, Authoritative, Outcomes
<1>4. PICK z \in Newest(R) : TRUE
  BY <1>1, <1>3 DEF RowFits, HasNewest
<1>5. z \in R /\ row.latestAt = z.at /\ row.latestOutcome = z.outcome
  BY <1>1, <1>4 DEF RowFits, Newest
<1>6. PICK a \in Newest(A) : TRUE
  BY <1>1, <1>3, ZenonT(30) DEF SameNewest, HasNewest
<1>7. /\ a \in R /\ Consistent(a)
      /\ Newest(A) = {a} /\ Current(o) = a.declaration
      /\ Newest(WithAuthority(observations[o])) = {a}
  <2>1. Newest(A) = {a}
    BY <1>1, <1>6, ObsTimed, NewestUnique
  <2> QED
    BY <1>1, <1>6, <2>1, CurrentTrue DEF Newest, WithAuthority, SameNewest
<1>8. z.outcome \in Authoritative => z = a
  <2> SUFFICES ASSUME z.outcome \in Authoritative PROVE z \in Newest(A)
    BY <1>7, SMTT(30)
  <2> QED BY <1>4, <1>5 DEF Newest, WithAuthority
<1>9. f.at <= z.at
  BY <1>1, <1>3, <1>4, ObsTimed DEF Newest, Newer, Timed
<1>10. row.initial.version = 1 /\ row.initial.identity \in Identities
  <2>1. f.declaration \in Declarations /\ f.declaration.version = 1
    BY <1>1, <1>3 DEF Obs, Consistent
  <2> QED BY <1>3, <2>1 DEF Declarations, NoDeclaration
<1>11. Scanned(o)
  <2>1. row.latestOutcome \in Outcomes /\ row.participated <= row.latestAt
    BY <1>1, <1>3, <1>5, <1>9 DEF Obs
  <2>2. IF a.outcome = "valid"
        THEN /\ a.declaration.version = 1
             /\ a.declaration.identity \in Identities
        ELSE a.declaration = NoDeclaration
    <3>1. a.declaration \in Declarations
      BY <1>1, <1>7 DEF Obs
    <3> QED BY <1>7, <3>1 DEF Consistent, Declarations, NoDeclaration
  <2> QED BY <1>7, <1>10, <2>1, <2>2, ZenonT(30) DEF Scanned
<1>12. ValidRegistryOrigin(o)
  <2>1. CASE row.latestOutcome = "valid"
    <3>1. a.declaration.version = 1
      BY <1>5, <1>7, <1>8, <2>1, ZenonT(30) DEF Authoritative, Outcomes, Consistent
    <3>2. Current(o) # NoDeclaration
      BY <1>7, <3>1 DEF NoDeclaration
    <3> QED BY <2>1, <3>2 DEF ValidRegistryOrigin
  <2>2. CASE row.latestOutcome \in Authoritative \ {"valid"}
    <3>1. Current(o) = NoDeclaration
      BY <1>5, <1>7, <1>8, <2>2 DEF Consistent
    <3> QED BY <2>2, <3>1 DEF ValidRegistryOrigin
  <2>3. CASE row.latestOutcome \notin Authoritative
    BY <2>3 DEF ValidRegistryOrigin, Authoritative, Outcomes
  <2> QED BY <2>1, <2>2, <2>3
<1> QED BY <1>11, <1>12

-----------------------------------------------------------------------------
(* Types, and the bound on what is recorded.                               *)

TypeInv ==
    /\ HistoryTypeOK
    /\ Total <= MaxRecords
    /\ \A o \in VerifiedOrigins : misses[o] <= Total

StoredRow ==
    [stored : BOOLEAN, firstObserved : Times \cup {0},
     participated : Times \cup {0}, initial : Declarations,
     latestAt : Times \cup {0}, latestOutcome : Outcomes \cup {"none"}]

LEMMA InitTypes == WellFormed /\ HistoryInit => TypeInv
<1> SUFFICES ASSUME WellFormed, HistoryInit PROVE TypeInv
  OBVIOUS
<1>1. NoRow \in StoredRow
  BY DEF NoRow, StoredRow, Declarations
<1>2. Ids = {} /\ Total = Cardinality(Ids)
  BY DEF HistoryInit, Ids, IdsOf, Total
<1>3. Total = 0
  BY <1>2, FS_EmptySet
<1> QED
  BY <1>1, <1>3 DEF WellFormed, HistoryInit, TypeInv, HistoryTypeOK, StoredRow

LEMMA StepTypes ==
    ASSUME WellFormed, HistoryInv, TypeInv, [HistoryNext]_historyVars
    PROVE  TypeInv'
<1>1. ASSUME NEW o \in VerifiedOrigins, NEW at \in Times, NEW r \in Results,
             RecordVerification(o, at, r)
      PROVE  TypeInv'
  <2> DEFINE x == [id |-> Total + 1, at |-> at, outcome |-> r.outcome,
                   declaration |-> r.declaration]
             more == IF ShouldReprobe(r.outcome) THEN 1 ELSE 0
  <2>1. /\ Total < MaxRecords /\ ValidResult(r)
        /\ rows' = [rows EXCEPT ![o] = Recorded(@, at, r)]
        /\ misses' = [misses EXCEPT ![o] = @ + more]
        /\ observations' = [observations EXCEPT ![o] = @ \cup {x}]
        /\ recorded' = [recorded EXCEPT ![o] = @ \cup {x}]
    BY <1>1 DEF RecordVerification, Recorded
  <2>2. Total \in Nat /\ Total' = Total + 1
    <3>1. x.id = Total + 1
      OBVIOUS
    <3> HIDE DEF x
    <3> QED BY <2>1, <3>1, NextId, ZenonT(30)
  <2>3. /\ r.outcome \in Outcomes /\ r.declaration \in Declarations
        /\ MaxRecords \in Nat
    BY <2>1, ResultTyped DEF WellFormed
  <2>4. x \in Observation
    BY <2>1, <2>2, <2>3 DEF Observation
  <2>5. Recorded(rows[o], at, r) \in StoredRow
    <3>1. rows[o] \in StoredRow /\ NoDeclaration \in Declarations
      BY DEF TypeInv, HistoryTypeOK, StoredRow, Declarations
    <3>2. Inserted(at, r) \in StoredRow
      BY <2>3, <3>1, SMTT(30) DEF Inserted, StoredRow
    <3>3. Updated(rows[o], at, r) \in StoredRow
      BY <2>3, <3>1 DEF Updated, StoredRow
    <3> QED BY <3>2, <3>3 DEF Recorded
  <2>6. rows' \in [VerifiedOrigins -> StoredRow]
    BY <2>1, <2>5 DEF TypeInv, HistoryTypeOK, StoredRow
  <2>7. \A p \in VerifiedOrigins :
            /\ observations'[p] \subseteq recorded'[p]
            /\ \A y \in recorded'[p] : y \in Observation
    <3> HIDE DEF x
    <3> QED BY <2>1, <2>4 DEF TypeInv, HistoryTypeOK, HistoryInv
  <2>8. /\ misses' \in [VerifiedOrigins -> 0..MaxRecords]
        /\ \A p \in VerifiedOrigins : misses'[p] <= Total'
    <3>1. more \in 0..1
      OBVIOUS
    <3>2. \A p \in VerifiedOrigins :
              misses'[p] \in Nat /\ misses'[p] <= Total + 1
      <4> HIDE DEF more
      <4> QED BY <2>1, <2>2, <3>1 DEF TypeInv, HistoryTypeOK
    <3> QED BY <2>1, <2>2, <2>3, <3>2 DEF TypeInv, HistoryTypeOK
  <2>9. Total' <= MaxRecords
    BY <2>1, <2>2, <2>3
  <2> QED BY <2>6, <2>7, <2>8, <2>9 DEF TypeInv, HistoryTypeOK, StoredRow
<1>2. ASSUME NEW cutoff \in Times, PurgeOperationalHistory(cutoff)
      PROVE  TypeInv'
  BY <1>2 DEF PurgeOperationalHistory, TypeInv, HistoryTypeOK, Total
<1>3. CASE UNCHANGED historyVars
  BY <1>3 DEF historyVars, TypeInv, HistoryTypeOK, Total
<1> QED BY <1>1, <1>2, <1>3 DEF HistoryNext

(* Whatever order results come in and whatever is purged, the registry     *)
(* says what the whole history says, its export refuses no participant,    *)
(* and the two readers of an origin agree.                                 *)
THEOREM RegistryFaithful == WellFormed => (HistorySpec => []HistoryReadable)
<1> SUFFICES ASSUME WellFormed PROVE HistorySpec => []HistoryReadable
  BY ZenonT(30)
<1>1. HistoryInv => ReadersAgree
  <2> SUFFICES ASSUME HistoryInv, NEW o \in VerifiedOrigins,
                      NEW x \in OriginState(o).latest
               PROVE  /\ x.at = rows[o].latestAt
                      /\ x.outcome = rows[o].latestOutcome
    BY DEF ReadersAgree
  <2>1. x \in Newest(recorded[o])
    BY DEF OriginState, HistoryInv, SameNewest
  <2> QED BY <2>1 DEF HistoryInv, RowFits
<1>2. HistoryInv /\ TypeInv => HistoryReadable
  BY <1>1, RegistryIsTrue, ExportAccepts DEF HistoryReadable, TypeInv
<1>3. HistoryInit => TypeInv
  BY InitTypes
<1>4. HistoryInv /\ TypeInv /\ [HistoryNext]_historyVars => TypeInv'
  BY StepTypes
<1> QED BY <1>2, <1>3, <1>4, HistoryInvariant, PTL DEF HistorySpec

-----------------------------------------------------------------------------
(* Snapshots                                                               *)

Whole(d) == d.exists /\ d.entries = Entries

(* The exporter never removes the snapshot that the pointer names, and     *)
(* writes below a name that nothing refers to.                             *)
ExporterInv ==
    /\ PointerValid
    /\ exporter.stage = "removing" /\ pointer # "none" =>
           pointer \in exporter.keep
    /\ exporter.stage \in {"write", "point"} =>
           exporter.name \in Names /\ exporter.name # pointer
    /\ exporter.stage = "point" => Whole(dirs[exporter.name])
    /\ exporter.stage # "down" =>
           IF exporter.after = "done" THEN exporter.name = pointer
           ELSE exporter.previous = pointer
    /\ exporter.after = "done" => exporter.stage = "removing"

(* A read that was overtaken at most once is safe: its snapshot is the     *)
(* current or the previous one, which the exporter keeps.                  *)
Safe == Reading /\ publisher.overtaken < 2

ReaderInv ==
    /\ Reading => publisher.name \in Names
    /\ Safe =>
        /\ Whole(dirs[publisher.name])
        /\ exporter.stage = "removing" => publisher.name \in exporter.keep
        /\ exporter.stage \in {"write", "point"} =>
               exporter.name # publisher.name
        /\ publisher.overtaken = 0 => publisher.name = pointer
        /\ publisher.stage = "nodes" => publisher.listed = {"nodes", "registry"}
        /\ publisher.stage = "read" => publisher.listed = Files
    /\ PublishedWhole

-----------------------------------------------------------------------------
(* Types.                                                                  *)

Exporters == [stage : {"down", "removing", "sleep", "write", "point"},
              name : Names \cup {"none"}, previous : Names \cup {"none"},
              keep : SUBSET Names,
              after : {"none", "start", "failed", "done"},
              version : 0..MaxVersion, written : SUBSET Entries]

Publishers == [stage : {"down", "sleep", "usable", "list", "nodes", "read",
                        "push"},
               name : Names \cup {"none"}, published : Names \cup {"none"},
               listed : SUBSET Entries, got : SUBSET Entries,
               version : 0..MaxVersion, overtaken : 0..2]

Branches == [version : 0..MaxVersion, entries : SUBSET Entries]

LEMMA Typed ==
    ExportTypeOK <=> /\ db \in 1..MaxVersion
               /\ dirs \in [Names -> Dir]
               /\ pointer \in Names \cup {"none"}
               /\ exporter \in Exporters
               /\ publisher \in Publishers
               /\ branch \in Branches
               /\ exportFaults \in 0..MaxExportFaults
BY DEF ExportTypeOK, Exporters, Publishers, Branches

LEMMA NoDirTyped == NoDir \in Dir
BY BoundsAssumption DEF NoDir, Dir

LEMMA NoExportTyped == NoExport \in Exporters
BY BoundsAssumption DEF NoExport, Exporters

LEMMA NoPublishTyped == NoPublish \in Publishers
BY BoundsAssumption DEF NoPublish, Publishers

LEMMA InitTyped == ExportInit => ExportTypeOK
BY NoDirTyped, NoExportTyped, NoPublishTyped, BoundsAssumption, Typed
   DEF ExportInit, Branches

LEMMA FaultTyped ==
    exportFaults \in 0..MaxExportFaults /\ Fault =>
        exportFaults' \in 0..MaxExportFaults
BY BoundsAssumption DEF Fault

LEMMA FreshNameIs ==
    Names \ Used # {} => FreshName \in Names /\ FreshName \notin Used
BY DEF FreshName

(* The two processes field by field.                                       *)
Exp(s, n, p, k, a, v, w) ==
    [stage |-> s, name |-> n, previous |-> p, keep |-> k, after |-> a,
     version |-> v, written |-> w]

Pub(s, n, p, l, g, v, o) ==
    [stage |-> s, name |-> n, published |-> p, listed |-> l, got |-> g,
     version |-> v, overtaken |-> o]

LEMMA ExpTyped ==
    ASSUME NEW s, NEW n, NEW p, NEW k, NEW a, NEW v, NEW w
    PROVE  Exp(s, n, p, k, a, v, w) \in Exporters <=>
               /\ s \in {"down", "removing", "sleep", "write", "point"}
               /\ n \in Names \cup {"none"} /\ p \in Names \cup {"none"}
               /\ k \in SUBSET Names
               /\ a \in {"none", "start", "failed", "done"}
               /\ v \in 0..MaxVersion /\ w \in SUBSET Entries
BY DEF Exp, Exporters

LEMMA PubTyped ==
    ASSUME NEW s, NEW n, NEW p, NEW l, NEW g, NEW v, NEW o
    PROVE  Pub(s, n, p, l, g, v, o) \in Publishers <=>
               /\ s \in {"down", "sleep", "usable", "list", "nodes", "read",
                         "push"}
               /\ n \in Names \cup {"none"} /\ p \in Names \cup {"none"}
               /\ l \in SUBSET Entries /\ g \in SUBSET Entries
               /\ v \in 0..MaxVersion /\ o \in 0..2
BY ZenonT(30) DEF Pub, Publishers

(* What each action makes of the exporter.                                 *)
LEMMA ExporterSteps ==
    ASSUME exporter \in Exporters
    PROVE
      /\ ExportStart => exporter' =
             Exp("removing", "none", pointer, KeptAtStart(pointer), "start", 0, {})
      /\ RemoveDone => exporter' =
             Exp("sleep", "none",
                 IF exporter.after = "done" THEN exporter.name
                 ELSE exporter.previous, {}, "none", 0, {})
      /\ ExportBegin => exporter' =
             Exp("write", FreshName, exporter.previous, exporter.keep,
                 exporter.after, db, exporter.written)
      /\ RenameStaging => exporter' =
             Exp("point", exporter.name, exporter.previous, exporter.keep,
                 exporter.after, 0, {})
      /\ ExportFails => exporter' =
             Exp("removing", exporter.name, exporter.previous,
                 Names \ {exporter.name}, "failed", 0, {})
      /\ WritePointer => exporter' =
             Exp("removing", exporter.name, exporter.previous,
                 KeptAfter(exporter.name, exporter.previous), "done",
                 exporter.version, exporter.written)
<1>1. ExportStart => exporter' =
          Exp("removing", "none", pointer, KeptAtStart(pointer), "start", 0, {})
  BY ZenonT(30) DEF ExportStart, NoExport, Exp
<1>2. RemoveDone => exporter' =
          Exp("sleep", "none",
              IF exporter.after = "done" THEN exporter.name
              ELSE exporter.previous, {}, "none", 0, {})
  BY ZenonT(30) DEF RemoveDone, NoExport, Exp
<1>3. ExportBegin => exporter' =
          Exp("write", FreshName, exporter.previous, exporter.keep,
              exporter.after, db, exporter.written)
  BY ZenonT(30) DEF ExportBegin, Exporters, Exp
<1>4. RenameStaging => exporter' =
          Exp("point", exporter.name, exporter.previous, exporter.keep,
              exporter.after, 0, {})
  BY ZenonT(30) DEF RenameStaging, Exporters, Exp
<1>5. ExportFails => exporter' =
          Exp("removing", exporter.name, exporter.previous,
              Names \ {exporter.name}, "failed", 0, {})
  BY ZenonT(30) DEF ExportFails, Exporters, Exp
<1>6. WritePointer => exporter' =
          Exp("removing", exporter.name, exporter.previous,
              KeptAfter(exporter.name, exporter.previous), "done",
              exporter.version, exporter.written)
  BY ZenonT(30) DEF WritePointer, Exporters, Exp
<1> QED BY <1>1, <1>2, <1>3, <1>4, <1>5, <1>6

(* Writing a file to the staging directory.                                *)
LEMMA WriteFileStep ==
    ASSUME exporter \in Exporters, NEW e \in NodeFiles \cup {"registry"},
           WriteFile(e)
    PROVE  \E w \in SUBSET Entries :
               exporter' = Exp("write", exporter.name, exporter.previous,
                               exporter.keep, exporter.after, exporter.version, w)
<1> DEFINE w == exporter.written \cup {e}
                    \cup (IF e \in NodeFiles THEN {"nodes"} ELSE {})
<1>1. w \in SUBSET Entries
  BY DEF Exporters, Entries
<1>2. exporter' = [exporter EXCEPT !.written = w] /\ exporter.stage = "write"
  BY WriteFile(e) DEF WriteFile
<1> HIDE DEF w
<1>3. exporter' = Exp("write", exporter.name, exporter.previous,
                      exporter.keep, exporter.after, exporter.version, w)
  BY <1>2 DEF Exp, Exporters
<1> QED BY <1>1, <1>3

(* What the exporter does to the count of a reader it overtakes.           *)
LEMMA OvertakenStep ==
    ASSUME NEW moved \in BOOLEAN, publisher \in Publishers, Overtaken(moved)
    PROVE  \E o \in 0..2 :
             /\ publisher' = Pub(publisher.stage, publisher.name,
                                 publisher.published, publisher.listed,
                                 publisher.got, publisher.version, o)
             /\ o = IF Reading /\ moved /\ publisher.overtaken < 2
                    THEN publisher.overtaken + 1 ELSE publisher.overtaken
<1> DEFINE o == IF Reading /\ moved /\ publisher.overtaken < 2
                THEN publisher.overtaken + 1 ELSE publisher.overtaken
<1>1. o \in 0..2
  BY DEF Publishers
<1>2. publisher' = [publisher EXCEPT !.overtaken = o]
  BY DEF Overtaken
<1>3. publisher' = Pub(publisher.stage, publisher.name,
                       publisher.published, publisher.listed,
                       publisher.got, publisher.version, o)
  <2> HIDE DEF o
  <2> QED BY <1>2 DEF Pub, Publishers
<1> QED BY <1>1, <1>3

Rested == Pub("sleep", "none", publisher.published, {}, {}, 0, 0)

LEMMA AwakeIs == ASSUME NEW r, r = Awake PROVE r = Rested
BY ZenonT(30) DEF Awake, NoPublish, Rested, Pub

At(s, l, v) == Pub(s, publisher.name, publisher.published, l, publisher.got, v,
                   publisher.overtaken)

(* What each action makes of the publisher.                                *)
LEMMA PublisherSteps ==
    ASSUME publisher \in Publishers
    PROVE
      /\ PublishStart => publisher' = Pub("sleep", "none", "none", {}, {}, 0, 0)
      /\ ReadPointer => publisher' =
             Pub("usable", pointer, publisher.published, {}, {}, 0, 0)
      /\ CheckUsable => publisher' \in
             {At("list", publisher.listed, publisher.version), Rested}
      /\ ListRoot => publisher' =
             At("nodes", Snapshot.entries \cap {"nodes", "registry"},
                Snapshot.version)
      /\ ListNodes => publisher' \in
             {At("read", (publisher.listed \cup (Snapshot.entries \cap NodeFiles))
                             \ {"nodes"}, publisher.version), Rested}
      /\ ReadDone => publisher' \in
             {At("push", publisher.listed, publisher.version), Rested}
<1>1. PublishStart => publisher' = Pub("sleep", "none", "none", {}, {}, 0, 0)
  BY DEF PublishStart, NoPublish, Pub
<1>2. ReadPointer => publisher' =
          Pub("usable", pointer, publisher.published, {}, {}, 0, 0)
  BY ZenonT(30) DEF ReadPointer, Awake, NoPublish, Pub
<1>3. CheckUsable => publisher' \in
          {At("list", publisher.listed, publisher.version), Rested}
  BY AwakeIs DEF CheckUsable, Go, GiveUp, At, Pub, Publishers
<1>4. ListRoot => publisher' =
          At("nodes", Snapshot.entries \cap {"nodes", "registry"},
             Snapshot.version)
  BY ZenonT(30) DEF ListRoot, At, Pub, Publishers
<1>5. ListNodes => publisher' \in
          {At("read", (publisher.listed \cup (Snapshot.entries \cap NodeFiles))
                          \ {"nodes"}, publisher.version), Rested}
  <2> DEFINE l == (publisher.listed \cup (Snapshot.entries \cap NodeFiles))
                      \ {"nodes"}
  <2>1. ListNodes => \/ publisher' = Awake
                     \/ publisher' = [publisher EXCEPT !.stage = "read",
                                                       !.listed = l]
    BY Zenon DEF ListNodes, GiveUp
  <2> HIDE DEF l
  <2>2. ASSUME publisher' = [publisher EXCEPT !.stage = "read", !.listed = l]
        PROVE  publisher' = At("read", l, publisher.version)
    BY <2>2, ZenonT(30) DEF At, Pub, Publishers
  <2> QED BY <2>1, <2>2, AwakeIs DEF l
<1>6. ReadDone => publisher' \in
          {At("push", publisher.listed, publisher.version), Rested}
  BY AwakeIs DEF ReadDone, Go, GiveUp, At, Pub, Publishers
<1> QED BY <1>1, <1>2, <1>3, <1>4, <1>5, <1>6

LEMMA ReadEntryStep ==
    ASSUME publisher \in Publishers, NEW e \in NodeFiles \cup {"registry"},
           ReadEntry(e)
    PROVE  \/ publisher' = Rested
           \/ publisher' = Pub("read", publisher.name, publisher.published,
                               publisher.listed, publisher.got \cup {e},
                               publisher.version, publisher.overtaken)
BY AwakeIs DEF ReadEntry, GiveUp, Pub, Publishers

LEMMA PushStep ==
    ASSUME publisher \in Publishers, NEW moved \in BOOLEAN, NEW ok \in BOOLEAN,
           PushSnapshot(moved, ok)
    PROVE  \E p \in Names \cup {"none"} :
               publisher' = Pub("sleep", "none", p, {}, {}, 0, 0)
<1> DEFINE p == IF ok THEN publisher.name ELSE publisher.published
<1>1. p \in Names \cup {"none"}
  BY DEF Publishers
<1>2. publisher' = [Rested EXCEPT !.published = p]
  BY AwakeIs DEF PushSnapshot, Rested, Pub
<1> HIDE DEF p
<1>3. publisher' = Pub("sleep", "none", p, {}, {}, 0, 0)
  BY <1>2, SMTT(30) DEF Rested, Pub
<1> QED BY <1>1, <1>3

(* Every step keeps the types, when a reader has a snapshot to read.       *)
LEMMA TypeStep ==
    /\ ExportTypeOK /\ (Reading => publisher.name \in Names)
    /\ [ExportNext]_exportVars
    => ExportTypeOK'
<1> SUFFICES ASSUME ExportTypeOK, Reading => publisher.name \in Names,
                    [ExportNext]_exportVars
             PROVE  ExportTypeOK'
  OBVIOUS
<1>1. /\ db \in 1..MaxVersion /\ dirs \in [Names -> Dir]
      /\ pointer \in Names \cup {"none"} /\ exporter \in Exporters
      /\ publisher \in Publishers /\ branch \in Branches
      /\ exportFaults \in 0..MaxExportFaults
  BY Typed
<1>a. SUFFICES /\ db' \in 1..MaxVersion /\ dirs' \in [Names -> Dir]
               /\ pointer' \in Names \cup {"none"} /\ exporter' \in Exporters
               /\ publisher' \in Publishers /\ branch' \in Branches
               /\ exportFaults' \in 0..MaxExportFaults
  BY DEF ExportTypeOK, Exporters, Publishers, Branches, Dir
<1> USE BoundsAssumption
<1>e. /\ exporter.name \in Names \cup {"none"}
      /\ exporter.previous \in Names \cup {"none"}
      /\ exporter.keep \in SUBSET Names
      /\ exporter.after \in {"none", "start", "failed", "done"}
      /\ exporter.version \in 0..MaxVersion
      /\ exporter.written \in SUBSET Entries
  BY <1>1 DEF Exporters
<1>p. /\ publisher.stage \in {"down", "sleep", "usable", "list", "nodes",
                              "read", "push"}
      /\ publisher.name \in Names \cup {"none"}
      /\ publisher.published \in Names \cup {"none"}
      /\ publisher.listed \in SUBSET Entries
      /\ publisher.got \in SUBSET Entries
      /\ publisher.version \in 0..MaxVersion /\ publisher.overtaken \in 0..2
  BY <1>1 DEF Publishers
<1>o. ASSUME NEW moved \in BOOLEAN, Overtaken(moved)
      PROVE  publisher' \in Publishers
  BY <1>1, <1>p, <1>o, OvertakenStep, PubTyped
<1>2. CASE Change
  BY <1>1, <1>2 DEF Change
<1>3. CASE ExportStart
  <2>1. KeptAtStart(pointer) \in SUBSET Names
    BY ZenonT(30) DEF KeptAtStart
  <2>2. exporter' \in Exporters
    BY <1>1, <1>3, <2>1, ExporterSteps, ExpTyped
  <2> QED BY <1>1, <1>3, <1>o, <2>2, ZenonT(30) DEF ExportStart
<1>4. CASE RemoveStep
  <2>1. PICK m \in Doomed :
            \/ \E e \in Removable(dirs[m]) :
                   dirs' = [dirs EXCEPT ![m].entries = @ \ {e}]
            \/ dirs[m].entries = {} /\ dirs' = [dirs EXCEPT ![m] = NoDir]
    BY <1>4 DEF RemoveStep
  <2>2. m \in Names /\ dirs[m] \in Dir
    BY <1>1, <2>1 DEF Doomed
  <2>3. ASSUME NEW e \in Removable(dirs[m]),
               dirs' = [dirs EXCEPT ![m].entries = @ \ {e}]
        PROVE  dirs' \in [Names -> Dir]
    <3> DEFINE row == [dirs[m] EXCEPT !.entries = @ \ {e}]
    <3>1. row \in Dir
      BY <2>2 DEF Dir
    <3>2. dirs' = [dirs EXCEPT ![m] = row]
      BY <2>3
    <3> HIDE DEF row
    <3> QED BY <1>1, <3>1, <3>2, ZenonT(30)
  <2>4. dirs' \in [Names -> Dir]
    BY <1>1, <2>1, <2>3, NoDirTyped
  <2> QED BY <1>1, <1>4, <2>4 DEF RemoveStep
<1>5. CASE RemoveDone
  <2>1. exporter' \in Exporters
    BY <1>1, <1>e, <1>5, ExporterSteps, ExpTyped
  <2> QED BY <1>1, <1>5, <2>1, ZenonT(30) DEF RemoveDone
<1>6. CASE RemoveFails
  BY <1>1, <1>6, NoExportTyped, FaultTyped DEF RemoveFails
<1>7. CASE ExportBegin
  <2>1. FreshName \in Names
    BY <1>7, FreshNameIs, ZenonT(30) DEF ExportBegin
  <2>2. exporter' \in Exporters
    BY <1>1, <1>e, <1>7, <2>1, ExporterSteps, ExpTyped
  <2> QED BY <1>1, <1>7, <2>2 DEF ExportBegin
<1>8. ASSUME NEW e \in NodeFiles \cup {"registry"}, WriteFile(e)
      PROVE  exporter' \in Exporters /\ UNCHANGED <<db, dirs, pointer, publisher,
                                                    branch, exportFaults>>
  <2>1. PICK w \in SUBSET Entries :
            exporter' = Exp("write", exporter.name, exporter.previous,
                            exporter.keep, exporter.after, exporter.version, w)
    BY <1>1, <1>8, WriteFileStep, SMTT(30)
  <2>2. exporter' \in Exporters
    BY <1>e, <2>1, ExpTyped
  <2> QED BY <1>8, <2>2 DEF WriteFile
<1>9. CASE RenameStaging
  <2>1. exporter' \in Exporters
    BY <1>1, <1>e, <1>9, ExporterSteps, ExpTyped
  <2> DEFINE row == [exists |-> TRUE, version |-> exporter.version,
                     entries |-> exporter.written]
  <2>2. row \in Dir
    BY <1>e DEF Dir
  <2>3. dirs' = [dirs EXCEPT ![exporter.name] = row]
    BY <1>9 DEF RenameStaging
  <2> HIDE DEF row
  <2>4. dirs' \in [Names -> Dir]
    BY <1>1, <2>2, <2>3, ZenonT(30)
  <2> QED BY <1>1, <1>9, <2>1, <2>4, ZenonT(30) DEF RenameStaging
<1>10. CASE WritePointer
  <2>1. KeptAfter(exporter.name, exporter.previous) \in SUBSET Names
    BY ZenonT(30) DEF KeptAfter
  <2>2. exporter' \in Exporters
    BY <1>1, <1>e, <1>10, <2>1, ExporterSteps, ExpTyped
  <2> QED BY <1>1, <1>e, <1>10, <1>o, <2>2, ZenonT(30) DEF WritePointer
<1>11. CASE ExportFails
  <2>1. exporter' \in Exporters
    BY <1>1, <1>e, <1>11, ExporterSteps, ExpTyped
  <2> QED BY <1>1, <1>11, <2>1, FaultTyped, ZenonT(30) DEF ExportFails
<1>12. CASE KillExporter
  BY <1>1, <1>12, NoExportTyped, FaultTyped, ZenonT(30) DEF KillExporter
<1>13. Rested \in Publishers
  BY <1>p, PubTyped DEF Rested
<1>14. ASSUME PublishStep, ~PushSnapshot(TRUE, TRUE)
       PROVE  /\ publisher' \in Publishers
              /\ UNCHANGED <<db, dirs, pointer, exporter, branch, exportFaults>>
  <2>1. CASE PublishStart
    <3>1. publisher' \in Publishers
      BY <1>1, <2>1, PublisherSteps, PubTyped
    <3> QED BY <2>1, <3>1, ZenonT(30) DEF PublishStart
  <2>2. CASE ReadPointer
    <3>1. publisher' \in Publishers
      BY <1>1, <1>p, <2>2, PublisherSteps, PubTyped
    <3> QED BY <2>2, <3>1, ZenonT(30) DEF ReadPointer
  <2>3. CASE CheckUsable
    <3>1. publisher' \in Publishers
      BY <1>1, <1>p, <1>13, <2>3, PublisherSteps, PubTyped DEF At
    <3> QED BY <2>3, <3>1, ZenonT(30) DEF CheckUsable
  <2>4. CASE ListRoot
    <3>1. Snapshot \in Dir
      BY <1>1, <2>4 DEF ListRoot, Reading, Snapshot
    <3>2. /\ Snapshot.entries \cap {"nodes", "registry"} \in SUBSET Entries
          /\ Snapshot.version \in 0..MaxVersion
      BY <3>1, ZenonT(30) DEF Dir, Entries
    <3>3. publisher' \in Publishers
      BY <1>1, <1>p, <2>4, <3>2, PublisherSteps, PubTyped DEF At
    <3> QED BY <2>4, <3>3 DEF ListRoot
  <2>5. CASE ListNodes
    <3>1. (publisher.listed \cup (Snapshot.entries \cap NodeFiles)) \ {"nodes"}
              \in SUBSET Entries
      BY <1>p, ZenonT(30) DEF Entries
    <3>2. publisher' \in Publishers
      BY <1>1, <1>p, <1>13, <2>5, <3>1, PublisherSteps, PubTyped DEF At
    <3> QED BY <2>5, <3>2 DEF ListNodes
  <2>6. ASSUME NEW e \in NodeFiles \cup {"registry"}, ReadEntry(e)
        PROVE  /\ publisher' \in Publishers
               /\ UNCHANGED <<db, dirs, pointer, exporter, branch, exportFaults>>
    <3>1. publisher.got \cup {e} \in SUBSET Entries
      BY <1>p DEF Entries
    <3>2. \/ publisher' = Rested
          \/ publisher' = Pub("read", publisher.name, publisher.published,
                              publisher.listed, publisher.got \cup {e},
                              publisher.version, publisher.overtaken)
      BY <1>1, <2>6, ReadEntryStep, ZenonT(30)
    <3>3. publisher' \in Publishers
      BY <1>p, <1>13, <3>1, <3>2, PubTyped
    <3> QED BY <2>6, <3>3 DEF ReadEntry
  <2>7. CASE ReadDone
    <3>1. publisher' \in Publishers
      BY <1>1, <1>p, <1>13, <2>7, PublisherSteps, PubTyped DEF At
    <3> QED BY <2>7, <3>1, ZenonT(30) DEF ReadDone
  <2> QED BY <1>14, <2>1, <2>2, <2>3, <2>4, <2>5, <2>6, <2>7, ZenonT(30) DEF PublishStep
<1>15. ASSUME NEW moved \in BOOLEAN, NEW ok \in BOOLEAN, PushSnapshot(moved, ok)
       PROVE  /\ publisher' \in Publishers /\ branch' \in Branches
              /\ exportFaults' \in 0..MaxExportFaults
              /\ UNCHANGED <<db, dirs, pointer, exporter>>
  <2>1. publisher' \in Publishers
    BY <1>1, <1>15, PushStep, PubTyped
  <2>2. branch' \in Branches
    BY <1>1, <1>p, <1>15 DEF PushSnapshot, Branches
  <2> QED BY <1>1, <1>15, <2>1, <2>2, FaultTyped, ZenonT(30) DEF PushSnapshot, NoFault
<1>16. CASE KillPublisher
  BY <1>1, <1>16, NoPublishTyped, FaultTyped, SMTT(30) DEF KillPublisher
<1>17. CASE UNCHANGED exportVars
  BY <1>1, <1>17, ZenonT(30) DEF exportVars
<1>18. CASE ExportStep
  BY <1>1, <1>3, <1>4, <1>5, <1>7, <1>8, <1>9, <1>10, <1>18, ZenonT(30) DEF ExportStep
<1>19. CASE PublishStep
  BY <1>1, <1>14, <1>15, <1>19, ZenonT(30)
<1> QED
  BY <1>1, <1>2, <1>6, <1>11, <1>12, <1>15, <1>16, <1>17, <1>18, <1>19,
     ZenonT(30)
  DEF ExportNext

-----------------------------------------------------------------------------
(* The exporter keeps the snapshot that the pointer names.                 *)

LEMMA PublisherLeaves ==
    Change \/ PublishStep \/ KillPublisher
        \/ (\E moved, ok \in BOOLEAN : PushSnapshot(moved, ok))
    => UNCHANGED <<dirs, pointer, exporter>>
BY DEF Change, PublishStep, KillPublisher, PushSnapshot, PublishStart, ReadPointer,
       CheckUsable, ListRoot, ListNodes, ReadEntry, ReadDone

(* A removal changes no directory that is kept.                            *)
LEMMA RemovalSpares ==
    ASSUME ExportTypeOK, RemoveStep, NEW n \in exporter.keep, n \in Names
    PROVE  dirs'[n] = dirs[n]
<1>1. PICK m \in Doomed :
          \/ \E e \in Removable(dirs[m]) :
                 dirs' = [dirs EXCEPT ![m].entries = @ \ {e}]
          \/ dirs[m].entries = {} /\ dirs' = [dirs EXCEPT ![m] = NoDir]
  BY DEF RemoveStep
<1>2. m # n /\ dirs \in [Names -> Dir]
  BY <1>1 DEF Doomed, ExportTypeOK
<1> QED BY <1>1, <1>2

LEMMA ExporterStep ==
    ExportTypeOK /\ ExporterInv /\ [ExportNext]_exportVars => ExporterInv'
<1> SUFFICES ASSUME ExportTypeOK, ExporterInv, [ExportNext]_exportVars PROVE ExporterInv'
  OBVIOUS
<1>1. /\ dirs \in [Names -> Dir] /\ pointer \in Names \cup {"none"}
      /\ exporter \in Exporters
  BY Typed
<1>e. /\ exporter.name \in Names \cup {"none"}
      /\ exporter.previous \in Names \cup {"none"}
  BY <1>1 DEF Exporters
<1>n. "none" \notin Names
  BY NamesAssumption, ZenonT(30)
<1>2. CASE UNCHANGED <<dirs, pointer, exporter>>
  BY <1>2 DEF ExporterInv, PointerValid, Whole
<1>3. CASE ExportStart
  <2>1. exporter' = Exp("removing", "none", pointer, KeptAtStart(pointer),
                        "start", 0, {})
    BY <1>1, <1>3, ExporterSteps
  <2>2. UNCHANGED <<dirs, pointer>>
    BY <1>3 DEF ExportStart
  <2>3. pointer # "none" => pointer \in KeptAtStart(pointer)
    BY <1>1, ZenonT(30) DEF KeptAtStart
  <2> QED BY <2>1, <2>2, <2>3, ZenonT(30) DEF ExporterInv, PointerValid, Whole, Exp
<1>4. CASE RemoveStep
  <2>1. UNCHANGED <<pointer, exporter>> /\ exporter.stage = "removing"
    BY <1>4 DEF RemoveStep
  <2>2. pointer # "none" => dirs'[pointer] = dirs[pointer]
    BY <1>1, <1>4, <2>1, RemovalSpares, ZenonT(30) DEF ExporterInv
  <2> QED BY <2>1, <2>2 DEF ExporterInv, PointerValid
<1>5. CASE RemoveDone
  <2>1. exporter' = Exp("sleep", "none",
                        IF exporter.after = "done" THEN exporter.name
                        ELSE exporter.previous, {}, "none", 0, {})
    BY <1>1, <1>5, ExporterSteps
  <2>2. UNCHANGED <<dirs, pointer>> /\ exporter.stage = "removing"
    BY <1>5, ZenonT(30) DEF RemoveDone
  <2> QED BY <2>1, <2>2, ZenonT(30) DEF ExporterInv, PointerValid, Exp
<1>6. CASE RemoveFails \/ KillExporter
  <2>1. exporter' = NoExport /\ UNCHANGED <<dirs, pointer>>
    BY <1>6, ZenonT(30) DEF RemoveFails, KillExporter
  <2> QED BY <2>1 DEF ExporterInv, PointerValid, NoExport
<1>7. CASE ExportBegin
  <2>1. exporter' = Exp("write", FreshName, exporter.previous, exporter.keep,
                        exporter.after, db, exporter.written)
    BY <1>1, <1>7, ExporterSteps
  <2>2. UNCHANGED <<dirs, pointer>> /\ exporter.stage = "sleep"
    BY <1>7 DEF ExportBegin
  <2>3. FreshName \in Names /\ FreshName # pointer
    BY <1>7, FreshNameIs, ZenonT(30) DEF ExportBegin, Used
  <2> QED BY <2>1, <2>2, <2>3, ZenonT(30) DEF ExporterInv, PointerValid, Exp
<1>8. ASSUME NEW e \in NodeFiles \cup {"registry"}, WriteFile(e)
      PROVE  ExporterInv'
  <2>1. PICK w \in SUBSET Entries :
            exporter' = Exp("write", exporter.name, exporter.previous,
                            exporter.keep, exporter.after, exporter.version, w)
    BY <1>1, <1>8, WriteFileStep
  <2>2. UNCHANGED <<dirs, pointer>> /\ exporter.stage = "write"
    BY <1>8, ZenonT(30) DEF WriteFile
  <2> QED BY <2>1, <2>2 DEF ExporterInv, PointerValid, Exp
<1>9. CASE RenameStaging
  <2>1. exporter' = Exp("point", exporter.name, exporter.previous, exporter.keep,
                        exporter.after, 0, {})
    BY <1>1, <1>9, ExporterSteps
  <2>2. UNCHANGED pointer /\ exporter.stage = "write"
    BY <1>9 DEF RenameStaging
  <2>3. exporter.name \in Names /\ exporter.name # pointer
    BY <2>2 DEF ExporterInv
  <2>4. dirs'[exporter.name] = [exists |-> TRUE, version |-> exporter.version,
                                entries |-> exporter.written]
    BY <1>1, <1>9, <2>3 DEF RenameStaging
  <2>5. Whole(dirs'[exporter.name])
    BY <1>9, <2>4 DEF RenameStaging, Written, Whole
  <2>6. pointer # "none" => dirs'[pointer] = dirs[pointer]
    BY <1>1, <1>9, <2>3, ZenonT(30) DEF RenameStaging
  <2> QED BY <2>1, <2>2, <2>3, <2>5, <2>6, ZenonT(30) DEF ExporterInv, PointerValid, Exp
<1>10. CASE WritePointer
  <2>1. exporter' = Exp("removing", exporter.name, exporter.previous,
                        KeptAfter(exporter.name, exporter.previous), "done",
                        exporter.version, exporter.written)
    BY <1>1, <1>10, ExporterSteps
  <2>2. /\ pointer' = exporter.name /\ UNCHANGED dirs
        /\ exporter.stage = "point"
    BY <1>10 DEF WritePointer
  <2>3. exporter.name \in Names /\ Whole(dirs[exporter.name])
    BY <2>2 DEF ExporterInv
  <2>4. exporter.name \in KeptAfter(exporter.name, exporter.previous)
    BY <2>3, ZenonT(30) DEF KeptAfter
  <2> QED BY <2>1, <2>2, <2>3, <2>4, ZenonT(30) DEF ExporterInv, PointerValid, Exp, Whole
<1>11. CASE ExportFails
  <2>1. exporter' = Exp("removing", exporter.name, exporter.previous,
                        Names \ {exporter.name}, "failed", 0, {})
    BY <1>1, <1>11, ExporterSteps
  <2>2. UNCHANGED <<dirs, pointer>> /\ exporter.stage \in {"write", "point"}
    BY <1>11 DEF ExportFails
  <2> QED BY <1>1, <2>1, <2>2, ZenonT(30) DEF ExporterInv, PointerValid, Exp
<1>12. CASE ExportStep
  BY <1>3, <1>4, <1>5, <1>7, <1>8, <1>9, <1>10, <1>12, ZenonT(30) DEF ExportStep
<1> QED
  BY <1>2, <1>6, <1>11, <1>12, PublisherLeaves, ZenonT(30) DEF ExportNext, exportVars

-----------------------------------------------------------------------------
(* A reader that is overtaken at most once reads a whole snapshot.         *)

(* Steps of the exporter that leave the pointer and the reader alone.      *)
LEMMA ReaderUndisturbed ==
    ASSUME ExportTypeOK, ExporterInv, ReaderInv, UNCHANGED <<publisher, pointer>>,
           Safe => Whole(dirs'[publisher.name]),
           Safe /\ exporter'.stage = "removing" =>
               publisher.name \in exporter'.keep,
           Safe /\ exporter'.stage \in {"write", "point"} =>
               exporter'.name # publisher.name
    PROVE  ReaderInv'
BY DEF ReaderInv, Safe, Reading, Whole, PublishedWhole

LEMMA ReaderOfExport ==
    ASSUME ExportTypeOK, ExporterInv, ReaderInv,
           ExportStep \/ RemoveFails \/ ExportFails \/ KillExporter
    PROVE  ReaderInv'
<1>1. /\ dirs \in [Names -> Dir] /\ pointer \in Names \cup {"none"}
      /\ exporter \in Exporters /\ publisher \in Publishers
  BY Typed
<1>n. Safe => publisher.name \in Names
  BY DEF ReaderInv, Safe
<1>o. publisher.overtaken \in 0..2
  BY <1>1, SMTT(30) DEF Publishers
<1>3. CASE ExportStart
  <2>1. exporter' = Exp("removing", "none", pointer, KeptAtStart(pointer),
                        "start", 0, {})
    BY <1>1, <1>3, ExporterSteps
  <2>2. UNCHANGED <<dirs, pointer>>
    BY <1>3 DEF ExportStart
  <2>3. PICK o \in 0..2 :
            /\ publisher' = Pub(publisher.stage, publisher.name,
                                publisher.published, publisher.listed,
                                publisher.got, publisher.version, o)
            /\ o = IF Reading /\ pointer # publisher.name
                        /\ publisher.overtaken < 2
                   THEN publisher.overtaken + 1 ELSE publisher.overtaken
    BY <1>1, <1>3, OvertakenStep, ZenonT(30) DEF ExportStart
  <2>4. Reading /\ o < 2 => Safe /\ pointer = publisher.name
    BY <1>o, <2>3 DEF ReaderInv, Safe
  <2>5. Safe' <=> Reading /\ o < 2
    BY <2>3 DEF Safe, Reading, Pub
  <2>6. Safe' => publisher.name \in KeptAtStart(pointer)
    BY <1>n, <2>4, <2>5, ZenonT(30) DEF KeptAtStart
  <2>7. PublishedWhole'
    BY <2>3, ZenonT(30) DEF ReaderInv, PublishedWhole, Pub, Reading
  <2>8. Reading' => publisher'.name \in Names
    BY <2>3, ZenonT(30) DEF ReaderInv, Reading, Pub
  <2> QED BY <2>1, <2>2, <2>3, <2>4, <2>5, <2>6, <2>7, <2>8, ZenonT(30)
             DEF ReaderInv, Whole, Exp, Pub
<1>4. CASE RemoveStep
  <2>1. UNCHANGED <<pointer, exporter, publisher>> /\ exporter.stage = "removing"
    BY <1>4, SMTT(30) DEF RemoveStep
  <2>2. Safe => dirs'[publisher.name] = dirs[publisher.name]
    BY <1>n, <1>4, <2>1, RemovalSpares, ZenonT(30) DEF ReaderInv
  <2> QED BY <2>1, <2>2, ReaderUndisturbed DEF ReaderInv
<1>5. CASE RemoveDone
  <2>1. exporter' = Exp("sleep", "none",
                        IF exporter.after = "done" THEN exporter.name
                        ELSE exporter.previous, {}, "none", 0, {})
    BY <1>1, <1>5, ExporterSteps
  <2>2. UNCHANGED <<dirs, pointer, publisher>>
    BY <1>5, SMTT(30) DEF RemoveDone
  <2>3. exporter'.stage = "sleep"
    BY <2>1, ZenonT(30) DEF Exp
  <2> QED BY <2>2, <2>3, ReaderUndisturbed, ZenonT(30) DEF ReaderInv
<1>6. CASE RemoveFails \/ KillExporter
  <2>1. exporter' = NoExport /\ UNCHANGED <<dirs, pointer, publisher>>
    BY <1>6 DEF RemoveFails, KillExporter
  <2>2. exporter'.stage = "down"
    BY <2>1, SMTT(30) DEF NoExport
  <2> QED BY <2>1, <2>2, ReaderUndisturbed DEF ReaderInv
<1>7. CASE ExportBegin
  <2>1. exporter' = Exp("write", FreshName, exporter.previous, exporter.keep,
                        exporter.after, db, exporter.written)
    BY <1>1, <1>7, ExporterSteps
  <2>2. UNCHANGED <<dirs, pointer, publisher>>
    BY <1>7 DEF ExportBegin
  <2>3. FreshName # publisher.name
    BY <1>7, FreshNameIs DEF ExportBegin, Used
  <2>4. exporter'.stage = "write" /\ exporter'.name = FreshName
    BY <2>1, ZenonT(30) DEF Exp
  <2> QED BY <2>2, <2>3, <2>4, ReaderUndisturbed, ZenonT(30) DEF ReaderInv
<1>8. ASSUME NEW e \in NodeFiles \cup {"registry"}, WriteFile(e)
      PROVE  ReaderInv'
  <2>1. PICK w \in SUBSET Entries :
            exporter' = Exp("write", exporter.name, exporter.previous,
                            exporter.keep, exporter.after, exporter.version, w)
    BY <1>1, <1>8, WriteFileStep
  <2>2. UNCHANGED <<dirs, pointer, publisher>> /\ exporter.stage = "write"
    BY <1>8 DEF WriteFile
  <2>3. exporter'.stage = "write" /\ exporter'.name = exporter.name
    BY <2>1, ZenonT(30) DEF Exp
  <2> QED BY <2>2, <2>3, ReaderUndisturbed DEF ReaderInv
<1>9. CASE RenameStaging
  <2>1. exporter' = Exp("point", exporter.name, exporter.previous, exporter.keep,
                        exporter.after, 0, {})
    BY <1>1, <1>9, ExporterSteps
  <2>2. UNCHANGED <<pointer, publisher>> /\ exporter.stage = "write"
    BY <1>9 DEF RenameStaging
  <2>3. exporter'.stage = "point" /\ exporter'.name = exporter.name
    BY <2>1 DEF Exp
  <2>4. Safe => exporter.name # publisher.name
    BY <2>2 DEF ReaderInv
  <2>5. Safe => dirs'[publisher.name] = dirs[publisher.name]
    BY <1>1, <1>n, <1>9, <2>4, SMTT(30) DEF RenameStaging
  <2> QED BY <2>2, <2>3, <2>4, <2>5, ReaderUndisturbed, ZenonT(30) DEF ReaderInv
<1>10. CASE WritePointer
  <2>1. exporter' = Exp("removing", exporter.name, exporter.previous,
                        KeptAfter(exporter.name, exporter.previous), "done",
                        exporter.version, exporter.written)
    BY <1>1, <1>10, ExporterSteps
  <2>2. /\ pointer' = exporter.name /\ UNCHANGED dirs
        /\ exporter.stage = "point"
    BY <1>10 DEF WritePointer
  <2>3. PICK o \in 0..2 :
            /\ publisher' = Pub(publisher.stage, publisher.name,
                                publisher.published, publisher.listed,
                                publisher.got, publisher.version, o)
            /\ o = IF Reading /\ TRUE /\ publisher.overtaken < 2
                   THEN publisher.overtaken + 1 ELSE publisher.overtaken
    BY <1>1, <1>10, OvertakenStep, ZenonT(30) DEF WritePointer
  <2>4. Reading /\ o < 2 => Safe /\ o # 0 /\ pointer = publisher.name
    BY <1>o, <2>3 DEF ReaderInv, Safe
  <2>5. Safe' <=> Reading /\ o < 2
    BY <2>3 DEF Safe, Reading, Pub
  <2>6. exporter.previous = pointer
    BY <2>2 DEF ExporterInv
  <2>7. Safe' => publisher.name \in KeptAfter(exporter.name, exporter.previous)
    BY <1>n, <2>4, <2>5, <2>6, ZenonT(30) DEF KeptAfter
  <2>8. PublishedWhole'
    BY <2>3, ZenonT(30) DEF ReaderInv, PublishedWhole, Pub, Reading
  <2>9. Reading' => publisher'.name \in Names
    BY <2>3, ZenonT(30) DEF ReaderInv, Reading, Pub
  <2> QED BY <2>1, <2>2, <2>3, <2>4, <2>5, <2>7, <2>8, <2>9, ZenonT(30)
             DEF ReaderInv, Whole, Exp, Pub
<1>11. CASE ExportFails
  <2>1. exporter' = Exp("removing", exporter.name, exporter.previous,
                        Names \ {exporter.name}, "failed", 0, {})
    BY <1>1, <1>11, ExporterSteps
  <2>2. /\ UNCHANGED <<dirs, pointer, publisher>>
        /\ exporter.stage \in {"write", "point"}
    BY <1>11, ZenonT(30) DEF ExportFails
  <2>3. /\ exporter'.stage = "removing"
        /\ exporter'.keep = Names \ {exporter.name}
    BY <2>1 DEF Exp
  <2> QED BY <1>n, <2>2, <2>3, ReaderUndisturbed, ZenonT(30) DEF ReaderInv
<1> QED
  BY <1>3, <1>4, <1>5, <1>6, <1>7, <1>8, <1>9, <1>10, <1>11 DEF ExportStep

(* The reader's own steps.                                                 *)
LEMMA ReaderOfPublish ==
    ASSUME ExportTypeOK, ExporterInv, ReaderInv,
           UNCHANGED <<dirs, pointer, exporter>>,
           \/ PublishStep \/ KillPublisher
           \/ \E moved, ok \in BOOLEAN : PushSnapshot(moved, ok)
    PROVE  ReaderInv'
<1>1. /\ dirs \in [Names -> Dir] /\ pointer \in Names \cup {"none"}
      /\ publisher \in Publishers
  BY Typed
<1>n. "nodes" \notin NodeFiles
  BY NamesAssumption
<1>s. Reading => publisher.stage # "push"
  BY ZenonT(30) DEF Reading
<1>2. ASSUME publisher'.stage \in {"down", "sleep"} PROVE ReaderInv'
  BY <1>2 DEF ReaderInv, Safe, Reading, PublishedWhole
<1>3. Rested.stage = "sleep"
  BY DEF Rested, Pub
<1>4. CASE PublishStart
  <2>1. publisher'.stage = "sleep"
    BY <1>1, <1>4, PublisherSteps DEF Pub
  <2> QED BY <1>2, <2>1, ZenonT(30)
<1>5. CASE KillPublisher
  <2>1. publisher'.stage = "down"
    BY <1>5 DEF KillPublisher, NoPublish
  <2> QED BY <1>2, <2>1, ZenonT(30)
<1>6. ASSUME NEW moved \in BOOLEAN, NEW ok \in BOOLEAN, PushSnapshot(moved, ok)
      PROVE  ReaderInv'
  <2>1. publisher'.stage = "sleep"
    BY <1>1, <1>6, PushStep, SMTT(30) DEF Pub
  <2> QED BY <1>2, <2>1
<1>7. CASE ReadPointer
  <2>1. publisher' = Pub("usable", pointer, publisher.published, {}, {}, 0, 0)
    BY <1>1, <1>7, PublisherSteps
  <2>2. pointer # "none" /\ pointer \in Names
    BY <1>1, <1>7, ZenonT(30) DEF ReadPointer
  <2>3. Whole(dirs[pointer])
    BY <2>2 DEF ExporterInv, PointerValid, Whole
  <2> QED BY <2>1, <2>2, <2>3, ZenonT(30)
             DEF ExporterInv, ReaderInv, Safe, Reading, PublishedWhole, Whole, Pub
<1>8. CASE CheckUsable
  <2>1. publisher' \in {At("list", publisher.listed, publisher.version), Rested}
    BY <1>1, <1>8, PublisherSteps, ZenonT(30)
  <2>2. CASE publisher' = At("list", publisher.listed, publisher.version)
    BY <1>8, <2>2 DEF CheckUsable, ReaderInv, Safe, Reading, PublishedWhole,
                      Whole, At, Pub
  <2> QED BY <1>2, <1>3, <2>1, <2>2, SMTT(30)
<1>9. CASE ListRoot
  <2>1. publisher' = At("nodes", Snapshot.entries \cap {"nodes", "registry"},
                        Snapshot.version)
    BY <1>1, <1>9, PublisherSteps
  <2>2. Safe => Snapshot.entries \cap {"nodes", "registry"}
                    = {"nodes", "registry"}
    BY DEF ReaderInv, Whole, Snapshot, Entries
  <2> QED BY <1>9, <2>1, <2>2, ZenonT(30)
             DEF ListRoot, ReaderInv, Safe, Reading, PublishedWhole, Whole, At, Pub
<1>10. CASE ListNodes
  <2> DEFINE l == (publisher.listed \cup (Snapshot.entries \cap NodeFiles))
                      \ {"nodes"}
  <2>1. publisher' \in {At("read", l, publisher.version), Rested}
    BY <1>1, <1>10, PublisherSteps
  <2>2. publisher.stage = "nodes"
    BY <1>10, ZenonT(30) DEF ListNodes
  <2>3. Safe => l = Files
    BY <1>n, <2>2, SMTT(30) DEF ReaderInv, Whole, Snapshot, Entries, Files
  <2> HIDE DEF l
  <2>4. CASE publisher' = At("read", l, publisher.version)
    BY <2>2, <2>3, <2>4, ZenonT(30) DEF ReaderInv, Safe, Reading, PublishedWhole, Whole,
                            At, Pub
  <2> QED BY <1>2, <1>3, <2>1, <2>4, ZenonT(30)
<1>11. ASSUME NEW e \in NodeFiles \cup {"registry"}, ReadEntry(e)
       PROVE  ReaderInv'
  <2>1. \/ publisher' = Rested
        \/ publisher' = Pub("read", publisher.name, publisher.published,
                            publisher.listed, publisher.got \cup {e},
                            publisher.version, publisher.overtaken)
    BY <1>1, <1>11, ReadEntryStep
  <2>2. CASE publisher' = Pub("read", publisher.name, publisher.published,
                              publisher.listed, publisher.got \cup {e},
                              publisher.version, publisher.overtaken)
    BY <1>11, <2>2 DEF ReadEntry, ReaderInv, Safe, Reading, PublishedWhole,
                       Whole, Pub
  <2> QED BY <1>2, <1>3, <2>1, <2>2, ZenonT(30)
<1>12. CASE ReadDone
  <2>1. publisher' \in {At("push", publisher.listed, publisher.version), Rested}
    BY <1>1, <1>12, PublisherSteps, ZenonT(30)
  <2>2. publisher.stage = "read" /\ publisher.listed = publisher.got
    BY <1>12, ZenonT(30) DEF ReadDone
  <2>3. CASE publisher' = At("push", publisher.listed, publisher.version)
    BY <2>2, <2>3 DEF ReaderInv, Safe, Reading, PublishedWhole, At, Pub
  <2> QED BY <1>2, <1>3, <2>1, <2>3, ZenonT(30)
<1> QED
  BY <1>4, <1>5, <1>6, <1>7, <1>8, <1>9, <1>10, <1>11, <1>12, ZenonT(30) DEF PublishStep

(* The inductive invariant.                                                *)
SnapshotInv == ExportTypeOK /\ ExporterInv /\ ReaderInv

LEMMA SnapshotInit == ExportInit => SnapshotInv
<1> SUFFICES ASSUME ExportInit PROVE SnapshotInv
  OBVIOUS
<1>1. ExportTypeOK
  BY InitTyped, ZenonT(30)
<1>2. ExporterInv
  BY ZenonT(30) DEF ExportInit, ExporterInv, PointerValid, NoExport
<1>3. ReaderInv
  BY DEF ExportInit, ReaderInv, Safe, Reading, PublishedWhole, NoPublish
<1> QED BY <1>1, <1>2, <1>3 DEF SnapshotInv

LEMMA SnapshotStep == SnapshotInv /\ [ExportNext]_exportVars => SnapshotInv'
<1> SUFFICES ASSUME SnapshotInv, [ExportNext]_exportVars PROVE SnapshotInv'
  OBVIOUS
<1>1. ExportTypeOK /\ ExporterInv /\ ReaderInv
  BY DEF SnapshotInv
<1>2. ExportTypeOK'
  BY <1>1, TypeStep DEF ReaderInv
<1>3. ExporterInv'
  BY <1>1, ExporterStep
<1>4. ReaderInv'
  <2>1. CASE UNCHANGED <<dirs, pointer, exporter, publisher>>
    BY <1>1, <2>1, ReaderUndisturbed DEF ReaderInv
  <2>2. CASE ExportStep \/ RemoveFails \/ ExportFails \/ KillExporter
    BY <1>1, <2>2, ReaderOfExport
  <2>3. CASE \/ PublishStep \/ KillPublisher
             \/ \E moved, ok \in BOOLEAN : PushSnapshot(moved, ok)
    BY <1>1, <2>3, PublisherLeaves, ReaderOfPublish
  <2> QED BY <2>1, <2>2, <2>3, ZenonT(30) DEF ExportNext, Change, exportVars
<1> QED BY <1>2, <1>3, <1>4 DEF SnapshotInv

(* However many operations fail and however often either process is        *)
(* killed, for any set of names and files: the pointer that registry-      *)
(* export writes names a complete snapshot, and registry-publish sends     *)
(* complete snapshots unless, while it read one, the pointer was moved     *)
(* twice, or moved once before registry-export was started again.          *)
THEOREM SnapshotsStayWhole == ExportSpec => []SnapshotsWhole
<1>1. SnapshotInv => SnapshotsWhole
  BY DEF SnapshotInv, ExporterInv, ReaderInv, SnapshotsWhole
<1> QED BY <1>1, SnapshotInit, SnapshotStep, PTL DEF ExportSpec

=============================================================================
