------------------------ MODULE ParticipationHistory ------------------------
(***************************************************************************)
(* What is kept of the verifications of an origin and what the registry    *)
(* shows of it: internal/store/store.go, retention.go and registry.go, and *)
(* internal/publicdata/registry.go.                                        *)
(*                                                                         *)
(* A result is written by one statement: it updates the row of the origin  *)
(* and adds an observation.  The caller of RecordVerification supplies the *)
(* time of its result, so results come in any order of their times.  The   *)
(* statement holds the lock of the origin's row when the observation gets  *)
(* its id, so ids are in the order of the commits.  VerificationQueue      *)
(* models who may complete a verification; its statement (queue.go) writes *)
(* these rows in the same way, with the time of the database.              *)
(***************************************************************************)
EXTENDS Integers, FiniteSets

CONSTANTS
    VerifiedOrigins,  \* origins that are verified
    Times,            \* times a clock may show
    Results,          \* what a caller may pass as a result
    MaxRecords        \* bound: results recorded

VARIABLES
    rows,         \* origins: one row for each origin that has a result
    observations, \* verification_observations
    misses,       \* verification_reprobe_state.miss_count
    recorded      \* every observation ever made, in a set that is not purged

historyVars == <<rows, observations, misses, recorded>>

-----------------------------------------------------------------------------
Outcomes == {"valid", "absent", "invalid", "unsupported_version",
             "cross_origin_redirect", "unavailable", "robots_denied"}

(* The outcomes that replace what is known of a declaration.               *)
Authoritative == Outcomes \ {"unavailable", "robots_denied"}

Identities == {"undeclared", "affirmed", "declined"}

(* A declaration; the zero value of the struct is NoDeclaration.           *)
NoDeclaration == [version |-> 0, identity |-> "none"]

(* validVerificationResult                                                 *)
ValidResult(r) ==
    /\ r.outcome \in Outcomes
    /\ r.outcome = "valid" =>
           /\ r.declaration.version = 1
           /\ r.declaration.identity \in Identities
    /\ r.outcome # "valid" => r.declaration = NoDeclaration
    /\ IF r.outcome = "unavailable" THEN r.category = "known"
       ELSE r.category = "none"

NoRow == [stored |-> FALSE, firstObserved |-> 0, participated |-> 0,
          initial |-> NoDeclaration, latestAt |-> 0, latestOutcome |-> "none"]

Declarations == {NoDeclaration} \cup [version : {1}, identity : Identities]

Observation ==
    [id : 1..MaxRecords, at : Times, outcome : Outcomes,
     declaration : Declarations]

HistoryTypeOK ==
    /\ rows \in [VerifiedOrigins ->
           [stored : BOOLEAN, firstObserved : Times \cup {0},
            participated : Times \cup {0}, initial : Declarations,
            latestAt : Times \cup {0}, latestOutcome : Outcomes \cup {"none"}]]
    /\ \A o \in VerifiedOrigins :
           /\ observations[o] \subseteq recorded[o]
           /\ \A x \in recorded[o] : x \in Observation
    /\ misses \in [VerifiedOrigins -> 0..MaxRecords]

HistoryInit ==
    /\ rows = [o \in VerifiedOrigins |-> NoRow]
    /\ observations = [o \in VerifiedOrigins |-> {}]
    /\ misses = [o \in VerifiedOrigins |-> 0]
    /\ recorded = [o \in VerifiedOrigins |-> {}]

-----------------------------------------------------------------------------
(* RecordVerification                                                      *)

EarlierParticipation(row, at) == row.participated = 0 \/ at < row.participated

(* Mutant: only a later time replaces the latest check.                    *)
NotOlderStrict(row, at) == at > row.latestAt

NotOlder(row, at) == at >= row.latestAt

(* The row of an origin after ON CONFLICT DO UPDATE.                       *)
Updated(row, at, r) ==
    LET first  == r.outcome = "valid" /\ EarlierParticipation(row, at)
        latest == NotOlder(row, at)
    IN [stored |-> TRUE,
        firstObserved |-> IF at < row.firstObserved THEN at ELSE row.firstObserved,
        participated  |-> IF first THEN at ELSE row.participated,
        initial       |-> IF first THEN r.declaration ELSE row.initial,
        latestAt      |-> IF latest THEN at ELSE row.latestAt,
        latestOutcome |-> IF latest THEN r.outcome ELSE row.latestOutcome]

Inserted(at, r) ==
    [stored |-> TRUE, firstObserved |-> at,
     participated  |-> IF r.outcome = "valid" THEN at ELSE 0,
     initial       |-> IF r.outcome = "valid" THEN r.declaration ELSE NoDeclaration,
     latestAt |-> at, latestOutcome |-> r.outcome]

Total ==
    Cardinality(UNION {{<<o, x.id>> : x \in recorded[o]} :
                           o \in VerifiedOrigins})

(* shouldReprobeOutcome *)
ShouldReprobe(outcome) == outcome \notin {"valid", "unavailable"}

RecordVerification(o, at, r) ==
    LET x == [id |-> Total + 1, at |-> at, outcome |-> r.outcome,
              declaration |-> r.declaration]
    IN
    /\ Total < MaxRecords
    /\ ValidResult(r)
    /\ rows' = [rows EXCEPT ![o] =
           IF @.stored THEN Updated(@, at, r) ELSE Inserted(at, r)]
    /\ misses' = [misses EXCEPT ![o] =
           @ + IF ShouldReprobe(r.outcome) THEN 1 ELSE 0]
    /\ observations' = [observations EXCEPT ![o] = @ \cup {x}]
    /\ recorded' = [recorded EXCEPT ![o] = @ \cup {x}]

-----------------------------------------------------------------------------
(* ORDER BY observed_at DESC, id DESC LIMIT 1 *)
Newer(x, y) == x.at > y.at \/ (x.at = y.at /\ x.id > y.id)

Newest(S) == {x \in S : \A y \in S \ {x} : Newer(x, y)}

WithAuthority(S) == {x \in S : x.outcome \in Authoritative}

(* Mutant: only the newest observation is protected.                       *)
ProtectedNewest(S) == Newest(S)

Protected(S) == Newest(S) \cup Newest(WithAuthority(S))

(* PurgeOperationalHistory, its part on the observations.                  *)
PurgeOperationalHistory(cutoff) ==
    /\ observations' = [o \in VerifiedOrigins |->
           {x \in observations[o] :
                x.at >= cutoff \/ x \in Protected(observations[o])}]
    /\ UNCHANGED <<rows, misses, recorded>>

HistoryNext ==
    \/ \E o \in VerifiedOrigins, at \in Times, r \in Results :
          RecordVerification(o, at, r)
    \/ \E cutoff \in Times : PurgeOperationalHistory(cutoff)

HistorySpec == HistoryInit /\ [][HistoryNext]_historyVars

-----------------------------------------------------------------------------
(* Reading it                                                              *)

(* OriginState: the state that follows from the newest observations.       *)
OriginState(o) ==
    [latest |-> Newest(observations[o]),
     state  |-> LET e == Newest(WithAuthority(observations[o])) IN
                IF e = {} THEN "unknown"
                ELSE IF \E x \in e : x.outcome = "valid" THEN "verified"
                ELSE "not_verified"]

Participants == {o \in VerifiedOrigins : rows[o].participated # 0}

(* The declaration scanRegistryOrigin takes as the current one.            *)
Current(o) ==
    LET e == Newest(WithAuthority(observations[o])) IN
    IF \E x \in e : x.outcome = "valid"
    THEN (CHOOSE x \in e : TRUE).declaration
    ELSE NoDeclaration

(* scanRegistryOrigin: the row is refused unless                           *)
Scanned(o) ==
    LET e == Newest(WithAuthority(observations[o])) IN
    /\ rows[o].initial.version = 1 /\ rows[o].initial.identity \in Identities
    /\ rows[o].latestOutcome \in Outcomes
    /\ rows[o].participated <= rows[o].latestAt
    /\ e # {}
    /\ \A x \in e :
          IF x.outcome = "valid"
          THEN /\ x.declaration.version = 1
               /\ x.declaration.identity \in Identities
          ELSE x.declaration = NoDeclaration

(* validRegistryOrigin *)
ValidRegistryOrigin(o) ==
    CASE rows[o].latestOutcome = "valid" -> Current(o) # NoDeclaration
      [] rows[o].latestOutcome \in Authoritative \ {"valid"} ->
             Current(o) = NoDeclaration
      [] OTHER -> TRUE

(* RegistryOrigins and BuildRegistry: one origin that is refused fails the *)
(* whole registry.                                                         *)
ExportSucceeds == \A o \in Participants : Scanned(o) /\ ValidRegistryOrigin(o)

(* A document of the registry.                                             *)
Node(o) ==
    [origin |-> o, participated |-> rows[o].participated,
     initial |-> rows[o].initial, checked |-> rows[o].latestAt,
     outcome |-> rows[o].latestOutcome, current |-> Current(o)]

BuildRegistry == {Node(o) : o \in Participants}

-----------------------------------------------------------------------------
(* No order of results, however late or with equal times, and no purge     *)
(* brings an origin into a state that the export refuses: one such origin  *)
(* would stop the publication of the registry for all the others.          *)
ExportNeverRefuses == ExportSucceeds

(* The registry says of an origin what the whole history says of it, the   *)
(* purged part included: the first valid result by time (the first         *)
(* recorded of those with the same time), the newest result, and the       *)
(* declaration of the newest one that has authority.                       *)
RegistryTrue ==
    \A n \in BuildRegistry :
        LET all   == recorded[n.origin]
            valid == {x \in all : x.outcome = "valid"}
            first == {x \in valid : \A y \in valid \ {x} :
                          x.at < y.at \/ (x.at = y.at /\ x.id < y.id)}
        IN
        /\ \A x \in first : n.participated = x.at /\ n.initial = x.declaration
        /\ \A x \in Newest(all) : n.checked = x.at /\ n.outcome = x.outcome
        /\ \A x \in Newest(WithAuthority(all)) : n.current = x.declaration

(* Two readers of the same origin agree: OriginState takes the newest      *)
(* result from the observations, the registry from the row.                *)
ReadersAgree ==
    \A o \in VerifiedOrigins :
        \A x \in OriginState(o).latest :
            x.at = rows[o].latestAt /\ x.outcome = rows[o].latestOutcome

(* Whoever reads the history gets it, all of it, and the same as others.   *)
HistoryReadable ==
    HistoryTypeOK /\ ExportNeverRefuses /\ RegistryTrue /\ ReadersAgree

(* A purge changes neither the state of an origin nor its current          *)
(* declaration: "preserving the observations required to reconstruct       *)
(* current declaration state" (retention.go).  The list that Observations  *)
(* returns (history.go) gets shorter, which is what a purge is for.        *)
PurgeInvisibleStep ==
    recorded' = recorded =>
        \A o \in VerifiedOrigins :
            OriginState(o)' = OriginState(o) /\ Current(o)' = Current(o)

PurgeInvisible == [][PurgeInvisibleStep]_historyVars

=============================================================================
