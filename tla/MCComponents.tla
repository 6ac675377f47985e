---------------------------- MODULE MCComponents ----------------------------
(***************************************************************************)
(* Small systems for TLC of ten components that share no state and are     *)
(* checked for safety alone.  Four of them are extended, with constants    *)
(* from components.cfg: SourcePolicy on crawl sources,                     *)
(* ParticipationHistory on the records of the registry, VerificationWorker *)
(* on the time of a lease and ServiceHeartbeat on late writes.  The others *)
(* are instances: RobotsMatch and RobotsParse on robots.txt, SnapshotFiles *)
(* on snapshots, RetryIntervals on delays, DeclarationVerifier on the      *)
(* answers of a site, and ReportPages on reports that are read in pages.   *)
(* The initial state picks one of thirteen small systems; the others stay  *)
(* as they are.                                                            *)
(*                                                                         *)
(*   "characters"  short patterns and targets of all kinds of characters   *)
(*   "wildcards"   longer ones with wildcards and anchors                  *)
(*   "groups"      files of agent lines and rules                          *)
(*   "delays"      files with Crawl-delays around the largest duration     *)
(*   "files"       directories around the limits of a snapshot             *)
(*   "history"     results of a verification in any order, and purges      *)
(*   "blocks"      seeds, promotions, misses, blocks and avoid rules       *)
(*   "schedules"   seeds, promotions, results and repairs of seeds         *)
(*   "worker"      a worker with clocks ahead of and behind the database   *)
(*   "heartbeat"   two processes that share the slot of a service          *)
(*   "retries"     delays around every limit                               *)
(*   "verifier"    every answer of a site, with retries                    *)
(*   "pages"       all reports, with changes between the pages             *)
(***************************************************************************)
EXTENDS Integers, Sequences, SequencesExt, SourcePolicy, ParticipationHistory,
        VerificationWorker, ServiceHeartbeat

VARIABLES
    part,
    written, requested, pattern, target, anchored, patternIndex, targetIndex,
    starIndex, starTargetIndex, verdict,
    about, lines, groups,
    entries, path, files, total, stage,
    participated, first, failures, missed, answer,
    step, tries, redirects, asked, result, answers,
    report, limit, table, cursor, seen, reading, stable, changes

matchVars == <<written, requested, pattern, target, anchored, patternIndex,
               targetIndex, starIndex, starTargetIndex, verdict>>
parseVars == <<about, lines, groups>>
fileVars == <<entries, path, files, total, stage>>
retryVars == <<participated, first, failures, missed, answer>>
verifierVars == <<step, tries, redirects, asked, result, answers>>
pageVars == <<report, limit, table, cursor, seen, reading, stable, changes>>
laterVars == <<workerVars, heartbeatVars, retryVars, verifierVars, pageVars>>
vars == <<part, matchVars, parseVars, fileVars, historyVars, policyVars,
          laterVars>>

-----------------------------------------------------------------------------
Texts(alphabet, lengths) == UNION {[1..n -> alphabet] : n \in lengths}

(* Sequences of at most n of the given characters, as octets.              *)
Octets(characters, n) == {FlattenSeq(t) : t \in Texts(characters, 0..n)}

(* "/", "*", "$", "2", "%32" (another "2"), "%2f", "%2a" and "%24".        *)
SLASH == <<47>>
STAR == <<42>>
DOLLAR == <<36>>
TWO == <<50>>
EscapedTwo == <<37, 51, 50>>
EscapedSlash == <<37, 50, 102>>
EscapedStar == <<37, 50, 97>>
EscapedDollar == <<37, 50, 52>>

(* Escapes of all kinds, a percent sign that escapes nothing, and the      *)
(* octets of a character beyond ASCII, written out and escaped.            *)
Characters == INSTANCE RobotsMatch WITH
    PatternText <- Octets({SLASH, STAR, DOLLAR, TWO, EscapedTwo, EscapedSlash,
                           EscapedStar, EscapedDollar, <<37>>,
                           <<37, 67, 51, 37, 65, 57>>}, 3),
    TargetText <- {SLASH \o t :
                      t \in Octets({SLASH, STAR, DOLLAR, TWO, EscapedTwo,
                                    <<37, 50, 70>>, <<195, 169>>, <<37>>}, 2)}

Wildcards == INSTANCE RobotsMatch WITH
    PatternText <- Octets({SLASH, STAR, DOLLAR, TWO}, 4),
    TargetText <- {SLASH \o t : t \in Octets({SLASH, TWO}, 4)}

Rule(l, v, m) == [length |-> l, valid |-> v, matches |-> m]

(* Two patterns that match, one that does not, and an invalid one.         *)
Groups == INSTANCE RobotsParse WITH
    target <- about, Targets <- {"page", "robots.txt", "unsupported"},
    Patterns <- {Rule(1, TRUE, TRUE), Rule(2, TRUE, TRUE),
                 Rule(3, TRUE, FALSE), Rule(0, FALSE, FALSE)},
    Delays <- {[seconds |-> 1, fraction |-> <<>>]},
    Agents <- {"joshbot", "otherbot", "*", "invalid"}, MaxLines <- 4,
    Second <- 100, Digits <- 2, MaxDuration <- 255, Wrap <- 512, Limit <- 200

(* The largest duration is 2.55 seconds; negative seconds stand for text   *)
(* that is no number.                                                      *)
Delays == INSTANCE RobotsParse WITH
    target <- about, Targets <- {"page"}, Patterns <- {},
    Delays <- [seconds : {-1, 0, 2, 3},
               fraction : {<<>>, <<5>>, <<5, 5>>, <<5, 6>>, <<0, 0, 1>>}],
    Agents <- {"joshbot", "*", "invalid"}, MaxLines <- 3,
    Second <- 100, Digits <- 2, MaxDuration <- 255, Wrap <- 512, Limit <- 200

Files == INSTANCE SnapshotFiles WITH
    MaxPath <- 5, Unexpected <- {1}, MaxSize <- 3, MaxFiles <- 3,
    MaxFileBytes <- 2, MaxTotalBytes <- 4

None == [version |-> 0, identity |-> "none"]
Declared(i) == [version |-> 1, identity |-> i]
Result(outcome, declaration, category) ==
    [outcome |-> outcome, declaration |-> declaration, category |-> category]

(* What a verifier gives, and three results that have to be refused.       *)
EightResults ==
    {Result("valid", Declared("affirmed"), "none"),
     Result("valid", Declared("declined"), "none"),
     Result("absent", None, "none"),
     Result("robots_denied", None, "none"),
     Result("unavailable", None, "known"),
     Result("absent", Declared("affirmed"), "none"),
     Result("valid", None, "none"),
     Result("other", None, "none")}

(* "old" is an automatic source of an earlier version; both patterns match *)
(* "b", and "narrow" matches nothing else.                                 *)
NarrowAndWide == "narrow" :> {"b"} @@ "wide" :> {"a", "b"}

(* A worker's clock that is up to two behind, and one that is ahead.       *)
FourSkews == {-2, -1, 0, 1}

Header(kind, amounts) == [kind : {kind}, amount : amounts]

(* A duration has 8 bits and a second 4 ticks, so that 32 seconds are too  *)
(* long and 64 seconds are as good as none.                                *)
Retries == INSTANCE RetryIntervals WITH
    misses <- missed,
    Headers <- Header("none", {0}) \cup Header("text", {0})
               \cup Header("number", {-1, 0, 1, 10, 15, 16, 33, 64, 65, 127})
               \cup Header("date", {-5, 0, 1, 59, 60, 61, 127}),
    Samples <- {-1, 0, 5, 10, 11}, Schedule <- <<5, 10, 20, 40, 60>>,
    MaxDelay <- 60, Second <- 4, Wrap <- 256,
    FirstIntervals <- {0, 1, 3, 7, 8, 20}, DefaultFirst <- 2, MaxReprobe <- 14,
    BackoffSteps <- 5, StaleRecheck <- 70, MaxAnswers <- 7

Verifier == INSTANCE DeclarationVerifier WITH
    pc <- step, attempt <- tries,
    Statuses <- {200, 299, 300, 301, 304, 308, 403, 404, 408, 410, 429, 499,
                 500, 599, 600},
    Errors <- {"disallowed", "robots_temporary", "deadline", "resolution",
               "no_addresses", "unsafe_address", "dial", "invalid_origin",
               "unknown"},
    Bodies <- [read : {"complete", "large", "failed"},
               version : {"1", "2", "none"},
               josh : {"true", "false", "none", "other"}],
    RetryAfters <- {0, 1, 60}, MaxDelay <- 60, MaxRedirects <- 5,
    MaxAttempts <- 2

Pages == INSTANCE ReportPages WITH
    kind <- report, rows <- table, stage <- reading,
    Kinds <- {"sources", "crawl_pages", "crawls", "queue_events", "audit",
              "queue"},
    Ids <- {1, 2, 3}, Legacy <- {2}, Times <- {2, 3}, Limits <- {1, 2}, Run <- 9,
    MaxChanges <- 2

-----------------------------------------------------------------------------
NoMatch ==
    /\ written = <<>> /\ requested = <<>> /\ pattern = <<>> /\ target = <<>>
    /\ anchored = FALSE
    /\ patternIndex = 0 /\ targetIndex = 0 /\ starIndex = 0
    /\ starTargetIndex = 0 /\ verdict = "running"

NoWalk ==
    entries = <<>> /\ path = 0 /\ files = <<>> /\ total = 0 /\ stage = "read"

NoReport ==
    /\ report = "audit" /\ limit = 1 /\ table = {} /\ cursor = Pages!NoCursor
    /\ seen = <<>> /\ reading = "reading" /\ stable = {} /\ changes = 0

Init ==
    /\ HistoryInit /\ PolicyInit
    /\ HeartbeatInit
    /\ \/ part = "characters" /\ Characters!Init /\ Delays!Init /\ NoWalk
       \/ part = "wildcards" /\ Wildcards!Init /\ Delays!Init /\ NoWalk
       \/ part = "groups" /\ Groups!Init /\ NoMatch /\ NoWalk
       \/ part = "files" /\ Files!Init /\ NoMatch /\ Delays!Init
       \/ /\ part \in {"delays", "history", "blocks", "schedules", "worker",
                       "heartbeat", "retries", "verifier", "pages"}
          /\ Delays!Init /\ NoMatch /\ NoWalk
    /\ WorkerInit /\ (part # "worker" => skew = 0)
    /\ Retries!Init /\ (part # "retries" => first = 0 /\ participated)
    /\ Verifier!Init
    /\ IF part = "pages" THEN Pages!Init ELSE NoReport

EarlierVars == <<matchVars, parseVars, fileVars, historyVars, policyVars>>

Next ==
    /\ part' = part
    /\ \/ /\ UNCHANGED laterVars
          /\ \/ /\ \/ part = "characters" /\ Characters!Next
                   \/ part = "wildcards" /\ Wildcards!Next
                /\ UNCHANGED <<parseVars, fileVars, historyVars, policyVars>>
             \/ /\ \/ part = "groups" /\ Groups!Next
                   \/ part = "delays" /\ Delays!Next
                /\ UNCHANGED <<matchVars, fileVars, historyVars, policyVars>>
             \/ /\ part = "files" /\ Files!Next
                /\ UNCHANGED <<matchVars, parseVars, historyVars, policyVars>>
             \/ /\ part = "history" /\ HistoryNext
                /\ UNCHANGED <<matchVars, parseVars, fileVars, policyVars>>
             \/ /\ PolicyNext
                /\ \/ /\ part = "blocks" /\ repairs' = 0
                      /\ \A o \in Origins : facts'[o].outcome # "valid"
                   \/ /\ part = "schedules" /\ policy' = policy
                      /\ \A o \in Origins : ~source'[o].operator_blocked
                /\ UNCHANGED <<matchVars, parseVars, fileVars, historyVars>>
       \/ /\ UNCHANGED EarlierVars
          /\ \/ /\ part = "worker" /\ WorkerNext
                /\ UNCHANGED <<heartbeatVars, retryVars, verifierVars, pageVars>>
             \/ /\ part = "heartbeat" /\ HeartbeatNext
                /\ UNCHANGED <<workerVars, retryVars, verifierVars, pageVars>>
             \/ /\ part = "retries" /\ Retries!Next
                /\ UNCHANGED <<workerVars, heartbeatVars, verifierVars,
                               pageVars>>
             \/ /\ part = "verifier" /\ Verifier!Next
                /\ UNCHANGED <<workerVars, heartbeatVars, retryVars, pageVars>>
             \/ /\ part = "pages" /\ Pages!Next
                /\ UNCHANGED <<workerVars, heartbeatVars, retryVars,
                               verifierVars>>

Spec == Init /\ [][Next]_vars

-----------------------------------------------------------------------------
Matching == part \in {"characters", "wildcards"}

(* Every rule covers the targets that its text says, and the loop of       *)
(* patternMatches advances on every turn (RobotsMatch).                    *)
MatchesMeaning ==
    /\ [](Matching => Characters!MatchesMeaning)
    /\ [][Matching => Characters!AdvancesStep]_vars

(* JoshBot is bound by the rules written for it, the most specific one     *)
(* decides, and the Crawl-delay is what is written, to the last digit      *)
(* (RobotsParse).                                                          *)
RulesAsWritten ==
    /\ part = "groups" =>
          /\ Groups!TypeOK
          /\ Groups!RulesAsWritten /\ Groups!MostSpecificDecides
    /\ part = "delays" => Delays!CrawlDelayExact

(* Whatever a site answers, the store accepts the result, and the requests *)
(* stay with the origin (DeclarationVerifier).  Retry-After is honoured up *)
(* to its limit and the reprobe interval doubles up to its own             *)
(* (RetryIntervals).                                                       *)
AnswersHandled ==
    /\ part = "verifier" => Verifier!ResultAccepted
    /\ part = "retries" => Retries!DelaysHonoured

(* The pages of a report show every row that was there all the time, once  *)
(* and in order (ReportPages).                                             *)
PagesComplete == part = "pages" => Pages!TypeOK /\ Pages!PagesComplete

(* A snapshot is read exactly if it is within the limits, and what is read *)
(* can be published (SnapshotFiles).                                       *)
ReadsExactly ==
    part = "files" =>
        Files!TypeOK /\ Files!ReadsExactly /\ Files!ReadIsPublishable

=============================================================================
