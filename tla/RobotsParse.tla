---------------------------- MODULE RobotsParse ----------------------------
(***************************************************************************)
(* How robots.txt is read (internal/robots/robots.go): the grouping of its *)
(* records line by line, the selection of the groups that apply to         *)
(* JoshBot, the decision about a target and the Crawl-delay.               *)
(*                                                                         *)
(* A line is a record [field, value].  The value of a rule is its pattern: *)
(* its length, whether it is a valid pattern and whether it matches the    *)
(* target (RobotsMatch).  The value of a delay is its decimal text.        *)
(***************************************************************************)
EXTENDS Integers, Sequences, FiniteSets, SequencesExt

CONSTANTS
    Patterns,     \* records [length, valid, matches]
    Delays,       \* records [seconds, fraction]: a number and a digit sequence
    Targets,      \* kinds of request targets
    Agents,       \* the values of user-agent lines
    MaxLines,     \* lines of a file
    Second,       \* nanosecondsPerSecond, a power of ten
    Digits,       \* fraction digits of a second
    MaxDuration,  \* the largest time.Duration
    Wrap,         \* unsigned integers are taken modulo this
    Limit         \* the cap of Crawl-delay

VARIABLES
    target,  \* what the decision is about: "page", "robots.txt", "unsupported"
    lines,   \* the lines read so far
    groups   \* groups of parseGroups; the last one is the current one

vars == <<target, lines, groups>>

(* A directive is known by the number of its line.                         *)
Group == [userAgents : SUBSET Agents, rules : Seq(Nat), crawlDelays : Seq(Nat),
          hasDirectives : BOOLEAN]

NewGroup == [userAgents |-> {}, rules |-> <<>>, crawlDelays |-> <<>>,
             hasDirectives |-> FALSE]

Init == target \in Targets /\ lines = <<>> /\ groups = <<>>

Current == Last(groups)

(* Only a group that names an agent takes directives.                      *)
Named == groups # <<>> /\ Current.userAgents # {}

ReplaceCurrent(g) == [groups EXCEPT ![Len(groups)] = g]

-----------------------------------------------------------------------------
(* parseGroups, one action per kind of record                              *)

Read(field, value) ==
    /\ Len(lines) < MaxLines
    /\ lines' = Append(lines, [field |-> field, value |-> value])
    /\ UNCHANGED target

Here == Len(lines) + 1

(* A run of agent lines shares a group; an agent after a directive starts  *)
(* the next one.                                                           *)
UserAgent ==
    \E agent \in Agents \ {"invalid"} :
        /\ Read("user-agent", agent)
        /\ groups' = IF groups = <<>> \/ Current.hasDirectives
                     THEN Append(groups, [NewGroup EXCEPT !.userAgents = {agent}])
                     ELSE ReplaceCurrent([Current EXCEPT
                              !.userAgents = @ \union {agent}])

(* Mutant: an invalid token is ignored.                                    *)
AfterInvalidAgentSame == groups

(* An invalid token starts a group that no directive attaches to.          *)
AfterInvalidAgent == Append(groups, NewGroup)

InvalidAgent ==
    /\ Read("user-agent", "invalid")
    /\ groups' = AfterInvalidAgent

Rule ==
    \E field \in {"allow", "disallow"}, pattern \in Patterns :
        /\ Read(field, pattern)
        /\ groups' = IF ~Named THEN groups
                     ELSE ReplaceCurrent([Current EXCEPT
                              !.hasDirectives = TRUE,
                              !.rules = IF pattern.valid THEN Append(@, Here)
                                        ELSE @])

CrawlDelayLine ==
    \E delay \in Delays :
        /\ Read("crawl-delay", delay)
        /\ groups' = IF ~Named THEN groups
                     ELSE ReplaceCurrent([Current EXCEPT
                              !.hasDirectives = TRUE,
                              !.crawlDelays = Append(@, Here)])

(* Comments, other fields and lines that are no records.                   *)
OtherLine == Read("other", "") /\ UNCHANGED groups

Next == UserAgent \/ InvalidAgent \/ Rule \/ CrawlDelayLine \/ OtherLine

Spec == Init /\ [][Next]_vars

-----------------------------------------------------------------------------
(* Parse                                                                   *)

Exact(g) == "joshbot" \in g.userAgents

Wildcard(g) == ~Exact(g) /\ "*" \in g.userAgents

(* The groups of JoshBot, or else those of every agent.                    *)
Applicable ==
    IF \E i \in DOMAIN groups : Exact(groups[i])
    THEN SelectSeq(groups, Exact)
    ELSE SelectSeq(groups, Wildcard)

PolicyRules == FlattenSeq([i \in DOMAIN Applicable |-> Applicable[i].rules])

PolicyDelays ==
    FlattenSeq([i \in DOMAIN Applicable |-> Applicable[i].crawlDelays])

-----------------------------------------------------------------------------
(* Allowed                                                                 *)

(* The longer rule is better, and of equal ones an Allow.                  *)
Better(rule, best) ==
    \/ rule.value.length > best.length
    \/ rule.value.length = best.length /\ rule.field = "allow"

Considered(best, n) ==
    IF lines[n].value.matches /\ Better(lines[n], best)
    THEN [length |-> lines[n].value.length,
          allowed |-> lines[n].field = "allow"]
    ELSE best

(* Targets that are no HTTP URL are refused, robots.txt never is.          *)
Allowed ==
    \/ target = "robots.txt"
    \/ /\ target = "page"
       /\ FoldLeft(Considered, [length |-> -1, allowed |-> TRUE],
                   PolicyRules).allowed

-----------------------------------------------------------------------------
(* CrawlDelay                                                              *)

(* The result for malformed text and for numbers that do not fit.          *)
Invalid == -1

Fraction(digits) ==
    FoldLeft(LAMBDA n, d : n * 10 + d, 0, digits) * 10^(Digits - Len(digits))

(* Mutant: the sum is not compared with the largest duration.              *)
ExceedsSeconds(seconds, digits) == seconds > MaxDuration \div Second

(* The number does not fit in a duration.                                  *)
Exceeds(seconds, digits) ==
    \/ seconds > MaxDuration \div Second
    \/ Fraction(digits) > MaxDuration - seconds * Second

ParseCrawlDelay(text) ==
    IF \/ text.seconds < 0
       \/ Len(text.fraction) > Digits
       \/ Exceeds(text.seconds, text.fraction)
    THEN Invalid
    ELSE (text.seconds * Second + Fraction(text.fraction)) % Wrap

(* The longest applicable delay up to the limit, if all are valid.         *)
LongestDelay ==
    FoldLeft(LAMBDA longest, n :
                LET parsed == ParseCrawlDelay(lines[n].value) IN
                IF longest = Invalid \/ parsed = Invalid THEN Invalid
                ELSE IF parsed > longest THEN parsed ELSE longest,
             0, PolicyDelays)

CrawlDelay == IF LongestDelay > Limit THEN Limit ELSE LongestDelay

-----------------------------------------------------------------------------
(* Reference                                                               *)

IsAgent(n) == lines[n].field = "user-agent"

IsDirective(n) == lines[n].field \in {"allow", "disallow", "crawl-delay"}

(* The agents that directive n is meant for: those of the run of agent     *)
(* lines above it, where only directives of the same group and lines       *)
(* without meaning come in between.                                        *)
MeantFor(n) ==
    {lines[j].value : j \in
        {j \in 1..(n - 1) :
            /\ IsAgent(j)
            /\ \A m \in j..n : ~(IsAgent(m) /\ lines[m].value = "invalid")
            /\ ~\E p, q \in j..n : p < q /\ IsDirective(p) /\ IsAgent(q)}}

(* The directives that JoshBot must follow.                                *)
Binding ==
    LET own == \E n \in DOMAIN lines : lines[n] =
                   [field |-> "user-agent", value |-> "joshbot"]
    IN  {n \in DOMAIN lines :
            /\ IsDirective(n)
            /\ (IF own THEN "joshbot" ELSE "*") \in MeantFor(n)}

BindingRules ==
    {n \in Binding : lines[n].field # "crawl-delay" /\ lines[n].value.valid}

Matching == {n \in BindingRules : lines[n].value.matches}

BindingDelays ==
    {lines[n].value : n \in {n \in Binding : lines[n].field = "crawl-delay"}}

(* u units are exactly the decimal number of the text.                     *)
IsDecimal(u, text) ==
    LET k == Len(text.fraction)
        number == text.seconds * 10^k
                  + FoldLeft(LAMBDA n, d : n * 10 + d, 0, text.fraction)
    IN  u * 10^k = number * Second

(* A delay that the documentation of parseCrawlDelay accepts.              *)
Accepted(text) == \E u \in 0..MaxDuration :
    text.seconds >= 0 /\ Len(text.fraction) <= Digits /\ IsDecimal(u, text)

-----------------------------------------------------------------------------
(* Properties                                                              *)

(* Groups hold the agents and the directives that were read, and a group   *)
(* without agents, which an invalid token starts, holds no directive.      *)
TypeOK ==
    /\ Len(lines) <= MaxLines
    /\ \A i \in DOMAIN groups :
        /\ groups[i] \in Group
        /\ groups[i].userAgents = {} => groups[i] = NewGroup
        /\ \A n \in Range(groups[i].rules \o groups[i].crawlDelays) :
               n \in DOMAIN lines /\ IsDirective(n)

(* Reading line by line with one current group, and joining the groups of  *)
(* an agent wherever they stand in the file, applies exactly the rules     *)
(* that are written for JoshBot.                                           *)
RulesAsWritten == Range(PolicyRules) = BindingRules

(* The verdict on a page does not depend on the order of the rules: the  *)
(* longest match decides, an Allow among equals, and without any match the *)
(* page is allowed.                                                        *)
MostSpecificDecides ==
    target = "page" =>
      (Allowed <=>
        \/ Matching = {}
        \/ \E n \in Matching :
               /\ lines[n].field = "allow"
               /\ \A m \in Matching :
                      lines[m].value.length <= lines[n].value.length)

(* The delay is the longest one that is written for JoshBot, to the last   *)
(* digit and up to the cap; one bad delay or one that does not fit makes   *)
(* the whole answer invalid and never a short delay.                       *)
CrawlDelayExact ==
    IF \E text \in BindingDelays : ~Accepted(text)
    THEN CrawlDelay = Invalid
    ELSE \A u \in 0..MaxDuration :
            (/\ (BindingDelays = {} => u = 0)
             /\ (BindingDelays # {} => \E text \in BindingDelays : IsDecimal(u, text))
             /\ \A text \in BindingDelays : \E w \in 0..u : IsDecimal(w, text))
            => CrawlDelay = (IF u > Limit THEN Limit ELSE u)

=============================================================================
