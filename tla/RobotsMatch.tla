---------------------------- MODULE RobotsMatch ----------------------------
(***************************************************************************)
(* How a robots rule is matched with a request target                      *)
(* (internal/robots/robots.go): the normalization of both and the loop of  *)
(* patternMatches, one step per turn.                                      *)
(*                                                                         *)
(* A text is a sequence of octets, given by their codes: normalization     *)
(* writes an escape as three of them, and a wildcard takes octets.         *)
(***************************************************************************)
EXTENDS Integers, Sequences, SequencesExt

CONSTANTS
    PatternText,   \* the patterns of rules, as written in robots.txt
    TargetText     \* the targets of requests

VARIABLES
    written,          \* the rule's pattern as written
    requested,        \* the request target as written
    pattern,          \* the normalized pattern, without its anchor
    target,           \* the normalized target
    anchored,
    patternIndex,
    targetIndex,
    starIndex,        \* where to go on after a mismatch, -1 for nowhere
    starTargetIndex,
    verdict           \* "running", or what patternMatches returned

vars == <<written, requested, pattern, target, anchored, patternIndex,
          targetIndex, starIndex, starTargetIndex, verdict>>

-----------------------------------------------------------------------------
(* Normalization                                                           *)

Percent == 37
Star == 42
Dollar == 36
Slash == 47

IsHex(o) == o \in (48..57) \cup (65..70) \cup (97..102)

HexValue(o) == CASE o <= 57 -> o - 48 [] o <= 70 -> o - 55 [] OTHER -> o - 87

(* Letters, digits, "-", ".", "_" and "~".                                 *)
IsUnreserved(o) ==
    o \in (65..90) \cup (97..122) \cup (48..57) \cup {45, 46, 95, 126}

HexDigit(v) == IF v < 10 THEN 48 + v ELSE 55 + v

Encoded(o) == <<Percent, HexDigit(o \div 16), HexDigit(o % 16)>>

(* The octet whose escape starts at i.                                     *)
Escaped(text, i) == 16 * HexValue(text[i + 1]) + HexValue(text[i + 2])

InEscape(text, i) ==
    \E d \in {1, 2} : i > d /\ text[i - d] = Percent

(* Mutant: a target's own stars and dollars stay as they are.              *)
IsSpecialNever(o) == FALSE

IsSpecial(o) == o \in {Star, Dollar}

(* What is written for the octet at i.  Escapes of unreserved octets are   *)
(* decoded and the others get capital digits; octets beyond ASCII, and a   *)
(* target's own stars and dollars, are encoded.                            *)
Piece(text, i, encodeSpecial) ==
    LET o == text[i]
    IN  CASE o = Percent -> IF IsUnreserved(Escaped(text, i))
                            THEN <<Escaped(text, i)>>
                            ELSE Encoded(Escaped(text, i))
          [] InEscape(text, i) -> <<>>
          [] o >= 128 \/ (encodeSpecial /\ IsSpecial(o)) -> Encoded(o)
          [] OTHER -> <<o>>

Normalize(text, encodeSpecial) ==
    FlattenSeq([i \in DOMAIN text |-> Piece(text, i, encodeSpecial)])

(* Two digits follow a percent sign, and there is no control character.    *)
WellFormed(text) ==
    \A i \in DOMAIN text :
        /\ text[i] >= 32 /\ text[i] # 127
        /\ text[i] = Percent =>
              i + 2 <= Len(text) /\ IsHex(text[i + 1]) /\ IsHex(text[i + 2])

(* makeRule: a pattern starts with a slash or a wildcard.                  *)
ValidRule(text) ==
    text # <<>> /\ text[1] \in {Slash, Star} /\ WellFormed(text)

Anchored(text) == Last(text) = Dollar

Unanchored(text) == IF Anchored(text) THEN Front(text) ELSE text

Init ==
    /\ written \in PatternText /\ ValidRule(written)
    /\ requested \in TargetText /\ WellFormed(requested)
    /\ anchored = Anchored(Normalize(written, FALSE))
    /\ pattern = Unanchored(Normalize(written, FALSE))
    /\ target = Normalize(requested, TRUE)
    /\ patternIndex = 0 /\ targetIndex = 0
    /\ starIndex = -1 /\ starTargetIndex = 0
    /\ verdict = "running"

-----------------------------------------------------------------------------
(* patternMatches                                                          *)

AtStar == patternIndex < Len(pattern) /\ pattern[patternIndex + 1] = Star

AtSame == /\ patternIndex < Len(pattern)
          /\ pattern[patternIndex + 1] = target[targetIndex + 1]

(* A pattern without anchor that is used up matches.                       *)
LoopEnds ==
    verdict' = IF ~anchored /\ patternIndex' = Len(pattern) THEN "match"
               ELSE "running"

Inputs == <<written, requested, pattern, target, anchored>>

Running == verdict = "running" /\ targetIndex < Len(target)

TakeStar ==
    /\ Running /\ AtStar
    /\ starIndex' = patternIndex
    /\ patternIndex' = patternIndex + 1
    /\ starTargetIndex' = targetIndex
    /\ LoopEnds
    /\ UNCHANGED <<Inputs, targetIndex>>

TakeCharacter ==
    /\ Running /\ ~AtStar /\ AtSame
    /\ patternIndex' = patternIndex + 1
    /\ targetIndex' = targetIndex + 1
    /\ LoopEnds
    /\ UNCHANGED <<Inputs, starIndex, starTargetIndex>>

(* Mutant: the wildcard does not take another octet.                       *)
WidenedNot == starTargetIndex

Widened == starTargetIndex + 1

Backtrack ==
    /\ Running /\ ~AtStar /\ ~AtSame /\ starIndex >= 0
    /\ patternIndex' = starIndex + 1
    /\ starTargetIndex' = Widened
    /\ targetIndex' = Widened
    /\ LoopEnds
    /\ UNCHANGED <<Inputs, starIndex>>

Mismatch ==
    /\ Running /\ ~AtStar /\ ~AtSame /\ starIndex < 0
    /\ verdict' = "mismatch"
    /\ UNCHANGED <<Inputs, patternIndex, targetIndex, starIndex,
                   starTargetIndex>>

(* The target is used up: only wildcards may be left of the pattern.       *)
TargetEnds ==
    /\ verdict = "running" /\ targetIndex = Len(target)
    /\ verdict' = IF \A i \in (patternIndex + 1)..Len(pattern) :
                        pattern[i] = Star
                  THEN "match" ELSE "mismatch"
    /\ UNCHANGED <<Inputs, patternIndex, targetIndex, starIndex,
                   starTargetIndex>>

Next == TakeStar \/ TakeCharacter \/ Backtrack \/ Mismatch \/ TargetEnds

Spec == Init /\ [][Next]_vars

-----------------------------------------------------------------------------
(* Reference                                                               *)

(* A text as its characters, an escape being one of them.                  *)
CharactersOf(text) ==
    LET At(i) ==
            IF InEscape(text, i) THEN <<>>
            ELSE IF text[i] = Percent
                 THEN <<[escaped |-> TRUE, octet |-> Escaped(text, i)]>>
            ELSE <<[escaped |-> FALSE, octet |-> text[i]]>>
    IN  FlattenSeq([i \in DOMAIN text |-> At(i)])

Plain(o) == [escaped |-> FALSE, octet |-> o]

(* Escaped and plain are the same but for reserved characters of ASCII     *)
(* other than stars and dollars.                                           *)
Same(c, d) ==
    /\ c.octet = d.octet
    /\ \/ c.escaped = d.escaped
       \/ IsUnreserved(c.octet) \/ c.octet >= 128
       \/ c.octet \in {Star, Dollar}

(* The rule covers the target: stars in the pattern take any characters,   *)
(* a dollar is the end of the target, other characters stand for           *)
(* themselves, and the rest of the target does not matter.                 *)
PatternCovers(p, t) ==
    LET m == Len(p)
        n == Len(t)
        C[i \in 1..(m + 1), j \in 1..(n + 1)] ==
            IF i > m THEN TRUE
            ELSE IF p[i] = Plain(Star)
                 THEN C[i + 1, j] \/ (j <= n /\ C[i, j + 1])
            ELSE IF p[i] = Plain(Dollar) THEN i = m /\ j = n + 1
            ELSE j <= n /\ Same(p[i], t[j]) /\ C[i + 1, j + 1]
    IN  C[1, 1]

Covered == PatternCovers(CharactersOf(written), CharactersOf(requested))

(* A wildcard may end inside an escape of the target only if a digit of    *)
(* the pattern follows it.                                                 *)
SplitsEscape ==
    /\ \E i \in 1..(Len(pattern) - 1) :
           pattern[i] = Star /\ IsHex(pattern[i + 1])
    /\ \E i \in DOMAIN target : target[i] = Percent

-----------------------------------------------------------------------------
(* Properties                                                              *)

(* Normalization and greedy backtracking give what the written rule means, *)
(* character by character: wildcards, anchors, and characters that are     *)
(* encoded in one text and not in the other.  A rule that covers a target  *)
(* always matches it, and no other matches, except that "/*2" also matches *)
(* "/%2F": the wildcard takes octets, and may end inside an escape.        *)
MatchesMeaning ==
    verdict # "running" =>
        /\ Covered => verdict = "match"
        /\ verdict = "match" => Covered \/ SplitsEscape

(* Every turn of the loop moves on to a later wildcard, lets the last one  *)
(* take more, or takes a character: the loop ends for every pattern and    *)
(* target, and goes back only to the last wildcard.                        *)
AdvancesStep ==
    \/ verdict' # "running"
    \/ starIndex' > starIndex
    \/ starIndex' = starIndex /\ starTargetIndex' > starTargetIndex
    \/ /\ <<starIndex, starTargetIndex>>' = <<starIndex, starTargetIndex>>
       /\ targetIndex' > targetIndex

Advances == [][AdvancesStep]_vars

=============================================================================
