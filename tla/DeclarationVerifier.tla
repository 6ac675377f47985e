------------------------ MODULE DeclarationVerifier ------------------------
(***************************************************************************)
(* One verification of an origin: the requests of Verifier.Verify          *)
(* (internal/declaration), the attempts of verifyWithRetries               *)
(* (internal/worker), and the check that the store makes before it records *)
(* the result.  Sites answer as they like.                                 *)
(*                                                                         *)
(* What a delay comes to is in RetryIntervals, how long the attempts may   *)
(* take in VerificationWorker.                                             *)
(***************************************************************************)
EXTENDS Integers, Sequences

CONSTANTS
    Statuses,       \* of an HTTP response
    Errors,         \* of a request, as FailureCategory tells them apart
    Bodies,         \* [read, version, josh]; read is "complete", "large" or
                    \* "failed", and a malformed document has no version
    RetryAfters,    \* what ParseRetryAfter makes of the headers
    MaxDelay,
    MaxRedirects,   \* maxDeclarationRedirects
    MaxAttempts     \* MaxAttemptsPerCycle

VARIABLES
    pc,         \* "request", "attempted", "returned", "failed"
    attempt, redirects,
    asked,      \* the origins of this attempt's requests, a ghost
    result,
    answers     \* how each attempt ended, a ghost

vars == <<pc, attempt, redirects, asked, result, answers>>

NoDeclaration == [version |-> 0, identity |-> "none"]

Result(outcome, category, after) ==
    [outcome |-> outcome, category |-> category, after |-> after,
     declaration |-> NoDeclaration]

Nothing == Result("none", "none", 0)

Init ==
    /\ pc = "request" /\ attempt = 1 /\ redirects = 0
    /\ asked = <<"source">> /\ result = Nothing /\ answers = <<>>

-----------------------------------------------------------------------------
(* Categories: retry.Category, netguard.FailureCategory, HTTPStatusCategory *)

Transient(category) ==
    category \in {"dns", "transport", "timeout", "robots_temporary", "http_408",
                  "http_429", "http_5xx", "declaration_unavailable", "processor",
                  "store"}

Valid(category) ==
    \/ Transient(category)
    \/ category \in {"none", "http_4xx", "unsafe_address", "policy_blocked",
                     "robots_denied", "malformed_origin", "unsupported_origin",
                     "oversized_content", "unsupported_content",
                     "budget_exhausted", "declaration_invalid",
                     "declaration_unsupported", "cross_origin_redirect",
                     "declaration_absent"}

FailureCategory(error) ==
    CASE error = "deadline" -> "timeout"
      [] error \in {"resolution", "no_addresses"} -> "dns"
      [] error = "unsafe_address" -> "unsafe_address"
      [] error = "dial" -> "transport"
      [] error = "invalid_origin" -> "malformed_origin"
      [] OTHER -> "unsupported_origin"

HTTPStatusCategory(status) ==
    CASE status = 408 -> "http_408"
      [] status = 429 -> "http_429"
      [] status \in 500..599 -> "http_5xx"
      [] OTHER -> "unsupported_origin"

-----------------------------------------------------------------------------
(* The result of one response                                              *)

Failed(error) ==
    CASE error = "disallowed" -> Result("robots_denied", "none", 0)
      [] error = "robots_temporary" -> Result("unavailable", error, 0)
      [] OTHER ->
           LET category == FailureCategory(error)
           IN Result("unavailable", IF category = "unsupported_origin"
                                    THEN "transport" ELSE category, 0)

(* Mutant: a body that is too large is an invalid declaration of a         *)
(* category.                                                               *)
TooLargeNamed == Result("invalid", "oversized_content", 0)

TooLarge == Result("invalid", "none", 0)

Parse(body) ==
    CASE body.version \notin {"1", "2"} -> Result("invalid", "none", 0)
      [] body.version = "2" -> Result("unsupported_version", "none", 0)
      [] body.josh = "other" -> Result("invalid", "none", 0)
      [] OTHER ->
           [Result("valid", "none", 0) EXCEPT
               !.declaration =
                   [version |-> 1,
                    identity |-> CASE body.josh = "true" -> "affirmed"
                                   [] body.josh = "false" -> "declined"
                                   [] OTHER -> "undeclared"]]

Retrieved(body) ==
    CASE body.read = "large" -> TooLarge
      [] body.read = "failed" -> Result("unavailable", "transport", 0)
      [] OTHER -> Parse(body)

isDeclarationRedirect(status) == status \in {301, 302, 303, 307, 308}

(* declarationRedirectTarget: to the same origin, to another, or nowhere.  *)
Location == {"source", "other", "invalid"}

-----------------------------------------------------------------------------
(* A step of the loop in Verify                                            *)

Attempted(answer, r) ==
    /\ pc' = "attempted" /\ result' = r
    /\ answers' = Append(answers, answer)
    /\ UNCHANGED <<attempt, redirects, asked>>

GetFails(error) ==
    /\ pc = "request"
    /\ Attempted(error, Failed(error))

NoResponse ==
    /\ pc = "request"
    /\ Attempted("empty", Result("unavailable", "transport", 0))

Redirects(status, location) ==
    /\ pc = "request" /\ isDeclarationRedirect(status)
    /\ CASE redirects >= MaxRedirects ->
              Attempted("redirects",
                        Result("unavailable", "unsupported_origin", 0))
         [] redirects < MaxRedirects /\ location = "invalid" ->
              Attempted("redirect",
                        Result("unavailable", "malformed_origin", 0))
         [] redirects < MaxRedirects /\ location = "other" ->
              Attempted("redirect", Result("cross_origin_redirect", "none", 0))
         [] OTHER ->
              /\ asked' = Append(asked, location)
              /\ redirects' = redirects + 1
              /\ UNCHANGED <<pc, attempt, result, answers>>

Succeeds(status, body) ==
    /\ pc = "request" /\ status \in 200..299
    /\ Attempted(body.read, Retrieved(body))

Absent(status) ==
    /\ pc = "request" /\ status \in {404, 410}
    /\ Attempted("absent", Result("absent", "none", 0))

Refuses(status, after) ==
    /\ pc = "request"
    /\ ~isDeclarationRedirect(status) /\ status \notin 200..299 \cup {404, 410}
    /\ Attempted(IF HTTPStatusCategory(status) = "unsupported_origin"
                 THEN "rejected" ELSE IF after > 0 THEN "delayed" ELSE "busy",
                 Result("unavailable", HTTPStatusCategory(status), after))

(* The job's timeout, or the end of the worker, at any point in Verify.    *)
TimesOut ==
    /\ pc = "request"
    /\ Attempted("timeout", Result("unavailable", "timeout", 0))

Cancelled ==
    /\ pc = "request" /\ pc' = "failed"
    /\ UNCHANGED <<attempt, redirects, asked, result, answers>>

-----------------------------------------------------------------------------
(* verifyWithRetries between two attempts                                  *)

Repeats(r) ==
    /\ r.outcome = "unavailable" /\ Transient(r.category) /\ r.after = 0
    /\ attempt < MaxAttempts

Retry ==
    /\ pc = "attempted" /\ Repeats(result)
    /\ pc' = "request" /\ attempt' = attempt + 1
    /\ redirects' = 0 /\ asked' = <<"source">>
    /\ UNCHANGED <<result, answers>>

(* The lease could not be renewed for another attempt.                     *)
RetryFails ==
    /\ pc = "attempted" /\ Repeats(result) /\ pc' = "failed"
    /\ UNCHANGED <<attempt, redirects, asked, result, answers>>

Return ==
    /\ pc = "attempted" /\ ~Repeats(result) /\ pc' = "returned"
    /\ UNCHANGED <<attempt, redirects, asked, result, answers>>

Next ==
    \/ \E error \in Errors : GetFails(error)
    \/ \E status \in Statuses :
          \/ \E location \in Location :
                Redirects(status, location)
          \/ \E body \in Bodies : Succeeds(status, body)
          \/ Absent(status)
          \/ \E after \in RetryAfters : Refuses(status, after)
    \/ NoResponse \/ TimesOut \/ Cancelled \/ Retry \/ RetryFails \/ Return

Spec == Init /\ [][Next]_vars

-----------------------------------------------------------------------------
(* validVerificationResult                                                 *)
validVerificationResult(r) ==
    CASE r.outcome = "valid" ->
           /\ r.declaration.version = 1
           /\ r.declaration.identity \in {"undeclared", "affirmed", "declined"}
           /\ r.category = "none" /\ r.after = 0
      [] r.outcome = "unavailable" ->
           /\ r.declaration = NoDeclaration
           /\ Valid(r.category) /\ r.after \in 0..MaxDelay
      [] OTHER ->
           /\ r.outcome \in {"invalid", "absent", "unsupported_version",
                             "robots_denied", "cross_origin_redirect"}
           /\ r.declaration = NoDeclaration
           /\ r.category = "none" /\ r.after = 0

(* Whatever a site answers, the store accepts the result (a refused one    *)
(* would leave the origin leased and verified again and again), all        *)
(* requests are to the origin under verification and at most MaxRedirects  *)
(* of them follow redirects, and an attempt is repeated only after a       *)
(* temporary failure for which the site asked for no delay.                *)
ResultAccepted ==
    /\ pc = "returned" => validVerificationResult(result)
    /\ \A i \in DOMAIN asked : asked[i] = "source"
    /\ Len(asked) <= MaxRedirects + 1
    /\ \A i \in DOMAIN answers :
          i < Len(answers) =>
              answers[i] \notin {"complete", "large", "absent", "redirect",
                                 "redirects", "rejected", "delayed",
                                 "disallowed", "unsafe_address",
                                 "invalid_origin"}

=============================================================================
