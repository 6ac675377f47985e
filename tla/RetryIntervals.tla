--------------------------- MODULE RetryIntervals ---------------------------
(***************************************************************************)
(* When an origin is visited again (internal/retry/policy.go and the       *)
(* delays of CompleteVerification): one origin that answers time and       *)
(* again, with transient failures that may carry Retry-After, with misses  *)
(* that double the reprobe interval, and with other results.               *)
(***************************************************************************)
EXTENDS Integers, Sequences

CONSTANTS
    Headers,        \* Retry-After: records [kind, amount]
    Samples,        \* of the jitter, in tenths; some are out of range
    Schedule,       \* the delays of Policy.Delay
    MaxDelay,
    Second,         \* ticks of a duration per second
    Wrap,           \* durations are signed and taken modulo this
    FirstIntervals, \* values of FirstReprobeInterval; 0 is not set
    DefaultFirst, MaxReprobe,
    BackoffSteps, StaleRecheck,
    MaxAnswers      \* bound on failures and on misses

VARIABLES
    participated, first,  \* do not change
    failures,             \* consecutive_failures
    misses,               \* miss_count
    answer                \* what the last completion computed

vars == <<participated, first, failures, misses, answer>>

NoAnswer == [kind |-> "none", asked |-> 0, parsed |-> 0, delay |-> 0]

Init ==
    /\ participated \in BOOLEAN /\ first \in FirstIntervals
    /\ failures = 0 /\ misses = 0 /\ answer = NoAnswer

Smaller(a, b) == IF a < b THEN a ELSE b
Wrapped(d) == ((d + (Wrap \div 2)) % Wrap) - (Wrap \div 2)

-----------------------------------------------------------------------------
capDuration(d) == IF d <= 0 THEN 0 ELSE Smaller(d, MaxDelay)

(* The time that a number of seconds stands for.                           *)
(* Mutant: the product is taken before the limit.                          *)
SecondsUnlimited(n) == capDuration(Wrapped(n * Second))

Seconds(n) ==
    IF n > MaxDelay \div Second THEN MaxDelay ELSE Wrapped(n * Second)

(* A date is the number of ticks from now; text is what is neither.        *)
ParseRetryAfter(h) ==
    CASE h.kind = "number" -> IF h.amount <= 0 THEN 0 ELSE Seconds(h.amount)
      [] h.kind = "date" -> capDuration(h.amount)
      [] h.kind \in {"none", "text"} -> 0

Jittered(delay, sample) ==
    LET s == IF sample < 0 THEN 0 ELSE Smaller(sample, 10)
    IN (delay * (80 + 4 * s)) \div 100

Step(n) == IF n < 1 THEN 1 ELSE Smaller(n, Len(Schedule))

Delay(n, sample, retryAfter) ==
    LET delay == Jittered(Schedule[Step(n)], sample)
    IN capDuration(IF retryAfter > delay THEN retryAfter ELSE delay)

reprobeInterval(interval, priorMisses) ==
    LET doubled[n \in 0..priorMisses] ==
            IF n = 0 THEN interval
            ELSE IF doubled[n - 1] >= MaxReprobe \div 2 THEN MaxReprobe
            ELSE Wrapped(doubled[n - 1] * 2)
    IN IF interval >= MaxReprobe THEN MaxReprobe ELSE doubled[priorMisses]

-----------------------------------------------------------------------------
(* What the header asks for.                                               *)
Asked(h) ==
    CASE h.kind = "number" -> h.amount * Second
      [] h.kind = "date" -> h.amount
      [] OTHER -> 0

Stale(n) == participated /\ n > BackoffSteps

Transient(h, sample) ==
    /\ failures < MaxAnswers
    /\ failures' = failures + 1
    /\ answer' = [kind |-> "transient", asked |-> Asked(h),
                  parsed |-> ParseRetryAfter(h),
                  delay |-> IF Stale(failures') THEN StaleRecheck
                            ELSE Delay(failures', sample, ParseRetryAfter(h))]
    /\ UNCHANGED <<participated, first, misses>>

FirstReprobe == IF first = 0 THEN DefaultFirst ELSE first

Miss ==
    /\ misses < MaxAnswers
    /\ misses' = misses + 1 /\ failures' = 0
    /\ answer' = [kind |-> "miss", asked |-> 0, parsed |-> 0,
                  delay |-> reprobeInterval(FirstReprobe, misses)]
    /\ UNCHANGED <<participated, first>>

Other ==
    /\ failures' = 0 /\ answer' = NoAnswer
    /\ UNCHANGED <<participated, first, misses>>

Next ==
    \/ \E h \in Headers, sample \in Samples : Transient(h, sample)
    \/ Miss \/ Other

Spec == Init /\ [][Next]_vars

-----------------------------------------------------------------------------
(* The store accepts every parsed Retry-After.  A retry comes no earlier   *)
(* than the origin asked and the schedule allows, up to MaxDelay, and no   *)
(* later than the longest interval; a miss doubles the reprobe interval    *)
(* exactly, until its limit.  Nothing overflows on the way.                *)
DelaysHonoured ==
    /\ answer.parsed \in 0..MaxDelay
    /\ answer.kind = "transient" =>
           /\ answer.delay >= Smaller(answer.asked, MaxDelay)
           /\ 10 * answer.delay >= 8 * Schedule[Step(failures)] - 10
           /\ answer.delay <= IF Stale(failures) THEN StaleRecheck ELSE MaxDelay
    /\ answer.kind = "miss" =>
           answer.delay = Smaller(FirstReprobe * 2 ^ (misses - 1), MaxReprobe)

=============================================================================
