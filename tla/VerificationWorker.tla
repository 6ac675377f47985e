------------------------- MODULE VerificationWorker -------------------------
(***************************************************************************)
(* RunOnce of one verification worker, in time (internal/worker/worker.go).*)
(* VerificationQueue lets a worker make its calls in any order; here are   *)
(* the order that RunOnce makes them in, and the deadlines that it sets.   *)
(*                                                                         *)
(* The lease expires by the clock of the database and the worker looks at  *)
(* a clock of its own, which differs by skew.  left is what remains of the *)
(* lease, by the database.  A context with a timeout ends its call when    *)
(* the timeout has passed; other calls take any time.                      *)
(***************************************************************************)
EXTENDS Integers

CONSTANTS
    LeaseDuration, JobTimeout, CompletionGrace,
    Skews,   \* worker clock minus database clock
    Late     \* bound: how long after its expiration a lease is followed

VARIABLES
    skew,
    pc,
    held,         \* the row of the queue has this lease
    left,         \* lease_expires_at minus the clock of the database
    read,         \* age of the clock that the call under way compares with
    timer,        \* what is left of the timeout of the call under way
    attempt,
    timedOut,
    undisturbed   \* no call of the store failed, no cancellation, no block

workerVars ==
    <<skew, pc, held, left, read, timer, attempt, timedOut, undisturbed>>

WorkerTypeOK ==
    /\ skew \in Skews
    /\ pc \in {"idle", "ensure", "renew", "renewed", "verify", "complete",
               "abandon"}
    /\ held \in BOOLEAN /\ left \in -Late..LeaseDuration
    /\ read \in 0..(LeaseDuration + Late)
    /\ timer \in Nat /\ attempt \in 1..2
    /\ timedOut \in BOOLEAN /\ undisturbed \in BOOLEAN

MaxAttemptsPerCycle == 2

WorkerInit ==
    /\ skew \in Skews
    /\ pc = "idle" /\ held = FALSE /\ left = 0 /\ read = 0 /\ timer = 0
    /\ attempt = 1 /\ timedOut = FALSE /\ undisturbed = TRUE

(* The clock that Claim reads is some time old when it commits.            *)
Claim ==
    /\ pc = "idle"
    /\ pc' = "ensure" /\ held' = TRUE /\ left' \in -Late..LeaseDuration
    /\ attempt' = 1 /\ timedOut' = FALSE /\ undisturbed' = TRUE
    /\ UNCHANGED <<skew, read, timer>>

(* Claim commits and its reply is lost.                                    *)
ClaimFails ==
    /\ pc = "idle"
    /\ held' = TRUE /\ left' \in -Late..LeaseDuration
    /\ undisturbed' = FALSE
    /\ UNCHANGED <<skew, pc, read, timer, attempt, timedOut>>

-----------------------------------------------------------------------------
(* ensureVerificationLeaseBudget                                           *)

(* Mutant: the time to complete is not asked for.                          *)
BudgetToVerify(budget) == JobTimeout < budget

hasCompletionBudget(budget) ==
    /\ CompletionGrace < budget
    /\ JobTimeout < budget - CompletionGrace

(* ExpiresAt minus the worker's clock.                                     *)
Budget == left - skew

StartVerify == pc' = "verify" /\ timer' = JobTimeout /\ UNCHANGED read

StartCall(call, timeout) == pc' = call /\ read' = 0 /\ timer' = timeout

Ensure ==
    /\ pc = "ensure"
    /\ IF hasCompletionBudget(Budget) THEN StartVerify ELSE StartCall("renew", 0)
    /\ UNCHANGED <<skew, held, left, attempt, timedOut, undisturbed>>

-----------------------------------------------------------------------------
(* The calls on a lease.  Each of them reads the clock of the database, at *)
(* the start or at any later time, and compares the row with it.           *)

Call == pc \in {"renew", "complete", "abandon"}

ReadClock ==
    /\ Call /\ read > 0
    /\ read' = 0
    /\ UNCHANGED <<skew, pc, held, left, timer, attempt, timedOut, undisturbed>>

Authority == held /\ left + read > 0

Greatest(a, b) == IF a > b THEN a ELSE b

Effect ==
    IF pc = "renew"
    THEN left' = Greatest(left, LeaseDuration - read) /\ UNCHANGED held
    ELSE held' = FALSE /\ UNCHANGED left

Return == pc' = "idle" /\ read' = 0 /\ timer' = 0

Succeeds(call) ==
    /\ pc = call /\ Authority
    /\ Effect
    /\ UNCHANGED <<skew, attempt, timedOut, undisturbed>>

Renew == Succeeds("renew") /\ pc' = "renewed" /\ read' = 0 /\ timer' = 0

CompleteVerification == Succeeds("complete") /\ Return

AbandonVerification == Succeeds("abandon") /\ Return

(* After an error the lease is abandoned, but not if the error is of the   *)
(* completion and nothing had timed out: that lease is left to expire.     *)
AfterError ==
    IF pc = "renew" \/ (pc = "complete" /\ timedOut)
    THEN StartCall("abandon", CompletionGrace)
    ELSE Return

(* ErrLeaseLost.                                                           *)
Refused ==
    /\ Call /\ ~Authority
    /\ AfterError
    /\ UNCHANGED <<skew, held, left, attempt, timedOut, undisturbed>>

(* The call fails, with or without effect, or the origin is blocked.       *)
CallFails ==
    /\ Call
    /\ UNCHANGED <<held, left>> \/ (Authority /\ Effect)
    /\ AfterError
    /\ undisturbed' = FALSE
    /\ UNCHANGED <<skew, attempt, timedOut>>

Renewed ==
    /\ pc = "renewed"
    /\ IF hasCompletionBudget(Budget) THEN StartVerify
       ELSE StartCall("abandon", CompletionGrace)
    /\ UNCHANGED <<skew, held, left, attempt, timedOut, undisturbed>>

-----------------------------------------------------------------------------
(* verifyWithRetries                                                       *)

(* A result that is final, or a transient failure: the origin is tried     *)
(* once more, unless it asked for a delay.  Past the timeout an error      *)
(* counts as a transient failure.                                          *)
Verifies(transient, delayed) ==
    /\ pc = "verify"
    /\ timedOut' \in {timedOut, timedOut \/ (transient /\ timer = 0)}
    /\ IF transient /\ ~delayed /\ attempt < MaxAttemptsPerCycle
       THEN /\ pc' = "ensure" /\ attempt' = attempt + 1
            /\ timer' = 0 /\ UNCHANGED read
       ELSE StartCall("complete", CompletionGrace) /\ UNCHANGED attempt
    /\ UNCHANGED <<skew, held, left, undisturbed>>

(* An error before the timeout: abandonHardVerifyFailure.                  *)
VerifyFails ==
    /\ pc = "verify" /\ timer > 0
    /\ StartCall("abandon", CompletionGrace)
    /\ UNCHANGED <<skew, held, left, attempt, timedOut, undisturbed>>

(* The worker is stopped; abandoning fails with the same context.          *)
Cancel ==
    /\ pc # "idle"
    /\ Return
    /\ undisturbed' = FALSE
    /\ UNCHANGED <<skew, held, left, attempt, timedOut>>

-----------------------------------------------------------------------------
(* An expired lease is claimed by another worker.                          *)
Reclaim ==
    /\ held /\ left <= 0
    /\ held' = FALSE
    /\ UNCHANGED <<skew, pc, left, read, timer, attempt, timedOut, undisturbed>>

Deadline == pc \in {"verify", "complete", "abandon"}

Tick ==
    /\ left > -Late
    /\ Deadline => timer > 0
    /\ timer' = IF Deadline THEN timer - 1 ELSE timer
    /\ left' = left - 1 /\ read' = IF Call THEN read + 1 ELSE read
    /\ UNCHANGED <<skew, pc, held, attempt, timedOut, undisturbed>>

WorkerNext ==
    \/ Claim \/ ClaimFails \/ Ensure \/ Renewed
    \/ ReadClock \/ Renew \/ CompleteVerification \/ AbandonVerification
    \/ Refused \/ CallFails
    \/ \E transient, delayed \in BOOLEAN : Verifies(transient, delayed)
    \/ VerifyFails \/ Cancel \/ Reclaim \/ Tick

WorkerSpec == WorkerInit /\ [][WorkerNext]_workerVars

-----------------------------------------------------------------------------
(* A verification and the call that completes it always end before their   *)
(* lease does, retries and late renewals included; a clock that is behind  *)
(* by skew takes as much from this margin, and one that is not never lets  *)
(* another worker have the origin meanwhile.                               *)
LeaseCoversWork ==
    /\ pc = "verify" => left > timer + CompletionGrace + skew
    /\ pc = "complete" => left > timer + skew
    /\ pc \in {"verify", "complete"} /\ skew >= 0 => held

(* When RunOnce returns by itself, the store worked and nobody blocked the *)
(* origin, no lease keeps other workers from it: the work was completed or *)
(* abandoned, or the lease has expired.                                    *)
NothingLeftLeased == pc = "idle" /\ undisturbed => ~(held /\ left > 0)

(* The lease is as long as the work.                                       *)
LeaseFitsWork == WorkerTypeOK /\ LeaseCoversWork /\ NothingLeftLeased

=============================================================================
