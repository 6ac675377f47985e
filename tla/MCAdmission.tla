---------------------------- MODULE MCAdmission ----------------------------
(***************************************************************************)
(* Instances of Admission for TLC.  Each question needs bounds of its own: *)
(* the initial state picks one of three small systems.                     *)
(*                                                                         *)
(*   "runs"    two crawl runs that admit the same candidates               *)
(*   "policy"  one run at a time, and an operator who avoids, blocks and   *)
(*             pauses                                                      *)
(*   "fair"    runs without end, a name that never resolves and two that   *)
(*             may fail to, in batches of two                              *)
(***************************************************************************)
EXTENDS Integers

VARIABLES
    part,
    run, admitting, found, edges, batch, durable, waiting, source, evidence, queue,
    avoided, paused

vars == <<part, run, admitting, found, edges, batch, durable, waiting, source,
          evidence, queue, avoided, paused>>

Runs == INSTANCE Admission WITH
    NumCandidates <- 3, NumRuns <- 2, MaxPromotions <- 1, MaxProbes <- 1,
    Linked <- {1, 2}, Redirected <- {},
    Resolutions <- {"none", "unsafe"}, Unresolvable <- {},
    Verdicts <- {"valid", "terminal"}, Avoidable <- {}, AvoidStates <- {},
    Blockable <- {}, PauseStates <- {}, Recycled <- FALSE

Policy == INSTANCE Admission WITH
    NumCandidates <- 3, NumRuns <- 1, MaxPromotions <- 2, MaxProbes <- 1,
    Linked <- {1}, Redirected <- {2},
    Resolutions <- {"none"}, Unresolvable <- {},
    Verdicts <- {"valid", "miss"}, Avoidable <- {1},
    AvoidStates <- {TRUE, FALSE}, Blockable <- {1},
    PauseStates <- {TRUE, FALSE}, Recycled <- TRUE

Fair == INSTANCE Admission WITH
    NumCandidates <- 3, NumRuns <- 1, MaxPromotions <- 2, MaxProbes <- 1,
    Linked <- {1, 2, 3}, Redirected <- {},
    Resolutions <- {"none", "transient"}, Unresolvable <- {1},
    Verdicts <- {"terminal"}, Avoidable <- {},
    AvoidStates <- {}, Blockable <- {}, PauseStates <- {},
    Recycled <- TRUE

Init ==
    \/ part = "runs" /\ Runs!Init
    \/ part = "policy" /\ Policy!Init
    \/ part = "fair" /\ Fair!Init

Next ==
    /\ part' = part
    /\ \/ part = "runs" /\ Runs!Next
       \/ part = "policy" /\ Policy!Next
       \/ part = "fair" /\ Fair!Next

(* The fairness of Admission; only "fair" is asked for progress.           *)
InFair(A) == part = "fair" /\ A /\ part' = part

Fairness ==
    /\ \A r \in Fair!Runs :
        /\ WF_vars(InFair(Fair!Proceeds(r)))
        /\ SF_vars(InFair(Fair!PendingAutomaticCandidates(r)))
        /\ SF_vars(InFair(Fair!StartAdmission(r)))
        /\ \A c \in Fair!Candidates \ {1} :
              SF_vars(InFair(Fair!Resolves(r, c)))
    /\ \A c \in Fair!Candidates :
        /\ WF_vars(InFair(Fair!Due(c)))
        /\ WF_vars(InFair(Fair!Verified(c)))

Spec == Init /\ [][Next]_vars /\ Fairness

(* The runs alone, for PromotionsExact.                                    *)
RunsSpec == part = "runs" /\ Runs!Init /\ [][Next]_vars

-----------------------------------------------------------------------------
(* Runs that admit side by side promote a candidate once, and it is        *)
(* counted for the run that found it first, unless that run is being       *)
(* finished at the time (Admission).                                       *)
PromotionsCounted ==
    part = "runs" =>
        Runs!TypeOK /\ Runs!PromotedOnce /\ Runs!PromotionsCounted

(* Each promotion is counted for the run that found the candidate first,   *)
(* as the documentation says (Admission).                                  *)
PromotionsExact == Runs!PromotionsExact

(* No promotion against an exclusion or a block that its transaction read, *)
(* a pause or newer evidence, all of which may have changed since the      *)
(* batch was allocated (Admission).                                        *)
PromotionPermitted == Policy!PromotionPermitted

(* No link candidate that can be resolved is passed over for ever while    *)
(* the probe queue has room (Admission).                                   *)
EveryCandidateDecided == part = "fair" => Fair!EveryCandidateDecided

=============================================================================
