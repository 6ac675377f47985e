------------------------------ MODULE MCQueue ------------------------------
(***************************************************************************)
(* Instances of VerificationQueue for TLC that ask for bounds of their     *)
(* own, over the same three origins: 1 is an automatic source, 3 a seed.   *)
(* The initial state picks one of five small queues.                       *)
(*                                                                         *)
(*   "operator"   an operator who schedules, blocks and pauses origin 1    *)
(*   "shared"     two workers with the ID of one                           *)
(*   "admission"  two crawlers that admit candidates                       *)
(*   "sources"    origins 1 and 2 are found time and again                 *)
(*   "seed"       origin 3 is found                                        *)
(*                                                                         *)
(* queue_parts.cfg has the bounds of the first; the others are instances.  *)
(***************************************************************************)
EXTENDS VerificationQueue, TLC

VARIABLE part

OneID == <<"w">>
TwoDelays == 1 :> {1} @@ 2 :> {2}
TwoReprobes == 0 :> 1 @@ 1 :> 2

Shared == INSTANCE VerificationQueue WITH
    Workers <- {1, 2}, IDOf <- <<"w", "w">>,
    RequestTimes <- {0}, Schedulable <- {}, Blockable <- {}, PauseStates <- {},
    Outcomes <- {"valid", "miss", "denied", "transient"},
    MaxTime <- 3, MaxClaims <- 3

Admission == INSTANCE VerificationQueue WITH
    Crawlers <- {"c", "d"},
    RequestTimes <- {0}, Schedulable <- {}, Blockable <- {}, PauseStates <- {},
    Outcomes <- {"valid"}, MaxTime <- 1, MaxClaims <- 1

Sources == INSTANCE VerificationQueue WITH
    RequestTimes <- {0}, Schedulable <- {}, Blockable <- {}, PauseStates <- {},
    Outcomes <- {"valid", "miss"}, LastDiscovery <- 2

Seed == INSTANCE VerificationQueue WITH
    RequestTimes <- {0}, Schedulable <- {}, Blockable <- {}, PauseStates <- {},
    Outcomes <- {"valid", "miss"}, LastDiscovery <- 1

(* The origins that are found.                                             *)
Found ==
    CASE part = "operator" -> {1}
      [] part = "shared" -> {}
      [] part = "admission" -> {2, 3}
      [] part = "sources" -> {1, 2}
      [] part = "seed" -> {3}

PartInit ==
    \/ part = "operator" /\ Init
    \/ part = "shared" /\ Shared!Init
    \/ part = "admission" /\ Admission!Init
    \/ part = "sources" /\ Sources!Init
    \/ part = "seed" /\ Seed!Init

PartNext ==
    /\ part' = part
    /\ \/ part = "operator" /\ Next
       \/ part = "shared" /\ Shared!Next
       \/ part = "admission" /\ Admission!Next
       \/ part = "sources" /\ Sources!Next
       \/ part = "seed" /\ Seed!Next
    /\ \A o \in Origins \ Found : discovered'[o] = discovered[o]

PartSpec == PartInit /\ [][PartNext]_<<part, vars>>

-----------------------------------------------------------------------------
(* Fencing by owner and generation holds for workers that share an ID.     *)
FencedByGeneration == part = "shared" => Shared!Fenced

=============================================================================
