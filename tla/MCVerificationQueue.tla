------------------------ MODULE MCVerificationQueue ------------------------
(***************************************************************************)
(* Small instances of VerificationQueue.  The unit of time stands for the  *)
(* shortest interval that the policies tell apart.                         *)
(***************************************************************************)
EXTENDS VerificationQueue, TLC

(* Every process has an ID of its own.                                     *)
DistinctIDs == [w \in Workers |-> w]

WorkerSymmetry == Permutations(Workers)

(* A first retry after one unit, every later one after two.                *)
ShortRetries == 1 :> {1} @@ 2 :> {2}

(* A first reprobe after one unit, then twice that.                        *)
ShortReprobes == 0 :> 1 @@ 1 :> 2

=============================================================================
