--------------------------- MODULE MCSourcePolicy --------------------------
(***************************************************************************)
(* Instances of SourcePolicy for TLC.                                      *)
(***************************************************************************)
EXTENDS SourcePolicy, TLC

CONSTANTS o1, o2

(* Both patterns match o2, and "narrow" matches nothing else.              *)
TwoPatterns == {"narrow", "wide"}
CoversBoth == "narrow" :> {o2} @@ "wide" :> {o1, o2}

=============================================================================
