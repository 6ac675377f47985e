-------------------------- MODULE MCDiscoveryLease --------------------------
(***************************************************************************)
(* Small instances of DiscoveryLease.                                      *)
(***************************************************************************)
EXTENDS DiscoveryLease, TLC

(* Every retry after one unit.                                             *)
OneRetry == 1 :> {1}

Setting(paused, automatic, open) ==
    [paused |-> paused, automatic |-> automatic, open |-> open]

(* Nothing is held back.                                                   *)
Calm == {Setting(FALSE, TRUE, Sources)}

(* Automatic expansion is paused, or the probe queue full, now and then.   *)
Backpressure == Calm \cup {Setting(FALSE, FALSE, Sources)}

=============================================================================
