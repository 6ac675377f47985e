---------------------------- MODULE MCPublisher ----------------------------
(***************************************************************************)
(* Publisher and RegistryExport for TLC.  The initial state picks one of   *)
(* four small systems.  Three of them are Publisher with the constants of  *)
(* publication.cfg, with fewer snapshots or trees and lower bounds, so     *)
(* that every behaviour of theirs is one of Spec; the last is              *)
(* RegistryExport.                                                         *)
(*                                                                         *)
(*   "pair"      two publishers, and others who push to the branch         *)
(*   "late"      two publishers whose requests fail, get lost or come late *)
(*   "retry"     one publisher that publishes again and again              *)
(*   "services"  the exporter and the publisher around their directory     *)
(***************************************************************************)
EXTENDS Publisher, RegistryExport

VARIABLE part

branchVars == <<commits, head, inflight, call, asked, ordered, faults>>
partVars == <<part, branchVars, exportVars>>

(* What others push: other files with the sentinel, without it, or with a  *)
(* wrong one.                                                              *)
Kept == [sentinel |-> "ok", files |-> 0]
Removed == [sentinel |-> "none", files |-> 0]
Spoiled == [sentinel |-> "bad", files |-> 0]
AllTrees == {Kept, Removed, Spoiled}

Pair == INSTANCE Publisher WITH
    Invalid <- {}, MaxCommits <- 2, MaxForeign <- 1, MaxFaults <- 0

Late == INSTANCE Publisher WITH
    Invalid <- {}, Foreign <- {Kept, Removed},
    MaxCommits <- 2, MaxForeign <- 0, MaxFaults <- 1

Retry == INSTANCE Publisher WITH
    Snapshots <- {1}, Foreign <- {Kept},
    MaxCommits <- 6, MaxForeign <- 1, MaxFaults <- 2

PartInit ==
    /\ \/ part = "pair" /\ Pair!Init
       \/ part = "late" /\ Late!Init
       \/ part = "retry" /\ Retry!Init
       \/ part = "services" /\ Retry!Init
    /\ ExportInit

PartNext ==
    /\ part' = part
    /\ \/ /\ \/ part = "pair" /\ Pair!Next
             \/ part = "late" /\ Late!Next
             \/ part = "retry" /\ Retry!Next /\ call'["q"] = NoCall
          /\ UNCHANGED exportVars
       \/ /\ part = "services" /\ ExportNext
          /\ UNCHANGED branchVars

(* Steps of one publisher, and of the services.                            *)
RetryDoes(A) == part = "retry" /\ A /\ UNCHANGED <<part, exportVars>>
ServicesDo(A) == part = "services" /\ A /\ UNCHANGED <<part, branchVars>>

(* Publisher's CallerFairness and ExportFairness; only "retry" and         *)
(* "services" are asked for progress.                                      *)
PartFairness ==
    /\ WF_partVars(RetryDoes(Retry!Publish("p", 1)))
    /\ WF_partVars(RetryDoes(Retry!Step("p")))
    /\ WF_partVars(RetryDoes(\E c \in inflight : Retry!HandleUpdate(c)))
    /\ WF_partVars(ServicesDo(ExportStep))
    /\ WF_partVars(ServicesDo(PublishStep))

PartSpec == PartInit /\ [][PartNext]_partVars /\ PartFairness

-----------------------------------------------------------------------------
(* A snapshot gets published in spite of failures (Publisher).             *)
RetryPublishes == part = "retry" => Retry!EventuallyPublished

(* What is published follows the registry (RegistryExport).                *)
PublicationFollows == part = "services" => EventuallyCurrent

=============================================================================
