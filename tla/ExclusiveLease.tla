--------------------------- MODULE ExclusiveLease ---------------------------
(***************************************************************************)
(* What a durable lease promises, whatever table keeps it: an item has at  *)
(* most one holder, another client takes an item over only once its lease  *)
(* has lapsed, and the record of an item changes only when the client that *)
(* holds it finishes, which ends the lease.  The verification queue and    *)
(* the discovery sources each keep such leases.                            *)
(***************************************************************************)
CONSTANTS
    Items,      \* what is leased: queued origins, or crawl sources
    Clients,    \* who may hold a lease
    Nobody,     \* an item that nobody holds
    Nothing     \* the work of a client that has no item

VARIABLES
    owner,      \* the client that was last granted an item, or Nobody
    lapsed,     \* items whose lease others no longer respect
    record,     \* what finished work left behind, for every item
    work        \* the item that each client believes to hold, or Nothing

vars == <<owner, lapsed, record, work>>

Init ==
    /\ owner = [i \in Items |-> Nobody]
    /\ lapsed = Items
    /\ work = [c \in Clients |-> Nothing]

(* A client is granted an item that nobody holds or whose lease lapsed.    *)
(* The client that held it goes on and does not know.                      *)
Grant(i, c) ==
    /\ i \in lapsed
    /\ owner' = [owner EXCEPT ![i] = c]
    /\ lapsed' = lapsed \ {i}
    /\ work' = [work EXCEPT ![c] = i]
    /\ UNCHANGED record

(* Time passes: leases lapse, and no client gains anything by it.          *)
Lapse ==
    /\ lapsed \subseteq lapsed' /\ lapsed' \subseteq Items
    /\ UNCHANGED <<owner, record, work>>

(* A client finishes its item, which it still holds: the record may        *)
(* change, the lease ends.                                                 *)
Finish(i, c) ==
    /\ owner[i] = c /\ work[c] = i
    /\ owner' = [owner EXCEPT ![i] = Nobody]
    /\ lapsed' = lapsed \cup {i}
    /\ work' = [work EXCEPT ![c] = Nothing]
    /\ \A j \in Items \ {i} : record'[j] = record[j]

(* A client gives its item up or dies, and leaves everything as it is.     *)
Drop(c) ==
    /\ work' = [work EXCEPT ![c] = Nothing]
    /\ UNCHANGED <<owner, lapsed, record>>

Next ==
    \/ Lapse
    \/ \E c \in Clients :
        \/ \E i \in Items : Grant(i, c) \/ Finish(i, c)
        \/ Drop(c)

Spec == Init /\ [][Next]_vars

=============================================================================
