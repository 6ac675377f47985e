------------------------- MODULE PublicationTarget -------------------------
(***************************************************************************)
(* What publication promises of the public branch.  A call publishes one   *)
(* snapshot.  The branch takes the snapshot in one step, at any time after *)
(* the call began, or not at all; a call that answers "ok" had it on the   *)
(* branch at some moment between its begin and its answer.  Others write   *)
(* to the branch too.                                                      *)
(***************************************************************************)
CONSTANTS Callers, Snapshots, Contents

VARIABLES
    branch,  \* the content of the branch
    asked,   \* the snapshots that calls asked for so far
    call     \* the last call of each caller

vars == <<branch, asked, call>>

NoCall == [snapshot |-> 0, held |-> FALSE, answer |-> "none"]

Open(p) == call[p].snapshot # 0 /\ call[p].answer = "none"

Init ==
    /\ branch \in Contents
    /\ asked = {}
    /\ call = [p \in Callers |-> NoCall]

(* Open calls that see their snapshot on a branch with this content.       *)
Seen(content) ==
    [p \in Callers |->
        [call[p] EXCEPT !.held = @ \/ (Open(p) /\ content.files = call[p].snapshot)]]

Begin(p, s) ==
    /\ ~Open(p)
    /\ asked' = asked \cup {s}
    /\ call' = [call EXCEPT ![p] = [snapshot |-> s, held |-> branch.files = s,
                                    answer |-> "none"]]
    /\ UNCHANGED branch

(* A call that is refused at once.                                         *)
Refuse(p) ==
    /\ ~Open(p)
    /\ call' = [call EXCEPT ![p] = NoCall]
    /\ UNCHANGED <<branch, asked>>

(* The branch takes a snapshot that a call asked for; what it held before  *)
(* was marked as managed by the publisher, and so is what it holds then.   *)
Take ==
    /\ branch.managed /\ branch'.managed
    /\ branch'.files \in asked
    /\ call' = Seen(branch')
    /\ UNCHANGED asked

Outside ==
    /\ branch' \in Contents
    /\ call' = Seen(branch')
    /\ UNCHANGED asked

Answer(p, answer) ==
    /\ Open(p)
    /\ answer = "ok" => call[p].held
    /\ call' = [call EXCEPT ![p].answer = answer]
    /\ UNCHANGED <<branch, asked>>

Next ==
    \/ \E p \in Callers, s \in Snapshots : Begin(p, s)
    \/ \E p \in Callers : Refuse(p)
    \/ Take
    \/ Outside
    \/ \E p \in Callers, answer \in {"ok", "failed"} : Answer(p, answer)

Spec == Init /\ [][Next]_vars

=============================================================================
