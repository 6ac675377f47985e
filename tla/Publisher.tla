----------------------------- MODULE Publisher -----------------------------
(***************************************************************************)
(* Publication of registry snapshots to a branch on GitHub                 *)
(* (internal/githubpublish/publisher.go).                                  *)
(*                                                                         *)
(* Several callers publish: the publication service and the operator's     *)
(* publish command.  Others push to the branch between their requests.     *)
(* Every request may fail.  The branch update may also be applied with its *)
(* reply lost, or arrive after the caller gave up and went on.             *)
(*                                                                         *)
(* Git objects are content addressed: a tree's SHA is its content here,    *)
(* and commits are numbered in the order of their creation.                *)
(***************************************************************************)
EXTENDS Integers, Sequences, FiniteSets

CONSTANTS
    Callers,
    Snapshots,    \* valid snapshots, numbered by age
    Invalid,      \* snapshots that prepareSnapshot refuses
    Foreign,      \* trees that others push
    MaxCommits,   \* bound: commits of publishers
    MaxForeign,   \* bound: commits of others
    MaxFaults     \* bound: requests that fail

(* Others push none of the snapshots.                                      *)
ASSUME PublisherAssumption ==
    /\ Snapshots \subseteq Nat \ {0}
    /\ Snapshots \cap Invalid = {}
    /\ "other" \notin Callers
    /\ \A t \in Foreign : t.sentinel \in {"ok", "none", "bad"} /\ t.files = 0
    /\ MaxFaults \in Nat

VARIABLES
    commits,   \* commit objects: tree, parent, creator, and the commits that
               \* it descends from, with itself
    head,      \* the branch reference
    inflight,  \* branch updates that GitHub has not handled yet
    call,      \* the Publish call of each caller
    asked,     \* history: the snapshots that calls asked for so far
    ordered,   \* history: calls came one after the other, and none of them
               \* went back to an older snapshot
    faults     \* failed requests so far

vars == <<commits, head, inflight, call, asked, ordered, faults>>

(* A call's locals: the snapshot; headSHA and currentTreeSHA; its commit;  *)
(* the reply to the update; the answer.  held is a history variable: the   *)
(* branch had the snapshot since the call began.                           *)
NoCall == [stage |-> "idle", snapshot |-> 0, head |-> 0, commit |-> 0,
           reply |-> "none", answer |-> "none", sha |-> 0, held |-> FALSE]

Stages == {"idle", "head", "tree", "sentinel", "blobs", "newtree", "commit",
           "update", "updating", "rehead", "retree"}

Answers == {"none", "changed", "unchanged", "unsafe", "conflict", "failed"}

Managed(t) == t.sentinel = "ok"

TreeOf(s) == [sentinel |-> "ok", files |-> s]

Commit == [tree : Foreign \cup {TreeOf(s) : s \in Snapshots}, parent : Nat,
           by : Callers \cup {"other"}, history : SUBSET Nat]

Call == [stage : Stages, snapshot : Snapshots \cup Invalid \cup {0},
         head : 0..Len(commits), commit : 0..Len(commits),
         reply : {"none", "ok", "conflict"}, answer : Answers,
         sha : 0..Len(commits), held : BOOLEAN]

TypeOK ==
    /\ commits \in Seq(Commit)
    /\ \A c \in DOMAIN commits : commits[c].parent \in 0..(c - 1)
    /\ head \in DOMAIN commits
    /\ inflight \subseteq DOMAIN commits
    /\ call \in [Callers -> Call]
    /\ asked \subseteq Snapshots
    /\ ordered \in BOOLEAN
    /\ faults \in 0..MaxFaults

Tree(c) == commits[c].tree

History(c) == commits[c].history

(* The next commit, on top of one that exists.                             *)
Child(tree, parent, by) ==
    [tree |-> tree, parent |-> parent, by |-> by,
     history |-> {Len(commits) + 1} \cup History(parent)]

Init ==
    /\ \E t \in Foreign :
         commits = <<[tree |-> t, parent |-> 0, by |-> "other", history |-> {1}]>>
    /\ head = 1
    /\ inflight = {}
    /\ call = [p \in Callers |-> NoCall]
    /\ asked = {}
    /\ ordered = TRUE
    /\ faults = 0

-----------------------------------------------------------------------------
(* Steps of a call                                                         *)

Goto(p, stage) == call' = [call EXCEPT ![p].stage = stage]

(* Publish returns; its locals are gone.                                   *)
Returned(k, answer, sha) ==
    [NoCall EXCEPT !.snapshot = k.snapshot, !.answer = answer, !.sha = sha,
                   !.held = k.held]

Return(p, answer, sha) ==
    call' = [call EXCEPT ![p] = Returned(@, answer, sha)]

GitHub == <<commits, head, inflight>>

history == <<asked, ordered>>

(* prepareSnapshot; SnapshotFiles models it.                               *)
Refused(s) == s \in Invalid

(* An invalid snapshot is refused before any request.                      *)
Publish(p, s) ==
    /\ call[p].stage = "idle"
    /\ call' = [call EXCEPT ![p] =
           IF Refused(s) THEN [NoCall EXCEPT !.snapshot = s, !.answer = "failed"]
           ELSE [NoCall EXCEPT !.stage = "head", !.snapshot = s,
                               !.held = Tree(head).files = s]]
    /\ asked' = IF Refused(s) THEN asked ELSE asked \cup {s}
    /\ ordered' = (/\ ordered
                   /\ \A a \in asked : s >= a
                   /\ \A q \in Callers : call[q].stage = "idle")
    /\ UNCHANGED <<GitHub, faults>>

(* A request fails, or its reply is lost or not usable.                    *)
RequestFails(p) ==
    /\ call[p].stage \notin {"idle", "updating"}
    /\ faults < MaxFaults
    /\ faults' = faults + 1
    /\ Return(p, "failed", 0)
    /\ UNCHANGED <<GitHub, history>>

CurrentHead(p) ==
    /\ call[p].stage = "head"
    /\ call' = [call EXCEPT ![p].head = head, ![p].stage = "tree"]
    /\ UNCHANGED <<GitHub, history, faults>>

(* currentTreeSHA is the tree of the head that was read.                   *)
CommitTree(p) ==
    /\ call[p].stage = "tree"
    /\ Goto(p, "sentinel")
    /\ UNCHANGED <<GitHub, history, faults>>

(* Mutant: any file of the sentinel's name will do.                        *)
SentinelVerifiedAny(t) == t.sentinel # "none"

SentinelVerified(t) == Managed(t)

VerifySentinel(p) ==
    /\ call[p].stage = "sentinel"
    /\ IF SentinelVerified(Tree(call[p].head)) THEN Goto(p, "blobs")
       ELSE Return(p, "unsafe", 0)
    /\ UNCHANGED <<GitHub, history, faults>>

(* One request per file; the blobs are not visible.                        *)
CreateBlobs(p) ==
    /\ call[p].stage = "blobs"
    /\ Goto(p, "newtree")
    /\ UNCHANGED <<GitHub, history, faults>>

(* Mutant: the new tree is compared with itself.                           *)
UnchangedAlways(p) == TRUE

Unchanged(p) == Tree(call[p].head) = TreeOf(call[p].snapshot)

CreateTree(p) ==
    /\ call[p].stage = "newtree"
    /\ IF Unchanged(p) THEN Return(p, "unchanged", call[p].head)
       ELSE Goto(p, "commit")
    /\ UNCHANGED <<GitHub, history, faults>>

Ours == {c \in DOMAIN commits : commits[c].by \in Callers}

(* The commit may exist although its reply is lost.                        *)
CreateCommit(p) ==
    /\ call[p].stage = "commit"
    /\ Cardinality(Ours) < MaxCommits
    /\ commits' = Append(commits, Child(TreeOf(call[p].snapshot), call[p].head, p))
    /\ \/ /\ call' = [call EXCEPT ![p].stage = "update",
                                  ![p].commit = Len(commits) + 1]
          /\ UNCHANGED faults
       \/ /\ faults < MaxFaults /\ faults' = faults + 1
          /\ Return(p, "failed", 0)
    /\ UNCHANGED <<head, inflight, history>>

SendUpdate(p) ==
    /\ call[p].stage = "update"
    /\ inflight' = inflight \cup {call[p].commit}
    /\ Goto(p, "updating")
    /\ UNCHANGED <<commits, head, history, faults>>

(* Mutant: the update is forced.                                           *)
FastForwardForced(c) == TRUE

(* Force: false.                                                           *)
FastForward(c) == head \in History(c)

(* What open calls see of a branch with tree t.                            *)
Seen(k, t) == [k EXCEPT !.held = @ \/ (k.stage # "idle" /\ t.files = k.snapshot)]

(* GitHub handles an update, whether or not its caller still waits.        *)
HandleUpdate(c) ==
    LET moves == FastForward(c)
        Reply(p) == IF call[p].stage = "updating" /\ call[p].commit = c
                    THEN [call[p] EXCEPT !.reply = IF moves THEN "ok" ELSE "conflict"]
                    ELSE call[p]
    IN  /\ c \in inflight
        /\ inflight' = inflight \ {c}
        /\ head' = IF moves THEN c ELSE head
        /\ call' = [p \in Callers |-> Seen(Reply(p), Tree(head'))]
        /\ UNCHANGED <<commits, history, faults>>

LoseUpdate(c) ==
    /\ c \in inflight
    /\ faults < MaxFaults /\ faults' = faults + 1
    /\ inflight' = inflight \ {c}
    /\ UNCHANGED <<commits, head, call, history>>

(* The reply arrives.  A conflict is looked into.                          *)
UpdateReply(p) ==
    /\ call[p].stage = "updating" /\ call[p].reply # "none"
    /\ IF call[p].reply = "ok" THEN Return(p, "changed", call[p].commit)
       ELSE Goto(p, "rehead")
    /\ UNCHANGED <<GitHub, history, faults>>

(* The request times out: before it arrived, or after it was handled.  It  *)
(* is not taken for a conflict.                                            *)
UpdateTimeout(p) ==
    /\ call[p].stage = "updating"
    /\ \/ faults < MaxFaults /\ faults' = faults + 1
       \/ /\ call[p].commit \notin inflight /\ call[p].reply = "none"
          /\ UNCHANGED faults
    /\ Return(p, "failed", 0)
    /\ UNCHANGED <<GitHub, history>>

(* reconcileReferenceConflict.                                             *)
ReconcileHead(p) ==
    /\ call[p].stage = "rehead"
    /\ call' = [call EXCEPT ![p].head = head, ![p].stage = "retree"]
    /\ UNCHANGED <<GitHub, history, faults>>

(* Mutant: a conflict is taken for a publication of the same tree.         *)
ReconciledAlways(p) == TRUE

Reconciled(p) == Tree(call[p].head) = TreeOf(call[p].snapshot)

ReconcileTree(p) ==
    /\ call[p].stage = "retree"
    /\ IF Reconciled(p) THEN Return(p, "unchanged", call[p].head)
       ELSE Return(p, "conflict", 0)
    /\ UNCHANGED <<GitHub, history, faults>>

(* Someone else pushes to the branch, without force.                       *)
Push(t) ==
    /\ Cardinality(DOMAIN commits \ Ours) <= MaxForeign
    /\ commits' = Append(commits, Child(t, head, "other"))
    /\ head' = Len(commits) + 1
    /\ call' = [p \in Callers |-> Seen(call[p], t)]
    /\ UNCHANGED <<inflight, history, faults>>

Step(p) ==
    \/ CurrentHead(p) \/ CommitTree(p) \/ VerifySentinel(p) \/ CreateBlobs(p)
    \/ CreateTree(p) \/ CreateCommit(p) \/ SendUpdate(p) \/ UpdateReply(p)
    \/ UpdateTimeout(p) \/ ReconcileHead(p) \/ ReconcileTree(p)

Next ==
    \/ \E p \in Callers :
        \/ \E s \in Snapshots \cup Invalid : Publish(p, s)
        \/ Step(p)
        \/ RequestFails(p)
    \/ \E c \in inflight : HandleUpdate(c) \/ LoseUpdate(c)
    \/ \E t \in Foreign : Push(t)

Spec == Init /\ [][Next]_vars

(* A service tries again after every failure; requests that do not fail    *)
(* are answered.                                                           *)
CallerFairness(p) ==
    /\ \A s \in Snapshots : WF_vars(Publish(p, s))
    /\ WF_vars(Step(p))
    /\ WF_vars(\E c \in inflight : HandleUpdate(c))

-----------------------------------------------------------------------------
(* Properties                                                              *)

(* The branch does not go back to an older snapshot as long as the calls   *)
(* do not, also when an update arrives after its caller gave up and        *)
(* something newer was published.                                          *)
NoRegressionStep ==
    ordered /\ head' # head /\ head' \in Ours =>
        Tree(head').files > Tree(head).files

NoRegression == [][NoRegressionStep]_vars

(* What Publish returns without error is a commit that was on the branch   *)
(* during the call and has the snapshot; it reports a change exactly for a *)
(* commit of its own.                                                      *)
ResultTrue ==
    \A p \in Callers :
        call[p].answer \in {"changed", "unchanged"} =>
            /\ call[p].held
            /\ Tree(call[p].sha) = TreeOf(call[p].snapshot)
            /\ call[p].sha \in History(head)
            /\ call[p].answer = "changed" => commits[call[p].sha].by = p

(* "An unchanged snapshot does not create a commit": no publisher's commit *)
(* on the branch has the tree of the commit before it, however many        *)
(* publishers and retries there are.                                       *)
NoEmptyCommit ==
    \A c \in History(head) \cap Ours : Tree(c) # Tree(commits[c].parent)

(* The answers and the branch are true to each other in every state.       *)
PublicationHonest == TypeOK /\ ResultTrue /\ NoEmptyCommit

(* While others keep the sentinel and requests do not fail for ever, the   *)
(* snapshot comes to the branch and stays.                                 *)
EventuallyPublished == <>[](Tree(head).files \in Snapshots)

(* The abstract view of the branch and of the calls.                       *)
Content(t) == [managed |-> Managed(t), files |-> t.files]

Answered(k) ==
    CASE k.answer = "none" -> "none"
      [] k.answer \in {"changed", "unchanged"} -> "ok"
      [] OTHER -> "failed"

(* A snapshot that is refused was never asked for.                         *)
View(k) ==
    IF k.snapshot \in Invalid
    THEN [snapshot |-> 0, held |-> FALSE, answer |-> "none"]
    ELSE [snapshot |-> k.snapshot, held |-> k.held, answer |-> Answered(k)]

Target == INSTANCE PublicationTarget WITH
    Callers <- Callers,
    Snapshots <- Snapshots,
    Contents <- {Content(t) : t \in Foreign},
    branch <- Content(Tree(head)),
    asked <- asked,
    call <- [p \in Callers |-> View(call[p])]

(* Publisher implements PublicationTarget: for all that happens on the     *)
(* branch, a call is one atomic update or none, and its answer is true.    *)
ImplementsTarget == Target!Spec

=============================================================================
